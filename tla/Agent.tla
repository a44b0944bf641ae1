-------------------------------- MODULE Agent --------------------------------
(***************************************************************************)
(* The agent, src/src/agent/mod.rs: boot loads the system prompt and       *)
(* registers the tools, process_input takes one turn of the conversation.  *)
(* It composes ContextWindow, one push_message at a time, and ToolRegistry.*)
(*                                                                         *)
(* An input is a record: the branch of the command parser it takes, the    *)
(* length of its text and, for /tool, the call.  The length of an echoed   *)
(* reply follows from the input; that of any other reply is one of         *)
(* ReplyLengths.                                                           *)
(***************************************************************************)
EXTENDS Integers, Sequences

CONSTANTS
    MaxTokens,       \* 4096 in Agent::new
    PromptLength,    \* bytes of the system prompt
    Inputs,          \* inputs process_input may be called with
    ReplyLengths,    \* lengths of the replies that are not echoes
    MaxPushes,       \* bound: messages pushed in a behaviour
    Words, Values, NotANumber, MinInt, MaxInt, Profiles

ASSUME LimitsAssumption == MaxTokens \in Nat /\ MaxPushes \in Nat
ASSUME PromptAssumption == PromptLength \in Nat
ASSUME ReplyAssumption == ReplyLengths \subseteq Nat
ASSUME InputsAssumption ==
    \A in \in Inputs : in.len \in Nat /\ in.kind \in {"tool", "context", "help", "text"}

VARIABLES
    messages, current_tokens, total_evicted, pushing, log,   \* ContextWindow
    checks, tools, memory, call, reply, told,                \* ToolRegistry
    pc,         \* where boot or process_input is
    input,      \* the argument of process_input
    response,   \* the length of the reply to return
    turn,       \* log positions of the messages of the current turn
    report      \* what the last /context was answered with

windowVars == <<messages, current_tokens, total_evicted, pushing, log>>
toolVars == <<checks, tools, memory, call, reply, told>>
vars == <<windowVars, toolVars, pc, input, response, turn, report>>

Roles == {"System", "User", "Assistant", "Tool"}

Window == INSTANCE ContextWindow WITH
             Role <- Roles, Lengths <- Nat
Tools == INSTANCE ToolRegistry WITH Operands <- MinInt - 1 .. MaxInt + 1

EchoPrefix == 7      \* "[echo] "
EchoCommand == 11    \* "/tool echo "

(* The boot prompt is one message that fits in the empty window. *)
ASSUME PromptFitsAssumption == Window!estimate_tokens(PromptLength) <= MaxTokens

(* The length of what the echo tool returns for a command of len bytes;    *)
(* a command without argument echoes nothing.                              *)
Echoed(len) == EchoPrefix + (IF len < EchoCommand THEN 0 ELSE len - EchoCommand)

NoInput == [kind |-> "none", len |-> 0]

Init ==
    /\ Window!Init
    /\ Tools!Init
    /\ pc = "off"
    /\ input = NoInput
    /\ response = 0
    /\ turn = <<>>
    /\ report = [tokens |-> 0, messages |-> 0, evicted |-> 0]

(* push_message is called, and the agent goes on at `next` when it returns.*)
Push(role, len, next) ==
    /\ Window!push_message(role, len)
    /\ turn' = IF role = "User" THEN <<Len(log) + 1>> ELSE Append(turn, Len(log) + 1)
    /\ pc' = next

(* The steps of a push_message that is under way. *)
Pushing ==
    /\ Window!evict_oldest \/ Window!push_back
    /\ UNCHANGED <<toolVars, pc, input, response, turn, report>>

At(label) == pc = label /\ pushing = Window!NoMessage /\ Tools!Running

boot ==
    /\ At("off")
    /\ Push("System", PromptLength, "prompt")
    /\ UNCHANGED <<toolVars, input, response, report>>

(* The four calls of register that end boot. *)
boot_register ==
    /\ At("prompt")
    /\ tools' = {"calc", "store", "recall", "echo"}
    /\ pc' = "idle"
    /\ UNCHANGED <<windowVars, checks, memory, call, reply, told, input, response, turn,
                   report>>

process_input(in) ==
    /\ At("idle")
    /\ Len(log) + 3 <= MaxPushes      \* room for the messages of a turn
    /\ Push("User", in.len, "parse")
    /\ input' = in
    /\ UNCHANGED <<toolVars, response, report>>

(* ContextWindow::status. *)
status == [tokens |-> current_tokens, messages |-> Len(messages), evicted |-> total_evicted]

(* The replies that need no tool: /context, /help and the echo of a text.  *)
reply_directly ==
    /\ At("parse")
    /\ input.kind # "tool"
    /\ response' \in IF input.kind = "text" THEN {input.len + EchoPrefix}
                     ELSE ReplyLengths
    /\ report' = IF input.kind = "context" THEN status ELSE report
    /\ Push("Assistant", response', "return")
    /\ UNCHANGED <<toolVars, input>>

(* tool_registry.execute with the name and arguments of the input. *)
execute(c) ==
    \/ c.tool = "unknown" /\ Tools!execute_unknown(c.tool)
    \/ c.tool = "usage" /\ Tools!usage_error(c.name)
    \/ c.tool = "calc" /\ Tools!exec_calculator(c.a, c.op, c.b)
    \/ c.tool = "store" /\ Tools!exec_memory_store(c.key, c.value)
    \/ c.tool = "recall" /\ Tools!exec_memory_recall(c.key)
    \/ c.tool = "echo" /\ Tools!exec_echo(c.text)

(* handle_tool_call: a result is pushed as a Tool message before it is     *)
(* returned, an error becomes the response without one.                    *)
handle_tool_call_silent ==
    /\ At("parse")
    /\ input.kind = "tool"
    /\ execute(input.call)
    /\ IF reply'.status = "panic"
       THEN UNCHANGED <<windowVars, pc, response, turn>>
       ELSE /\ response' \in IF input.call.tool = "echo"
                             THEN {Echoed(input.len)}
                             ELSE ReplyLengths
            /\ Push("Assistant", response', "return")
    /\ UNCHANGED <<input, report>>
handle_tool_call ==
    /\ At("parse")
    /\ input.kind = "tool"
    /\ execute(input.call)
    /\ IF reply'.status = "panic"
       THEN UNCHANGED <<windowVars, pc, response, turn>>
       ELSE /\ response' \in IF input.call.tool = "echo"
                             THEN {Echoed(input.len)}
                             ELSE ReplyLengths
            /\ IF reply'.status = "ok"
               THEN Push("Tool", response', "respond")
               ELSE Push("Assistant", response', "return")
    /\ UNCHANGED <<input, report>>

(* The tool's result is the response. *)
push_response ==
    /\ At("respond")
    /\ Push("Assistant", response, "return")
    /\ UNCHANGED <<toolVars, input, response, report>>

return ==
    /\ At("return")
    /\ pc' = "idle"
    /\ UNCHANGED <<windowVars, toolVars, input, response, turn, report>>

Next ==
    \/ Pushing
    \/ boot
    \/ boot_register
    \/ \E in \in Inputs : process_input(in)
    \/ reply_directly
    \/ handle_tool_call
    \/ push_response
    \/ return

(* The kernel is the only caller and a call runs to its end; whether       *)
(* another input comes is not up to the agent.                             *)
Fairness ==
    /\ WF_vars(Pushing)
    /\ WF_vars(boot \/ boot_register)
    /\ WF_vars(reply_directly \/ handle_tool_call \/ push_response \/ return)

Spec == Init /\ [][Next]_vars /\ Fairness

-----------------------------------------------------------------------------

Panicked == reply = Tools!Panic
Returned(label) == pc = label /\ pushing = Window!NoMessage

(* The answer to /context accounts for the conversation up to and with     *)
(* the question: each message pushed is one of those it says are in the    *)
(* window or were evicted.  Since then only the answer was pushed, which   *)
(* may have evicted more.                                                  *)
StatusAccounts ==
    Returned("return") /\ input.kind = "context" =>
        /\ report.messages + report.evicted = turn[1]
        /\ Len(messages) + total_evicted = turn[1] + 1
        /\ report.evicted <= total_evicted
        /\ report.tokens <= MaxTokens \/ report.messages = 2

(* After boot the window is over its limit only while it holds nothing but *)
(* the prompt and one message that does not fit beside it.                 *)
OverLimitByOneMessage ==
    pc \notin {"off", "prompt"} /\ current_tokens > MaxTokens =>
        /\ Len(messages) = 2
        /\ messages[1].token_count + messages[2].token_count > MaxTokens

(* The messages of a turn whose sizes fit in the window beside the prompt  *)
(* are all still there when process_input returns: a turn never evicts its *)
(* own question or tool result unless it has to.                           *)
TurnRetained ==
    LET size(k) == IF k <= Len(turn) THEN log[turn[k]].token_count ELSE 0
    IN  /\ Returned("return")
        /\ log[1].token_count + size(1) + size(2) + size(3) <= MaxTokens
        => /\ Len(messages) > Len(turn)
           /\ \A k \in 1 .. Len(turn) :
                 messages[Len(messages) - Len(turn) + k] = log[turn[k]]

(* A turn appends the user's input, the tool's result if a tool was called *)
(* and succeeded, and the response, in this order and nothing else.        *)
TurnShape ==
    Returned("return") =>
        LET roles == [k \in 1 .. Len(turn) |-> log[turn[k]].role]
        IN  roles = IF input.kind = "tool" /\ reply.status = "ok"
                    THEN <<"User", "Tool", "Assistant">>
                    ELSE <<"User", "Assistant">>

(* "The result (or error) is added to the context window as a Tool         *)
(* message."                                                               *)
ToolOutcomeRecorded ==
    Returned("return") /\ input.kind = "tool" =>
        \E k \in 1 .. Len(turn) : log[turn[k]].role = "Tool"

(* process_input returns a response to every input, unless the kernel      *)
(* panicked in the calculator.                                             *)
Responds == pc = "parse" ~> pc = "idle" \/ Panicked
=============================================================================
