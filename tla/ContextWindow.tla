---------------------------- MODULE ContextWindow ----------------------------
(***************************************************************************)
(* The agent's bounded working memory, src/src/agent/context.rs.           *)
(*                                                                         *)
(* push_message is a loop: estimate the tokens of the new message, evict   *)
(* the oldest non-System message while the window would overflow, append.  *)
(* Each iteration of the loop is one step here, so that the invariant of   *)
(* the loop is an invariant of the specification.  `pushing` is the        *)
(* message whose push_message is on the call stack.                        *)
(*                                                                         *)
(* The text of a message is abstracted to its length in bytes.  Messages   *)
(* carry an identity, the position of their push_message call in `log`:    *)
(* the code does not number messages, the properties below have to tell    *)
(* two equal ones apart.                                                   *)
(***************************************************************************)
EXTENDS Naturals, Sequences, FiniteSets

CONSTANTS
    Role,        \* the roles of context.rs, one of them "System"
    Lengths,     \* byte lengths a message content may have
    MaxTokens,   \* max_tokens, the argument of ContextWindow::new
    MaxPushes    \* bound: calls of push_message in a behaviour

ASSUME RoleAssumption == "System" \in Role
ASSUME LengthsAssumption == Lengths \subseteq Nat
ASSUME MaxTokensAssumption == MaxTokens \in Nat
ASSUME MaxPushesAssumption == MaxPushes \in Nat

VARIABLES
    messages,        \* VecDeque<Message>, front first
    current_tokens,
    total_evicted,
    pushing,         \* the message being pushed, or NoMessage
    log              \* history: every message push_message was called with

vars == <<messages, current_tokens, total_evicted, pushing, log>>

Message == [id : Nat, role : Role, token_count : Nat \ {0}]
NoMessage == [id |-> 0, role |-> "System", token_count |-> 0]

(* Four bytes to the token, rounded down, but never zero tokens. *)
estimate_tokens(len) == IF len \div 4 = 0 THEN 1 ELSE len \div 4

IsSystem(m) == m.role = "System"

Init ==
    /\ messages = <<>>
    /\ current_tokens = 0
    /\ total_evicted = 0
    /\ pushing = NoMessage
    /\ log = <<>>

(* push_message is entered. *)
push_message(role, len) ==
    /\ pushing = NoMessage
    /\ Len(log) < MaxPushes
    /\ pushing' = [id |-> Len(log) + 1, role |-> role,
                   token_count |-> estimate_tokens(len)]
    /\ log' = Append(log, pushing')
    /\ UNCHANGED <<messages, current_tokens, total_evicted>>

(* The condition of the eviction loop. *)
Overflows_off_by_one == current_tokens + pushing.token_count > MaxTokens + 1
Overflows == current_tokens + pushing.token_count > MaxTokens

(* Indices evict_oldest may remove: the first message that is not System. *)
EvictableAnyRole == {i \in 1 .. Len(messages) : \A j \in 1 .. i - 1 : FALSE}
EvictableNewest ==
    {i \in 1 .. Len(messages) :
        /\ ~ IsSystem(messages[i])
        /\ \A j \in i + 1 .. Len(messages) : IsSystem(messages[j])}
Evictable ==
    {i \in 1 .. Len(messages) :
        /\ ~ IsSystem(messages[i])
        /\ \A j \in 1 .. i - 1 : IsSystem(messages[j])}

saturating_sub(a, b) == IF a < b THEN 0 ELSE a - b

(* VecDeque::remove. *)
remove(s, i) == SubSeq(s, 1, i - 1) \o SubSeq(s, i + 1, Len(s))

(* One iteration of the loop that finds a message to evict. *)
evict_oldest_keeps_tokens ==
    /\ pushing # NoMessage
    /\ Overflows
    /\ \E i \in Evictable : messages' = remove(messages, i)
    /\ total_evicted' = total_evicted + 1
    /\ UNCHANGED <<current_tokens, pushing, log>>
evict_oldest_uncounted ==
    /\ pushing # NoMessage
    /\ Overflows
    /\ \E i \in Evictable :
          /\ messages' = remove(messages, i)
          /\ current_tokens' =
                saturating_sub(current_tokens, messages[i].token_count)
    /\ UNCHANGED <<total_evicted, pushing, log>>
evict_oldest ==
    /\ pushing # NoMessage
    /\ Overflows
    /\ \E i \in Evictable :
          /\ messages' = remove(messages, i)
          /\ current_tokens' =
                saturating_sub(current_tokens, messages[i].token_count)
    /\ total_evicted' = total_evicted + 1
    /\ UNCHANGED <<pushing, log>>

(* The loop ends, because the message fits or because only System messages *)
(* remain (the break), and the message is appended either way.             *)
push_back_without_loop ==
    /\ pushing # NoMessage
    /\ current_tokens' = current_tokens + pushing.token_count
    /\ messages' = Append(messages, pushing)
    /\ pushing' = NoMessage
    /\ UNCHANGED <<total_evicted, log>>
push_back_no_break ==
    /\ pushing # NoMessage
    /\ ~ Overflows
    /\ current_tokens' = current_tokens + pushing.token_count
    /\ messages' = Append(messages, pushing)
    /\ pushing' = NoMessage
    /\ UNCHANGED <<total_evicted, log>>
push_back ==
    /\ pushing # NoMessage
    /\ ~ Overflows \/ Evictable = {}
    /\ current_tokens' = current_tokens + pushing.token_count
    /\ messages' = Append(messages, pushing)
    /\ pushing' = NoMessage
    /\ UNCHANGED <<total_evicted, log>>

Next ==
    \/ \E role \in Role, len \in Lengths : push_message(role, len)
    \/ evict_oldest
    \/ push_back

(* push_message runs to its end: the loop body and the append are taken.   *)
Fairness == WF_vars(evict_oldest) /\ WF_vars(push_back)

Spec == Init /\ [][Next]_vars /\ Fairness

-----------------------------------------------------------------------------

(* Messages whose push_message has returned or is running. *)
InWindow == {messages[i] : i \in DOMAIN messages}
Live == InWindow \cup {pushing}

(* The tokens of the messages in the window, one element per token. *)
TokensHeld == UNION {{m.id} \X (1 .. m.token_count) : m \in InWindow}

(* Type invariant of the fields of ContextWindow and of the call. *)
TypeOK ==
    /\ messages \in Seq(Message)
    /\ current_tokens \in Nat
    /\ total_evicted \in Nat
    /\ pushing \in Message \cup {NoMessage}
    /\ log \in Seq(Message)

(* current_tokens, which push_message adds to and evict_oldest subtracts   *)
(* from with saturation, is at all times the number of tokens of the       *)
(* messages in the deque: no sequence of pushes makes the counter drift.   *)
TokenAccounting == current_tokens = Cardinality(TokensHeld)

(* The window exceeds max_tokens only when the loop of push_message ended  *)
(* by its break: all messages but the last one are then System messages.   *)
(* One ordinary message that is too long is therefore the first to go at   *)
(* the next push, and the window is back under its limit if that one fits. *)
OverLimitOnlyBySystem ==
    current_tokens > MaxTokens =>
        \A i \in 1 .. Len(messages) - 1 : IsSystem(messages[i])

(* evict_oldest never takes a System message, wherever it is in the deque: *)
(* every System message ever pushed is still there.                        *)
SystemNeverEvicted ==
    \A i \in 1 .. Len(log) : IsSystem(log[i]) => log[i] \in Live

(* Eviction goes strictly from the oldest to the newest, over any number   *)
(* of calls: while a message is in the window, so is every later one, and  *)
(* the deque is in the order of the calls.                                 *)
RetainedIsRecent ==
    /\ \A i, j \in 1 .. Len(log) :
          /\ i < j
          /\ ~ IsSystem(log[i])
          /\ log[i] \in InWindow
          => log[j] \in Live
    /\ \A i, j \in 1 .. Len(messages) :
          i < j => messages[i].id < messages[j].id

(* total_evicted counts the messages that were pushed and are gone.        *)
EvictionsCounted ==
    total_evicted = Cardinality({i \in 1 .. Len(log) : log[i] \notin Live})

(* The eviction loop of push_message terminates: a call returns.           *)
PushReturns == pushing # NoMessage ~> pushing = NoMessage
=============================================================================
