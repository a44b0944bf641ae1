----------------------------- MODULE AgentProofs -----------------------------
(***************************************************************************)
(* The safety properties of Agent, for any max_tokens the prompt fits in,  *)
(* any inputs, any lengths of the replies and any number of turns.         *)
(*                                                                         *)
(* Every step of the agent is a step of ContextWindow or leaves the window *)
(* alone, so what ContextWindowProofs shows of the window holds here too.  *)
(* WindowInv and Evicts are what is used of it; the last part of this      *)
(* module obtains them from the theorems of ContextWindowProofs, through   *)
(* the instance WP.  To this the agent adds, in AInv, that the prompt is   *)
(* the first message and the only System message:                          *)
(* Held says that the window is then the prompt followed by the messages   *)
(* from one position of the log on.  Turn says what the log ends in at     *)
(* each point of process_input, Kept that a turn that fits has not been    *)
(* evicted from, and Answered what /context was answered with.             *)
(***************************************************************************)
EXTENDS Agent, SequenceTheorems, TLAPS

(* Messages whose push_message is running. *)
Pending == IF pushing = Window!NoMessage THEN 0 ELSE 1

Held ==
    /\ Len(log) > 0 =>
          /\ Window!IsSystem(log[1])
          /\ log[1].token_count = Window!estimate_tokens(PromptLength)
    /\ \A i \in 2 .. Len(log) : ~ Window!IsSystem(log[i])
    /\ Len(messages) + total_evicted + Pending = Len(log)
    /\ Len(log) <= 1 => total_evicted = 0
    /\ Len(log) > 1 => Len(messages) > 0
    /\ Len(messages) > 0 => messages[1] = log[1]
    /\ \A i \in 2 .. Len(messages) : messages[i] = log[i + total_evicted]

(* The window: what current_tokens is while there are few messages, and    *)
(* where the message being pushed is.                                      *)
WindowInv ==
    /\ Window!TypeOK /\ Window!OverLimitOnlyBySystem
    /\ pushing # Window!NoMessage => pushing = log[Len(log)]
    /\ Len(messages) = 1 => current_tokens = messages[1].token_count
    /\ Len(messages) = 2 =>
          current_tokens = messages[1].token_count + messages[2].token_count
    /\ Len(messages) = 3 =>
          current_tokens = messages[1].token_count + messages[2].token_count
                              + messages[3].token_count

(* What an eviction does to the positions of the window. *)
Evicts ==
    Window!evict_oldest =>
        \E i \in Window!Evictable :
            /\ Len(messages') = Len(messages) - 1
            /\ \A j \in 1 .. Len(messages) - 1 :
                  messages'[j] = IF j < i THEN messages[j] ELSE messages[j + 1]

Labels == {"off", "prompt", "idle", "parse", "respond", "return"}
InTurn == pc \in {"parse", "respond", "return"}

Control ==
    /\ pc \in Labels
    /\ response \in Nat
    /\ pc = "off" <=> Len(log) = 0
    /\ pc = "prompt" => Len(log) = 1
    /\ pc \in {"idle", "parse", "respond", "return"} /\ Len(log) = 1 => Pending = 0
    /\ InTurn => input \in Inputs /\ Len(log) > Len(turn)

(* The roles of the turn's messages, which are the last of the log. *)
TurnIs(roles) ==
    /\ turn \in Seq(Nat) /\ Len(turn) = Len(roles)
    /\ \A k \in 1 .. Len(turn) :
          /\ turn[k] = Len(log) - Len(turn) + k
          /\ log[turn[k]].role = roles[k]

ToolSucceeded == input.kind = "tool" /\ reply.status = "ok"

Turn ==
    /\ pc = "parse" => TurnIs(<<"User">>)
    /\ pc = "respond" => TurnIs(<<"User", "Tool">>) /\ ToolSucceeded
    /\ pc = "return" =>
          TurnIs(IF ToolSucceeded THEN <<"User", "Tool", "Assistant">>
                 ELSE <<"User", "Assistant">>)

Size(k) == IF k <= Len(turn) THEN log[turn[k]].token_count ELSE 0
TurnFits == log[1].token_count + Size(1) + Size(2) + Size(3) <= MaxTokens

(* Evictions have not reached a turn that fits. *)
Kept == InTurn /\ TurnFits => total_evicted + 1 < turn[1]

Answered ==
    pc = "return" /\ input.kind = "context" =>
        /\ report.messages + report.evicted = turn[1]
        /\ report.evicted \in Nat /\ report.evicted <= total_evicted
        /\ report.tokens <= MaxTokens \/ report.messages = 2

AInv == Held /\ Control /\ Turn /\ Kept /\ Answered

-----------------------------------------------------------------------------
(* What the fields of the window are. *)
LEMMA WindowTypes ==
    ASSUME WindowInv
    PROVE  /\ Len(messages) \in Nat /\ Len(log) \in Nat
           /\ current_tokens \in Nat /\ total_evicted \in Nat
           /\ \A i \in 1 .. Len(messages) :
                 messages[i].role \in Roles /\ messages[i].token_count \in Nat \ {0}
           /\ \A i \in 1 .. Len(log) :
                 log[i].role \in Roles /\ log[i].token_count \in Nat \ {0}
<1>1. /\ messages \in Seq(Window!Message) /\ log \in Seq(Window!Message)
      /\ current_tokens \in Nat /\ total_evicted \in Nat
  BY DEF WindowInv, Window!TypeOK
<1>2. /\ Len(messages) \in Nat /\ Len(log) \in Nat
      /\ \A i \in 1 .. Len(messages) : messages[i] \in Window!Message
      /\ \A i \in 1 .. Len(log) : log[i] \in Window!Message
  BY <1>1, LenProperties, ElementOfSeq
<1>3. QED
  BY <1>1, <1>2 DEF Window!Message

(* The entry of push_message appends to the log. *)
LEMMA PushIs ==
    ASSUME WindowInv, NEW role \in Roles, NEW len \in Nat, Window!push_message(role, len)
    PROVE  /\ Pending = 0 /\ Pending' = 1
           /\ Len(log') = Len(log) + 1
           /\ \A i \in 1 .. Len(log) : log'[i] = log[i]
           /\ log'[Len(log) + 1].role = role
           /\ log'[Len(log) + 1].token_count = Window!estimate_tokens(len)
           /\ UNCHANGED <<messages, current_tokens, total_evicted>>
<1>1. /\ pushing = Window!NoMessage
      /\ pushing' = [id |-> Len(log) + 1, role |-> role,
                     token_count |-> Window!estimate_tokens(len)]
      /\ log' = Append(log, pushing')
      /\ UNCHANGED <<messages, current_tokens, total_evicted>>
  BY DEF Window!push_message
<1>2. log \in Seq(Window!Message) /\ Len(log) \in Nat
  BY LenProperties DEF WindowInv, Window!TypeOK
<1>3. pushing' \in Window!Message
  <2>1. Window!estimate_tokens(len) \in Nat \ {0}
    BY DEF Window!estimate_tokens
  <2> QED
    BY <1>1, <1>2, <2>1 DEF Window!Message
<1>4. pushing' # Window!NoMessage
  BY <1>3 DEF Window!Message, Window!NoMessage
<1>5. /\ Len(log') = Len(log) + 1
      /\ \A i \in 1 .. Len(log) : log'[i] = log[i]
      /\ log'[Len(log) + 1] = pushing'
  BY <1>1, <1>2, <1>3, AppendProperties
<1>6. QED
  BY <1>1, <1>4, <1>5 DEF Pending

(* Where the prompt is the first message and no later one is System, the   *)
(* window stays the prompt and the end of the log when push_message is     *)
(* entered.                                                                *)
LEMMA PushHeld ==
    ASSUME WindowInv, Held, NEW role \in Roles, NEW len \in Nat,
           Window!push_message(role, len),
           Len(log) = 0 => role = "System" /\ len = PromptLength,
           Len(log) > 0 => role # "System"
    PROVE  Held'
<1>1. /\ Pending = 0 /\ Pending' = 1
      /\ Len(log') = Len(log) + 1
      /\ \A i \in 1 .. Len(log) : log'[i] = log[i]
      /\ log'[Len(log) + 1].role = role
      /\ log'[Len(log) + 1].token_count = Window!estimate_tokens(len)
      /\ UNCHANGED <<messages, current_tokens, total_evicted>>
  BY PushIs
<1>2. Len(messages) \in Nat /\ Len(log) \in Nat /\ total_evicted \in Nat
  BY WindowTypes
<1>3. /\ Window!IsSystem(log'[1])
      /\ log'[1].token_count = Window!estimate_tokens(PromptLength)
  <2>1. CASE Len(log) = 0
    BY <1>1, <2>1 DEF Window!IsSystem
  <2>2. CASE Len(log) > 0
    BY <1>1, <1>2, <2>2 DEF Held
  <2> QED
    BY <1>2, <2>1, <2>2
<1>4. \A i \in 2 .. Len(log') : ~ Window!IsSystem(log'[i])
  <2> TAKE i \in 2 .. Len(log')
  <2>1. CASE i = Len(log) + 1
    BY <1>1, <1>2, <2>1 DEF Window!IsSystem
  <2>2. CASE i \in 2 .. Len(log)
    <3>1. ~ Window!IsSystem(log[i]) /\ log'[i] = log[i]
      BY <1>1, <1>2, <2>2 DEF Held
    <3> QED
      BY <3>1 DEF Window!IsSystem
  <2> QED
    BY <1>1, <1>2, <2>1, <2>2
<1>5. /\ Len(messages') + total_evicted' + Pending' = Len(log')
      /\ Len(messages) + total_evicted = Len(log)
  BY <1>1, <1>2 DEF Held
<1>6. Len(log') <= 1 => total_evicted' = 0
  BY <1>1, <1>2 DEF Held
<1>7. Len(log') > 1 => Len(messages') > 0
  BY <1>1, <1>2, <1>5 DEF Held
<1>8. Len(messages') > 0 => messages'[1] = log'[1]
  BY <1>1, <1>2, <1>5 DEF Held
<1>9. \A i \in 2 .. Len(messages') : messages'[i] = log'[i + total_evicted']
  <2> TAKE i \in 2 .. Len(messages')
  <2>1. messages[i] = log[i + total_evicted]
    BY <1>1 DEF Held
  <2>2. i + total_evicted \in 1 .. Len(log)
    BY <1>1, <1>2, <1>5
  <2> QED
    BY <1>1, <2>1, <2>2
<1>10. QED
  BY <1>3, <1>4, <1>5, <1>6, <1>7, <1>8, <1>9 DEF Held
(* A message is evicted only from behind the prompt. *)
LEMMA EvictIs ==
    ASSUME WindowInv, Evicts, Held, Window!evict_oldest
    PROVE  /\ Len(messages) >= 2
           /\ Len(messages') = Len(messages) - 1
           /\ messages'[1] = messages[1]
           /\ \A j \in 2 .. Len(messages) - 1 : messages'[j] = messages[j + 1]
           /\ total_evicted' = total_evicted + 1
           /\ Pending = 1 /\ Pending' = 1
           /\ Window!Overflows
           /\ UNCHANGED <<pushing, log>>
<1>1. PICK i \in Window!Evictable :
        /\ Len(messages') = Len(messages) - 1
        /\ \A j \in 1 .. Len(messages) - 1 :
              messages'[j] = IF j < i THEN messages[j] ELSE messages[j + 1]
  BY DEF Evicts
<1>2. /\ pushing # Window!NoMessage /\ Window!Overflows
      /\ total_evicted' = total_evicted + 1
      /\ UNCHANGED <<pushing, log>>
  BY DEF Window!evict_oldest
<1>3. Len(messages) \in Nat /\ Len(log) \in Nat /\ total_evicted \in Nat
  BY WindowTypes
<1>4. /\ i \in 1 .. Len(messages)
      /\ ~ Window!IsSystem(messages[i])
      /\ \A j \in 1 .. i - 1 : Window!IsSystem(messages[j])
  BY DEF Window!Evictable
<1>5. Pending = 1 /\ Pending' = 1
  BY <1>1, <1>2 DEF Pending
<1>6. Len(messages) + total_evicted + 1 = Len(log)
  BY <1>5 DEF Held
<1>7. i # 1
  <2>1. Len(messages) > 0 /\ Len(log) > 0
    BY <1>3, <1>4, <1>6
  <2>2. messages[1] = log[1] /\ Window!IsSystem(log[1])
    BY <2>1 DEF Held
  <2> QED
    BY <1>4, <2>2
<1>8. ~ (i > 2)
  <2> SUFFICES ASSUME i > 2 PROVE FALSE
    OBVIOUS
  <2>1. 2 \in 1 .. i - 1 /\ 2 \in 2 .. Len(messages)
    BY <1>3, <1>4
  <2>2. messages[2] = log[2 + total_evicted]
    BY <2>1 DEF Held
  <2>3. 2 + total_evicted \in 2 .. Len(log)
    BY <1>3, <1>6, <2>1
  <2>4. ~ Window!IsSystem(log[2 + total_evicted])
    BY <2>3 DEF Held
  <2> QED
    BY <1>4, <2>1, <2>2, <2>4
<1>9. i = 2
  BY <1>3, <1>4, <1>7, <1>8
<1>10. QED
  BY <1>1, <1>2, <1>3, <1>4, <1>5, <1>9

(* An eviction leaves the prompt and the messages of the log from one      *)
(* position further on.                                                    *)
LEMMA EvictHeld ==
    ASSUME WindowInv, Evicts, Held, Window!evict_oldest
    PROVE  Held'
<1>1. /\ Len(messages) >= 2
      /\ Len(messages') = Len(messages) - 1
      /\ messages'[1] = messages[1]
      /\ \A j \in 2 .. Len(messages) - 1 : messages'[j] = messages[j + 1]
      /\ total_evicted' = total_evicted + 1
      /\ Pending = 1 /\ Pending' = 1
      /\ log' = log
  BY EvictIs
<1>2. Len(messages) \in Nat /\ Len(log) \in Nat /\ total_evicted \in Nat
  BY WindowTypes
<1>3. Len(messages) + total_evicted + 1 = Len(log)
  BY <1>1 DEF Held
<1>4. /\ Window!IsSystem(log'[1])
      /\ log'[1].token_count = Window!estimate_tokens(PromptLength)
      /\ \A i \in 2 .. Len(log') : ~ Window!IsSystem(log'[i])
      /\ messages'[1] = log'[1]
  BY <1>1, <1>2, <1>3 DEF Held, Window!IsSystem
<1>5. \A i \in 2 .. Len(messages') : messages'[i] = log'[i + total_evicted']
  <2> TAKE i \in 2 .. Len(messages')
  <2>1. i \in 2 .. Len(messages) - 1 /\ i + 1 \in 2 .. Len(messages)
    BY <1>1, <1>2
  <2>2. messages[i + 1] = log[(i + 1) + total_evicted]
    BY <2>1 DEF Held
  <2>3. (i + 1) + total_evicted = i + total_evicted'
    BY <1>1, <1>2
  <2> QED
    BY <1>1, <2>1, <2>2, <2>3
<1>6. /\ Len(messages') + total_evicted' + Pending' = Len(log')
      /\ ~ (Len(log') <= 1)
      /\ Len(messages') > 0
  BY <1>1, <1>2, <1>3
<1>7. QED
  BY <1>4, <1>5, <1>6 DEF Held

(* The end of push_message puts the last message of the log at the end of  *)
(* the window.                                                             *)
LEMMA BackIs ==
    ASSUME WindowInv, Held, Window!push_back
    PROVE  /\ Pending = 1 /\ Pending' = 0
           /\ Len(messages') = Len(messages) + 1
           /\ \A j \in 1 .. Len(messages) : messages'[j] = messages[j]
           /\ messages'[Len(messages) + 1] = log[Len(log)]
           /\ UNCHANGED <<total_evicted, log>>
<1>1. /\ pushing # Window!NoMessage /\ pushing' = Window!NoMessage
      /\ messages' = Append(messages, pushing)
      /\ UNCHANGED <<total_evicted, log>>
  BY DEF Window!push_back
<1>2. messages \in Seq(Window!Message) /\ pushing \in Window!Message
  BY <1>1 DEF WindowInv, Window!TypeOK
<1>3. pushing = log[Len(log)]
  BY <1>1 DEF WindowInv
<1>4. /\ Len(messages') = Len(messages) + 1
      /\ \A j \in 1 .. Len(messages) : messages'[j] = messages[j]
      /\ messages'[Len(messages) + 1] = pushing
  BY <1>1, <1>2, AppendProperties
<1>5. QED
  BY <1>1, <1>3, <1>4 DEF Pending

(* The message pushed extends the run of the log the window holds. *)
LEMMA BackHeld ==
    ASSUME WindowInv, Held, Window!push_back
    PROVE  Held'
<1>1. /\ Pending = 1 /\ Pending' = 0
      /\ Len(messages') = Len(messages) + 1
      /\ \A j \in 1 .. Len(messages) : messages'[j] = messages[j]
      /\ messages'[Len(messages) + 1] = log[Len(log)]
      /\ total_evicted' = total_evicted /\ log' = log
  BY BackIs
<1>2. Len(messages) \in Nat /\ Len(log) \in Nat /\ total_evicted \in Nat
  BY WindowTypes
<1>3. Len(messages) + total_evicted + 1 = Len(log)
  BY <1>1 DEF Held
<1>4. /\ Window!IsSystem(log'[1])
      /\ log'[1].token_count = Window!estimate_tokens(PromptLength)
      /\ \A i \in 2 .. Len(log') : ~ Window!IsSystem(log'[i])
      /\ Len(log') <= 1 => total_evicted' = 0
  BY <1>1, <1>2, <1>3 DEF Held, Window!IsSystem
<1>5. messages'[1] = log'[1]
  <2>1. CASE Len(messages) = 0
    <3>1. Len(log) = 1
      BY <1>2, <1>3, <2>1 DEF Held
    <3> QED
      BY <1>1, <2>1, <3>1
  <2>2. CASE Len(messages) > 0
    BY <1>1, <1>2, <2>2 DEF Held
  <2> QED
    BY <1>2, <2>1, <2>2
<1>6. \A i \in 2 .. Len(messages') : messages'[i] = log'[i + total_evicted']
  <2> TAKE i \in 2 .. Len(messages')
  <2>1. CASE i = Len(messages) + 1
    <3>1. i + total_evicted = Len(log)
      BY <1>2, <1>3, <2>1
    <3> QED
      BY <1>1, <2>1, <3>1
  <2>2. CASE i \in 2 .. Len(messages)
    <3>1. messages[i] = log[i + total_evicted] /\ i \in 1 .. Len(messages)
      BY <1>2, <2>2 DEF Held
    <3> QED
      BY <1>1, <3>1
  <2> QED
    BY <1>1, <1>2, <2>1, <2>2
<1>7. /\ Len(messages') + total_evicted' + Pending' = Len(log')
      /\ Len(messages') > 0
  BY <1>1, <1>2, <1>3
<1>8. QED
  BY <1>4, <1>5, <1>6, <1>7 DEF Held
(* With the prompt in it, the window is over its limit only while it holds *)
(* one message more, and the two do not fit together.                      *)
LEMMA OverLimit ==
    ASSUME WindowInv, Held, Len(messages) > 0, current_tokens > MaxTokens
    PROVE  /\ Len(messages) = 2
           /\ messages[1].token_count + messages[2].token_count > MaxTokens
<1>1. /\ Len(messages) \in Nat /\ Len(log) \in Nat /\ total_evicted \in Nat
      /\ MaxTokens \in Nat /\ current_tokens \in Nat
  BY WindowTypes, LimitsAssumption
<1>2. /\ Len(messages) = 1 => current_tokens = messages[1].token_count
      /\ Len(messages) = 2 =>
            current_tokens = messages[1].token_count + messages[2].token_count
  BY DEF WindowInv
<1>3. Len(messages) + total_evicted <= Len(log)
  <2>1. Pending \in {0, 1}
    BY DEF Pending
  <2> QED
    BY <1>1, <2>1 DEF Held
<1>4. ~ (Len(messages) > 2)
  <2> SUFFICES ASSUME Len(messages) > 2 PROVE FALSE
    OBVIOUS
  <2>1. Window!IsSystem(messages[2])
    <3>1. \A i \in 1 .. Len(messages) - 1 : Window!IsSystem(messages[i])
      BY DEF WindowInv, Window!OverLimitOnlyBySystem
    <3>2. 2 \in 1 .. Len(messages) - 1
      BY <1>1
    <3> QED
      BY <3>1, <3>2
  <2>2. messages[2] = log[2 + total_evicted] /\ 2 + total_evicted \in 2 .. Len(log)
    BY <1>1, <1>3 DEF Held
  <2>3. ~ Window!IsSystem(log[2 + total_evicted])
    BY <2>2 DEF Held
  <2> QED
    BY <2>1, <2>2, <2>3
<1>5. Len(messages) # 1
  <2> SUFFICES ASSUME Len(messages) = 1 PROVE FALSE
    OBVIOUS
  <2>1. messages[1] = log[1] /\ log[1].token_count = Window!estimate_tokens(PromptLength)
    BY <1>1, <1>3 DEF Held
  <2>2. Window!estimate_tokens(PromptLength) <= MaxTokens
    BY PromptFitsAssumption
  <2>3. current_tokens <= MaxTokens
    BY <1>2, <2>1, <2>2
  <2> QED
    BY <1>1, <2>3
<1>6. Len(messages) = 2
  <2>1. \A n \in Nat : n > 0 /\ ~ (n > 2) /\ n # 1 => n = 2
    OBVIOUS
  <2> QED
    BY <1>1, <1>4, <1>5, <2>1
<1>7. QED
  BY <1>2, <1>6

(* The turn's messages are the last one, two or three of the log. *)
LEMMA TurnEnds ==
    ASSUME WindowInv, Control, Turn, InTurn
    PROVE  /\ turn \in Seq(Nat)
           /\ Len(turn) \in {1, 2, 3}
           /\ Len(log) > Len(turn)
           /\ \A k \in 1 .. Len(turn) : turn[k] = Len(log) - Len(turn) + k
           /\ \A k \in 1 .. Len(turn) : log[turn[k]].token_count \in Nat \ {0}
<1>1. \E roles \in {<<"User">>, <<"User", "Tool">>, <<"User", "Assistant">>,
                    <<"User", "Tool", "Assistant">>} : TurnIs(roles)
  BY DEF Turn, InTurn
<1>2. PICK roles \in {<<"User">>, <<"User", "Tool">>, <<"User", "Assistant">>,
                      <<"User", "Tool", "Assistant">>} : TurnIs(roles)
  BY <1>1
<1>3. Len(roles) \in {1, 2, 3}
  OBVIOUS
<1>4. /\ turn \in Seq(Nat) /\ Len(turn) \in {1, 2, 3}
      /\ \A k \in 1 .. Len(turn) : turn[k] = Len(log) - Len(turn) + k
  BY <1>2, <1>3 DEF TurnIs
<1>5. Len(log) > Len(turn)
  BY DEF Control
<1>6. \A k \in 1 .. Len(turn) : turn[k] \in 1 .. Len(log)
  BY <1>4, <1>5, WindowTypes
<1>7. QED
  BY <1>4, <1>5, <1>6, WindowTypes

(* An eviction during a turn that fits takes an older message: if only     *)
(* the prompt and messages of the turn were left, there would be room.     *)
LEMMA EvictKept ==
    ASSUME WindowInv, Evicts, Held, Control, Turn, Kept, Window!evict_oldest,
           InTurn, TurnFits
    PROVE  total_evicted' + 1 < turn[1]
<1> DEFINE k == Len(turn)
           e == total_evicted
           p == log[1].token_count
<1>1. /\ Len(messages) \in Nat /\ Len(log) \in Nat /\ e \in Nat
      /\ MaxTokens \in Nat /\ current_tokens \in Nat
  BY WindowTypes, LimitsAssumption
<1>2. /\ k \in {1, 2, 3} /\ Len(log) > k
      /\ \A i \in 1 .. k : turn[i] = Len(log) - k + i
      /\ \A i \in 1 .. k : log[turn[i]].token_count \in Nat
  BY TurnEnds
<1>3. /\ Len(messages) >= 2 /\ total_evicted' = e + 1
      /\ Pending = 1 /\ Window!Overflows
  BY EvictIs
<1>4. /\ Len(messages) + e + 1 = Len(log)
      /\ messages[1] = log[1]
      /\ \A i \in 2 .. Len(messages) : messages[i] = log[i + e]
  BY <1>1, <1>3 DEF Held
<1>5. pushing = log[Len(log)] /\ current_tokens + pushing.token_count > MaxTokens
  <2>1. pushing # Window!NoMessage
    BY <1>3 DEF Pending
  <2> QED
    BY <1>3, <2>1 DEF WindowInv, Window!Overflows
<1>6. turn[1] = Len(log) - k + 1 /\ turn[k] = Len(log) /\ e + 1 < turn[1]
  BY <1>1, <1>2 DEF Kept
<1>7. p \in Nat
  BY <1>1, <1>2, WindowTypes
<1>8. SUFFICES ASSUME e + 2 = turn[1] PROVE FALSE
  <2>1. turn[1] \in Nat
    BY <1>1, <1>2, <1>6
  <2>2. \A a, b \in Nat : a + 1 < b /\ a + 2 # b => (a + 1) + 1 < b
    OBVIOUS
  <2> QED
    BY <1>1, <1>3, <1>6, <2>1, <2>2
<1>9. Len(messages) = k
  BY <1>1, <1>2, <1>4, <1>6, <1>8
<1>10. CASE k = 2
  <2>1. messages[2] = log[turn[1]]
    BY <1>1, <1>4, <1>8, <1>9, <1>10
  <2>2. current_tokens = p + log[turn[1]].token_count
    <3>1. current_tokens = messages[1].token_count + messages[2].token_count
      BY <1>9, <1>10 DEF WindowInv
    <3> QED
      BY <1>4, <2>1, <3>1
  <2>3. p + log[turn[1]].token_count + log[turn[2]].token_count + 0 <= MaxTokens
    BY <1>10 DEF TurnFits, Size
  <2>4. pushing.token_count = log[turn[2]].token_count
    BY <1>5, <1>6, <1>10
  <2>5. log[turn[1]].token_count \in Nat /\ log[turn[2]].token_count \in Nat
    BY <1>2, <1>10
  <2>6. \A a, b, c \in Nat : a + b + c + 0 <= MaxTokens => ~ (a + b + c > MaxTokens)
    BY <1>1
  <2> QED
    BY <1>5, <1>7, <2>2, <2>3, <2>4, <2>5, <2>6
<1>11. CASE k = 3
  <2>1. messages[2] = log[turn[1]] /\ messages[3] = log[turn[2]]
    <3>1. 2 + e = turn[1] /\ 3 + e = turn[2]
      BY <1>1, <1>2, <1>6, <1>8, <1>11
    <3> QED
      BY <1>4, <1>9, <1>11, <3>1
  <2>2. current_tokens = p + log[turn[1]].token_count + log[turn[2]].token_count
    <3>1. current_tokens = messages[1].token_count + messages[2].token_count
                              + messages[3].token_count
      BY <1>9, <1>11 DEF WindowInv
    <3> QED
      BY <1>4, <2>1, <3>1
  <2>3. p + log[turn[1]].token_count + log[turn[2]].token_count
          + log[turn[3]].token_count <= MaxTokens
    BY <1>11 DEF TurnFits, Size
  <2>4. pushing.token_count = log[turn[3]].token_count
    BY <1>5, <1>6, <1>11
  <2>5. /\ log[turn[1]].token_count \in Nat /\ log[turn[2]].token_count \in Nat
        /\ log[turn[3]].token_count \in Nat
    BY <1>2, <1>11
  <2>6. \A a, b, c, d \in Nat : a + b + c + d <= MaxTokens => ~ (a + b + c + d > MaxTokens)
    BY <1>1
  <2> QED
    BY <1>5, <1>7, <2>2, <2>3, <2>4, <2>5, <2>6
<1>12. QED
  BY <1>2, <1>3, <1>9, <1>10, <1>11
(* A message pushed in the middle of a turn extends the turn; a turn that  *)
(* fits with it did so before.                                             *)
LEMMA PushInTurn ==
    ASSUME WindowInv, Held, Control, Turn, Kept,
           pc \in {"parse", "respond"}, pc' \in {"respond", "return"},
           NEW role \in {"Tool", "Assistant"}, NEW len \in Nat,
           Window!push_message(role, len), turn' = Append(turn, Len(log) + 1)
    PROVE  /\ Held' /\ Kept'
           /\ Len(log') = Len(log) + 1 /\ Len(log) \in Nat /\ Len(log) > 1
           /\ Len(log') > Len(turn')
           /\ turn'[1] = turn[1]
           /\ pc = "parse" => TurnIs(<<"User", role>>)'
           /\ pc = "respond" => TurnIs(<<"User", "Tool", role>>)'
<1> DEFINE k == Len(turn)
           n == Len(log)
<1>1. /\ turn \in Seq(Nat) /\ k \in {1, 2, 3} /\ n > k
      /\ \A i \in 1 .. k : turn[i] = n - k + i
      /\ \A i \in 1 .. k : log[turn[i]].token_count \in Nat \ {0}
  BY TurnEnds DEF InTurn
<1>2. /\ n \in Nat /\ Len(messages) \in Nat /\ total_evicted \in Nat
      /\ MaxTokens \in Nat
  BY WindowTypes, LimitsAssumption
<1>3. /\ Len(log') = n + 1
      /\ \A i \in 1 .. n : log'[i] = log[i]
      /\ log'[n + 1].role = role
      /\ log'[n + 1].token_count \in Nat
      /\ UNCHANGED <<messages, current_tokens, total_evicted>>
  <2>1. role \in Roles
    BY DEF Roles
  <2>2. Window!estimate_tokens(len) \in Nat
    BY DEF Window!estimate_tokens
  <2> QED
    BY <2>1, <2>2, PushIs
<1>4. Held'
  <2>1. role \in Roles /\ role # "System" /\ n # 0
    BY <1>1, <1>2 DEF Roles
  <2> QED
    BY <2>1, PushHeld
<1>5. /\ turn' \in Seq(Nat) /\ Len(turn') = k + 1
      /\ \A i \in 1 .. k : turn'[i] = turn[i]
      /\ turn'[k + 1] = n + 1
  BY <1>1, <1>2, AppendProperties
<1>6. \A i \in 1 .. k : turn[i] \in 1 .. n /\ log'[turn'[i]] = log[turn[i]]
  <2> TAKE i \in 1 .. k
  <2>1. turn[i] = n - k + i /\ n > k /\ k \in Nat
    BY <1>1
  <2>2. turn[i] \in 1 .. n
    BY <2>1, <1>2
  <2> HIDE DEF n
  <2> QED
    BY <2>2, <1>3, <1>5
<1>7. turn'[1] = turn[1]
  BY <1>1, <1>5
<1>8. \A i \in 1 .. k + 1 : turn'[i] = (n + 1) - (k + 1) + i
  <2> TAKE i \in 1 .. k + 1
  <2>1. CASE i = k + 1
    BY <1>1, <1>2, <1>5, <2>1
  <2>2. CASE i \in 1 .. k
    BY <1>1, <1>2, <1>5, <2>2
  <2> QED
    BY <1>1, <2>1, <2>2
<1>9. CASE pc = "parse"
  <2>1. TurnIs(<<"User">>)
    BY <1>9 DEF Turn
  <2>2. k = 1 /\ log[turn[1]].role = "User"
    BY <2>1 DEF TurnIs
  <2>3. /\ log'[turn'[1]].role = "User" /\ log'[turn'[2]].role = role
        /\ Len(turn') = 2
    BY <1>3, <1>5, <1>6, <2>2
  <2>4. \A i \in 1 .. 2 : log'[turn'[i]].role = <<"User", role>>[i]
    BY <2>3
  <2>5. TurnIs(<<"User", role>>)'
    BY <1>3, <1>5, <1>8, <2>2, <2>3, <2>4 DEF TurnIs
  <2>6. TurnFits' => TurnFits
    <3>1. Size(2) = 0 /\ Size(3) = 0 /\ Size(3)' = 0 /\ Size(1)' = Size(1)
      BY <1>5, <1>6, <2>2 DEF Size
    <3>2. Size(2)' \in Nat /\ Size(1) \in Nat
      BY <1>1, <1>3, <1>5, <2>2 DEF Size
    <3>3. log'[1].token_count = log[1].token_count /\ log[1].token_count \in Nat
      BY <1>1, <1>2, <1>3, WindowTypes
    <3>4. \A a, b, c \in Nat : a + b + c + 0 <= MaxTokens => a + b + 0 + 0 <= MaxTokens
      BY <1>2
    <3> QED
      BY <3>1, <3>2, <3>3, <3>4 DEF TurnFits
  <2> QED
    BY <1>1, <1>2, <1>3, <1>4, <1>5, <1>7, <1>9, <2>5, <2>6 DEF Kept, InTurn
<1>10. CASE pc = "respond"
  <2>1. TurnIs(<<"User", "Tool">>)
    BY <1>10 DEF Turn
  <2>2. k = 2 /\ log[turn[1]].role = "User" /\ log[turn[2]].role = "Tool"
    BY <2>1 DEF TurnIs
  <2>3. /\ log'[turn'[1]].role = "User" /\ log'[turn'[2]].role = "Tool"
        /\ log'[turn'[3]].role = role /\ Len(turn') = 3
    BY <1>3, <1>5, <1>6, <2>2
  <2>4. \A i \in 1 .. 3 : log'[turn'[i]].role = <<"User", "Tool", role>>[i]
    BY <2>3
  <2>5. TurnIs(<<"User", "Tool", role>>)'
    BY <1>3, <1>5, <1>8, <2>2, <2>3, <2>4 DEF TurnIs
  <2>6. TurnFits' => TurnFits
    <3>1. Size(3) = 0 /\ Size(1)' = Size(1) /\ Size(2)' = Size(2)
      BY <1>5, <1>6, <2>2 DEF Size
    <3>2. Size(3)' \in Nat /\ Size(1) \in Nat /\ Size(2) \in Nat
      BY <1>1, <1>3, <1>5, <2>2 DEF Size
    <3>3. log'[1].token_count = log[1].token_count /\ log[1].token_count \in Nat
      BY <1>1, <1>2, <1>3, WindowTypes
    <3>4. \A a, b, c, d \in Nat : a + b + c + d <= MaxTokens => a + b + c + 0 <= MaxTokens
      BY <1>2
    <3> QED
      BY <3>1, <3>2, <3>3, <3>4 DEF TurnFits
  <2> QED
    BY <1>1, <1>2, <1>3, <1>4, <1>5, <1>7, <1>10, <2>5, <2>6 DEF Kept, InTurn
<1>11. QED
  BY <1>9, <1>10

(* The prompt is in the window whenever the agent is not pushing it. *)
LEMMA PromptHeld ==
    ASSUME WindowInv, Held, Control, pc \in {"idle", "parse", "respond", "return"}
    PROVE  Len(messages) > 0
<1>1. Len(messages) \in Nat /\ Len(log) \in Nat /\ total_evicted \in Nat
  BY WindowTypes
<1>2. Len(log) > 0
  BY <1>1 DEF Control
<1>3. CASE Len(log) > 1
  BY <1>3 DEF Held
<1>4. CASE Len(log) = 1
  <2>1. Pending = 0
    BY <1>4 DEF Control
  <2> QED
    BY <1>1, <1>4, <2>1 DEF Held
<1>5. QED
  BY <1>1, <1>2, <1>3, <1>4
(* A push of the agent is a step of the window. *)
LEMMA PushWindow ==
    ASSUME NEW role \in Roles, NEW len \in Nat, NEW next,
           WindowInv, Push(role, len, next)
    PROVE  /\ Window!push_message(role, len)
           /\ Pending = 0 /\ Pending' = 1
           /\ pc' = next
<1>1. Window!push_message(role, len) /\ pc' = next
  BY DEF Push
<1>2. QED
  BY <1>1, PushIs

(* The steps of push_message keep the invariant. *)
LEMMA PushingStep == WindowInv /\ Evicts /\ AInv /\ Pushing => AInv'
<1> SUFFICES ASSUME WindowInv, Evicts, AInv, Pushing PROVE AInv'
  OBVIOUS
<1>1. WindowInv /\ Held /\ Control /\ Turn /\ Kept /\ Answered
  BY DEF AInv
<1>2. /\ Window!evict_oldest \/ Window!push_back
      /\ UNCHANGED <<toolVars, pc, input, response, turn, report>>
  BY DEF Pushing
<1>3. UNCHANGED <<pc, input, response, turn, report, reply>>
  BY <1>2 DEF toolVars
<1>5. Held'
  BY <1>1, <1>2, EvictHeld, BackHeld
<1>6. /\ log' = log /\ total_evicted \in Nat
      /\ Pending = 1 /\ Pending' \in {0, 1}
      /\ total_evicted' = total_evicted \/ total_evicted' = total_evicted + 1
  BY <1>1, <1>2, EvictIs, BackIs, WindowTypes
<1>7. Control'
  BY <1>1, <1>3, <1>6 DEF Control, InTurn
<1>8. Turn'
  BY <1>1, <1>3, <1>6 DEF Turn, TurnIs, ToolSucceeded
<1>9. Kept'
  <2> SUFFICES ASSUME InTurn', TurnFits' PROVE total_evicted' + 1 < turn'[1]
    BY DEF Kept
  <2>1. InTurn /\ TurnFits
    BY <1>3, <1>6 DEF InTurn, TurnFits, Size
  <2>2. CASE Window!evict_oldest
    BY <1>1, <1>3, <2>1, <2>2, EvictKept
  <2>3. CASE Window!push_back
    <3>1. total_evicted' = total_evicted
      BY <1>1, <2>3, BackIs
    <3> QED
      BY <1>1, <1>3, <2>1, <3>1 DEF Kept
  <2> QED
    BY <1>2, <2>2, <2>3
<1>10. Answered'
  BY <1>1, <1>3, <1>6 DEF Answered
<1>11. QED
  BY <1>5, <1>7, <1>8, <1>9, <1>10 DEF AInv

(* boot pushes the prompt into the empty window. *)
LEMMA BootStep == WindowInv /\ AInv /\ boot => AInv'
<1> SUFFICES ASSUME WindowInv, AInv, boot PROVE AInv'
  OBVIOUS
<1>1. WindowInv /\ Held /\ Control
  BY DEF AInv
<1>2. /\ pc = "off" /\ Push("System", PromptLength, "prompt")
      /\ response' = response
  BY DEF boot, At
<1>3. "System" \in Roles /\ PromptLength \in Nat
  BY PromptAssumption DEF Roles
<1>4. /\ Window!push_message("System", PromptLength)
      /\ pc' = "prompt"
  BY <1>1, <1>2, <1>3, PushWindow
<1>5. Len(log) = 0
  BY <1>1, <1>2 DEF Control
<1>6. Len(log') = 1
  <2>1. Len(log') = Len(log) + 1
    BY <1>1, <1>3, <1>4, PushIs
  <2> QED
    BY <1>5, <2>1
<1>7. Held'
  BY <1>1, <1>3, <1>4, <1>5, PushHeld
<1>8. Control'
  BY <1>1, <1>2, <1>4, <1>6 DEF Control, Labels, InTurn
<1>9. Turn' /\ Kept' /\ Answered'
  BY <1>4 DEF Turn, Kept, Answered, InTurn
<1>10. QED
  BY <1>4, <1>7, <1>8, <1>9 DEF AInv

(* A step that leaves the window alone and is not in a turn afterwards     *)
(* keeps the invariant.                                                    *)
LEMMA OutOfTurnStep ==
    ASSUME WindowInv, AInv, UNCHANGED <<windowVars, response>>,
           pc \in {"prompt", "return"}, pc' = "idle", pushing = Window!NoMessage
    PROVE  AInv'
<1>1. WindowInv /\ Held /\ Control
  BY DEF AInv
<1>2. UNCHANGED <<messages, current_tokens, total_evicted, pushing, log, response>>
  BY DEF windowVars
<1>4. Held'
  BY <1>1, <1>2 DEF Held, Pending
<1>5. Pending = 0 /\ Pending' = 0
  BY <1>2 DEF Pending
<1>6. Control'
  BY <1>1, <1>2, <1>5 DEF Control, Labels, InTurn
<1>7. Turn' /\ Kept' /\ Answered'
  BY DEF Turn, Kept, Answered, InTurn
<1>8. QED
  BY <1>4, <1>6, <1>7 DEF AInv

(* A turn starts with the user's message. *)
LEMMA ProcessInputStep ==
    ASSUME WindowInv, AInv, NEW in \in Inputs, process_input(in)
    PROVE  AInv'
<1>1. WindowInv /\ Held /\ Control
  BY DEF AInv
<1>2. /\ pc = "idle" /\ Push("User", in.len, "parse")
      /\ input' = in /\ response' = response
  BY DEF process_input, At
<1>3. "User" \in Roles /\ in.len \in Nat
  BY InputsAssumption DEF Roles
<1>4. /\ Window!push_message("User", in.len)
      /\ pc' = "parse" /\ Pending = 0
  BY <1>1, <1>2, <1>3, PushWindow
<1>5. Len(log) \in Nat /\ Len(messages) \in Nat /\ total_evicted \in Nat
  BY <1>1, WindowTypes
<1>6. /\ Len(log') = Len(log) + 1
      /\ log'[Len(log) + 1].role = "User"
      /\ total_evicted' = total_evicted
  BY <1>1, <1>3, <1>4, PushIs
<1>7. turn' = <<Len(log) + 1>>
  BY <1>2 DEF Push
<1>8. Len(messages) > 0 /\ Len(log) > 0
  <2>1. Len(messages) > 0
    BY <1>1, <1>2, PromptHeld
  <2>2. Len(log) # 0
    BY <1>1, <1>2 DEF Control
  <2> QED
    BY <1>5, <2>1, <2>2
<1>9. Held'
  BY <1>1, <1>3, <1>4, <1>8, PushHeld
<1>10. turn' \in Seq(Nat) /\ Len(turn') = 1 /\ turn'[1] = Len(log) + 1
  BY <1>5, <1>7
<1>11. Control'
  BY <1>1, <1>2, <1>4, <1>5, <1>6, <1>8, <1>10 DEF Control, Labels, InTurn
<1>12. Turn'
  <2>1. TurnIs(<<"User">>)'
    BY <1>5, <1>6, <1>10 DEF TurnIs
  <2> QED
    BY <1>4, <2>1 DEF Turn
<1>13. Kept'
  <2>1. Len(messages) + total_evicted = Len(log)
    BY <1>1, <1>4, <1>5 DEF Held
  <2> QED
    BY <1>5, <1>6, <1>8, <1>10, <2>1 DEF Kept
<1>14. Answered'
  BY <1>4 DEF Answered
<1>15. QED
  BY <1>4, <1>9, <1>11, <1>12, <1>13, <1>14 DEF AInv
(* What holds when the agent pushes a tool's result or its response. *)
LEMMA AnswerStep ==
    ASSUME WindowInv, AInv, pc \in {"parse", "respond"},
           NEW role \in {"Tool", "Assistant"}, NEW len \in Nat,
           NEW next \in {"respond", "return"},
           Push(role, len, next), input' = input, response' \in Nat
    PROVE  /\ Held' /\ Control' /\ Kept'
           /\ pc' = next
           /\ turn'[1] = turn[1] /\ total_evicted' = total_evicted
           /\ pc = "parse" => /\ TurnIs(<<"User", role>>)'
                              /\ turn[1] = Len(log)
                              /\ Len(messages) + total_evicted = Len(log)
           /\ pc = "respond" => TurnIs(<<"User", "Tool", role>>)'
<1>1. WindowInv /\ Held /\ Control /\ Turn /\ Kept
  BY DEF AInv
<1>2. role \in Roles /\ role # "User"
  BY DEF Roles
<1>3. /\ Window!push_message(role, len)
      /\ pc' = next /\ Pending = 0
  BY <1>1, <1>2, PushWindow
<1>4. turn' = Append(turn, Len(log) + 1)
  BY <1>2 DEF Push
<1>5. /\ Held' /\ Kept'
      /\ Len(log') = Len(log) + 1 /\ Len(log) \in Nat /\ Len(log) > 1
      /\ Len(log') > Len(turn')
      /\ turn'[1] = turn[1]
      /\ pc = "parse" => TurnIs(<<"User", role>>)'
      /\ pc = "respond" => TurnIs(<<"User", "Tool", role>>)'
  BY <1>1, <1>3, <1>4, PushInTurn
<1>6. total_evicted' = total_evicted
  BY <1>1, <1>2, <1>3, PushIs
<1>7. Control'
  BY <1>1, <1>3, <1>5 DEF Control, Labels, InTurn
<1>8. ASSUME pc = "parse"
      PROVE  turn[1] = Len(log) /\ Len(messages) + total_evicted = Len(log)
  <2>1. TurnIs(<<"User">>)
    BY <1>1, <1>8 DEF Turn
  <2>2. Len(turn) = 1
    BY <2>1 DEF TurnIs
  <2>3. turn[1] = Len(log) - 1 + 1
    BY <2>1, <2>2 DEF TurnIs
  <2>4. Len(messages) \in Nat /\ total_evicted \in Nat
    BY <1>1, WindowTypes
  <2>5. Len(messages) + total_evicted + 0 = Len(log)
    BY <1>1, <1>3 DEF Held
  <2> QED
    BY <1>5, <2>3, <2>4, <2>5
<1>9. QED
  BY <1>3, <1>5, <1>6, <1>7, <1>8

(* /context, /help and the echo of a text are answered at once. *)
LEMMA ReplyDirectlyStep == WindowInv /\ AInv /\ reply_directly => AInv'
<1> SUFFICES ASSUME WindowInv, AInv, reply_directly PROVE AInv'
  OBVIOUS
<1>1. /\ pc = "parse" /\ input.kind # "tool" /\ input' = input
      /\ Push("Assistant", response', "return")
      /\ report' = IF input.kind = "context" THEN status ELSE report
      /\ response' \in IF input.kind = "text" THEN {input.len + EchoPrefix}
                       ELSE ReplyLengths
  BY DEF reply_directly, At
<1>2. response' \in Nat
  <2>1. input.len \in Nat
    BY <1>1, InputsAssumption DEF AInv, Control, InTurn
  <2> QED
    BY <1>1, <2>1, ReplyAssumption DEF EchoPrefix
<1>3. /\ Held' /\ Control' /\ Kept'
      /\ pc' = "return"
      /\ turn'[1] = turn[1] /\ total_evicted' = total_evicted
      /\ TurnIs(<<"User", "Assistant">>)'
      /\ turn[1] = Len(log)
      /\ Len(messages) + total_evicted = Len(log)
  <2> DEFINE r == response'
  <2>1. r \in Nat /\ Push("Assistant", r, "return") /\ response' = r
    BY <1>1, <1>2
  <2> HIDE DEF r
  <2> QED
    BY <1>1, <1>2, <2>1, AnswerStep
<1>4. Turn'
  BY <1>1, <1>3 DEF Turn, ToolSucceeded
<1>5. Answered'
  <2> SUFFICES ASSUME input.kind = "context"
               PROVE  /\ report'.messages + report'.evicted = turn'[1]
                      /\ report'.evicted \in Nat /\ report'.evicted <= total_evicted'
                      /\ report'.tokens <= MaxTokens \/ report'.messages = 2
    BY <1>1 DEF Answered
  <2>1. /\ report'.tokens = current_tokens /\ report'.messages = Len(messages)
        /\ report'.evicted = total_evicted
    BY <1>1 DEF status
  <2>2. WindowInv /\ Held /\ Control
    BY DEF AInv
  <2>3. current_tokens \in Nat /\ total_evicted \in Nat /\ MaxTokens \in Nat
    BY <2>2, WindowTypes, LimitsAssumption
  <2>4. Len(messages) > 0
    BY <1>1, <2>2, PromptHeld
  <2>5. current_tokens > MaxTokens => Len(messages) = 2
    BY <2>2, <2>4, OverLimit
  <2> QED
    BY <1>3, <2>1, <2>3, <2>5
<1>6. QED
  BY <1>3, <1>4, <1>5 DEF AInv

(* A tool is called, and its result or its error pushed. *)
LEMMA ToolCallStep == WindowInv /\ AInv /\ handle_tool_call => AInv'
<1> SUFFICES ASSUME WindowInv, AInv, handle_tool_call PROVE AInv'
  OBVIOUS
<1>1. pc = "parse" /\ input.kind = "tool" /\ input' = input /\ report' = report
  BY DEF handle_tool_call, At
<1>2. CASE reply'.status = "panic"
  <2>1. UNCHANGED <<messages, current_tokens, total_evicted, pushing, log>>
        /\ UNCHANGED <<pc, response, turn, input, report>>
    BY <1>1, <1>2 DEF handle_tool_call, windowVars
  <2>2. WindowInv /\ Held /\ Control /\ Turn /\ Kept
    BY DEF AInv
  <2>4. Held' /\ Control' /\ Kept'
    BY <2>1, <2>2 DEF Held, Control, Kept, InTurn, Pending, TurnFits, Size
  <2>5. Turn' /\ Answered'
    BY <1>1, <2>1, <2>2 DEF Turn, TurnIs, Answered
  <2> QED
    BY <2>4, <2>5 DEF AInv
<1>3. CASE reply'.status # "panic"
  <2>1. /\ response' \in IF input.call.tool = "echo" THEN {Echoed(input.len)}
                         ELSE ReplyLengths
        /\ IF reply'.status = "ok" THEN Push("Tool", response', "respond")
           ELSE Push("Assistant", response', "return")
    BY <1>3 DEF handle_tool_call
  <2> DEFINE r == response'
  <2>2. r \in Nat /\ response' = r
    <3>1. input.len \in Nat
      BY <1>1, InputsAssumption DEF AInv, Control, InTurn
    <3>2. Echoed(input.len) \in Nat
      BY <3>1 DEF Echoed, EchoPrefix, EchoCommand
    <3> QED
      BY <2>1, <3>2, ReplyAssumption
  <2>3. IF reply'.status = "ok" THEN Push("Tool", r, "respond")
        ELSE Push("Assistant", r, "return")
    BY <2>1
  <2> HIDE DEF r
  <2>4. CASE reply'.status = "ok"
    <3>1. /\ Held' /\ Control' /\ Kept'
          /\ pc' = "respond" /\ TurnIs(<<"User", "Tool">>)'
      BY <1>1, <2>2, <2>3, <2>4, AnswerStep
    <3>2. Turn' /\ Answered'
      BY <1>1, <2>4, <3>1 DEF Turn, ToolSucceeded, Answered
    <3> QED
      BY <3>1, <3>2 DEF AInv
  <2>5. CASE reply'.status # "ok"
    <3>1. /\ Held' /\ Control' /\ Kept'
          /\ pc' = "return" /\ TurnIs(<<"User", "Assistant">>)'
      BY <1>1, <2>2, <2>3, <2>5, AnswerStep
    <3>2. Turn' /\ Answered'
      BY <1>1, <2>5, <3>1 DEF Turn, ToolSucceeded, Answered
    <3> QED
      BY <3>1, <3>2 DEF AInv
  <2> QED
    BY <2>4, <2>5
<1>4. QED
  BY <1>2, <1>3

(* The result of the tool is pushed again, as the response. *)
LEMMA PushResponseStep == WindowInv /\ AInv /\ push_response => AInv'
<1> SUFFICES ASSUME WindowInv, AInv, push_response PROVE AInv'
  OBVIOUS
<1>1. /\ pc = "respond" /\ Push("Assistant", response, "return")
      /\ UNCHANGED <<toolVars, input, response>>
  BY DEF push_response, At
<1>2. input' = input /\ response' = response /\ reply' = reply
  BY <1>1 DEF toolVars
<1>3. response \in Nat /\ ToolSucceeded
  BY <1>1 DEF AInv, Control, Turn
<1>4. /\ Held' /\ Control' /\ Kept'
      /\ pc' = "return" /\ TurnIs(<<"User", "Tool", "Assistant">>)'
  BY <1>1, <1>2, <1>3, AnswerStep
<1>5. Turn' /\ Answered'
  BY <1>2, <1>3, <1>4 DEF Turn, ToolSucceeded, Answered
<1>6. QED
  BY <1>4, <1>5 DEF AInv
(* The invariant holds before boot. *)
LEMMA InitAInv == Init => AInv
<1> SUFFICES ASSUME Init PROVE AInv
  OBVIOUS
<1>1. Window!Init
  BY DEF Init
<1>3. /\ messages = <<>> /\ log = <<>> /\ total_evicted = 0
      /\ pushing = Window!NoMessage
  BY <1>1 DEF Window!Init
<1>4. pc = "off" /\ response = 0
  BY DEF Init
<1>5. Held
  BY <1>3 DEF Held, Pending
<1>6. Control
  BY <1>3, <1>4 DEF Control, Labels, InTurn
<1>7. Turn /\ Kept /\ Answered
  BY <1>4 DEF Turn, Kept, Answered, InTurn
<1>8. QED
  BY <1>5, <1>6, <1>7 DEF AInv

(* The invariant is inductive. *)
LEMMA NextAInv == WindowInv /\ Evicts /\ AInv /\ [Next]_vars => AInv'
<1> SUFFICES ASSUME WindowInv, Evicts, AInv, [Next]_vars PROVE AInv'
  OBVIOUS
<1>1. CASE boot_register \/ return
  <2>1. /\ UNCHANGED <<windowVars, response>> /\ pc' = "idle"
        /\ pc \in {"prompt", "return"} /\ pushing = Window!NoMessage
    BY <1>1 DEF boot_register, return, At
  <2> QED
    BY <2>1, OutOfTurnStep
<1>2. CASE UNCHANGED vars
  <2>1. /\ UNCHANGED <<messages, current_tokens, total_evicted, pushing, log>>
        /\ UNCHANGED <<pc, input, response, turn, report, reply>>
    BY <1>2 DEF vars, windowVars, toolVars
  <2>2. WindowInv /\ Held /\ Control /\ Turn /\ Kept /\ Answered
    BY DEF AInv
  <2>4. Held' /\ Control' /\ Kept'
    BY <2>1, <2>2 DEF Held, Control, Kept, InTurn, Pending, TurnFits, Size
  <2>5. Turn' /\ Answered'
    BY <2>1, <2>2 DEF Turn, TurnIs, ToolSucceeded, Answered
  <2> QED
    BY <2>4, <2>5 DEF AInv
<1>3. QED
  BY <1>1, <1>2, PushingStep, BootStep, ProcessInputStep, ReplyDirectlyStep,
     ToolCallStep, PushResponseStep DEF Next

(* Every step of the agent is a step of its window or leaves it alone. *)
LEMMA UsesWindow ==
    WindowInv /\ Evicts /\ AInv /\ [Next]_vars => [Window!Next]_(Window!vars)
<1> SUFFICES ASSUME WindowInv, Evicts, AInv, [Next]_vars PROVE [Window!Next]_(Window!vars)
  OBVIOUS
<1>1. ASSUME NEW role \in Roles, NEW len \in Nat, NEW next, Push(role, len, next)
      PROVE  Window!Next
  BY <1>1 DEF Push, Window!Next
<1>2. ASSUME UNCHANGED windowVars PROVE UNCHANGED Window!vars
  BY <1>2 DEF windowVars, Window!vars
<1>3. CASE Pushing
  BY <1>3 DEF Pushing, Window!Next
<1>4. CASE boot
  BY <1>1, <1>4, PromptAssumption DEF boot, Roles
<1>5. CASE boot_register \/ return
  BY <1>2, <1>5 DEF boot_register, return
<1>6. CASE \E in \in Inputs : process_input(in)
  BY <1>1, <1>6, InputsAssumption DEF process_input, Roles
<1>7. response \in Nat /\ response' \in Nat
  <2>1. AInv'
    BY NextAInv
  <2> QED
    BY <2>1 DEF AInv, Control
<1>8. CASE reply_directly
  BY <1>1, <1>7, <1>8 DEF reply_directly, Roles
<1>9. CASE handle_tool_call
  <2>1. CASE reply'.status = "panic"
    BY <1>2, <1>9, <2>1 DEF handle_tool_call
  <2>2. CASE reply'.status # "panic"
    BY <1>1, <1>7, <1>9, <2>2 DEF handle_tool_call, Roles
  <2> QED
    BY <2>1, <2>2
<1>10. CASE push_response
  BY <1>1, <1>7, <1>10 DEF push_response, Roles
<1>11. CASE UNCHANGED vars
  BY <1>2, <1>11 DEF vars
<1> QED
  BY <1>3, <1>4, <1>5, <1>6, <1>8, <1>9, <1>10, <1>11 DEF Next

(* The invariants give the account /context is answered with. *)
LEMMA StatusAccountsFollows == WindowInv /\ AInv => StatusAccounts
<1> SUFFICES ASSUME WindowInv, AInv, pc = "return", pushing = Window!NoMessage,
                    input.kind = "context"
             PROVE  /\ report.messages + report.evicted = turn[1]
                    /\ Len(messages) + total_evicted = turn[1] + 1
                    /\ report.evicted <= total_evicted
                    /\ report.tokens <= MaxTokens \/ report.messages = 2
  BY DEF StatusAccounts, Returned
<1>1. WindowInv /\ Held /\ Control /\ Turn /\ Answered
  BY DEF AInv
<1>2. Len(messages) \in Nat /\ Len(log) \in Nat /\ total_evicted \in Nat
  BY <1>1, WindowTypes
<1>3. TurnIs(<<"User", "Assistant">>)
  BY <1>1 DEF Turn, ToolSucceeded
<1>4. Len(turn) = 2
  BY <1>3 DEF TurnIs
<1>5. turn[1] = Len(log) - 2 + 1
  BY <1>3, <1>4 DEF TurnIs
<1>6. Pending = 0
  BY DEF Pending
<1>7. Len(messages) + total_evicted = turn[1] + 1
  BY <1>1, <1>2, <1>5, <1>6 DEF Held
<1> QED
  BY <1>1, <1>7 DEF Answered

(* They bound by how much the window is over its limit. *)
LEMMA OverLimitByOneMessageFollows == WindowInv /\ AInv => OverLimitByOneMessage
<1> SUFFICES ASSUME WindowInv, AInv, pc \notin {"off", "prompt"}, current_tokens > MaxTokens
             PROVE  /\ Len(messages) = 2
                    /\ messages[1].token_count + messages[2].token_count > MaxTokens
  BY DEF OverLimitByOneMessage
<1>1. WindowInv /\ Held /\ Control
  BY DEF AInv
<1>2. pc \in {"idle", "parse", "respond", "return"}
  BY <1>1 DEF Control, Labels
<1>3. Len(messages) > 0
  BY <1>1, <1>2, PromptHeld
<1> QED
  BY <1>1, <1>3, OverLimit

(* They keep the messages of a turn that fits. *)
LEMMA TurnRetainedFollows == WindowInv /\ AInv => TurnRetained
<1> SUFFICES ASSUME WindowInv, AInv, pc = "return", pushing = Window!NoMessage, TurnFits
             PROVE  /\ Len(messages) > Len(turn)
                    /\ \A k \in 1 .. Len(turn) :
                          messages[Len(messages) - Len(turn) + k] = log[turn[k]]
  BY DEF TurnRetained, Returned, TurnFits, Size
<1>1. WindowInv /\ Held /\ Control /\ Turn /\ Kept /\ InTurn
  BY DEF AInv, InTurn
<1>2. Len(messages) \in Nat /\ Len(log) \in Nat /\ total_evicted \in Nat
  BY <1>1, WindowTypes
<1>3. /\ Len(turn) \in {1, 2, 3}
      /\ \A k \in 1 .. Len(turn) : turn[k] = Len(log) - Len(turn) + k
  BY <1>1, TurnEnds
<1>4. Pending = 0
  BY DEF Pending
<1>5. Len(messages) + total_evicted = Len(log)
  BY <1>1, <1>2, <1>4 DEF Held
<1>6. total_evicted + 1 < Len(log) - Len(turn) + 1
  <2>1. turn[1] = Len(log) - Len(turn) + 1
    BY <1>3
  <2> QED
    BY <1>1, <2>1 DEF Kept
<1>7. Len(messages) > Len(turn)
  BY <1>2, <1>3, <1>5, <1>6
<1>8. ASSUME NEW k \in 1 .. Len(turn)
      PROVE  messages[Len(messages) - Len(turn) + k] = log[turn[k]]
  <2> DEFINE i == Len(messages) - Len(turn) + k
  <2>1. i \in 2 .. Len(messages) /\ i + total_evicted = turn[k]
    BY <1>2, <1>3, <1>5, <1>7
  <2> HIDE DEF i
  <2>2. messages[i] = log[i + total_evicted]
    BY <1>1, <2>1 DEF Held
  <2> QED
    BY <2>1, <2>2 DEF i
<1> QED
  BY <1>7, <1>8

(* They say what a turn has pushed. *)
LEMMA TurnShapeFollows == WindowInv /\ AInv => TurnShape
<1> SUFFICES ASSUME WindowInv, AInv, pc = "return"
             PROVE  [k \in 1 .. Len(turn) |-> log[turn[k]].role] =
                       IF ToolSucceeded THEN <<"User", "Tool", "Assistant">>
                       ELSE <<"User", "Assistant">>
  BY DEF TurnShape, Returned, ToolSucceeded
<1>1. Turn
  BY DEF AInv
<1>2. CASE ToolSucceeded
  <2>1. TurnIs(<<"User", "Tool", "Assistant">>)
    BY <1>1, <1>2 DEF Turn
  <2>2. Len(turn) = 3
    BY <2>1 DEF TurnIs
  <2>3. \A k \in 1 .. 3 : log[turn[k]].role = <<"User", "Tool", "Assistant">>[k]
    BY <2>1, <2>2 DEF TurnIs
  <2> QED
    BY <1>2, <2>2, <2>3
<1>3. CASE ~ ToolSucceeded
  <2>1. TurnIs(<<"User", "Assistant">>)
    BY <1>1, <1>3 DEF Turn
  <2>2. Len(turn) = 2
    BY <2>1 DEF TurnIs
  <2>3. \A k \in 1 .. 2 : log[turn[k]].role = <<"User", "Assistant">>[k]
    BY <2>1, <2>2 DEF TurnIs
  <2> QED
    BY <1>3, <2>2, <2>3
<1> QED
  BY <1>2, <1>3

-----------------------------------------------------------------------------
(* The window keeps its own invariants: the theorems of ContextWindow.     *)

WP == INSTANCE ContextWindowProofs WITH Role <- Roles, Lengths <- Nat

(* The window of the agent is one ContextWindowProofs speaks of. *)
LEMMA WindowAssumptions ==
    "System" \in Roles /\ Nat \subseteq Nat /\ MaxTokens \in Nat /\ MaxPushes \in Nat
BY LimitsAssumption DEF Roles

(* The window of Agent and that of the theorems are the same. *)
LEMMA SameWindow ==
    /\ Window!Init <=> WP!Init
    /\ Window!Next <=> WP!Next
    /\ Window!vars = WP!vars
    /\ Window!evict_oldest <=> WP!evict_oldest
    /\ Window!Evictable = WP!Evictable
    /\ Window!NoMessage = WP!NoMessage
BY DEF Window!Init, WP!Init, Window!Next, WP!Next, Window!vars, WP!vars,
       Window!push_message, WP!push_message,
       Window!evict_oldest, WP!evict_oldest, Window!push_back, WP!push_back,
       Window!NoMessage, WP!NoMessage, Window!Evictable, WP!Evictable,
       Window!Overflows, WP!Overflows, Window!IsSystem, WP!IsSystem,
       Window!saturating_sub, WP!saturating_sub, Window!remove, WP!remove,
       Window!estimate_tokens, WP!estimate_tokens

(* The invariants of ContextWindow give what the agent needs of it. *)
LEMMA WindowFacts == WP!IInv /\ WP!Counters => WindowInv /\ Evicts
<1> SUFFICES ASSUME WP!IInv, WP!Counters PROVE WindowInv /\ Evicts
  OBVIOUS
<1>1. Window!TypeOK /\ Window!OverLimitOnlyBySystem
  BY DEF WP!IInv, WP!TypeOK, WP!OverLimitOnlyBySystem, WP!IsSystem, WP!Message, WP!NoMessage,
         Window!TypeOK, Window!OverLimitOnlyBySystem, Window!IsSystem, Window!Message,
         Window!NoMessage
<1>2. pushing # Window!NoMessage => pushing = log[Len(log)]
  BY SameWindow DEF WP!IInv, WP!Identities
<1>3. /\ Len(messages) = 1 => current_tokens = messages[1].token_count
      /\ Len(messages) = 2 =>
            current_tokens = messages[1].token_count + messages[2].token_count
      /\ Len(messages) = 3 =>
            current_tokens = messages[1].token_count + messages[2].token_count
                                + messages[3].token_count
  BY WP!SmallWindows, WindowAssumptions
<1>4. Evicts
  <2> SUFFICES ASSUME Window!evict_oldest
               PROVE  \E i \in Window!Evictable :
                         /\ Len(messages') = Len(messages) - 1
                         /\ \A j \in 1 .. Len(messages) - 1 :
                               messages'[j] = IF j < i THEN messages[j] ELSE messages[j + 1]
    BY DEF Evicts
  <2>1. WP!evict_oldest
    BY SameWindow
  <2>2. \E i \in WP!Evictable :
            /\ Len(messages') = Len(messages) - 1
            /\ \A j \in 1 .. Len(messages) - 1 :
                  messages'[j] = IF j < i THEN messages[j] ELSE messages[j + 1]
    BY <2>1, WP!EvictStep, WindowAssumptions
  <2> QED
    BY <2>2, SameWindow
<1>5. QED
  BY <1>1, <1>2, <1>3, <1>4 DEF WindowInv

(* Every reachable state of the agent satisfies the invariants. *)
THEOREM AgentInvariance == Spec => [](WP!IInv /\ WP!Counters /\ WindowInv /\ AInv)
<1>1. Init => WP!IInv /\ WP!Counters /\ AInv
  <2>1. Init => WP!Init
    BY SameWindow DEF Init
  <2>2. QED
    BY <2>1, WP!InitIInv, WP!InitCounters, WindowAssumptions, InitAInv
<1>2. WP!IInv /\ WP!Counters /\ AInv /\ [Next]_vars => (WP!IInv /\ WP!Counters /\ AInv)'
  <2> SUFFICES ASSUME WP!IInv, WP!Counters, AInv, [Next]_vars
               PROVE  (WP!IInv /\ WP!Counters /\ AInv)'
    OBVIOUS
  <2>1. WindowInv /\ Evicts
    BY WindowFacts
  <2>2. [WP!Next]_(WP!vars)
    BY <2>1, UsesWindow, SameWindow DEF Window!vars, WP!vars
  <2>3. WP!IInv' /\ WP!Counters'
    BY <2>2, WP!StepIInv, WP!StepCounters, WindowAssumptions
  <2>4. AInv'
    BY <2>1, NextAInv
  <2>5. QED
    BY <2>3, <2>4
<1>3. WP!IInv /\ WP!Counters => WindowInv
  BY WindowFacts
<1>4. QED
  BY <1>1, <1>2, <1>3, PTL DEF Spec

(* The agent uses its window as ContextWindow describes: every step of the *)
(* agent is a step of one call of push_message or none of the window.      *)
THEOREM AgentUsesWindow == Spec => Window!Init /\ [][Window!Next]_(Window!vars)
<1>1. Init => Window!Init
  BY DEF Init
<1>2. WP!IInv /\ WP!Counters /\ AInv /\ [Next]_vars => [Window!Next]_(Window!vars)
  BY WindowFacts, UsesWindow
<1>3. QED
  BY <1>1, <1>2, AgentInvariance, PTL DEF Spec

(* /context accounts for every message pushed so far. *)
THEOREM StatusAccountsHolds == Spec => []StatusAccounts
BY StatusAccountsFollows, AgentInvariance, PTL

(* After boot the window is over its limit only by the one message that    *)
(* does not fit beside the prompt.                                         *)
THEOREM OverLimitByOneMessageHolds == Spec => []OverLimitByOneMessage
BY OverLimitByOneMessageFollows, AgentInvariance, PTL

(* A turn that fits beside the prompt is still in the window, in order and *)
(* at its end, when process_input returns.                                 *)
THEOREM TurnRetainedHolds == Spec => []TurnRetained
BY TurnRetainedFollows, AgentInvariance, PTL

(* A turn pushes the input, the result of a tool that succeeded, and the   *)
(* response, and nothing else.                                             *)
THEOREM TurnShapeHolds == Spec => []TurnShape
BY TurnShapeFollows, AgentInvariance, PTL
=============================================================================
