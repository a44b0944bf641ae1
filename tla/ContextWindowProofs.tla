------------------------- MODULE ContextWindowProofs -------------------------
(***************************************************************************)
(* Proofs about ContextWindow for every set of roles and lengths, every    *)
(* max_tokens and any number of pushes.                                    *)
(***************************************************************************)
EXTENDS ContextWindow, SequenceTheorems, FiniteSetTheorems, TLAPS

(* Messages are found in the log under their identity, and the one being   *)
(* pushed is the newest.                                                   *)
Identities ==
    /\ \A i \in 1 .. Len(log) : log[i].id = i
    /\ \A i \in 1 .. Len(messages) :
          /\ messages[i].id \in 1 .. Len(log)
          /\ log[messages[i].id] = messages[i]
    /\ pushing # NoMessage =>
          /\ Len(log) > 0
          /\ pushing = log[Len(log)]
          /\ \A i \in 1 .. Len(messages) : messages[i].id < Len(log)

(* The inductive invariant. *)
IInv ==
    /\ TypeOK
    /\ Identities
    /\ OverLimitOnlyBySystem
    /\ SystemNeverEvicted
    /\ RetainedIsRecent

Elements(s) == {s[i] : i \in DOMAIN s}

(* What remove, the VecDeque::remove of evict_oldest, returns. *)
LEMMA RemoveProperties ==
    ASSUME NEW S, NEW s \in Seq(S), NEW i \in 1 .. Len(s)
    PROVE  /\ remove(s, i) \in Seq(S)
           /\ Len(remove(s, i)) = Len(s) - 1
           /\ \A j \in 1 .. Len(s) - 1 :
                 remove(s, i)[j] = IF j < i THEN s[j] ELSE s[j + 1]
<1> DEFINE a == SubSeq(s, 1, i - 1)
           b == SubSeq(s, i + 1, Len(s))
<1>1. Len(s) \in Nat /\ \A j \in 1 .. Len(s) : s[j] \in S
  BY LenProperties, ElementOfSeq
<1>2. /\ a \in Seq(S)
      /\ Len(a) = i - 1
      /\ \A j \in 1 .. i - 1 : a[j] = s[j]
  <2>1. \A j \in 1 .. i - 1 : s[j] \in S
    BY <1>1
  <2>2. QED BY <1>1, <2>1, SubSeqProperties, SMT
<1>3. /\ b \in Seq(S)
      /\ Len(b) = Len(s) - i
      /\ \A j \in 1 .. Len(s) - i : b[j] = s[i + j]
  <2>1. \A j \in i + 1 .. Len(s) : s[j] \in S
    BY <1>1
  <2>2. QED BY <1>1, <2>1, SubSeqProperties, SMT
<1> HIDE DEF a, b
<1>4. /\ a \o b \in Seq(S)
      /\ Len(a \o b) = Len(a) + Len(b)
      /\ \A j \in 1 .. Len(a) + Len(b) :
            (a \o b)[j] = IF j <= Len(a) THEN a[j] ELSE b[j - Len(a)]
  BY <1>2, <1>3, ConcatProperties
<1>5. Len(a \o b) = Len(s) - 1
  BY <1>1, <1>2, <1>3, <1>4
<1>6. ASSUME NEW j \in 1 .. Len(s) - 1
      PROVE  (a \o b)[j] = IF j < i THEN s[j] ELSE s[j + 1]
  <2>1. j \in 1 .. Len(a) + Len(b)
    BY <1>1, <1>2, <1>3
  <2>2. CASE j < i
    BY <1>1, <1>2, <1>4, <2>1, <2>2
  <2>3. CASE j >= i
    <3>1. (a \o b)[j] = b[j - (i - 1)]
      BY <1>1, <1>2, <1>4, <2>1, <2>3
    <3>2. j - (i - 1) \in 1 .. Len(s) - i /\ i + (j - (i - 1)) = j + 1
      BY <1>1, <2>3
    <3>3. b[j - (i - 1)] = s[i + (j - (i - 1))]
      BY <1>3, <3>2
    <3>4. QED BY <1>1, <2>3, <3>1, <3>2, <3>3
  <2>4. j < i \/ j >= i
    BY <1>1
  <2>5. QED BY <2>2, <2>3, <2>4
<1>7. QED
  BY <1>4, <1>5, <1>6 DEF remove, a, b

(* The messages left after evict_oldest, as a set. *)
LEMMA RemoveSet ==
    ASSUME NEW S, NEW s \in Seq(S), NEW i \in 1 .. Len(s),
           \A j, k \in 1 .. Len(s) : s[j] = s[k] => j = k
    PROVE  Elements(remove(s, i)) = Elements(s) \ {s[i]}
<1> DEFINE r == remove(s, i)
<1>1. /\ r \in Seq(S)
      /\ Len(r) = Len(s) - 1
      /\ \A j \in 1 .. Len(s) - 1 : r[j] = IF j < i THEN s[j] ELSE s[j + 1]
  BY RemoveProperties
<1>2. /\ DOMAIN s = 1 .. Len(s) /\ DOMAIN r = 1 .. Len(s) - 1
      /\ Len(s) \in Nat
  BY <1>1, LenProperties
<1> HIDE DEF r
<1>3. ASSUME NEW j \in 1 .. Len(s) - 1
      PROVE  r[j] \in Elements(s) \ {s[i]}
  <2>1. CASE j < i
    <3>1. j \in 1 .. Len(s) /\ r[j] = s[j] /\ j # i
      BY <1>1, <1>2, <2>1
    <3>2. QED BY <1>2, <3>1 DEF Elements
  <2>2. CASE j >= i
    <3>1. j + 1 \in 1 .. Len(s) /\ r[j] = s[j + 1] /\ j + 1 # i
      BY <1>1, <1>2, <2>2
    <3>2. QED BY <1>2, <3>1 DEF Elements
  <2>3. QED BY <1>2, <2>1, <2>2
<1>4. ASSUME NEW j \in 1 .. Len(s), s[j] # s[i]
      PROVE  s[j] \in Elements(r)
  <2>1. CASE j < i
    <3>1. j \in 1 .. Len(s) - 1 /\ r[j] = s[j]
      BY <1>1, <1>2, <2>1
    <3>2. QED BY <1>2, <3>1 DEF Elements
  <2>2. CASE j > i
    <3>1. j - 1 \in 1 .. Len(s) - 1 /\ r[j - 1] = s[j]
      BY <1>1, <1>2, <2>2
    <3>2. QED BY <1>2, <3>1 DEF Elements
  <2>3. QED BY <1>2, <1>4, <2>1, <2>2
<1>5. QED BY <1>2, <1>3, <1>4 DEF Elements, r

(* Appending adds one element to the set of elements. *)
LEMMA AppendSet ==
    ASSUME NEW S, NEW s \in Seq(S), NEW e \in S
    PROVE  Elements(Append(s, e)) = Elements(s) \cup {e}
<1> DEFINE a == Append(s, e)
<1>1. /\ a \in Seq(S) /\ Len(a) = Len(s) + 1
      /\ \A j \in 1 .. Len(s) : a[j] = s[j]
      /\ a[Len(s) + 1] = e
  BY AppendProperties
<1>2. /\ DOMAIN s = 1 .. Len(s) /\ DOMAIN a = 1 .. Len(s) + 1
      /\ Len(s) \in Nat
  BY <1>1, LenProperties
<1> HIDE DEF a
<1>3. Elements(a) = {a[j] : j \in 1 .. Len(s) + 1}
  BY <1>2 DEF Elements
<1>4. QED BY <1>1, <1>2, <1>3 DEF Elements, a

(* The empty window of ContextWindow::new satisfies the invariant. *)
THEOREM InitIInv == Init => IInv
<1> SUFFICES ASSUME Init PROVE IInv OBVIOUS
<1>1. Len(<<>>) = 0 /\ <<>> \in Seq(Message)
  BY EmptySeq
<1>2. QED
  BY <1>1, MaxTokensAssumption
  DEF Init, IInv, TypeOK, Identities, OverLimitOnlyBySystem,
      SystemNeverEvicted, RetainedIsRecent

(* A step of push_message's entry preserves the invariant. *)
LEMMA PushMessageIInv ==
    ASSUME IInv, NEW role \in Role, NEW len \in Lengths,
           push_message(role, len)
    PROVE  IInv'
<1>1. pushing' \in Message /\ pushing'.id = Len(log) + 1
  <2>1. estimate_tokens(len) \in Nat \ {0}
    BY LengthsAssumption DEF estimate_tokens
  <2>2. Len(log) + 1 \in Nat
    BY LenProperties DEF IInv, TypeOK
  <2>3. QED BY <2>1, <2>2 DEF push_message, Message
<1>2. /\ log' \in Seq(Message) /\ Len(log') = Len(log) + 1
      /\ \A i \in 1 .. Len(log) : log'[i] = log[i]
      /\ log'[Len(log) + 1] = pushing'
      /\ Len(log) \in Nat
  BY <1>1, AppendProperties, LenProperties DEF push_message, IInv, TypeOK
<1>3. UNCHANGED <<messages, current_tokens, total_evicted>> /\ pushing = NoMessage
  BY DEF push_message
<1>4. TypeOK'
  BY <1>1, <1>2, <1>3 DEF IInv, TypeOK
<1>5. Identities'
  BY <1>1, <1>2, <1>3 DEF IInv, Identities
<1>6. OverLimitOnlyBySystem'
  BY <1>3 DEF IInv, OverLimitOnlyBySystem
<1>7. \A i \in 1 .. Len(log) : log[i] # NoMessage
  BY ElementOfSeq DEF IInv, TypeOK, Message, NoMessage
<1>8. SystemNeverEvicted'
  BY <1>2, <1>3, <1>7 DEF IInv, SystemNeverEvicted, Live, InWindow
<1>9. RetainedIsRecent'
  <2>1. ASSUME NEW i \in 1 .. Len(log'), NEW j \in 1 .. Len(log'),
               i < j, ~ IsSystem(log'[i]), log'[i] \in InWindow'
        PROVE  log'[j] \in Live'
    <3>1. i \in 1 .. Len(log) /\ log'[i] = log[i]
      BY <1>2, <2>1
    <3>2. CASE j = Len(log) + 1
      BY <1>2, <3>2 DEF Live
    <3>3. CASE j \in 1 .. Len(log)
      <4>1. log[j] \in Live
        BY <1>3, <2>1, <3>1, <3>3 DEF IInv, RetainedIsRecent, InWindow
      <4>2. QED BY <1>2, <1>3, <1>7, <3>3, <4>1 DEF Live, InWindow
    <3>4. QED BY <1>2, <3>2, <3>3
  <2>2. QED BY <1>3, <2>1 DEF IInv, RetainedIsRecent
<1>10. QED BY <1>4, <1>5, <1>6, <1>8, <1>9 DEF IInv

(* Messages in the deque are pairwise different. *)
LEMMA Distinct ==
    ASSUME IInv
    PROVE  \A j, k \in 1 .. Len(messages) : messages[j] = messages[k] => j = k
<1>1. Len(messages) \in Nat /\ \A j \in 1 .. Len(messages) : messages[j] \in Message
  BY LenProperties, ElementOfSeq DEF IInv, TypeOK
<1>2. \A j \in 1 .. Len(messages) : messages[j].id \in Nat
  BY <1>1 DEF Message
<1>3. QED BY <1>1, <1>2 DEF IInv, RetainedIsRecent

(* What an iteration of the loop changes, in terms of positions and sets. *)
LEMMA EvictStep ==
    ASSUME IInv, evict_oldest
    PROVE  \E i \in Evictable :
              /\ messages' \in Seq(Message)
              /\ Len(messages') = Len(messages) - 1
              /\ \A j \in 1 .. Len(messages) - 1 :
                    messages'[j] = IF j < i THEN messages[j] ELSE messages[j + 1]
              /\ InWindow' = InWindow \ {messages[i]}
              /\ current_tokens' =
                    saturating_sub(current_tokens, messages[i].token_count)
              /\ UNCHANGED <<pushing, log>>
<1>1. PICK i \in Evictable :
        /\ messages' = remove(messages, i)
        /\ current_tokens' = saturating_sub(current_tokens, messages[i].token_count)
  BY DEF evict_oldest
<1>2. i \in 1 .. Len(messages) /\ messages \in Seq(Message)
  BY DEF Evictable, IInv, TypeOK
<1>3. Elements(messages') = Elements(messages) \ {messages[i]}
  BY <1>1, <1>2, Distinct, RemoveSet
<1>4. /\ messages' \in Seq(Message)
      /\ Len(messages') = Len(messages) - 1
      /\ \A j \in 1 .. Len(messages) - 1 :
            messages'[j] = IF j < i THEN messages[j] ELSE messages[j + 1]
  BY <1>1, <1>2, RemoveProperties
<1>5. UNCHANGED <<pushing, log>>
  BY DEF evict_oldest
<1>6. QED BY <1>1, <1>3, <1>4, <1>5 DEF InWindow, Elements

(* A round of the eviction loop of push_message keeps it: the removed      *)
(* message is one that is not a system message, and the others keep their  *)
(* order.                                                                  *)
LEMMA EvictOldestIInv ==
    ASSUME IInv, evict_oldest
    PROVE  IInv'
<1>1. PICK i \in Evictable :
        /\ messages' \in Seq(Message)
        /\ Len(messages') = Len(messages) - 1
        /\ \A j \in 1 .. Len(messages) - 1 :
              messages'[j] = IF j < i THEN messages[j] ELSE messages[j + 1]
        /\ InWindow' = InWindow \ {messages[i]}
        /\ current_tokens' =
              saturating_sub(current_tokens, messages[i].token_count)
        /\ UNCHANGED <<pushing, log>>
  BY EvictStep
<1>2. /\ Len(messages) \in Nat /\ Len(log) \in Nat
      /\ DOMAIN messages = 1 .. Len(messages)
      /\ i \in 1 .. Len(messages) /\ messages[i] \in Message
      /\ ~ IsSystem(messages[i])
      /\ \A j \in 1 .. i - 1 : IsSystem(messages[j])
  BY LenProperties, ElementOfSeq DEF IInv, TypeOK, Evictable
<1>3. current_tokens' \in Nat /\ current_tokens' <= current_tokens
  <2>1. current_tokens \in Nat /\ messages[i].token_count \in Nat
    BY <1>2 DEF IInv, TypeOK, Message
  <2>2. current_tokens' = saturating_sub(current_tokens, messages[i].token_count)
    BY <1>1
  <2>3. QED BY <2>1, <2>2 DEF saturating_sub
<1>4. total_evicted' \in Nat
  BY DEF evict_oldest, IInv, TypeOK
<1>5. TypeOK'
  BY <1>1, <1>3, <1>4 DEF IInv, TypeOK
<1>6. \A j \in 1 .. Len(messages') :
         \E k \in 1 .. Len(messages) : messages'[j] = messages[k] /\ k # i
  <2> TAKE j \in 1 .. Len(messages')
  <2>1. CASE j < i
    BY <1>1, <1>2, <2>1
  <2>2. CASE j >= i
    BY <1>1, <1>2, <2>2
  <2>3. QED BY <1>1, <1>2, <2>1, <2>2
<1>7. Identities'
  BY <1>1, <1>2, <1>6 DEF IInv, Identities
<1>8. OverLimitOnlyBySystem'
  <2> SUFFICES ASSUME current_tokens' > MaxTokens,
                      NEW j \in 1 .. Len(messages') - 1
               PROVE  IsSystem(messages'[j])
    BY DEF OverLimitOnlyBySystem
  <2>1. current_tokens > MaxTokens
    BY <1>3, MaxTokensAssumption DEF IInv, TypeOK
  <2>2. \A k \in 1 .. Len(messages) - 1 : IsSystem(messages[k])
    BY <2>1 DEF IInv, OverLimitOnlyBySystem
  <2>3. i = Len(messages)
    <3>1. i \notin 1 .. Len(messages) - 1
      BY <1>2, <2>2 DEF IsSystem
    <3>2. Len(messages) \in Nat /\ i \in 1 .. Len(messages)
      BY <1>2
    <3>3. QED BY <3>1, <3>2
  <2>4. j \in 1 .. Len(messages) - 1 /\ j < i
    BY <1>1, <1>2, <2>3
  <2>5. messages'[j] = messages[j]
    BY <1>1, <2>4
  <2>6. QED BY <2>2, <2>4, <2>5
<1>9. SystemNeverEvicted'
  BY <1>1, <1>2 DEF IInv, SystemNeverEvicted, Live
<1>10. RetainedIsRecent'
  <2>1. ASSUME NEW a \in 1 .. Len(log), NEW b \in 1 .. Len(log),
               a < b, ~ IsSystem(log[a]), log[a] \in InWindow'
        PROVE  log[b] \in Live'
    <3>1. PICK k \in 1 .. Len(messages) : log[a] = messages[k] /\ k # i
      BY <1>1, <1>2, <2>1 DEF InWindow, Elements
    <3>2. k > i
      BY <1>2, <2>1, <3>1
    <3>3. /\ messages[i].id < messages[k].id
          /\ messages[k].id = a
          /\ messages[i].id \in 1 .. Len(log)
      BY <1>2, <3>1, <3>2 DEF IInv, RetainedIsRecent, Identities
    <3>4. log[b].id = b
      BY DEF IInv, Identities
    <3>5. log[b] # messages[i]
      BY <1>2, <2>1, <3>3, <3>4
    <3>6. log[b] \in Live
      BY <1>1, <2>1 DEF IInv, RetainedIsRecent
    <3>7. QED BY <1>1, <3>5, <3>6 DEF Live
  <2>2. ASSUME NEW a \in 1 .. Len(messages'), NEW b \in 1 .. Len(messages'), a < b
        PROVE  messages'[a].id < messages'[b].id
    <3> DEFINE p == IF a < i THEN a ELSE a + 1
               q == IF b < i THEN b ELSE b + 1
    <3>1. p \in 1 .. Len(messages) /\ q \in 1 .. Len(messages) /\ p < q
      BY <1>1, <1>2, <2>2
    <3>2. messages'[a] = messages[p] /\ messages'[b] = messages[q]
      BY <1>1, <1>2, <2>2
    <3> HIDE DEF p, q
    <3>3. messages[p].id < messages[q].id
      BY <3>1 DEF IInv, RetainedIsRecent
    <3>4. QED BY <3>2, <3>3
  <2>3. QED BY <1>1, <2>1, <2>2 DEF RetainedIsRecent
<1>11. QED BY <1>5, <1>7, <1>8, <1>9, <1>10 DEF IInv

(* The least element of a set of numbers. *)
LEMMA SmallestNat ==
    ASSUME NEW T, T \subseteq Nat, T # {}
    PROVE  \E m \in T : \A i \in T : m <= i
<1> DEFINE U == {1 .. n : n \in T}
<1>1. U \subseteq FiniteSubsetsOf(Nat) /\ U # {}
  <2>1. ASSUME NEW n \in T PROVE 1 .. n \in FiniteSubsetsOf(Nat)
    <3>1. 1 \in Int /\ n \in Int /\ 1 .. n \in SUBSET Nat
      OBVIOUS
    <3>2. QED BY <3>1, FS_Interval DEF FiniteSubsetsOf
  <2>2. QED BY <2>1
<1>2. PICK x \in U : \A y \in U : <<y, x>> \notin StrictSubsetOrdering(Nat)
  BY <1>1, FS_StrictSubsetOrderingWellFounded, WFMin
<1>3. PICK m \in T : x = 1 .. m
  OBVIOUS
<1>4. ASSUME NEW i \in T, i < m
      PROVE  <<1 .. i, 1 .. m>> \in StrictSubsetOrdering(Nat)
  <2>1. 1 .. i \subseteq 1 .. m /\ 1 .. i \in SUBSET Nat /\ 1 .. m \in SUBSET Nat
    BY <1>4
  <2>2. m \in 1 .. m /\ m \notin 1 .. i
    BY <1>4
  <2>3. QED BY <2>1, <2>2 DEF StrictSubsetOrdering
<1>5. \A i \in T : ~ (i < m)
  BY <1>2, <1>3, <1>4
<1>6. QED BY <1>5

(* The break of the loop is reached only when every message is System:      *)
(* otherwise there is a first one that is not.                             *)
LEMMA AllSystem ==
    ASSUME IInv, Evictable = {}
    PROVE  \A i \in 1 .. Len(messages) : IsSystem(messages[i])
<1> DEFINE N == {i \in 1 .. Len(messages) : ~ IsSystem(messages[i])}
<1> SUFFICES ASSUME N # {} PROVE FALSE
  OBVIOUS
<1>1. N \subseteq Nat
  BY LenProperties DEF IInv, TypeOK
<1>2. PICK m \in N : \A i \in N : m <= i
  BY <1>1, SmallestNat
<1>3. m \in Evictable
  BY <1>1, <1>2 DEF Evictable
<1>4. QED BY <1>3

(* The push_back that ends push_message keeps it: the new message is the   *)
(* last of the log.                                                        *)
LEMMA PushBackIInv ==
    ASSUME IInv, push_back
    PROVE  IInv'
<1>1. /\ pushing \in Message /\ pushing' = NoMessage /\ pushing # NoMessage
      /\ UNCHANGED <<total_evicted, log>>
      /\ current_tokens' = current_tokens + pushing.token_count
      /\ current_tokens \in Nat /\ pushing.token_count \in Nat
  BY DEF push_back, IInv, TypeOK, Message
<1>2. /\ messages' \in Seq(Message) /\ Len(messages') = Len(messages) + 1
      /\ \A i \in 1 .. Len(messages) : messages'[i] = messages[i]
      /\ messages'[Len(messages) + 1] = pushing
      /\ Len(messages) \in Nat
      /\ InWindow' = InWindow \cup {pushing}
  <2>1. messages' = Append(messages, pushing) /\ messages \in Seq(Message)
    BY DEF push_back, IInv, TypeOK
  <2>2. Elements(messages') = Elements(messages) \cup {pushing}
    BY <1>1, <2>1, AppendSet
  <2>3. InWindow' = InWindow \cup {pushing}
    BY <2>2 DEF InWindow, Elements
  <2> QED
    BY <1>1, <2>1, <2>3, AppendProperties, LenProperties
<1>3. TypeOK'
  BY <1>1, <1>2 DEF IInv, TypeOK
<1>4. /\ Len(log) \in Nat /\ Len(log) > 0
      /\ pushing = log[Len(log)] /\ pushing.id = Len(log)
      /\ \A i \in 1 .. Len(messages) : messages[i].id < Len(log)
  BY <1>1, LenProperties DEF IInv, Identities, TypeOK
<1>5. Identities'
  <2>1. \A i \in 1 .. Len(log') : log'[i].id = i
    BY <1>1 DEF IInv, Identities
  <2>2. ASSUME NEW i \in 1 .. Len(messages')
        PROVE  messages'[i].id \in 1 .. Len(log') /\ log'[messages'[i].id] = messages'[i]
    <3>1. CASE i \in 1 .. Len(messages)
      BY <1>1, <1>2, <3>1 DEF IInv, Identities
    <3>2. CASE i = Len(messages) + 1
      BY <1>1, <1>2, <1>4, <3>2
    <3>3. QED BY <1>2, <3>1, <3>2
  <2>3. QED BY <1>1, <2>1, <2>2 DEF Identities, NoMessage
<1>6. OverLimitOnlyBySystem'
  <2>1. CASE ~ Overflows
    BY <1>1, <2>1, MaxTokensAssumption DEF Overflows, OverLimitOnlyBySystem
  <2>2. CASE Evictable = {}
    <3>1. \A i \in 1 .. Len(messages) : IsSystem(messages[i])
      BY <2>2, AllSystem
    <3>2. QED BY <1>2, <3>1 DEF OverLimitOnlyBySystem
  <2>3. QED BY <2>1, <2>2 DEF push_back
<1>7. SystemNeverEvicted'
  BY <1>1, <1>2 DEF IInv, SystemNeverEvicted, Live
<1>8. RetainedIsRecent'
  <2>1. ASSUME NEW a \in 1 .. Len(log), NEW b \in 1 .. Len(log),
               a < b, ~ IsSystem(log[a]), log[a] \in InWindow'
        PROVE  log[b] \in Live'
    <3>1. log[a] # pushing
      BY <1>4, <2>1 DEF IInv, Identities
    <3>2. log[b] \in Live
      BY <1>2, <2>1, <3>1 DEF IInv, RetainedIsRecent
    <3>3. QED BY <1>2, <3>2 DEF Live
  <2>2. ASSUME NEW a \in 1 .. Len(messages'), NEW b \in 1 .. Len(messages'), a < b
        PROVE  messages'[a].id < messages'[b].id
    <3>1. a \in 1 .. Len(messages) /\ messages'[a] = messages[a]
      BY <1>2, <2>2
    <3>2. CASE b = Len(messages) + 1
      BY <1>2, <1>4, <3>1, <3>2
    <3>3. CASE b \in 1 .. Len(messages)
      BY <1>2, <2>2, <3>1, <3>3 DEF IInv, RetainedIsRecent
    <3>4. QED BY <1>2, <3>2, <3>3
  <2>3. QED BY <1>1, <2>1, <2>2 DEF RetainedIsRecent
<1>9. QED BY <1>3, <1>5, <1>6, <1>7, <1>8 DEF IInv

(* The invariant is inductive. *)
THEOREM StepIInv == IInv /\ [Next]_vars => IInv'
<1> SUFFICES ASSUME IInv, [Next]_vars PROVE IInv' OBVIOUS
<1>1. CASE \E role \in Role, len \in Lengths : push_message(role, len)
  BY <1>1, PushMessageIInv
<1>2. CASE evict_oldest
  BY <1>2, EvictOldestIInv
<1>3. CASE push_back
  BY <1>3, PushBackIInv
<1>4. CASE UNCHANGED vars
  BY <1>4
  DEF vars, IInv, TypeOK, Identities, OverLimitOnlyBySystem, SystemNeverEvicted,
      RetainedIsRecent, Live, InWindow
<1>5. QED BY <1>1, <1>2, <1>3, <1>4 DEF Next

-----------------------------------------------------------------------------
(* The counters. *)

TokensOf(m) == {m.id} \X (1 .. m.token_count)
Gone == {i \in 1 .. Len(log) : log[i] \notin Live}

Counters ==
    /\ IsFiniteSet(TokensHeld)
    /\ TokenAccounting
    /\ EvictionsCounted

(* What a message adds to and takes from current_tokens is the same        *)
(* number.                                                                 *)
LEMMA TokensOfMessage ==
    ASSUME NEW m \in Message
    PROVE  IsFiniteSet(TokensOf(m)) /\ Cardinality(TokensOf(m)) = m.token_count
<1>1. m.token_count \in Nat \ {0}
  BY DEF Message
<1>2. IsFiniteSet({m.id}) /\ Cardinality({m.id}) = 1
  BY FS_Singleton
<1>3. /\ IsFiniteSet(1 .. m.token_count)
      /\ Cardinality(1 .. m.token_count) = m.token_count
  BY <1>1, FS_Interval
<1>4. /\ IsFiniteSet(TokensOf(m))
      /\ Cardinality(TokensOf(m)) = 1 * m.token_count
  <2>1. /\ IsFiniteSet({m.id} \X (1 .. m.token_count))
        /\ Cardinality({m.id} \X (1 .. m.token_count)) =
              Cardinality({m.id}) * Cardinality(1 .. m.token_count)
    BY <1>2, <1>3, FS_Product, ZenonT(30)
  <2>2. QED BY <1>2, <1>3, <2>1, Zenon DEF TokensOf
<1>5. QED BY <1>1, <1>4

(* The tokens of two finite disjoint parts add up. *)
LEMMA DisjointSum ==
    ASSUME NEW A, NEW B, IsFiniteSet(A), IsFiniteSet(B), A \cap B = {}
    PROVE  /\ IsFiniteSet(A \cup B)
           /\ Cardinality(A \cup B) = Cardinality(A) + Cardinality(B)
<1>1. Cardinality(A) \in Nat /\ Cardinality(B) \in Nat
  BY FS_CardinalityType
<1>2. Cardinality(A \cap B) = 0
  BY FS_EmptySet
<1>3. IsFiniteSet(A \cup B)
      /\ Cardinality(A \cup B) = Cardinality(A) + Cardinality(B) - Cardinality(A \cap B)
  BY FS_Union
<1>4. QED BY <1>1, <1>2, <1>3

(* The start of push_message leaves both counters right. *)
LEMMA PushMessageCounters ==
    ASSUME IInv, Counters, NEW role \in Role, NEW len \in Lengths,
           push_message(role, len)
    PROVE  Counters'
<1>1. /\ UNCHANGED <<messages, current_tokens, total_evicted>>
      /\ pushing = NoMessage
      /\ log' = Append(log, pushing')
  BY DEF push_message
<1>2. InWindow' = InWindow /\ TokensHeld' = TokensHeld
  BY <1>1 DEF InWindow, TokensHeld
<1>3. pushing' \in Message
  <2>1. estimate_tokens(len) \in Nat \ {0}
    BY LengthsAssumption DEF estimate_tokens
  <2>2. Len(log) + 1 \in Nat
    BY LenProperties DEF IInv, TypeOK
  <2>3. QED BY <2>1, <2>2 DEF push_message, Message
<1>4. /\ Len(log') = Len(log) + 1 /\ Len(log) \in Nat
      /\ \A i \in 1 .. Len(log) : log'[i] = log[i] /\ log[i] \in Message
      /\ log'[Len(log) + 1] = pushing'
  BY <1>1, <1>3, AppendProperties, LenProperties, ElementOfSeq DEF IInv, TypeOK
<1>5. \A i \in 1 .. Len(log) :
         /\ log[i] # NoMessage
         /\ log[i].id = i
         /\ pushing'.id = Len(log) + 1
  BY <1>4 DEF IInv, Identities, Message, NoMessage, push_message
<1>6. Gone' = Gone
  <2>1. \A i \in 1 .. Len(log) : log'[i] \in Live' <=> log[i] \in Live
    BY <1>1, <1>2, <1>4, <1>5 DEF Live
  <2>2. log'[Len(log) + 1] \in Live'
    BY <1>4 DEF Live
  <2>3. QED BY <1>4, <2>1, <2>2 DEF Gone
<1>7. QED
  BY <1>1, <1>2, <1>6 DEF Counters, TokenAccounting, EvictionsCounted, Gone

(* An eviction takes the message's tokens from current_tokens and adds one *)
(* to total_evicted.                                                       *)
LEMMA EvictOldestCounters ==
    ASSUME IInv, Counters, evict_oldest
    PROVE  Counters'
<1>1. PICK i \in Evictable :
        /\ InWindow' = InWindow \ {messages[i]}
        /\ current_tokens' =
              saturating_sub(current_tokens, messages[i].token_count)
        /\ UNCHANGED <<pushing, log>>
  BY EvictStep
<1> DEFINE m == messages[i]
<1>2. /\ m \in Message /\ m \in InWindow /\ m.token_count \in Nat
      /\ i \in 1 .. Len(messages)
      /\ Len(messages) \in Nat
      /\ DOMAIN messages = 1 .. Len(messages)
  <2>1. /\ i \in 1 .. Len(messages) /\ m \in Message
        /\ Len(messages) \in Nat /\ DOMAIN messages = 1 .. Len(messages)
    BY LenProperties, ElementOfSeq DEF Evictable, IInv, TypeOK
  <2>2. QED BY <2>1 DEF InWindow, Elements, Message
<1>3. \A n \in InWindow : n.id = m.id => n = m
  BY <1>2 DEF InWindow, Elements, IInv, Identities
<1>4. /\ TokensHeld = TokensHeld' \cup TokensOf(m)
      /\ TokensHeld' \cap TokensOf(m) = {}
  <2>1. TokensHeld' = UNION {TokensOf(n) : n \in InWindow \ {m}}
    BY <1>1 DEF TokensHeld, TokensOf
  <2>2. TokensHeld = UNION {TokensOf(n) : n \in InWindow}
    BY DEF TokensHeld, TokensOf
  <2>3. \A n \in InWindow \ {m} : TokensOf(n) \cap TokensOf(m) = {}
    BY <1>3 DEF TokensOf
  <2>4. QED BY <1>2, <2>1, <2>2, <2>3
<1>5. IsFiniteSet(TokensHeld')
  <2>1. TokensHeld' \in SUBSET TokensHeld
    BY <1>4
  <2>2. QED BY <2>1, FS_Subset DEF Counters
<1>6. /\ Cardinality(TokensHeld') \in Nat
      /\ Cardinality(TokensHeld) = Cardinality(TokensHeld') + m.token_count
  BY <1>2, <1>4, <1>5, TokensOfMessage, DisjointSum, FS_CardinalityType
<1>7. TokenAccounting'
  BY <1>1, <1>2, <1>6 DEF Counters, TokenAccounting, saturating_sub
<1>8. /\ Gone' = Gone \cup {m.id} /\ m.id \notin Gone /\ IsFiniteSet(Gone)
      /\ total_evicted' = total_evicted + 1
  <2>1. m.id \in 1 .. Len(log) /\ log[m.id] = m
    BY <1>2 DEF IInv, Identities
  <2>2. pushing # m
    <3>1. pushing # NoMessage /\ pushing.id = Len(log) /\ m.id < Len(log)
      BY <1>2, LenProperties DEF evict_oldest, IInv, Identities, TypeOK
    <3>2. QED BY <2>1, <3>1
  <2>3. \A k \in 1 .. Len(log) : log[k] = m <=> k = m.id
    BY <2>1 DEF IInv, Identities
  <2>4. Live' = Live \ {m}
    BY <1>1, <2>2 DEF Live
  <2>5. Gone' = Gone \cup {m.id}
    BY <1>1, <2>1, <2>3, <2>4 DEF Gone
  <2>6. m.id \notin Gone
    BY <1>2, <2>1 DEF Gone, Live
  <2>7. IsFiniteSet(Gone)
    <3>1. Len(log) \in Nat
      BY LenProperties DEF IInv, TypeOK
    <3>2. IsFiniteSet(1 .. Len(log)) /\ Gone \in SUBSET (1 .. Len(log))
      BY <3>1, FS_Interval DEF Gone
    <3>3. QED BY <3>2, FS_Subset
  <2>8. QED BY <2>5, <2>6, <2>7 DEF evict_oldest
<1>9. EvictionsCounted'
  BY <1>8, FS_AddElement DEF Counters, EvictionsCounted, Gone
<1>10. QED BY <1>5, <1>7, <1>9 DEF Counters

(* push_back adds the message's tokens to current_tokens. *)
LEMMA PushBackCounters ==
    ASSUME IInv, Counters, push_back
    PROVE  Counters'
<1>1. /\ pushing \in Message /\ pushing' = NoMessage /\ pushing # NoMessage
      /\ messages' = Append(messages, pushing)
      /\ current_tokens' = current_tokens + pushing.token_count
      /\ UNCHANGED <<total_evicted, log>>
  BY DEF push_back, IInv, TypeOK
<1>2. InWindow' = InWindow \cup {pushing}
  <2>1. messages \in Seq(Message)
    BY DEF IInv, TypeOK
  <2>2. Elements(messages') = Elements(messages) \cup {pushing}
    BY <1>1, <2>1, AppendSet
  <2> QED
    BY <2>2 DEF InWindow, Elements
<1>3. \A n \in InWindow : n.id # pushing.id
  <2>1. DOMAIN messages = 1 .. Len(messages) /\ Len(log) \in Nat
    BY LenProperties DEF IInv, TypeOK
  <2>2. /\ Len(log) > 0 /\ pushing.id = Len(log)
        /\ \A i \in 1 .. Len(messages) :
              messages[i].id \in 1 .. Len(log) /\ messages[i].id < Len(log)
    BY <1>1, <2>1 DEF IInv, Identities
  <2>3. QED BY <2>1, <2>2 DEF InWindow, Elements
<1>4. /\ TokensHeld' = TokensHeld \cup TokensOf(pushing)
      /\ TokensHeld \cap TokensOf(pushing) = {}
  BY <1>2, <1>3 DEF TokensHeld, TokensOf
<1>5. /\ IsFiniteSet(TokensHeld')
      /\ Cardinality(TokensHeld') = Cardinality(TokensHeld) + pushing.token_count
  BY <1>1, <1>4, TokensOfMessage, DisjointSum DEF Counters
<1>6. Gone' = Gone
  <2>1. Live' = Live \cup {NoMessage}
    BY <1>1, <1>2 DEF Live
  <2>2. \A k \in 1 .. Len(log) : log[k] \in Message
    BY ElementOfSeq DEF IInv, TypeOK
  <2>3. \A k \in 1 .. Len(log) : log[k] # NoMessage
    BY <2>2 DEF Message, NoMessage
  <2>4. QED BY <1>1, <2>1, <2>3 DEF Gone
<1>7. QED
  BY <1>1, <1>5, <1>6 DEF Counters, TokenAccounting, EvictionsCounted, Gone

(* Both counters of an empty window are zero. *)
LEMMA InitCounters == Init => Counters
<1> SUFFICES ASSUME Init PROVE Counters OBVIOUS
<1>1. Len(<<>>) = 0
  BY EmptySeq
<1>2. InWindow = {} /\ TokensHeld = {}
  BY <1>1 DEF Init, InWindow, Elements, TokensHeld
<1>3. {i \in 1 .. Len(log) : log[i] \notin Live} = {}
  BY <1>1 DEF Init
<1>4. QED
  BY <1>2, <1>3, FS_EmptySet DEF Init, Counters, TokenAccounting, EvictionsCounted

(* No step lets a counter drift from the messages. *)
LEMMA StepCounters == IInv /\ Counters /\ [Next]_vars => Counters'
<1> SUFFICES ASSUME IInv, Counters, [Next]_vars PROVE Counters' OBVIOUS
<1>1. CASE \E role \in Role, len \in Lengths : push_message(role, len)
  BY <1>1, PushMessageCounters
<1>2. CASE evict_oldest
  BY <1>2, EvictOldestCounters
<1>3. CASE push_back
  BY <1>3, PushBackCounters
<1>4. CASE UNCHANGED vars
  BY <1>4
  DEF vars, Counters, TokenAccounting, EvictionsCounted, TokensHeld, Live, InWindow
<1>5. QED BY <1>1, <1>2, <1>3, <1>4 DEF Next

(* In a window of up to three messages current_tokens is their sum. *)
LEMMA SmallWindows ==
    ASSUME IInv, Counters
    PROVE  /\ Len(messages) = 1 => current_tokens = messages[1].token_count
           /\ Len(messages) = 2 =>
                 current_tokens = messages[1].token_count + messages[2].token_count
           /\ Len(messages) = 3 =>
                 current_tokens = messages[1].token_count + messages[2].token_count
                                     + messages[3].token_count
<1> DEFINE t(i) == TokensOf(messages[i])
<1>1. /\ Len(messages) \in Nat /\ DOMAIN messages = 1 .. Len(messages)
      /\ \A i \in 1 .. Len(messages) : messages[i] \in Message
  BY LenProperties, ElementOfSeq DEF IInv, TypeOK
<1>2. ASSUME NEW i \in 1 .. Len(messages)
      PROVE  /\ IsFiniteSet(t(i)) /\ Cardinality(t(i)) = messages[i].token_count
             /\ messages[i].token_count \in Nat
  <2>1. messages[i] \in Message
    BY <1>1
  <2>2. messages[i].token_count \in Nat
    BY <2>1 DEF Message
  <2> QED
    BY <2>1, <2>2, TokensOfMessage
<1>3. ASSUME NEW i \in 1 .. Len(messages), NEW j \in 1 .. Len(messages), i < j
      PROVE  t(i) \cap t(j) = {}
  <2>1. messages[i].id < messages[j].id
    BY <1>3 DEF IInv, RetainedIsRecent
  <2>2. messages[i].id \in Nat
    BY <1>1 DEF Message
  <2>3. messages[i].id # messages[j].id
    BY <2>1, <2>2
  <2> QED
    BY <2>3 DEF TokensOf
<1>4. TokensHeld = UNION {t(i) : i \in 1 .. Len(messages)}
  BY <1>1 DEF TokensHeld, InWindow, Elements, TokensOf
<1>5. current_tokens = Cardinality(TokensHeld)
  BY DEF Counters, TokenAccounting
<1> HIDE DEF t
<1>6. CASE Len(messages) = 1
  <2>1. TokensHeld = t(1)
    BY <1>4, <1>6
  <2> QED
    BY <1>2, <1>5, <1>6, <2>1
<1>7. ASSUME Len(messages) >= 2
      PROVE  /\ IsFiniteSet(t(1) \cup t(2))
             /\ Cardinality(t(1) \cup t(2)) =
                   messages[1].token_count + messages[2].token_count
  <2>1. 1 \in 1 .. Len(messages) /\ 2 \in 1 .. Len(messages)
    BY <1>1, <1>7
  <2>2. t(1) \cap t(2) = {}
    BY <1>3, <2>1
  <2>3. IsFiniteSet(t(1)) /\ IsFiniteSet(t(2))
    BY <1>2, <2>1
  <2>4. /\ Cardinality(t(1)) = messages[1].token_count
        /\ Cardinality(t(2)) = messages[2].token_count
    BY <1>2, <2>1
  <2>5. /\ IsFiniteSet(t(1) \cup t(2))
        /\ Cardinality(t(1) \cup t(2)) = Cardinality(t(1)) + Cardinality(t(2))
    BY <2>2, <2>3, DisjointSum
  <2> QED
    BY <2>4, <2>5
<1>8. CASE Len(messages) = 2
  <2>1. TokensHeld = t(1) \cup t(2)
    <3>1. 1 .. Len(messages) = {1, 2}
      BY <1>8
    <3>2. {t(i) : i \in {1, 2}} = {t(1), t(2)}
      OBVIOUS
    <3> QED
      BY <1>4, <3>1, <3>2
  <2> QED
    BY <1>5, <1>7, <1>8, <2>1
<1>9. CASE Len(messages) = 3
  <2>1. TokensHeld = (t(1) \cup t(2)) \cup t(3)
    <3>1. 1 .. Len(messages) = {1, 2, 3}
      BY <1>9
    <3>2. {t(i) : i \in {1, 2, 3}} = {t(1), t(2), t(3)}
      OBVIOUS
    <3> QED
      BY <1>4, <3>1, <3>2
  <2>2. 1 \in 1 .. Len(messages) /\ 2 \in 1 .. Len(messages) /\ 3 \in 1 .. Len(messages)
    BY <1>9
  <2>3. (t(1) \cup t(2)) \cap t(3) = {}
    <3>1. t(1) \cap t(3) = {} /\ t(2) \cap t(3) = {}
      BY <1>3, <2>2
    <3> QED
      BY <3>1
  <2>4. Cardinality(TokensHeld) = Cardinality(t(1) \cup t(2)) + Cardinality(t(3))
    <3>1. IsFiniteSet(t(1) \cup t(2)) /\ IsFiniteSet(t(3))
      BY <1>2, <1>7, <1>9, <2>2
    <3> QED
      BY <2>1, <2>3, <3>1, DisjointSum
  <2>5. /\ Cardinality(t(3)) = messages[3].token_count
        /\ Cardinality(t(1) \cup t(2)) =
              messages[1].token_count + messages[2].token_count
    BY <1>2, <1>7, <1>9, <2>2
  <2> QED
    BY <1>5, <1>9, <2>4, <2>5
<1>10. QED
  BY <1>1, <1>6, <1>8, <1>9

-----------------------------------------------------------------------------
(* Every reachable state satisfies the inductive invariant. *)
THEOREM Invariance == Spec => [](IInv /\ Counters)
<1>1. Init => IInv /\ Counters
  BY InitIInv, InitCounters
<1>2. IInv /\ Counters /\ [Next]_vars => (IInv /\ Counters)'
  BY StepIInv, StepCounters
<1>3. QED BY <1>1, <1>2, PTL DEF Spec

(* The fields of ContextWindow keep their types through every push. *)
THEOREM TypeCorrect == Spec => []TypeOK
<1>1. IInv => TypeOK
  BY DEF IInv
<1>2. QED BY <1>1, Invariance, PTL

(* The token counter push_message and evict_oldest maintain is exact: it   *)
(* is the number of tokens of the messages in the deque.                   *)
THEOREM TokenAccountingHolds == Spec => []TokenAccounting
<1>1. Counters => TokenAccounting
  BY DEF Counters
<1>2. QED BY <1>1, Invariance, PTL

(* max_tokens is exceeded only when System messages and the message just   *)
(* pushed are all the window holds.                                        *)
THEOREM OverLimitOnlyBySystemHolds == Spec => []OverLimitOnlyBySystem
<1>1. IInv => OverLimitOnlyBySystem
  BY DEF IInv
<1>2. QED BY <1>1, Invariance, PTL

(* evict_oldest never removes a System message. *)
THEOREM SystemNeverEvictedHolds == Spec => []SystemNeverEvicted
<1>1. IInv => SystemNeverEvicted
  BY DEF IInv
<1>2. QED BY <1>1, Invariance, PTL

(* Over any number of pushes, eviction goes from the oldest to the newest  *)
(* and the deque stays in the order of the calls.                          *)
THEOREM RetainedIsRecentHolds == Spec => []RetainedIsRecent
<1>1. IInv => RetainedIsRecent
  BY DEF IInv
<1>2. QED BY <1>1, Invariance, PTL

(* total_evicted is the number of messages pushed and no longer held. *)
THEOREM EvictionsCountedHolds == Spec => []EvictionsCounted
<1>1. Counters => EvictionsCounted
  BY DEF Counters
<1>2. QED BY <1>1, Invariance, PTL
=============================================================================
