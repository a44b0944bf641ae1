-------------------------- MODULE ContextWindowSpec --------------------------
(***************************************************************************)
(* What push_message of src/src/agent/context.rs promises, as one atomic   *)
(* step and without its loop: the System messages and the longest run of   *)
(* the most recent other messages that leaves room for the new message are *)
(* kept, in order, and the new message comes last.  Module ContextWindow   *)
(* implements this specification.                                          *)
(***************************************************************************)
EXTENDS Naturals, Sequences, FiniteSetsExt, SequencesExt

CONSTANTS Role, TokenCounts, MaxTokens, MaxPushes

VARIABLES
    window,    \* the messages of the window, oldest first
    evicted,   \* how many messages were dropped so far
    calls      \* how many messages were pushed so far

Tokens(w) == FoldLeft(LAMBDA n, m : n + m.token_count, 0, w)

(* The positions of w that do not hold a System message. *)
Others(w) == {i \in DOMAIN w : w[i].role # "System"}

(* w without its k oldest messages that are not System. *)
WithoutOldest(w, k) ==
    LET dropped == {i \in Others(w) :
                       Cardinality({j \in Others(w) : j < i}) < k}
        kept == SetToSortSeq(DOMAIN w \ dropped, <)
    IN  [n \in DOMAIN kept |-> w[kept[n]]]

(* The fewest messages that have to go for m to fit: all of them if it     *)
(* does not fit even then.                                                 *)
Excess(w, m) ==
    LET all == Cardinality(Others(w))
        enough == {k \in 0 .. all :
                      Tokens(WithoutOldest(w, k)) + m.token_count <= MaxTokens}
    IN  IF enough = {} THEN all ELSE Min(enough)

AfterPush(w, m) == Append(WithoutOldest(w, Excess(w, m)), m)

Init ==
    /\ window = <<>>
    /\ evicted = 0
    /\ calls = 0

Push(role, tokens) ==
    LET m == [id |-> calls + 1, role |-> role, token_count |-> tokens]
    IN  /\ calls < MaxPushes
        /\ calls' = calls + 1
        /\ window' = AfterPush(window, m)
        /\ evicted' = evicted + Excess(window, m)

Next == \E role \in Role, tokens \in TokenCounts : Push(role, tokens)

Spec == Init /\ [][Next]_<<window, evicted, calls>>
=============================================================================
