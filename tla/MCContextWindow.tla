--------------------------- MODULE MCContextWindow ---------------------------
(***************************************************************************)
(* ContextWindow for TLC, with the refinement of ContextWindowSpec.        *)
(***************************************************************************)
EXTENDS ContextWindow

Spec0 == INSTANCE ContextWindowSpec WITH
            TokenCounts <- {estimate_tokens(len) : len \in Lengths},
            window <- messages, evicted <- total_evicted, calls <- Len(log)

(* The abstract window of a call under way is the one the call is going to *)
(* leave: the iterations of the loop do not change it.                     *)
Abstract == INSTANCE ContextWindowSpec WITH
    TokenCounts <- {estimate_tokens(len) : len \in Lengths},
    window <- IF pushing = NoMessage THEN messages
              ELSE Spec0!AfterPush(messages, pushing),
    evicted <- total_evicted + (IF pushing = NoMessage THEN 0
                                ELSE Spec0!Excess(messages, pushing)),
    calls <- Len(log)

(* The loop of push_message implements the atomic Push: it keeps the       *)
(* longest run of recent messages that leaves room, and evicts none that   *)
(* could have stayed.                                                      *)
ImplementsAtomicPush == Abstract!Spec
=============================================================================
