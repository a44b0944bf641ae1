---------------------------- MODULE MCInterrupts -----------------------------
(***************************************************************************)
(* Interrupts for TLC.                                                     *)
(***************************************************************************)
EXTENDS Interrupts

AllFaults == {"panic", "page_fault", "breakpoint", "stack_overflow"}
=============================================================================
