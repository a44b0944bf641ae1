----------------------------- MODULE MCBootPrinter -----------------------------
(***************************************************************************)
(* BootPrinter and VgaWriter for TLC: a text screen of three rows and two  *)
(* columns, a graphics screen of two rows of three characters, all texts   *)
(* of up to MaxBytes bytes and all panic messages of up to MaxMessage.     *)
(***************************************************************************)
EXTENDS BootPrinter
=============================================================================
