---------------------------- MODULE MCToolRegistry ----------------------------
(***************************************************************************)
(* ToolRegistry for TLC.  i64 becomes a signed integer of three bits, and  *)
(* the operands reach one past both ends of its range.                     *)
(***************************************************************************)
EXTENDS ToolRegistry

MCOperands == -5 .. 4
MCMinInt == -4
=============================================================================
