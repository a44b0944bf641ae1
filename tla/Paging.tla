------------------------------- MODULE Paging -------------------------------
(***************************************************************************)
(* Pages and frames, shared by the modules of the boot.  Addresses count   *)
(* bytes; a page number is an address divided by PAGE_SIZE.                *)
(***************************************************************************)
EXTENDS Integers

CONSTANT PAGE_SIZE    \* bytes per page and frame, 4096 in the code

ASSUME PageSizeAssumption == PAGE_SIZE \in Nat \ {0}

PageOf(addr) == addr \div PAGE_SIZE

AlignUp(addr) == ((addr + PAGE_SIZE - 1) \div PAGE_SIZE) * PAGE_SIZE
=============================================================================
