---------------------------- MODULE MCBootMemory ----------------------------
(***************************************************************************)
(* BootMemory for TLC: frames of two bytes, the shapes of firmware lists   *)
(* and boot images that exercise every case of the code.                   *)
(***************************************************************************)
EXTENDS BootMemory

Entry(start, end, type) ==
    [start |-> start, len |-> end - start, type |-> type, usable |-> TRUE]
Disabled(start, end, type) == [Entry(start, end, type) EXCEPT !.usable = FALSE]

(* A PC: memory below the BIOS area, which starts inside a frame, and      *)
(* memory above it.                                                        *)
Usual == <<Entry(0, 11, 1), Entry(11, 12, 2), Entry(16, 26, 1), Entry(26, 28, 2)>>

(* Unsorted, with an empty and a disabled entry. *)
Unsorted ==
    <<Entry(16, 26, 1), Entry(20, 20, 2), Entry(26, 28, 3), Disabled(4, 8, 5),
      Entry(0, 12, 1), Entry(12, 14, 4)>>

(* Usable entries that overlap or touch, bad memory inside one. *)
Overlaps == <<Entry(0, 4, 1), Entry(0, 13, 1), Entry(12, 22, 1), Entry(22, 26, 1),
              Entry(24, 25, 5)>>

(* Memory with a gap the firmware does not list. *)
Gap == <<Entry(0, 10, 1), Entry(14, 26, 1)>>

(* All of memory in one entry, and an entry of an unknown type. *)
OneUsable == <<Entry(0, 24, 1), Entry(26, 28, 2)>>
UnknownType == <<Entry(0, 28, 1), Entry(28, 32, 7)>>
Single == <<Entry(0, 28, 1)>>
NoneKept == <<Disabled(0, 28, 1), Entry(28, 28, 2)>>

MCFirmwareLists ==
    {Usual, Unsorted, Overlaps, Gap, OneUsable, UnknownType, Single, NoneKept, <<>>}

MCLayouts ==
    {[Bootloader |-> <<4, 8>>, Kernel |-> <<18, 21>>, PageTable |-> <<2, 4>>],
     [Bootloader |-> <<6, 9>>, Kernel |-> <<16, 20>>, PageTable |-> <<2, 4>>]}

ASSUME MemoriesTidy == \A list \in MCFirmwareLists, lay \in MCLayouts : TidyMemory(list, lay)

(* The usable entry starts inside the last frame of a reserved one. *)
MCReservedFirst == {<<Entry(0, 12, 1), Entry(12, 15, 2), Entry(15, 28, 1)>>}
=============================================================================
