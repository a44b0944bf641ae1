----------------------------- MODULE BootMemory -----------------------------
(***************************************************************************)
(* The bootloader's view of physical memory, from the firmware's answers   *)
(* to the frames it hands out: do_e820 (e820.s), create_from               *)
(* (boot_info.rs), the four regions bootloader_main marks as used          *)
(* (main.rs), and FrameAllocator::allocate_frame called in any order for   *)
(* the types bootloader_main allocates.                                    *)
(*                                                                         *)
(* The firmware's list and the layout of the boot image are chosen         *)
(* initially.  An entry has a start, a length, a type (1 to 5) and a flag  *)
(* that says whether do_e820 may use it: ECX is not 0 and, in a 24 byte    *)
(* answer, the ACPI attribute "enabled" is set.                            *)
(***************************************************************************)
EXTENDS MemoryMap

CONSTANTS
    FirmwareLists,     \* the lists a firmware may answer with
    Layouts,           \* where bootloader, kernel and page tables lie, in bytes
    NumFrames          \* frames of physical memory

VARIABLES
    pc,
    firmware,      \* the firmware's list
    layout,        \* the layout of the boot image
    ebx,           \* do_e820: entries the firmware has answered
    e820,          \* the entries do_e820 stored; mmap_ent is their number
    added,         \* create_from: entries added to the map
    memory_map,
    todo           \* types of the regions not yet marked

vars == <<pc, firmware, layout, ebx, e820, added, memory_map, todo>>

MarkOrder == <<"FrameZero", "Bootloader", "Kernel", "PageTable">>

Allocated == {"BootInfo", "Kernel", "KernelStack", "PageTable"}

Init ==
    /\ pc = "e820"
    /\ firmware \in FirmwareLists
    /\ layout \in Layouts
    /\ ebx = 0
    /\ e820 = <<>>
    /\ added = 0
    /\ memory_map = <<>>
    /\ todo = MarkOrder

-----------------------------------------------------------------------------
(* One round of do_e820: INT 0x15, and the test whether the entry is kept. *)
(* A list of one entry, or none, is refused, and stage_2 does not look at  *)
(* the carry flag: it goes on with mmap_ent = 0.                           *)
Answered(entry) == entry.usable /\ entry.len # 0

do_e820 ==
    /\ pc = "e820"
    /\ IF Len(firmware) <= 1
       THEN pc' = "create_from" /\ UNCHANGED <<ebx, e820>>
       ELSE /\ ebx' = ebx + 1
            /\ e820' = IF Answered(firmware[ebx + 1])
                       THEN Append(e820, firmware[ebx + 1]) ELSE e820
            /\ pc' = IF ebx + 1 = Len(firmware) THEN "create_from" ELSE "e820"
    /\ UNCHANGED <<firmware, layout, added, memory_map, todo>>

-----------------------------------------------------------------------------
TypeName == <<"Usable", "Reserved", "AcpiReclaimable", "AcpiNvs", "BadMemory">>

(* MemoryRegion::from; other types panic. *)
from(entry) ==
    FrameRange_new(entry.start, entry.start + entry.len, TypeName[entry.type])

(* create_from: the entries are added one by one (stage_4 passes the low   *)
(* byte of their number), then usable regions are trimmed.  bootloader_main*)
(* panics on an empty map.                                                 *)
EntryCount == Len(e820) % 256

add_entry ==
    /\ pc = "create_from"
    /\ added < EntryCount
    /\ LET entry == e820[added + 1]
           r == add_region(memory_map, from(entry))
       IN  IF entry.type \notin DOMAIN TypeName \/ r.outcome = "panic"
           THEN pc' = "no_map" /\ UNCHANGED <<added, memory_map>>
           ELSE added' = added + 1 /\ memory_map' = r.map /\ pc' = pc
    /\ UNCHANGED <<firmware, layout, ebx, e820, todo>>

trim_regions ==
    /\ pc = "create_from"
    /\ added = EntryCount
    /\ memory_map' = trim_usable(sort(memory_map))
    /\ pc' = IF memory_map = <<>> THEN "no_map" ELSE "mark"
    /\ UNCHANGED <<firmware, layout, ebx, e820, added, todo>>

create_from == add_entry \/ trim_regions

-----------------------------------------------------------------------------
(* The regions bootloader_main marks: frame 0, and the frames that hold a  *)
(* byte of the bootloader, of the kernel's file and of the page tables.    *)
RegionIn(lay, type) ==
    IF type = "FrameZero" THEN MemoryRegion(0, 1, type)
    ELSE FrameRange_new(lay[type][1], lay[type][2], type)
RegionOf(type) == RegionIn(layout, type)

mark_used ==
    /\ pc = "mark"
    /\ todo # <<>>
    /\ LET r == mark_allocated_region(memory_map, RegionOf(Head(todo)))
       IN  /\ memory_map' = IF r.outcome = "panic" THEN memory_map ELSE r.map
           /\ todo' = Tail(todo)
           /\ pc' = IF r.outcome = "panic" THEN "panic"
                    ELSE IF Tail(todo) = <<>> THEN "allocate" ELSE "mark"
    /\ UNCHANGED <<firmware, layout, ebx, e820, added>>

(* A call of allocate_frame; None ends in a panic in every caller.  After  *)
(* a panic the map is not read again, and what it holds does not matter.   *)
allocate(region_type) ==
    /\ pc = "allocate"
    /\ LET r == allocate_frame(memory_map, region_type)
       IN  /\ memory_map' = IF r.outcome = "panic" THEN memory_map ELSE r.map
           /\ pc' = IF r.outcome = "ok" THEN "allocate" ELSE "panic"
    /\ UNCHANGED <<firmware, layout, ebx, e820, added, todo>>

Stopped == pc \in {"no_map", "panic"}

(* A panic prints and loops. *)
halted == Stopped /\ UNCHANGED vars

Next ==
    \/ do_e820
    \/ create_from
    \/ mark_used
    \/ \E region_type \in Allocated : allocate(region_type)
    \/ halted

Spec == Init /\ [][Next]_vars

-----------------------------------------------------------------------------
Frame == 0 .. NumFrames - 1

Regions == {memory_map[i] : i \in DOMAIN memory_map}

OwnedBy(type) == UNION {Frames(r) : r \in {r \in Regions : r.type = type}}

(* The firmware's entries do_e820 keeps and create_from understands. *)
Listed(list) == {i \in DOMAIN list : Answered(list[i]) /\ list[i].type \in DOMAIN TypeName}

(* The frames that hold a byte of usable memory, or of memory of another   *)
(* type, by the firmware's list.                                           *)
FramesListed(types) ==
    UNION {Frames(from(firmware[i])) : i \in {i \in Listed(firmware) : firmware[i].type \in types}}
ReservedFrames == FramesListed(DOMAIN TypeName \ {1})

(* A list and a layout as on the machines the bootloader is written for: a *)
(* list of fewer than 256 entries, in which only usable memory shares      *)
(* frames with an entry that comes after it in the order of the map; and   *)
(* four marked regions that are disjoint and inside which no entry starts  *)
(* or ends.  The code relies on this and does not test it.                 *)
Inside(region) == region.start + 1 .. region.end - 1

TidyMemory(list, lay) ==
    /\ list \in Seq([start : Nat, len : Nat, type : Nat, usable : BOOLEAN])
    /\ Len(list) < 256
    /\ \A i, j \in Listed(list) :
          /\ i # j
          /\ list[i].type # 1
          /\ ~ Before(from(list[j]), from(list[i]))
          => from(list[i]).end <= from(list[j]).start
    /\ lay \in [{"Bootloader", "Kernel", "PageTable"} -> Nat \X Nat]
    /\ \A type \in DOMAIN lay : lay[type][1] < lay[type][2]
    /\ \A i, j \in DOMAIN MarkOrder :
          i # j => Frames(RegionIn(lay, MarkOrder[i])) \cap Frames(RegionIn(lay, MarkOrder[j])) = {}
    /\ \A i \in DOMAIN MarkOrder, j \in Listed(list) :
          {from(list[j]).start, from(list[j]).end} \cap Inside(RegionIn(lay, MarkOrder[i])) = {}
Tidy == TidyMemory(firmware, layout)

HasMap == pc \in {"mark", "allocate", "panic"}

(* Once the map is made no frame is in two regions: sorting, trimming,     *)
(* marking and the two ways allocate_frame moves a border, which it does   *)
(* without sorting again, leave no overlap, no border that passes another, *)
(* and no region past the end of the array.                                *)
RegionsDisjoint ==
    HasMap =>
        /\ Len(memory_map) <= MAX_MEMORY_MAP_SIZE
        /\ \A r \in Regions : r.start <= r.end
        /\ \A i, j \in DOMAIN memory_map :
                i # j => Frames(memory_map[i]) \cap Frames(memory_map[j]) = {}

(* When frames are handed out, no usable region holds frame 0 or a byte of *)
(* the bootloader, the kernel's file, the page tables in use or memory the *)
(* firmware reserved, or a frame the firmware does not list as usable.     *)
UsableIsUnused ==
    pc = "allocate" =>
        /\ OwnedBy("Usable") \subseteq FramesListed({1})
        /\ OwnedBy("Usable") \cap ReservedFrames = {}
        /\ \A i \in DOMAIN MarkOrder :
              OwnedBy("Usable") \cap Frames(RegionOf(MarkOrder[i])) = {}

OwnerOf(map, f) ==
    LET here == {i \in DOMAIN map : f \in Frames(map[i])}
    IN  IF here = {} THEN "Unlisted" ELSE map[Min(here)].type

(* Every frame has one owner, which only changes from usable to the owner  *)
(* that asked: the map the bootloader keeps implements frame ownership.    *)
Ownership == INSTANCE FrameOwnership WITH
    Owner <- {"Reserved", "AcpiReclaimable", "AcpiNvs", "BadMemory", "FrameZero",
              "Bootloader"} \cup Allocated,
    owner <- [f \in Frame |-> OwnerOf(IF HasMap THEN memory_map ELSE <<>>, f)]

ImplementsOwnership == Ownership!Spec
=============================================================================
