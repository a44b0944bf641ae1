------------------------------ MODULE MemoryMap ------------------------------
(***************************************************************************)
(* The bootloader's map of physical memory: MemoryMap of                   *)
(* src/bootloader/src/bootinfo/memory_map.rs, its construction from the    *)
(* firmware's list (boot_info.rs) and the two operations of FrameAllocator *)
(* (frame_allocator.rs).  A map is the sequence of regions that            *)
(* MemoryMap::deref returns, entries[0 .. next_entry_index].               *)
(*                                                                         *)
(* An operation that may panic returns a record: outcome is "ok", "none"   *)
(* (allocate_frame returned None) or "panic"; map and frame are its        *)
(* results.                                                                *)
(***************************************************************************)
EXTENDS Paging, Sequences, FiniteSets, FiniteSetsExt

CONSTANT MAX_MEMORY_MAP_SIZE    \* entries of the array, 64 in the code

ASSUME MapSizeAssumption == MAX_MEMORY_MAP_SIZE \in Nat

MemoryRegion(start, end, type) == [start |-> start, end |-> end, type |-> type]

is_empty(r) == r.start = r.end

Frames(r) == r.start .. r.end - 1

(* FrameRange::new, of the bytes from start_addr up to end_addr. *)
FrameRange_new(start_addr, end_addr, type) ==
    MemoryRegion(PageOf(start_addr), PageOf(end_addr - 1) + 1, type)

(* The order of MemoryMap::sort on regions that are not empty. *)
Before(r1, r2) ==
    r1.start < r2.start \/ (r1.start = r2.start /\ r1.end < r2.end)

(* MemoryMap::sort: empty regions go to the end of the array, where        *)
(* next_entry_index leaves them out; the place of a region is the number   *)
(* of those before it.  The order of equal ranges does not matter.  (The   *)
(* singleton set has TLC evaluate the map only once.)                      *)
Kept(map) == {i \in DOMAIN map : ~ is_empty(map[i])}
Precedes(map, j, i) == Before(map[j], map[i]) \/ (~ Before(map[i], map[j]) /\ j < i)

Sorted(map) ==
    LET kept == Kept(map)
        placed == {<<Cardinality({j \in kept : Precedes(map, j, i)}) + 1, map[i]>> : i \in kept}
    IN  [k \in 1 .. Cardinality(kept) |-> (CHOOSE p \in placed : p[1] = k)[2]]

sort(map) == CHOOSE s \in {Sorted(m) : m \in {map}} : TRUE

Result(outcome, map, frame) == [outcome |-> outcome, map |-> map, frame |-> frame]
NoFrame == -1

add_region(map, region) ==
    IF Len(map) < MAX_MEMORY_MAP_SIZE
    THEN Result("ok", sort(Append(map, region)), NoFrame)
    ELSE Result("panic", map, NoFrame)

(* The last loop of create_from: a usable region ends where the next       *)
(* region starts.                                                          *)
trim_nothing(map) == map
trim_usable(map) ==
    [i \in DOMAIN map |->
        IF i < Len(map) /\ map[i].type = "Usable" /\ map[i].end > map[i + 1].start
        THEN [map[i] EXCEPT !.end = map[i + 1].start]
        ELSE map[i]]

-----------------------------------------------------------------------------
(* FrameAllocator::allocate_frame. *)

(* Regions of the type followed directly by usable memory. *)
Enlargeable_ignores_gap(map, region_type) ==
    {i \in 1 .. Len(map) - 1 :
        /\ map[i].type = region_type
        /\ map[i + 1].type = "Usable"
        /\ ~ is_empty(map[i + 1])}
Enlargeable(map, region_type) ==
    {i \in 1 .. Len(map) - 1 :
        /\ map[i].type = region_type
        /\ map[i + 1].start = map[i].end
        /\ map[i + 1].type = "Usable"
        /\ ~ is_empty(map[i + 1])}

Splittable(map) ==
    {i \in DOMAIN map : map[i].type = "Usable" /\ ~ is_empty(map[i])}

enlarge_keeps_next(map, i) ==
    Result("ok", [map EXCEPT ![i].end = @ + 1], map[i].end)
enlarge(map, i) ==
    Result("ok", [map EXCEPT ![i].end = @ + 1, ![i + 1].start = @ + 1], map[i].end)

(* split_usable_region, and the new region of one frame. *)
split(map, i, region_type) ==
    LET frame == map[i].start
        rest == [map EXCEPT ![i].start = @ + 1]
    IN  [add_region(rest, MemoryRegion(frame, frame + 1, region_type))
            EXCEPT !.frame = frame]

(* Page tables come from the last usable region, all else from the first. *)
allocate_frame(map, region_type) ==
    IF Enlargeable(map, region_type) # {}
    THEN enlarge(map, Min(Enlargeable(map, region_type)))
    ELSE IF Splittable(map) = {} THEN Result("none", map, NoFrame)
    ELSE split(map, IF region_type = "PageTable" THEN Max(Splittable(map))
                    ELSE Min(Splittable(map)), region_type)

-----------------------------------------------------------------------------
(* FrameAllocator::mark_allocated_region: the first region that overlaps   *)
(* the marked one gives way to it, and must be usable.                     *)

Overlapping(map, region) ==
    {i \in DOMAIN map : region.start < map[i].end /\ map[i].start < region.end}

carve(map, i, region) ==
    LET r == map[i]
    IN  CASE region.start = r.start /\ region.end < r.end ->
                add_region([map EXCEPT ![i].start = region.end], region)
          [] region.start = r.start /\ region.end >= r.end ->
                Result("ok", [map EXCEPT ![i] = region], NoFrame)
          [] region.start > r.start /\ region.end < r.end ->
                LET both == add_region([map EXCEPT ![i].end = region.start],
                                       [r EXCEPT !.start = region.end])
                IN  IF both.outcome = "panic" THEN both
                    ELSE add_region(both.map, region)
          [] region.start > r.start /\ region.end >= r.end ->
                add_region([map EXCEPT ![i].end = region.start], region)
          [] OTHER ->
                add_region([map EXCEPT ![i].start = region.end], region)

mark_allocated_region(map, region) ==
    IF Overlapping(map, region) = {} THEN Result("panic", map, NoFrame)
    ELSE LET i == Min(Overlapping(map, region))
         IN  IF map[i].type # "Usable" THEN Result("panic", map, NoFrame)
             ELSE carve(map, i, region)
=============================================================================
