----------------------------- MODULE KernelBoot -----------------------------
(***************************************************************************)
(* From the boot sector to a kernel with a heap: the assembly stages       *)
(* (BootStages), memory detection and the memory map (BootMemory),         *)
(* bootloader_main (src/bootloader/src/main.rs) with page_table.rs and     *)
(* level4_entries.rs, the handoff, and the kernel's BootInfoFrameAllocator *)
(* and init_heap (src/src/memory.rs, src/src/allocator.rs).  The allocate  *)
(* of BootMemory is replaced by the allocations bootloader_main makes.     *)
(*                                                                         *)
(* Below each level-4 entry there is one page table instead of a tree of   *)
(* three levels.  A loop over pages is a sequence of work items that the   *)
(* actions of the section "page_table.rs" take from the front.             *)
(***************************************************************************)
EXTENDS BootMemory, BootStages, SequencesExt

CONSTANTS
    Elfs,                 \* program headers of kernels linked in another way
    SectionSizes,         \* sizes of .text, .rodata, .data and .bss
    LinkBase,             \* where the kernel is linked, 0x200000
    MAX_SEGMENTS,         \* program headers bootloader_main has room for, 32
    L4Entries,            \* entries of the level-4 table, 512 in the code
    PagesPerEntry,        \* pages below one entry, 2^27 in the code
    TempPage,             \* the page at 0xfeeefeee000
    KERNEL_STACK_SIZE,    \* pages
    Configs,              \* addresses the kernel's manifest may ask for, or None
    HeapStart, HeapPages  \* first page and number of pages of the heap

VARIABLES
    elf,             \* the program headers
    config,          \* the constants of bootloader_config.rs
    max_phys_addr,   \* the end of the last region of the firmware's list
    cr,              \* control bits: NXE and WP
    level4,          \* UsedLevel4Entries: the entries in use
    recursive,       \* recursive_index
    boot_info_page,
    tables,          \* entry -> frame of the page table below it
    flags,           \* page -> its flags, for the pages of mapped
    offset,          \* physical_memory_offset
    segment,         \* program headers mapped so far
    work,            \* what is left of the loop that runs
    boot_info,       \* the structure in the boot info page
    next             \* BootInfoFrameAllocator::next

bootVars == <<elf, config, max_phys_addr, cr, level4, recursive, boot_info_page, tables,
              flags, offset, segment, work, boot_info, next>>
allVars == <<vars, stageVars, bootVars>>

(* What no action after stage 3 changes. *)
inputs == <<firmware, layout, ebx, e820, added, stage, image, dap, ecx, edi, elf, config>>

None == -1
NoTls == [start_addr |-> 0, file_size |-> 0, mem_size |-> 0]
NoBootInfo == <<>>
DefaultConfig == [boot_info_address |-> None, kernel_stack_address |-> None,
                  physical_memory_offset |-> None]

W == "WRITABLE"
NX == "NO_EXECUTE"

p4_index(page) == page \div PagesPerEntry

LEVEL_4_SIZE == PagesPerEntry * PAGE_SIZE

(* The build script refuses an address off a page boundary; the stack and  *)
(* the map of physical memory end inside the address space.                *)
ASSUME ConfigsAssumption ==
    \A c \in Configs :
        /\ \A key \in {"boot_info_address", "kernel_stack_address", "physical_memory_offset"} :
              c[key] # None => c[key] \in Nat /\ c[key] % PAGE_SIZE = 0
        /\ PageOf(c.kernel_stack_address) + KERNEL_STACK_SIZE < L4Entries * PagesPerEntry
        /\ PageOf(c.boot_info_address) + KERNEL_STACK_SIZE + 1 < L4Entries * PagesPerEntry
        /\ c.physical_memory_offset + NumFrames * PAGE_SIZE + HugeSize
              <= L4Entries * LEVEL_4_SIZE

-----------------------------------------------------------------------------
(* The kernel's file.  A program header has a type, the flags "x" and "w", *)
(* the address and size in memory, and the offset and size in the file.    *)
Header(type, flags_, virtual_addr, offset_, file_size, mem_size) ==
    [type |-> type, flags |-> flags_, virtual_addr |-> virtual_addr, offset |-> offset_,
     file_size |-> file_size, mem_size |-> mem_size]

(* src/src/linker.ld: each section starts at a page, .data and .bss are    *)
(* one segment.  The file starts with a page for its headers, and empty    *)
(* sections give no segment.                                               *)
LinkedElf_unaligned(text, rodata, data, bss) ==
    LET rodata_addr == LinkBase + text
        data_addr == rodata_addr + rodata
        Load(f, addr, size, mem) ==
            Header("Load", f, addr, addr - LinkBase + PAGE_SIZE, size, mem)
    IN  SelectSeq(<<Load({"x"}, LinkBase, text, text), Load({}, rodata_addr, rodata, rodata),
                    Load({"w"}, data_addr, data, data + bss)>>,
                  LAMBDA h : h.mem_size > 0)
LinkedElf(text, rodata, data, bss) ==
    LET rodata_addr == AlignUp(LinkBase + text)
        data_addr == AlignUp(rodata_addr + rodata)
        bss_addr == AlignUp(data_addr + data)
        Load(f, addr, size, mem) ==
            Header("Load", f, addr, addr - LinkBase + PAGE_SIZE, size, mem)
    IN  SelectSeq(<<Load({"x"}, LinkBase, text, text), Load({}, rodata_addr, rodata, rodata),
                    Load({"w"}, data_addr, data,
                         IF bss = 0 THEN data ELSE (bss_addr - data_addr) + bss)>>,
                  LAMBDA h : h.mem_size > 0)

FileEnd(headers) == Max({0} \cup {headers[i].offset + headers[i].file_size : i \in DOMAIN headers})

(* The kernels the linker script gives, for sections of the sizes tried. *)
LinkedElfs == {LinkedElf(n[1], n[2], n[3], n[4]) : n \in SectionSizes}

(* The layout of the boot image, by the linker script of the bootloader.   *)
LayoutOf(img) ==
    [Bootloader |-> <<BootloaderStart, BootSector + (1 + img.rest) * BLOCK>>,
     Kernel     |-> <<KernelTarget, KernelTarget + img.size>>,
     PageTable  |-> <<PageTableStart, PageTableEnd>>]

-----------------------------------------------------------------------------
(* UsedLevel4Entries. *)

used_by(seg) ==
    p4_index(PageOf(seg.virtual_addr)) .. p4_index(PageOf(seg.virtual_addr + seg.mem_size))

UsedLevel4Entries_new == {0} \cup UNION {used_by(elf[i]) : i \in DOMAIN elf}

(* The start of the first num free entries in a row; none makes the caller *)
(* panic.                                                                  *)
FreeEntries(used, num) ==
    {i \in 0 .. L4Entries - num : (i .. i + num - 1) \cap used = {}}

get_free_entries(used, num) ==
    LET free == FreeEntries(used, num)
    IN  {i \in free : \A j \in free : i <= j}

(* An address from the manifest, which reserves no entry, or the start of  *)
(* num free entries, which are reserved.                                   *)
unwrap_or_free(configured, num) ==
    IF configured # None THEN {[addr |-> configured, entries |-> {}]}
    ELSE {[addr |-> i * LEVEL_4_SIZE, entries |-> i .. i + num - 1] :
             i \in get_free_entries(level4, num)}

(* No address of the manifest lies below the entry that will become        *)
(* recursive: a page there would be mapped into the page tables.           *)
ClearOfRecursive ==
    \A entry \in get_free_entries(UsedLevel4Entries_new, 1) :
        LET Apart(addr, pages) ==
                addr = None \/ entry \notin p4_index(PageOf(addr)) ..
                                              p4_index(PageOf(addr) + pages)
        IN  /\ Apart(config.boot_info_address, KERNEL_STACK_SIZE + 1)
            /\ Apart(config.kernel_stack_address, KERNEL_STACK_SIZE)
            /\ Apart(config.physical_memory_offset, NumFrames + HUGE)

-----------------------------------------------------------------------------
(* The machine has memory for the kernel's file; a firmware that answers   *)
(* nothing does not tell.                                                  *)
RoomForFile ==
    firmware # <<>> =>
        \E i \in DOMAIN firmware :
            /\ firmware[i].start <= KernelTarget
            /\ KernelTarget + image.size <= firmware[i].start + firmware[i].len

BootInit ==
    /\ StagesInit
    /\ Init
    /\ layout = LayoutOf(image)
    /\ RoomForFile
    /\ elf \in {e \in Elfs \cup LinkedElfs : FileEnd(e) <= image.size}
    /\ config \in Configs
    /\ ClearOfRecursive
    /\ max_phys_addr = 0
    /\ cr = {}
    /\ level4 = {}
    /\ recursive = None
    /\ boot_info_page = None
    /\ tables = 0 :> PageOf(PageTableStart)
    /\ flags = <<>>
    /\ offset = None
    /\ segment = 0
    /\ work = <<>>
    /\ boot_info = NoBootInfo
    /\ next = 0

(* The assembly stages.  stage_2 makes the memory map after the kernel is  *)
(* loaded; stage_3 maps all pages writable and executable.                 *)
stages ==
    /\ StagesNext
    /\ stage = "loaded" => pc = "create_from"
    /\ flags' = [page \in DOMAIN mapped' |-> {W}]
    /\ UNCHANGED <<vars, elf, config, max_phys_addr, cr, level4, recursive, boot_info_page, tables,
                   offset, segment, work, boot_info, next>>

detect_memory ==
    /\ stage = "loaded"
    /\ do_e820
    /\ UNCHANGED <<stageVars, bootVars>>
-----------------------------------------------------------------------------
(* page_table.rs.  A work item maps a page to a frame, maps it to a frame  *)
(* still to be allocated, copies the page a segment's file part ends in,   *)
(* or zeroes the rest of a segment.  An error ends in a panic;             *)
(* "mapping_error" is the one for a page that is in use.                   *)

MapTo(page, frame, flags_) == [op |-> "map", page |-> page, frame |-> frame, flags |-> flags_]
MapNew(page, type, flags_) == [op |-> "new", page |-> page, type |-> type, flags |-> flags_]
MapHuge(page, frame) == [op |-> "huge", page |-> page, frame |-> frame]
Copy(page, flags_) == [op |-> "copy", page |-> page, flags |-> flags_]
ZeroFrom(from_, to) == [op |-> "zero", from |-> from_, to |-> to]

Doing(op) == work # <<>> /\ Head(work).op = op

(* The tables above a page, which map_page allocates from the frame        *)
(* allocator when they are missing.                                        *)
EntryOf(item) == p4_index(IF item.op = "huge" THEN item.page * HUGE ELSE item.page)
HasTable(item) == EntryOf(item) \in DOMAIN tables

(* The result of FrameAllocator::allocate_frame, for a page table or for   *)
(* the page itself; None is an error.                                      *)
TakeFrame(r) ==
    /\ memory_map' = IF r.outcome = "ok" THEN r.map ELSE memory_map
    /\ pc' = IF r.outcome = "ok" THEN pc ELSE "panic"

new_table ==
    /\ Doing("map") \/ Doing("huge")
    /\ ~ HasTable(Head(work))
    /\ \E r \in {allocate_frame(memory_map, "PageTable")} :
          /\ TakeFrame(r)
          /\ tables' = IF r.outcome = "ok"
                       THEN (EntryOf(Head(work)) :> r.frame) @@ tables ELSE tables
    /\ UNCHANGED <<memory, mapped, flags, window, work>>

new_frame ==
    /\ Doing("new")
    /\ \E r \in {allocate_frame(memory_map, Head(work).type)} :
          /\ TakeFrame(r)
          /\ work' = IF r.outcome = "ok"
                     THEN <<MapTo(Head(work).page, r.frame, Head(work).flags)>> \o Tail(work)
                     ELSE work
    /\ UNCHANGED <<memory, mapped, flags, window, tables>>

(* map_page once the tables exist; a page that is mapped is an error. *)
map_page ==
    /\ Doing("map")
    /\ HasTable(Head(work))
    /\ LET item == Head(work)
       IN  IF item.page \in DOMAIN mapped \/ item.page \div HUGE \in DOMAIN window
           THEN pc' = "mapping_error" /\ UNCHANGED <<mapped, flags, work>>
           ELSE /\ mapped' = (item.page :> item.frame) @@ mapped
                /\ flags' = (item.page :> item.flags) @@ flags
                /\ work' = Tail(work)
                /\ pc' = pc
    /\ UNCHANGED <<memory_map, memory, window, tables>>

map_huge_page ==
    /\ Doing("huge")
    /\ HasTable(Head(work))
    /\ LET item == Head(work)
       IN  IF \/ item.page \in DOMAIN window
              \/ \E page \in DOMAIN mapped : page \div HUGE = item.page
           THEN pc' = "mapping_error" /\ UNCHANGED <<window, work>>
           ELSE /\ window' = (item.page :> item.frame) @@ window
                /\ work' = Tail(work)
                /\ pc' = pc
    /\ UNCHANGED <<memory_map, memory, mapped, flags, tables>>

(* The frame at TempPage becomes a copy of the page, and the page is       *)
(* unmapped and mapped to it.                                              *)
copy_last_page ==
    /\ Doing("copy")
    /\ LET last_page == Head(work).page
           copy == mapped[TempPage]
       IN  /\ memory' = [a \in Addresses |->
                             IF PageOf(a) = copy
                             THEN memory[mapped[last_page] * PAGE_SIZE + (a % PAGE_SIZE)]
                             ELSE memory[a]]
           /\ mapped' = [page \in DOMAIN mapped \ {last_page} |-> mapped[page]]
           /\ flags' = [page \in DOMAIN flags \ {last_page} |-> flags[page]]
           /\ work' = <<MapTo(last_page, copy, Head(work).flags)>> \o Tail(work)
    /\ UNCHANGED <<pc, memory_map, window, tables>>

Physical(addr) == mapped[PageOf(addr)] * PAGE_SIZE + (addr % PAGE_SIZE)

zero_nothing ==
    /\ Doing("zero")
    /\ work' = Tail(work)
    /\ UNCHANGED <<pc, memory_map, memory, mapped, flags, window, tables>>
zero_bytes ==
    /\ Doing("zero")
    /\ LET zeroed == {Physical(addr) : addr \in Head(work).from .. Head(work).to - 1}
       IN  memory' = [a \in Addresses |-> IF a \in zeroed THEN Zero ELSE memory[a]]
    /\ work' = Tail(work)
    /\ UNCHANGED <<pc, memory_map, mapped, flags, window, tables>>

PageTableWork ==
    /\ pc \in {"map_kernel", "map_physical", "handoff"}
    /\ \/ new_table
       \/ new_frame
       \/ map_page
       \/ map_huge_page
       \/ copy_last_page
       \/ zero_bytes
    /\ UNCHANGED <<inputs, todo, max_phys_addr, cr, level4, recursive, boot_info_page, offset,
                   segment, boot_info, next>>

(* map_segment of a Load segment.  The frames of the file become its first *)
(* pages.  If more memory follows, a page shared with it is copied through *)
(* TempPage, which stays mapped; then come the pages up to and including   *)
(* the one of the end address.                                             *)
PageFlags_inverted(seg) ==
    (IF "x" \in seg.flags THEN {NX} ELSE {}) \cup (IF "w" \in seg.flags THEN {W} ELSE {})
PageFlags(seg) ==
    (IF "x" \in seg.flags THEN {} ELSE {NX}) \cup (IF "w" \in seg.flags THEN {W} ELSE {})

ForEach(first, last, Item(_)) == [i \in 1 .. last - first + 1 |-> Item(first + i - 1)]

LoadWork(seg) ==
    LET phys_start_addr == KernelTarget + seg.offset
        start_frame == PageOf(phys_start_addr)
        end_frame == PageOf(phys_start_addr + seg.file_size - 1)
        zero_start == seg.virtual_addr + seg.file_size
        zero_end == seg.virtual_addr + seg.mem_size
        fl == PageFlags(seg)
        file == ForEach(start_frame, end_frame, LAMBDA frame :
                    MapTo(PageOf(seg.virtual_addr) + (frame - start_frame), frame, fl))
        shared == IF zero_start % PAGE_SIZE = 0 THEN <<>>
                  ELSE <<MapNew(TempPage, "Kernel", fl), Copy(PageOf(zero_start - 1), fl)>>
        behind == ForEach(PageOf(AlignUp(zero_start)), PageOf(zero_end),
                          LAMBDA page : MapNew(page, "Kernel", fl))
    IN  IF seg.mem_size <= seg.file_size THEN file
        ELSE file \o shared \o behind \o <<ZeroFrom(zero_start, zero_end)>>

-----------------------------------------------------------------------------
(* bootloader_main. *)

(* What its steps between the loops leave alone. *)
Unchanged == UNCHANGED <<inputs, max_phys_addr, memory, next>>

(* Taken from the map as create_from made it. *)
last_start(map) == Max({r.start : r \in map}) * PAGE_SIZE
last_end(map) == Max({r.end : r \in map}) * PAGE_SIZE

read_memory_map ==
    /\ stage = "stage_4"
    /\ create_from
    /\ max_phys_addr' = IF pc' = "mark" THEN last_end(Regions') ELSE 0
    /\ UNCHANGED <<stageVars, elf, config, cr, level4, recursive, boot_info_page, tables, flags,
                   offset, segment, work, boot_info, next>>

(* The file's headers are read, the no-execute bit is enabled, and the     *)
(* level-4 table becomes reachable through an entry of its own.            *)
recursive_entry ==
    /\ pc = "mark" /\ recursive = None
    /\ LET free == get_free_entries(UsedLevel4Entries_new, 1)
       IN  IF free = {} \/ Len(elf) > MAX_SEGMENTS
           THEN pc' = "panic" /\ UNCHANGED <<cr, level4, recursive, tables>>
           ELSE \E entry \in free :
                   /\ cr' = cr \cup {"NXE"}
                   /\ level4' = UsedLevel4Entries_new \cup {entry}
                   /\ recursive' = entry
                   /\ tables' = (entry :> PageOf(PageTableStart)) @@ tables
                   /\ pc' = pc
    /\ UNCHANGED <<memory_map, todo, boot_info_page, mapped, flags, window, offset, segment,
                   work, boot_info>>
    /\ Unchanged

mark_regions ==
    /\ recursive # None
    /\ mark_used
    /\ UNCHANGED <<stageVars, bootVars>>

(* The 2 MiB pages of the file, each of which must be mapped. *)
FileHugePages == HugePageOf(KernelTarget) .. HugePageOf(KernelTarget + image.size - 1)

unmap_elf ==
    /\ pc = "allocate"
    /\ window' = [page \in DOMAIN window \ FileHugePages |-> window[page]]
    /\ pc' = IF FileHugePages \subseteq DOMAIN window THEN "boot_info" ELSE "dealloc_error"
    /\ UNCHANGED <<memory_map, todo, cr, level4, recursive, boot_info_page, tables, mapped, flags,
                   offset, segment, work, boot_info>>
    /\ Unchanged

map_boot_info ==
    /\ pc = "boot_info"
    /\ LET places == unwrap_or_free(config.boot_info_address, 1)
       IN  IF places = {}
           THEN pc' = "panic" /\ UNCHANGED <<level4, boot_info_page, work>>
           ELSE \E place \in places :
                   /\ level4' = level4 \cup place.entries
                   /\ boot_info_page' = PageOf(place.addr)
                   /\ work' = <<MapNew(PageOf(place.addr), "BootInfo", {W})>>
                   /\ pc' = "map_kernel"
    /\ UNCHANGED <<memory_map, todo, cr, recursive, tables, mapped, flags, window, offset,
                   segment, boot_info>>
    /\ Unchanged

(* map_kernel: the loop over the program headers.  A second thread-local   *)
(* template is an error, other types are skipped.                          *)
TlsHeaders(n) == {i \in 1 .. n : elf[i].type = "Tls"}

map_segment ==
    /\ pc = "map_kernel" /\ work = <<>>
    /\ segment < Len(elf)
    /\ LET seg == elf[segment + 1]
       IN  /\ work' = IF seg.type = "Load" THEN LoadWork(seg) ELSE <<>>
           /\ pc' = IF seg.type = "Tls" /\ TlsHeaders(segment) # {} THEN "panic" ELSE pc
    /\ segment' = segment + 1
    /\ UNCHANGED <<memory_map, todo, cr, level4, recursive, boot_info_page, tables, mapped,
                   flags, window, offset, boot_info>>
    /\ Unchanged

(* The stack, above a page left out as a guard page. *)
kernel_stack_address ==
    IF config.kernel_stack_address # None THEN PageOf(config.kernel_stack_address)
    ELSE boot_info_page + 1

stack_start_no_guard == kernel_stack_address
stack_start == kernel_stack_address + 1

map_stack ==
    /\ pc = "map_kernel" /\ work = <<>>
    /\ segment = Len(elf)
    /\ work' = ForEach(stack_start, stack_start + KERNEL_STACK_SIZE - 1,
                       LAMBDA page : MapNew(page, "KernelStack", {W}))
    /\ pc' = "map_physical"
    /\ UNCHANGED <<memory_map, todo, cr, level4, recursive, boot_info_page, tables, mapped,
                   flags, window, offset, segment, boot_info>>
    /\ Unchanged

(* The map of physical memory, with 2 MiB pages, up to and including the   *)
(* one of the end address: for each frame, the page in which the sum of    *)
(* its address and the offset lies.                                        *)
map_physical_memory ==
    /\ pc = "map_physical" /\ work = <<>>
    /\ LET entries == (max_phys_addr + LEVEL_4_SIZE - 1) \div LEVEL_4_SIZE
           places == unwrap_or_free(config.physical_memory_offset, entries)
       IN  IF places = {}
           THEN pc' = "panic" /\ UNCHANGED <<level4, offset, work>>
           ELSE \E place \in places :
                   /\ level4' = level4 \cup place.entries
                   /\ offset' = place.addr
                   /\ work' = ForEach(0, HugePageOf(max_phys_addr), LAMBDA frame :
                                  MapHuge(HugePageOf(place.addr + frame * HugeSize), frame))
                   /\ pc' = "handoff"
    /\ UNCHANGED <<memory_map, todo, cr, recursive, boot_info_page, tables, mapped, flags,
                   window, segment, boot_info>>
    /\ Unchanged

(* BootInfo::new, and what tls_template gives the kernel of it. *)
BootInfo_new(map, tls_template_, physical_memory_offset) ==
    [memory_map |-> map, tls_template |-> tls_template_,
     physical_memory_offset |-> physical_memory_offset]

tls_segment ==
    IF TlsHeaders(Len(elf)) = {} THEN NoTls
    ELSE LET h == elf[Min(TlsHeaders(Len(elf)))]
         IN  [start_addr |-> h.virtual_addr, file_size |-> h.file_size, mem_size |-> h.mem_size]

tls_template == IF boot_info.tls_template.mem_size > 0 THEN {boot_info.tls_template} ELSE {}

(* The sorted memory map is handed over in the boot info, the recursive    *)
(* entry removed, write protection enabled and the kernel entered.         *)
context_switch ==
    /\ pc = "handoff" /\ work = <<>>
    /\ memory_map' = sort(memory_map)
    /\ boot_info' = BootInfo_new(memory_map', tls_segment, offset)
    /\ cr' = cr \cup {"WP"}
    /\ tables' = [entry \in DOMAIN tables \ {recursive} |-> tables[entry]]
    /\ pc' = "kernel"
    /\ UNCHANGED <<todo, level4, recursive, boot_info_page, mapped, flags, window,
                   offset, segment, work>>
    /\ Unchanged

-----------------------------------------------------------------------------
(* The kernel. *)

(* The kernel reaches the page tables by adding the offset to their        *)
(* addresses.                                                              *)
Shows(page, frame) ==
    /\ page \div HUGE \in DOMAIN window
    /\ window[page \div HUGE] * HUGE + (page % HUGE) = frame

TablesShown == \A e \in DOMAIN tables : Shows(PageOf(offset) + tables[e], tables[e])

HeapPage(page) == [op |-> "heap", page |-> page]

(* kernel_main refuses an offset of 0.  Where the offset does not lead to  *)
(* the tables, init_heap would take other bytes for them: the model ends.  *)
kernel_main ==
    /\ pc = "kernel"
    /\ pc' = IF boot_info.physical_memory_offset = 0 THEN "panic"
             ELSE IF TablesShown THEN "heap" ELSE "astray"
    /\ work' = ForEach(HeapStart, HeapStart + HeapPages - 1, LAMBDA page : HeapPage(page))
    /\ UNCHANGED <<inputs, memory_map, todo, memory, mapped, window, max_phys_addr, cr, level4,
                   recursive, boot_info_page, tables, flags, offset, segment, boot_info, next>>

(* BootInfoFrameAllocator: the frames of the usable regions in order, of   *)
(* which allocate_frame returns the one after those it returned before.    *)
FramesOf(map) ==
    FoldLeft(LAMBDA acc, r : acc \o [i \in 1 .. r.end - r.start |-> r.start + i - 1], <<>>, map)

all_frames == FramesOf(boot_info.memory_map)
usable_frames == FramesOf(SelectSeq(boot_info.memory_map, LAMBDA r : r.type = "Usable"))

nth(n) == IF n + 1 \in DOMAIN usable_frames THEN usable_frames[n + 1] ELSE NoFrame

(* One round of init_heap's loop: a frame for the page, and one for the    *)
(* page table if the entry has none.                                       *)
init_heap ==
    /\ pc = "heap"
    /\ LET heap_page == Head(work).page
           entry == p4_index(heap_page)
           frame == nth(next)
           no_table == entry \notin DOMAIN tables
           failed == \/ frame = NoFrame
                     \/ heap_page \in DOMAIN mapped
                     \/ heap_page \div HUGE \in DOMAIN window
                     \/ no_table /\ nth(next + 1) = NoFrame
       IN  /\ next' = next + (IF frame # NoFrame /\ no_table THEN 2 ELSE 1)
           /\ mapped' = IF failed THEN mapped ELSE (heap_page :> frame) @@ mapped
           /\ flags' = IF failed THEN flags ELSE (heap_page :> {W}) @@ flags
           /\ tables' = IF no_table /\ ~ failed
                        THEN (entry :> nth(next + 1)) @@ tables ELSE tables
           /\ work' = Tail(work)
           /\ pc' = IF failed THEN "panic" ELSE IF work' = <<>> THEN "running" ELSE "heap"
    /\ UNCHANGED <<inputs, memory_map, todo, max_phys_addr, cr, level4, recursive,
                   boot_info_page, window, offset, memory, segment, boot_info>>

BootStopped == stage = "spin" \/ pc \in {"no_map", "panic", "mapping_error", "dealloc_error",
                                       "astray", "running"}

boot_halted == BootStopped /\ UNCHANGED allVars

BootNext ==
    \/ stages
    \/ detect_memory
    \/ read_memory_map
    \/ recursive_entry
    \/ mark_regions
    \/ unmap_elf
    \/ map_boot_info
    \/ PageTableWork
    \/ map_segment
    \/ map_stack
    \/ map_physical_memory
    \/ context_switch
    \/ kernel_main
    \/ init_heap
    \/ boot_halted

BootSpec == BootInit /\ [][BootNext]_allVars /\ WF_allVars(BootNext)

-----------------------------------------------------------------------------
InKernel == pc \in {"kernel", "heap", "running"}

FileFrames == Frames(RegionOf("Kernel"))

TableFrames == {tables[e] : e \in DOMAIN tables}

Loads == {elf[i] : i \in {i \in DOMAIN elf : elf[i].type = "Load"}}

PagesOf(seg) == PageOf(seg.virtual_addr) .. PageOf(seg.virtual_addr + seg.mem_size - 1)

(* Two pages share a frame only where the bootloader means it: frames of   *)
(* the kernel's file that two segments lie in, and the copied page that    *)
(* stays mapped at TempPage.  No page shows a page table allocated for     *)
(* another, or the heap a frame the bootloader gave to stack, .bss or boot *)
(* info: the two allocators, and both ways the bootloader's moves borders, *)
(* never give out a frame twice.                                           *)
FramesNotShared ==
    /\ \A p, q \in DOMAIN mapped :
          p # q /\ mapped[p] = mapped[q] =>
              mapped[p] \in FileFrames \/ TempPage \in {p, q}
    /\ \A e \in DOMAIN tables \ {0, recursive} :
          /\ \A page \in DOMAIN mapped : mapped[page] # tables[e]
          /\ \A d \in DOMAIN tables : tables[d] = tables[e] => d = e

(* "All frames marked as USABLE must be truly unused", the condition under *)
(* which BootInfoFrameAllocator::init may be called: at the handoff none   *)
(* of them is mapped or a page table, and neither they nor the frames in   *)
(* use since stage 4 hold memory the firmware reserved.                    *)
UsableTrulyUnused ==
    pc = "kernel" =>
        LET early == map_p1_table \cup vga_map_frame_buffer
            given == TableFrames \cup FileFrames
                        \cup {mapped[page] : page \in DOMAIN mapped \ early}
        IN  /\ OwnedBy("Usable") \cap (given \cup map_p1_table) = {}
            /\ (OwnedBy("Usable") \cup given) \cap ReservedFrames = {}

(* The kernel finds its image as the program headers describe it: each     *)
(* byte of a segment that comes from the file is the file's, although      *)
(* segments share frames, and each byte after those is zero, although the  *)
(* frames allocated for them hold stale bytes.                             *)
ImageLoaded ==
    InKernel =>
        /\ \A seg \in Loads : \A k \in 0 .. seg.mem_size - 1 :
              LET addr == seg.virtual_addr + k
              IN  /\ PageOf(addr) \in DOMAIN mapped
                  /\ memory[Physical(addr)] =
                        IF k < seg.file_size THEN Disk(KernelOnDisk + seg.offset + k)
                        ELSE Zero
        /\ \A t \in tls_template : \A k \in 0 .. t.file_size - 1 :
              \E i \in TlsHeaders(Len(elf)) :
                  memory[Physical(t.start_addr + k)] = Disk(KernelOnDisk + elf[i].offset + k)

(* A stack overflow reaches an unmapped page: the one below the stack is   *)
(* neither mapped nor inside the map of physical memory, wherever that is, *)
(* nor part of the heap, unless the manifest itself says where stack or    *)
(* boot info go: such an address is not reserved, and what lies there      *)
(* already, or is put there later, may take the guard page.                *)
GuardPageUnmapped ==
    InKernel =>
        LET guard == kernel_stack_address
            searched == config.kernel_stack_address = None /\ config.boot_info_address = None
        IN  /\ guard + 1 .. guard + KERNEL_STACK_SIZE \subseteq DOMAIN mapped
            /\ searched => /\ guard \notin DOMAIN mapped
                           /\ guard \div HUGE \notin DOMAIN window

MemoryShown ==
    /\ offset # 0
    /\ \A f \in UNION {Frames(r) : r \in Regions} : Shows(PageOf(offset) + f, f)

(* "Physical addresses can be converted to virtual addresses by adding     *)
(* this offset to them": for each physical address of the memory map the   *)
(* sum lies in a page that shows it, and the offset is not the one         *)
(* kernel_main refuses.                                                    *)
PhysicalMemoryMapped == InKernel => MemoryShown

(* The same for an offset the bootloader searches, and for one of the      *)
(* manifest that lies on a 2 MiB boundary; a configured offset may lie on  *)
(* or next to anything, and boot then stops instead of mapping over it.    *)
AlignedOffsetMapped ==
    config.physical_memory_offset = None \/ config.physical_memory_offset % HugeSize = 0
        => PhysicalMemoryMapped

(* Boot comes to an end: the kernel has its heap, or the boot stopped with *)
(* a message.                                                              *)
BootEnds == <>BootStopped

(* The first page tables show what the boot still uses, where it uses it:  *)
(* the page tables, the bootloader and the text buffer for good, also when *)
(* the kernel runs or a panic prints, and the kernel's file until its      *)
(* frames get their final pages.  Then each 2 MiB page of the file is gone *)
(* ("dealloc error" is never reached) although stage 3 and bootloader_main *)
(* count them differently, so that the kernel may be linked over it.       *)
EarlyMap ==
    stage = "stage_4" =>
        /\ \A a \in PageTableStart .. BootloaderEnd - 1 \cup VgaStart .. VgaEnd - 1 :
              PageOf(a) \in DOMAIN mapped /\ mapped[PageOf(a)] = PageOf(a)
        /\ pc \in {"create_from", "mark", "allocate"} =>
              \A a \in KernelTarget .. KernelTarget + image.size - 1 :
                  HugePageOf(a) \in DOMAIN window /\ window[HugePageOf(a)] = HugePageOf(a)
        /\ pc # "dealloc_error"
        /\ pc \in {"map_kernel", "map_physical"} => window = <<>>

(* "By forcing ALIGN(4096) between sections, we ensure every section       *)
(* starts on a fresh page": a kernel linked by the linker script, whatever *)
(* the sizes of its sections, never asks for a page twice, although the    *)
(* page after .bss is mapped too, and although it may reach into the       *)
(* addresses its file was loaded to.                                       *)
LinkedKernelMaps ==
    pc = "mapping_error" /\ config = DefaultConfig => elf \notin LinkedElfs

(* Protection is as the program headers say when the kernel starts, and    *)
(* write protection, off until then, lets the bootloader clear the .bss of *)
(* any segment; no-execute flags are only used once they are enabled.      *)
ProtectionAsLinked ==
    /\ \A page \in DOMAIN flags : NX \in flags[page] => "NXE" \in cr
    /\ pc \in {"map_kernel", "map_physical", "handoff"} => "WP" \notin cr
    /\ InKernel =>
          /\ "WP" \in cr
          /\ \A seg \in Loads : \A page \in PagesOf(seg) :
                /\ NX \in flags[page] <=> "x" \notin seg.flags
                /\ W \in flags[page] <=> "w" \in seg.flags
=============================================================================
