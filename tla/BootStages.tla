----------------------------- MODULE BootStages -----------------------------
(***************************************************************************)
(* From the boot sector to long mode: stage_1.s, stage_2.s and stage_3.s   *)
(* of src/bootloader/src, at the addresses of src/bootloader/linker.ld.    *)
(* Stage 1 reads the rest of the bootloader, stage 2 the kernel's file     *)
(* block by block through a buffer, and stage 3 builds the first page      *)
(* tables.                                                                 *)
(*                                                                         *)
(* The boot disk holds the boot sector, the rest of the bootloader and the *)
(* kernel's file, in that order.  A byte of memory is Disk(k), the k-th    *)
(* byte of the disk, Zero, or Stale.  The A20 gate and the switches to     *)
(* unreal and protected mode are taken to work.                            *)
(***************************************************************************)
EXTENDS Paging

CONSTANTS
    BLOCK,                         \* bytes per disk block, 512 in the code
    PARAGRAPH,                     \* bytes per unit of a segment, 16
    WORD,                          \* 2^16: dap_buffer_addr has 16 bits
    HUGE,                          \* frames in a 2 MiB page, 512
    KernelBuffer,                  \* _kernel_buffer, 0x500
    PageTableStart, PageTableEnd,  \* __page_table_start, __page_table_end
    BootloaderStart,               \* __bootloader_start
    BootSector,                    \* _start, 0x7c00
    VgaStart, VgaEnd,              \* 0xa0000 and 0xc0000
    KernelTarget,                  \* 0x400000
    MemoryEnd,                     \* bytes of physical memory
    Images                         \* boot images: blocks of the rest, kernel size

ASSUME LayoutAssumption ==
    /\ BLOCK \in Nat \ {0} /\ PARAGRAPH \in Nat \ {0} /\ WORD \in Nat
    /\ {KernelBuffer, PageTableStart, PageTableEnd, BootSector, KernelTarget, MemoryEnd}
          \subseteq Nat
    /\ PARAGRAPH <= WORD /\ KernelBuffer < WORD
    /\ (BootSector + BLOCK) \div PARAGRAPH < WORD
    /\ KernelBuffer + BLOCK <= BootSector /\ PageTableEnd <= BootSector
ASSUME ImagesAssumption ==
    \A img \in Images :
        /\ img.rest \in Nat /\ img.size \in Nat \ {0}
        /\ BootSector + (1 + img.rest) * BLOCK <= KernelTarget
        /\ KernelTarget + img.size + BLOCK <= MemoryEnd

VARIABLES
    stage,     \* where the boot is; "spin" is the loop after an error
    image,     \* the boot image
    dap,       \* disk address packet
    ecx,       \* stage 2: blocks still to load
    edi,       \* stage 2: where the next one goes
    memory,    \* address -> byte
    mapped,    \* page -> frame, 4 KiB pages
    window     \* 2 MiB page -> 2 MiB frame

stageVars == <<stage, image, dap, ecx, edi, memory, mapped, window>>

HugeSize == HUGE * PAGE_SIZE
HugePageOf(addr) == addr \div HugeSize

Disk(k) == <<"disk", k>>
Zero == <<"zero", 0>>
Stale == <<"stale", 0>>

Addresses == 0 .. MemoryEnd - 1

(* linker.ld: the bootloader is linked to run where it is loaded; the      *)
(* kernel's file follows it on the disk.                                   *)
RestStart == BootSector + BLOCK
RestEnd == RestStart + image.rest * BLOCK
BootloaderEnd == RestEnd
KernelLinked == RestEnd
OnDisk(addr) == addr - BootSector

(* The firmware has loaded the boot sector. *)
StagesInit ==
    /\ stage = "stage_1"
    /\ image \in Images
    /\ dap = [blocks |-> 0, addr |-> 0, seg |-> 0, lba |-> 0]
    /\ ecx = 0
    /\ edi = 0
    /\ memory = [a \in Addresses |->
                    IF OnDisk(a) \in 0 .. BLOCK - 1 THEN Disk(OnDisk(a)) ELSE Stale]
    /\ mapped = <<>>
    /\ window = <<>>

(* An error message, and a loop. *)
Fail ==
    /\ stage' = "spin"
    /\ UNCHANGED <<image, dap, ecx, edi, memory, mapped, window>>

(* INT 0x13, AH = 0x42: the blocks the packet asks for, at seg:addr.       *)
Buffer(packet) == packet.seg * PARAGRAPH + packet.addr

Read(packet) ==
    [a \in Addresses |->
        LET k == a - Buffer(packet)
        IN  IF k \in 0 .. packet.blocks * BLOCK - 1
            THEN Disk(packet.lba * BLOCK + k) ELSE memory[a]]

-----------------------------------------------------------------------------
(* stage_1. *)

no_int13h_extensions == stage = "stage_1" /\ Fail

rest_of_bootloader_load_failed == stage = "stage_1" /\ Fail

RestPacket ==
    LET seg == RestStart \div PARAGRAPH
    IN  [blocks |-> (RestEnd - RestStart) \div BLOCK,
         addr   |-> (RestStart - seg * PARAGRAPH) % WORD,
         seg    |-> seg % WORD,
         lba    |-> OnDisk(RestStart) \div BLOCK]

(* The segment is reset before stage 2 uses the packet. *)
load_rest_of_bootloader_from_disk ==
    /\ stage = "stage_1"
    /\ memory' = Read(RestPacket)
    /\ dap' = [RestPacket EXCEPT !.seg = 0]
    /\ stage' = "stage_2"
    /\ UNCHANGED <<image, ecx, edi, mapped, window>>

-----------------------------------------------------------------------------
(* stage_2, up to create_memory_map. *)

BlockCount_rounds_down(size) == size \div BLOCK
BlockCount(size) == (size + BLOCK - 1) \div BLOCK

load_kernel_from_disk ==
    /\ stage = "stage_2"
    /\ dap' = [dap EXCEPT !.addr = KernelBuffer % WORD,
                          !.blocks = 1,
                          !.lba = OnDisk(KernelLinked) \div BLOCK]
    /\ edi' = KernelTarget
    /\ ecx' = BlockCount(image.size)
    /\ stage' = "load"
    /\ UNCHANGED <<image, memory, mapped, window>>

(* A block is read into the buffer and copied from there; the copy takes   *)
(* the address from the packet, without its segment.                       *)
load_jumps_to_start ==
    /\ stage = "load"
    /\ LET read == Read(dap)
       IN  memory' = [a \in Addresses |->
                         IF a - edi \in 0 .. BLOCK - 1 THEN read[dap.addr + (a - edi)]
                         ELSE read[a]]
    /\ edi' = edi + BLOCK
    /\ dap' = [dap EXCEPT !.lba = @ + 1]
    /\ ecx' = ecx - 1
    /\ stage' = IF ecx' = 0 THEN "loaded" ELSE "stage_2"
    /\ UNCHANGED <<image, mapped, window>>
load_next_kernel_block_from_disk ==
    /\ stage = "load"
    /\ LET read == Read(dap)
       IN  memory' = [a \in Addresses |->
                         IF a - edi \in 0 .. BLOCK - 1 THEN read[dap.addr + (a - edi)]
                         ELSE read[a]]
    /\ edi' = edi + BLOCK
    /\ dap' = [dap EXCEPT !.lba = @ + 1]
    /\ ecx' = ecx - 1
    /\ stage' = IF ecx' = 0 THEN "loaded" ELSE "load"
    /\ UNCHANGED <<image, mapped, window>>

kernel_load_failed == stage = "load" /\ Fail

-----------------------------------------------------------------------------
(* stage_3, entered from stage 2 when the memory map is made.  Each loop   *)
(* tests at its end, so that its first page is always mapped.              *)

no_cpuid_or_long_mode == stage = "loaded" /\ Fail

FromTo(first, end) == {first} \cup first .. end - 1

(* map_p2_table, map_p1_table and map_framebuffer. *)
map_p2_rounds_down == FromTo(HugePageOf(KernelTarget), HugePageOf(KernelTarget + image.size))
map_p2_table ==
    FromTo(HugePageOf(KernelTarget), HugePageOf(KernelTarget + image.size + HugeSize - 1))
map_p1_table ==
    FromTo(PageOf(PageTableStart), PageOf(BootloaderEnd + PAGE_SIZE - 1))
vga_map_frame_buffer == FromTo(PageOf(VgaStart), PageOf(VgaEnd))

set_up_page_tables ==
    /\ stage = "loaded"
    /\ memory' = [a \in Addresses |->
                     IF a \in PageTableStart .. PageTableEnd - 1 THEN Zero ELSE memory[a]]
    /\ window' = [page \in map_p2_table |-> page]
    /\ mapped' = [page \in map_p1_table \cup vga_map_frame_buffer |-> page]
    /\ stage' = "stage_4"
    /\ UNCHANGED <<image, dap, ecx, edi>>

StagesNext ==
    \/ no_int13h_extensions
    \/ rest_of_bootloader_load_failed
    \/ load_rest_of_bootloader_from_disk
    \/ load_kernel_from_disk
    \/ load_next_kernel_block_from_disk
    \/ kernel_load_failed
    \/ no_cpuid_or_long_mode
    \/ set_up_page_tables

StagesSpec == StagesInit /\ [][StagesNext]_stageVars

-----------------------------------------------------------------------------
KernelOnDisk == (1 + image.rest) * BLOCK

(* Everything the boot goes on to run or read is in memory as it is on the *)
(* disk: the bootloader once stage 2 runs, and all of the kernel's file at *)
(* KernelTarget once the loop ends, whatever part of the last block it     *)
(* fills.  Neither the buffer, nor a block copied past the end of the      *)
(* file, nor the zeroed page tables overwrite any of it.                   *)
FilesLoaded ==
    /\ stage \notin {"stage_1", "spin"} =>
          \A k \in 0 .. KernelOnDisk - 1 : memory[BootSector + k] = Disk(k)
    /\ stage \in {"loaded", "stage_4"} =>
          \A k \in 0 .. image.size - 1 :
              memory[KernelTarget + k] = Disk(KernelOnDisk + k)
=============================================================================
