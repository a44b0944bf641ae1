-------------------------- MODULE BootStagesProofs ---------------------------
(***************************************************************************)
(* The loading of the bootloader and of the kernel's file in BootStages,   *)
(* for every size of both, of a disk block and of a segment, and every     *)
(* layout in which the buffer and the page tables lie below the boot       *)
(* sector and the bootloader below the kernel.                             *)
(*                                                                         *)
(* SInv says how far the loop of stage 2 has come: its three counters, the *)
(* block of the disk, the target and the blocks left, move together.       *)
(***************************************************************************)
EXTENDS BootStages, TLAPS

(* A product with one factor more or less. *)
LEMMA Times ==
    ASSUME NEW n \in Int, NEW b \in Int
    PROVE  /\ n * b \in Int
           /\ (n + 1) * b = n * b + b
           /\ (1 + n) * b = b + n * b
           /\ (n - 1) * b = n * b - b
  OBVIOUS

(* A product of at least one block, and of none. *)
LEMMA Positive ==
    ASSUME NEW n \in Nat, NEW b \in Nat \ {0}
    PROVE  n * b \in Nat /\ (n > 0 => n * b >= b) /\ (n = 0 => n * b = 0)
<1>1. n * b \in Nat
  OBVIOUS
<1>2. CASE n = 0
  BY <1>1, <1>2
<1>3. CASE n > 0
  <2>1. n - 1 \in Nat
    BY <1>3
  <2>2. (n - 1) * b \in Nat
    BY <2>1
  <2>3. (n - 1) * b = n * b - b
    BY Times
  <2> QED
    BY <1>1, <1>3, <2>2, <2>3
<1> QED
  BY <1>2, <1>3

(* Division undoes a product. *)
LEMMA Blocks == ASSUME NEW n \in Nat, NEW b \in Nat \ {0} PROVE (n * b) \div b = n
  OBVIOUS

(* Division, with what is left. *)
LEMMA Quotient ==
    ASSUME NEW a \in Nat, NEW b \in Nat \ {0}
    PROVE  a \div b \in Nat /\ (a \div b) * b <= a /\ a < (a \div b) * b + b
  OBVIOUS

(* The blocks of a file hold all of it, and less than a block more. *)
LEMMA BlockCountIs ==
    ASSUME NEW size \in Nat \ {0}
    PROVE  /\ BlockCount(size) \in Nat \ {0}
           /\ BlockCount(size) * BLOCK >= size
           /\ BlockCount(size) * BLOCK < size + BLOCK
<1>1. BLOCK \in Nat \ {0}
  BY LayoutAssumption
<1> DEFINE a == size + BLOCK - 1
           n == a \div BLOCK
<1>2. a \in Nat
  BY <1>1
<1>3. n \in Nat /\ n * BLOCK <= a /\ a < n * BLOCK + BLOCK
  BY <1>1, <1>2, Quotient
<1>4. n * BLOCK \in Int
  BY <1>1, <1>3, Times
<1>5. n # 0
  <2>1. n * BLOCK > 0
    BY <1>1, <1>3, <1>4
  <2> HIDE DEF n
  <2> QED
    BY <1>1, <1>3, <2>1, Positive
<1> QED
  BY <1>1, <1>3, <1>4, <1>5 DEF BlockCount

-----------------------------------------------------------------------------

Copied(end) == \A k \in 0 .. end - 1 : memory[BootSector + k] = Disk(k)

(* So much of the kernel's file is at its place. *)
InPlace(end) == \A k \in 0 .. end - 1 : memory[KernelTarget + k] = Disk(KernelOnDisk + k)

Packets == [blocks : Int, addr : Int, seg : Int, lba : Int]

Counters ==
    /\ dap.addr = KernelBuffer /\ dap.blocks = 1
    /\ ecx \in Nat \ {0} /\ edi \in Nat /\ edi >= KernelTarget
    /\ dap.lba * BLOCK = KernelOnDisk + (edi - KernelTarget)
    /\ edi + ecx * BLOCK = KernelTarget + BlockCount(image.size) * BLOCK

LoadInv == Counters /\ InPlace(edi - KernelTarget)

SInv ==
    /\ image \in Images
    /\ stage \in {"stage_1", "spin", "stage_2", "load", "loaded", "stage_4"}
    /\ dap \in Packets
    /\ stage = "stage_1" => Copied(BLOCK)
    /\ stage \notin {"stage_1", "spin"} => Copied(KernelOnDisk)
    /\ stage \in {"stage_2", "load"} => dap.seg = 0
    /\ stage = "load" => LoadInv
    /\ stage \in {"loaded", "stage_4"} => InPlace(image.size)

(* What is known of a boot image. *)
LEMMA ImageIs ==
    ASSUME image \in Images
    PROVE  /\ image.rest \in Nat /\ image.size \in Nat \ {0}
           /\ image.rest * BLOCK \in Nat
           /\ KernelOnDisk = BLOCK + image.rest * BLOCK /\ KernelOnDisk \in Nat
           /\ BootSector + KernelOnDisk <= KernelTarget
           /\ KernelTarget + image.size + BLOCK <= MemoryEnd
<1>1. image.rest \in Nat /\ image.size \in Nat \ {0} /\ BLOCK \in Nat \ {0}
  BY ImagesAssumption, LayoutAssumption
<1>2. image.rest * BLOCK \in Nat
  BY <1>1, Positive
<1>3. KernelOnDisk = BLOCK + image.rest * BLOCK
  BY <1>1, Times DEF KernelOnDisk
<1> QED
  BY <1>1, <1>2, <1>3, ImagesAssumption DEF KernelOnDisk

(* The firmware has loaded the first block. *)
LEMMA InitSInv == StagesInit => SInv
<1> SUFFICES ASSUME StagesInit PROVE SInv
  OBVIOUS
<1>1. image \in Images /\ stage = "stage_1" /\ dap \in Packets
  BY DEF StagesInit, Packets
<1>2. Copied(BLOCK)
  <2> SUFFICES ASSUME NEW k \in 0 .. BLOCK - 1 PROVE memory[BootSector + k] = Disk(k)
    BY DEF Copied
  <2>1. /\ BLOCK \in Nat /\ BootSector \in Nat /\ KernelTarget \in Nat /\ MemoryEnd \in Nat
    BY LayoutAssumption
  <2>2. BootSector + k \in Addresses
    BY <1>1, <2>1, ImageIs DEF Addresses
  <2>3. OnDisk(BootSector + k) = k
    BY <2>1 DEF OnDisk
  <2> QED
    BY <2>2, <2>3 DEF StagesInit
<1> QED
  BY <1>1, <1>2 DEF SInv
-----------------------------------------------------------------------------
(* Stage 1. *)

(* The packet asks for the blocks after the first, at the address they     *)
(* are linked for: the segment and the address in it fit in 16 bits.       *)
LEMMA RestPacketIs ==
    ASSUME image \in Images
    PROVE  /\ RestPacket \in Packets
           /\ Buffer(RestPacket) = BootSector + BLOCK
           /\ RestPacket.blocks = image.rest
           /\ RestPacket.lba = 1
<1> DEFINE seg == RestStart \div PARAGRAPH
<1>1. /\ BLOCK \in Nat \ {0} /\ PARAGRAPH \in Nat \ {0} /\ WORD \in Nat /\ BootSector \in Nat
      /\ RestStart = BootSector + BLOCK /\ RestStart \in Nat
      /\ PARAGRAPH <= WORD /\ seg < WORD
  BY LayoutAssumption DEF RestStart
<1>2. seg \in Nat /\ seg * PARAGRAPH <= RestStart /\ RestStart < seg * PARAGRAPH + PARAGRAPH
  BY <1>1, Quotient
<1>3. seg * PARAGRAPH \in Int
  BY <1>1, <1>2, Times
<1>4. (RestStart - seg * PARAGRAPH) % WORD = RestStart - seg * PARAGRAPH
  <2>1. RestStart - seg * PARAGRAPH \in 0 .. WORD - 1
    BY <1>1, <1>2, <1>3
  <2> QED
    BY <1>1, <2>1
<1>5. seg % WORD = seg
  BY <1>1, <1>2
<1>6. (RestEnd - RestStart) \div BLOCK = image.rest
  <2>1. image.rest \in Nat /\ image.rest * BLOCK \in Nat
    BY ImageIs
  <2>2. RestStart \in Nat
    BY <1>1
  <2>3. RestEnd - RestStart = image.rest * BLOCK
    BY <2>1, <2>2 DEF RestEnd
  <2> QED
    BY <1>1, <2>1, <2>3, Blocks
<1>7. OnDisk(RestStart) \div BLOCK = 1
  <2>1. OnDisk(RestStart) = 1 * BLOCK
    BY <1>1 DEF OnDisk
  <2> QED
    BY <1>1, <2>1, Blocks
<1>8. /\ RestPacket.blocks = image.rest /\ RestPacket.lba = 1 /\ RestPacket.seg = seg
      /\ RestPacket.addr = RestStart - seg * PARAGRAPH
      /\ RestPacket = [blocks |-> image.rest, addr |-> RestStart - seg * PARAGRAPH,
                       seg |-> seg, lba |-> 1]
  BY <1>4, <1>5, <1>6, <1>7 DEF RestPacket
<1>9. image.rest \in Nat
  BY ImageIs
<1>10. RestPacket \in Packets
  BY <1>1, <1>2, <1>3, <1>8, <1>9 DEF Packets
<1> HIDE DEF seg
<1>11. Buffer(RestPacket) = seg * PARAGRAPH + (RestStart - seg * PARAGRAPH)
  BY <1>8 DEF Buffer
<1> QED
  BY <1>1, <1>3, <1>8, <1>10, <1>11

(* The rest of the bootloader follows the boot sector in memory as on the  *)
(* disk.                                                                   *)
LEMMA LoadRest == ASSUME SInv, load_rest_of_bootloader_from_disk PROVE SInv'
<1>1. /\ stage = "stage_1" /\ stage' = "stage_2" /\ image' = image /\ image \in Images
      /\ memory' = Read(RestPacket) /\ dap' = [RestPacket EXCEPT !.seg = 0]
      /\ Copied(BLOCK)
  BY DEF load_rest_of_bootloader_from_disk, SInv
<1>2. dap' \in Packets /\ dap'.seg = 0
  BY <1>1, RestPacketIs DEF Packets
<1>3. Copied(KernelOnDisk)'
  <2> SUFFICES ASSUME NEW k \in 0 .. KernelOnDisk - 1
               PROVE  memory'[BootSector + k] = Disk(k)
    BY <1>1 DEF Copied, KernelOnDisk
  <2> DEFINE a == BootSector + k
  <2>1. /\ BLOCK \in Nat \ {0} /\ BootSector \in Nat /\ KernelTarget \in Nat
        /\ MemoryEnd \in Nat /\ k \in Nat
    BY <1>1, ImageIs, LayoutAssumption
  <2>2. /\ image.rest * BLOCK \in Nat /\ k < BLOCK + image.rest * BLOCK
        /\ BootSector + k < MemoryEnd
    BY <1>1, <2>1, ImageIs
  <2>3. a \in Addresses /\ a - (BootSector + BLOCK) = k - BLOCK
    BY <2>1, <2>2 DEF Addresses
  <2>4. memory'[a] = IF k - BLOCK \in 0 .. image.rest * BLOCK - 1
                     THEN Disk(1 * BLOCK + (k - BLOCK)) ELSE memory[a]
    BY <1>1, <2>3, RestPacketIs DEF Read
  <2>5. CASE k < BLOCK
    <3>1. k - BLOCK \notin 0 .. image.rest * BLOCK - 1 /\ k \in 0 .. BLOCK - 1
      BY <2>1, <2>5
    <3> QED
      BY <1>1, <2>4, <3>1 DEF Copied
  <2>6. CASE k >= BLOCK
    <3>1. /\ k - BLOCK \in 0 .. image.rest * BLOCK - 1
          /\ 1 * BLOCK + (k - BLOCK) = k
      BY <2>1, <2>2, <2>6
    <3> QED
      BY <2>4, <3>1
  <2> QED
    BY <2>1, <2>5, <2>6
<1> QED
  BY <1>1, <1>2, <1>3 DEF SInv

-----------------------------------------------------------------------------
(* Stage 2. *)

(* The loop starts at the block after the bootloader, with nothing copied. *)
LEMMA LoadKernel == ASSUME SInv, load_kernel_from_disk PROVE SInv'
<1>1. /\ stage = "stage_2" /\ stage' = "load" /\ UNCHANGED <<image, memory>>
      /\ image \in Images /\ dap \in Packets /\ dap.seg = 0 /\ Copied(KernelOnDisk)
      /\ edi' = KernelTarget /\ ecx' = BlockCount(image.size)
      /\ dap' = [dap EXCEPT !.addr = KernelBuffer % WORD, !.blocks = 1,
                            !.lba = OnDisk(KernelLinked) \div BLOCK]
  BY DEF load_kernel_from_disk, SInv
<1>2. /\ BLOCK \in Nat \ {0} /\ KernelTarget \in Nat /\ BootSector \in Nat
      /\ KernelBuffer \in Nat /\ WORD \in Nat /\ KernelBuffer < WORD
  BY LayoutAssumption
<1>3. KernelBuffer % WORD = KernelBuffer
  BY <1>2
<1>4. OnDisk(KernelLinked) \div BLOCK = 1 + image.rest
  <2>1. image.rest \in Nat /\ image.rest * BLOCK \in Nat
    BY <1>1, ImageIs
  <2>2. OnDisk(KernelLinked) = (1 + image.rest) * BLOCK
    BY <1>2, <2>1, Times DEF OnDisk, KernelLinked, RestEnd, RestStart
  <2>3. 1 + image.rest \in Nat
    BY <2>1
  <2> QED
    BY <1>2, <2>2, <2>3, Blocks
<1>5. /\ dap' \in Packets /\ dap'.addr = KernelBuffer /\ dap'.blocks = 1 /\ dap'.seg = 0
      /\ dap'.lba = 1 + image.rest
  <2>1. 1 + image.rest \in Int /\ KernelBuffer \in Int /\ 1 \in Int
    BY <1>1, <1>2, ImageIs
  <2>2. dap' = [dap EXCEPT !.addr = KernelBuffer, !.blocks = 1, !.lba = 1 + image.rest]
    BY <1>1, <1>3, <1>4
  <2> QED
    BY <1>1, <2>1, <2>2 DEF Packets
<1>6. LoadInv'
  <2>1. ecx' \in Nat \ {0} /\ edi' \in Nat /\ edi' >= KernelTarget
    BY <1>1, <1>2, BlockCountIs, ImageIs
  <2>2. dap'.lba * BLOCK = KernelOnDisk /\ KernelOnDisk \in Nat /\ KernelOnDisk' = KernelOnDisk
    BY <1>1, <1>5, ImageIs DEF KernelOnDisk
  <2>3. InPlace(edi - KernelTarget)'
    BY <1>1, <1>2 DEF InPlace
  <2>4. dap'.lba * BLOCK = KernelOnDisk' + (edi' - KernelTarget)
    BY <1>1, <1>2, <2>2
  <2>5. edi' + ecx' * BLOCK = KernelTarget + BlockCount(image'.size) * BLOCK
    BY <1>1
  <2>6. Counters'
    BY <1>5, <2>1, <2>4, <2>5 DEF Counters
  <2> QED
    BY <2>3, <2>6 DEF LoadInv
<1>7. Copied(KernelOnDisk)'
  BY <1>1 DEF Copied, KernelOnDisk
<1> QED
  BY <1>1, <1>5, <1>6, <1>7 DEF SInv

(* A block goes through the buffer to its place, over nothing that is      *)
(* needed.                                                                 *)
LEMMA BlockIs ==
    ASSUME SInv, load_next_kernel_block_from_disk
    PROVE  \A a \in Addresses :
              /\ a \in edi .. edi + BLOCK - 1 => memory'[a] = Disk(dap.lba * BLOCK + (a - edi))
              /\ a \notin edi .. edi + BLOCK - 1 /\ a >= BootSector => memory'[a] = memory[a]
<1>1. /\ stage = "load" /\ LoadInv /\ dap.seg = 0 /\ dap \in Packets
  BY DEF load_next_kernel_block_from_disk, SInv
<1>2. /\ BLOCK \in Nat \ {0} /\ PARAGRAPH \in Nat /\ KernelBuffer \in Nat /\ BootSector \in Nat
      /\ KernelBuffer + BLOCK <= BootSector /\ edi \in Nat /\ MemoryEnd \in Nat
      /\ BootSector <= MemoryEnd
  <2>1. /\ BLOCK \in Nat \ {0} /\ PARAGRAPH \in Nat /\ KernelBuffer \in Nat
        /\ BootSector \in Nat /\ KernelBuffer + BLOCK <= BootSector /\ MemoryEnd \in Nat
        /\ KernelTarget \in Nat
    BY LayoutAssumption
  <2>2. BootSector <= MemoryEnd
    BY <2>1, ImageIs DEF SInv
  <2> QED
    BY <1>1, <2>1, <2>2 DEF LoadInv, Counters
<1>3. Buffer(dap) = KernelBuffer /\ dap.addr = KernelBuffer /\ dap.blocks * BLOCK = BLOCK
  BY <1>1, <1>2 DEF Buffer, LoadInv, Counters
<1>4. \A a \in Addresses :
         Read(dap)[a] = IF a - KernelBuffer \in 0 .. BLOCK - 1
                        THEN Disk(dap.lba * BLOCK + (a - KernelBuffer)) ELSE memory[a]
  BY <1>3 DEF Read
<1>5. \A a \in Addresses :
         memory'[a] = IF a - edi \in 0 .. BLOCK - 1
                      THEN Read(dap)[KernelBuffer + (a - edi)] ELSE Read(dap)[a]
  BY <1>3 DEF load_next_kernel_block_from_disk
<1> SUFFICES ASSUME NEW a \in Addresses
             PROVE
              /\ a \in edi .. edi + BLOCK - 1 => memory'[a] = Disk(dap.lba * BLOCK + (a - edi))
              /\ a \notin edi .. edi + BLOCK - 1 /\ a >= BootSector => memory'[a] = memory[a]
  OBVIOUS
<1>6. a \in Int
  BY <1>2 DEF Addresses
<1>7. CASE a \in edi .. edi + BLOCK - 1
  <2> DEFINE b == KernelBuffer + (a - edi)
  <2>1. a - edi \in 0 .. BLOCK - 1 /\ b - KernelBuffer = a - edi /\ b \in Addresses
    BY <1>2, <1>6, <1>7 DEF Addresses
  <2> HIDE DEF b
  <2>2. Read(dap)[b] = Disk(dap.lba * BLOCK + (a - edi))
    BY <1>4, <2>1
  <2>3. memory'[a] = Read(dap)[b]
    BY <1>5, <2>1 DEF b
  <2> QED
    BY <1>7, <2>2, <2>3
<1>8. CASE a \notin edi .. edi + BLOCK - 1 /\ a >= BootSector
  <2>1. a - edi \notin 0 .. BLOCK - 1 /\ a - KernelBuffer \notin 0 .. BLOCK - 1
    BY <1>2, <1>6, <1>8
  <2> QED
    BY <1>4, <1>5, <1>8, <2>1
<1> QED
  BY <1>7, <1>8
(* One more block is in place, and after the last one the whole file.      *)
LEMMA LoadNext == ASSUME SInv, load_next_kernel_block_from_disk PROVE SInv'
<1>1. /\ stage = "load" /\ LoadInv /\ dap.seg = 0 /\ dap \in Packets /\ image \in Images
      /\ Copied(KernelOnDisk) /\ image' = image /\ edi' = edi + BLOCK /\ ecx' = ecx - 1
      /\ dap' = [dap EXCEPT !.lba = @ + 1]
      /\ stage' = IF ecx' = 0 THEN "loaded" ELSE "load"
  BY DEF load_next_kernel_block_from_disk, SInv
<1>2. /\ BLOCK \in Nat \ {0} /\ BootSector \in Nat /\ KernelTarget \in Nat /\ MemoryEnd \in Nat
      /\ edi \in Nat /\ ecx \in Nat \ {0} /\ edi >= KernelTarget
      /\ KernelOnDisk \in Nat /\ image.size \in Nat \ {0}
      /\ BootSector + KernelOnDisk <= KernelTarget
      /\ KernelTarget + image.size + BLOCK <= MemoryEnd
  BY <1>1, ImageIs, LayoutAssumption DEF LoadInv, Counters
<1> DEFINE end == BlockCount(image.size) * BLOCK
<1>3. end \in Nat /\ end >= image.size /\ end < image.size + BLOCK
  <2>1. BlockCount(image.size) \in Nat
    BY <1>2, BlockCountIs
  <2> QED
    BY <1>2, <2>1, BlockCountIs, Positive
<1>4. edi + ecx * BLOCK = KernelTarget + end
  BY <1>1 DEF LoadInv, Counters
<1> HIDE DEF end
<1>5. /\ ecx * BLOCK \in Nat /\ ecx * BLOCK >= BLOCK
      /\ ecx' \in Nat /\ ecx' * BLOCK = ecx * BLOCK - BLOCK
      /\ (ecx' = 0 => ecx' * BLOCK = 0)
  BY <1>1, <1>2, Positive, Times
<1>6. edi' + ecx' * BLOCK = KernelTarget + end
  BY <1>1, <1>2, <1>3, <1>4, <1>5
<1>7. edi + BLOCK <= MemoryEnd
  BY <1>2, <1>3, <1>4, <1>5
<1>8. dap' \in Packets /\ dap'.seg = 0 /\ dap'.addr = dap.addr /\ dap'.blocks = dap.blocks
      /\ dap'.lba = dap.lba + 1 /\ dap.lba \in Int
  BY <1>1 DEF Packets
<1>9. dap.lba * BLOCK = KernelOnDisk + (edi - KernelTarget)
  BY <1>1 DEF LoadInv, Counters
<1>10. dap'.lba * BLOCK = KernelOnDisk + (edi' - KernelTarget)
  <2>1. dap'.lba * BLOCK = dap.lba * BLOCK + BLOCK
    BY <1>2, <1>8, Times
  <2> QED
    BY <1>1, <1>2, <1>9, <2>1
<1>11. KernelOnDisk' = KernelOnDisk
  BY <1>1 DEF KernelOnDisk
<1>12. Copied(KernelOnDisk)'
  <2> SUFFICES ASSUME NEW k \in 0 .. KernelOnDisk - 1
               PROVE  memory'[BootSector + k] = Disk(k)
    BY <1>11 DEF Copied
  <2>1. /\ BootSector + k \in Addresses /\ BootSector + k >= BootSector
        /\ BootSector + k \notin edi .. edi + BLOCK - 1
    BY <1>2 DEF Addresses
  <2> QED
    BY <1>1, <2>1, BlockIs DEF Copied
<1>13. InPlace(edi - KernelTarget)'
  <2> SUFFICES ASSUME NEW k \in 0 .. edi + BLOCK - KernelTarget - 1
               PROVE  memory'[KernelTarget + k] = Disk(KernelOnDisk + k)
    BY <1>1, <1>2, <1>11 DEF InPlace
  <2> DEFINE a == KernelTarget + k
  <2>1. a \in Addresses /\ a >= BootSector /\ a < edi + BLOCK
    BY <1>2, <1>7 DEF Addresses
  <2>2. CASE a < edi
    <3>1. a \notin edi .. edi + BLOCK - 1 /\ k \in 0 .. edi - KernelTarget - 1
      BY <1>2, <2>2
    <3>2. memory[a] = Disk(KernelOnDisk + k)
      BY <1>1, <3>1 DEF LoadInv, Counters, InPlace
    <3> QED
      BY <2>1, <3>1, <3>2, BlockIs
  <2>3. CASE a >= edi
    <3>1. a \in edi .. edi + BLOCK - 1
      BY <1>2, <2>1, <2>3
    <3>2. dap.lba * BLOCK + (a - edi) = KernelOnDisk + k
      BY <1>2, <1>9
    <3> QED
      BY <2>1, <3>1, <3>2, BlockIs
  <2> QED
    BY <1>2, <2>2, <2>3
<1>14. CASE ecx' = 0
  <2>1. stage' = "loaded"
    BY <1>1, <1>14
  <2>2. edi' - KernelTarget = end
    BY <1>1, <1>2, <1>3, <1>5, <1>6, <1>14
  <2>3. InPlace(image.size)'
    <3>1. \A k \in 0 .. image.size - 1 : k \in 0 .. (edi' - KernelTarget) - 1
      BY <1>2, <1>3, <2>2
    <3>2. \A k \in 0 .. (edi' - KernelTarget) - 1 :
             memory'[KernelTarget + k] = Disk(KernelOnDisk' + k)
      BY <1>13 DEF InPlace
    <3> QED
      BY <1>1, <3>1, <3>2 DEF InPlace
  <2> QED
    BY <1>1, <1>8, <1>12, <2>1, <2>3 DEF SInv
<1>15. CASE ecx' # 0
  <2>1. stage' = "load"
    BY <1>1, <1>15
  <2>2. dap'.addr = KernelBuffer /\ dap'.blocks = 1
    BY <1>1, <1>8 DEF LoadInv, Counters
  <2>3. ecx' \in Nat \ {0} /\ edi' \in Nat /\ edi' >= KernelTarget
    BY <1>1, <1>2, <1>5, <1>15
  <2>4. edi' + ecx' * BLOCK = KernelTarget + BlockCount(image'.size) * BLOCK
    BY <1>1, <1>6 DEF end
  <2>5. Counters'
    BY <1>10, <1>11, <2>2, <2>3, <2>4 DEF Counters
  <2>6. LoadInv'
    BY <1>13, <2>5 DEF LoadInv
  <2> QED
    BY <1>1, <1>8, <1>12, <2>1, <2>6 DEF SInv
<1> QED
  BY <1>14, <1>15

-----------------------------------------------------------------------------
(* Stage 3. *)

(* The page tables are zeroed below everything that is loaded. *)
LEMMA SetUp == ASSUME SInv, set_up_page_tables PROVE SInv'
<1>1. /\ stage = "loaded" /\ stage' = "stage_4" /\ UNCHANGED <<image, dap>>
      /\ image \in Images /\ dap \in Packets /\ Copied(KernelOnDisk) /\ InPlace(image.size)
  BY DEF set_up_page_tables, SInv
<1>2. /\ BootSector \in Nat /\ KernelTarget \in Nat /\ MemoryEnd \in Nat /\ BLOCK \in Nat
      /\ PageTableStart \in Nat /\ PageTableEnd \in Nat /\ PageTableEnd <= BootSector
      /\ KernelOnDisk \in Nat /\ image.size \in Nat
      /\ BootSector + KernelOnDisk <= KernelTarget
      /\ KernelTarget + image.size + BLOCK <= MemoryEnd
  BY <1>1, ImageIs, LayoutAssumption
<1>3. \A a \in Addresses : a >= BootSector => memory'[a] = memory[a]
  <2> TAKE a \in Addresses
  <2> HAVE a >= BootSector
  <2>1. a \notin PageTableStart .. PageTableEnd - 1
    BY <1>2 DEF Addresses
  <2> QED
    BY <2>1 DEF set_up_page_tables
<1>4. KernelOnDisk' = KernelOnDisk
  BY <1>1 DEF KernelOnDisk
<1>5. Copied(KernelOnDisk)'
  <2>1. \A k \in 0 .. KernelOnDisk - 1 :
           BootSector + k \in Addresses /\ BootSector + k >= BootSector
    BY <1>2 DEF Addresses
  <2> QED
    BY <1>1, <1>3, <1>4, <2>1 DEF Copied
<1>6. InPlace(image.size)'
  <2>1. \A k \in 0 .. image.size - 1 :
           KernelTarget + k \in Addresses /\ KernelTarget + k >= BootSector
    BY <1>2 DEF Addresses
  <2> QED
    BY <1>1, <1>3, <1>4, <2>1 DEF InPlace
<1> QED
  BY <1>1, <1>5, <1>6 DEF SInv

(* Every step keeps the invariant. *)
LEMMA StepSInv == SInv /\ [StagesNext]_stageVars => SInv'
<1> SUFFICES ASSUME SInv, [StagesNext]_stageVars PROVE SInv'
  OBVIOUS
<1>1. CASE UNCHANGED stageVars
  BY <1>1 DEF stageVars, SInv, LoadInv, Counters, InPlace, Copied, KernelOnDisk
<1>2. CASE Fail
  BY <1>2 DEF Fail, SInv
<1>3. CASE StagesNext
  BY <1>2, <1>3, LoadRest, LoadKernel, LoadNext, SetUp
     DEF StagesNext, no_int13h_extensions, rest_of_bootloader_load_failed,
         kernel_load_failed, no_cpuid_or_long_mode
<1> QED
  BY <1>1, <1>3

(* For every size of the bootloader and of the kernel, every block size    *)
(* and every layout of the assumptions: stage 2 runs with the whole        *)
(* bootloader in memory, and stage 3 and what follows with the whole of    *)
(* the kernel's file (stage_1.s, stage_2.s and stage_3.s).                 *)
THEOREM FilesLoadedHolds == StagesSpec => []FilesLoaded
<1>1. SInv => FilesLoaded
  BY DEF SInv, FilesLoaded, Copied, InPlace
<1> QED
  BY <1>1, InitSInv, StepSInv, PTL DEF StagesSpec
=============================================================================
