---------------------------- MODULE MCKernelBoot ----------------------------
(***************************************************************************)
(* KernelBoot for TLC: pages of two bytes, huge pages of eight pages,      *)
(* memories of several sizes, kernels of the project's linker script, and  *)
(* kernels whose segments share frames, end inside a page, have no bytes   *)
(* in the file, or are refused; without and with configured addresses.     *)
(***************************************************************************)
EXTENDS KernelBoot

(* Part of a block, exactly one huge page, and more than one. *)
MCImages == {[rest |-> 1, size |-> 9], [rest |-> 2, size |-> 16], [rest |-> 2, size |-> 23]}

MCLayouts == {LayoutOf(img) : img \in MCImages}

Entry(start, end, type) ==
    [start |-> start, len |-> end - start, type |-> type, usable |-> TRUE]

(* Memory that ends at 2 * n bytes. *)
Memory(n) == <<Entry(0, 11, 1), Entry(11, 12, 2), Entry(16, 2 * n, 1)>>
(* A hole between n free frames and the kernel, and no order. *)
Hole(n) ==
    <<Entry(0, 12, 1), Entry(32, 56, 1), Entry(16, 16 + 2 * n, 1), Entry(16 + 2 * n, 32, 2)>>

MCFirmwareLists == {Memory(n) : n \in {24, 28, 32, 33, 40}}
                       \cup {Hole(n) : n \in 1 .. 7} \cup {<<>>}

(* The last one is longer than the space between LinkBase and the file. *)
MCSectionSizes ==
    {<<2, 1, 1, 3>>, <<1, 2, 2, 2>>, <<3, 2, 1, 0>>, <<2, 1, 0, 1>>, <<15, 1, 1, 4>>}

Load(v, o, f, m) == Header("Load", {"w"}, v, o, f, m)

MCElfs ==
    { \* text and data share a frame of the file
      <<Load(18, 0, 1, 1), Load(21, 1, 2, 6), Header("Other", {}, 0, 0, 0, 0)>>,
      \* .bss first, and code behind it in the same frame
      <<Load(18, 0, 1, 3), Header("Load", {"x"}, 23, 1, 3, 3)>>,
      \* .bss without bytes in the file, and a thread-local template
      <<Load(18, 0, 4, 4), Load(24, 4, 0, 3), Header("Tls", {}, 20, 2, 1, 1)>>,
      \* high addresses
      <<Load(260, 0, 2, 5)>>,
      \* no level-4 entry left for the boot info, for physical memory, for the heap
      <<Header("Other", {}, 0, 0, 0, 511)>>,
      <<Header("Other", {}, 0, 0, 0, 447)>>,
      <<Header("Other", {}, 0, 0, 0, 383)>>,
      \* refused: two copied pages, overlapping pages, two templates, too many headers
      <<Load(18, 0, 1, 2), Load(23, 1, 2, 3)>>,
      <<Load(18, 0, 1, 3), Load(21, 1, 2, 2)>>,
      <<Header("Tls", {}, 22, 2, 1, 1), Header("Tls", {}, 24, 2, 1, 1)>>,
      <<Load(18, 0, 1, 1), Load(20, 2, 1, 1), Load(22, 4, 1, 1), Load(24, 6, 1, 1)>> }

Configured(info, stack, physical) ==
    [boot_info_address |-> info, kernel_stack_address |-> stack,
     physical_memory_offset |-> physical]

MCConfigs ==
    { DefaultConfig,
      \* boot info, stack and physical memory at free addresses
      Configured(320, None, 384),
      \* the stack where the boot info will be, and an offset off a huge page
      Configured(None, 128, 322),
      \* boot info in the kernel's image, the stack in its heap
      Configured(20, 510, None) }

(* Only an offset, off a huge page. *)
MCUnalignedOffset == {Configured(None, None, 322)}
=============================================================================
