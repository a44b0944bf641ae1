# LLM OS in TLA+

A verification project for LLM OS: a bare-metal x86_64 kernel in Rust whose only
user program is an agent, with its vendored bootloader (0.9.23). Paths below are
relative to the repository; `src/src/` is the kernel, `src/bootloader/src/` the
bootloader.

## 1. The system

An image is built on the host, boots through the assembly stages and the Rust part of
the bootloader, and hands over to the kernel, which runs the agent.

| Part | Code | State | Operations that change it |
| --- | --- | --- | --- |
| Build and tests | `bootloader/build.rs`, `lib.rs` | files of the build, cargo's record of the last run, exit status | steps of `main`, `test_runner`, the test panic handler |
| Boot stages | `stage_1.s`, `stage_2.s`, `stage_3.s`, `linker.ld` | disk packet, memory, first page tables | two loads from disk, page table set-up |
| Memory detection | `e820.s` | list of firmware entries, `mmap_ent` | `do_e820` |
| Boot memory map | `bootinfo/memory_map.rs`, `boot_info.rs` | array of typed frame ranges | `add_region`, `sort`, `create_from` |
| Frame allocator | `frame_allocator.rs` | the memory map | `allocate_frame`, `mark_allocated_region` |
| Bootloader main | `main.rs`, `page_table.rs`, `level4_entries.rs` | page tables with flags, level-4 entries, memory contents | recursive entry, segments, stack, physical map, handoff |
| Bootloader printers | `printer/*.rs` | position, screen | `clear_screen`, `write_str` |
| Kernel memory | `memory.rs`, `allocator.rs` | `next`, page tables, heap lock | `allocate_frame`, `init_heap` |
| Interrupts | `interrupts.rs`, `gdt.rs`, `lib.rs` | interrupt flag, tables, controller, locks | `init`, five handlers |
| Printing | `vga_buffer.rs`, `serial.rs` | `WRITER`, `SERIAL1`, screen | `_print`, `write_byte`, `new_line` |
| Context window | `agent/context.rs` | deque, token counter, eviction counter | `push_message` |
| Tool registry | `agent/tools.rs` | table of tools, key-value memory | `register`, `execute` |
| Agent | `agent/mod.rs` | both of the above | `boot`, `process_input` |

What is hard about it:

* **one processor, interrupts and spin locks**: any lock an interrupt handler
  takes must not be held by what it interrupted; without_interrupts nests;
  an end of interrupt must be sent once for each interrupt served; the keyboard
  line is edge-triggered;
* **faults while locks are held**: page fault, panic, stack overflow;
* **two frame allocators over one map**: borders that move without sorting,
  ranges trimmed to nothing, an array that fills up, firmware entries that begin
  or end inside a frame;
* **loading from disk**: block by block through a buffer, with one packet for two
  stages, a last block that is not full and page tables that are counted twice;
* **loading an image in place**: segments share frames of the file, the rest of
  a segment must be zeroed without touching its neighbour, before write protection is on;
* **stale files**: a build that fails half way, a kernel with the name of another,
  a manifest edited while it is read;
* **eviction**: a loop that keeps two counters beside a deque and must protect
  some messages, end, and respect an order over a whole conversation;
* **arithmetic at the ends of i64**, and a printer that draws below its screen.

`PROJECT.json` lists each of these as a hazard at its line, with the properties
that cover it.

## 2. Modules

| Module | Models | Abstract counterpart |
| --- | --- | --- |
| `ContextWindow` | `agent/context.rs` | `ContextWindowSpec` (a push in one step) |
| `ToolRegistry` | `agent/tools.rs` | the definitions of the four operations |
| `Agent` | `agent/mod.rs`; composes the two above | |
| `Interrupts` | `main.rs`, `lib.rs`, `interrupts.rs`, `gdt.rs`, `_print` | |
| `VgaWriter` | `Writer` of `vga_buffer.rs` | layout computed from the text |
| `BootPrinter` | both Printers of the bootloader, panic or kernel after them; extends `VgaWriter` | |
| `BuildScript` | `build.rs`, with cargo and the developer | what the manifest asks for |
| `TestRunner` | the test run in QEMU; extends `BuildScript` | |
| `Paging` | sizes of pages | |
| `BootStages` | the three assembly stages; extends `Paging` | the bytes of the disk |
| `MemoryMap` | the memory map and its operations, as operators; extends `Paging` | |
| `BootMemory` | `do_e820`, `create_from`, marks, allocations in any order | `FrameOwnership` |
| `KernelBoot` | `bootloader_main`, `map_kernel`, handoff, `init_heap`; composes `BootStages` and `BootMemory` | |
| `AgentProofs`, `BootMemoryProofs`, `BootPrinterProofs`, `BootStagesProofs`, `ContextWindowProofs`, `InterruptsProofs`, `TestRunnerProofs`, `ToolRegistryProofs` | theorems about the module they extend | |
| `MC*` | instances for TLC | |

### ContextWindow
`push_message` is entered (`push_message`), evicts once per loop iteration
(`evict_oldest`), and appends (`push_back`). `pushing` is the message on the call
stack. Content is its byte length, which is all `estimate_tokens` reads. `log` is
a history of calls and gives each message an identity. `ContextWindowSpec` says
what a push does at once: remove the least number of oldest non-System messages
that makes room, or all of them, and append. `MCContextWindow` maps the running
loop to "not yet pushed".

### ToolRegistry, Agent
One step per `execute`, whose `Result` is `reply`; a panic ends the behaviour. Keys
are words with or without a tab beside them. `MinInt .. MaxInt` stands for i64 and
`checks` is the build profile (overflow checks are on in dev, the default). `Agent` runs the
window's loop steps between its own; `report` is what `status` read for `/context`.

### Interrupts
`stack` holds the activations on the processor, the running one last. The phases
of a print are those of `without_interrupts`: save the flag, mask, lock, write and
unlock, restore. Faults can strike the main program only where the code can raise
them: page fault, breakpoint and panic between `init` and the run loop, stack
overflow in any call. The 8259 pair, the keyboard controller and the spin locks
are modelled from how the kernel uses them. Assumed of the environment: a key is
pressed only after the controller has been initialised (an earlier edge is lost
when the controller is reset, and the code does not drain port 0x60).
`work` is everything between `init` and the run loop that takes the heap lock.

### VgaWriter, BootPrinter
A byte per step. `ScreenShowsTail` computes where each byte belongs from the text
alone and compares the whole screen, including what it showed at start. In
`BootPrinter` that start is real: the firmware's text, half of which the text Printer
clears. A glyph is the position it was drawn at; `Pixels` are its bytes in the frame
buffer. A message of a panic is any sequence of characters; one that cannot be printed
makes the graphics Printer panic inside the panic, once.

### BuildScript, TestRunner
One step per step of `main` in `build.rs`; each may fail, which ends the build with the
files as they are. Executables and manifests are values, `OUT_DIR` is three functions
from file names to executables and one file of constants. Cargo is external: it runs
the script again unless the last run succeeded with the same variables and no file the
script named was written since that run began. Edits of the manifest interleave with
the script; kernels are compiled, and variables set, between builds, as bootimage does.
A test returns, panics or loops; without the exit device QEMU goes on.

### BootStages
A byte of memory is a byte of the disk, zero or stale. A stage is a step, and so is
each round of the loop that loads the kernel; every read may fail. Block, segment unit,
16-bit word, page and 2 MiB page are constants. The loops of stage 3 test at their
end (`FromTo`), so that each maps at least one page.

### MemoryMap, BootMemory, KernelBoot
Addresses are in bytes with a `PAGE_SIZE` of 2, so that entries begin and end
inside frames. A map is the slice `deref` returns. `sort` gives each region that is not
empty the place that counts the regions before it, and leaves out empty ones; the
comparison of the code is not an order on empty ranges, and the outcome it aims at is
assumed. `create_from` is one step per entry it adds (`added` counts them) and one for its
last loop. After a panic the map is not read, and the model leaves it alone. `TidyMemory`
says what the bootloader takes for granted of a machine: fewer than 256 entries; an entry
that is not usable ends before any entry behind it in the order of the map starts, counted
in frames; and the four marked regions are disjoint, with no entry starting or ending
inside one.

`BootMemory` allocates in every order, `KernelBoot` in the order of
`bootloader_main`; loops over pages are work items, since a page that needs a frame
may first need a page table. One page table stands for the three levels below
a level-4 entry. Kernels are what the project's linker script gives for several sizes of
its sections (`LinkedElf`), and others with segments that share frames or pages. `cr`
holds the two control bits that give flags their meaning. `KernelBoot` starts at the boot
sector: the file that is mapped is the one the stages have loaded, in the pages stage 3
has mapped.

`config` holds the three addresses a kernel's manifest may set: the boot info page, the
stack and the offset of physical memory. An address that is not set is searched
(`unwrap_or_free`): free level-4 entries, which are then reserved. One that is set is taken
as it is and reserves nothing, so it may be where something else is mapped; `map_page` then
fails and the bootloader panics. An offset is rounded down to 2 MiB at each huge page
(`map_physical_memory`) but handed over as it was set. A kernel that looks for its page
tables through such an offset reads other memory, and the model ends there (`"astray"`).
The addresses are page-aligned, as `build.rs` requires, and end inside the address space
(`ConfigsAssumption`). None is below the level-4 entry that becomes recursive
(`ClearOfRecursive`): a page mapped there would change the page tables themselves, which
one table per entry cannot express.

## 3. Runs

| Run | Shows |
| --- | --- |
| `context_window` | counters, order, protection and termination of the eviction loop; the loop implements an atomic push |
| `tools` | recall returns the last value stored; failed calls change nothing; the calculator against the definition of the operations, at both ends of the range and in both profiles |
| `agent` | conversations of three turns: `/context` accounts for all messages, the limit is exceeded by one message at most, a turn keeps its own messages, and is answered |
| `interrupts` | all interleavings of boot, prints, handlers, interrupts and faults: locks, nesting, end of interrupt, keys in order and none lost; every key is printed and the run loop is reached |
| `screen` | the screen shows the end of the text; a panic of the bootloader can be read and is drawn inside the frame buffer |
| `boot_memory` | no frame in two regions, no used frame usable, the map implements frame ownership |
| `kernel_boot` | from the boot sector to the heap: bootloader and file loaded, mapped while they are needed and unmapped after, the kernel's image and its protection, its guard page where the addresses are searched, the map of physical memory for an offset at a 2 MiB boundary, frames used once; a kernel of the linker script is never refused for its pages |
| `build` | no stale kernel or constant in an image; the exit status is right about the kernel that was asked for |

Four runs show where the code and its documentation disagree (`findings`):

| Run | Documentation | Code |
| --- | --- | --- |
| `agent_tool_error` | a tool's error becomes a Tool message | only results do |
| `double_fault` | a stack overflow is handled safely | inside a print, the panic spins on the print's lock |
| `boot_memory_reserved` | usable regions can be freely used | a usable entry that starts in a reserved frame keeps it |
| `physical_offset` | the kernel finds physical memory at "physical + offset" (`bootinfo/mod.rs:37`) | an offset that is page-aligned, as `build.rs` asks, but not a multiple of 2 MiB is rounded down when memory is mapped (`main.rs:307`) and handed over unrounded |

Four more differences follow from the models without a run of their own. The window is
called bounded (`agent/context.rs:3`), but a message that does not fit beside the
prompt is appended anyway: `OverLimitByOneMessage` says by how much. A key stored with
a tab beside it is found by no recall, since `exec_memory_recall` trims the key and
`exec_memory_store` does not: `RecallReturnsLastStored` counts plain keys only.
`mark_allocated_region` looks at the first region that overlaps only, so on a list that
is not tidy it does not always panic on reserved memory, as its comment
(`frame_allocator.rs:68`) says. The page below the stack is left unmapped as a guard
(`page_table.rs:49`), but a stack address from the manifest reserves nothing, so the boot
info, a segment or physical memory may be mapped there: `GuardPageUnmapped` says that the
guard page is free when both addresses are searched.

`boot_memory` and `kernel_boot` use tidy lists, without the shape of
`boot_memory_reserved`; for `boot_memory` TLC evaluates this (`MemoriesTidy`).

### Bounds
* `context_window`: 5 pushes, 2 roles, sizes of 1, 2 and 5 tokens against a limit of
  4: one push may evict none, one, two or all, or not fit at all.
* `tools`: one word, plain and with a tab, 2 values; an i64 of three bits, operands
  one beyond each end.
* `agent`: the real 4096 tokens and prompt; 10 messages are three turns; texts below,
  above half of, and above the window.
* `interrupts`: 3 keys, a controller that holds 2 codes, one line without a handler.
* `screen`: 3 rows of 2 columns, 8 bytes: the screen scrolls out completely. 2 rows of
  3 glyphs, 10 characters: the row below the screen is filled and the screen cleared.
  The frame buffer is exactly as large as `ScreenAssumption` asks.
* `boot_memory`: 14 frames, 11 entries; the map fills up in some orders, memory runs
  out in others.
* `kernel_boot`: 24 to 40 frames, or a hole that leaves 1 to 7 free ones below it, so
  that memory runs out at every stage; files that end inside a block, at a 2 MiB page and
  past one; five sizes of the linker script's sections, one reaching over the loaded
  file; eleven other tables of program headers, of which some are refused. Four
  settings of the configured addresses: none; boot info and physical memory at free
  addresses; the stack where the boot info would be, with an offset inside a huge page;
  and boot info and stack at addresses that the kernel's image and heap use.
* `physical_offset`: the same machines and kernels, with only an offset set, inside a
  huge page.
* `build`: 2 paths with one or two file names, 4 kernels, 5 manifests (invalid, empty,
  sound, with an unaligned address, with an empty stack); 2 compilations, settings or
  edits, which is enough for a change during a build and one after it.

Deadlock is checked where the system never stops (`interrupts`, `boot_memory`,
`kernel_boot`) and in `build`, where the developer may always go on. The window, the
registry, the agent and the screen are passive and may be left alone; their runs also
end at their bounds.

### Fairness
A call runs to its end (`ContextWindow`, `Agent`, `KernelBoot`: weak
fairness of the code's own steps; nothing is assumed of callers). In `Interrupts` the
processor executes instructions (weak fairness), an interrupted program goes on
when its handlers are done, and the controller serves a line that is again and again
the next to be served (strong fairness, since masking disables both again and again).
The timer ticks 18 times a second, and its handler does not always return to another
tick (`TimerIsSlow`): without it a timer could starve the main program.

## 4. Proofs

**`ContextWindowProofs`**, for every set of roles with "System", every set of lengths,
every `MaxTokens` and any number of pushes (`RoleAssumption`, `LengthsAssumption`,
`MaxTokensAssumption`, `MaxPushesAssumption`):

* `TypeCorrect`, `OverLimitOnlyBySystemHolds`, `SystemNeverEvictedHolds`,
  `RetainedIsRecentHolds`. The three properties are not inductive alone: that an
  evicted message is the oldest of its kind says nothing unless the window is in the
  order of the log. `IInv` adds `Identities`: a message's identity is its place in
  the log, the window's messages are those of the log, and the one being pushed is
  the newest. One lemma per action; `RemoveProperties` says what removing from the
  deque does.
* `TokenAccountingHolds`, `EvictionsCountedHolds`: the two counters agree with
  the deque. The total of the tokens is stated as the size of a set of (message,
  token) pairs, so that the library's facts on cardinality do the sums and no
  induction is needed (`DisjointSum`, `TokensOfMessage`).

**`InterruptsProofs`**, for every set of faults, every set of further lines between
2 and 15, any number of keys and any controller buffer (`FaultsAssumption`,
`OtherIrqsAssumption`, `BoundsAssumption`):

* `TypeCorrect`, `HandlersDoNotNestHolds`, `EnabledAfterInitHolds`,
  `MaskedWhileLockedHolds`, `InServiceUntilEoiHolds`, `SpinsOnlyAfterOverflowHolds`.
  They rest on one inductive invariant. "No handler meets a held lock" needs to know
  who holds each lock (`LockInv`: a lock is held exactly when one activation, and
  only one, is inside the section that took it), where the main program can be when
  interrupts are enabled (`MainOK`: past `init` and outside its critical sections),
  and what a handler may have interrupted (`HandlerOK`: one that will return
  interrupted nothing critical; only the panic of a stack overflow can have).
  `HandlerOK` in turn needs that a handler's saved flag is FALSE, or the restore at
  the end of its print would let handlers nest. `ServiceInv` gives the end of
  interrupt its meaning: the line of highest priority in service is the handler's
  own, because the timer and the keyboard come before all other lines.
  There is one lemma per action; `TopStep`, `EnteredStep` and the lemmas on locks and
  lines reduce each to what the running activation becomes.

* `NoLostKeyHolds` and `EchoedInOrderHolds`. That a key is printed in its turn depends
  on where all others are: `KInv` counts the keys typed as those printed, the one in the
  handler's hand and those at the port, in order, allowing for one release at the front;
  and it says that nothing is at the port when the controller's requests are reset. It
  rests on `IInv`: two keyboard handlers at once would mix two keys.

**`ToolRegistryProofs`**, for any words, values and operands, and every range that is as
wide below 0 as i64 is (`RangeAssumption`, `ProfilesAssumption`, `OperandsAssumption`):

* `RecallReturnsLastStoredHolds` (`MemoryInv`: memory and history agree on every key typed
  plainly, so a padded store cannot disturb a plain key) and
  `FailedCallChangesNothingHolds`, an action property;
* `CalculatorResultHolds`: the mathematical result whenever it is an i64, an error exactly
  for what is not valid, and a panic or, without overflow checks, a wrapped value
  otherwise. It rests on lemmas on the size of products (`ProductBound`), the wrapped value
  (`WrapIs`) and the quotient (`QuotientIs`).

**`AgentProofs`**, for any inputs, replies and number of turns and any limit the prompt
fits in (`LimitsAssumption`, `PromptAssumption`, `ReplyAssumption`, `InputsAssumption`,
`PromptFitsAssumption`):

* `AgentUsesWindow`: every step of the agent is a step of `ContextWindow` or leaves the
  window alone. Therefore the invariant of `ContextWindowProofs` holds of the agent's
  window; it is used through an instance of that module, not proved again.
* `StatusAccountsHolds`, `OverLimitByOneMessageHolds`, `TurnRetainedHolds`,
  `TurnShapeHolds`. `AInv` says that the prompt is the first and only System message, so
  that the window is the prompt followed by a last part of the log (`Held`), what the log
  ends in at each point of `process_input` (`Turn`), that a turn that fits has lost nothing
  (`Kept`) and what `/context` was answered with (`Answered`). `WindowInv` adds up the
  tokens of windows of up to three messages, which is what a turn that fits needs: a turn
  is only reached by evictions when nothing but it and the prompt is left.

**`TestRunnerProofs`**, for any kernels, paths, names, manifests and number of changes
(`AlignmentAssumption`, `MaxChangesAssumption`, `MissingAssumption`, `UnsetAssumption`,
`ManifestsAssumption`, `BinariesAssumption`): `ImageHasKernelHolds`,
`ImageHasConstantsHolds`, `StatusIsRightHolds`. The properties speak of finished builds
only; `BInv` follows the kernel through the files of a running one (`ScriptInv`), says
what remains true of the last success while its files are not written (`FreshInv`) and
joins the two (`BuiltInv`). `TInv` says that the tests run so far returned and were
reported.

**`BootStagesProofs`**, for any sizes of the bootloader, the kernel, a block, a segment
unit and a word, and every layout with the buffer and the page tables below the boot
sector and the bootloader below the kernel (`LayoutAssumption`, `ImagesAssumption`):
`FilesLoadedHolds`, for the stages on their own (`StagesSpec`). `Counters` is the heart of
`SInv`: the block of the disk, the target and the blocks left move together, so that the
last round ends less than a block past the file. A few lemmas on products and quotients
carry the arithmetic.

**`BootPrinterProofs`**, for any screen of whole characters and any text
(`ScreenAssumption`, `SizeAssumption`):

* `PixelsInFrameBufferHolds`. `PInv` keeps the position on the grid of characters, at most
  one row below the screen, and one column right of it only after a nested panic.
* `MessageReadableHolds`. `RInv` says that in text mode the message fills the cells up to
  `current_offset`, and that characters drawn since the screen was cleared lie on the
  grid, no two at one place, before the next position in reading order.
* `ScreenShowsTailHolds`. `SInv` adds that the column is the length of the last line
  modulo the width, except that it waits at the end of a full row. A byte that is written
  leaves the rows of earlier bytes alone (`RowsGrow`) and adds at most one row, so a step
  moves every cell up by that row and fills one. Rows are sizes of sets of breaks and
  wraps, so no induction over the text is needed.

**`BootMemoryProofs`**, for any tidy firmware list and boot image (`Tidy`), any page size
and any capacity of the map (`PageSizeAssumption`, `MapSizeAssumption`):

* `RegionsDisjointHolds`, `UsableIsUnusedHolds`. The order of the map is what makes both
  true, since the allocator looks at the next region only and a mark at the first that
  overlaps. Each operation has a lemma that says that it keeps the map in order and which
  frames change hands. `BInv` follows the list from the firmware's answers (`Stored`) over
  regions that may overlap (`Gathered`) to the ordered map (`Mapped`, `Marked`). `Tidy` is
  needed: the run `boot_memory_reserved` shows what happens without.
* `OwnershipImplemented`: the map implements `FrameOwnership`. Each step of `BootMemory` is
  one of its steps, or leaves all owners alone.

### Only model-checked
* Liveness (`PushReturns`, `Responds`, `EveryKeyEchoed`, `ReachesRunLoop`, `BootEnds`):
  TLAPS does not prove properties under fairness.
* `ImplementsAtomicPush`: the abstract push adds up tokens with a fold, and what a fold
  computes takes induction over the window.
* All properties of `KernelBoot`; `FilesLoaded` is proved for the stages on their own, and
  the properties of the memory map for `BootMemory`, which allocates in any order.

## 5. Not modelled

* The A20 gate, unreal mode, the mode switches, descriptor tables and SSE: single writes
  to registers without which nothing else runs, and which no other code depends on the
  order of. The firmware's video mode call, and the assembly's own messages.
* The heap's free list (a library) and its exhaustion, the UART.
* The lazy initialisation of `WRITER`, `SERIAL1`, `IDT` and `KEYBOARD`: each is first used
  with interrupts off or by the only code that uses it.
* The result of the map's sort on empty regions, for which its comparison is not an
  order: the outcome it aims at is assumed.
* A firmware list of 256 entries, whose number stage 4 cuts to 0: modelled
  (`EntryCount`), but out of the runs' size.
* A stack overflow inside an interrupt handler or inside a panic: overflows strike the
  main program only. The double fault may then also find the handler's lock held, as in the
  run `double_fault`.
* A key pressed before the interrupt controller is initialised. Its edge is lost when the
  controller is reset, its code stays at port 0x60, and since the line is edge-triggered
  no later key raises an interrupt; `NoLostKey` and `EveryKeyEchoed` hold from there on
  only because `key` excludes it.
* Configured addresses below the level-4 entry that becomes recursive.
* What bootimage makes of QEMU's exit status. `StatusIsRight` ends at the status QEMU
  returns, 33 for success; `Cargo.toml` sets no `test-success-exit-code`, so whether
  `cargo test` reports success is up to bootimage.
* The wording of messages, and colours.

The kernel's run loop does not call `process_input` yet, so keys and agent are separate
models.
