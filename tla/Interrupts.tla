----------------------------- MODULE Interrupts ------------------------------
(***************************************************************************)
(* The kernel as the processor runs it: kernel_main, the print functions,  *)
(* the interrupt and exception handlers, the spin locks they share and the *)
(* interrupt controller.  src/src/{main,lib,interrupts,gdt,serial,         *)
(* vga_buffer,allocator}.rs.                                               *)
(*                                                                         *)
(* There is one processor.  `stack` is the stack of activations on it: the *)
(* main program at the bottom, a handler above what it interrupted.  Only  *)
(* the top one runs.  An activation is at the operation `pc`, in a phase   *)
(* of it; `were` is the flag without_interrupts saved, `ret` the interrupt *)
(* flag its iretq restores, `arg` the scancode read.                       *)
(*                                                                         *)
(* Successive prints to the same device are one operation.  Key codes are  *)
(* numbers: n > 0 is the n-th character typed, 0 a code that gives no      *)
(* character (a release, a prefix, an error).                              *)
(***************************************************************************)
EXTENDS Naturals, Sequences, FiniteSetsExt

CONSTANTS
    Faults,      \* what may happen in the main program besides its own code
    OtherIrqs,   \* lines other than timer and keyboard that may be raised
    MaxKeys,     \* bound: characters typed in a behaviour
    KbdSize      \* codes the keyboard controller holds

Timer == 0
Keyboard == 1

ASSUME FaultsAssumption ==
    Faults \subseteq {"panic", "page_fault", "breakpoint", "stack_overflow"}
ASSUME OtherIrqsAssumption == OtherIrqs \subseteq 2 .. 15
ASSUME BoundsAssumption == MaxKeys \in Nat /\ KbdSize \in Nat

VARIABLES
    stack,      \* activations, the running one last
    IF_,        \* the processor's interrupt flag
    locked,     \* the spin locks that are held
    loaded,     \* of "gdt", "idt", "pic": what init has set up
    irr, isr,   \* requested and in-service lines of the 8259 pair
    kbd,        \* codes waiting at port 0x60
    typed,      \* history: characters typed so far
    echoed      \* history: characters printed by the keyboard handler

vars == <<stack, IF_, locked, loaded, irr, isr, kbd, typed, echoed>>
hardware == <<loaded, irr, isr, kbd, typed>>

Locks == {"WRITER", "SERIAL1", "PICS", "KEYBOARD", "ALLOCATOR"}
Irqs == {Timer, Keyboard} \cup OtherIrqs

(* The operations, and the one that follows each. *)
Follow_enable_first ==
    [banner |-> "boot_log", boot_log |-> "sti", gdt |-> "idt", idt |-> "pic",
     pic |-> "init_log", sti |-> "gdt", init_log |-> "work", work |-> "alive",
     alive |-> "run_log", run_log |-> "hlt_loop",
     panic_print |-> "panic_log", panic_log |-> "hlt_loop",
     timer_eoi |-> "iret",
     kbd_lock |-> "kbd_read", kbd_echo |-> "kbd_eoi", kbd_eoi |-> "kbd_unlock",
     kbd_unlock |-> "iret",
     breakpoint |-> "iret",
     page_fault |-> "hlt_loop"]
Follow ==
    [banner |-> "boot_log", boot_log |-> "gdt", gdt |-> "idt", idt |-> "pic",
     pic |-> "sti", sti |-> "init_log", init_log |-> "work", work |-> "alive",
     alive |-> "run_log", run_log |-> "hlt_loop",
     panic_print |-> "panic_log", panic_log |-> "hlt_loop",
     timer_eoi |-> "iret",
     kbd_lock |-> "kbd_read", kbd_echo |-> "kbd_eoi", kbd_eoi |-> "kbd_unlock",
     kbd_unlock |-> "iret",
     breakpoint |-> "iret",
     page_fault |-> "hlt_loop"]

VgaPrints == {"banner", "alive", "panic_print", "kbd_echo", "breakpoint", "page_fault"}
SerialPrints == {"boot_log", "init_log", "run_log", "panic_log"}
Prints == VgaPrints \cup SerialPrints
EndsOfInterrupt == {"timer_eoi", "kbd_eoi"}

(* The lock an operation takes and releases. *)
LockOf(pc) ==
    CASE pc \in VgaPrints -> "WRITER"
      [] pc \in SerialPrints -> "SERIAL1"
      [] pc \in EndsOfInterrupt \cup {"pic"} -> "PICS"
      [] pc \in {"kbd_lock", "kbd_unlock"} -> "KEYBOARD"
      [] pc = "work" -> "ALLOCATOR"

Activation(pc, ret) ==
    [pc |-> pc, phase |-> "start", were |-> FALSE, ret |-> ret, arg |-> 0]

Init ==
    /\ stack = <<Activation("banner", FALSE)>>
    /\ IF_ = FALSE
    /\ locked = {}
    /\ loaded = {}
    /\ irr = {} /\ isr = {}
    /\ kbd = <<>>
    /\ typed = 0
    /\ echoed = <<>>

Top == stack[Len(stack)]
At(pc, phase) == Top.pc = pc /\ Top.phase = phase
In(ops, phase) == Top.pc \in ops /\ Top.phase = phase

(* The running activation becomes a. *)
Set(a) == stack' = [stack EXCEPT ![Len(stack)] = a]
Phase(phase) == Set([Top EXCEPT !.phase = phase])
Goto(pc) == Set([Top EXCEPT !.pc = pc, !.phase = "start"])
Done == Goto(Follow[Top.pc])

acquire(lock) == lock \notin locked /\ locked' = locked \cup {lock}
release(lock) == locked' = locked \ {lock}

-----------------------------------------------------------------------------
(* _print of vga_buffer.rs and serial.rs: without_interrupts around the    *)
(* lock, the write and the drop of the guard.                              *)

print_save ==
    /\ In(Prints, "start")
    /\ Set([Top EXCEPT !.phase = "saved", !.were = IF_])
    /\ UNCHANGED <<IF_, locked, hardware, echoed>>

print_disable_not ==
    /\ In(Prints, "saved")
    /\ Phase("masked")
    /\ UNCHANGED <<IF_, locked, hardware, echoed>>
print_disable ==
    /\ In(Prints, "saved")
    /\ IF_' = FALSE
    /\ Phase("masked")
    /\ UNCHANGED <<locked, hardware, echoed>>

print_lock ==
    /\ In(Prints, "masked")
    /\ acquire(LockOf(Top.pc))
    /\ Phase("locked")
    /\ UNCHANGED <<IF_, hardware, echoed>>

print_write ==
    /\ In(Prints, "locked")
    /\ echoed' = IF Top.pc = "kbd_echo" THEN Append(echoed, Top.arg) ELSE echoed
    /\ release(LockOf(Top.pc))
    /\ Phase("written")
    /\ UNCHANGED <<IF_, hardware>>

print_restore_always ==
    /\ In(Prints, "written")
    /\ IF_' = TRUE
    /\ Done
    /\ UNCHANGED <<locked, hardware, echoed>>
print_restore ==
    /\ In(Prints, "written")
    /\ IF_' = (IF_ \/ Top.were)
    /\ Done
    /\ UNCHANGED <<locked, hardware, echoed>>

printing == print_save \/ print_disable \/ print_lock \/ print_write \/ print_restore

-----------------------------------------------------------------------------
(* llm_os::init, in the order of its four calls. *)

load_table ==
    /\ Top.pc \in {"gdt", "idt"}
    /\ loaded' = loaded \cup {Top.pc}
    /\ Done
    /\ UNCHANGED <<IF_, locked, irr, isr, kbd, typed, echoed>>

pics_lock ==
    /\ At("pic", "start")
    /\ acquire("PICS")
    /\ Phase("locked")
    /\ UNCHANGED <<IF_, hardware, echoed>>

(* initialize() moves the vectors to 32 .. 47; the first command word      *)
(* clears the requests and the lines in service.                           *)
pics_initialize ==
    /\ At("pic", "locked")
    /\ loaded' = loaded \cup {"pic"}
    /\ irr' = {} /\ isr' = {}
    /\ release("PICS")
    /\ Done
    /\ UNCHANGED <<IF_, kbd, typed, echoed>>

enable ==
    /\ At("sti", "start")
    /\ IF_' = TRUE
    /\ Done
    /\ UNCHANGED <<locked, hardware, echoed>>

(* kernel_main between init and the run loop: paging, the heap and the     *)
(* agent.  The heap allocator is locked with interrupts enabled.           *)
work_lock ==
    /\ At("work", "start")
    /\ acquire("ALLOCATOR")
    /\ Phase("locked")
    /\ UNCHANGED <<IF_, hardware, echoed>>

work_unlock ==
    /\ At("work", "locked")
    /\ release("ALLOCATOR")
    /\ Done
    /\ UNCHANGED <<IF_, hardware, echoed>>

Work == work_lock \/ work_unlock

-----------------------------------------------------------------------------
(* Handlers.  All gates are interrupt gates: entry clears the flag. *)

Enter(pc) ==
    /\ stack' = Append(stack, Activation(pc, IF_))
    /\ IF_' = FALSE

(* notify_end_of_interrupt sends a non-specific end of interrupt, which    *)
(* retires the line in service with the highest priority.                  *)
eoi_lock ==
    /\ In(EndsOfInterrupt, "start")
    /\ acquire("PICS")
    /\ Phase("locked")
    /\ UNCHANGED <<IF_, hardware, echoed>>

notify_nothing ==
    /\ In(EndsOfInterrupt, "locked")
    /\ release("PICS")
    /\ Done
    /\ UNCHANGED <<IF_, loaded, irr, isr, kbd, typed, echoed>>
notify_end_of_interrupt ==
    /\ In(EndsOfInterrupt, "locked")
    /\ isr' = IF isr = {} THEN {} ELSE isr \ {Min(isr)}
    /\ release("PICS")
    /\ Done
    /\ UNCHANGED <<IF_, loaded, irr, kbd, typed, echoed>>

kbd_lock ==
    /\ At("kbd_lock", "start")
    /\ acquire("KEYBOARD")
    /\ Done
    /\ UNCHANGED <<IF_, hardware, echoed>>

(* Reading port 0x60 takes the code; the controller raises its line again  *)
(* if it holds another.  A code that decodes to a key is printed.          *)
kbd_read_skipped ==
    /\ At("kbd_read", "start")
    /\ Goto("kbd_eoi")
    /\ UNCHANGED <<IF_, locked, hardware, echoed>>
kbd_read_stale ==
    /\ At("kbd_read", "start")
    /\ kbd # <<>>
    /\ kbd' = Tail(kbd)
    /\ irr' = IF kbd' # <<>> THEN irr \cup {Keyboard} ELSE irr
    /\ Goto(IF Head(kbd) > 0 THEN "kbd_echo" ELSE "kbd_eoi")
    /\ UNCHANGED <<IF_, locked, loaded, isr, typed, echoed>>
kbd_read ==
    /\ At("kbd_read", "start")
    /\ kbd # <<>>
    /\ kbd' = Tail(kbd)
    /\ irr' = IF kbd' # <<>> THEN irr \cup {Keyboard} ELSE irr
    /\ Set([Top EXCEPT !.arg = Head(kbd),
                       !.pc = IF Head(kbd) > 0 THEN "kbd_echo" ELSE "kbd_eoi"])
    /\ UNCHANGED <<IF_, locked, loaded, isr, typed, echoed>>

(* The guard of KEYBOARD is dropped when the handler returns. *)
kbd_unlock_not ==
    /\ At("kbd_unlock", "start")
    /\ Done
    /\ UNCHANGED <<IF_, locked, hardware, echoed>>
kbd_unlock ==
    /\ At("kbd_unlock", "start")
    /\ release("KEYBOARD")
    /\ Done
    /\ UNCHANGED <<IF_, hardware, echoed>>

iretq ==
    /\ At("iret", "start")
    /\ IF_' = Top.ret
    /\ stack' = SubSeq(stack, 1, Len(stack) - 1)
    /\ UNCHANGED <<locked, hardware, echoed>>

Handler == eoi_lock \/ notify_end_of_interrupt \/ kbd_lock \/ kbd_read
           \/ kbd_unlock \/ iretq

-----------------------------------------------------------------------------
(* Exceptions of the main program. *)

Interrupted == Len(stack) > 1

breakpoint ==
    /\ "breakpoint" \in Faults
    /\ ~ Interrupted /\ At("work", "start")
    /\ Enter("breakpoint")
    /\ UNCHANGED <<locked, hardware, echoed>>

page_fault ==
    /\ "page_fault" \in Faults
    /\ ~ Interrupted /\ Top.pc = "work"
    /\ Enter("page_fault")
    /\ UNCHANGED <<locked, hardware, echoed>>

(* panic!, expect or an arithmetic check in kernel_main. *)
panic ==
    /\ "panic" \in Faults
    /\ ~ Interrupted /\ At("work", "start")
    /\ Goto("panic_print")
    /\ UNCHANGED <<IF_, locked, hardware, echoed>>

(* The push of a page fault's frame on the full stack fails: double fault, *)
(* on a stack of its own, whose handler panics.  Any call may overflow.    *)
stack_overflow ==
    /\ "stack_overflow" \in Faults
    /\ ~ Interrupted /\ Top.pc # "hlt_loop"
    /\ {"gdt", "idt"} \subseteq loaded
    /\ Enter("panic_print")
    /\ UNCHANGED <<locked, hardware, echoed>>

Exception == breakpoint \/ page_fault \/ panic \/ stack_overflow

-----------------------------------------------------------------------------
(* Hardware. *)

timer_tick ==
    /\ irr' = irr \cup {Timer}
    /\ UNCHANGED <<stack, IF_, locked, loaded, isr, kbd, typed, echoed>>

other_irq ==
    /\ \E q \in OtherIrqs : irr' = irr \cup {q}
    /\ UNCHANGED <<stack, IF_, locked, loaded, isr, kbd, typed, echoed>>

(* A key is pressed (a character) or released.  The controller raises its  *)
(* line when a code arrives at an empty port.                              *)
key(code) ==
    /\ "pic" \in loaded
    /\ Len(kbd) < KbdSize
    /\ kbd' = Append(kbd, code)
    /\ irr' = IF kbd = <<>> THEN irr \cup {Keyboard} ELSE irr
    /\ typed' = IF code = 0 THEN typed ELSE code
    /\ UNCHANGED <<stack, IF_, locked, loaded, isr, echoed>>

key_pressed == typed < MaxKeys /\ key(typed + 1)
key_released == typed \in 1 .. MaxKeys /\ kbd = <<>> /\ key(0)

(* What the processor runs for a line.  Without tables it resets; with the *)
(* power-on vectors, or for a line without a gate, it double faults.       *)
HandlerOf(q) ==
    CASE ~ ({"gdt", "idt"} \subseteq loaded) -> "reset"
      [] {"gdt", "idt"} \subseteq loaded /\ "pic" \notin loaded -> "panic_print"
      [] loaded = {"gdt", "idt", "pic"} /\ q = Timer -> "timer_eoi"
      [] loaded = {"gdt", "idt", "pic"} /\ q = Keyboard -> "kbd_lock"
      [] OTHER -> "panic_print"

interrupt(q) ==
    /\ IF_
    /\ q \in irr
    /\ \A p \in (irr \ {q}) \cup isr : q < p
    /\ irr' = irr \ {q}
    /\ isr' = isr \cup {q}
    /\ Enter(HandlerOf(q))
    /\ UNCHANGED <<locked, loaded, kbd, typed, echoed>>

Cpu == printing \/ load_table \/ pics_lock \/ pics_initialize \/ enable \/ Work \/ Handler
Environment == timer_tick \/ other_irq \/ key_pressed \/ key_released
Next == Cpu \/ Exception \/ Environment \/ \E q \in Irqs : interrupt(q)

(* The processor executes instructions; an interrupted program goes on     *)
(* when its handlers are done, and a line that is again and again the next *)
(* to be served is served.                                                 *)
Fairness ==
    /\ WF_vars(Cpu)
    /\ SF_vars(~ Interrupted /\ Cpu)
    /\ SF_vars(interrupt(Timer))
    /\ SF_vars(interrupt(Keyboard))

(* The timer ticks 18 times a second: its handler does not always return   *)
(* to another tick.                                                        *)
TimerIsSlow ==
    []<>(Top.pc = "timer_eoi") => []<>(~ Interrupted /\ Timer \notin irr)

Spec == Init /\ [][Next]_vars
LiveSpec == Spec /\ Fairness /\ TimerIsSlow

-----------------------------------------------------------------------------

Tables == {"gdt", "idt", "pic"}
Operations == DOMAIN Follow \cup {"hlt_loop", "kbd_read", "iret"}
KeyboardHandler == {"kbd_lock", "kbd_read", "kbd_echo", "kbd_eoi"}
Positions == 1 .. Len(stack)

(* Type invariant.  "reset" is not an operation: the processor never takes *)
(* an interrupt through tables that are not there.                         *)
TypeOK ==
    /\ stack \in Seq([pc : Operations,
                      phase : {"start", "saved", "masked", "locked", "written"},
                      were : BOOLEAN, ret : BOOLEAN, arg : Nat])
    /\ stack # <<>>
    /\ IF_ \in BOOLEAN
    /\ locked \subseteq Locks
    /\ loaded \subseteq Tables
    /\ irr \subseteq Irqs /\ isr \subseteq Irqs
    /\ kbd \in Seq(Nat) /\ typed \in Nat /\ echoed \in Seq(Nat)

(* The running activation is about to take the lock. *)
Wants(lock) ==
    /\ \/ In(Prints, "masked")
       \/ In(EndsOfInterrupt \cup {"pic", "work", "kbd_lock"}, "start")
    /\ lock = LockOf(Top.pc)

(* The kernel spins on a lock, for ever since there is one processor, only *)
(* if the stack overflowed inside a print: what the comments of _print and *)
(* the handlers' masking are there for.  No interrupt and no other         *)
(* exception ever meets a lock that what it interrupted holds.             *)
SpinsOnlyAfterOverflow ==
    \A lock \in locked :
        Wants(lock) =>
            /\ "stack_overflow" \in Faults
            /\ Len(stack) = 2 /\ Top.pc \in {"panic_print", "panic_log"}
            /\ stack[1].phase = "locked" /\ LockOf(stack[1].pc) = lock

(* A lock that some handler takes is held only with interrupts masked.     *)
(* The heap's lock is not one of them: it is held with interrupts enabled, *)
(* and no handler allocates.                                               *)
MaskedWhileLocked == locked \cap {"WRITER", "SERIAL1", "PICS", "KEYBOARD"} # {} => ~ IF_

(* Handlers do not nest, although the print of the keyboard handler ends   *)
(* with without_interrupts restoring the flag.                             *)
HandlersDoNotNest == Len(stack) <= 2 /\ (Len(stack) = 2 => ~ IF_)

(* A line is in service exactly while its handler has still to send the    *)
(* end of interrupt: none is left in service, which would silence the      *)
(* line, and none is retired for another.                                  *)
InServiceUntilEoi ==
    /\ Timer \in isr <=> \E i \in Positions : stack[i].pc = "timer_eoi"
    /\ Keyboard \in isr <=> \E i \in Positions : stack[i].pc \in KeyboardHandler

(* The flag is set only when GDT, IDT and PIC are set up. *)
EnabledAfterInit == IF_ => loaded = Tables

(* A code waiting at port 0x60 has an interrupt coming: the line is        *)
(* edge-triggered, so a code nobody will come for would block the keyboard *)
(* for ever.                                                               *)
NoLostKey ==
    kbd # <<>> =>
        \/ Keyboard \in irr
        \/ \E i \in Positions : stack[i].pc \in {"kbd_lock", "kbd_read"}

(* Characters are printed once each, in the order typed. *)
EchoedInOrder == \A i \in 1 .. Len(echoed) : echoed[i] = i

(* The machine is in a fatal handler, which never returns and runs with    *)
(* interrupts masked.                                                      *)
Dead == Interrupted /\ Top.pc \in {"page_fault", "panic_print", "panic_log", "hlt_loop"}

(* Every character typed is printed, whatever else the kernel is doing and *)
(* even after a panic of the main program, unless a fatal exception masked *)
(* interrupts for good.                                                    *)
EveryKeyEchoed == \A n \in 1 .. MaxKeys : typed >= n ~> Len(echoed) >= n \/ Dead

(* The main program reaches its run loop, or halts after reporting. *)
ReachesRunLoop == <>(stack[1].pc = "hlt_loop" \/ Dead)

(* "It runs on its own IST stack (index 0) so it can handle stack          *)
(* overflows safely": the panic the double fault handler raises gets       *)
(* through its two prints to the halt loop.                                *)
DoubleFaultReported ==
    (Interrupted /\ Top.pc = "panic_print") ~> (Interrupted /\ Top.pc = "hlt_loop")
=============================================================================
