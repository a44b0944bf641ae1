-------------------------- MODULE InterruptsProofs ---------------------------
(***************************************************************************)
(* The safety properties of Interrupts, for any set of faults, any lines   *)
(* that may be raised, and any number of keys.                             *)
(*                                                                         *)
(* None of them is inductive alone.  IInv ties them together: it says      *)
(* which operations can be at which depth of the stack, who holds each     *)
(* lock, and that a handler that will return has not interrupted anything  *)
(* that holds a lock or has masked interrupts.                             *)
(*                                                                         *)
(* The second half follows a key from port 0x60 to the screen.  KInv adds  *)
(* to IInv where every key that was typed is: printed, in the hand of the  *)
(* handler, or at the port, in order; and that nothing is at the port when *)
(* initialize() clears the requests.                                       *)
(***************************************************************************)
EXTENDS Interrupts, SequenceTheorems, TLAPS

Act == [pc : Operations,
        phase : {"start", "saved", "masked", "locked", "written"},
        were : BOOLEAN, ret : BOOLEAN, arg : Nat]

Booting == {"banner", "boot_log", "gdt", "idt", "pic"}
MainOps == Booting \cup {"sti", "init_log", "work", "alive", "run_log", "hlt_loop",
                         "panic_print", "panic_log"}
Reporting == {"panic_print", "panic_log", "hlt_loop"}
Returning == {"timer_eoi", "kbd_lock", "kbd_read", "kbd_echo", "kbd_eoi",
              "kbd_unlock", "breakpoint", "iret"}
KeyboardHeld == {"kbd_read", "kbd_echo", "kbd_eoi", "kbd_unlock"}

(* A phase other than "start" belongs to an operation with a lock. *)
PhaseOK(a) ==
    \/ a.phase = "start"
    \/ a.pc \in Prints
    \/ a.phase = "locked" /\ a.pc \in EndsOfInterrupt \cup {"pic", "work"}

(* The main program has masked interrupts, or has not enabled them yet and *)
(* holds PICS.                                                             *)
Critical(a) ==
    \/ a.pc \in Prints /\ a.phase \in {"masked", "locked", "written"}
    \/ a.pc = "pic" /\ a.phase = "locked"

(* The lock is held by the activation. *)
Holds(a, lock) ==
    \/ a.pc \in VgaPrints /\ a.phase = "locked" /\ lock = "WRITER"
    \/ a.pc \in SerialPrints /\ a.phase = "locked" /\ lock = "SERIAL1"
    \/ a.pc \in EndsOfInterrupt \cup {"pic"} /\ a.phase = "locked" /\ lock = "PICS"
    \/ a.pc = "work" /\ a.phase = "locked" /\ lock = "ALLOCATOR"
    \/ a.pc \in KeyboardHeld /\ lock = "KEYBOARD"

(* The main program, the bottom of the stack, when these tables are loaded *)
(* and the interrupt flag has this value.                                  *)
MainOK(a, tables, flag) ==
    /\ a.pc \in MainOps
    /\ PhaseOK(a)
    /\ a.pc = "idt" => "gdt" \in tables
    /\ a.pc = "pic" => {"gdt", "idt"} \subseteq tables
    /\ a.pc \notin Booting => tables = Tables
    /\ a.pc \in Booting \cup {"sti"} => flag = FALSE /\ a.were = FALSE
    /\ Critical(a) => flag = FALSE

(* A handler h above the main program m: one that will return interrupted  *)
(* m outside its critical sections, and only the panic of a stack overflow *)
(* may have interrupted it inside one.                                     *)
HandlerOK(m, h) ==
    /\ h.were = FALSE
    /\ PhaseOK(h)
    /\ h.pc \in Reporting \cup Returning \cup {"page_fault"}
    /\ h.pc \in Returning => m.pc \notin Booting \cup {"sti"}
    /\ h.pc = "page_fault" => m.pc = "work"
    /\ Critical(m) => h.pc \in Reporting /\ "stack_overflow" \in Faults

MainInv == MainOK(stack[1], loaded, IF_)

HandlerInv == Len(stack) = 2 => IF_ = FALSE /\ HandlerOK(stack[1], stack[2])

LockInv ==
    \A lock \in Locks :
        /\ lock \in locked <=>
              \/ Holds(stack[1], lock)
              \/ Len(stack) = 2 /\ Holds(stack[2], lock)
        /\ Len(stack) = 2 => ~ (Holds(stack[1], lock) /\ Holds(stack[2], lock))

(* InServiceUntilEoi, of a stack of one or two: the main program serves    *)
(* no line.                                                                *)
ServiceInv ==
    /\ Timer \in isr <=> Len(stack) = 2 /\ stack[2].pc = "timer_eoi"
    /\ Keyboard \in isr <=> Len(stack) = 2 /\ stack[2].pc \in KeyboardHandler

IInv ==
    /\ TypeOK
    /\ Len(stack) \in {1, 2}
    /\ MainInv
    /\ HandlerInv
    /\ LockInv
    /\ ServiceInv

(* The order of the operations, one entry at a time. *)
LEMMA FollowIs ==
    /\ Follow["banner"] = "boot_log" /\ Follow["boot_log"] = "gdt"
    /\ Follow["gdt"] = "idt" /\ Follow["idt"] = "pic" /\ Follow["pic"] = "sti"
    /\ Follow["sti"] = "init_log" /\ Follow["init_log"] = "work"
    /\ Follow["work"] = "alive" /\ Follow["alive"] = "run_log"
    /\ Follow["run_log"] = "hlt_loop" /\ Follow["panic_print"] = "panic_log"
    /\ Follow["panic_log"] = "hlt_loop" /\ Follow["timer_eoi"] = "iret"
    /\ Follow["kbd_lock"] = "kbd_read" /\ Follow["kbd_echo"] = "kbd_eoi"
    /\ Follow["kbd_eoi"] = "kbd_unlock" /\ Follow["kbd_unlock"] = "iret"
    /\ Follow["breakpoint"] = "iret" /\ Follow["page_fault"] = "hlt_loop"
  BY DEF Follow

(* The operations that another one follows. *)
LEMMA FollowDomain ==
    DOMAIN Follow = {"banner", "boot_log", "gdt", "idt", "pic", "sti", "init_log", "work",
                     "alive", "run_log", "panic_print", "panic_log", "timer_eoi", "kbd_lock",
                     "kbd_echo", "kbd_eoi", "kbd_unlock", "breakpoint", "page_fault"}
  BY DEF Follow

(* The names of the operations. *)
LEMMA OperationsAre ==
    Operations = MainOps \cup Returning \cup {"page_fault"}
  BY DEF Operations, Follow, MainOps, Returning, Booting

(* The initial state: the main program at its first print, nothing held,   *)
(* nothing in service.                                                     *)
LEMMA InitIInv == Init => IInv
<1> SUFFICES ASSUME Init PROVE IInv
  OBVIOUS
<1> DEFINE a == Activation("banner", FALSE)
<1>1. a \in Act /\ a.pc = "banner" /\ a.phase = "start" /\ a.were = FALSE
  BY OperationsAre DEF Activation, Act, MainOps, Booting
<1> HIDE DEF a
<1>2. stack = <<a>>
  BY DEF Init, a
<1>3. Len(stack) = 1 /\ stack[1] = a /\ stack \in Seq(Act)
  BY <1>1, <1>2
<1>4. TypeOK
  <2>1. stack \in Seq(Act) /\ stack # <<>>
    BY <1>2, <1>3
  <2>2. /\ IF_ \in BOOLEAN /\ locked \subseteq Locks /\ loaded \subseteq Tables
        /\ irr \subseteq Irqs /\ isr \subseteq Irqs
        /\ kbd \in Seq(Nat) /\ typed \in Nat /\ echoed \in Seq(Nat)
    BY EmptySeq DEF Init
  <2> QED
    BY <2>1, <2>2 DEF TypeOK, Act
<1>5. MainInv
  BY <1>1, <1>3 DEF MainInv, MainOK, Init, MainOps, Booting, PhaseOK, Critical
<1>6. HandlerInv
  <2>1. Len(stack) # 2
    BY <1>3
  <2> QED
    BY <2>1, Zenon DEF HandlerInv
<1>7. LockInv
  BY <1>1, <1>3 DEF LockInv, Init, Holds, KeyboardHeld
<1>8. ServiceInv
  BY <1>1, <1>3 DEF ServiceInv, Init
<1> QED
  BY <1>3, <1>4, <1>5, <1>6, <1>7, <1>8 DEF IInv

-----------------------------------------------------------------------------
(* How a step changes the stack. *)

(* The running activation, and only it, becomes a. *)
TopBecomes(a) ==
    /\ stack' \in Seq(Act)
    /\ Len(stack') = Len(stack)
    /\ stack'[Len(stack)] = a
    /\ Len(stack) = 2 => stack'[1] = stack[1]

(* A new activation a is entered above the main program. *)
Entered(a) ==
    /\ stack' \in Seq(Act)
    /\ Len(stack') = 2
    /\ stack'[1] = stack[1]
    /\ stack'[2] = a

(* Replacing the running activation. *)
LEMMA Replace ==
    ASSUME IInv, NEW a \in Act, Set(a)
    PROVE  TopBecomes(a)
<1>1. stack \in Seq(Act) /\ Len(stack) \in {1, 2} /\ Len(stack) \in 1 .. Len(stack)
  BY DEF IInv, TypeOK, Act
<1> DEFINE s == [stack EXCEPT ![Len(stack)] = a]
<1>2. /\ s \in Seq(Act)
      /\ Len(s) = Len(stack)
      /\ \A j \in 1 .. Len(stack) : s[j] = IF j = Len(stack) THEN a ELSE stack[j]
  BY <1>1, ExceptSeq
<1>3. stack' = s
  BY DEF Set
<1> QED
  BY <1>1, <1>2, <1>3 DEF TopBecomes

(* What is known of the running activation. *)
LEMMA TopIs ==
    ASSUME IInv
    PROVE  /\ Top \in Act
           /\ Len(stack) = 1 => Top = stack[1] /\ MainOK(Top, loaded, IF_)
           /\ Len(stack) = 2 =>
                 /\ Top = stack[2]
                 /\ IF_ = FALSE
                 /\ HandlerOK(stack[1], Top)
           /\ Len(stack) \in {1, 2}
<1>1. stack \in Seq(Act) /\ Len(stack) \in {1, 2} /\ Len(stack) \in 1 .. Len(stack)
  BY DEF IInv, TypeOK, Act
<1>2. Top \in Act
  BY <1>1, ElementOfSeq DEF Top
<1>3. MainInv /\ HandlerInv
  BY DEF IInv
<1> QED
  BY <1>1, <1>2, <1>3 DEF Top, MainInv, HandlerInv

(* Pushing an activation. *)
LEMMA PushIs ==
    ASSUME NEW s \in Seq(Act), NEW a \in Act
    PROVE  /\ Append(s, a) \in Seq(Act)
           /\ Len(Append(s, a)) = Len(s) + 1
           /\ \A i \in 1 .. Len(s) : Append(s, a)[i] = s[i]
           /\ Append(s, a)[Len(s) + 1] = a
  BY AppendProperties

(* Entering a handler above the main program. *)
LEMMA Push ==
    ASSUME NEW a \in Act, stack \in Seq(Act), Len(stack) = 1, stack' = Append(stack, a)
    PROVE  Entered(a)
<1>1. /\ stack' \in Seq(Act)
      /\ Len(stack') = Len(stack) + 1
      /\ \A i \in 1 .. Len(stack) : stack'[i] = stack[i]
      /\ stack'[Len(stack) + 1] = a
  BY PushIs
<1> QED
  BY <1>1 DEF Entered

(* Enter, from the main program. *)
LEMMA EnterStep ==
    ASSUME IInv, Len(stack) = 1, NEW pc \in Operations, Enter(pc)
    PROVE  Entered(Activation(pc, IF_)) /\ IF_' = FALSE
<1>1. stack \in Seq(Act) /\ IF_ \in BOOLEAN
  BY DEF IInv, TypeOK, Act
<1>2. Activation(pc, IF_) \in Act
  BY <1>1 DEF Activation, Act
<1>3. stack' = Append(stack, Activation(pc, IF_)) /\ IF_' = FALSE
  BY DEF Enter
<1> QED
  BY <1>1, <1>2, <1>3, Push

(* The values of the variables other than the stack. *)
RestTyped ==
    /\ IF_ \in BOOLEAN
    /\ locked \subseteq Locks
    /\ loaded \subseteq Tables
    /\ irr \subseteq Irqs /\ isr \subseteq Irqs
    /\ kbd \in Seq(Nat) /\ typed \in Nat /\ echoed \in Seq(Nat)

(* A step of the running activation keeps the invariant if what it becomes *)
(* is allowed where it is, and the locks and lines agree with it.          *)
LEMMA TopStep ==
    ASSUME IInv, NEW b \in Act, TopBecomes(b), RestTyped', LockInv', ServiceInv',
           Len(stack) = 1 => MainOK(b, loaded', IF_'),
           Len(stack) = 2 =>
              /\ IF_' = FALSE
              /\ loaded' = loaded
              /\ HandlerOK(stack[1], b)
    PROVE  IInv'
<1>1. Len(stack) \in {1, 2}
  BY DEF IInv
<1>2. TypeOK' /\ (Len(stack) \in {1, 2})'
  BY <1>1 DEF TopBecomes, RestTyped, TypeOK, Act
<1>3. CASE Len(stack) = 1
  <2>1. stack'[1] = b /\ Len(stack') # 2
    BY <1>3 DEF TopBecomes
  <2>2. MainInv' /\ HandlerInv'
    BY <1>3, <2>1, Zenon DEF MainInv, HandlerInv
  <2> QED
    BY <1>2, <2>2 DEF IInv
<1>4. CASE Len(stack) = 2
  <2>1. stack'[1] = stack[1] /\ stack'[2] = b
    BY <1>4 DEF TopBecomes
  <2>2. IF_ = FALSE /\ MainOK(stack[1], loaded, IF_)
    BY <1>4 DEF IInv, MainInv, HandlerInv
  <2>3. MainInv' /\ HandlerInv'
    BY <1>4, <2>1, <2>2 DEF MainInv, HandlerInv
  <2> QED
    BY <1>2, <2>3 DEF IInv
<1> QED
  BY <1>1, <1>3, <1>4

(* The locks when the running activation takes, keeps or gives back one. *)
LEMMA LocksKept ==
    ASSUME IInv, NEW b \in Act, TopBecomes(b), locked' = locked,
           \A lock \in Locks : Holds(b, lock) <=> Holds(Top, lock)
    PROVE  LockInv'
  BY TopIs DEF IInv, LockInv, TopBecomes

(* Taking: the lock was free, so nobody else holds it. *)
LEMMA LockTaken ==
    ASSUME IInv, NEW b \in Act, TopBecomes(b), NEW l \in Locks, acquire(l),
           \A lock \in Locks : Holds(b, lock) <=> lock = l \/ Holds(Top, lock)
    PROVE  LockInv'
  BY TopIs DEF IInv, LockInv, TopBecomes, acquire

(* Giving back: nobody else held it. *)
LEMMA LockGiven ==
    ASSUME IInv, NEW b \in Act, TopBecomes(b), NEW l \in Locks, release(l), Holds(Top, l),
           \A lock \in Locks : Holds(b, lock) <=> lock # l /\ Holds(Top, lock)
    PROVE  LockInv'
  BY TopIs DEF IInv, LockInv, TopBecomes, release

(* The lines in service when the running activation stays on the same side *)
(* of its end of interrupt.                                                *)
LEMMA ServiceKept ==
    ASSUME IInv, NEW b \in Act, TopBecomes(b), isr' = isr,
           b.pc = "timer_eoi" <=> Top.pc = "timer_eoi",
           b.pc \in KeyboardHandler <=> Top.pc \in KeyboardHandler
    PROVE  ServiceInv'
  BY TopIs DEF IInv, ServiceInv, TopBecomes
-----------------------------------------------------------------------------
(* One lemma per action of the running activation. *)

(* without_interrupts saves the flag: FALSE before init has enabled        *)
(* interrupts, and in a handler.                                           *)
LEMMA PrintSave == ASSUME IInv, print_save PROVE IInv'
<1> DEFINE b == [Top EXCEPT !.phase = "saved", !.were = IF_]
<1>1. /\ Top \in Act /\ Top.pc \in Prints /\ Top.phase = "start"
      /\ IF_ \in BOOLEAN
  BY TopIs DEF print_save, In, IInv, TypeOK
<1>2. b \in Act /\ b.pc = Top.pc /\ b.phase = "saved" /\ b.were = IF_
  BY <1>1 DEF Act
<1>3. TopBecomes(b)
  BY <1>2, Replace DEF print_save
<1> HIDE DEF b
<1>4. RestTyped' /\ UNCHANGED <<IF_, locked, loaded, isr>>
  BY DEF print_save, hardware, RestTyped, IInv, TypeOK
<1>5. LockInv'
  BY <1>1, <1>2, <1>3, <1>4, LocksKept
  DEF Holds, KeyboardHeld, Prints, VgaPrints, SerialPrints
<1>6. ServiceInv'
  BY <1>2, <1>3, <1>4, ServiceKept
<1>7. Len(stack) = 1 => MainOK(b, loaded', IF_')
  BY <1>1, <1>2, <1>4, TopIs DEF MainOK, PhaseOK, Critical
<1>8. Len(stack) = 2 => IF_' = FALSE /\ loaded' = loaded /\ HandlerOK(stack[1], b)
  BY <1>1, <1>2, <1>4, TopIs DEF HandlerOK, PhaseOK
<1> QED
  BY <1>2, <1>3, <1>4, <1>5, <1>6, <1>7, <1>8, TopStep
(* The lock of a print is that of its device. *)
LEMMA PrintLockOf ==
    ASSUME NEW pc \in Prints
    PROVE  /\ pc \in VgaPrints => LockOf(pc) = "WRITER"
           /\ pc \in SerialPrints => LockOf(pc) = "SERIAL1"
           /\ LockOf(pc) \in Locks
  BY DEF LockOf, Prints, VgaPrints, SerialPrints, EndsOfInterrupt, Locks

(* without_interrupts masks interrupts: a critical section begins. *)
LEMMA PrintDisable == ASSUME IInv, print_disable PROVE IInv'
<1> DEFINE b == [Top EXCEPT !.phase = "masked"]
<1>1. Top \in Act /\ Top.pc \in Prints /\ Top.phase = "saved"
  BY TopIs DEF print_disable, In
<1>2. b \in Act /\ b.pc = Top.pc /\ b.phase = "masked" /\ b.were = Top.were
  BY <1>1 DEF Act
<1>3. TopBecomes(b)
  BY <1>2, Replace DEF print_disable, Phase
<1> HIDE DEF b
<1>4. RestTyped' /\ IF_' = FALSE /\ UNCHANGED <<locked, loaded, isr>>
  BY <1>1 DEF print_disable, hardware, RestTyped, IInv, TypeOK
<1>5. LockInv'
  BY <1>1, <1>2, <1>3, <1>4, LocksKept
  DEF Holds, KeyboardHeld, Prints, VgaPrints, SerialPrints
<1>6. ServiceInv'
  BY <1>2, <1>3, <1>4, ServiceKept
<1>7. Len(stack) = 1 => MainOK(b, loaded', IF_')
  BY <1>1, <1>2, <1>4, TopIs DEF MainOK, PhaseOK, Critical
<1>8. Len(stack) = 2 => IF_' = FALSE /\ loaded' = loaded /\ HandlerOK(stack[1], b)
  BY <1>1, <1>2, <1>4, TopIs DEF HandlerOK, PhaseOK
<1> QED
  BY <1>2, <1>3, <1>4, <1>5, <1>6, <1>7, <1>8, TopStep

(* _print takes the device's lock with interrupts masked. *)
LEMMA PrintLock == ASSUME IInv, print_lock PROVE IInv'
<1> DEFINE b == [Top EXCEPT !.phase = "locked"]
<1>1. Top \in Act /\ Top.pc \in Prints /\ Top.phase = "masked" /\ acquire(LockOf(Top.pc))
  BY TopIs DEF print_lock, In
<1>2. b \in Act /\ b.pc = Top.pc /\ b.phase = "locked" /\ b.were = Top.were
  BY <1>1 DEF Act
<1>3. TopBecomes(b)
  BY <1>2, Replace DEF print_lock, Phase
<1> HIDE DEF b
<1>4. RestTyped' /\ UNCHANGED <<IF_, loaded, isr>>
  BY <1>1, PrintLockOf DEF print_lock, hardware, RestTyped, IInv, TypeOK, acquire
<1>5. LockInv'
  BY <1>1, <1>2, <1>3, <1>4, LockTaken, PrintLockOf
  DEF Holds, KeyboardHeld, Prints, VgaPrints, SerialPrints, EndsOfInterrupt
<1>6. ServiceInv'
  BY <1>2, <1>3, <1>4, ServiceKept
<1>7. Len(stack) = 1 => MainOK(b, loaded', IF_')
  BY <1>1, <1>2, <1>4, TopIs DEF MainOK, PhaseOK, Critical
<1>8. Len(stack) = 2 => IF_' = FALSE /\ loaded' = loaded /\ HandlerOK(stack[1], b)
  BY <1>1, <1>2, <1>4, TopIs DEF HandlerOK, PhaseOK
<1> QED
  BY <1>2, <1>3, <1>4, <1>5, <1>6, <1>7, <1>8, TopStep

(* A number appended to a sequence of numbers. *)
LEMMA Echo ==
    ASSUME NEW s \in Seq(Nat), NEW n \in Nat
    PROVE  Append(s, n) \in Seq(Nat)
  BY AppendProperties

(* _print drops the guard, still masked. *)
LEMMA PrintWrite == ASSUME IInv, print_write PROVE IInv'
<1> DEFINE b == [Top EXCEPT !.phase = "written"]
<1>1. Top \in Act /\ Top.pc \in Prints /\ Top.phase = "locked" /\ release(LockOf(Top.pc))
  BY TopIs DEF print_write, In
<1>2. b \in Act /\ b.pc = Top.pc /\ b.phase = "written" /\ b.were = Top.were
  BY <1>1 DEF Act
<1>3. TopBecomes(b)
  BY <1>2, Replace DEF print_write, Phase
<1> HIDE DEF b
<1>4. RestTyped' /\ UNCHANGED <<IF_, loaded, isr>>
  BY <1>1, Echo DEF print_write, hardware, RestTyped, IInv, TypeOK, release, Act
<1>5. LockInv'
  BY <1>1, <1>2, <1>3, <1>4, LockGiven, PrintLockOf
  DEF Holds, KeyboardHeld, Prints, VgaPrints, SerialPrints, EndsOfInterrupt
<1>6. ServiceInv'
  BY <1>2, <1>3, <1>4, ServiceKept
<1>7. Len(stack) = 1 => MainOK(b, loaded', IF_')
  BY <1>1, <1>2, <1>4, TopIs DEF MainOK, PhaseOK, Critical
<1>8. Len(stack) = 2 => IF_' = FALSE /\ loaded' = loaded /\ HandlerOK(stack[1], b)
  BY <1>1, <1>2, <1>4, TopIs DEF HandlerOK, PhaseOK
<1> QED
  BY <1>2, <1>3, <1>4, <1>5, <1>6, <1>7, <1>8, TopStep

(* Every print is followed by an operation. *)
LEMMA PrintFollow == \A pc \in Prints : Follow[pc] \in Operations
  BY FollowIs, OperationsAre
  DEF Prints, VgaPrints, SerialPrints, MainOps, Booting, Returning

(* without_interrupts restores the flag after the guard was dropped. *)
LEMMA PrintRestore == ASSUME IInv, print_restore PROVE IInv'
<1> DEFINE b == [Top EXCEPT !.pc = Follow[Top.pc], !.phase = "start"]
<1>1. /\ Top \in Act /\ Top.pc \in Prints /\ Top.phase = "written"
      /\ IF_ \in BOOLEAN /\ IF_' \in BOOLEAN
      /\ IF_ = FALSE /\ Top.were = FALSE => IF_' = FALSE
  BY TopIs DEF print_restore, In, Act, IInv, TypeOK
<1>2. b \in Act /\ b.pc = Follow[Top.pc] /\ b.phase = "start" /\ b.were = Top.were
  BY <1>1, PrintFollow DEF Act
<1>3. TopBecomes(b)
  BY <1>2, Replace DEF print_restore, Done, Goto
<1> HIDE DEF b
<1>4. RestTyped' /\ UNCHANGED <<locked, loaded, isr>>
  BY <1>1 DEF print_restore, hardware, RestTyped, IInv, TypeOK
<1>5. LockInv'
  BY <1>1, <1>2, <1>3, <1>4, LocksKept, FollowIs
  DEF Holds, Prints, VgaPrints, SerialPrints, EndsOfInterrupt, KeyboardHeld
<1>6. ServiceInv'
  BY <1>1, <1>2, <1>3, <1>4, ServiceKept, FollowIs
  DEF KeyboardHandler, Prints, VgaPrints, SerialPrints
<1>7. Len(stack) = 1 => MainOK(b, loaded', IF_')
  <2> SUFFICES ASSUME Len(stack) = 1 PROVE MainOK(b, loaded', IF_')
    OBVIOUS
  <2>1. /\ MainOK(Top, loaded, IF_)
        /\ Top.pc \in {"banner", "boot_log", "init_log", "alive", "run_log", "panic_print",
                      "panic_log"}
    BY <1>1, TopIs DEF MainOK, MainOps, Booting, Prints, VgaPrints, SerialPrints
  <2>2. /\ b.pc \in {"boot_log", "gdt", "work", "run_log", "panic_log", "hlt_loop"}
        /\ b.pc \in {"boot_log", "gdt"} => Top.pc \in {"banner", "boot_log"}
        /\ Top.pc \in {"banner", "boot_log"} => b.pc \in {"boot_log", "gdt"}
    BY <1>2, <2>1, FollowIs
  <2> QED
    BY <1>1, <1>2, <1>4, <2>1, <2>2 DEF MainOK, PhaseOK, Critical, MainOps, Booting
<1>8. Len(stack) = 2 => IF_' = FALSE /\ loaded' = loaded /\ HandlerOK(stack[1], b)
  <2> SUFFICES ASSUME Len(stack) = 2
               PROVE  IF_' = FALSE /\ loaded' = loaded /\ HandlerOK(stack[1], b)
    OBVIOUS
  <2>1. /\ HandlerOK(stack[1], Top) /\ IF_ = FALSE
        /\ Top.pc \in {"panic_print", "panic_log", "kbd_echo", "breakpoint", "page_fault"}
    BY <1>1, TopIs DEF HandlerOK, Reporting, Returning, Prints, VgaPrints, SerialPrints
  <2>2. /\ b.pc \in {"panic_log", "hlt_loop", "kbd_eoi", "iret"}
        /\ b.pc \in {"kbd_eoi", "iret"} <=> Top.pc \in {"kbd_echo", "breakpoint"}
    BY <1>2, <2>1, FollowIs
  <2> QED
    BY <1>1, <1>2, <1>4, <2>1, <2>2 DEF HandlerOK, PhaseOK, Reporting, Returning
<1> QED
  BY <1>2, <1>3, <1>4, <1>5, <1>6, <1>7, <1>8, TopStep

(* gdt::init and init_idt run in this order, before interrupts are         *)
(* enabled.                                                                *)
LEMMA LoadTable == ASSUME IInv, load_table PROVE IInv'
<1> DEFINE b == [Top EXCEPT !.pc = Follow[Top.pc], !.phase = "start"]
<1>1. Top \in Act /\ Top.pc \in {"gdt", "idt"}
  BY TopIs DEF load_table
<1>2. b \in Act /\ b.pc = Follow[Top.pc] /\ b.phase = "start" /\ b.were = Top.were
  <2>1. Follow[Top.pc] \in Operations
    BY <1>1, FollowIs, OperationsAre DEF MainOps, Booting
  <2> QED
    BY <1>1, <2>1 DEF Act
<1>3. TopBecomes(b)
  BY <1>2, Replace DEF load_table, Done, Goto
<1> HIDE DEF b
<1>4. RestTyped' /\ loaded' = loaded \cup {Top.pc} /\ UNCHANGED <<IF_, locked, isr>>
  BY <1>1 DEF load_table, hardware, RestTyped, IInv, TypeOK, Tables
<1>5. LockInv'
  BY <1>1, <1>2, <1>3, <1>4, LocksKept, FollowIs, TopIs
  DEF Holds, MainOK, HandlerOK, PhaseOK, Prints, VgaPrints, SerialPrints,
      EndsOfInterrupt, KeyboardHeld
<1>6. ServiceInv'
  BY <1>1, <1>2, <1>3, <1>4, ServiceKept, FollowIs DEF KeyboardHandler
<1>7. Len(stack) = 1 => MainOK(b, loaded', IF_')
  <2>1. /\ Top.pc = "gdt" => b.pc = "idt"
        /\ Top.pc = "idt" => b.pc = "pic"
    BY <1>2, FollowIs
  <2>2. Len(stack) = 1 => MainOK(Top, loaded, IF_)
    BY TopIs
  <2> QED
    BY <1>1, <1>2, <1>4, <2>1, <2>2 DEF MainOK, PhaseOK, Critical, MainOps, Booting
<1>8. Len(stack) = 2 => IF_' = FALSE /\ loaded' = loaded /\ HandlerOK(stack[1], b)
  BY <1>1, TopIs DEF HandlerOK, Reporting, Returning
<1> QED
  BY <1>2, <1>3, <1>4, <1>5, <1>6, <1>7, <1>8, TopStep

(* init locks PICS with interrupts not yet enabled. *)
LEMMA PicsLock == ASSUME IInv, pics_lock PROVE IInv'
<1> DEFINE b == [Top EXCEPT !.phase = "locked"]
<1>1. Top \in Act /\ Top.pc = "pic" /\ Top.phase = "start" /\ acquire("PICS")
  BY TopIs DEF pics_lock, At
<1>2. b \in Act /\ b.pc = "pic" /\ b.phase = "locked" /\ b.were = Top.were
  BY <1>1 DEF Act
<1>3. TopBecomes(b)
  BY <1>2, Replace DEF pics_lock, Phase
<1> HIDE DEF b
<1>4. RestTyped' /\ UNCHANGED <<IF_, loaded, isr>>
  BY <1>1 DEF pics_lock, hardware, RestTyped, IInv, TypeOK, acquire, Locks
<1>5. LockInv'
  BY <1>1, <1>2, <1>3, <1>4, LockTaken
  DEF Holds, Locks, Prints, VgaPrints, SerialPrints, EndsOfInterrupt, KeyboardHeld
<1>6. ServiceInv'
  BY <1>1, <1>2, <1>3, <1>4, ServiceKept
<1>7. Len(stack) = 1 => MainOK(b, loaded', IF_')
  BY <1>1, <1>2, <1>4, TopIs DEF MainOK, PhaseOK, Booting
<1>8. Len(stack) = 2 => IF_' = FALSE /\ loaded' = loaded /\ HandlerOK(stack[1], b)
  BY <1>1, TopIs DEF HandlerOK, Reporting, Returning
<1> QED
  BY <1>2, <1>3, <1>4, <1>5, <1>6, <1>7, <1>8, TopStep

(* The PIC is the last of the tables; nothing is in service. *)
LEMMA PicsInitialize == ASSUME IInv, pics_initialize PROVE IInv'
<1> DEFINE b == [Top EXCEPT !.pc = "sti", !.phase = "start"]
<1>1. Top \in Act /\ Top.pc = "pic" /\ Top.phase = "locked" /\ release("PICS")
  BY TopIs DEF pics_initialize, At
<1>2. b \in Act /\ b.pc = "sti" /\ b.phase = "start" /\ b.were = Top.were
  BY <1>1, OperationsAre DEF Act, MainOps, Booting
<1>3. TopBecomes(b)
  BY <1>1, <1>2, Replace, FollowIs DEF pics_initialize, Done, Goto
<1> HIDE DEF b
<1>4. RestTyped' /\ loaded' = loaded \cup {"pic"} /\ isr' = {} /\ UNCHANGED IF_
  BY <1>1 DEF pics_initialize, hardware, RestTyped, IInv, TypeOK, release, Tables
<1>5. LockInv'
  BY <1>1, <1>2, <1>3, <1>4, LockGiven
  DEF Holds, Locks, Prints, VgaPrints, SerialPrints, EndsOfInterrupt, KeyboardHeld
<1>6. ServiceInv'
  BY <1>1, <1>2, <1>3, <1>4, TopIs
  DEF ServiceInv, TopBecomes, HandlerOK, Reporting, Returning
<1>7. Len(stack) = 1 => MainOK(b, loaded', IF_')
  BY <1>1, <1>2, <1>4, TopIs
  DEF MainOK, PhaseOK, Critical, MainOps, Booting, Prints, VgaPrints, SerialPrints, Tables,
      IInv, TypeOK
<1>8. Len(stack) = 2 => IF_' = FALSE /\ loaded' = loaded /\ HandlerOK(stack[1], b)
  BY <1>1, TopIs DEF HandlerOK, Reporting, Returning
<1> QED
  BY <1>2, <1>3, <1>4, <1>5, <1>6, <1>7, <1>8, TopStep

(* enable() comes when all tables are loaded and no lock is held. *)
LEMMA Enable == ASSUME IInv, enable PROVE IInv'
<1> DEFINE b == [Top EXCEPT !.pc = "init_log", !.phase = "start"]
<1>1. Top \in Act /\ Top.pc = "sti" /\ Top.phase = "start"
  BY TopIs DEF enable, At
<1>2. b \in Act /\ b.pc = "init_log" /\ b.phase = "start" /\ b.were = Top.were
  BY <1>1, OperationsAre DEF Act, MainOps
<1>3. TopBecomes(b)
  BY <1>1, <1>2, Replace, FollowIs DEF enable, Done, Goto
<1> HIDE DEF b
<1>4. RestTyped' /\ IF_' = TRUE /\ UNCHANGED <<locked, loaded, isr>>
  BY <1>1 DEF enable, hardware, RestTyped, IInv, TypeOK
<1>5. LockInv'
  BY <1>1, <1>2, <1>3, <1>4, LocksKept
  DEF Holds, Prints, VgaPrints, SerialPrints, EndsOfInterrupt, KeyboardHeld
<1>6. ServiceInv'
  BY <1>1, <1>2, <1>3, <1>4, ServiceKept DEF KeyboardHandler
<1>7. Len(stack) = 1 => MainOK(b, loaded', IF_')
  BY <1>1, <1>2, <1>4, TopIs DEF MainOK, PhaseOK, Critical, MainOps, Booting
<1>8. Len(stack) = 2 => IF_' = FALSE /\ loaded' = loaded /\ HandlerOK(stack[1], b)
  BY <1>1, TopIs DEF HandlerOK, Reporting, Returning
<1> QED
  BY <1>2, <1>3, <1>4, <1>5, <1>6, <1>7, <1>8, TopStep

(* The heap's lock is taken with interrupts enabled. *)
LEMMA WorkLock == ASSUME IInv, work_lock PROVE IInv'
<1> DEFINE b == [Top EXCEPT !.phase = "locked"]
<1>1. Top \in Act /\ Top.pc = "work" /\ Top.phase = "start" /\ acquire("ALLOCATOR")
  BY TopIs DEF work_lock, At
<1>2. b \in Act /\ b.pc = "work" /\ b.phase = "locked" /\ b.were = Top.were
  BY <1>1 DEF Act
<1>3. TopBecomes(b)
  BY <1>2, Replace DEF work_lock, Phase
<1> HIDE DEF b
<1>4. RestTyped' /\ UNCHANGED <<IF_, loaded, isr>>
  BY <1>1 DEF work_lock, hardware, RestTyped, IInv, TypeOK, acquire, Locks
<1>5. LockInv'
  BY <1>1, <1>2, <1>3, <1>4, LockTaken
  DEF Holds, Locks, Prints, VgaPrints, SerialPrints, EndsOfInterrupt, KeyboardHeld
<1>6. ServiceInv'
  BY <1>1, <1>2, <1>3, <1>4, ServiceKept
<1>7. Len(stack) = 1 => MainOK(b, loaded', IF_')
  BY <1>1, <1>2, <1>4, TopIs
  DEF MainOK, PhaseOK, Critical, Booting, Prints, VgaPrints, SerialPrints
<1>8. Len(stack) = 2 => IF_' = FALSE /\ loaded' = loaded /\ HandlerOK(stack[1], b)
  BY <1>1, TopIs DEF HandlerOK, Reporting, Returning
<1> QED
  BY <1>2, <1>3, <1>4, <1>5, <1>6, <1>7, <1>8, TopStep

(* The heap's lock is given back. *)
LEMMA WorkUnlock == ASSUME IInv, work_unlock PROVE IInv'
<1> DEFINE b == [Top EXCEPT !.pc = "alive", !.phase = "start"]
<1>1. Top \in Act /\ Top.pc = "work" /\ Top.phase = "locked" /\ release("ALLOCATOR")
  BY TopIs DEF work_unlock, At
<1>2. b \in Act /\ b.pc = "alive" /\ b.phase = "start" /\ b.were = Top.were
  BY <1>1, OperationsAre DEF Act, MainOps
<1>3. TopBecomes(b)
  BY <1>1, <1>2, Replace, FollowIs DEF work_unlock, Done, Goto
<1> HIDE DEF b
<1>4. RestTyped' /\ UNCHANGED <<IF_, loaded, isr>>
  BY <1>1 DEF work_unlock, hardware, RestTyped, IInv, TypeOK, release
<1>5. LockInv'
  BY <1>1, <1>2, <1>3, <1>4, LockGiven
  DEF Holds, Locks, Prints, VgaPrints, SerialPrints, EndsOfInterrupt, KeyboardHeld
<1>6. ServiceInv'
  BY <1>1, <1>2, <1>3, <1>4, ServiceKept DEF KeyboardHandler
<1>7. Len(stack) = 1 => MainOK(b, loaded', IF_')
  BY <1>1, <1>2, <1>4, TopIs DEF MainOK, PhaseOK, Critical, MainOps, Booting
<1>8. Len(stack) = 2 => IF_' = FALSE /\ loaded' = loaded /\ HandlerOK(stack[1], b)
  BY <1>1, TopIs DEF HandlerOK, Reporting, Returning
<1> QED
  BY <1>2, <1>3, <1>4, <1>5, <1>6, <1>7, <1>8, TopStep

(* A panic of the main program happens outside its locks. *)
LEMMA Panic == ASSUME IInv, panic PROVE IInv'
<1> DEFINE b == [Top EXCEPT !.pc = "panic_print", !.phase = "start"]
<1>1. Top \in Act /\ Top.pc = "work" /\ Top.phase = "start" /\ Len(stack) = 1
  <2>1. Len(stack) = 1 /\ Top \in Act
    BY TopIs DEF panic, Interrupted
  <2> QED
    BY <2>1 DEF panic, At
<1>2. b \in Act /\ b.pc = "panic_print" /\ b.phase = "start" /\ b.were = Top.were
  BY <1>1, OperationsAre DEF Act, MainOps
<1>3. TopBecomes(b)
  BY <1>2, Replace DEF panic, Goto
<1> HIDE DEF b
<1>4. RestTyped' /\ UNCHANGED <<IF_, locked, loaded, isr>>
  BY <1>1 DEF panic, hardware, RestTyped, IInv, TypeOK
<1>5. LockInv'
  BY <1>1, <1>2, <1>3, <1>4, LocksKept
  DEF Holds, Prints, VgaPrints, SerialPrints, EndsOfInterrupt, KeyboardHeld
<1>6. ServiceInv'
  BY <1>1, <1>2, <1>3, <1>4, ServiceKept DEF KeyboardHandler
<1>7. Len(stack) = 1 => MainOK(b, loaded', IF_')
  BY <1>1, <1>2, <1>4, TopIs DEF MainOK, PhaseOK, Critical, MainOps, Booting
<1>8. Len(stack) = 2 => IF_' = FALSE /\ loaded' = loaded /\ HandlerOK(stack[1], b)
  BY <1>1, TopIs DEF HandlerOK, Reporting, Returning
<1> QED
  BY <1>2, <1>3, <1>4, <1>5, <1>6, <1>7, <1>8, TopStep

(* A handler takes PICS, which nothing it can interrupt holds. *)
LEMMA EoiLock == ASSUME IInv, eoi_lock PROVE IInv'
<1> DEFINE b == [Top EXCEPT !.phase = "locked"]
<1>1. Top \in Act /\ Top.pc \in EndsOfInterrupt /\ Top.phase = "start" /\ acquire("PICS")
  BY TopIs DEF eoi_lock, In
<1>2. b \in Act /\ b.pc = Top.pc /\ b.phase = "locked" /\ b.were = Top.were
  BY <1>1 DEF Act
<1>3. TopBecomes(b)
  BY <1>2, Replace DEF eoi_lock, Phase
<1> HIDE DEF b
<1>4. RestTyped' /\ UNCHANGED <<IF_, loaded, isr>>
  BY <1>1 DEF eoi_lock, hardware, RestTyped, IInv, TypeOK, acquire, Locks
<1>5. LockInv'
  BY <1>1, <1>2, <1>3, <1>4, LockTaken
  DEF Holds, Locks, Prints, VgaPrints, SerialPrints, EndsOfInterrupt, KeyboardHeld
<1>6. ServiceInv'
  BY <1>2, <1>3, <1>4, ServiceKept
<1>7. Len(stack) = 1 => MainOK(b, loaded', IF_')
  BY <1>1, TopIs DEF MainOK, MainOps, Booting, EndsOfInterrupt
<1>8. Len(stack) = 2 => IF_' = FALSE /\ loaded' = loaded /\ HandlerOK(stack[1], b)
  BY <1>1, <1>2, <1>4, TopIs DEF HandlerOK, PhaseOK, Reporting, Returning
<1> QED
  BY <1>2, <1>3, <1>4, <1>5, <1>6, <1>7, <1>8, TopStep

(* The line that notify_end_of_interrupt retires is the handler's own. *)
LEMMA Retired ==
    ASSUME IInv, Len(stack) = 2
    PROVE  /\ stack[2].pc = "timer_eoi" => isr # {} /\ Min(isr) = Timer
           /\ stack[2].pc = "kbd_eoi" => isr # {} /\ Min(isr) = Keyboard
<1>1. isr \subseteq {0, 1} \cup 2 .. 15
  BY OtherIrqsAssumption DEF IInv, TypeOK, Irqs, Timer, Keyboard
<1>2. CASE stack[2].pc = "timer_eoi"
  <2>1. 0 \in isr /\ \A y \in isr : 0 =< y
    BY <1>1, <1>2 DEF IInv, ServiceInv, Timer
  <2>2. \A x \in isr : (\A y \in isr : x =< y) => x = 0
    BY <1>1, <2>1
  <2> QED
    BY <1>2, <2>1, <2>2 DEF Min, Timer
<1>3. CASE stack[2].pc = "kbd_eoi"
  <2>1. 1 \in isr /\ \A y \in isr : 1 =< y
    BY <1>1, <1>3 DEF IInv, ServiceInv, Timer, Keyboard, KeyboardHandler
  <2>2. \A x \in isr : (\A y \in isr : x =< y) => x = 1
    BY <1>1, <2>1
  <2> QED
    BY <1>3, <2>1, <2>2 DEF Min, Keyboard
<1> QED
  BY <1>2, <1>3

(* The end of interrupt retires the line of the handler that sends it. *)
LEMMA NotifyEndOfInterrupt == ASSUME IInv, notify_end_of_interrupt PROVE IInv'
<1> DEFINE b == [Top EXCEPT !.pc = Follow[Top.pc], !.phase = "start"]
<1>1. Top \in Act /\ Top.pc \in EndsOfInterrupt /\ Top.phase = "locked" /\ release("PICS")
  BY TopIs DEF notify_end_of_interrupt, In
<1>2. b \in Act /\ b.pc = Follow[Top.pc] /\ b.phase = "start" /\ b.were = Top.were
  <2>1. Follow[Top.pc] \in Operations
    BY <1>1, FollowIs, OperationsAre DEF Returning, EndsOfInterrupt
  <2> QED
    BY <1>1, <2>1 DEF Act
<1>3. TopBecomes(b)
  BY <1>2, Replace DEF notify_end_of_interrupt, Done, Goto
<1> HIDE DEF b
<1>4. RestTyped' /\ UNCHANGED <<IF_, loaded>>
  BY <1>1 DEF notify_end_of_interrupt, hardware, RestTyped, IInv, TypeOK, release
<1>5. LockInv'
  BY <1>1, <1>2, <1>3, <1>4, LockGiven, FollowIs
  DEF Holds, Locks, Prints, VgaPrints, SerialPrints, EndsOfInterrupt, KeyboardHeld
<1>6. ServiceInv'
  <2>1. Len(stack) = 2 /\ Top = stack[2]
    BY <1>1, TopIs DEF MainOK, MainOps, Booting, EndsOfInterrupt
  <2>2. isr' = isr \ {IF Top.pc = "timer_eoi" THEN Timer ELSE Keyboard}
    BY <1>1, <2>1, Retired DEF notify_end_of_interrupt, EndsOfInterrupt
  <2> QED
    BY <1>1, <1>2, <1>3, <2>1, <2>2, FollowIs
    DEF ServiceInv, IInv, TopBecomes, EndsOfInterrupt, KeyboardHandler, Timer, Keyboard
<1>7. Len(stack) = 1 => MainOK(b, loaded', IF_')
  BY <1>1, TopIs DEF MainOK, MainOps, Booting, EndsOfInterrupt
<1>8. Len(stack) = 2 => IF_' = FALSE /\ loaded' = loaded /\ HandlerOK(stack[1], b)
  <2>1. Top.pc \in {"timer_eoi", "kbd_eoi"} /\ b.pc \in {"iret", "kbd_unlock"}
    BY <1>1, <1>2, FollowIs DEF EndsOfInterrupt
  <2> QED
    BY <1>1, <1>2, <1>4, <2>1, TopIs DEF HandlerOK, PhaseOK, Reporting, Returning
<1> QED
  BY <1>2, <1>3, <1>4, <1>5, <1>6, <1>7, <1>8, TopStep

(* The keyboard handler takes KEYBOARD, which only it takes. *)
LEMMA KbdLock == ASSUME IInv, kbd_lock PROVE IInv'
<1> DEFINE b == [Top EXCEPT !.pc = "kbd_read", !.phase = "start"]
<1>1. Top \in Act /\ Top.pc = "kbd_lock" /\ Top.phase = "start" /\ acquire("KEYBOARD")
  BY TopIs DEF kbd_lock, At
<1>2. b \in Act /\ b.pc = "kbd_read" /\ b.phase = "start" /\ b.were = Top.were
  BY <1>1, OperationsAre DEF Act, Returning
<1>3. TopBecomes(b)
  BY <1>1, <1>2, Replace, FollowIs DEF kbd_lock, Done, Goto
<1> HIDE DEF b
<1>4. RestTyped' /\ UNCHANGED <<IF_, loaded, isr>>
  BY <1>1 DEF kbd_lock, hardware, RestTyped, IInv, TypeOK, acquire, Locks
<1>5. LockInv'
  BY <1>1, <1>2, <1>3, <1>4, LockTaken
  DEF Holds, Locks, Prints, VgaPrints, SerialPrints, EndsOfInterrupt, KeyboardHeld
<1>6. ServiceInv'
  BY <1>1, <1>2, <1>3, <1>4, ServiceKept DEF KeyboardHandler
<1>7. Len(stack) = 1 => MainOK(b, loaded', IF_')
  BY <1>1, TopIs DEF MainOK, MainOps, Booting, EndsOfInterrupt
<1>8. Len(stack) = 2 => IF_' = FALSE /\ loaded' = loaded /\ HandlerOK(stack[1], b)
  BY <1>1, <1>2, <1>4, TopIs DEF HandlerOK, PhaseOK, Reporting, Returning
<1> QED
  BY <1>2, <1>3, <1>4, <1>5, <1>6, <1>7, <1>8, TopStep

(* The head and the tail of the codes at the port. *)
LEMMA Port ==
    ASSUME NEW s \in Seq(Nat), s # <<>>
    PROVE  Head(s) \in Nat /\ Tail(s) \in Seq(Nat)
  BY HeadTailProperties

(* The keyboard handler reads the port under its lock. *)
LEMMA KbdRead == ASSUME IInv, kbd_read PROVE IInv'
<1> DEFINE b == [Top EXCEPT !.arg = Head(kbd),
                           !.pc = IF Head(kbd) > 0 THEN "kbd_echo" ELSE "kbd_eoi"]
<1>1. Top \in Act /\ Top.pc = "kbd_read" /\ Top.phase = "start" /\ Head(kbd) \in Nat
  BY TopIs, Port DEF kbd_read, At, IInv, TypeOK
<1>2. b \in Act /\ b.pc \in {"kbd_echo", "kbd_eoi"} /\ b.phase = "start" /\ b.were = Top.were
  BY <1>1, OperationsAre DEF Act, Returning
<1>3. TopBecomes(b)
  BY <1>2, Replace DEF kbd_read
<1> HIDE DEF b
<1>4. RestTyped' /\ UNCHANGED <<IF_, locked, loaded, isr>>
  BY <1>1, Port DEF kbd_read, hardware, RestTyped, IInv, TypeOK, Irqs
<1>5. LockInv'
  BY <1>1, <1>2, <1>3, <1>4, LocksKept
  DEF Holds, Prints, VgaPrints, SerialPrints, EndsOfInterrupt, KeyboardHeld
<1>6. ServiceInv'
  BY <1>1, <1>2, <1>3, <1>4, ServiceKept DEF KeyboardHandler
<1>7. Len(stack) = 1 => MainOK(b, loaded', IF_')
  BY <1>1, TopIs DEF MainOK, MainOps, Booting, EndsOfInterrupt
<1>8. Len(stack) = 2 => IF_' = FALSE /\ loaded' = loaded /\ HandlerOK(stack[1], b)
  BY <1>1, <1>2, <1>4, TopIs DEF HandlerOK, PhaseOK, Reporting, Returning
<1> QED
  BY <1>2, <1>3, <1>4, <1>5, <1>6, <1>7, <1>8, TopStep

(* The keyboard handler drops its guard after the end of interrupt. *)
LEMMA KbdUnlock == ASSUME IInv, kbd_unlock PROVE IInv'
<1> DEFINE b == [Top EXCEPT !.pc = "iret", !.phase = "start"]
<1>1. Top \in Act /\ Top.pc = "kbd_unlock" /\ Top.phase = "start" /\ release("KEYBOARD")
  BY TopIs DEF kbd_unlock, At
<1>2. b \in Act /\ b.pc = "iret" /\ b.phase = "start" /\ b.were = Top.were
  BY <1>1, OperationsAre DEF Act, Returning
<1>3. TopBecomes(b)
  BY <1>1, <1>2, Replace, FollowIs DEF kbd_unlock, Done, Goto
<1> HIDE DEF b
<1>4. RestTyped' /\ UNCHANGED <<IF_, loaded, isr>>
  BY <1>1 DEF kbd_unlock, hardware, RestTyped, IInv, TypeOK, release
<1>5. LockInv'
  BY <1>1, <1>2, <1>3, <1>4, LockGiven
  DEF Holds, Locks, Prints, VgaPrints, SerialPrints, EndsOfInterrupt, KeyboardHeld
<1>6. ServiceInv'
  BY <1>1, <1>2, <1>3, <1>4, ServiceKept DEF KeyboardHandler
<1>7. Len(stack) = 1 => MainOK(b, loaded', IF_')
  BY <1>1, TopIs DEF MainOK, MainOps, Booting, EndsOfInterrupt
<1>8. Len(stack) = 2 => IF_' = FALSE /\ loaded' = loaded /\ HandlerOK(stack[1], b)
  BY <1>1, <1>2, <1>4, TopIs DEF HandlerOK, PhaseOK, Reporting, Returning
<1> QED
  BY <1>2, <1>3, <1>4, <1>5, <1>6, <1>7, <1>8, TopStep

(* The return from a handler. *)
LEMMA Pop ==
    ASSUME NEW s \in Seq(Act), Len(s) = 2
    PROVE  /\ SubSeq(s, 1, 1) \in Seq(Act)
           /\ Len(SubSeq(s, 1, 1)) = 1
           /\ SubSeq(s, 1, 1)[1] = s[1]
<1>1. \A i \in 1 .. 1 : s[i] \in Act
  BY ElementOfSeq
<1> QED
  BY <1>1, SubSeqProperties

(* A handler that returns holds no lock, and the flag it restores is right *)
(* for what it interrupted: a program past init and outside its critical   *)
(* sections.                                                               *)
LEMMA Iretq == ASSUME IInv, iretq PROVE IInv'
<1>1. Top \in Act /\ Top.pc = "iret" /\ Top.phase = "start" /\ IF_' = Top.ret
  BY TopIs DEF iretq, At
<1>2. Len(stack) = 2 /\ Top = stack[2] /\ HandlerOK(stack[1], Top)
  BY <1>1, TopIs DEF MainOK, MainOps, Booting
<1>3. stack' = SubSeq(stack, 1, 1) /\ stack \in Seq(Act)
  BY <1>2 DEF iretq, IInv, TypeOK, Act
<1>4. stack' \in Seq(Act) /\ Len(stack') = 1 /\ stack'[1] = stack[1]
  BY <1>2, <1>3, Pop
<1>5. RestTyped' /\ UNCHANGED <<locked, loaded, isr>>
  BY <1>1 DEF iretq, hardware, RestTyped, IInv, TypeOK, Act
<1>6. TypeOK' /\ (Len(stack) \in {1, 2})'
  <2>1. stack' # <<>>
    BY <1>4, EmptySeq
  <2> QED
    BY <1>4, <1>5, <2>1 DEF RestTyped, TypeOK, Act
<1>7. MainInv'
  BY <1>1, <1>2, <1>4, <1>5
  DEF IInv, MainInv, MainOK, HandlerOK, Reporting, Returning
<1>8. HandlerInv'
  <2>1. Len(stack') # 2
    BY <1>4
  <2> QED
    BY <2>1, Zenon DEF HandlerInv
<1>9. LockInv'
  <2>1. \A lock \in Locks : ~ Holds(stack[2], lock)
    BY <1>1, <1>2 DEF Holds, KeyboardHeld
  <2> QED
    BY <1>2, <1>4, <1>5, <2>1 DEF IInv, LockInv
<1>10. ServiceInv'
  BY <1>1, <1>2, <1>4, <1>5 DEF IInv, ServiceInv, KeyboardHandler
<1> QED
  BY <1>6, <1>7, <1>8, <1>9, <1>10 DEF IInv

(* An exception or an interrupt enters a handler that holds nothing. *)
LEMMA EnteredStep ==
    ASSUME IInv, Len(stack) = 1, NEW pc \in Operations, Enter(pc),
           RestTyped', locked' = locked, loaded' = loaded, ServiceInv',
           HandlerOK(stack[1], Activation(pc, IF_)), pc \notin KeyboardHeld
    PROVE  IInv'
<1> DEFINE b == Activation(pc, IF_)
<1>1. Entered(b) /\ IF_' = FALSE
  BY EnterStep
<1>2. b.phase = "start" /\ b.pc = pc
  BY DEF Activation
<1>3. HandlerOK(stack[1], b)
  OBVIOUS
<1> HIDE DEF b
<1>4. TypeOK' /\ (Len(stack) \in {1, 2})'
  <2>1. stack' \in Seq(Act) /\ Len(stack') = 2
    BY <1>1 DEF Entered
  <2>2. stack' # <<>>
    BY <2>1
  <2> QED
    BY <2>1, <2>2 DEF RestTyped, TypeOK, Act
<1>5. MainInv' /\ HandlerInv'
  BY <1>1, <1>3 DEF IInv, MainInv, MainOK, HandlerInv, Entered
<1>6. \A lock \in Locks : ~ Holds(b, lock)
  BY <1>2 DEF Holds
<1>7. LockInv'
  BY <1>1, <1>6 DEF IInv, LockInv, Entered
<1> QED
  BY <1>4, <1>5, <1>7 DEF IInv

(* The lines in service when a handler is entered that is not for a line. *)
LEMMA ServiceEntered ==
    ASSUME IInv, Len(stack) = 1, NEW pc \in Operations, Enter(pc), isr' = isr,
           pc # "timer_eoi", pc \notin KeyboardHandler
    PROVE  ServiceInv'
<1>1. Entered(Activation(pc, IF_)) /\ Activation(pc, IF_).pc = pc
  BY EnterStep DEF Activation
<1> QED
  BY <1>1 DEF IInv, ServiceInv, Entered

(* The breakpoint exception is raised outside locks. *)
LEMMA Breakpoint == ASSUME IInv, breakpoint PROVE IInv'
<1>1. /\ Len(stack) = 1 /\ Top = stack[1] /\ Top.pc = "work" /\ Top.phase = "start"
      /\ Enter("breakpoint") /\ UNCHANGED <<locked, loaded, isr>>
  <2>1. Len(stack) = 1 /\ Top = stack[1]
    BY TopIs DEF breakpoint, Interrupted
  <2> QED
    BY <2>1 DEF breakpoint, At, hardware
<1>2. "breakpoint" \in Operations
  BY OperationsAre DEF Returning
<1>3. RestTyped'
  BY DEF breakpoint, Enter, hardware, RestTyped, IInv, TypeOK
<1>4. HandlerOK(stack[1], Activation("breakpoint", IF_))
  BY <1>1 DEF HandlerOK, Activation, PhaseOK, Critical, Returning, Booting,
     Prints, VgaPrints, SerialPrints
<1>5. ServiceInv'
  BY <1>1, <1>2, ServiceEntered DEF KeyboardHandler
<1> QED
  BY <1>1, <1>2, <1>3, <1>4, <1>5, EnteredStep DEF KeyboardHeld

(* A page fault may be raised while the heap's lock is held, which its     *)
(* handler does not take.                                                  *)
LEMMA PageFault == ASSUME IInv, page_fault PROVE IInv'
<1>1. /\ Len(stack) = 1 /\ Top = stack[1] /\ Top.pc = "work"
      /\ Enter("page_fault") /\ UNCHANGED <<locked, loaded, isr>>
  BY TopIs DEF page_fault, Interrupted, hardware
<1>2. "page_fault" \in Operations
  BY OperationsAre
<1>3. RestTyped'
  BY DEF page_fault, Enter, hardware, RestTyped, IInv, TypeOK
<1>4. HandlerOK(stack[1], Activation("page_fault", IF_))
  BY <1>1 DEF HandlerOK, Activation, PhaseOK, Critical, Returning,
     Prints, VgaPrints, SerialPrints
<1>5. ServiceInv'
  BY <1>1, <1>2, ServiceEntered DEF KeyboardHandler
<1> QED
  BY <1>1, <1>2, <1>3, <1>4, <1>5, EnteredStep DEF KeyboardHeld

(* A stack overflow may be raised anywhere, locks held or not. *)
LEMMA StackOverflow == ASSUME IInv, stack_overflow PROVE IInv'
<1>1. /\ Len(stack) = 1 /\ "stack_overflow" \in Faults
      /\ Enter("panic_print") /\ UNCHANGED <<locked, loaded, isr>>
  BY TopIs DEF stack_overflow, Interrupted, hardware
<1>2. "panic_print" \in Operations
  BY OperationsAre DEF MainOps
<1>3. RestTyped'
  BY DEF stack_overflow, Enter, hardware, RestTyped, IInv, TypeOK
<1>4. HandlerOK(stack[1], Activation("panic_print", IF_))
  BY <1>1 DEF HandlerOK, Activation, PhaseOK, Reporting, Returning
<1>5. ServiceInv'
  BY <1>1, <1>2, ServiceEntered DEF KeyboardHandler
<1> QED
  BY <1>1, <1>2, <1>3, <1>4, <1>5, EnteredStep DEF KeyboardHeld

(* An interrupt is taken outside critical sections, when the tables are    *)
(* loaded: what runs is the gate of the line.                              *)
LEMMA Interrupt == ASSUME IInv, NEW q \in Irqs, interrupt(q) PROVE IInv'
<1>1. /\ Len(stack) = 1 /\ Top = stack[1] /\ MainOK(stack[1], loaded, TRUE)
      /\ stack[1].pc \notin Booting \cup {"sti"} /\ ~ Critical(stack[1])
      /\ Enter(HandlerOf(q)) /\ isr' = isr \cup {q} /\ UNCHANGED <<locked, loaded>>
  <2>1. IF_ = TRUE
    BY DEF interrupt, IInv, TypeOK
  <2>2. Len(stack) = 1
    BY <2>1, TopIs
  <2> QED
    BY <2>1, <2>2, TopIs DEF interrupt, MainOK
<1>2. HandlerOf(q) = CASE q = Timer -> "timer_eoi" [] q = Keyboard -> "kbd_lock"
                       [] OTHER -> "panic_print"
  <2>1. loaded = {"gdt", "idt", "pic"}
    BY <1>1 DEF MainOK, Tables
  <2> QED
    BY <2>1 DEF HandlerOf, Timer, Keyboard
<1>3. HandlerOf(q) \in {"timer_eoi", "kbd_lock", "panic_print"}
  BY <1>2
<1>4. HandlerOf(q) \in Operations
  BY <1>3, OperationsAre DEF MainOps, Returning
<1>5. RestTyped'
  BY DEF interrupt, Enter, RestTyped, IInv, TypeOK
<1>6. HandlerOK(stack[1], Activation(HandlerOf(q), IF_))
  BY <1>1, <1>3 DEF HandlerOK, Activation, PhaseOK, Reporting, Returning
<1>7. ServiceInv'
  <2>1. Entered(Activation(HandlerOf(q), IF_))
    BY <1>1, <1>4, EnterStep
  <2>2. Activation(HandlerOf(q), IF_).pc = HandlerOf(q)
    BY DEF Activation
  <2>3. Timer \notin isr /\ Keyboard \notin isr /\ Timer # Keyboard
    BY <1>1 DEF IInv, ServiceInv, Timer, Keyboard
  <2>4. /\ HandlerOf(q) = "timer_eoi" <=> q = Timer
        /\ HandlerOf(q) \in KeyboardHandler <=> q = Keyboard
    BY <1>2, <2>3 DEF KeyboardHandler
  <2> QED
    BY <1>1, <2>1, <2>2, <2>3, <2>4 DEF ServiceInv, Entered
<1> QED
  BY <1>1, <1>3, <1>4, <1>5, <1>6, <1>7, EnteredStep DEF KeyboardHeld

(* The devices touch only the requests and the keyboard's port. *)
LEMMA Devices ==
    ASSUME IInv, Environment \/ UNCHANGED vars PROVE IInv'
<1>1. UNCHANGED <<stack, IF_, locked, loaded, isr>>
  BY DEF Environment, timer_tick, other_irq, key_pressed, key_released, key, vars
<1>2. RestTyped
  BY DEF RestTyped, IInv, TypeOK
<1>3. RestTyped'
  <2>1. CASE timer_tick \/ other_irq \/ UNCHANGED vars
    BY <1>2, <2>1 DEF timer_tick, other_irq, vars, RestTyped, Irqs
  <2>2. CASE key_pressed \/ key_released
    <3>1. PICK code \in Nat : key(code)
      BY <1>2, <2>2 DEF key_pressed, key_released, RestTyped
    <3>2. kbd' \in Seq(Nat) /\ typed' \in Nat /\ irr' \subseteq Irqs
      BY <1>2, <3>1, Echo DEF key, RestTyped, Irqs
    <3> QED
      BY <1>2, <3>1, <3>2 DEF key, RestTyped
  <2> QED
    BY <2>1, <2>2 DEF Environment
<1> QED
  BY <1>1, <1>3 DEF IInv, TypeOK, RestTyped, MainInv, HandlerInv, LockInv, ServiceInv

(* Every step keeps the invariant. *)
LEMMA StepIInv == IInv /\ [Next]_vars => IInv'
<1> SUFFICES ASSUME IInv, [Next]_vars PROVE IInv'
  OBVIOUS
<1>1. CASE Cpu
  BY <1>1, PrintSave, PrintDisable, PrintLock, PrintWrite, PrintRestore, LoadTable,
     PicsLock, PicsInitialize, Enable, WorkLock, WorkUnlock, EoiLock,
     NotifyEndOfInterrupt, KbdLock, KbdRead, KbdUnlock, Iretq
  DEF Cpu, printing, Work, Handler
<1>2. CASE Exception
  BY <1>2, Breakpoint, PageFault, Panic, StackOverflow DEF Exception
<1>3. CASE \E q \in Irqs : interrupt(q)
  BY <1>3, Interrupt
<1>4. CASE Environment \/ UNCHANGED vars
  BY <1>4, Devices
<1> QED
  BY <1>1, <1>2, <1>3, <1>4 DEF Next

(* The inductive invariant holds in every state. *)
THEOREM Inductive == Spec => []IInv
  BY InitIInv, StepIInv, PTL DEF Spec
-----------------------------------------------------------------------------
(* The properties. *)

(* Whatever interrupts, faults and keys come, the stack holds activations  *)
(* at known operations: in particular no interrupt is taken through tables *)
(* that are not loaded.                                                    *)
THEOREM TypeCorrect == Spec => []TypeOK
<1>1. IInv => TypeOK
  BY DEF IInv
<1> QED
  BY <1>1, Inductive, PTL

(* Interrupt handlers never nest, and run with interrupts masked to their  *)
(* end: _print's without_interrupts never enables them inside a handler.   *)
THEOREM HandlersDoNotNestHolds == Spec => []HandlersDoNotNest
<1>1. IInv => HandlersDoNotNest
  BY DEF IInv, HandlerInv, HandlersDoNotNest
<1> QED
  BY <1>1, Inductive, PTL

(* init() enables interrupts only after GDT, IDT and PIC are set up, and   *)
(* no print before that enables them.                                      *)
THEOREM EnabledAfterInitHolds == Spec => []EnabledAfterInit
<1>1. IInv => EnabledAfterInit
  BY DEF IInv, MainInv, MainOK, EnabledAfterInit
<1> QED
  BY <1>1, Inductive, PTL

(* The locks handlers take (WRITER, SERIAL1, PICS, KEYBOARD) are held only *)
(* with interrupts masked.                                                 *)
THEOREM MaskedWhileLockedHolds == Spec => []MaskedWhileLocked
<1>1. IInv => MaskedWhileLocked
  <2> SUFFICES ASSUME IInv, NEW lock \in locked \cap {"WRITER", "SERIAL1", "PICS", "KEYBOARD"}
               PROVE  IF_ = FALSE
    BY DEF MaskedWhileLocked
  <2>1. CASE Len(stack) = 2
    BY <2>1, TopIs
  <2>2. CASE Len(stack) = 1
    <3>1. Holds(stack[1], lock) /\ MainOK(stack[1], loaded, IF_)
      BY <2>2 DEF IInv, LockInv, MainInv, Locks
    <3>2. Critical(stack[1])
      BY <3>1 DEF Holds, Critical, MainOK, MainOps, Booting, KeyboardHeld,
         EndsOfInterrupt, Prints
    <3> QED
      BY <3>1, <3>2 DEF MainOK
  <2> QED
    BY <2>1, <2>2, TopIs
<1> QED
  BY <1>1, Inductive, PTL

(* The positions of a stack of one or two. *)
LEMMA OneOrTwo ==
    ASSUME NEW n \in {1, 2}
    PROVE  /\ 1 \in 1 .. n
           /\ n = 2 => 2 \in 1 .. n
           /\ \A i \in 1 .. n : i = 1 \/ (n = 2 /\ i = 2)
  OBVIOUS

(* A line is in service exactly while its handler has still to send the    *)
(* end of interrupt, whatever other lines are in service: the non-specific *)
(* command of notify_end_of_interrupt always retires the handler's own.    *)
THEOREM InServiceUntilEoiHolds == Spec => []InServiceUntilEoi
<1>1. IInv => InServiceUntilEoi
  <2> SUFFICES ASSUME IInv PROVE InServiceUntilEoi
    OBVIOUS
  <2>1. stack[1].pc # "timer_eoi" /\ stack[1].pc \notin KeyboardHandler
    BY DEF IInv, MainInv, MainOK, MainOps, Booting, KeyboardHandler
  <2>2. /\ 1 \in Positions
        /\ Len(stack) = 2 => 2 \in Positions
        /\ \A i \in Positions : i = 1 \/ (Len(stack) = 2 /\ i = 2)
    <3>1. Len(stack) \in {1, 2}
      BY DEF IInv
    <3> QED
      BY <3>1, OneOrTwo DEF Positions
  <2> QED
    BY <2>1, <2>2 DEF IInv, ServiceInv, InServiceUntilEoi
<1> QED
  BY <1>1, Inductive, PTL

(* The kernel spins for ever on a lock only after a stack overflow inside  *)
(* a print or the set-up of the PIC: no interrupt, breakpoint, page fault  *)
(* or panic meets a lock held by what it interrupted.                      *)
THEOREM SpinsOnlyAfterOverflowHolds == Spec => []SpinsOnlyAfterOverflow
<1>1. IInv => SpinsOnlyAfterOverflow
  <2> SUFFICES ASSUME IInv, NEW lock \in locked, Wants(lock)
               PROVE  /\ "stack_overflow" \in Faults
                      /\ Len(stack) = 2 /\ Top.pc \in {"panic_print", "panic_log"}
                      /\ stack[1].phase = "locked" /\ LockOf(stack[1].pc) = lock
    BY DEF SpinsOnlyAfterOverflow
  <2>1. /\ \/ Top.pc \in Prints /\ Top.phase = "masked"
           \/ Top.pc \in EndsOfInterrupt \cup {"pic", "work", "kbd_lock"} /\ Top.phase = "start"
        /\ lock = LockOf(Top.pc)
    BY DEF Wants, In
  <2>2. ~ Holds(Top, lock)
    BY <2>1
    DEF Holds, KeyboardHeld, LockOf, Prints, VgaPrints, SerialPrints, EndsOfInterrupt
  <2>3. Len(stack) = 2 /\ Top = stack[2] /\ Holds(stack[1], lock)
    BY <2>2, TopIs DEF IInv, LockInv, TypeOK
  <2>4. MainOK(stack[1], loaded, IF_) /\ HandlerOK(stack[1], Top)
    BY <2>3, TopIs DEF IInv, MainInv
  <2>5. lock # "ALLOCATOR"
    BY <2>1, <2>3, <2>4
    DEF LockOf, HandlerOK, Reporting, Returning, VgaPrints, SerialPrints, EndsOfInterrupt, Prints
  <2>6. Critical(stack[1]) /\ stack[1].phase = "locked" /\ LockOf(stack[1].pc) = lock
    BY <2>3, <2>4, <2>5
    DEF Holds, Critical, LockOf, MainOK, MainOps, Booting, KeyboardHeld,
        EndsOfInterrupt, Prints, VgaPrints, SerialPrints
  <2> QED
    BY <2>1, <2>3, <2>4, <2>6
    DEF HandlerOK, Reporting, Prints, VgaPrints, SerialPrints, EndsOfInterrupt
<1> QED
  BY <1>1, Inductive, PTL

-----------------------------------------------------------------------------
(* The handler has read a key and not printed it yet. *)
InHand(a) == a.pc = "kbd_echo" /\ a.phase # "written"

(* The handler has still to read the port. *)
WillRead(a) == a.pc \in {"kbd_lock", "kbd_read"}

Holding == Len(stack) = 2 /\ InHand(stack[2])
Held == IF Len(stack) = 2 /\ InHand(stack[2]) THEN 1 ELSE 0

(* A released key, the only code of 0, can only be first. *)
Released == IF kbd # <<>> /\ kbd[1] = 0 THEN 1 ELSE 0

PortInv ==
    /\ stack[1].pc \in Booting => kbd = <<>> /\ "pic" \notin loaded
    /\ kbd # <<>> => Keyboard \in irr \/ (Len(stack) = 2 /\ WillRead(stack[2]))

OrderInv ==
    /\ \A i \in 1 .. Len(kbd) : kbd[i] = (typed - Len(kbd)) + i \/ (i = 1 /\ kbd[i] = 0)
    /\ Len(echoed) + Held = (typed - Len(kbd)) + Released
    /\ Holding => stack[2].arg = Len(echoed) + 1
    /\ \A i \in 1 .. Len(echoed) : echoed[i] = i

KInv == PortInv /\ OrderInv

(* Nothing was typed before the start. *)
LEMMA InitKInv == Init => KInv
<1> SUFFICES ASSUME Init PROVE KInv
  OBVIOUS
<1>1. Len(stack) = 1
  BY DEF Init
<1>2. kbd = <<>> /\ echoed = <<>> /\ loaded = {}
  BY DEF Init
<1>3. Len(kbd) = 0 /\ Len(echoed) = 0 /\ typed = 0
  BY DEF Init
<1>4. PortInv
  BY <1>2 DEF PortInv
<1>5. ~ Holding
  BY <1>1 DEF Holding
<1>6. Held = 0 /\ Released = 0
  BY <1>1, <1>2 DEF Held, Released
<1>7. OrderInv
  <2>1. Holding => stack[2].arg = Len(echoed) + 1
    BY <1>5, Zenon
  <2>2. Len(echoed) + Held = (typed - Len(kbd)) + Released
    BY <1>6, <1>3
  <2> QED
    BY <1>3, <2>1, <2>2 DEF OrderInv
<1> QED
  BY <1>4, <1>7 DEF KInv

(* A step of the running activation that leaves the port and the screen    *)
(* alone.                                                                  *)
LEMMA TopKept ==
    ASSUME IInv, KInv, NEW b \in Act, TopBecomes(b), UNCHANGED <<irr, kbd, typed, echoed>>,
           b.pc \in Booting => Top.pc \in Booting /\ ("pic" \in loaded' => "pic" \in loaded),
           Len(stack) = 2 => loaded' = loaded,
           Len(stack) = 2 /\ WillRead(Top) => WillRead(b),
           Len(stack) = 2 => (InHand(b) <=> InHand(Top)) /\ b.arg = Top.arg
    PROVE  KInv'
<1>1. Len(stack) \in {1, 2} /\ Len(stack') = Len(stack)
  BY DEF IInv, TopBecomes
<1>2. CASE Len(stack) = 1
  <2>1. stack'[1] = b /\ Top = stack[1] /\ Len(stack') # 2
    BY <1>2, TopIs DEF TopBecomes
  <2>2. ~ Holding /\ ~ Holding' /\ Held = 0 /\ Held' = 0 /\ Released' = Released
    BY <1>2, <2>1 DEF Holding, Held, Released
  <2>3. PortInv'
    BY <1>2, <2>1 DEF KInv, PortInv
  <2>4. OrderInv'
    BY <2>2 DEF KInv, OrderInv
  <2> QED
    BY <2>3, <2>4 DEF KInv
<1>3. CASE Len(stack) = 2
  <2>1. stack'[1] = stack[1] /\ stack'[2] = b /\ Top = stack[2] /\ Len(stack') = 2
    BY <1>1, <1>3, TopIs DEF TopBecomes
  <2>2. /\ (Holding' <=> Holding) /\ Held' = Held /\ Released' = Released
        /\ stack'[2].arg = stack[2].arg
    BY <1>3, <2>1 DEF Holding, Held, Released
  <2>3. PortInv'
    BY <1>3, <2>1 DEF KInv, PortInv
  <2>4. OrderInv'
    BY <2>2 DEF KInv, OrderInv
  <2> QED
    BY <2>3, <2>4 DEF KInv
<1> QED
  BY <1>1, <1>2, <1>3

(* A new activation is entered above the main program. *)
LEMMA EnterKept ==
    ASSUME IInv, KInv, Len(stack) = 1, NEW pc \in Operations, Enter(pc), pc # "kbd_echo",
           UNCHANGED <<loaded, kbd, typed, echoed>>,
           kbd # <<>> => Keyboard \in irr' \/ pc = "kbd_lock"
    PROVE  KInv'
<1> DEFINE a == Activation(pc, IF_)
<1>1. Entered(a)
  BY EnterStep
<1>2. a.pc = pc
  BY DEF Activation
<1> HIDE DEF a
<1>3. stack'[1] = stack[1] /\ stack'[2] = a /\ Len(stack') = 2
  BY <1>1 DEF Entered
<1>4. ~ Holding /\ ~ Holding' /\ Held = 0 /\ Held' = 0 /\ Released' = Released
  BY <1>2, <1>3 DEF Holding, Held, Released, InHand
<1>5. PortInv'
  BY <1>2, <1>3 DEF KInv, PortInv, WillRead
<1>6. OrderInv'
  BY <1>4 DEF KInv, OrderInv
<1> QED
  BY <1>5, <1>6 DEF KInv

-----------------------------------------------------------------------------
(* The steps that neither read the port nor print a key. *)

(* A print, but for the write of a key. *)
LEMMA PrintKept ==
    ASSUME IInv, KInv,
           print_save \/ print_disable \/ print_lock \/ (print_write /\ Top.pc # "kbd_echo")
    PROVE  KInv'
<1>1. PICK b : /\ Set(b) /\ b \in Act /\ b.pc = Top.pc /\ b.arg = Top.arg
               /\ b.phase = "written" => Top.pc # "kbd_echo"
  <2>1. Top \in Act /\ IF_ \in BOOLEAN
    BY TopIs DEF IInv, TypeOK
  <2>2. CASE print_save
    <3> DEFINE b == [Top EXCEPT !.phase = "saved", !.were = IF_]
    <3>1. b \in Act /\ b.pc = Top.pc /\ b.arg = Top.arg /\ b.phase = "saved"
      BY <2>1 DEF Act
    <3>2. Set(b)
      BY <2>2 DEF print_save
    <3> QED
      BY <3>1, <3>2
  <2>3. CASE \E p \in {"masked", "locked", "written"} :
                Phase(p) /\ (p = "written" => Top.pc # "kbd_echo")
    <3>1. PICK p \in {"masked", "locked", "written"} :
                Phase(p) /\ (p = "written" => Top.pc # "kbd_echo")
      BY <2>3
    <3> DEFINE b == [Top EXCEPT !.phase = p]
    <3>2. b \in Act /\ b.pc = Top.pc /\ b.arg = Top.arg /\ b.phase = p
      BY <2>1 DEF Act
    <3>3. Set(b)
      BY <3>1 DEF Phase
    <3> QED
      BY <3>1, <3>2, <3>3
  <2> QED
    BY <2>2, <2>3 DEF print_disable, print_lock, print_write
<1>2. Top.phase # "written"
  BY DEF print_save, print_disable, print_lock, print_write, In
<1>3. TopBecomes(b)
  BY <1>1, Replace
<1>4. UNCHANGED <<loaded, irr, kbd, typed, echoed>>
  BY DEF print_save, print_disable, print_lock, print_write, hardware
<1> QED
  BY <1>1, <1>2, <1>3, <1>4, TopKept DEF WillRead, InHand

(* The operations that follow, in a handler, one that is not a read. *)
LEMMA DoneKept ==
    ASSUME IInv, KInv, Done, UNCHANGED <<irr, kbd, typed, echoed>>,
           Top.pc \in DOMAIN Follow, Top.pc # "pic",
           Top.pc = "kbd_echo" => Top.phase = "written",
           Top.pc \notin {"gdt", "idt"} => loaded' = loaded,
           Top.pc \in {"gdt", "idt"} => loaded' = loaded \cup {Top.pc}
    PROVE  KInv'
<1> DEFINE b == [Top EXCEPT !.pc = Follow[Top.pc], !.phase = "start"]
<1>1. Top \in Act
  BY TopIs
<1>2. Follow[Top.pc] \in Operations
  BY FollowIs, FollowDomain, OperationsAre DEF MainOps, Booting, Returning
<1>3. b \in Act /\ b.pc = Follow[Top.pc] /\ b.phase = "start" /\ b.arg = Top.arg
  BY <1>1, <1>2 DEF Act
<1>4. TopBecomes(b)
  BY <1>3, Replace DEF Done, Goto
<1> HIDE DEF b
<1>5. /\ b.pc \in Booting => Top.pc \in Booting
      /\ WillRead(Top) /\ Top.pc # "kbd_read" => WillRead(b)
      /\ ~ InHand(b) /\ ~ InHand(Top)
  <2>1. b.pc # "kbd_echo"
    BY <1>3, FollowIs, FollowDomain
  <2>2. WillRead(Top) /\ Top.pc # "kbd_read" => WillRead(b)
    BY <1>3, FollowIs DEF WillRead
  <2>3. b.pc \in Booting => Top.pc \in Booting
    BY <1>3, FollowIs, FollowDomain DEF Booting
  <2> QED
    BY <2>1, <2>2, <2>3 DEF InHand
<1>6. Top.pc # "kbd_read"
  BY FollowDomain
<1>7. Len(stack) = 2 => Top.pc \notin {"gdt", "idt"}
  BY TopIs DEF HandlerOK, Reporting, Returning
<1> QED
  BY <1>3, <1>4, <1>5, <1>6, <1>7, TopKept

(* The operations done in one step, and the last step of the others. *)
LEMMA OperationKept ==
    ASSUME IInv, KInv,
           \/ print_restore \/ load_table \/ enable \/ work_unlock
           \/ notify_end_of_interrupt \/ kbd_lock \/ kbd_unlock
    PROVE  KInv'
<1>1. CASE print_restore
  BY <1>1, DoneKept
  DEF print_restore, In, hardware, Prints, VgaPrints, SerialPrints, Follow
<1>2. CASE load_table
  BY <1>2, DoneKept DEF load_table, Follow
<1>3. CASE enable
  BY <1>3, DoneKept DEF enable, At, hardware, Follow
<1>4. CASE work_unlock
  BY <1>4, DoneKept DEF work_unlock, At, hardware, Follow
<1>5. CASE notify_end_of_interrupt
  BY <1>5, DoneKept DEF notify_end_of_interrupt, In, EndsOfInterrupt, Follow
<1>6. CASE kbd_lock
  BY <1>6, DoneKept DEF kbd_lock, At, hardware, Follow
<1>7. CASE kbd_unlock
  BY <1>7, DoneKept DEF kbd_unlock, At, hardware, Follow
<1> QED
  BY <1>1, <1>2, <1>3, <1>4, <1>5, <1>6, <1>7

(* Taking a lock, and the panic of the main program. *)
LEMMA LockKept ==
    ASSUME IInv, KInv, pics_lock \/ work_lock \/ eoi_lock \/ panic
    PROVE  KInv'
<1>1. /\ Top \in Act
      /\ Top.pc \in {"pic", "work"} \cup EndsOfInterrupt /\ Top.phase = "start"
  BY TopIs DEF pics_lock, work_lock, eoi_lock, panic, At, In
<1>2. CASE pics_lock \/ work_lock \/ eoi_lock
  <2> DEFINE b == [Top EXCEPT !.phase = "locked"]
  <2>1. b \in Act /\ b.pc = Top.pc /\ b.arg = Top.arg
    BY <1>1 DEF Act
  <2>2. TopBecomes(b)
    BY <1>2, <2>1, Replace DEF pics_lock, work_lock, eoi_lock, Phase
  <2>3. UNCHANGED <<loaded, irr, kbd, typed, echoed>>
    BY <1>2 DEF pics_lock, work_lock, eoi_lock, hardware
  <2> HIDE DEF b
  <2> QED
    BY <1>1, <2>1, <2>2, <2>3, TopKept DEF EndsOfInterrupt, InHand, WillRead
<1>3. CASE panic
  <2> DEFINE b == [Top EXCEPT !.pc = "panic_print", !.phase = "start"]
  <2>1. b \in Act /\ b.pc = "panic_print"
    BY <1>1, OperationsAre DEF Act, MainOps
  <2>2. TopBecomes(b)
    BY <1>3, <2>1, Replace DEF panic, Goto
  <2>3. UNCHANGED <<loaded, irr, kbd, typed, echoed>>
    BY <1>3 DEF panic, hardware
  <2>4. Len(stack) # 2
    BY <1>3 DEF panic, Interrupted
  <2> HIDE DEF b
  <2> QED
    BY <2>1, <2>2, <2>3, <2>4, TopKept DEF Booting
<1> QED
  BY <1>2, <1>3

-----------------------------------------------------------------------------
(* The steps that move a key. *)

(* A number appended to a sequence of numbers is its last element. *)
LEMMA AppendIs ==
    ASSUME NEW s \in Seq(Nat), NEW n \in Nat
    PROVE  /\ Append(s, n) # <<>>
           /\ Len(Append(s, n)) = Len(s) + 1
           /\ \A i \in 1 .. Len(s) : Append(s, n)[i] = s[i]
           /\ Append(s, n)[Len(s) + 1] = n
  BY AppendProperties

(* The rest of a sequence of numbers after its first element. *)
LEMMA TailIs ==
    ASSUME NEW s \in Seq(Nat), s # <<>>
    PROVE  /\ Len(s) \in Nat \ {0} /\ Head(s) = s[1] /\ s[1] \in Nat
           /\ Tail(s) \in Seq(Nat) /\ Len(Tail(s)) = Len(s) - 1
           /\ \A i \in 1 .. Len(Tail(s)) : Tail(s)[i] = s[i + 1]
           /\ Tail(s) # <<>> => Len(Tail(s)) > 0
<1>1. Len(s) \in Nat \ {0}
  BY EmptySeq
<1> QED
  BY <1>1, HeadTailProperties, EmptySeq, ElementOfSeq

(* The handler prints the key it read. *)
LEMMA EchoKept ==
    ASSUME IInv, KInv, print_write, Top.pc = "kbd_echo"
    PROVE  KInv'
<1> DEFINE b == [Top EXCEPT !.phase = "written"]
<1>1. Top \in Act /\ Top.phase = "locked" /\ Top.arg \in Nat
  BY TopIs DEF print_write, In, Act
<1>2. b \in Act /\ b.pc = "kbd_echo" /\ b.phase = "written"
  BY <1>1 DEF Act
<1>3. TopBecomes(b)
  BY <1>2, Replace DEF print_write, Phase
<1> HIDE DEF b
<1>4. Len(stack) = 2 /\ Top = stack[2]
  BY TopIs DEF MainOK, MainOps, Booting
<1>5. stack'[1] = stack[1] /\ stack'[2] = b /\ Len(stack') = 2
  BY <1>3, <1>4 DEF TopBecomes
<1>6. Holding /\ Held = 1
  BY <1>1, <1>4 DEF Holding, Held, InHand
<1>7. ~ Holding'
  BY <1>2, <1>5 DEF Holding, InHand
<1>8. Held' = 0
  BY <1>2, <1>5 DEF Held, InHand
<1>9. /\ UNCHANGED <<loaded, irr, kbd, typed>>
      /\ echoed' = Append(echoed, Top.arg) /\ echoed \in Seq(Nat) /\ Len(echoed) \in Nat
  BY DEF print_write, hardware, IInv, TypeOK
<1>10. Top.arg = Len(echoed) + 1
  BY <1>4, <1>6 DEF KInv, OrderInv
<1>11. /\ Len(echoed') = Len(echoed) + 1
       /\ \A i \in 1 .. Len(echoed) : echoed'[i] = echoed[i]
       /\ echoed'[Len(echoed) + 1] = Len(echoed) + 1
  BY <1>1, <1>9, <1>10, AppendIs
<1>12. PortInv'
  BY <1>4, <1>5, <1>9 DEF KInv, PortInv, WillRead
<1>13. OrderInv'
  <2>1. Released' = Released
    BY <1>9 DEF Released
  <2>2. \A i \in 1 .. Len(echoed') : echoed'[i] = i
    BY <1>9, <1>11 DEF KInv, OrderInv
  <2>3. Len(echoed') + Held' = (typed' - Len(kbd')) + Released'
    BY <1>6, <1>8, <1>9, <1>11, <2>1 DEF KInv, OrderInv
  <2>4. \A i \in 1 .. Len(kbd') :
           kbd'[i] = (typed' - Len(kbd')) + i \/ (i = 1 /\ kbd'[i] = 0)
    BY <1>9 DEF KInv, OrderInv
  <2> QED
    BY <1>7, <2>2, <2>3, <2>4, Zenon DEF OrderInv
<1> QED
  BY <1>12, <1>13 DEF KInv

(* Reading the port takes the oldest code; a key that is not printed yet   *)
(* is the next to print.                                                   *)
LEMMA ReadKept == ASSUME IInv, KInv, kbd_read PROVE KInv'
<1> DEFINE b == [Top EXCEPT !.arg = Head(kbd),
                           !.pc = IF Head(kbd) > 0 THEN "kbd_echo" ELSE "kbd_eoi"]
<1>1. /\ kbd \in Seq(Nat) /\ kbd # <<>> /\ typed \in Nat /\ Len(echoed) \in Nat
      /\ Top \in Act /\ Top.pc = "kbd_read" /\ Top.phase = "start"
  <2>1. kbd \in Seq(Nat) /\ kbd # <<>> /\ typed \in Nat /\ Len(echoed) \in Nat
    BY DEF kbd_read, IInv, TypeOK
  <2> QED
    BY <2>1, TopIs DEF kbd_read, At
<1>2. /\ Len(kbd) \in Nat \ {0} /\ Head(kbd) = kbd[1] /\ kbd[1] \in Nat
      /\ Len(kbd') = Len(kbd) - 1
      /\ \A i \in 1 .. Len(kbd') : kbd'[i] = kbd[i + 1]
      /\ kbd' # <<>> => Len(kbd') > 0
  BY <1>1, TailIs DEF kbd_read
<1>3. /\ b \in Act /\ b.arg = kbd[1] /\ b.phase = "start"
      /\ b.pc = IF kbd[1] > 0 THEN "kbd_echo" ELSE "kbd_eoi"
  BY <1>1, <1>2, OperationsAre DEF Act, Returning
<1>4. TopBecomes(b)
  BY <1>3, Replace DEF kbd_read
<1> HIDE DEF b
<1>5. Len(stack) = 2 /\ Top = stack[2]
  BY <1>1, TopIs DEF MainOK, MainOps, Booting
<1>6. stack'[1] = stack[1] /\ stack'[2] = b /\ Len(stack') = 2
  BY <1>4, <1>5 DEF TopBecomes
<1>7. UNCHANGED <<loaded, typed, echoed>> /\ (kbd' # <<>> => Keyboard \in irr')
  BY DEF kbd_read
<1>8. PortInv'
  <2>1. stack[1].pc \notin Booting
    BY <1>1 DEF KInv, PortInv
  <2>2. stack'[1].pc \notin Booting
    BY <1>6, <2>1
  <2> QED
    BY <1>7, <2>2 DEF PortInv
<1>9. Held = 0
  BY <1>1, <1>5 DEF Held, InHand
<1>10. Held' = IF kbd[1] > 0 THEN 1 ELSE 0
  BY <1>3, <1>6 DEF Held, InHand
<1>11. /\ \A i \in 1 .. Len(kbd) : kbd[i] = (typed - Len(kbd)) + i \/ (i = 1 /\ kbd[i] = 0)
       /\ Len(echoed) = (typed - Len(kbd)) + Released
       /\ \A i \in 1 .. Len(echoed) : echoed[i] = i
  BY <1>1, <1>2, <1>9 DEF KInv, OrderInv, Released
<1>12. Released = IF kbd[1] = 0 THEN 1 ELSE 0
  BY <1>1 DEF Released
<1>13. \A i \in 1 .. Len(kbd') : kbd'[i] = (typed - Len(kbd')) + i /\ kbd'[i] > 0
  <2> SUFFICES ASSUME NEW i \in 1 .. Len(kbd')
               PROVE  kbd'[i] = (typed - Len(kbd')) + i /\ kbd'[i] > 0
    OBVIOUS
  <2>1. i + 1 \in 1 .. Len(kbd) /\ i + 1 # 1 /\ i \in Nat /\ i > 0
    BY <1>2
  <2>2. kbd'[i] = (typed - Len(kbd)) + (i + 1)
    BY <1>2, <1>11, <2>1
  <2>3. typed - Len(kbd) >= - 1
    BY <1>1, <1>2, <1>11, <1>12
  <2> QED
    BY <1>1, <1>2, <2>1, <2>2, <2>3
<1>14. Released' = 0
  <2>1. kbd' # <<>> => kbd'[1] # 0
    BY <1>2, <1>13
  <2> QED
    BY <2>1 DEF Released
<1>15. OrderInv'
  <2>1. \A i \in 1 .. Len(kbd') :
           kbd'[i] = (typed' - Len(kbd')) + i \/ (i = 1 /\ kbd'[i] = 0)
    BY <1>7, <1>13
  <2>2. kbd[1] > 0 => kbd[1] = (typed - Len(kbd)) + 1
    BY <1>2, <1>11
  <2>3. Len(echoed') + Held' = (typed' - Len(kbd')) + Released'
    BY <1>1, <1>2, <1>7, <1>10, <1>11, <1>12, <1>14, <2>2
  <2>4. kbd[1] > 0 => b.arg = Len(echoed') + 1
    BY <1>1, <1>2, <1>3, <1>7, <1>11, <1>12, <2>2
  <2>5. Holding' => kbd[1] > 0
    BY <1>3, <1>6 DEF Holding, InHand
  <2>6. Holding' => stack'[2].arg = Len(echoed') + 1
    BY <1>6, <2>4, <2>5, Zenon
  <2>7. \A i \in 1 .. Len(echoed') : echoed'[i] = i
    BY <1>7, <1>11
  <2> QED
    BY <2>1, <2>3, <2>6, <2>7, Zenon DEF OrderInv
<1> QED
  BY <1>8, <1>15 DEF KInv
(* A code arrives at the port: after the others, and the line is raised if *)
(* there is none.                                                          *)
LEMMA KeyKept ==
    ASSUME IInv, KInv, key_pressed \/ key_released
    PROVE  KInv'
<1>1. /\ kbd \in Seq(Nat) /\ typed \in Nat /\ Len(echoed) \in Nat /\ Len(kbd) \in Nat
      /\ kbd = <<>> => Len(kbd) = 0
  BY EmptySeq DEF IInv, TypeOK
<1>2. /\ "pic" \in loaded /\ UNCHANGED <<stack, loaded, echoed>>
      /\ irr' = IF kbd = <<>> THEN irr \cup {Keyboard} ELSE irr
  BY DEF key_pressed, key_released, key
<1>3. /\ Held' = Held /\ (Holding' <=> Holding)
      /\ stack' = stack /\ echoed' = echoed
  BY <1>2 DEF Held, Holding
<1>4. PortInv'
  BY <1>2 DEF KInv, PortInv
<1>5. OrderInv
  BY DEF KInv
<1>6. Held \in {0, 1} /\ Released \in {0, 1}
  BY DEF Held, Released
<1>7. CASE key_pressed
  <2>1. kbd' = Append(kbd, typed + 1) /\ typed' = typed + 1
    BY <1>1, <1>7 DEF key_pressed, key
  <2>2. /\ kbd' # <<>> /\ Len(kbd') = Len(kbd) + 1
        /\ \A i \in 1 .. Len(kbd) : kbd'[i] = kbd[i]
        /\ kbd'[Len(kbd) + 1] = typed + 1
    BY <1>1, <2>1, AppendIs
  <2>3. Released' = Released
    <3>1. CASE kbd = <<>>
      BY <1>1, <2>2, <3>1 DEF Released
    <3>2. CASE kbd # <<>>
      <4>1. Len(kbd) > 0
        BY <1>1, <3>2, EmptySeq
      <4>2. kbd'[1] = kbd[1]
        BY <1>1, <2>2, <4>1
      <4> QED
        BY <2>2, <3>2, <4>2 DEF Released
    <3> QED
      BY <3>1, <3>2
  <2>4. \A i \in 1 .. Len(kbd') :
           kbd'[i] = (typed' - Len(kbd')) + i \/ (i = 1 /\ kbd'[i] = 0)
    <3> SUFFICES ASSUME NEW i \in 1 .. Len(kbd')
                 PROVE  kbd'[i] = (typed' - Len(kbd')) + i \/ (i = 1 /\ kbd'[i] = 0)
      OBVIOUS
    <3>1. CASE i = Len(kbd) + 1
      BY <1>1, <2>1, <2>2, <3>1
    <3>2. CASE i \in 1 .. Len(kbd)
      <4>1. kbd[i] = (typed - Len(kbd)) + i \/ (i = 1 /\ kbd[i] = 0)
        BY <1>5, <3>2 DEF OrderInv
      <4>2. typed' - Len(kbd') = typed - Len(kbd) /\ kbd'[i] = kbd[i]
        BY <1>1, <2>1, <2>2, <3>2
      <4> QED
        BY <4>1, <4>2
    <3> QED
      BY <1>1, <2>2, <3>1, <3>2
  <2>5. Len(echoed') + Held' = (typed' - Len(kbd')) + Released'
    BY <1>1, <1>3, <1>5, <1>6, <2>1, <2>2, <2>3 DEF OrderInv
  <2> QED
    BY <1>3, <1>4, <1>5, <2>4, <2>5 DEF OrderInv, KInv
<1>8. CASE key_released
  <2>1. kbd = <<>> /\ Len(kbd) = 0 /\ kbd' = Append(kbd, 0) /\ typed' = typed
    BY <1>1, <1>8 DEF key_released, key
  <2>2. kbd' # <<>> /\ Len(kbd') = 1 /\ kbd'[1] = 0
    BY <1>1, <2>1, AppendIs
  <2>3. Released' = 1
    BY <2>2 DEF Released
  <2>4. Released = 0
    BY <2>1 DEF Released
  <2>5. \A i \in 1 .. Len(kbd') :
           kbd'[i] = (typed' - Len(kbd')) + i \/ (i = 1 /\ kbd'[i] = 0)
    BY <2>2
  <2>6. Len(kbd) = 0 /\ typed' = typed
    BY <2>1
  <2>7. Len(echoed') + Held' = (typed' - Len(kbd')) + Released'
    BY <1>1, <1>3, <1>5, <1>6, <2>2, <2>3, <2>4, <2>6 DEF OrderInv
  <2> QED
    BY <1>3, <1>4, <1>5, <2>5, <2>7 DEF OrderInv, KInv
<1> QED
  BY <1>7, <1>8

(* initialize() clears requests before the first key. *)
LEMMA PicsKept == ASSUME IInv, KInv, pics_initialize PROVE KInv'
<1> DEFINE b == [Top EXCEPT !.pc = "sti", !.phase = "start"]
<1>1. Top \in Act /\ Top.pc = "pic"
  BY TopIs DEF pics_initialize, At
<1>2. b \in Act /\ b.pc = "sti"
  BY <1>1, OperationsAre DEF Act, MainOps
<1>3. TopBecomes(b)
  BY <1>1, <1>2, Replace, FollowIs DEF pics_initialize, Done, Goto
<1> HIDE DEF b
<1>4. Len(stack) = 1 /\ Top = stack[1]
  BY <1>1, TopIs DEF HandlerOK, Reporting, Returning
<1>5. Len(stack') = 1 /\ stack'[1] = b
  BY <1>3, <1>4 DEF TopBecomes
<1>6. kbd = <<>> /\ UNCHANGED <<kbd, typed, echoed>>
  BY <1>1, <1>4 DEF KInv, PortInv, Booting, pics_initialize
<1>7. Held = 0 /\ Held' = 0 /\ Released' = Released
  BY <1>4, <1>5, <1>6 DEF Held, Released
<1>8. ~ Holding'
  BY <1>5 DEF Holding
<1>9. PortInv'
  BY <1>2, <1>5, <1>6 DEF PortInv, Booting
<1>10. OrderInv'
  BY <1>6, <1>7, <1>8 DEF KInv, OrderInv
<1> QED
  BY <1>9, <1>10 DEF KInv

(* A handler that returns has read the port, or never came for it. *)
LEMMA ReturnKept == ASSUME IInv, KInv, iretq PROVE KInv'
<1>1. Top \in Act /\ Top.pc = "iret"
  BY TopIs DEF iretq, At
<1>2. Len(stack) = 2 /\ Top = stack[2]
  BY <1>1, TopIs DEF MainOK, MainOps, Booting
<1>3. stack' = SubSeq(stack, 1, 1) /\ stack \in Seq(Act)
  BY <1>2 DEF iretq, IInv, TypeOK, Act
<1>4. Len(stack') = 1 /\ stack'[1] = stack[1]
  BY <1>2, <1>3, Pop
<1>5. UNCHANGED <<loaded, irr, kbd, typed, echoed>>
  BY DEF iretq, hardware
<1>6. Held = 0 /\ Held' = 0 /\ Released' = Released
  BY <1>1, <1>2, <1>4, <1>5 DEF Held, InHand, Released
<1>7. ~ Holding'
  BY <1>4 DEF Holding
<1>8. PortInv'
  BY <1>1, <1>2, <1>4, <1>5 DEF KInv, PortInv, WillRead
<1>9. OrderInv'
  BY <1>5, <1>6, <1>7 DEF KInv, OrderInv
<1> QED
  BY <1>8, <1>9 DEF KInv

(* The keyboard's line, when it is served, brings its handler. *)
LEMMA InterruptKept == ASSUME IInv, KInv, NEW q \in Irqs, interrupt(q) PROVE KInv'
<1>1. /\ Len(stack) = 1 /\ loaded = {"gdt", "idt", "pic"}
      /\ Enter(HandlerOf(q)) /\ irr' = irr \ {q} /\ UNCHANGED <<loaded, kbd, typed, echoed>>
  <2>1. IF_ = TRUE
    BY DEF interrupt, IInv, TypeOK
  <2>2. Len(stack) = 1
    BY <2>1, TopIs
  <2> QED
    BY <2>1, <2>2, TopIs DEF interrupt, MainOK, Tables
<1>2. /\ HandlerOf(q) \in {"timer_eoi", "kbd_lock", "panic_print"}
      /\ q = Keyboard => HandlerOf(q) = "kbd_lock"
  BY <1>1 DEF HandlerOf, Timer, Keyboard
<1>3. HandlerOf(q) \in Operations
  BY <1>2, OperationsAre DEF MainOps, Returning
<1>4. kbd # <<>> => Keyboard \in irr' \/ HandlerOf(q) = "kbd_lock"
  BY <1>1, <1>2 DEF KInv, PortInv
<1> QED
  BY <1>1, <1>2, <1>3, <1>4, EnterKept

(* An exception of the main program leaves the port alone. *)
LEMMA ExceptionKept ==
    ASSUME IInv, KInv, breakpoint \/ page_fault \/ stack_overflow
    PROVE  KInv'
<1>1. Len(stack) = 1 /\ UNCHANGED <<loaded, irr, kbd, typed, echoed>>
  BY TopIs DEF breakpoint, page_fault, stack_overflow, Interrupted, hardware
<1>2. PICK pc \in {"breakpoint", "page_fault", "panic_print"} : Enter(pc)
  BY DEF breakpoint, page_fault, stack_overflow
<1>3. pc \in Operations
  BY <1>2, OperationsAre DEF MainOps, Returning
<1>4. kbd # <<>> => Keyboard \in irr'
  BY <1>1 DEF KInv, PortInv
<1> QED
  BY <1>1, <1>2, <1>3, <1>4, EnterKept

(* Other lines are raised. *)
LEMMA LinesKept ==
    ASSUME KInv, timer_tick \/ other_irq \/ UNCHANGED vars
    PROVE  KInv'
<1>1. UNCHANGED <<stack, loaded, kbd, typed, echoed>> /\ irr \subseteq irr'
  BY DEF timer_tick, other_irq, vars
<1>2. Held' = Held /\ (Holding' <=> Holding) /\ Released' = Released
  BY <1>1 DEF Held, Holding, Released
<1>3. PortInv'
  BY <1>1 DEF KInv, PortInv
<1>4. OrderInv'
  BY <1>1, <1>2 DEF KInv, OrderInv
<1> QED
  BY <1>3, <1>4 DEF KInv

(* Every step keeps the keys in order and an interrupt coming for them. *)
LEMMA StepKInv == IInv /\ KInv /\ [Next]_vars => KInv'
<1> SUFFICES ASSUME IInv, KInv, [Next]_vars PROVE KInv'
  OBVIOUS
<1>1. CASE Cpu
  BY <1>1, PrintKept, EchoKept, OperationKept, LockKept, ReadKept, PicsKept, ReturnKept
  DEF Cpu, printing, Work, Handler
<1>2. CASE Exception
  BY <1>2, ExceptionKept, LockKept DEF Exception
<1>3. CASE \E q \in Irqs : interrupt(q)
  BY <1>3, InterruptKept
<1>4. CASE Environment \/ UNCHANGED vars
  BY <1>4, KeyKept, LinesKept DEF Environment
<1> QED
  BY <1>1, <1>2, <1>3, <1>4 DEF Next

(* The invariant holds in every state. *)
THEOREM KeysInductive == Spec => [](IInv /\ KInv)
  BY InitIInv, InitKInv, StepIInv, StepKInv, PTL DEF Spec

-----------------------------------------------------------------------------

(* A code at port 0x60 always has the keyboard's interrupt coming, or the  *)
(* handler about to read it: the edge-triggered line cannot go silent with *)
(* a code waiting, however long interrupts stay masked.                    *)
THEOREM NoLostKeyHolds == Spec => []NoLostKey
<1>1. IInv /\ KInv => NoLostKey
  <2> SUFFICES ASSUME IInv, KInv PROVE NoLostKey
    OBVIOUS
  <2>1. Len(stack) = 2 => 2 \in Positions
    BY DEF Positions
  <2> QED
    BY <2>1 DEF KInv, PortInv, WillRead, NoLostKey
<1> QED
  BY <1>1, KeysInductive, PTL

(* The keyboard handler prints the characters once each, in the order      *)
(* typed, whatever it interrupts and however many keys wait at the port.   *)
THEOREM EchoedInOrderHolds == Spec => []EchoedInOrder
<1>1. KInv => EchoedInOrder
  BY DEF KInv, OrderInv, EchoedInOrder
<1> QED
  BY <1>1, KeysInductive, PTL
=============================================================================
