----------------------------- MODULE TestRunner -----------------------------
(***************************************************************************)
(* A test run of the kernel: the image BuildScript gives is booted in QEMU *)
(* and runs the tests of the crate (src/src/lib.rs); the exit device tells *)
(* the host how they went.  A test may return, panic, or not return.       *)
(***************************************************************************)
EXTENDS BuildScript, Sequences

ASSUME BinariesAssumption ==
    \A b \in Binaries : b.tests \in Seq({"returns", "panics", "loops"})

VARIABLES
    device,    \* is QEMU started with the exit device?
    done,      \* tests run so far
    serial,    \* results printed on the serial port
    status     \* QEMU's exit status

runVars == <<device, done, serial, status>>
testVars == <<buildVars, runVars>>

Success == 16
Failed == 17
Running == 0

TestInit ==
    /\ BuildInit
    /\ device \in BOOLEAN
    /\ done = 0
    /\ serial = <<>>
    /\ status = Running

unchangedBuild ==
    UNCHANGED <<name, kernels, manifest, env, config, outDir, cargo, image, edited, changes,
                device>>

tests == image.kernel.tests

(* test_kernel_main, up to test_main. *)
test_kernel_main ==
    /\ step = "built"
    /\ step' = "tests"
    /\ UNCHANGED <<done, serial, status>>
    /\ unchangedBuild

(* A write to the port of isa-debug-exit ends QEMU; without the device the *)
(* kernel goes on to hlt_loop.                                             *)
exit_qemu(exit_code) ==
    /\ status' = IF device THEN 2 * exit_code + 1 ELSE Running
    /\ step' = IF device THEN "exited" ELSE "hung"

(* Testable::run, of a test that returns. *)
run_test ==
    /\ step = "tests"
    /\ done < Len(tests)
    /\ tests[done + 1] = "returns"
    /\ done' = done + 1
    /\ serial' = Append(serial, "[ok]")
    /\ UNCHANGED <<step, status>>
    /\ unchangedBuild

test_panic_handler_succeeds ==
    /\ step = "tests"
    /\ done < Len(tests)
    /\ tests[done + 1] = "panics"
    /\ serial' = Append(serial, "[failed]")
    /\ exit_qemu(Success)
    /\ UNCHANGED done
    /\ unchangedBuild
test_panic_handler ==
    /\ step = "tests"
    /\ done < Len(tests)
    /\ tests[done + 1] = "panics"
    /\ serial' = Append(serial, "[failed]")
    /\ exit_qemu(Failed)
    /\ UNCHANGED done
    /\ unchangedBuild

test_loops ==
    /\ step = "tests"
    /\ done < Len(tests)
    /\ tests[done + 1] = "loops"
    /\ step' = "hung"
    /\ UNCHANGED <<done, serial, status>>
    /\ unchangedBuild

(* The end of test_runner. *)
test_runner ==
    /\ step = "tests"
    /\ done = Len(tests)
    /\ exit_qemu(Success)
    /\ UNCHANGED <<done, serial>>
    /\ unchangedBuild

(* The developer looks at the result, or stops QEMU. *)
next_build ==
    /\ step \in {"built", "exited", "hung"}
    /\ step' = "idle"
    /\ done' = 0
    /\ serial' = <<>>
    /\ status' = Running
    /\ unchangedBuild

TestNext ==
    \/ (BuildStep \/ Develop) /\ UNCHANGED runVars
    \/ test_kernel_main
    \/ run_test
    \/ test_panic_handler
    \/ test_loops
    \/ test_runner
    \/ next_build

TestSpec == TestInit /\ [][TestNext]_testVars

-----------------------------------------------------------------------------
(* The exit status speaks of the kernel KERNEL names now: 33, for Success, *)
(* exactly if all of its tests were run and returned, 35 exactly if one    *)
(* panicked that ran after others that returned.                           *)
StatusIsRight ==
    step = "exited" =>
        LET all == kernels[env.KERNEL].tests
        IN  /\ status \in {33, 35}
            /\ status = 33 <=> serial = [i \in DOMAIN all |-> "[ok]"]
            /\ status = 33 <=> \A i \in DOMAIN all : all[i] = "returns"
=============================================================================
