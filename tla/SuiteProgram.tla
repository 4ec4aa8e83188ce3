----------------------------- MODULE SuiteProgram -----------------------------
(***************************************************************************)
(* What the scripts rely on of a program of the harness: validate_qemu.sh  *)
(* reads its STATUS line and its exit code, ctest and run_qemu.sh the exit *)
(* code alone.  The program says PASS and exits with zero, or FAIL and     *)
(* with one; or it ends without a word, but then never with zero, nor with *)
(* a code run_qemu.sh has a meaning of its own for.                        *)
(***************************************************************************)
EXTENDS Integers

VARIABLES status, exit
vars == <<status, exit>>

Init == status = "none" /\ exit = {}

(* Killed by a signal: abort of a library, or a null pointer.              *)
Killed == {134, 139}

Pass   == exit = {} /\ status' = "pass" /\ exit' = {0}
Fail   == exit = {} /\ status' = "fail" /\ exit' = {1}
Silent == exit = {} /\ UNCHANGED status /\ \E code \in {1} \cup Killed : exit' = {code}

Next == Pass \/ Fail \/ Silent
Spec == Init /\ [][Next]_vars
=============================================================================
