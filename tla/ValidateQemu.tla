----------------------------- MODULE ValidateQemu -----------------------------
(***************************************************************************)
(* scripts/validate_qemu.sh: audits every suite binary, runs the native    *)
(* reference and the riscv64 binary, checks what they printed, compares    *)
(* the two outputs with validation/compare_outputs.py, writes a report and *)
(* exits with the verdict.                                                 *)
(*                                                                         *)
(* The script is run again and again over the same directories.  Between   *)
(* two runs the binaries may be rebuilt, appear and disappear; the files   *)
(* earlier runs wrote stay where they are.  Every file remembers the run   *)
(* that wrote it, as its modification time would.                          *)
(***************************************************************************)
EXTENDS Integers, Sequences, CompareOutputs

CONSTANTS
  LastSuite,   (* The number of suites; the script walks them in order.    *)
  Programs,    (* The riscv64 binaries a build may produce.                *)
  References,  (* The outputs native binaries may produce.                 *)
  MaxRuns      (* How often the script is run.                             *)

Suites == 1 .. LastSuite

(* A binary by what a run of it does: its exit code (124 when timeout      *)
(* killed it), the STATUS line and the crash message in its output, the    *)
(* lines with numbers there; and whether its disassembly mentions x86      *)
(* registers.                                                              *)
ProgramType == [rc : Nat, status : {"pass", "fail", "none"}, crash : BOOLEAN,
                output : OutputType, x86 : BOOLEAN]

ASSUME ValidateAssumption ==
  /\ LastSuite \in Nat \ {0}
  /\ MaxRuns \in Nat
  /\ Programs \subseteq ProgramType
  /\ References \subseteq OutputType

VARIABLES
  built, native,          (* The executables, {} for one that is missing.  *)
  x86File, riscvFile,     (* validation/results: the captured outputs.     *)
  diffFile,               (* docs/<suite>_diff.md.                         *)
  report,                 (* docs/validation_report.md.                    *)
  run, pc, k,             (* The run, and where in which suite it is.      *)
  OVERALL_RC, BINARY_RC,
  exit                    (* The exit code of the last run that ended.     *)

files == <<x86File, riscvFile, diffFile, report>>
vars  == <<built, native, files, run, pc, k, OVERALL_RC, BINARY_RC, exit>>

(* A thing that may be absent.                                             *)
Maybe(S) == {{}} \cup {{x} : x \in S}

(* Slip: the loop stays on its suite.                                      *)
MutAdvance(loop, next) ==
  IF k < LastSuite THEN k' = k /\ pc' = loop ELSE k' = 1 /\ pc' = next

(* The next suite of the loop the script is in, or the start of the next.  *)
Advance(loop, next) ==
  IF k < LastSuite THEN k' = k + 1 /\ pc' = loop ELSE k' = 1 /\ pc' = next

-----------------------------------------------------------------------------

Init ==
  /\ built \in [Suites -> Maybe(Programs)]
  /\ native \in [Suites -> Maybe(References)]
  /\ x86File = [s \in Suites |-> {}]
  /\ riscvFile = [s \in Suites |-> {}]
  /\ diffFile = [s \in Suites |-> {}]
  /\ report = {}
  /\ run = 0
  /\ pc = "idle"
  /\ k = 1
  /\ OVERALL_RC = 0
  /\ BINARY_RC = [s \in Suites |-> {}]
  /\ exit = 0

Ended == {"exited", "refused"}

(* Between two runs one suite is rebuilt, added or removed.                *)
Rebuild(s) ==
  /\ pc \in Ended
  /\ run < MaxRuns
  /\ \E b \in Maybe(Programs), n \in Maybe(References) :
       /\ built' = [built EXCEPT ![s] = b]
       /\ native' = [native EXCEPT ![s] = n]
  /\ pc' = "idle"
  /\ UNCHANGED <<files, run, k, OVERALL_RC, BINARY_RC, exit>>

Start ==
  /\ pc \in Ended \cup {"idle"}
  /\ run < MaxRuns
  /\ run' = run + 1
  /\ k' = 1
  /\ OVERALL_RC' = 0
  /\ BINARY_RC' = [s \in Suites |-> {}]
  /\ pc' = "prerequisites"
  /\ UNCHANGED <<built, native, files, exit>>

(* Exits at once without a tool or without the directory of the binaries.  *)
(* verify_riscv_elf, which follows, only logs.                             *)
CheckPrerequisites ==
  /\ pc = "prerequisites"
  /\ \/ pc' = "refused" /\ exit' = 1
     \/ pc' = "audit" /\ UNCHANGED exit
  /\ UNCHANGED <<built, native, files, run, k, OVERALL_RC, BINARY_RC>>

AuditBinarySymbols ==
  /\ pc = "audit"
  /\ OVERALL_RC' = IF \E p \in built[k] : p.x86 THEN 1 ELSE OVERALL_RC
  /\ Advance("audit", "native")
  /\ UNCHANGED <<built, native, files, run, BINARY_RC, exit>>

(* The exit code of the native binary is logged and otherwise ignored;     *)
(* without a binary a placeholder takes the place of its output.           *)
RunNativeX86 ==
  /\ pc = "native"
  /\ x86File' = [x86File EXCEPT ![k] =
       IF native[k] = {} THEN {[run |-> run, available |-> FALSE, output |-> <<>>]}
       ELSE {[run |-> run, available |-> TRUE, output |-> n] : n \in native[k]}]
  /\ Advance("native", "qemu")
  /\ UNCHANGED <<built, native, riscvFile, diffFile, report, run, OVERALL_RC,
                 BINARY_RC, exit>>

(* Slip: only an exit code of one counts, so that a timeout does not.      *)
MutRunQemuRiscv ==
  /\ pc = "qemu"
  /\ \E p \in built[k] :
       /\ riscvFile' = [riscvFile EXCEPT ![k] = {[run |-> run, program |-> p]}]
       /\ BINARY_RC' = [BINARY_RC EXCEPT ![k] = {p.rc}]
       /\ OVERALL_RC' = IF p.rc = 1 THEN 1 ELSE OVERALL_RC
  /\ pc' = "status"
  /\ UNCHANGED <<built, native, x86File, diffFile, report, run, k, exit>>

RunQemuRiscv ==
  /\ pc = "qemu"
  /\ \E p \in built[k] :
       /\ riscvFile' = [riscvFile EXCEPT ![k] = {[run |-> run, program |-> p]}]
       /\ BINARY_RC' = [BINARY_RC EXCEPT ![k] = {p.rc}]
       /\ OVERALL_RC' = IF p.rc = 0 THEN OVERALL_RC ELSE 1
  /\ pc' = "status"
  /\ UNCHANGED <<built, native, x86File, diffFile, report, run, k, exit>>

(* A suite that is not built leaves the output of an earlier run in place. *)
SkipSuite ==
  /\ pc = "qemu"
  /\ built[k] = {}
  /\ Advance("qemu", "diff")
  /\ UNCHANGED <<built, native, files, run, OVERALL_RC, BINARY_RC, exit>>

(* Under set -e a check that returns 1 ends the script.                    *)
Abort ==
  /\ OVERALL_RC' = 1
  /\ exit' = 1
  /\ pc' = "exited"
  /\ UNCHANGED k

CheckStatusLine ==
  /\ pc = "status"
  /\ \E f \in riscvFile[k] :
       IF f.program.status = "fail" THEN Abort
       ELSE pc' = "crash" /\ UNCHANGED <<k, OVERALL_RC, exit>>
  /\ UNCHANGED <<built, native, files, run, BINARY_RC>>

(* Slip: after a crash the rest of the pipeline is left out, but the       *)
(* report is written.                                                      *)
MutCheckNoCrash ==
  /\ pc = "crash"
  /\ \E f \in riscvFile[k] :
       IF f.program.crash THEN pc' = "report" /\ OVERALL_RC' = 1 /\ k' = 1
       ELSE Advance("qemu", "diff") /\ UNCHANGED OVERALL_RC
  /\ UNCHANGED <<built, native, files, run, BINARY_RC, exit>>

CheckNoCrash ==
  /\ pc = "crash"
  /\ \E f \in riscvFile[k] :
       IF f.program.crash THEN Abort
       ELSE Advance("qemu", "diff") /\ UNCHANGED <<OVERALL_RC, exit>>
  /\ UNCHANGED <<built, native, files, run, BINARY_RC>>

(* compare_outputs.py finds nothing to object to.                          *)
Agree(x, r) == CompareOutputs(x, r) = 0

(* Slip: the placeholder is not recognised, and fails the comparison.      *)
MutRunEpsilonDiff ==
  /\ pc = "diff"
  /\ IF riscvFile[k] = {}
     THEN UNCHANGED <<diffFile, OVERALL_RC>>
     ELSE \E x \in x86File[k], f \in riscvFile[k] :
            LET passed == x.available /\ Agree(x.output, f.program.output) IN
            /\ diffFile' = [diffFile EXCEPT ![k] = {[run |-> run, passed |-> passed]}]
            /\ OVERALL_RC' = IF passed THEN OVERALL_RC ELSE 1
  /\ Advance("diff", "report")
  /\ UNCHANGED <<built, native, x86File, riscvFile, report, run, BINARY_RC, exit>>

(* Needs an output of the riscv64 binary, of whichever run, and a native   *)
(* one that is not the placeholder.                                        *)
RunEpsilonDiff ==
  /\ pc = "diff"
  /\ IF riscvFile[k] = {} \/ \E x \in x86File[k] : ~x.available
     THEN UNCHANGED <<diffFile, OVERALL_RC>>
     ELSE \E x \in x86File[k], f \in riscvFile[k] :
            LET passed == Agree(x.output, f.program.output) IN
            /\ diffFile' = [diffFile EXCEPT ![k] = {[run |-> run, passed |-> passed]}]
            /\ OVERALL_RC' = IF passed THEN OVERALL_RC ELSE 1
  /\ Advance("diff", "report")
  /\ UNCHANGED <<built, native, x86File, riscvFile, report, run, BINARY_RC, exit>>

(* The verdict, and every diff found in docs.                              *)
GenerateValidationReport ==
  /\ pc = "report"
  /\ report' = {[run |-> run, passed |-> OVERALL_RC = 0, diffs |-> diffFile]}
  /\ pc' = "exit"
  /\ UNCHANGED <<built, native, x86File, riscvFile, diffFile, run, k, OVERALL_RC,
                 BINARY_RC, exit>>

(* Slip: the status of the last echo, and not the verdict.                 *)
MutExit ==
  /\ pc = "exit"
  /\ exit' = 0
  /\ pc' = "exited"
  /\ UNCHANGED <<built, native, files, run, k, OVERALL_RC, BINARY_RC>>

Exit ==
  /\ pc = "exit"
  /\ exit' = OVERALL_RC
  /\ pc' = "exited"
  /\ UNCHANGED <<built, native, files, run, k, OVERALL_RC, BINARY_RC>>

Done == pc \in Ended /\ run = MaxRuns /\ UNCHANGED vars

(* The steps of a run.                                                     *)
Script ==
  \/ CheckPrerequisites \/ AuditBinarySymbols \/ RunNativeX86
  \/ RunQemuRiscv \/ SkipSuite \/ CheckStatusLine \/ CheckNoCrash
  \/ RunEpsilonDiff \/ GenerateValidationReport \/ Exit

Next == Start \/ Script \/ (\E s \in Suites : Rebuild(s)) \/ Done

(* timeout ends every program, so that the script always takes its next    *)
(* step; nothing obliges anybody to run it.                                *)
Spec == Init /\ [][Next]_vars /\ WF_vars(Script)

-----------------------------------------------------------------------------

(* Every variable has its type.                                            *)
TypeOK ==
  /\ built \in [Suites -> Maybe(Programs)]
  /\ native \in [Suites -> Maybe(References)]
  /\ \A s \in Suites :
       /\ \A f \in x86File[s] : f.run \in 1 .. run /\ f.available \in BOOLEAN
       /\ \A f \in riscvFile[s] : f.run \in 1 .. run /\ f.program \in Programs
       /\ \A f \in diffFile[s] : f.run \in 1 .. run /\ f.passed \in BOOLEAN
       /\ BINARY_RC[s] \in Maybe({p.rc : p \in Programs})
  /\ \A r \in report : r.run \in 1 .. run /\ r.passed \in BOOLEAN
  /\ run \in 0 .. MaxRuns
  /\ pc \in {"idle", "prerequisites", "audit", "native", "qemu", "status", "crash",
             "diff", "report", "exit"} \cup Ended
  /\ k \in Suites
  /\ OVERALL_RC \in {0, 1}
  /\ exit \in {0, 1}

Misbehaves(p) == p.rc # 0 \/ p.status = "fail" \/ p.crash \/ p.x86

(* An exit code of zero is earned: every suite that is built was run by    *)
(* this very run to a clean end, and its output, never one left behind by  *)
(* an earlier run, agrees with the native output as far as both go.        *)
PassIsEarned ==
  (pc = "exited" /\ exit = 0) =>
    \A s \in Suites : \A p \in built[s] :
      /\ ~Misbehaves(p)
      /\ BINARY_RC[s] = {0}
      /\ riscvFile[s] = {[run |-> run, program |-> p]}
      /\ \A n \in native[s] : Agree(n, p.output)

(* The diff of a run that comes to the end of its diffs is right wherever  *)
(* the two outputs have the same shape: it passes if and only if no number *)
(* differs, however often the overlapping patterns extract it.             *)
DiffFindsDifferences ==
  pc \in {"report", "exit"} =>
    \A s \in Suites : \A x \in x86File[s], f \in riscvFile[s] :
      x.available /\ SameShape(x.output, f.program.output) =>
        \E d \in diffFile[s] :
          d.run = run /\ (d.passed <=> ~Differ(x.output, f.program.output))

(* A run that fails has a suite to show for it: one that misbehaved, or    *)
(* one whose output disagrees with the native one.  With nothing built,    *)
(* the disagreement may be with an output some earlier run left.           *)
FailureIsReal ==
  (pc = "exited" /\ exit = 1) =>
    \E s \in Suites :
      \/ \E p \in built[s] : Misbehaves(p)
      \/ \E n \in native[s], f \in riscvFile[s] : ~Agree(n, f.program.output)

(* A run that wrote the report exits with its verdict, and one that exits  *)
(* with zero has written it.                                               *)
ReportMatchesExit ==
  pc = "exited" =>
    /\ \A r \in report : r.run = run => (r.passed <=> exit = 0)
    /\ exit = 0 => \E r \in report : r.run = run

(* A report is only written when every suite that is built has been run    *)
(* and checked by the same run: none is cut short by a suite that failed.  *)
ReportIsComplete ==
  pc # "idle" =>
    \A r \in report : r.run = run =>
      \A s \in Suites : built[s] # {} => BINARY_RC[s] # {}

(* A run that starts ends.                                                 *)
PipelineEnds == pc = "prerequisites" ~> pc \in Ended

-----------------------------------------------------------------------------

(* src/scripts/validate_qemu.sh:293 writes                                 *)
(*   echo "### ❌ VALIDATION FAILED — see details above"                   *)
(* into the report of a run that failed.                                   *)
FailedRunIsReported ==
  (pc = "exited" /\ exit = 1) => \E r \in report : r.run = run /\ ~r.passed
=============================================================================
