-------------------------------- MODULE Suites --------------------------------
(***************************************************************************)
(* A program of harness/ while it runs: test after test, case after case,  *)
(* it compares what a library returns with what it should, keeps a verdict *)
(* and the largest error of each test in a table, and ends with a STATUS   *)
(* line and an exit code.  Programs describes the programs; the library is *)
(* right in all but at most MaxFaults cases, in which its result may be    *)
(* wrong in any way or the memory may run out.                             *)
(***************************************************************************)
EXTENDS Epsilon, Intrinsics, FiniteSets

CONSTANTS
  Programs,   (* The description of each program (HarnessPrograms).        *)
  MaxFaults   (* Bound: the cases of one run in which something is wrong.  *)

Looks    == {"scalar", "array", "ends", "norm", "unused"}
Checks   == {"less", "notMore", "below", "none"}
Tables   == {"tests", "cases", "none"}
Verdicts == {"rc", "counts", "first", "always"}

Kinds == [looks : Looks, check : Checks, own : {0, Above}]
Codes == {1, 134, 139}
Tests == [name : STRING, cases : Seq(Kinds), error : {"worst", "zero", "none"},
          memory : SUBSET Codes, label : BOOLEAN]

ASSUME ProgramsAssumption ==
  \A p \in DOMAIN Programs :
    /\ Programs[p].tests \in Seq(Tests)
    /\ Programs[p].table \in Tables
    /\ Programs[p].verdict \in Verdicts
    /\ Programs[p].verdict = "counts" => Programs[p].table = "tests"
    /\ \A t \in DOMAIN Programs[p].tests :
         /\ Programs[p].tests[t].name # "dead"
         /\ Programs[p].table = "tests" => ~Programs[p].tests[t].label
(* The largest error in a table is taken over all that the library returns *)
(* for the test: numerical_suite and blas_full_suite record no other.      *)
ASSUME WorstAssumption ==
  \A p \in DOMAIN Programs : Programs[p].table = "tests" =>
    \A t \in DOMAIN Programs[p].tests : Programs[p].tests[t].error = "worst" =>
      \A c \in DOMAIN Programs[p].tests[t].cases :
        Programs[p].tests[t].cases[c].looks \notin {"ends", "unused"}
ASSUME MaxFaultsAssumption == MaxFaults \in Nat

VARIABLES
  program,   (* The program that runs.                                     *)
  test,      (* The test it is at; past the last one at the summary.       *)
  case,      (* The case within it; past the last one when it is over.     *)
  all_ok,    (* The verdict so far of the test.                            *)
  max_err,   (* The largest error so far of the test.                      *)
  results,   (* The table.                                                 *)
  rc,        (* The verdict so far of the program: 0 or 1.                 *)
  got,       (* The errors of the case before, one of each element.        *)
  status,    (* The STATUS line.                                           *)
  exit,      (* The exit code, when there is one.                          *)
  faults,    (* Where and how the library was wrong or memory ran out.     *)
  failed     (* The cases that did not pass.                               *)

vars == <<program, test, case, all_ok, max_err, results, rc, got, status, exit, faults, failed>>

P       == Programs[program]
Current == P.tests[test]
Case    == Current.cases[case]

Init ==
  /\ program \in DOMAIN Programs
  /\ test = 1 /\ case = 1
  /\ all_ok = TRUE /\ max_err = 0 /\ rc = 0
  /\ results = <<>> /\ got = <<>>
  /\ status = "none" /\ exit = {}
  /\ faults = {} /\ failed = {}

-----------------------------------------------------------------------------

(* An array has two elements, of the ends one the first and one within.    *)
Elements(k) == IF k.looks \in {"array", "ends"} THEN 2 ELSE 1

(* The errors of a case when the library is right.                         *)
Right(k) == [i \in 1 .. Elements(k) |-> IF i = 1 THEN k.own ELSE 0]

(* The error a case comes to from those of the elements.                   *)
Err(k, ds) ==
  CASE k.looks = "array"  -> MaxErr(ds)
    [] k.looks = "unused" -> 0
    [] OTHER              -> ds[1]

(* Slip: >= where the code has >.                                          *)
MutNotMore(err) == Lt(err, Eps)

(* if (err > eps) fails.                                                   *)
NotMore(err) == ~Gt(err, Eps)

(* What the comparison may say.  A matrix that is wrong has still a norm,  *)
(* which may be zero or infinite, where one with a NaN has none.           *)
Passes(k, ds, err) ==
  IF k.looks = "norm" THEN IF ds[1] = Above THEN BOOLEAN ELSE {ds[1] # NaN}
  ELSE {CASE k.check = "less"    -> Lt(err, Eps)
          [] k.check = "notMore" -> NotMore(err)
          [] k.check = "below"   -> ~Le(Eps, err)
          [] k.check = "none"    -> TRUE}

(* The name of a label is gone with the function whose array it was.       *)
Row(t, passed, err) ==
  [name |-> IF t.label THEN "dead" ELSE t.name, passed |-> passed, max_err |-> err]

Summary(rows) ==
  LET total_pass == Cardinality({i \in DOMAIN rows : rows[i].passed})
  IN  [pass |-> total_pass, fail |-> Len(rows) - total_pass]

-----------------------------------------------------------------------------

Running == exit = {} /\ test <= Len(P.tests)

(* The library is called and the result compared.                          *)
Look(ds, ok) ==
  /\ IF ds = Right(Case)
     THEN UNCHANGED faults
     ELSE /\ Cardinality(faults) < MaxFaults
          /\ faults' = faults \cup {<<test, case, ds>>}
  /\ failed' = IF ok THEN failed ELSE failed \cup {<<test, case>>}

(* Slip: the verdict of the last case is the verdict of the test.          *)
MutJudge(ok, err) == all_ok' = ok /\ max_err' = Raise(max_err, err)

(* if (!ok) all_ok = 0; if (err > max_err) max_err = err.                  *)
Judge(ok, err) == all_ok' = (all_ok /\ ok) /\ max_err' = Raise(max_err, err)

(* Slip: after a case that fails the loop begins anew.                     *)
MutAdvance(ok) == case' = IF ok THEN case + 1 ELSE 1

(* The loop over the sizes goes on whether the case has passed or not.     *)
Advance(ok) == case' = case + 1

NextCase(ok, err) ==
  /\ ok \/ P.verdict # "first"
  /\ Advance(ok)
  /\ Judge(ok, err)
  /\ results' = IF P.table = "cases" THEN Append(results, Row(Current, TRUE, err)) ELSE results
  /\ UNCHANGED <<program, test, rc, status, exit>>

(* return 1 from within main, with a line on stderr.                       *)
StopAtFailure(ok) ==
  /\ ~ok /\ P.verdict = "first"
  /\ exit' = {1}
  /\ UNCHANGED <<program, test, case, all_ok, max_err, results, rc, status>>

RunCase ==
  /\ Running /\ case <= Len(Current.cases)
  /\ got' \in [1 .. Elements(Case) -> Errors]
  /\ LET err == Err(Case, got') IN
     \E ok \in Passes(Case, got', err) :
       Look(got', ok) /\ (NextCase(ok, err) \/ StopAtFailure(ok))

(* Slip: rc += !ok.                                                        *)
MutTake(ok) == rc' = IF ok THEN rc ELSE rc + 1

(* rc |= !ok.                                                              *)
Take(ok) == rc' = IF ok THEN rc ELSE 1

(* Slips: what belongs to the test before is kept.                         *)
MutKeepError == case' = 1 /\ all_ok' = TRUE /\ UNCHANGED max_err
MutKeepCase  == UNCHANGED case /\ all_ok' = TRUE /\ max_err' = 0

(* The locals of the next function.                                        *)
Reset == case' = 1 /\ all_ok' = TRUE /\ max_err' = 0

(* The test is recorded, and main takes its verdict.                       *)
EndTest ==
  /\ Running /\ case > Len(Current.cases)
  /\ results' = IF P.table = "tests"
                THEN Append(results, Row(Current, all_ok,
                                         IF Current.error = "worst" THEN max_err ELSE 0))
                ELSE results
  /\ Take(all_ok)
  /\ test' = test + 1
  /\ Reset
  /\ UNCHANGED <<program, got, status, exit, faults, failed>>

(* An allocation fails: exit(1) where it is checked, a signal where not.   *)
OutOfMemory ==
  /\ Running /\ case <= Len(Current.cases)
  /\ Cardinality(faults) < MaxFaults
  /\ \E code \in Current.memory : exit' = {code}
  /\ faults' = faults \cup {<<test, case, <<>>>>}
  /\ UNCHANGED <<program, test, case, all_ok, max_err, results, rc, got, status, failed>>

(* The summary is printed, the STATUS line, and main returns.              *)
Finish ==
  /\ exit = {} /\ test > Len(P.tests)
  /\ exit' = {CASE P.verdict = "rc"     -> rc
                [] P.verdict = "counts" -> IF Summary(results).fail = 0 THEN 0 ELSE 1
                [] OTHER                -> 0}
  /\ status' = IF exit' = {0} THEN "pass" ELSE "fail"
  /\ UNCHANGED <<program, test, case, all_ok, max_err, results, rc, got, faults, failed>>

Done == exit # {} /\ UNCHANGED vars

Next == RunCase \/ EndTest \/ OutOfMemory \/ Finish \/ Done

(* The program does not stop between its statements.                       *)
Spec == Init /\ [][Next]_vars /\ WF_vars(Next)

-----------------------------------------------------------------------------

(* The names a row may have: of the tests, and what a dead label shows.    *)
Names == {P.tests[t].name : t \in DOMAIN P.tests} \cup {"dead"}

(* Every variable has its type; the numbers of the test and the case are   *)
(* those of one that there is, or one past the last.                       *)
TypeOK ==
  /\ program \in DOMAIN Programs
  /\ test \in 1 .. Len(P.tests) + 1
  /\ case \in 1 .. IF test > Len(P.tests) THEN 1 ELSE Len(Current.cases) + 1
  /\ all_ok \in BOOLEAN
  /\ max_err \in {0, Eps, Above}
  /\ results \in Seq([name : Names, passed : BOOLEAN, max_err : Errors])
  /\ rc \in {0, 1}
  /\ got \in Seq(Errors)
  /\ status \in {"none", "pass", "fail"}
  /\ exit \in {{}, {0}} \cup {{code} : code \in Codes}
  /\ failed \subseteq (1 .. Len(P.tests)) \X (Nat \ {0})

(* At a STATUS line every test has run.  A table of tests has a row for    *)
(* each, under its own name, and one is marked as failed if and only if    *)
(* one of the cases of its own test did not pass; the total counts those   *)
(* tests; and where the line depends on anything, it says PASS if and only *)
(* if no case has failed.                                                  *)
StatusIsTrue ==
  status # "none" =>
    /\ test = Len(P.tests) + 1
    /\ P.verdict # "always" => (status = "pass" <=> failed = {})
    /\ P.table = "tests" =>
         /\ Len(results) = Len(P.tests)
         /\ \A t \in DOMAIN results :
              /\ results[t].name = P.tests[t].name
              /\ results[t].passed <=> \A f \in failed : f[1] # t
         /\ Summary(results).fail = Cardinality({f[1] : f \in failed})

(* What the library returned for a case of this run.                       *)
At(t, c) == {f \in faults : f[1] = t /\ f[2] = c}
Outcome(t, c) ==
  IF At(t, c) = {} THEN Right(P.tests[t].cases[c]) ELSE (CHOOSE f \in At(t, c) : TRUE)[3]

ElementsOf(ds) == {ds[i] : i \in DOMAIN ds}
Largest(errs)  == CHOOSE m \in (errs \cup {0}) \ {NaN} : \A e \in errs : e <= m

(* The error a table shows for a test is the largest of all elements of    *)
(* all its cases, with those that are NaNs left out: whatever the order in *)
(* which they come, and whatever the test before it has left.              *)
ErrorsAreWorst ==
  status # "none" /\ P.table = "tests" =>
    \A t \in DOMAIN results :
      P.tests[t].error = "worst" =>
        results[t].max_err =
          Largest(UNION {ElementsOf(Outcome(t, c)) : c \in DOMAIN P.tests[t].cases})

(* The errors that a comparison of this form fails for certain, and the    *)
(* elements it looks at.                                                   *)
Noticed(k) ==
  IF k.looks = "unused" THEN {} ELSE IF k.looks = "norm" THEN {NaN}
  ELSE CASE k.check = "none"    -> {}
         [] k.check = "notMore" -> {Above}
         [] k.check = "below"   -> {Eps, Above}
         [] k.check = "less"    -> {Eps, Above} \cup IF k.looks = "array" THEN {} ELSE {NaN}
Examined(k) == IF k.looks = "array" THEN {1, 2} ELSE {1}

Caught(k, ds) == \E i \in Examined(k) : ds[i] \in Noticed(k)

(* A program that exits with zero has run all its tests, and has seen      *)
(* nothing wrong but what its comparisons are blind to: a NaN that a       *)
(* maximum, or a > where <= was meant, lets pass; elements between the     *)
(* ends; all of a matrix but its norm; what it never looked at.            *)
ProgramPassIsEarned ==
  exit = {0} =>
    /\ test = Len(P.tests) + 1
    /\ P.verdict # "always" =>
         \A t \in DOMAIN P.tests : \A c \in DOMAIN P.tests[t].cases :
           ~Caught(P.tests[t].cases[c], Outcome(t, c))

(* A program that does not exit with zero has run out of memory, or one of *)
(* its cases was over the threshold; a result exactly at it is no reason   *)
(* where the comparison is for more.                                       *)
FailureHasCause ==
  exit \notin {{}, {0}} =>
    \/ \E f \in faults : f[3] = <<>>
    \/ \E f \in failed :
         LET k  == P.tests[f[1]].cases[f[2]]
             ds == Outcome(f[1], f[2])
         IN  Caught(k, ds) \/ (k.looks = "norm" /\ ds[1] = Above)

(* What the array checks of epsilon.h would say of the case before.  Both  *)
(* report the largest error and its index; that for doubles passes what is *)
(* within epsilon, a NaN is not; that for floats passes what is not above, *)
(* as the suites do, and once an element has failed it reports the last    *)
(* one instead, whatever it is.                                            *)
HeaderChecks ==
  got # <<>> =>
    LET d == rvforge_check_array(got)
        f == rvforge_check_array_f(got)
        last == Len(got)
    IN  /\ d.all_pass <=> \A i \in 1 .. last : got[i] \in {0, Eps}
        /\ f.all_pass <=> NotMore(MaxErr(got))
        /\ d.max_err = Largest(ElementsOf(got))
        /\ f.max_err = IF \E i \in 1 .. last - 1 : got[i] = Above
                       THEN got[last] ELSE Largest(ElementsOf(got))
        /\ \A r \in {d, f} : r.max_err # 0 => got[r.max_idx + 1] = r.max_err

(* The programs simd_audit_report reports on compute with the intrinsics   *)
(* of the same header: those that move, choose or add lanes of 256 bits do *)
(* in each half what those of 128 bits do, and undo one another, for every *)
(* immediate that zeroes no half; of which the audit tries four.           *)
IntrinsicsAgree ==
  (program = "simd_audit_report" /\ exit # {}) =>
    \A imm8 \in {i \in 0 .. 63 : ~Bit(i, 3)} :
      LanesAgree(M256d(2, 3, 5, 7), M256d(11, 13, 17, 19), imm8)

(* The scripts' view of a program.                                         *)
Promise == INSTANCE SuiteProgram

(* STATUS: PASS comes with exit code 0 and STATUS: FAIL with 1, once; a    *)
(* program that ends without the line never exits with 0, nor with 2 or 3, *)
(* which run_qemu.sh takes for a suite that is not built or does not run.  *)
ImplementsProgram == Promise!Spec

(* Every program ends, unless a call of a library does not return.         *)
Ends == <>(exit # {})

-----------------------------------------------------------------------------

(* src/docs/errors/build_log.md:72-76 shows of mpfr_smoke                  *)
(*   exp(1) series = 2.7182818284590452353602874713526624978               *)
(*   STATUS: PASS                                                          *)
(* and src/README.md:167-175 of mpfr_full_suite                            *)
(*   exp_series, rounding_modes, STATUS: PASS.                             *)
(* A program passes when the library is right in every case.               *)
CorrectLibraryPasses == exit # {} /\ faults = {} => exit = {0}
=============================================================================
