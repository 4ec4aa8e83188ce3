----------------------------------- MODULE Ci -----------------------------------
(***************************************************************************)
(* .github/workflows/riscv64.yml: the graph of jobs, the artifacts they    *)
(* hand to each other within a run of the workflow, and the caches that    *)
(* the runs share.  Runs for different commits overlap.                    *)
(*                                                                         *)
(* A commit is a version of each group of files a job reads.  What is      *)
(* built is known by the commit it was built from, which need not be the   *)
(* commit of the run that uses it.                                         *)
(***************************************************************************)
EXTENDS Integers, FiniteSets

CONSTANTS
  Runs,      (* The runs of the workflow.                                  *)
  Commits,   (* The commits they may be for.                               *)
  Dirty,     (* Those from which OpenBLAS is built with x86 code in it ... *)
  Failing,   (* ... those a harness suite of which fails ...               *)
  Misfit,    (* ... and those a patch of which has no place in its tree.   *)
  MaxFaults  (* How many jobs lose their runner, the network, a mirror.    *)

(* ports/mpfr, ports/openblas; the patches, by what applies them and which *)
(* key hashes them; toolchain and root CMakeLists; kernels and harness.    *)
Inputs == {"mpfrPort", "openblasPort", "patch1", "patches23", "patches45", "patches678",
           "toolchain", "harness"}

Libraries == {"build-gmp", "build-mpfr", "build-openblas"}

(* The jobs that upload what later jobs download.                          *)
Builders == Libraries \cup {"fetch-and-patch", "build-harness"}

Jobs == Builders \cup
  {"toolchain-probe", "simd-audit", "qemu-validate", "ctest-suite", "upstream-tests",
   "bitrot-guard", "rvv-correctness", "final-summary"}

ASSUME CiAssumption ==
  /\ Commits \subseteq [Inputs -> Nat]
  /\ Dirty \subseteq Commits
  /\ Failing \subseteq Commits
  /\ Misfit \subseteq Commits
  /\ MaxFaults \in Nat

VARIABLES
  commit,    (* What each run is for, {} before it is triggered.           *)
  job,       (* The state or result of each job of each run.               *)
  restored,  (* What the cache step of a library's job found.              *)
  artifact,  (* What each job of each run uploaded.                        *)
  cache,     (* The entries: library, key, and what was installed.         *)
  faults     (* The jobs that failed for no fault of the commit.           *)

vars == <<commit, job, restored, artifact, cache, faults>>

Maybe(S) == {{}} \cup {{x} : x \in S}

Init ==
  /\ commit = [r \in Runs |-> {}]
  /\ job = [p \in Runs \X Jobs |-> "waiting"]
  /\ restored = [p \in Runs \X Libraries |-> {}]
  /\ artifact = [p \in Runs \X Builders |-> {}]
  /\ cache = {}
  /\ faults = {}

-----------------------------------------------------------------------------

(* Slip: one of two needs forgotten.                                       *)
MutNeeds(j) ==
  CASE j = "toolchain-probe" -> {}
    [] j \in {"fetch-and-patch", "bitrot-guard"} -> {"toolchain-probe"}
    [] j \in {"build-gmp", "build-openblas", "simd-audit"} -> {"fetch-and-patch"}
    [] j = "build-mpfr" -> {"build-gmp"}
    [] j = "build-harness" -> {"build-openblas"}
    [] j = "upstream-tests" -> {"build-mpfr", "build-openblas"}
    [] j \in {"qemu-validate", "ctest-suite", "rvv-correctness"} -> {"build-harness"}
    [] j = "final-summary" -> Jobs \ {"final-summary"}

(* The needs of each job.                                                  *)
Needs(j) ==
  CASE j = "toolchain-probe" -> {}
    [] j \in {"fetch-and-patch", "bitrot-guard"} -> {"toolchain-probe"}
    [] j \in {"build-gmp", "build-openblas", "simd-audit"} -> {"fetch-and-patch"}
    [] j = "build-mpfr" -> {"build-gmp"}
    [] j \in {"build-harness", "upstream-tests"} -> {"build-mpfr", "build-openblas"}
    [] j \in {"qemu-validate", "ctest-suite", "rvv-correctness"} -> {"build-harness"}
    [] j = "final-summary" -> Jobs \ {"final-summary"}

(* Whose artifacts each job downloads.                                     *)
Downloads(j) ==
  CASE j \in {"build-gmp", "build-openblas", "simd-audit"} -> {"fetch-and-patch"}
    [] j = "build-mpfr" -> {"fetch-and-patch", "build-gmp"}
    [] j = "build-harness" -> Libraries
    [] j = "ctest-suite" -> Libraries \cup {"build-harness"}
    [] j = "upstream-tests" -> {"fetch-and-patch", "build-openblas"}
    [] j \in {"qemu-validate", "rvv-correctness"} -> {"build-harness"}
    [] OTHER -> {}

(* Slip: the key hashes the port and forgets the patches.                  *)
MutKeyInputs(j) == IF j = "build-openblas" THEN {"openblasPort"} ELSE {"mpfrPort"}

(* What the cache key of each library hashes.                              *)
KeyInputs(j) ==
  IF j = "build-openblas" THEN {"openblasPort", "patches23", "patches45"} ELSE {"mpfrPort"}

Key(j, c) == [i \in KeyInputs(j) |-> c[i]]

Concluded == {"success", "failure", "skipped"}

(* Slip: the summary without always().                                     *)
MutReady(r, j) ==
  /\ commit[r] # {}
  /\ job[<<r, j>>] = "waiting"
  /\ \A n \in Needs(j) : job[<<r, n>>] = "success"

(* Every need has succeeded; the summary runs always(), once they have     *)
(* all come to an end.                                                     *)
Ready(r, j) ==
  /\ commit[r] # {}
  /\ job[<<r, j>>] = "waiting"
  /\ \A n \in Needs(j) :
       job[<<r, n>>] \in IF j = "final-summary" THEN Concluded ELSE {"success"}

Mark(r, j, result) == job' = [job EXCEPT ![<<r, j>>] = result]

Upload(r, j, c) == artifact' = [artifact EXCEPT ![<<r, j>>] = {c}]

(* download-artifact fails without its artifact.                           *)
CanDownload(r, j) == \A d \in Downloads(j) : artifact[<<r, d>>] # {}

-----------------------------------------------------------------------------

Trigger(r) ==
  /\ commit[r] = {}
  /\ \E c \in Commits : commit' = [commit EXCEPT ![r] = {c}]
  /\ UNCHANGED <<job, restored, artifact, cache, faults>>

(* A job whose needs did not all succeed.                                  *)
Skip(r, j) ==
  /\ j # "final-summary"
  /\ job[<<r, j>>] = "waiting"
  /\ \E n \in Needs(j) : job[<<r, n>>] \in {"failure", "skipped"}
  /\ Mark(r, j, "skipped")
  /\ UNCHANGED <<commit, restored, artifact, cache, faults>>

(* A job that fails for no fault of the commit.                            *)
Fault(r, j) ==
  /\ Ready(r, j) \/ job[<<r, j>>] = "running"
  /\ Cardinality(faults) < MaxFaults
  /\ Mark(r, j, "failure")
  /\ faults' = faults \cup {<<r, j>>}
  /\ UNCHANGED <<commit, restored, artifact, cache>>

(* A job that keeps nothing for the others succeeds if Passes.             *)
Conclude(r, j, Passes) ==
  /\ Ready(r, j)
  /\ Mark(r, j, IF CanDownload(r, j) /\ Passes THEN "success" ELSE "failure")
  /\ UNCHANGED <<commit, restored, artifact, cache, faults>>

ToolchainProbe(r) == Conclude(r, "toolchain-probe", TRUE)
BitrotGuard(r)    == Conclude(r, "bitrot-guard", TRUE)
SimdAudit(r)      == Conclude(r, "simd-audit", TRUE)
FinalSummary(r)   == Conclude(r, "final-summary", TRUE)

(* The script that applies the patches exits with 1 if one does not fit.   *)
FetchAndPatch(r) ==
  /\ Ready(r, "fetch-and-patch")
  /\ \E c \in commit[r] :
       IF c \in Misfit
       THEN Mark(r, "fetch-and-patch", "failure") /\ UNCHANGED artifact
       ELSE Mark(r, "fetch-and-patch", "success") /\ Upload(r, "fetch-and-patch", c)
  /\ UNCHANGED <<commit, restored, cache, faults>>

(* Slip: the keys have no prefix, so that GMP and MPFR share theirs.       *)
MutRestoreLibrary(r, j) ==
  /\ Ready(r, j)
  /\ Mark(r, j, IF CanDownload(r, j) THEN "running" ELSE "failure")
  /\ \E c \in commit[r] :
       restored' = [restored EXCEPT ![<<r, j>>] =
         {e.install : e \in {x \in cache : x.key = Key(j, c)}}]
  /\ UNCHANGED <<commit, artifact, cache, faults>>

(* The start of a library's job: downloads, and the cache step.            *)
RestoreLibrary(r, j) ==
  /\ Ready(r, j)
  /\ Mark(r, j, IF CanDownload(r, j) THEN "running" ELSE "failure")
  /\ \E c \in commit[r] :
       restored' = [restored EXCEPT ![<<r, j>>] =
         {e.install : e \in {x \in cache : x.library = j /\ x.key = Key(j, c)}}]
  /\ UNCHANGED <<commit, artifact, cache, faults>>

(* What the post step of the cache action saves: what was built, if the    *)
(* key has no entry yet; another run may have made one meanwhile.          *)
Saved(r, j, c) ==
  {e \in {[library |-> j, key |-> Key(j, c), install |-> c]} :
     restored[<<r, j>>] = {} /\ \A f \in cache : f.library = j => f.key # e.key}

(* Slip: the cache is saved before the audit.                              *)
MutFinishLibrary(r, j) ==
  /\ job[<<r, j>>] = "running"
  /\ \E c \in commit[r] :
     \E install \in IF restored[<<r, j>>] = {} THEN {c} ELSE restored[<<r, j>>] :
       /\ cache' = cache \cup Saved(r, j, c)
       /\ IF j = "build-openblas" /\ install \in Dirty
          THEN Mark(r, j, "failure") /\ UNCHANGED artifact
          ELSE Mark(r, j, "success") /\ Upload(r, j, install)
  /\ UNCHANGED <<commit, restored, faults>>

(* Its end: what the cache did not have is built, OpenBLAS is audited, and *)
(* the job that succeeds uploads the library; its post step saves it.  The *)
(* audit finds what there is, as long as objdump can read the library.     *)
FinishLibrary(r, j) ==
  /\ job[<<r, j>>] = "running"
  /\ \E c \in commit[r] :
     \E install \in IF restored[<<r, j>>] = {} THEN {c} ELSE restored[<<r, j>>] :
       IF j = "build-openblas" /\ install \in Dirty
       THEN Mark(r, j, "failure") /\ UNCHANGED <<artifact, cache>>
       ELSE /\ Mark(r, j, "success")
            /\ Upload(r, j, install)
            /\ cache' = cache \cup Saved(r, j, c)
  /\ UNCHANGED <<commit, restored, faults>>

(* The service drops entries it needs the room of.                         *)
Evict ==
  /\ \E e \in cache : cache' = cache \ {e}
  /\ UNCHANGED <<commit, job, restored, artifact, faults>>

(* Configured without the libraries, so that only the suites that do not   *)
(* need them are built.                                                    *)
BuildHarness(r) ==
  /\ Ready(r, "build-harness")
  /\ IF CanDownload(r, "build-harness")
     THEN /\ Mark(r, "build-harness", "success")
          /\ \E c \in commit[r] : Upload(r, "build-harness", c)
     ELSE Mark(r, "build-harness", "failure") /\ UNCHANGED artifact
  /\ UNCHANGED <<commit, restored, cache, faults>>

(* Where qemu-validate unpacks the binaries, and where the script it runs  *)
(* looks for them.                                                         *)
BinariesDir == "build_ci/bin"
BIN_DIR     == "build/bin"

(* The script exits with 1 when its directory is not there.                *)
QemuValidate(r) ==
  Conclude(r, "qemu-validate", BIN_DIR = BinariesDir /\ commit[r] \cap Failing = {})

(* The directories of ctest-suite, and the one its log is to be in: the    *)
(* step is in build_ci when it has tee write build_ci/ctest_output.log.    *)
CTestDirs == {"build_ci", "build_ci/bin", "build_ci/install"}
LogDir    == "build_ci/build_ci"

(* The step ends with the exit code of tee, and not of ctest: the shell    *)
(* has no pipefail.                                                        *)
CTestSuite(r) == Conclude(r, "ctest-suite", LogDir \in CTestDirs)

(* "|| true"                                                               *)
UpstreamTests(r) == Conclude(r, "upstream-tests", TRUE)

(* The output goes through tee into a file, where grep looks for STATUS:   *)
(* PASS, which a suite prints that does not fail; both steps as one.  The  *)
(* benchmark ends in "|| true".                                            *)
RvvCorrectness(r) == Conclude(r, "rvv-correctness", commit[r] \cap Failing = {})

-----------------------------------------------------------------------------

Step(r) ==
  \/ \E j \in Jobs : Skip(r, j) \/ Fault(r, j)
  \/ \E j \in Libraries : RestoreLibrary(r, j) \/ FinishLibrary(r, j)
  \/ ToolchainProbe(r) \/ FetchAndPatch(r) \/ BuildHarness(r) \/ SimdAudit(r)
  \/ QemuValidate(r) \/ CTestSuite(r) \/ UpstreamTests(r) \/ BitrotGuard(r)
  \/ RvvCorrectness(r) \/ FinalSummary(r)

Done ==
  /\ \A r \in Runs : commit[r] # {} /\ job[<<r, "final-summary">>] \in Concluded
  /\ UNCHANGED vars

Next == (\E r \in Runs : Trigger(r) \/ Step(r)) \/ Evict \/ Done

(* A job that is ready gets a runner and ends, be it by its time limit.    *)
Spec == Init /\ [][Next]_vars /\ \A r \in Runs : WF_vars(Step(r))

-----------------------------------------------------------------------------

(* Every variable has its type.                                            *)
TypeOK ==
  /\ commit \in [Runs -> Maybe(Commits)]
  /\ job \in [Runs \X Jobs -> Concluded \cup {"waiting", "running"}]
  /\ restored \in [Runs \X Libraries -> Maybe(Commits)]
  /\ artifact \in [Runs \X Builders -> Maybe(Commits)]
  /\ \A e \in cache : e.library \in Libraries /\ e.install \in Commits
  /\ faults \subseteq Runs \X Jobs

(* A job whose needs have succeeded finds every artifact it downloads,     *)
(* those of jobs it only needs through others included.                    *)
ArtifactsAreThere ==
  \A r \in Runs : \A j \in Jobs \ {"final-summary"} :
    Ready(r, j) => CanDownload(r, j)

(* What the build of OpenBLAS takes of the commit's own files: the port,   *)
(* and the patches the port applies.                                       *)
PortInputs == {"openblasPort", "patches23"}

(* The OpenBLAS a run hands on was built with the port of the run's own    *)
(* commit and the patches that port applies, whether built, restored, or   *)
(* restored from what a run for another commit built at the same time.     *)
(* (PatchChangeInvalidates speaks of the other patches.)                   *)
OpenblasIsCurrent ==
  \A r \in Runs : \A c \in commit[r], a \in artifact[<<r, "build-openblas">>] :
    \A i \in PortInputs : a[i] = c[i]

(* The patches of each library.                                            *)
PatchesOf(j) ==
  CASE j = "build-gmp" -> {"patch1"}
    [] j = "build-mpfr" -> {}
    [] j = "build-openblas" -> {"patches23", "patches45", "patches678"}

(* "A patch change invalidates only the affected library's cache entry":   *)
(* no run restores a library from an entry made with another version of    *)
(* one of the library's patches.                                           *)
PatchChangeInvalidates ==
  \A r \in Runs, j \in Libraries : \A c \in commit[r], a \in restored[<<r, j>>] :
    \A i \in PatchesOf(j) : a[i] = c[i]

(* No OpenBLAS with x86 code in it is kept, neither for the run's later    *)
(* jobs nor for other runs.                                                *)
KeptOpenblasIsAudited ==
  /\ \A e \in cache : e.library = "build-openblas" => e.install \notin Dirty
  /\ \A r \in Runs : artifact[<<r, "build-openblas">>] \cap Dirty = {}

(* Every run that is triggered comes to its summary.                       *)
SummaryComes ==
  \A r \in Runs : commit[r] # {} ~> job[<<r, "final-summary">>] \in Concluded
=============================================================================
