# RVForge in TLA+

RVForge cross-compiles MPFR and OpenBLAS to riscv64, replaces x86 SIMD code by
scalar or RVV kernels of its own, runs the result under QEMU and compares it
with native output. This directory holds TLA+ models of the parts of it that
compute or decide something, TLC configurations that check them on small
instances, and TLAPS proofs of their main properties for every instance.

Paths below are relative to the root of the repository.

## The system: inventory

| Component | State it keeps | Operations | Interacts with | Hard to get right |
|---|---|---|---|---|
| RVV kernels (`rvv/*.c`) | the caller's arrays, vector accumulators, packed buffers | daxpy, ddot, dnrm2, dgemv, dgemm, each as vector code, scalar reference and build without vectors | the vector unit (`vsetvl`, tail policy), `malloc` | the unit chooses the strip length; tail lanes; packed buffers; failed allocations |
| SIMD scalar fallbacks (`simd_fallbacks/*.c`, `rvforge_simd.h`) | the caller's arrays, packed buffers | unrolled and blocked loops; about fifty intrinsics as inline functions | patched OpenBLAS sources | remainders of unrolled loops; reused buffers; lane selection by immediates |
| Epsilon comparison (`validation/epsilon.h`) | a result record | absolute, relative and ULP tests, over arrays | nobody calls it; the suites have comparisons of their own | NaN, signed zero, a maximum that forgets |
| Output capture (`validation/output_capture.h`) | a growing buffer | append, write, find, count | included by `mpfr_full_suite.c`, which calls none of it | a formatted length larger than the space left |
| Output comparison (`validation/compare_outputs.py`) | none | extract numbers, pair by position, compare | validation pipeline | lines that are skipped shift the pairs; a short output agrees with everything |
| Harness suites (`harness/*.c`) | the test and the size they are at, a verdict and a largest error per test, a table of results, an exit code | eight programs of one to eleven tests, each a comparison per size; a summary, a STATUS line | the libraries, the kernels, the scripts that read STATUS line and exit code | comparisons that a NaN passes, verdicts kept or lost between sizes and tests, references the test computes itself, memory that runs out |
| QEMU validation pipeline (`scripts/validate_qemu.sh`) | result files, diffs, a report, the verdict so far | audit, native run, QEMU run, checks, diff, report | suites, QEMU, comparison | a failure in the middle; files of earlier runs; timeouts |
| Other runners (`scripts/run_qemu.sh`, `diff_results.sh`, `run_upstream_tests.sh`, `bench_rvv.sh`, `bench_baseline.sh`) | exit codes per test, logs | run, classify, summarise | suites, QEMU | exit codes with a double meaning; counters that never move |
| Patches (`scripts/apply_patches.sh`, `patches/`) | the source trees | dry run, apply, verify, log | extracted sources | a second application; a failure half way |
| Library ports (`ports/*/CMakeLists.txt`) | ExternalProject stamps, install trees | download, patch, configure, build, install | patches, toolchain | a step that is repeated; errors that are swallowed |
| Bootstrap (`scripts/bootstrap.sh`) | build tree, build record | verify, configure, build, check | ports, harness | which failures stop it |
| CI (`.github/workflows/riscv64.yml`) | job results, artifacts, caches | twelve jobs in a graph | everything | parallel jobs; caches that outlive their inputs; jobs that always run or never fail |
| Toolchain and CMake configuration, SIMD audit scan, documentation | files | none at run time | | |

What makes each of them correct:

* Suites: the STATUS line, the table and the exit code say what the cases came
  to; a pass is earned and a failure has a cause, within what a comparison can
  see; a program that does not end well is not taken for one that does.
* Kernels: each element is updated once, each product counted once, nothing
  outside the operands touched; on every conforming vector unit and every
  build; buffers are freed on every path; a failed allocation has a stated effect.
* Comparison: numbers that agree pass, numbers that do not fail, in particular
  a NaN; an output that is cut short is noticed.
* Pipelines and runners: an exit code of zero is earned by what this run did;
  a failure is real and is reported; a run ends.
* Patches and ports: a run that ends well leaves nothing out, one that fails has
  a reason in the tree; a run that follows another repeats nothing (which the
  script does not keep); no library is installed without its patches.
* CI: a job runs only after what it needs; what is handed on was built from the
  files of the commit under test; every run ends with a summary.

## Modules

| Module | Models | State and actions against the code |
|---|---|---|
| `VectorUnit` | the vector unit behind `<riscv_vector.h>` (external) | `LegalVl(avl, vlmax)`: what `vsetvl` may return; `Clobbered`: the tail lanes an instruction may overwrite |
| `KernelData` | the sizes and strides of the calls of the next two | |
| `Elementwise` | `rvv_daxpy.c`; `dcopy_n`, `dscal_n`, `daxpy_n` | `i` is the loop counter, `updates` counts how often each cell of y was updated from each cell of x; `Enter` is the guard, `Strip` a turn of the loop, `Return` its end |
| `Reductions` | `rvv_ddot.c`, `rvv_dnrm2.c`, `rvv_dgemv.c`; `ddot_n`, `dnrm2_n`, the `dgemv` forms over rows | `acc` says which products are in which lane or scalar accumulator, `nan` which lanes are lost; `BeginRow` clears them, `Strip` adds, `StoreRow` reduces and stores |
| `GemmData` | what a call of dgemm is and how C and the packed buffers are abstracted | |
| `GemmSpec` | the contract of dgemm, in two strengths: `Spec`, and `LossySpec` where a failed allocation may cut the product short | one step: the call returns |
| `RvvDgemm` | `rvv_dgemm.c`, vector build | `pc`, `ic`, `i`, `j` are the code's counters, `Ap` and `Bp` its buffers by flat index; one action per loop head, packing, strip, allocation and free |
| `BlockedDgemm` | `scalar_dgemm.c`; the plain triple loops, also in `rvv_dgemm.c`, `scalar_sgemm.c` (with its loop unrolled by four) and `scalar_dgemv.c` (transposed) | the same, with the buffers allocated once; either allocation may fail and the other succeed, and `FallBack` frees what there is and runs the triple loop. `TripleLoop` and `UnrolledLoop` count the turns of the loops that add a product |
| `CompareOutputs` | `compare_outputs.py`: lines that are skipped, overlapping patterns, pairing by position, exit code | operators; `SameShape` and `Differ` say what the comparison is for without lists and positions |
| `ValidateQemu` | `scripts/validate_qemu.sh`, on top of `CompareOutputs` | files are stamped with the run that wrote them; one action per stage and suite; `Abort` is what `set -e` does to a check that returns 1 |
| `PatchTree` | `scripts/apply_patches.sh` and the ExternalProject steps of the ports, over the trees under `extern/` | `applied` counts how often each patch is in its tree, `pc` and `k` are where the script is, `stamp` and `step` where the build of each tree is |
| `Ci` | `.github/workflows/riscv64.yml` | `job` is the state of each job of each run, `artifact` and `cache` name the commit each thing was built from; one action per job, two for a job with a cache |
| `Epsilon` | the comparisons of `validation/epsilon.h` (absolute mode, the two array checks) and the maxima the suites compute | an error is its distance from the threshold: none, exactly the threshold, more, or a NaN |
| `Intrinsics` | the intrinsics of doubles in `rvforge_simd.h` that move, choose or combine lanes | functions of lanes, with the immediates taken bit by bit |
| `MpfrTests` | the arithmetic of `compute_exp_series` (`mpfr_smoke.c`) and of `test_exp_series_vs_builtin` and `test_rounding_modes` (`mpfr_full_suite.c`) | operators: bounds on exponents, the leading bits of 1/3 |
| `HarnessPrograms` | the eight programs of `harness/` as data | per test: its cases in order, what each looks at and how it compares, what a failed allocation does; per program: the table and where the verdict comes from |
| `Suites` | the code such a program runs | `test` and `case` are where it is, `all_ok`, `max_err` and `rc` the variables of those names, `results` the table; `RunCase` is the body of a loop over sizes, `EndTest` the end of a test function and `rc \|= ...` of `main`, `Finish` the summary and the return of `main`, `OutOfMemory` a failed allocation; `faults` and `failed` record what the library did and which cases did not pass |
| `SuiteProgram` | what `validate_qemu.sh`, `run_qemu.sh` and ctest rely on of a program | two variables: STATUS line and exit code |
| `ElementwiseProofs`, `ReductionsProofs`, `RvvDgemmProofs`, `BlockedDgemmProofs`, `ValidateQemuProofs`, `PatchTreeProofs`, `CiProofs`, `SuitesProofs` | theorems about the modules they extend | |

`MC*` modules extend a model and give its constants their values. Two of them put two
models side by side: in a behaviour of `MCKernels` a kernel of `Elementwise` or one of
`Reductions` is called, in one of `MCDgemm` the scalar or the vector dgemm, while the
variables of the other rest, so that one run asks the questions of both. `GemmSpec` is
instantiated by the two dgemm models with a refinement mapping that hides C until
the call has returned. `Suites` instantiates `SuiteProgram` with its own `status`
and `exit`, and extends `Epsilon` and `Intrinsics`; `MCSuites` brings it together
with the programs of `HarnessPrograms`, which extends `MpfrTests` and `Intrinsics`. `ValidateQemu` extends `CompareOutputs`, so that the
pipeline runs the real selection and pairing of numbers on its files. A
definition `Mut...` before a definition is a slip a bug of that code might be;
nothing uses it but the entries under "mutants" in `PROJECT.json`.

What the models abstract:

* Doubles are reduced to provenance: the models say which operand reaches which
  cell and how often, and nothing of rounding. That is what strip-mining,
  unrolling, packing and blocking can get wrong.
* In `ValidateQemu` a program is what a run of it yields: exit code, STATUS line,
  crash message, lines with numbers. Two numbers within one of the three
  tolerances are the same number. Of the forms a number is printed in, the model
  keeps which patterns find it.
* In `Suites` a number is how far it is from what it should be, by all that a
  threshold can tell; the tests whose outcome with a correct library is not what
  they intend are computed in `MpfrTests` and `Intrinsics`. A library is wrong,
  or an allocation fails, in at most `MaxFaults` cases of a run. A test has
  hundreds of elements and up to twenty sizes; here an array has two elements and
  `MaxSizes` cases that are alike stand for the others. A case that compares one
  of an array's ends is told from one that compares all.
* In `PatchTree` a patch is in its tree some number of times (each changes one
  file). Whether upstream's file has a place for it is chosen at the start. Once it
  is there, `patch` finds it applied already, unless it is one of the constant
  `Stacks`: those put a comment at the same place of one Makefile, and fit again
  as soon as the comment of another one is there as well. The two `sed` commands that
  follow the patches of OpenBLAS's port are left out: they find nothing to do a second time.
* In `Ci` a commit is a version of each group of files some key or job reads, the
  patches grouped by what applies them and which key hashes them, and what a job
  computes is whether it passes for the commit: `Dirty`, `Failing` and `Misfit` are
  the commits whose OpenBLAS has x86 code, whose suites fail, and whose patches do
  not apply. The audit finds x86 code whenever there is some: the workflow discards
  what `objdump` says on stderr and would pass a library it cannot read. The pipe into `tee` and
  the `grep` for the verdict are one step that passes if the suite prints PASS. The post
  step of a cache saves what was built, if no entry of that key has come meanwhile,
  and nothing after a hit.

## What the runs check

| Run | Question | Bounds, and why they are enough |
|---|---|---|
| `kernels` | is every element updated exactly once; is every product counted once, every row stored once and in order, when is a row lost to a NaN; does every loop end | n up to 9: two turns of the unrolled body and a remainder; registers of 1, 2 and 4 lanes: full, split and short strips; strides 1 and 2; 2 rows of up to 9 products: an accumulator is reused once |
| `reductions_tail` | may ddot of one element be a NaN (it may) | one strip in a register of two lanes is enough |
| `dgemm` | are the right values multiplied and the buffers freed; does the scalar code implement the full contract and the vector code the lossy one; do the loops end | dimensions up to 5 with blocks of 2, and column blocks of 3 in the scalar code: full blocks and a short one in each dimension, a short panel after a full one in the same buffer; each allocation may fail |
| `validate_qemu` | is a pass earned, a difference found, a failure real, the report right, does the run end | two suites, so that one that ends the script has one after it; two runs with a rebuild between them, so that a run finds another's files; six programs: clean, silent with NaNs, failing, hanging, crashing, with x86 code |
| `validate_report` | is a run that fails reported as failed (not always) | as above |
| `patch_tree` | is a script that ends well complete, a failure real, a library patched; does a run end | GMP with one patch, OpenBLAS with three that stand for its seven: one that is found where it is, which the port applies, and two that stack, one of which the port applies as well; three runs of the script and one removal of the build directory, so that each order of script, port, script occurs |
| `patch_idempotent` | does a second run leave alone what the first has patched (it does not) | as above; two runs are enough |
| `ci` | are artifacts there, does every run reach its summary | one run, for a commit that changes any one group of files, among them one with x86 code, one with a failing suite and one with a patch that has no place; up to two lost runners |
| `ci_cache` | is an OpenBLAS that is handed on current, by its port and the patches the port applies, and audited | two overlapping runs share the caches, entries are evicted at any time; the constraint `OnlyBuilders` holds back the jobs that neither upload nor touch a cache |
| `ci_stale` | does a change of a patch invalidate the cache entry of its library (not always) | two runs, for commits that differ in the patches no key hashes |
| `suites` | are STATUS line, table and exit code true, is a pass earned, has a failure a cause, is an error the worst one, do the array checks of `epsilon.h` and the intrinsics do what they should, does a program keep what the scripts rely on, and end | all eight programs; two sizes a test, so that a second follows one that failed or was worse; two elements, so that one of them is last; two faults in a run, so that two sizes, or two tests, or a size and an allocation go wrong; every error of every element |
| `suites_correct` | does a program pass when its library is right (not always) | no faults |

Five runs expect a violation; `PROJECT.json` says under "findings" which line
of the repository the property quotes.

* `reductions_tail`: the strips accumulate with a tail-agnostic instruction and
  the reduction reads all lanes. `harness/rvv_correctness.c:196` asserts the
  value; on a unit that overwrites the tail it is a NaN.
* `validate_report`: under `set -e` a suite that prints `STATUS: FAIL` ends the
  script before the report is written.
* `patch_idempotent`: patches 0003 to 0008 find their place again under each
  other's comments, so that a second run applies them once more. The README calls the
  script idempotent.
* `ci_stale`: GMP's key hashes no patch and OpenBLAS's not 0006 to 0008. The README
  says that a patch change invalidates the library's entry.
* `suites_correct`: `mpfr_smoke` divides by factorials of factorials and gets
  2.587 for e, and `mpfr_full_suite` stops the exponential series too early and
  compares directed roundings after rounding them to doubles. The README and
  `docs/errors/build_log.md` show both with STATUS: PASS.

Facts of the code that no property states, or that a property has to except (those
that can go wrong unnoticed are among the "hazards" of `PROJECT.json`): the ports apply 0002 and 0003 of OpenBLAS's patches and not
the others, and a download by a port wipes what the script did; the cache keys do not hash
the flags; the harness of the workflow is configured
without the libraries; a second build over a tree the script has patched fails;
`qemu-validate` and `ctest-suite` name directories that are not there, and so fail
for every commit; numbers on a line with PASS, FAIL or OK are not compared, and
`numerical_suite` and `blas_full_suite` print no others. What
`ProgramPassIsEarned` excepts is a list of such facts too: a NaN passes every comparison of the
form `err > eps` and every maximum; `daxpy` of the edge cases is looked at in its
ends; `dgemm` of `blas_smoke` by its norm; two tests of `numerical_suite` look at
nothing the library computed; `simd_audit_report` and the benchmark
always pass. The benchmark's rows for dgemv and dgemm point to labels of functions
that have returned; no property speaks of its table. A vector dgemv of no columns
leaves y as it is, where the other builds scale it.

### Fairness

The kernels are sequential code: weak fairness of their next step says that the
processor goes on. The script of `ValidateQemu` is fair because `timeout` ends
every program it waits for; starting it and rebuilding are not fair, nobody
has to. The steps of `apply_patches.sh` wait for nothing, so `ScriptStep` is fair;
being interrupted, started, or followed by a build is not. In `Ci` the steps of
a run are fair, as a job that is ready gets a runner and GitHub ends a job that
exceeds its time limit; triggers, lost runners and evictions are not fair. A
program of `Suites` does not stop between its statements, and a call of the
library returns, so its next step is weakly fair.

## What is proved

The proof modules assume only the named ASSUMEs of the models: sizes are
naturals, registers have a lane, strides are positive, the unrolled code has its
four accumulators; blocks are not empty; a port names patches of its own tree, and one that tolerates
failures names one patch; programs, references and commits have their types; a
program of the harness whose verdict comes from counts has a row for each test,
no test bears the name that stands for a dead label and none is labelled where the
table is one of tests, and the largest error a table
shows is taken over all the library returned for the test (`WorstAssumption`, true
of the two programs that have such a table).

What a legal vl is good for, at least one and at most the elements left, so that
the loop advances and never overruns, is a lemma (`LegalVlBounds`) of each module
about strip-mined loops.

* `ElementwiseTypeCorrect`, `ElementwisePrefixUpdated`,
  `ElementwiseEveryElementOnce`. `EveryElementOnce` speaks of the end of a call
  and is not inductive. `PrefixUpdated`, that exactly the elements below `i`
  have been updated, is, once one adds the types, that an unrolled body only
  runs below `N4` (so that a strip of four never overruns n), and that a call
  that returned early is still at zero.
* `ReductionsTypeCorrect`, `ReductionsProductsCountedOnce`,
  `ReductionsPoisonNeedsShortStrip`. The inductive invariant says that below
  `j` each product is in exactly one accumulator that the final sum reads, that
  rows below `row` are stored and exact unless lost, and that a lane is only
  lost once a strip was shorter than the group; the arithmetic fact behind the
  last part is that a loop over a multiple of vlmax is granted vlmax each time
  it cannot split, or a split that leaves the sum a multiple.
  `ReductionsRowsStoredInOrder` is the action property that comes with it: a step
  stores the row the counter is at or none, and the counter never goes back.
* `BlockedDgemmTypeCorrect`, `BlockedDgemmReadsWhatItPacked`,
  `BlockedDgemmImplementsGemm`, and `RvvDgemmTypeCorrect`,
  `RvvDgemmReadsWhatItPacked`, `RvvDgemmImplementsLossyGemm`: for every size of a
  call, of a block and, in the vector code, of a register group, and whichever
  allocations fail. That C is right at the return is not inductive, and neither is
  that the values multiplied belong together. The invariant says where the counters
  are at each control point (`CountersInRange`: a counter overshoots its dimension by
  less than a block); what the flat buffers hold from one packing to the next, by
  row and column (`BpHoldsPanel`, `ApHoldsBlock`), which rests on three lemmas of
  index arithmetic (`IndexRoundTrip`, `IndexInBuffer`, `IndexSplits`: `p * w + x` is
  in the buffer and is the index of no other row and column); and that exactly the
  terms of the blocks or strips behind the counters are in C, each once
  (`ReachedTermsOnce`, `StripsScaledOnce`). When an allocation fails in the middle,
  `ReachedTermsOnce` is what makes the vector code's C a leading part of the product
  (`LeadingPart`). That the plain loop, counted turn by turn, adds each product once is
  a lemma (`TripleLoopAddsProduct`), and another says so of the loop unrolled by four. For the refinement, every step before the
  return stutters, because the mapping hides C until then, and the step that returns
  is the contract's `Complete`, `Recover` or `GiveUp`.
* `ValidateTypeCorrect`, `ValidatePassIsEarned`, `ValidateFailureIsReal`,
  `ValidateReportMatchesExit`, `ValidateReportIsComplete`: for any suites,
  programs and sequence of runs and rebuilds. The four properties speak of the
  end of a run. The inductive invariant says for each stage what it has found of
  the suites it is done with as long as OVERALL_RC is 0 (`AuditFound`,
  `NativeFound`, `QemuFound`, `ChecksFound`, `DiffFound`), that an OVERALL_RC of 1
  has a cause (`VerdictHasCause`), and that there is no report of this run before
  its end (`ReportAtTheEnd`). That the files are stamped with this run is what
  keeps the outputs of earlier runs out of the argument. The comparison itself is
  an opaque predicate in these, so they hold for any.
* `CompareFindsDifferences`, and from it `ValidateDiffFindsDifferences`: what the
  comparison computes, for outputs of any number of lines and fields. The two lists of numbers are
  made by appending a list for each match of a pattern, for each pattern, for each
  line. `FlattenedByPrefix` says that appending goes list by list, `EvenFlattened`
  that lists whose parts pair off, pair off, and are equal exactly if their parts are;
  `MatchesPairOff`, `EntriesPairOff` and `NumericsPairOff` apply this to the fields of
  a line, the patterns and the lines. The induction is over positions and taken from
  the well-foundedness of `<` (`UpTo`). The invariant adds that there is one output of
  a kind and suite on the disk (`OneOutput`), and that a diff of this run was
  computed from the outputs that lie there now (`DiffIsCurrent`).
* `PatchTreeTypeCorrect`, `PatchTreeSuccessIsComplete`,
  `PatchTreeFailureIsMisfit`, `PatchTreeLibraryHasPortedPatches`,
  `PatchTreeOnlyStacksRepeat`: for any patches, ports and trees. The inductive
  invariant follows the script (`ScriptProgress`: the patches before `k` are
  there) and the builds (`BuildProgress`: those before `step` are there or
  excused), across downloads that undo both, and says that nothing is missing
  while nobody else has touched the trees (`Undisturbed`). The last theorem says how
  far the script is from idempotent: a later run repeats patches of `Stacks` and does
  nothing else, in whatever order they come and wherever it is interrupted.
* `CiOpenblasIsCurrent`, `CiKeptOpenblasIsAudited`: for any number of overlapping
  runs. The inductive invariant says that a cache entry, what a cache step
  restored and what a job uploaded agree with their key, and are clean.
  `CiTypeCorrect` rests on the cache having one entry of a key.
  `CiArtifactsAreThere` rests on a second invariant,
  `Progress`: a job that runs or has succeeded has its needs fulfilled, its uploads
  made and its run triggered. Each action is a step of one job, and one lemma
  (`JobStep`) says what such a step has to observe.
* `SuitesTypeCorrect`, `SuitesImplementsProgram`, `SuitesStatusIsTrue`,
  `SuitesPassIsEarned`, `SuitesFailureHasCause`: for any programs, any number of
  tests, cases and faults. `Judged` says of one case what its comparison can see:
  one that passes has caught nothing, one that fails has, or has met a norm that
  is no number. The properties speak of the end; the invariant says the same of
  the cases run so far: `Marks` what `all_ok` and `rc` know of the failed ones,
  `Rows` what the table does, `Judgements` that a case is among the failed ones
  exactly for a cause, and `Positions` that nothing is known of the cases ahead,
  which makes the outcome of a case final once it has run. `Counted` is the
  arithmetic of the totals.
* `SuitesErrorsAreWorst`: its invariant `Worst` says of each test that what `max_err`
  or its row holds is the largest error of the cases it is past. A maximum that starts at
  zero drops a NaN, and so does `Largest`; that a case ahead cannot change
  is `Positions` again.
* `HeaderChecksOfAnyArray`, and from it `SuitesHeaderChecks`: for arrays of any
  length, where the runs have one element or two. The model writes the loops of `check_array`, `check_array_f`
  and the maximum as recursive functions; `LoopRuns` says that such a loop has a
  state after each turn, so that the recursive function is what the loop computes
  (`CheckArrayLoop`, `CheckArrayFLoop`, `MaxErrLoop`), and an induction over the turns
  (`FromZero`) says what the state knows of the elements so far. The float check's
  maximum is not the largest error but the last one, once an element before it has
  failed; that exception is part of what is proved.
* `IntrinsicsAgreeByHalves`, and from it `SuitesIntrinsicsAgree`: for any vectors of
  integers and any immediate, where the run has two vectors and the immediates that
  differ in the bits the code looks at.

Only model-checked: termination and every other liveness property, which need
ENABLED and fairness and are out of the prover's reach. Every other invariant and
action property of the passing runs, and every refinement they check, is the subject
of a theorem. The violations are TLC's, too: a counterexample
needs no proof. Type correctness of `Elementwise`, `Reductions`, the pipeline, the
patches and the suites is proved and in no run of its own.

## Not modelled, and why

* Rounding and overflow of doubles: the kernels are compared by provenance.
  dnrm2 over- and underflow, which the repository documents as a known issue,
  is outside the models. So are the values of the three tolerances.
* A negative element count in the kernels without a guard: no caller passes one.
* `dgemm_micro_kernel`, which nothing calls.
* A signal that ends `validate_qemu.sh`: the next run starts over, and the
  output cut short is rewritten or belongs to a suite that is no longer built.
* What `post_patch_verify` looks for (it warns, except that a search without a
  match ends the script, which cannot be once 0002 is applied), and the format check of
  the patch files, which reads files of the repository.
* The toolchain file and the CMake options: they have no behaviour at run time.
* The scan of `simd_audit.sh` and `bench_baseline.sh`: a text search, a measurement.
* The relative, ULP and combined modes of `epsilon.h`, which nothing calls, and
  `output_capture.h`, whose functions nothing calls.
* Of `rvforge_simd.h` the intrinsics that apply one C operator lane by lane, loads
  and stores, and the floats, whose forms are those of the doubles.
* The contents of the tests of the suites beyond the above: which numbers they
  compute is the libraries' matter; times of the benchmark.
* `run_qemu.sh`, `diff_results.sh`, `run_upstream_tests.sh`, `bench_rvv.sh`,
  `bootstrap.sh`: loops over programs or stages in sequence that keep nothing
  between runs. What `run_qemu.sh` relies on is a property of `Suites`.

## Plan

Done: the kernels, the pipeline with its comparison, patching and ports, the
workflow, the harness programs; theorems about all of them, the refinements of
`GemmSpec` and `SuiteProgram` included. What is left, in this order:

1. `strsv`, the one kernel of `simd_fallbacks` no module has.
2. The other runners as one abstract specification, that a summary says of each
   test what its run said: `run_qemu.sh`, `run_upstream_tests.sh` (whose counter of
   failures never moves), `bootstrap.sh` (which failure stops which stage).
