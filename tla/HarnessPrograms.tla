---------------------------- MODULE HarnessPrograms ----------------------------
(***************************************************************************)
(* The programs of harness/, each by its tests in their order and by how   *)
(* it comes to its verdict.  A test is a sequence of cases (sizes,         *)
(* arguments, precisions); a case by what it looks at of the result:       *)
(*   scalar, array   the error of a number, or of every element;           *)
(*   ends            the first of an array's elements, not the ones within;*)
(*   norm            whether the norm of a matrix is a positive number;    *)
(*   unused          nothing: the library is not called, or what it        *)
(*                   returns is dropped;                                   *)
(* by the form of its comparison (less: error < eps passes; notMore:       *)
(* error > eps fails; below: error >= eps fails; none; the threshold of an *)
(* exact comparison is zero), and by the error it makes itself, when the   *)
(* library is right.                                                       *)
(***************************************************************************)
EXTENDS MpfrTests, Intrinsics

CONSTANT MaxSizes  (* How many of the cases of a test that are alike are run. *)
ASSUME MaxSizesAssumption == MaxSizes \in Nat \ {0}

Kind(looks, check, own) == [looks |-> looks, check |-> check, own |-> own]
Scalar(check) == Kind("scalar", check, 0)
Array(check)  == Kind("array", check, 0)
Unused        == Kind("unused", "less", 0)

Times(n, kind) == [i \in 1 .. (IF n < MaxSizes THEN n ELSE MaxSizes) |-> kind]

(* memory: the exit codes of a program that runs out of memory here.       *)
(* error: whether the largest error is recorded, or a zero, or nothing.    *)
(* label: whether the name is written to a buffer of the calling function. *)
Test(name, cases, error, memory) ==
  [name |-> name, cases |-> cases, error |-> error, memory |-> memory, label |-> FALSE]
Labelled(test) == [test EXCEPT !.label = TRUE]

(* table: a row for each test, or for each case, or no table.              *)
(* verdict: from rc, from the counts of the table, by the first case that  *)
(* fails, or passed whatever the cases say.                                *)
Program(tests, table, verdict) == [tests |-> tests, table |-> table, verdict |-> verdict]

Oom    == {1}         (* The allocation is checked: exit(1).               *)
Abort  == {134}       (* The allocator of GMP calls abort.                 *)
NullPd == {139}       (* The null pointer is used.                         *)

-----------------------------------------------------------------------------

NumericalVectors ==
  <<Test("DDOT_sizes", Times(14, Unused), "zero", Oom),
    Test("DNRM2_sizes", Times(6, Unused), "zero", Oom)>>
NumericalProducts ==
  <<Test("DGEMV", Times(4, Array("less")), "zero", Oom),
    Test("DGEMM", Times(4, Array("less")), "zero", Oom)>>
NumericalRest ==
  <<Test("DAXPY", Times(7, Array("less")), "zero", Oom),
    Test("DSYMV", Times(1, Array("less")), "worst", Oom),
    Test("DTRSV", Times(1, Array("less")), "worst", Oom),
    Test("SGEMM", Times(1, Array("less")), "worst", Oom)>>

numerical_suite ==
  Program(NumericalVectors \o NumericalProducts \o NumericalRest, "tests", "rc")

BlasLevel1 ==
  <<Test("DDOT", Times(18, Scalar("notMore")), "worst", Oom),
    Test("DAXPY", Times(7, Array("notMore")), "worst", Oom),
    Test("DNRM2", Times(6, Scalar("notMore")), "worst", Oom),
    Test("DSCAL", Times(1, Array("less")), "worst", Oom)>>
BlasLevel2 ==
  <<Test("DGEMV", Times(6, Array("notMore")), "worst", Oom \cup NullPd),
    Test("DSYMV", Times(4, Array("notMore")), "worst", Oom \cup NullPd),
    Test("DTRSV", Times(4, Array("notMore")), "worst", Oom \cup NullPd)>>
BlasLevel3 ==
  <<Test("DGEMM_NN", Times(5, Array("notMore")), "worst", NullPd),
    Test("DGEMM_TT", Times(1, Array("less")), "worst", NullPd),
    Test("SGEMM", Times(1, Array("less")), "worst", Oom \cup NullPd),
    Test("DSYRK", Times(1, Array("less")), "worst", NullPd)>>

blas_full_suite == Program(BlasLevel1 \o BlasLevel2 \o BlasLevel3, "tests", "rc")

-----------------------------------------------------------------------------

(* The arguments up to 2, then 10.                                         *)
ExpCases ==
  Times(6, Kind("scalar", "less", ExpSeriesError(-4, 1)))
    \o <<Kind("scalar", "less", ExpSeriesError(3, 4))>>

MpfrConstants ==
  <<Test("const_pi", Times(3, Scalar("less")), "none", Abort),
    Test("const_log2", Times(1, Scalar("less")), "none", Abort)>>
MpfrFunctions ==
  <<Test("exp_series", ExpCases, "none", Abort),
    Test("sqrt_newton", Times(7, Scalar("less")), "none", Abort),
    Test("trig_identities", Times(9, Scalar("less")), "none", Abort)>>
MpfrRounding ==
  <<Test("precision_levels", Times(6, Scalar("less")), "none", Abort),
    Test("rounding_modes", <<Kind("scalar", "less", RoundingError)>>, "none", Abort),
    Test("special_values", Times(4, Scalar("less")), "none", Abort)>>

mpfr_full_suite == Program(MpfrConstants \o MpfrFunctions \o MpfrRounding, "tests", "rc")

mpfr_smoke ==
  Program(<<Test("pi", <<Scalar("notMore")>>, "none", Abort),
            Test("exp", <<Kind("scalar", "notMore", SmokeExpError)>>, "none", Abort)>>,
          "none", "first")

blas_smoke ==
  Program(<<Test("ddot", <<Scalar("less")>>, "none", NullPd),
            Test("dnrm2", <<Scalar("less")>>, "none", NullPd),
            Test("dgemm", <<Kind("norm", "less", 0)>>, "none", Oom)>>,
          "none", "rc")

-----------------------------------------------------------------------------

RvvSizes ==
  <<Test("DDOT", Times(20, Scalar("notMore")), "none", Oom),
    Test("DAXPY", Times(10, Array("notMore")), "none", Oom),
    Test("DNRM2", Times(7, Scalar("notMore")), "none", Oom),
    Test("DGEMV", Times(6, Array("notMore")), "none", Oom),
    Test("DGEMM", Times(4, Array("notMore")), "none", Oom)>>

(* ddot and dnrm2 of one element and of zeros; daxpy of four with alpha 0. *)
RvvEdges ==
  <<Test("Edge cases", Times(4, Scalar("less")) \o <<Kind("ends", "less", 0)>>, "none", {})>>

rvv_correctness == Program(RvvSizes \o RvvEdges, "tests", "counts")

(* Times and errors, which nothing looks at.  The labels of dgemv and      *)
(* dgemm are local arrays of the functions that measure them.              *)
BenchVectors ==
  <<Test("DDOT", Times(7, Scalar("none")), "worst", Oom),
    Test("DAXPY", Times(5, Array("none")), "worst", Oom),
    Test("DNRM2", Times(4, Scalar("none")), "worst", Oom)>>
BenchMatrices ==
  <<Labelled(Test("DGEMV", Times(4, Array("none")), "worst", Oom)),
    Labelled(Test("DGEMM", Times(3, Array("none")), "worst", Oom))>>

rvv_vs_scalar_bench == Program(BenchVectors \o BenchMatrices, "cases", "always")

(* The audit computes with the header it is compiled with; the halves in   *)
(* its fmadd are doubled here.                                             *)
Expect(check, holds) == <<Kind("scalar", check, IF holds THEN 0 ELSE Above)>>

VerifyFmadd ==
  mm256_fmadd_pd(M256d(2, 4, 6, 8), M256d(2, 3, 4, 5), M256d(1, 1, 1, 1)) = M256d(5, 13, 25, 41)
VerifyHadd ==
  mm256_hadd_pd(M256d(1, 2, 3, 4), M256d(5, 6, 7, 8)) = M256d(3, 11, 7, 15)
VerifyShuffle(imm8, lo, hi) == mm_shuffle_pd(M128d(1, 2), M128d(3, 4), imm8) = M128d(lo, hi)

simd_audit_report ==
  Program(<<Test("fmadd", Expect("below", VerifyFmadd), "none", {}),
            Test("hadd", Expect("below", VerifyHadd), "none", {}),
            Test("shuffle",
                 Expect("less", VerifyShuffle(0, 1, 3)) \o Expect("less", VerifyShuffle(1, 2, 3))
                   \o Expect("less", VerifyShuffle(2, 1, 4)) \o Expect("less", VerifyShuffle(3, 2, 4)),
                 "none", {})>>,
          "none", "always")
=============================================================================
