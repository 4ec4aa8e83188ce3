------------------------------- MODULE MCSuites -------------------------------
(* Instances of Suites: the programs of harness/ as HarnessPrograms has     *)
(* them, with two of the cases of a test that are alike, so that the second *)
(* can follow one that failed or was worse.                                 *)
EXTENDS Suites, HarnessPrograms

AllPrograms ==
  [numerical_suite |-> numerical_suite, blas_full_suite |-> blas_full_suite,
   mpfr_full_suite |-> mpfr_full_suite, mpfr_smoke |-> mpfr_smoke, blas_smoke |-> blas_smoke,
   rvv_correctness |-> rvv_correctness, rvv_vs_scalar_bench |-> rvv_vs_scalar_bench,
   simd_audit_report |-> simd_audit_report]
=============================================================================
