------------------------------- MODULE MpfrTests -------------------------------
(***************************************************************************)
(* The arithmetic of those tests of harness/mpfr_smoke.c and               *)
(* harness/mpfr_full_suite.c that do not come out as intended when MPFR    *)
(* rounds correctly.  Numbers are known by bounds on their binary          *)
(* exponents, or by their leading bits; the error of 256 bits of precision *)
(* is far below every threshold.                                           *)
(***************************************************************************)
EXTENDS Epsilon

Factorial[n \in Nat] == IF n = 0 THEN 1 ELSE n * Factorial[n - 1]

(* compute_exp_series at 1: term n is one by this.  term is divided by the *)
(* whole factorial in every turn, although it holds the quotient of the    *)
(* turn before.                                                            *)
SmokeDivisor[n \in Nat] == IF n = 0 THEN 1 ELSE SmokeDivisor[n - 1] * Factorial[n]

(* No divisor is smaller than it should be, so that what one term lacks no *)
(* other makes up for; the first that is too large, 12 for 6, costs 1/12.  *)
SmokeExpError == IF \A n \in 0 .. 5 : SmokeDivisor[n] = Factorial[n] THEN 0 ELSE Above

-----------------------------------------------------------------------------

NTERMS == 40

Log2Down(n) == CHOOSE k \in 0 .. n : 2^k <= n /\ n < 2^(k + 1)
Log2Up(n)   == IF n = 2^Log2Down(n) THEN Log2Down(n) ELSE Log2Down(n) + 1

SumLog2Down[n \in Nat] == IF n = 0 THEN 0 ELSE SumLog2Down[n - 1] + Log2Down(n)
SumLog2Up[n \in Nat]   == IF n = 0 THEN 0 ELSE SumLog2Up[n - 1] + Log2Up(n)

(* 1e-30, the threshold, is between 2^-100 and 2^-99.                      *)
BelowEpsMpfr == -100
AboveEpsMpfr == -99

(* test_exp_series_vs_builtin for an x of which 2^low <= |x| <= 2^up: the  *)
(* series stops before the term x^40 / 40!, which is all that is missing,  *)
(* or the least of it; twice that term is more than the rest of the series *)
(* for x up to 2.                                                          *)
ExpSeriesError(low, up) ==
  CASE NTERMS * low - SumLog2Up[NTERMS] >= AboveEpsMpfr -> Above
    [] up <= 1 /\ NTERMS * up - SumLog2Down[NTERMS] + 1 <= BelowEpsMpfr -> 0

-----------------------------------------------------------------------------

(* The significand of 1/3 is 101010..., without end.                       *)
Third == [i \in 1 .. 67 |-> i % 2]

Cut(bits, p) == [i \in 1 .. p |-> bits[i]]

(* One more in the last of p places; 1/3 has a zero to carry into.         *)
Next1(bits, p) ==
  LET z == CHOOSE i \in 1 .. p : bits[i] = 0 /\ \A j \in i + 1 .. p : bits[j] = 1
  IN  [i \in 1 .. p |-> CASE i < z -> bits[i] [] i = z -> 1 [] i > z -> 0]

(* n bits to the nearest number of p bits, ties to even.                   *)
Nearest(bits, n, p) ==
  IF bits[p + 1] = 1 /\ (bits[p] = 1 \/ \E i \in p + 2 .. n : bits[i] = 1)
  THEN Next1(bits, p) ELSE Cut(bits, p)

Greater(a, b, p) == \E i \in 1 .. p : a[i] > b[i] /\ \A j \in 1 .. i - 1 : a[j] = b[j]

(* test_rounding_modes: 1/3 is rounded to 64 bits in four modes, and the   *)
(* results are compared as doubles, to which mpfr_get_d rounds them.       *)
RoundingOrder(prec, double) ==
  LET get_d(bits) == Nearest(bits, prec, double)
      vn == get_d(Nearest(Third, 67, prec))
      vu == get_d(Next1(Third, prec))
      vd == get_d(Cut(Third, prec))
      vz == get_d(Cut(Third, prec))
  IN  /\ Greater(vu, vd, double)
      /\ ~Greater(vd, vn, double)
      /\ ~Greater(vn, vu, double)
      /\ vz = vd

RoundingError == IF RoundingOrder(64, 53) THEN 0 ELSE Above
=============================================================================
