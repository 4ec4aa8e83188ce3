------------------------------ MODULE Intrinsics ------------------------------
(***************************************************************************)
(* simd_fallbacks/rvforge_simd.h: the intrinsics of doubles that move,     *)
(* choose or combine lanes, as functions of structures.  A lane is an      *)
(* integer, on which fma and the sums of the code are exact.               *)
(***************************************************************************)
EXTENDS Integers

(* __m128d and the four lanes v of __m256d.                                *)
M128d(lo, hi)     == [lo |-> lo, hi |-> hi]
M256d(a, b, c, d) == [i \in 0 .. 3 |-> CASE i = 0 -> a [] i = 1 -> b [] i = 2 -> c [] i = 3 -> d]

Bit(imm8, i) == (imm8 \div 2^i) % 2 = 1

mm_hadd_pd(a, b)     == M128d(a.lo + a.hi, b.lo + b.hi)
mm_unpacklo_pd(a, b) == M128d(a.lo, b.lo)
mm_unpackhi_pd(a, b) == M128d(a.hi, b.hi)
mm_movedup_pd(a)     == M128d(a.lo, a.lo)

mm_shuffle_pd(a, b, imm8) ==
  M128d(IF Bit(imm8, 0) THEN a.hi ELSE a.lo, IF Bit(imm8, 1) THEN b.hi ELSE b.lo)

-----------------------------------------------------------------------------

mm256_set_pd(d, c, b, a) == M256d(a, b, c, d)

mm256_add_pd(a, b) == M256d(a[0] + b[0], a[1] + b[1], a[2] + b[2], a[3] + b[3])
mm256_sub_pd(a, b) == M256d(a[0] - b[0], a[1] - b[1], a[2] - b[2], a[3] - b[3])
mm256_addsub_pd(a, b) == M256d(a[0] - b[0], a[1] + b[1], a[2] - b[2], a[3] + b[3])

fma(x, y, z) == x * y + z
mm256_fmadd_pd(a, b, c) ==
  M256d(fma(a[0], b[0], c[0]), fma(a[1], b[1], c[1]), fma(a[2], b[2], c[2]), fma(a[3], b[3], c[3]))
mm256_fmsub_pd(a, b, c) ==
  M256d(fma(a[0], b[0], -c[0]), fma(a[1], b[1], -c[1]), fma(a[2], b[2], -c[2]), fma(a[3], b[3], -c[3]))

(* Slip: the sums of a first, as their order in the arguments suggests.    *)
MutHadd(a, b) == M256d(a[0] + a[1], a[2] + a[3], b[0] + b[1], b[2] + b[3])

mm256_hadd_pd(a, b) == M256d(a[0] + a[1], b[0] + b[1], a[2] + a[3], b[2] + b[3])

mm256_unpacklo_pd(a, b) == M256d(a[0], b[0], a[2], b[2])
mm256_unpackhi_pd(a, b) == M256d(a[1], b[1], a[3], b[3])
mm256_moveldup_pd(a)    == M256d(a[0], a[0], a[2], a[2])
mm256_movehdup_pd(a)    == M256d(a[1], a[1], a[3], a[3])

mm256_blend_pd(a, b, imm8) ==
  M256d(IF Bit(imm8, 0) THEN b[0] ELSE a[0], IF Bit(imm8, 1) THEN b[1] ELSE a[1],
        IF Bit(imm8, 2) THEN b[2] ELSE a[2], IF Bit(imm8, 3) THEN b[3] ELSE a[3])

(* src0 and src1 point at two lanes of a or of b.                          *)
mm256_permute2f128_pd(a, b, imm8) ==
  LET src0(i) == (IF Bit(imm8, 1) THEN b ELSE a)[(IF Bit(imm8, 0) THEN 2 ELSE 0) + i]
      src1(i) == (IF Bit(imm8, 5) THEN b ELSE a)[(IF Bit(imm8, 4) THEN 2 ELSE 0) + i]
  IN  M256d(src0(0), src0(1), src1(0), src1(1))

mm256_extractf128_pd(a, imm8)   == M128d(a[imm8 * 2], a[imm8 * 2 + 1])
mm256_insertf128_pd(a, b, imm8) == [a EXCEPT ![imm8 * 2] = b.lo, ![imm8 * 2 + 1] = b.hi]

-----------------------------------------------------------------------------

(* The reference: a vector of 256 bits is two of 128, and what combines    *)
(* lanes does it within each half as the 128-bit form does.                *)
Half(a, h) == M128d(a[2 * h], a[2 * h + 1])
ByHalves(r, f(_)) == \A h \in 0 .. 1 : Half(r, h) = f(h)

(* An unused half selector of permute2f128 (bits 3 and 7, which zero the   *)
(* half on an x86 and which the header does not look at) is left at zero.  *)
LanesAgree(a, b, imm8) ==
  /\ ByHalves(mm256_hadd_pd(a, b), LAMBDA h : mm_hadd_pd(Half(a, h), Half(b, h)))
  /\ ByHalves(mm256_unpacklo_pd(a, b), LAMBDA h : mm_unpacklo_pd(Half(a, h), Half(b, h)))
  /\ ByHalves(mm256_unpackhi_pd(a, b), LAMBDA h : mm_unpackhi_pd(Half(a, h), Half(b, h)))
  /\ ByHalves(mm256_moveldup_pd(a), LAMBDA h : mm_movedup_pd(Half(a, h)))
  /\ ByHalves(mm256_movehdup_pd(a), LAMBDA h : mm_unpackhi_pd(Half(a, h), Half(a, h)))
  /\ mm256_addsub_pd(a, b) = mm256_blend_pd(mm256_sub_pd(a, b), mm256_add_pd(a, b), 10)
  /\ mm256_fmsub_pd(a, b, b) = mm256_sub_pd(mm256_fmadd_pd(a, b, mm256_sub_pd(b, b)), b)
  /\ ByHalves(mm256_blend_pd(a, b, imm8),
       LAMBDA h : LET c == M128d(a[2 * h], b[2 * h])
                      d == M128d(a[2 * h + 1], b[2 * h + 1])
                  IN  mm_shuffle_pd(c, d, imm8 \div 4^h))
  /\ ByHalves(mm256_permute2f128_pd(a, b, imm8),
       LAMBDA h : mm256_extractf128_pd(IF Bit(imm8, 4 * h + 1) THEN b ELSE a,
                                       (imm8 \div 16^h) % 2))
  /\ \A i \in 0 .. 1 :
       LET r == mm256_insertf128_pd(a, Half(b, i), i) IN
       /\ mm256_extractf128_pd(r, i) = Half(b, i)
       /\ mm256_extractf128_pd(r, 1 - i) = Half(a, 1 - i)
  /\ mm256_set_pd(a[3], a[2], a[1], a[0]) = a
=============================================================================
