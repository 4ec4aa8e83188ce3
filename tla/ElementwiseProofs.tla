----------------------------- MODULE ElementwiseProofs -----------------------------
(***************************************************************************)
(* For every element count, stride and register length: a call updates     *)
(* each element exactly once (EveryElementOnce).  The inductive            *)
(* invariant is PrefixUpdated together with where the loop counter can be, *)
(* which rests on two facts: a strip is never empty and never runs past n  *)
(* (StripBounds), and distinct elements live in distinct cells             *)
(* (CellsDiffer).                                                          *)
(***************************************************************************)
EXTENDS Elementwise, TLAPS

-----------------------------------------------------------------------------

(* The unit grants at least one lane and never more than were asked for or *)
(* than a register group holds.                                            *)
LEMMA LegalVlBounds ==
  ASSUME NEW avl \in Nat \ {0}, NEW vlmax \in Nat \ {0},
         NEW vl \in LegalVl(avl, vlmax)
  PROVE  vl \in 1 .. avl /\ vl <= vlmax
BY DEF LegalVl

(* n & ~3L is the largest multiple of four that is at most n.              *)
LEMMA RoundDown ==
  ASSUME NEW q \in Nat
  PROVE  /\ q - (q % 4) \in Int
         /\ (q - (q % 4)) % 4 = 0
         /\ q - (q % 4) <= q
<1>1. q - (q % 4) \in Int
  OBVIOUS
<1>2. (q - (q % 4)) % 4 = 0
  OBVIOUS
<1>3. q - (q % 4) <= q
  OBVIOUS
<1>4. QED
  BY <1>1, <1>2, <1>3

(* A positive stride sends distinct elements to distinct offsets.          *)
LEMMA MulInjective ==
  ASSUME NEW a \in Int, NEW b \in Int, NEW c \in Nat \ {0}, a * c = b * c
  PROVE  a = b
<1>1. CASE a < b
  <2>1. b * c = a * c + (b - a) * c
    OBVIOUS
  <2>2. (b - a) * c >= 1
    BY <1>1
  <2>3. QED
    BY <2>1, <2>2
<1>2. CASE b < a
  <2>1. a * c = b * c + (a - b) * c
    OBVIOUS
  <2>2. (a - b) * c >= 1
    BY <1>2
  <2>3. QED
    BY <2>1, <2>2
<1>3. QED
  BY <1>1, <1>2

-----------------------------------------------------------------------------

(* Where the loop counter is at each point of the code.                    *)
CounterInPlace ==
  /\ pc = "enter" => i = 0
  /\ pc = "loop" => ~NothingToDo /\ (i = 0 \/ i <= call.n)
  /\ pc = "done" => IF NothingToDo THEN i = 0
                                   ELSE i >= call.n /\ (i = 0 \/ i <= call.n)
  /\ (call.kernel \in Unrolled /\ UnitStride /\ i < N4) => i % 4 = 0

IInv == TypeOK /\ PrefixUpdated /\ CounterInPlace

(* The arguments of a call, typed.                                         *)
LEMMA CallTypes ==
  ASSUME TypeOK
  PROVE  /\ call.n \in Int /\ call.n <= MaxN
         /\ call.vlmax \in Nat \ {0}
         /\ call.incx \in Nat \ {0} /\ call.incy \in Nat \ {0}
         /\ call.kernel \in Kernels
         /\ i \in Nat
<1>1. call.n \in Int /\ call.n <= MaxN
  BY KernelAssumption, VectorUnitAssumption DEF TypeOK, Calls
<1>2. call.vlmax \in VLMaxes /\ call.incx \in Incs /\ call.incy \in Incs
  BY DEF TypeOK, Calls
<1>3. call.vlmax \in Nat \ {0}
  BY <1>2, KernelAssumption, VectorUnitAssumption
<1>4. call.incx \in Nat \ {0} /\ call.incy \in Nat \ {0}
  BY <1>2, KernelAssumption, VectorUnitAssumption
<1>5. call.kernel \in Kernels
  BY DEF TypeOK, Calls
<1>6. i \in Nat
  BY KernelAssumption, VectorUnitAssumption DEF TypeOK
<1>7. QED
  BY <1>1, <1>3, <1>4, <1>5, <1>6

(* A strip handles at least one element and stops at n at the latest.      *)
LEMMA StripBounds ==
  ASSUME TypeOK, CounterInPlace, i < call.n, NEW len \in StripLengths
  PROVE  /\ len \in Nat \ {0}
         /\ i + len <= call.n
         /\ (call.kernel \in Unrolled /\ UnitStride /\ i + len < N4)
              => (i + len) % 4 = 0
<1>1. /\ i \in Nat /\ call.n \in Nat /\ call.vlmax \in Nat \ {0}
      /\ call.kernel \in Kernels
  BY CallTypes
<1>2. CASE ~UnitStride
  BY <1>1, <1>2 DEF StripLengths
<1>3. CASE UnitStride /\ call.kernel = "rvv_daxpy"
  <2>1. len \in LegalVl(call.n - i, call.vlmax)
    BY <1>3 DEF StripLengths, Unrolled
  <2>2. call.n - i \in Nat \ {0}
    BY <1>1
  <2>3. len \in 1 .. call.n - i
    BY <1>1, <2>1, <2>2, LegalVlBounds
  <2>4. QED
    BY <1>1, <1>3, <2>3 DEF Unrolled
<1>4. CASE UnitStride /\ call.kernel \in Unrolled
  <2>1. len = IF i < N4 THEN 4 ELSE 1
    <3>1. call.kernel \notin {"rvv_daxpy", "dcopy_n", "plain_daxpy"}
      BY <1>4 DEF Unrolled
    <3>2. QED
      BY <1>4, <3>1 DEF StripLengths
  <2>2. i < N4 => i % 4 = 0
    BY <1>4 DEF CounterInPlace
  <2>3. N4 \in Int /\ N4 % 4 = 0 /\ N4 <= call.n
    BY <1>1, RoundDown DEF N4
  <2>4. CASE i < N4
    <3>1. len = 4 /\ i % 4 = 0
      BY <2>1, <2>2, <2>4
    <3>2. i + 4 <= N4 /\ (i + 4) % 4 = 0
      BY <1>1, <2>3, <2>4, <3>1
    <3>3. QED
      BY <1>1, <2>3, <3>1, <3>2
  <2>5. CASE ~(i < N4)
    <3>1. len = 1
      BY <2>1, <2>5
    <3>2. ~(i + 1 < N4)
      BY <1>1, <2>3, <2>5
    <3>3. QED
      BY <1>1, <3>1, <3>2
  <2>6. QED
    BY <2>4, <2>5
<1>5. CASE UnitStride /\ call.kernel = "plain_daxpy"
  BY <1>1, <1>5 DEF StripLengths, Unrolled
<1>6. CASE UnitStride /\ call.kernel = "dcopy_n"
  BY <1>1, <1>6 DEF StripLengths, Unrolled
<1>7. QED
  BY <1>1, <1>2, <1>3, <1>4, <1>5, <1>6 DEF Kernels, Guarded, Unrolled

(* Distinct elements of a call live in distinct cells of y.                *)
LEMMA CellsDiffer ==
  ASSUME TypeOK, NEW j \in Int, NEW k \in Int, YCell(call, j) = YCell(call, k)
  PROVE  j = k
BY MulInjective, CallTypes DEF YCell

(* The invariant holds at the start.                                       *)
LEMMA InitIInv == Init => IInv
<1> SUFFICES ASSUME Init PROVE IInv
  OBVIOUS
<1> USE KernelAssumption, VectorUnitAssumption DEF Init
<1>1. TypeOK
  BY DEF TypeOK, Untouched
<1>2. PrefixUpdated
  BY DEF PrefixUpdated, OnceEach, Pairs, Untouched
<1>3. CounterInPlace
  BY DEF CounterInPlace
<1>4. QED
  BY <1>1, <1>2, <1>3 DEF IInv

(* A strip of elements is updated.                                         *)
LEMMA StripKeepsIInv ==
  ASSUME IInv, Strip
  PROVE  IInv'
<1> USE KernelAssumption, VectorUnitAssumption DEF IInv
<1>1. PICK len \in StripLengths : /\ updates' = Accumulate(i, i + len)
                                  /\ i' = i + len
  BY DEF Strip
<1>2. pc = "loop" /\ i < call.n /\ UNCHANGED <<call, pc>>
  BY DEF Strip
<1>3. /\ len \in Nat \ {0}
      /\ i + len <= call.n
      /\ (call.kernel \in Unrolled /\ UnitStride /\ i + len < N4)
           => (i + len) % 4 = 0
  BY <1>2, StripBounds
<1>4. i \in Nat /\ call.n \in Int /\ call.n <= MaxN
  BY DEF TypeOK, Calls
<1>5. TypeOK'
  <2>1. updates' \in [CellPairs -> Nat]
    BY <1>1 DEF Accumulate, TypeOK
  <2>2. QED
    BY <1>1, <1>2, <1>3, <1>4, <2>1 DEF TypeOK
<1>6. PrefixUpdated'
  <2>1. ASSUME NEW p \in CellPairs
        PROVE  (IF Pairs(call, i, i + len, p) THEN updates[p] + 1 ELSE updates[p])
               = IF Pairs(call, 0, i + len, p) THEN 1 ELSE 0
    <3>1. updates[p] = IF Pairs(call, 0, i, p) THEN 1 ELSE 0
      BY <2>1 DEF PrefixUpdated, OnceEach
    <3>2. ~(Pairs(call, 0, i, p) /\ Pairs(call, i, i + len, p))
      BY <1>3, <1>4, CellsDiffer DEF Pairs
    <3>3. Pairs(call, 0, i + len, p)
            <=> Pairs(call, 0, i, p) \/ Pairs(call, i, i + len, p)
      BY <1>3, <1>4 DEF Pairs
    <3>4. QED
      BY <3>1, <3>2, <3>3
  <2>2. Accumulate(i, i + len) = OnceEach(call, i + len)
    BY <2>1 DEF Accumulate, OnceEach
  <2>3. QED
    BY <1>1, <1>2, <2>2 DEF PrefixUpdated
<1>7. CounterInPlace'
  BY <1>1, <1>2, <1>3, <1>4
     DEF CounterInPlace, NothingToDo, UnitStride, N4
<1>8. QED
  BY <1>5, <1>6, <1>7

(* Every step keeps the invariant.                                         *)
LEMMA NextIInv == IInv /\ [Next]_vars => IInv'
<1> SUFFICES ASSUME IInv, [Next]_vars PROVE IInv'
  OBVIOUS
<1> USE KernelAssumption, VectorUnitAssumption
<1>1. CASE Enter
  BY <1>1 DEF Enter, IInv, TypeOK, Calls, PrefixUpdated, CounterInPlace, NothingToDo, UnitStride, N4
<1>2. CASE Strip
  BY <1>2, StripKeepsIInv
<1>3. CASE Return
  BY <1>3 DEF Return, IInv, TypeOK, PrefixUpdated, CounterInPlace, NothingToDo, UnitStride, N4
<1>4. CASE UNCHANGED vars
  BY <1>4 DEF vars, IInv, TypeOK, PrefixUpdated, CounterInPlace, NothingToDo, UnitStride, N4
<1>5. QED
  BY <1>1, <1>2, <1>3, <1>4 DEF Next, Done

(* Daxpy keeps its types, for every value of the constants.                *)
THEOREM ElementwiseTypeCorrect == Spec => []TypeOK
<1>1. IInv => TypeOK
  BY DEF IInv
<1>2. QED
  BY <1>1, InitIInv, NextIInv, PTL DEF Spec

(* Exactly the elements below the loop counter have been updated, however  *)
(* the unit splits the loop.                                               *)
THEOREM ElementwisePrefixUpdated == Spec => []PrefixUpdated
<1>1. IInv => PrefixUpdated
  BY DEF IInv
<1>2. QED
  BY <1>1, InitIInv, NextIInv, PTL DEF Spec

(* A call of daxpy that returns has updates alpha * x to y exactly once per  *)
(* element and touched nothing else.                                       *)
THEOREM ElementwiseEveryElementOnce == Spec => []EveryElementOnce
<1>1. IInv => EveryElementOnce
  <2> SUFFICES ASSUME IInv, pc = "done"
               PROVE  updates = IF NothingToDo THEN Untouched ELSE OnceEach(call, call.n)
    BY DEF EveryElementOnce
  <2> USE DEF IInv, TypeOK, Calls
  <2>1. CASE NothingToDo
    BY <2>1 DEF CounterInPlace, PrefixUpdated, OnceEach, Pairs, Untouched
  <2>2. CASE ~NothingToDo
    <3>1. 0 .. i - 1 = 0 .. call.n - 1
      BY <2>2 DEF CounterInPlace
    <3>2. QED
      BY <2>2, <3>1 DEF PrefixUpdated, OnceEach, Pairs
  <2>3. QED
    BY <2>1, <2>2
<1>2. QED
  BY <1>1, InitIInv, NextIInv, PTL DEF Spec
=============================================================================
