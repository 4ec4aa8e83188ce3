--------------------------- MODULE BlockedDgemmProofs ---------------------------
(***************************************************************************)
(* For every size of a call and of a block: the blocked multiply only      *)
(* multiplies values of A and B that belong together, frees both buffers   *)
(* (BlocksReadWhatTheyPacked), and returns with C scaled once and every    *)
(* product in it once, whichever allocations fail (ImplementsGemm).        *)
(*                                                                         *)
(* The inductive invariant says where the counters are at each control     *)
(* point (CountersInRange), that a buffer holds the part of its matrix the *)
(* counters name from the time it is packed to the time it is packed again *)
(* (BpHoldsPanel, ApHoldsBlock), and that exactly the terms of the blocks  *)
(* finished so far are in C (ReachedTermsOnce).                            *)
(***************************************************************************)
EXTENDS BlockedDgemm, FiniteSetTheorems, TLAPS

InLoops == at \in {"jc", "pc", "ic", "block"}

CountersInRange ==
  /\ at \in {"alloc", "fallback", "jc", "pc", "ic", "block"}
       => call.guarded /\ call.m > 0 /\ call.n > 0 /\ call.k > 0
  /\ at \in {"enter", "alloc"} => jc = 0
  /\ at = "jc" => jc < call.n + NC
  /\ at \in {"pc", "ic", "block"} => jc < call.n
  /\ at = "pc" => pc < call.k + KC
  /\ at \in {"ic", "block"} => pc < call.k
  /\ at = "ic" => ic < call.m + MC
  /\ at = "block" => ic < call.m

BpHoldsPanel ==
  at \in {"ic", "block"} =>
    \A p \in 0 .. kc - 1, y \in 0 .. nc - 1 : BValue(p, y) = <<pc + p, jc + y>>

ApHoldsBlock ==
  at = "block" =>
    \A p \in 0 .. kc - 1, x \in 0 .. mc - 1 : AValue(p, x) = <<ic + x, pc + p>>

(* The blocks so far have been through term t.                             *)
Reached(t) ==
  \/ t[2] < jc
  \/ /\ at \in {"pc", "ic", "block"}
     /\ t[2] < jc + NC
     /\ \/ t[3] < pc
        \/ at \in {"ic", "block"} /\ t[3] < pc + KC /\ t[1] < ic

ReachedTermsOnce ==
  InLoops => terms = [t \in Terms |-> IF Reached(t) THEN Product(call)[t] ELSE 0]

(* C before the loops and when the call has returned.                      *)
ResultSoFar ==
  /\ at = "enter" => scaled = NotScaled
  /\ at \in {"alloc", "fallback"} \/ InLoops => scaled = ScaledOnce(call)
  /\ at \in {"enter", "alloc", "fallback"} => terms = NoTerms
  /\ at = "done" =>
       /\ scaled = IF Skipped(call) THEN NotScaled ELSE ScaledOnce(call)
       /\ terms = IF Skipped(call) THEN NoTerms ELSE Product(call)

BuffersLive ==
  /\ InLoops => live = {"Ap", "Bp"}
  /\ at \in {"enter", "alloc", "done"} => live = {}

FailureIsFinal == failed => at \in {"fallback", "done"} /\ ~Skipped(call)

IInv ==
  /\ TypeOK
  /\ CountersInRange
  /\ BpHoldsPanel
  /\ ApHoldsBlock
  /\ ReachedTermsOnce
  /\ ResultSoFar
  /\ BuffersLive
  /\ FailureIsFinal
  /\ ~mismatched
-----------------------------------------------------------------------------

(* Row p, column x of a buffer of w columns is cell p * w + x, and no      *)
(* other row and column is.                                                *)
LEMMA IndexRoundTrip ==
  ASSUME NEW w \in Nat \ {0}, NEW p \in Nat, NEW x \in 0 .. w - 1
  PROVE  /\ p * w + x \in Nat
         /\ (p * w + x) \div w = p
         /\ (p * w + x) % w = x
<1> DEFINE a == p * w + x
           d == a \div w
           r == a % w
<1>1. a \in Nat
  OBVIOUS
<1>2. d \in Int /\ r \in 0 .. w - 1 /\ a = w * d + r
  BY <1>1
<1> HIDE DEF d, r
<1>3. w * (d - p) = x - r
  BY <1>1, <1>2
<1>4. d = p
  <2>1. ASSUME d - p >= 1 PROVE FALSE
    <3>1. w * (d - p) >= w
      BY <1>2, <2>1
    <3>2. QED
      BY <1>2, <1>3, <3>1
  <2>2. ASSUME d - p <= -1 PROVE FALSE
    <3>1. w * (d - p) <= -w
      BY <1>2, <2>2
    <3>2. QED
      BY <1>2, <1>3, <3>1
  <2>3. QED
    BY <1>2, <2>1, <2>2
<1>5. w * (d - p) = 0
  BY <1>2, <1>4
<1>6. r = x
  BY <1>2, <1>3, <1>5
<1>7. QED
  BY <1>1, <1>4, <1>6 DEF d, r

(* The rows below h are the cells below h * w, and those of a buffer that  *)
(* is no smaller exist.                                                    *)
LEMMA IndexInBuffer ==
  ASSUME NEW w \in Nat \ {0}, NEW h \in Nat,
         NEW W \in Nat, NEW H \in Nat, w <= W, h <= H,
         NEW p \in 0 .. h - 1, NEW x \in 0 .. w - 1
  PROVE  /\ p * w + x < h * w
         /\ p * w + x \in 0 .. H * W - 1
<1>1. p * w <= (h - 1) * w
  BY SMT
<1>2. (h - 1) * w = h * w - w
  OBVIOUS
<1>3. p * w \in Nat /\ h * w \in Nat
  OBVIOUS
<1>4. p * w + x < h * w
  BY <1>1, <1>2, <1>3
<1>5. h * w <= H * w
  OBVIOUS
<1>6. H * w <= H * W
  OBVIOUS
<1>7. H * W \in Nat /\ H * w \in Nat
  OBVIOUS
<1>8. QED
  BY <1>3, <1>4, <1>5, <1>6, <1>7

(* A cell below h * w lies in a row below h.                               *)
LEMMA IndexSplits ==
  ASSUME NEW w \in Nat \ {0}, NEW h \in Nat, NEW a \in Nat, a < h * w
  PROVE  a \div w \in 0 .. h - 1 /\ a % w \in 0 .. w - 1
<1> DEFINE d == a \div w
           r == a % w
<1>1. d \in Int /\ r \in 0 .. w - 1 /\ a = w * d + r
  OBVIOUS
<1> HIDE DEF d, r
<1>2. ASSUME d >= h PROVE FALSE
  <2>1. w * d >= w * h
    BY <1>1, <1>2
  <2>2. w * h = h * w
    OBVIOUS
  <2>3. w * d \in Int /\ h * w \in Int
    BY <1>1
  <2>4. QED
    BY <1>1, <2>1, <2>2, <2>3
<1>3. ASSUME d <= -1 PROVE FALSE
  <2>1. w * d <= -w
    BY <1>1, <1>3
  <2>2. QED
    BY <1>1, <2>1
<1>4. QED
  BY <1>1, <1>2, <1>3 DEF d, r

-----------------------------------------------------------------------------

(* The arguments of a call, and the counters, typed.                       *)
LEMMA CallTypes ==
  ASSUME TypeOK
  PROVE  /\ call.m \in 0 .. MaxDim /\ call.n \in 0 .. MaxDim
         /\ call.k \in 0 .. MaxDim
         /\ call.guarded \in BOOLEAN /\ call.unrolled \in BOOLEAN
         /\ call.unrolled => ~call.guarded
         /\ jc \in Nat /\ pc \in Nat /\ ic \in Nat
BY GemmAssumption, BlockedDgemmAssumption DEF TypeOK, Calls

(* A block is as large as the buffers allow or as what is left does.       *)
LEMMA Extents ==
  ASSUME TypeOK
  PROVE  /\ jc < call.n => /\ nc \in 1 .. NC
                           /\ nc = NC \/ jc + nc = call.n
                           /\ jc + nc <= call.n
         /\ pc < call.k => /\ kc \in 1 .. KC
                           /\ kc = KC \/ pc + kc = call.k
                           /\ pc + kc <= call.k
         /\ ic < call.m => /\ mc \in 1 .. MC
                           /\ mc = MC \/ ic + mc = call.m
                           /\ ic + mc <= call.m
BY CallTypes, GemmAssumption, BlockedDgemmAssumption DEF nc, kc, mc, Smaller

(* What the caller wants of a term: once, if it is of C and of the inner   *)
(* dimension.                                                              *)
LEMMA ProductOf ==
  ASSUME NEW c, NEW t \in Terms
  PROVE  Product(c)[t] = IF InC(c, t[1], t[2]) /\ t[3] < c.k THEN 1 ELSE 0
BY DEF Product

(* What the caller wants, typed.                                           *)
LEMMA ProductType ==
  ASSUME NEW c
  PROVE  /\ Product(c) \in [Terms -> Nat]
         /\ ScaledOnce(c) \in [Cells -> Nat]
BY DEF Product, ScaledOnce

(* A term by its row, its column and its place in the inner dimension.     *)
LEMMA TermIndices ==
  ASSUME NEW t \in Terms
  PROVE  t[1] \in Dims /\ t[2] \in Dims /\ t[3] \in Dims
         /\ t[1] \in Nat /\ t[2] \in Nat /\ t[3] \in Nat
         /\ t[1] < MaxDim /\ t[2] < MaxDim /\ t[3] < MaxDim
BY GemmAssumption DEF Terms, Dims

(* A call with no rows or no columns has nothing to scale and nothing to   *)
(* add.                                                                    *)
LEMMA EmptyCall ==
  ASSUME TypeOK, call.m = 0 \/ call.n = 0
  PROVE  ScaledOnce(call) = NotScaled /\ Product(call) = NoTerms
<1>1. \A x \in Dims, y \in Dims : ~InC(call, x, y)
  BY DEF InC, Dims
<1>2. \A p \in Cells : p[1] \in Dims /\ p[2] \in Dims
  BY DEF Cells
<1>3. ScaledOnce(call) = NotScaled
  BY <1>1, <1>2 DEF ScaledOnce, NotScaled
<1>4. Product(call) = NoTerms
  BY <1>1, TermIndices DEF Product, NoTerms
<1>5. QED
  BY <1>3, <1>4

-----------------------------------------------------------------------------

(* The plain loops add every product to C once.                            *)
LEMMA TripleLoopAddsProduct ==
  ASSUME TypeOK
  PROVE  TripleLoop(NoTerms) = Product(call)
<1> DEFINE R(t) == {p \in 0 .. call.k - 1 : t[3] = p}
           E(t) == IF Visits(t) THEN Cardinality(R(t)) ELSE 0
<1>1. ASSUME NEW t \in Terms
      PROVE  NoTerms[t] + E(t) = Product(call)[t]
  <2>1. t[3] \in Nat /\ call.k \in Nat
    BY TermIndices, CallTypes
  <2>2. R(t) = IF t[3] < call.k THEN {t[3]} ELSE {}
    BY <2>1
  <2>3. Cardinality(R(t)) = IF t[3] < call.k THEN 1 ELSE 0
    BY <2>2, FS_Singleton, FS_EmptySet
  <2> HIDE DEF R
  <2>4. E(t) = IF t[1] < call.m /\ t[2] < call.n /\ t[3] < call.k THEN 1 ELSE 0
    BY <2>3 DEF Visits
  <2>5. NoTerms[t] = 0
    BY DEF NoTerms
  <2> HIDE DEF E
  <2>6. QED
    BY <2>4, <2>5, ProductOf DEF InC
<1>2. TripleLoop(NoTerms) = [t \in Terms |-> NoTerms[t] + E(t)]
  BY DEF TripleLoop, Plus
<1> HIDE DEF E
<1>3. TripleLoop(NoTerms) = [t \in Terms |-> Product(call)[t]]
  BY <1>1, <1>2
<1>4. QED
  BY <1>3 DEF Product

(* The turns over four products cover those below k4 once each, and the    *)
(* remainder loop the others.                                              *)
LEMMA UnrolledTurns ==
  ASSUME NEW k \in Nat, NEW q \in Nat
  PROVE  LET r == k - (k % 4) IN
         /\ {p \in {a \in 0 .. r - 1 : a % 4 = 0} : q \in p .. p + 3}
              = IF q < r THEN {q - (q % 4)} ELSE {}
         /\ {p \in r .. k - 1 : q = p} = IF r <= q /\ q < k THEN {q} ELSE {}
<1> DEFINE r == k - (k % 4)
           s == q - (q % 4)
           S == {p \in {a \in 0 .. r - 1 : a % 4 = 0} : q \in p .. p + 3}
           R == {p \in r .. k - 1 : q = p}
<1>1. r \in Nat /\ r % 4 = 0 /\ r <= k
  OBVIOUS
<1>2. s \in Nat /\ s % 4 = 0 /\ q \in s .. s + 3
  OBVIOUS
<1> HIDE DEF r, s
<1>3. ASSUME NEW p \in Nat, p % 4 = 0, q \in p .. p + 3
      PROVE  p = s
  BY <1>2, <1>3
<1>4. CASE q < r
  <2>1. s \in 0 .. r - 1
    BY <1>1, <1>2, <1>4
  <2>2. S = {s}
    BY <1>1, <1>2, <1>3, <2>1
  <2>3. R = {}
    BY <1>1, <1>4
  <2>4. QED
    BY <1>1, <1>4, <2>2, <2>3 DEF r, s
<1>5. CASE ~(q < r)
  <2>1. ASSUME NEW p \in S PROVE FALSE
    <3>1. p \in Nat /\ p % 4 = 0 /\ p < r /\ q <= p + 3
      BY <1>1, <2>1
    <3>2. QED
      BY <1>1, <1>5, <3>1
  <2>2. S = {}
    BY <2>1
  <2>3. R = IF q < k THEN {q} ELSE {}
    BY <1>1, <1>5
  <2>4. QED
    BY <1>1, <1>5, <2>2, <2>3 DEF r
<1>6. QED
  BY <1>4, <1>5

(* So the loops unrolled by four add every product to C once.              *)
LEMMA UnrolledLoopAddsProduct ==
  ASSUME TypeOK
  PROVE  UnrolledLoop(NoTerms) = Product(call)
<1> DEFINE S(t) == {p \in {a \in 0 .. k4 - 1 : a % 4 = 0} : t[3] \in p .. p + 3}
           R(t) == {p \in k4 .. call.k - 1 : t[3] = p}
           E(t) == IF Visits(t)
                   THEN Cardinality(S(t)) + Cardinality(R(t)) ELSE 0
<1>1. ASSUME NEW t \in Terms
      PROVE  NoTerms[t] + E(t) = Product(call)[t]
  <2>1. t[3] \in Nat /\ call.k \in Nat
    BY TermIndices, CallTypes
  <2>2. /\ S(t) = IF t[3] < k4 THEN {t[3] - (t[3] % 4)} ELSE {}
        /\ R(t) = IF k4 <= t[3] /\ t[3] < call.k THEN {t[3]} ELSE {}
    BY <2>1, UnrolledTurns DEF k4
  <2>3. k4 \in Nat /\ k4 <= call.k
    BY <2>1 DEF k4
  <2>4. /\ Cardinality(S(t)) = IF t[3] < k4 THEN 1 ELSE 0
        /\ Cardinality(R(t)) = IF k4 <= t[3] /\ t[3] < call.k THEN 1 ELSE 0
    BY <2>2, FS_Singleton, FS_EmptySet
  <2> HIDE DEF S, R
  <2>5. NoTerms[t] = 0
    BY DEF NoTerms
  <2>6. E(t) = IF t[1] < call.m /\ t[2] < call.n /\ t[3] < call.k THEN 1 ELSE 0
    BY <2>1, <2>3, <2>4 DEF Visits
  <2> HIDE DEF E
  <2>7. QED
    BY <2>5, <2>6, ProductOf DEF InC
<1>2. UnrolledLoop(NoTerms) = [t \in Terms |-> NoTerms[t] + E(t)]
  BY DEF UnrolledLoop, Plus
<1> HIDE DEF E
<1>3. UnrolledLoop(NoTerms) = [t \in Terms |-> Product(call)[t]]
  BY <1>1, <1>2
<1>4. QED
  BY <1>3 DEF Product

(* Scaling C once, after which every cell of it has been scaled once.      *)
LEMMA ScaleAllOnce ==
  ASSUME TypeOK
  PROVE  ScaleAll(NotScaled) = ScaledOnce(call)
BY DEF ScaleAll, NotScaled, ScaledOnce, Visits, InC

-----------------------------------------------------------------------------

(* The invariant holds at the start.                                       *)
LEMMA InitIInv == Init => IInv
<1> SUFFICES ASSUME Init PROVE IInv
  OBVIOUS
<1> USE GemmAssumption, BlockedDgemmAssumption DEF Init
<1>1. TypeOK
  <2>1. NotScaled \in [Cells -> Nat] /\ NoTerms \in [Terms -> Nat]
    BY DEF NotScaled, NoTerms
  <2>2. Junk \in Positions
    BY DEF Positions
  <2>3. /\ jc \in 0 .. MaxDim + NC /\ pc \in 0 .. MaxDim + KC
        /\ ic \in 0 .. MaxDim + MC
    OBVIOUS
  <2>4. QED
    BY <2>1, <2>2, <2>3 DEF TypeOK
<1>2. CountersInRange /\ BpHoldsPanel /\ ApHoldsBlock /\ ReachedTermsOnce
  BY DEF CountersInRange, BpHoldsPanel, ApHoldsBlock, ReachedTermsOnce, InLoops
<1>3. ResultSoFar /\ BuffersLive /\ FailureIsFinal
  BY DEF ResultSoFar, BuffersLive, FailureIsFinal, InLoops
<1>4. QED
  BY <1>1, <1>2, <1>3 DEF IInv

(* A step that adds nothing to C and moves no counter past a term of the   *)
(* product.                                                                *)
LEMMA NothingReached ==
  ASSUME ReachedTermsOnce, InLoops,
         UNCHANGED <<call, terms>>,
         \A t \in Terms : Product(call)[t] # 0 => (Reached(t) <=> Reached(t)')
  PROVE  ReachedTermsOnce'
<1>1. \A t \in Terms : (IF Reached(t) THEN Product(call)[t] ELSE 0)
                         = IF Reached(t)' THEN Product(call)[t] ELSE 0
  OBVIOUS
<1>2. terms = [t \in Terms |-> IF Reached(t)' THEN Product(call)[t] ELSE 0]
  BY <1>1 DEF ReachedTermsOnce
<1>3. QED
  BY <1>2 DEF ReachedTermsOnce

(* An empty call returns at once.                                          *)
LEMMA SkipKeepsIInv ==
  ASSUME IInv, Skip
  PROVE  IInv'
<1> USE DEF IInv, Skip
<1>1. TypeOK'
  BY DEF TypeOK
<1>2. CountersInRange' /\ BpHoldsPanel' /\ ApHoldsBlock' /\ ReachedTermsOnce'
  BY DEF CountersInRange, BpHoldsPanel, ApHoldsBlock, ReachedTermsOnce, InLoops
<1>3. ResultSoFar'
  BY DEF ResultSoFar, InLoops, Skipped
<1>4. BuffersLive' /\ FailureIsFinal'
  BY DEF BuffersLive, FailureIsFinal, InLoops
<1>5. QED
  BY <1>1, <1>2, <1>3, <1>4

(* The loops without blocks, called directly.                              *)
LEMMA NaiveKeepsIInv ==
  ASSUME IInv, Naive
  PROVE  IInv'
<1> USE DEF IInv, Naive
<1>1. scaled' = ScaledOnce(call) /\ terms' = Product(call)
  BY ScaleAllOnce, TripleLoopAddsProduct, UnrolledLoopAddsProduct DEF ResultSoFar
<1>2. TypeOK'
  BY <1>1, ProductType DEF TypeOK
<1>3. CountersInRange' /\ BpHoldsPanel' /\ ApHoldsBlock' /\ ReachedTermsOnce'
  BY DEF CountersInRange, BpHoldsPanel, ApHoldsBlock, ReachedTermsOnce, InLoops
<1>4. ResultSoFar'
  <2>1. Skipped(call) => scaled' = NotScaled /\ terms' = NoTerms
    BY <1>1, EmptyCall DEF Skipped
  <2>2. QED
    BY <1>1, <2>1 DEF ResultSoFar, InLoops
<1>5. BuffersLive' /\ FailureIsFinal'
  BY DEF BuffersLive, FailureIsFinal, InLoops
<1>6. QED
  BY <1>2, <1>3, <1>4, <1>5

(* C is scaled, before anything is allocated.                              *)
LEMMA ScaleKeepsIInv ==
  ASSUME IInv, Scale
  PROVE  IInv'
<1> USE DEF IInv, Scale
<1>1. scaled' = ScaledOnce(call)
  BY ScaleAllOnce DEF ResultSoFar
<1>2. TypeOK'
  BY <1>1, ProductType DEF TypeOK
<1>3. CountersInRange' /\ BpHoldsPanel' /\ ApHoldsBlock' /\ ReachedTermsOnce'
  BY DEF CountersInRange, BpHoldsPanel, ApHoldsBlock, ReachedTermsOnce, InLoops
<1>4. ResultSoFar' /\ BuffersLive' /\ FailureIsFinal'
  BY <1>1 DEF ResultSoFar, BuffersLive, FailureIsFinal, InLoops
<1>5. QED
  BY <1>2, <1>3, <1>4

(* The two buffers are allocated, or one of them is not.                   *)
LEMMA AllocateKeepsIInv ==
  ASSUME IInv, Allocate
  PROVE  IInv'
<1> USE DEF IInv
<1>1. /\ at = "alloc"
      /\ UNCHANGED <<call, jc, pc, ic, Ap, Bp, scaled, terms, mismatched>>
  BY DEF Allocate
<1>2. call.guarded /\ call.m > 0 /\ call.n > 0 /\ call.k > 0 /\ jc = 0
  BY <1>1 DEF CountersInRange
<1>3. ~Skipped(call)
  BY <1>2, CallTypes DEF Skipped
<1>4. CASE failed' = TRUE /\ at' = "fallback" /\ live' \subseteq {"Ap", "Bp"}
  <2>1. TypeOK'
    BY <1>1, <1>4 DEF TypeOK
  <2>2. CountersInRange' /\ BpHoldsPanel' /\ ApHoldsBlock' /\ ReachedTermsOnce'
    BY <1>1, <1>2, <1>4
       DEF CountersInRange, BpHoldsPanel, ApHoldsBlock, ReachedTermsOnce, InLoops
  <2>3. ResultSoFar' /\ BuffersLive' /\ FailureIsFinal'
    BY <1>1, <1>3, <1>4 DEF ResultSoFar, BuffersLive, FailureIsFinal, InLoops, Skipped
  <2>4. QED
    BY <1>1, <2>1, <2>2, <2>3
<1>5. CASE live' = {"Ap", "Bp"} /\ at' = "jc" /\ failed' = FALSE
  <2>1. TypeOK'
    BY <1>1, <1>5 DEF TypeOK
  <2>2. CountersInRange' /\ BpHoldsPanel' /\ ApHoldsBlock'
    BY <1>1, <1>2, <1>5, CallTypes, GemmAssumption, BlockedDgemmAssumption
       DEF CountersInRange, BpHoldsPanel, ApHoldsBlock
  <2>3. ReachedTermsOnce'
    <3>1. \A t \in Terms : ~Reached(t)'
      BY <1>1, <1>2, <1>5, TermIndices DEF Reached
    <3>2. terms = [t \in Terms |-> IF Reached(t)' THEN Product(call)[t] ELSE 0]
      BY <1>1, <3>1 DEF ResultSoFar, NoTerms
    <3>3. QED
      BY <1>1, <1>5, <3>2 DEF ReachedTermsOnce
  <2>4. ResultSoFar' /\ BuffersLive' /\ FailureIsFinal'
    BY <1>1, <1>5 DEF ResultSoFar, BuffersLive, FailureIsFinal, InLoops
  <2>5. QED
    BY <1>1, <2>1, <2>2, <2>3, <2>4
<1>6. QED
  BY <1>4, <1>5, GemmAssumption, BlockedDgemmAssumption DEF Allocate

(* The fallback frees what there is, and the plain loops add the product.  *)
LEMMA FallBackKeepsIInv ==
  ASSUME IInv, FallBack
  PROVE  IInv'
<1> USE DEF IInv
<1>1. /\ at = "fallback" /\ at' = "done" /\ terms' = TripleLoop(terms)
      /\ UNCHANGED <<call, jc, pc, ic, Ap, Bp, failed, scaled, mismatched>>
  BY DEF FallBack
<1>2. call.guarded /\ call.m > 0 /\ call.n > 0 /\ call.k > 0
  BY <1>1 DEF CountersInRange
<1>3. ~Skipped(call)
  BY <1>2, CallTypes DEF Skipped
<1>4. terms' = Product(call) /\ scaled = ScaledOnce(call)
  BY <1>1, TripleLoopAddsProduct DEF ResultSoFar
<1>5. live' = {}
  BY DEF FallBack, TypeOK
<1>6. TypeOK'
  BY <1>1, <1>4, <1>5, ProductType DEF TypeOK
<1>7. CountersInRange' /\ BpHoldsPanel' /\ ApHoldsBlock' /\ ReachedTermsOnce'
  BY <1>1 DEF CountersInRange, BpHoldsPanel, ApHoldsBlock, ReachedTermsOnce, InLoops
<1>8. ResultSoFar' /\ BuffersLive' /\ FailureIsFinal'
  BY <1>1, <1>3, <1>4, <1>5
     DEF ResultSoFar, BuffersLive, FailureIsFinal, InLoops, Skipped
<1>9. QED
  BY <1>1, <1>6, <1>7, <1>8

(* The next block of columns, or the end of the call.                      *)
LEMMA NextColumnsKeepsIInv ==
  ASSUME IInv, NextColumns
  PROVE  IInv'
<1> USE DEF IInv
<1>1. /\ at = "jc"
      /\ UNCHANGED <<call, jc, ic, Ap, Bp, failed, scaled, terms, mismatched>>
  BY DEF NextColumns
<1>2. /\ jc \in Nat /\ pc \in Nat /\ call.n \in Nat /\ call.k \in Nat
      /\ call.m \in Nat
      /\ KC \in Nat \ {0} /\ NC \in Nat \ {0}
  BY CallTypes, GemmAssumption, BlockedDgemmAssumption
<1>3. /\ call.guarded /\ call.m > 0 /\ call.n > 0 /\ call.k > 0
      /\ live = {"Ap", "Bp"} /\ ~failed
  BY <1>1 DEF CountersInRange, BuffersLive, FailureIsFinal, InLoops
<1>4. CASE jc < call.n /\ pc' = 0 /\ at' = "pc" /\ live' = live
  <2>1. TypeOK'
    BY <1>1, <1>2, <1>4, GemmAssumption DEF TypeOK
  <2>2. CountersInRange' /\ BpHoldsPanel' /\ ApHoldsBlock'
    BY <1>1, <1>2, <1>3, <1>4 DEF CountersInRange, BpHoldsPanel, ApHoldsBlock
  <2>3. \A t \in Terms : Reached(t) <=> Reached(t)'
    BY <1>1, <1>2, <1>4, TermIndices DEF Reached
  <2>4. ReachedTermsOnce'
    BY <1>1, <2>3, NothingReached DEF InLoops
  <2>5. ResultSoFar' /\ BuffersLive' /\ FailureIsFinal'
    BY <1>1, <1>3, <1>4 DEF ResultSoFar, BuffersLive, FailureIsFinal, InLoops
  <2>6. QED
    BY <1>1, <2>1, <2>2, <2>4, <2>5
<1>5. CASE ~(jc < call.n) /\ live' = {} /\ at' = "done" /\ pc' = pc
  <2>1. TypeOK'
    BY <1>1, <1>5 DEF TypeOK
  <2>2. CountersInRange' /\ BpHoldsPanel' /\ ApHoldsBlock' /\ ReachedTermsOnce'
    BY <1>5 DEF CountersInRange, BpHoldsPanel, ApHoldsBlock, ReachedTermsOnce, InLoops
  <2>3. \A t \in Terms :
          (IF Reached(t) THEN Product(call)[t] ELSE 0) = Product(call)[t]
    <3> SUFFICES ASSUME NEW t \in Terms, ~Reached(t)
                 PROVE  Product(call)[t] = 0
      OBVIOUS
    <3>1. ~(t[2] < call.n)
      BY <1>2, <1>5, TermIndices DEF Reached
    <3>2. QED
      BY <3>1, ProductOf DEF InC
  <2>4. terms = [t \in Terms |-> Product(call)[t]]
    BY <1>1, <2>3 DEF ReachedTermsOnce, InLoops
  <2>5. terms = Product(call)
    BY <2>4 DEF Product
  <2>6. ~Skipped(call)
    BY <1>2, <1>3 DEF Skipped
  <2>7. ResultSoFar'
    BY <1>1, <1>5, <2>5, <2>6 DEF ResultSoFar, InLoops, Skipped
  <2>8. BuffersLive' /\ FailureIsFinal'
    BY <1>1, <1>3, <1>5 DEF BuffersLive, FailureIsFinal, InLoops
  <2>9. QED
    BY <1>1, <2>1, <2>2, <2>7, <2>8
<1>6. QED
  BY <1>4, <1>5 DEF NextColumns

(* What the facts about the loops have in common with every step inside    *)
(* them.                                                                   *)
LEMMA InsideLoops ==
  ASSUME IInv, InLoops
  PROVE  /\ call.guarded /\ call.m > 0 /\ call.n > 0 /\ call.k > 0
         /\ call.m \in Nat /\ call.n \in Nat /\ call.k \in Nat
         /\ call.m <= MaxDim /\ call.n <= MaxDim /\ call.k <= MaxDim
         /\ jc \in Nat /\ pc \in Nat /\ ic \in Nat
         /\ live = {"Ap", "Bp"} /\ ~failed
         /\ scaled = ScaledOnce(call)
<1>1. call.guarded /\ call.m > 0 /\ call.n > 0 /\ call.k > 0
  BY DEF IInv, InLoops, CountersInRange
<1>2. live = {"Ap", "Bp"} /\ ~failed /\ scaled = ScaledOnce(call)
  BY DEF IInv, InLoops, BuffersLive, FailureIsFinal, ResultSoFar
<1>3. QED
  BY <1>1, <1>2, CallTypes, GemmAssumption DEF IInv

(* A step from one control point of the loops to another that frees no     *)
(* buffer, does not touch C's scaling and meets no failure.                *)
LEMMA StaysInside ==
  ASSUME IInv, InLoops, InLoops', UNCHANGED <<call, live, failed, scaled>>
  PROVE  ResultSoFar' /\ BuffersLive' /\ FailureIsFinal'
<1>1. live = {"Ap", "Bp"} /\ ~failed /\ scaled = ScaledOnce(call)
  BY InsideLoops
<1>2. at' \notin {"enter", "alloc", "fallback", "done"}
  BY DEF InLoops
<1>3. QED
  BY <1>1, <1>2 DEF ResultSoFar, BuffersLive, FailureIsFinal

(* The panel of B is packed.                                               *)
LEMMA PackBKeepsIInv ==
  ASSUME IInv, PackB
  PROVE  IInv'
<1> USE GemmAssumption, BlockedDgemmAssumption
<1>1. /\ at = "pc" /\ pc < call.k /\ ic' = 0 /\ at' = "ic"
      /\ UNCHANGED <<call, jc, pc, Ap, live, failed, scaled, terms, mismatched>>
  BY DEF PackB
<1>2. Bp' = [a \in DOMAIN Bp |->
               IF a < kc * nc THEN <<pc + a \div nc, jc + (a % nc)>> ELSE Bp[a]]
  BY DEF PackB
<1>3. InLoops /\ InLoops'
  BY <1>1 DEF InLoops
<1>4. /\ call.m \in Nat /\ call.n \in Nat /\ call.k \in Nat
      /\ call.n <= MaxDim /\ call.k <= MaxDim
      /\ jc \in Nat /\ pc \in Nat
  BY <1>3, InsideLoops
<1>5. jc < call.n
  BY <1>1 DEF IInv, CountersInRange
<1>6. /\ nc \in 1 .. NC /\ jc + nc <= call.n
      /\ kc \in 1 .. KC /\ pc + kc <= call.k
  BY <1>1, <1>5, Extents DEF IInv
<1>7. nc \in Nat \ {0} /\ kc \in Nat /\ nc' = nc /\ kc' = kc
  BY <1>1, <1>6 DEF nc, kc
<1>8. DOMAIN Bp = 0 .. KC * NC - 1 /\ KC * NC \in Nat
  BY DEF IInv, TypeOK, BpSize
<1>9. TypeOK'
  <2>1. ASSUME NEW a \in DOMAIN Bp
        PROVE  Bp'[a] \in Positions
    <3>1. CASE a < kc * nc
      <4>a. a \in Nat
        BY <1>8
      <4>b. a < kc * nc
        BY <1>7, <3>1
      <4>1. a \div nc \in 0 .. kc - 1 /\ a % nc \in 0 .. nc - 1
        BY <1>7, <4>a, <4>b, IndexSplits
      <4>2. pc + a \div nc \in Dims /\ jc + (a % nc) \in Dims
        BY <1>4, <1>6, <1>7, <4>1 DEF Dims
      <4>3. QED
        BY <1>2, <3>1, <4>2 DEF Positions, Cells
    <3>2. CASE ~(a < kc * nc)
      BY <1>2, <3>2 DEF IInv, TypeOK
    <3>3. QED
      BY <3>1, <3>2
  <2>2. Bp' \in [0 .. BpSize - 1 -> Positions]
    BY <1>2, <1>8, <2>1 DEF BpSize
  <2>3. ic' \in 0 .. MaxDim + MC
    BY <1>1
  <2>4. QED
    BY <1>1, <2>2, <2>3 DEF IInv, TypeOK
<1>10. BpHoldsPanel'
  <2>1. ASSUME NEW p \in 0 .. kc - 1, NEW y \in 0 .. nc - 1
        PROVE  Bp'[p * nc + y] = <<pc + p, jc + y>>
    <3>0. nc <= NC /\ kc <= KC /\ NC \in Nat /\ KC \in Nat
      BY <1>6, <1>7
    <3>1. p * nc + y < kc * nc /\ p * nc + y \in 0 .. KC * NC - 1
      BY <1>7, <3>0, IndexInBuffer
    <3>2. (p * nc + y) \div nc = p /\ (p * nc + y) % nc = y
      BY <1>7, IndexRoundTrip
    <3>3. QED
      BY <1>2, <1>8, <3>1, <3>2
  <2>2. QED
    BY <1>1, <1>7, <2>1 DEF BpHoldsPanel, BValue
<1>11. CountersInRange' /\ ApHoldsBlock'
  BY <1>1, <1>3, <1>4, <1>5, InsideLoops DEF CountersInRange, ApHoldsBlock
<1>12. \A t \in Terms : Reached(t) <=> Reached(t)'
  BY <1>1, <1>4, TermIndices DEF Reached
<1>13. ReachedTermsOnce'
  BY <1>1, <1>3, <1>12, NothingReached DEF IInv
<1>14. ResultSoFar' /\ BuffersLive' /\ FailureIsFinal'
  BY <1>1, <1>3, StaysInside
<1>15. QED
  BY <1>1, <1>9, <1>10, <1>11, <1>13, <1>14 DEF IInv

(* The inner dimension is covered: on to the next columns.                 *)
LEMMA EndPanelsKeepsIInv ==
  ASSUME IInv, EndPanels
  PROVE  IInv'
<1> USE GemmAssumption, BlockedDgemmAssumption
<1>1. /\ at = "pc" /\ ~(pc < call.k) /\ jc' = jc + NC /\ at' = "jc"
      /\ UNCHANGED <<call, pc, ic, Ap, Bp, live, failed, scaled, terms, mismatched>>
  BY CallTypes DEF EndPanels, IInv
<1>2. InLoops /\ InLoops'
  BY <1>1 DEF InLoops
<1>3. /\ call.m \in Nat /\ call.n \in Nat /\ call.k \in Nat
      /\ call.n <= MaxDim /\ jc \in Nat /\ pc \in Nat
  BY <1>2, InsideLoops
<1>4. jc < call.n
  BY <1>1 DEF IInv, CountersInRange
<1>5. TypeOK'
  <2>1. jc' \in 0 .. MaxDim + NC
    BY <1>1, <1>3, <1>4
  <2>2. QED
    BY <1>1, <2>1 DEF IInv, TypeOK
<1>6. CountersInRange' /\ BpHoldsPanel' /\ ApHoldsBlock'
  BY <1>1, <1>2, <1>3, <1>4, InsideLoops DEF CountersInRange, BpHoldsPanel, ApHoldsBlock
<1>7. ASSUME NEW t \in Terms, Product(call)[t] # 0
      PROVE  Reached(t) <=> Reached(t)'
  <2>1. t[3] < call.k
    BY <1>7, ProductOf
  <2>2. QED
    BY <1>1, <1>3, <2>1, TermIndices DEF Reached
<1>8. ReachedTermsOnce'
  BY <1>1, <1>2, <1>7, NothingReached DEF IInv
<1>9. ResultSoFar' /\ BuffersLive' /\ FailureIsFinal'
  BY <1>1, <1>2, StaysInside
<1>10. QED
  BY <1>1, <1>5, <1>6, <1>8, <1>9 DEF IInv

(* The block of A is packed.                                               *)
LEMMA PackAKeepsIInv ==
  ASSUME IInv, PackA
  PROVE  IInv'
<1> USE GemmAssumption, BlockedDgemmAssumption
<1>1. /\ at = "ic" /\ ic < call.m /\ at' = "block"
      /\ UNCHANGED <<call, jc, pc, ic, Bp, live, failed, scaled, terms, mismatched>>
  BY DEF PackA
<1>2. Ap' = [a \in DOMAIN Ap |->
               IF a < mc * kc THEN <<ic + (a % mc), pc + a \div mc>> ELSE Ap[a]]
  BY DEF PackA
<1>3. InLoops /\ InLoops'
  BY <1>1 DEF InLoops
<1>4. /\ call.m \in Nat /\ call.n \in Nat /\ call.k \in Nat
      /\ call.m <= MaxDim /\ call.k <= MaxDim
      /\ ic \in Nat /\ pc \in Nat
  BY <1>3, InsideLoops
<1>5. pc < call.k
  BY <1>1 DEF IInv, CountersInRange
<1>6. /\ mc \in 1 .. MC /\ ic + mc <= call.m
      /\ kc \in 1 .. KC /\ pc + kc <= call.k
  BY <1>1, <1>5, Extents DEF IInv
<1>7. /\ mc \in Nat \ {0} /\ kc \in Nat /\ mc' = mc /\ kc' = kc /\ nc' = nc
      /\ mc * kc = kc * mc
  BY <1>1, <1>6 DEF nc, kc, mc
<1>8. DOMAIN Ap = 0 .. KC * MC - 1 /\ KC * MC \in Nat /\ KC * MC = MC * KC
  BY DEF IInv, TypeOK, ApSize
<1>9. TypeOK'
  <2>1. ASSUME NEW a \in DOMAIN Ap
        PROVE  Ap'[a] \in Positions
    <3>1. CASE a < mc * kc
      <4>a. a \in Nat
        BY <1>8
      <4>b. a < kc * mc
        BY <1>7, <3>1
      <4>1. a \div mc \in 0 .. kc - 1 /\ a % mc \in 0 .. mc - 1
        BY <1>7, <4>a, <4>b, IndexSplits
      <4>2. ic + (a % mc) \in Dims /\ pc + a \div mc \in Dims
        BY <1>4, <1>6, <1>7, <4>1 DEF Dims
      <4>3. QED
        BY <1>2, <3>1, <4>2 DEF Positions, Cells
    <3>2. CASE ~(a < mc * kc)
      BY <1>2, <3>2 DEF IInv, TypeOK
    <3>3. QED
      BY <3>1, <3>2
  <2>2. Ap' \in [0 .. ApSize - 1 -> Positions]
    BY <1>2, <1>8, <2>1 DEF ApSize
  <2>3. QED
    BY <1>1, <2>2 DEF IInv, TypeOK
<1>10. ApHoldsBlock'
  <2>1. ASSUME NEW p \in 0 .. kc - 1, NEW x \in 0 .. mc - 1
        PROVE  Ap'[p * mc + x] = <<ic + x, pc + p>>
    <3>0. mc <= MC /\ kc <= KC /\ MC \in Nat /\ KC \in Nat
      BY <1>6, <1>7
    <3>1. p * mc + x < kc * mc /\ p * mc + x \in 0 .. KC * MC - 1
      BY <1>7, <3>0, IndexInBuffer
    <3>2. (p * mc + x) \div mc = p /\ (p * mc + x) % mc = x
      BY <1>7, IndexRoundTrip
    <3>3. QED
      BY <1>2, <1>7, <1>8, <3>1, <3>2
  <2>2. QED
    BY <1>1, <1>7, <2>1 DEF ApHoldsBlock, AValue
<1>11. BpHoldsPanel'
  BY <1>1, <1>7 DEF IInv, BpHoldsPanel, BValue
<1>12. CountersInRange'
  BY <1>1, <1>3, <1>5, InsideLoops DEF IInv, CountersInRange
<1>13. \A t \in Terms : Reached(t) <=> Reached(t)'
  BY <1>1 DEF Reached
<1>14. ReachedTermsOnce'
  BY <1>1, <1>3, <1>13, NothingReached DEF IInv
<1>15. ResultSoFar' /\ BuffersLive' /\ FailureIsFinal'
  BY <1>1, <1>3, StaysInside
<1>16. QED
  BY <1>1, <1>9, <1>10, <1>11, <1>12, <1>14, <1>15 DEF IInv

(* The rows are covered: on to the next panel.                             *)
LEMMA EndBlocksKeepsIInv ==
  ASSUME IInv, EndBlocks
  PROVE  IInv'
<1> USE GemmAssumption, BlockedDgemmAssumption
<1>1. /\ at = "ic" /\ ~(ic < call.m) /\ pc' = pc + KC /\ at' = "pc"
      /\ UNCHANGED <<call, jc, ic, Ap, Bp, live, failed, scaled, terms, mismatched>>
  BY CallTypes DEF EndBlocks, IInv
<1>2. InLoops /\ InLoops'
  BY <1>1 DEF InLoops
<1>3. /\ call.m \in Nat /\ call.n \in Nat /\ call.k \in Nat
      /\ call.k <= MaxDim /\ jc \in Nat /\ pc \in Nat /\ ic \in Nat
  BY <1>2, InsideLoops
<1>4. pc < call.k /\ jc < call.n
  BY <1>1 DEF IInv, CountersInRange
<1>5. TypeOK'
  <2>1. pc' \in 0 .. MaxDim + KC
    BY <1>1, <1>3, <1>4
  <2>2. QED
    BY <1>1, <2>1 DEF IInv, TypeOK
<1>6. CountersInRange' /\ BpHoldsPanel' /\ ApHoldsBlock'
  BY <1>1, <1>2, <1>3, <1>4, InsideLoops DEF CountersInRange, BpHoldsPanel, ApHoldsBlock
<1>7. ASSUME NEW t \in Terms, Product(call)[t] # 0
      PROVE  Reached(t) <=> Reached(t)'
  <2>1. t[1] < call.m
    BY <1>7, ProductOf DEF InC
  <2>2. QED
    BY <1>1, <1>3, <2>1, TermIndices DEF Reached
<1>8. ReachedTermsOnce'
  BY <1>1, <1>2, <1>7, NothingReached DEF IInv
<1>9. ResultSoFar' /\ BuffersLive' /\ FailureIsFinal'
  BY <1>1, <1>2, StaysInside
<1>10. QED
  BY <1>1, <1>5, <1>6, <1>8, <1>9 DEF IInv

(* At step p of a block, row ic + x of A meets column jc + y of B in step  *)
(* pc + p of the inner dimension, on both sides.                           *)
LEMMA BlockOperands ==
  ASSUME IInv, at = "block",
         NEW p \in 0 .. kc - 1, NEW x \in 0 .. mc - 1, NEW y \in 0 .. nc - 1
  PROVE  /\ AValue(p, x) = <<ic + x, pc + p>>
         /\ BValue(p, y) = <<pc + p, jc + y>>
BY DEF IInv, ApHoldsBlock, BpHoldsPanel

(* A block adds each of its terms once and no other.                       *)
LEMMA BlockAddsItsTerms ==
  ASSUME IInv, at = "block", NEW t \in Terms
  PROVE  AddedByBlock(t) = IF /\ ic <= t[1] /\ t[1] < ic + mc
                              /\ jc <= t[2] /\ t[2] < jc + nc
                              /\ pc <= t[3] /\ t[3] < pc + kc
                           THEN 1 ELSE 0
<1>1. /\ t[1] \in Nat /\ t[2] \in Nat /\ t[3] \in Nat
      /\ ic \in Nat /\ jc \in Nat /\ pc \in Nat
  BY TermIndices, CallTypes DEF IInv
<1>2. pc < call.k /\ jc < call.n /\ ic < call.m
  BY DEF IInv, CountersInRange
<1>3. mc \in Nat /\ nc \in Nat /\ kc \in Nat
  BY <1>2, Extents, GemmAssumption, BlockedDgemmAssumption DEF IInv
<1> DEFINE x == t[1] - ic
           y == t[2] - jc
           S == {pr \in 0 .. kc - 1 : /\ AValue(pr, x) = <<t[1], t[3]>>
                                      /\ BValue(pr, y) = <<t[3], t[2]>>}
<1>4. CASE x \in 0 .. mc - 1 /\ y \in 0 .. nc - 1
  <2>1. AddedByBlock(t) = Cardinality(S)
    BY <1>4 DEF AddedByBlock
  <2>2. ic + x = t[1] /\ jc + y = t[2]
    BY <1>1
  <2>3. ASSUME NEW pr \in 0 .. kc - 1
        PROVE  pr \in S <=> pc + pr = t[3]
    <3>1. AValue(pr, x) = <<t[1], pc + pr>> /\ BValue(pr, y) = <<pc + pr, t[2]>>
      BY <1>4, <2>2, BlockOperands
    <3>2. QED
      BY <3>1
  <2>4. S \subseteq 0 .. kc - 1
    OBVIOUS
  <2> HIDE DEF S
  <2>5. S = IF pc <= t[3] /\ t[3] < pc + kc THEN {t[3] - pc} ELSE {}
    <3>1. CASE pc <= t[3] /\ t[3] < pc + kc
      <4>1. t[3] - pc \in 0 .. kc - 1 /\ pc + (t[3] - pc) = t[3]
        BY <1>1, <1>3, <3>1
      <4>2. \A pr \in 0 .. kc - 1 : pc + pr = t[3] <=> pr = t[3] - pc
        BY <1>1, <1>3
      <4>3. S = {t[3] - pc}
        BY <2>3, <2>4, <4>1, <4>2
      <4>4. QED
        BY <3>1, <4>3
    <3>2. CASE ~(pc <= t[3] /\ t[3] < pc + kc)
      <4>1. \A pr \in 0 .. kc - 1 : pc + pr # t[3]
        BY <1>1, <1>3, <3>2
      <4>2. S = {}
        BY <2>3, <2>4, <4>1
      <4>3. QED
        BY <3>2, <4>2
    <3>3. QED
      BY <3>1, <3>2
  <2>6. Cardinality(S) = IF pc <= t[3] /\ t[3] < pc + kc THEN 1 ELSE 0
    BY <2>5, FS_Singleton, FS_EmptySet
  <2>7. /\ ic <= t[1] /\ t[1] < ic + mc
        /\ jc <= t[2] /\ t[2] < jc + nc
    BY <1>1, <1>3, <1>4
  <2>8. QED
    BY <2>1, <2>6, <2>7
<1>5. CASE ~(x \in 0 .. mc - 1 /\ y \in 0 .. nc - 1)
  <2>1. AddedByBlock(t) = 0
    BY <1>5 DEF AddedByBlock
  <2>2. ~(/\ ic <= t[1] /\ t[1] < ic + mc
          /\ jc <= t[2] /\ t[2] < jc + nc)
    BY <1>1, <1>3, <1>5
  <2>3. QED
    BY <2>1, <2>2
<1>6. QED
  BY <1>4, <1>5

(* A packed block is multiplied with the packed panel.                     *)
LEMMA MultiplyBlockKeepsIInv ==
  ASSUME IInv, MultiplyBlock
  PROVE  IInv'
<1> USE GemmAssumption, BlockedDgemmAssumption
<1>1. /\ at = "block" /\ ic' = ic + MC /\ at' = "ic"
      /\ UNCHANGED <<call, jc, pc, Ap, Bp, live, failed, scaled>>
  BY DEF MultiplyBlock
<1>2. InLoops /\ InLoops'
  BY <1>1 DEF InLoops
<1>3. /\ call.m \in Nat /\ call.n \in Nat /\ call.k \in Nat
      /\ call.m <= MaxDim /\ call.k <= MaxDim
      /\ jc \in Nat /\ pc \in Nat /\ ic \in Nat
  BY <1>2, InsideLoops
<1>4. pc < call.k /\ jc < call.n /\ ic < call.m
  BY <1>1 DEF IInv, CountersInRange
<1>5. /\ mc \in 1 .. MC /\ (mc = MC \/ ic + mc = call.m) /\ ic + mc <= call.m
      /\ nc \in 1 .. NC /\ (nc = NC \/ jc + nc = call.n) /\ jc + nc <= call.n
      /\ kc \in 1 .. KC /\ (kc = KC \/ pc + kc = call.k) /\ pc + kc <= call.k
  BY <1>4, Extents DEF IInv
<1>6. ReachedTermsOnce'
  <2>1. ASSUME NEW t \in Terms
        PROVE  terms[t] + AddedByBlock(t)
                 = IF Reached(t)' THEN Product(call)[t] ELSE 0
    <3>1. t[1] \in Nat /\ t[2] \in Nat /\ t[3] \in Nat
      BY TermIndices
    <3>2. terms[t] = IF Reached(t) THEN Product(call)[t] ELSE 0
      BY <1>2 DEF IInv, ReachedTermsOnce
    <3>3. Product(call)[t] = IF t[1] < call.m /\ t[2] < call.n /\ t[3] < call.k
                             THEN 1 ELSE 0
      BY ProductOf DEF InC
    <3>4. CASE /\ ic <= t[1] /\ t[1] < ic + mc
               /\ jc <= t[2] /\ t[2] < jc + nc
               /\ pc <= t[3] /\ t[3] < pc + kc
      <4>1. ~Reached(t)
        BY <1>1, <1>3, <3>1, <3>4 DEF Reached
      <4>2. Reached(t)'
        BY <1>1, <1>3, <1>5, <3>1, <3>4 DEF Reached
      <4>3. Product(call)[t] = 1
        BY <1>3, <1>5, <3>1, <3>3, <3>4
      <4>4. QED
        BY <1>1, <3>2, <3>4, <4>1, <4>2, <4>3, BlockAddsItsTerms
    <3>5. CASE ~(/\ ic <= t[1] /\ t[1] < ic + mc
                 /\ jc <= t[2] /\ t[2] < jc + nc
                 /\ pc <= t[3] /\ t[3] < pc + kc)
      <4>1. Product(call)[t] # 0 => (Reached(t) <=> Reached(t)')
        BY <1>1, <1>3, <1>5, <3>1, <3>3, <3>5 DEF Reached
      <4>2. AddedByBlock(t) = 0
        BY <1>1, <3>5, BlockAddsItsTerms
      <4>3. QED
        BY <3>2, <3>3, <4>1, <4>2
    <3>6. QED
      BY <3>4, <3>5
  <2>2. terms' = [t \in Terms |-> terms[t] + AddedByBlock(t)]
    BY DEF MultiplyBlock, Plus
  <2>3. terms' = [t \in Terms |-> IF Reached(t)' THEN Product(call)[t] ELSE 0]
    BY <2>1, <2>2
  <2>4. QED
    BY <1>1, <2>3 DEF ReachedTermsOnce
<1>7. mismatched' = FALSE
  <2>1. ASSUME NEW ir \in 0 .. mc - 1, NEW jr \in 0 .. nc - 1, NEW pr \in 0 .. kc - 1
        PROVE  \E q \in Dims : /\ AValue(pr, ir) = <<ic + ir, q>>
                               /\ BValue(pr, jr) = <<q, jc + jr>>
    <3>1. pc + pr \in Dims
      BY <1>3, <1>5 DEF Dims
    <3>2. QED
      BY <1>1, <3>1, BlockOperands
  <2>2. ~mismatched
    BY DEF IInv
  <2>3. QED
    BY <2>1, <2>2 DEF MultiplyBlock
<1>8. TypeOK'
  <2>1. terms' \in [Terms -> Nat]
    <3>1. terms' = [t \in Terms |-> IF Reached(t)' THEN Product(call')[t] ELSE 0]
      BY <1>2, <1>6 DEF ReachedTermsOnce
    <3>2. QED
      BY <3>1, ProductType
  <2>2. ic' \in 0 .. MaxDim + MC
    BY <1>1, <1>3, <1>4
  <2>3. QED
    BY <1>1, <1>7, <2>1, <2>2 DEF IInv, TypeOK
<1>9. CountersInRange' /\ ApHoldsBlock'
  BY <1>1, <1>2, <1>3, <1>4, InsideLoops DEF CountersInRange, ApHoldsBlock
<1>10. BpHoldsPanel'
  <2>1. kc' = kc /\ nc' = nc
    BY <1>1 DEF kc, nc
  <2>2. QED
    BY <1>1, <2>1 DEF IInv, BpHoldsPanel, BValue
<1>11. ResultSoFar' /\ BuffersLive' /\ FailureIsFinal'
  BY <1>1, <1>2, StaysInside
<1>12. QED
  BY <1>6, <1>7, <1>8, <1>9, <1>10, <1>11 DEF IInv

(* Nothing happens.                                                        *)
LEMMA StutterKeepsIInv ==
  ASSUME IInv, UNCHANGED vars
  PROVE  IInv'
<1>1. TypeOK'
  BY DEF IInv, vars, TypeOK
<1>2. kc' = kc /\ nc' = nc /\ mc' = mc
  BY DEF vars, kc, nc, mc
<1>3. CountersInRange' /\ BpHoldsPanel' /\ ApHoldsBlock'
  BY <1>2 DEF IInv, vars, CountersInRange, BpHoldsPanel, ApHoldsBlock, AValue, BValue
<1>4. ReachedTermsOnce'
  BY DEF IInv, vars, ReachedTermsOnce, Reached, InLoops
<1>5. ResultSoFar' /\ BuffersLive' /\ FailureIsFinal'
  BY DEF IInv, vars, ResultSoFar, BuffersLive, FailureIsFinal, InLoops
<1>6. QED
  BY <1>1, <1>3, <1>4, <1>5 DEF IInv, vars

(* Every step of the call keeps the invariant.                             *)
LEMMA NextKeepsIInv == IInv /\ [Next]_vars => IInv'
<1> SUFFICES ASSUME IInv, [Next]_vars PROVE IInv'
  OBVIOUS
<1>1. CASE Skip
  BY <1>1, SkipKeepsIInv
<1>2. CASE Naive
  BY <1>2, NaiveKeepsIInv
<1>3. CASE Scale
  BY <1>3, ScaleKeepsIInv
<1>4. CASE Allocate
  BY <1>4, AllocateKeepsIInv
<1>5. CASE NextColumns
  BY <1>5, NextColumnsKeepsIInv
<1>6. CASE PackB
  BY <1>6, PackBKeepsIInv
<1>7. CASE EndPanels
  BY <1>7, EndPanelsKeepsIInv
<1>8. CASE PackA
  BY <1>8, PackAKeepsIInv
<1>9. CASE EndBlocks
  BY <1>9, EndBlocksKeepsIInv
<1>10. CASE MultiplyBlock
  BY <1>10, MultiplyBlockKeepsIInv
<1>11. CASE FallBack
  BY <1>11, FallBackKeepsIInv
<1>12. CASE Done \/ UNCHANGED vars
  BY <1>12, StutterKeepsIInv DEF Done
<1>13. QED
  BY <1>1, <1>2, <1>3, <1>4, <1>5, <1>6, <1>7, <1>8, <1>9, <1>10, <1>11, <1>12 DEF Next

THEOREM BlockedDgemmInvariant == Spec => []IInv
BY InitIInv, NextKeepsIInv, PTL DEF Spec

-----------------------------------------------------------------------------

(* The counters of scalar_dgemm.c stay within one block of the dimensions, *)
(* and what the packing loops copy are cells of the matrices.              *)
THEOREM BlockedDgemmTypeCorrect == Spec => []TypeOK
<1>1. IInv => TypeOK
  BY DEF IInv
<1>2. QED
  BY <1>1, BlockedDgemmInvariant, PTL

(* Bp and Ap are reused for blocks of other shapes, whose leading          *)
(* dimension differs; the multiply nevertheless only ever joins A[x][q]    *)
(* and B[q][y], and every return has freed both.                           *)
THEOREM BlockedDgemmReadsWhatItPacked == Spec => []BlocksReadWhatTheyPacked
<1>1. IInv => BlocksReadWhatTheyPacked
  BY DEF IInv, BlocksReadWhatTheyPacked, BuffersLive, InLoops
<1>2. QED
  BY <1>1, BlockedDgemmInvariant, PTL

-----------------------------------------------------------------------------

(* Both modules extend GemmData with the same MaxDim.                      *)
LEMMA SameData ==
  ASSUME NEW c
  PROVE  /\ Abstract!NotScaled = NotScaled
         /\ Abstract!NoTerms = NoTerms
         /\ Abstract!ScaledOnce(c) = ScaledOnce(c)
         /\ Abstract!Product(c) = Product(c)
         /\ Abstract!Skipped(c) = Skipped(c)
<1>1. Abstract!Cells = Cells /\ Abstract!Terms = Terms
  BY DEF Abstract!Cells, Abstract!Terms, Abstract!Dims, Cells, Terms, Dims
<1>2. \A x, y : Abstract!InC(c, x, y) = InC(c, x, y)
  BY DEF Abstract!InC, InC
<1>3. Abstract!NotScaled = NotScaled /\ Abstract!NoTerms = NoTerms
  BY <1>1 DEF Abstract!NotScaled, Abstract!NoTerms, NotScaled, NoTerms
<1>4. Abstract!ScaledOnce(c) = ScaledOnce(c)
  BY <1>1, <1>2 DEF Abstract!ScaledOnce, ScaledOnce
<1>5. Abstract!Product(c) = Product(c)
  BY <1>1, <1>2 DEF Abstract!Product, Product
<1>6. Abstract!Skipped(c) = Skipped(c)
  BY DEF Abstract!Skipped, Skipped
<1>7. QED
  BY <1>3, <1>4, <1>5, <1>6

(* The call begins as the abstract one does.                               *)
LEMMA InitImplements == Init => Abstract!Init
BY SameData DEF Init, Abstract!Init

(* A step that returns is the caller's Complete or, after a failed         *)
(* allocation, Recover; the caller sees nothing of any other.              *)
LEMMA StepImplements ==
  IInv /\ IInv' /\ [Next]_vars => [Abstract!Complete \/ Abstract!Recover]_(Abstract!vars)
<1> SUFFICES ASSUME IInv, IInv', [Next]_vars
             PROVE  [Abstract!Complete \/ Abstract!Recover]_(Abstract!vars)
  OBVIOUS
<1>1. call' = call
  BY DEF Next, vars, Skip, Naive, Scale, Allocate, FallBack, NextColumns, PackB,
         EndPanels, PackA, EndBlocks, MultiplyBlock, Done
<1>2. CASE at = "done"
  <2>1. UNCHANGED vars
    BY <1>2 DEF Next, vars, Skip, Naive, Scale, Allocate, FallBack, NextColumns, PackB,
                EndPanels, PackA, EndBlocks, MultiplyBlock, Done
  <2>2. QED
    BY <2>1 DEF vars, Abstract!vars
<1>3. CASE at # "done" /\ at' # "done"
  BY <1>1, <1>3 DEF Abstract!vars
<1>4. CASE at # "done" /\ at' = "done"
  <2>1. /\ scaled' = IF Skipped(call) THEN NotScaled ELSE ScaledOnce(call)
        /\ terms' = IF Skipped(call) THEN NoTerms ELSE Product(call)
    BY <1>1, <1>4 DEF IInv, ResultSoFar
  <2>2. failed' => ~Skipped(call)
    BY <1>1 DEF IInv, FailureIsFinal
  <2>3. CASE ~failed'
    BY <1>1, <1>4, <2>1, <2>3, SameData DEF Abstract!Complete
  <2>4. CASE failed'
    BY <1>1, <1>4, <2>1, <2>2, <2>4, SameData DEF Abstract!Recover
  <2>5. QED
    BY <2>3, <2>4
<1>5. QED
  BY <1>2, <1>3, <1>4

(* Whatever the sizes and whichever allocations fail, the call returns     *)
(* with C scaled by beta once and every product of A and B in it once: the *)
(* fallback does not scale C again, no block is left out and none is       *)
(* multiplied twice.                                                       *)
THEOREM BlockedDgemmImplementsGemm == Spec => ImplementsGemm
<1>1. Init => Abstract!Init
  BY InitImplements
<1>2. IInv /\ IInv' /\ [Next]_vars
        => [Abstract!Complete \/ Abstract!Recover]_(Abstract!vars)
  BY StepImplements
<1>3. QED
  BY <1>1, <1>2, BlockedDgemmInvariant, PTL DEF Spec, ImplementsGemm, Abstract!Spec
=============================================================================
