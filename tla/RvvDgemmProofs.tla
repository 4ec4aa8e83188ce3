----------------------------- MODULE RvvDgemmProofs -----------------------------
(***************************************************************************)
(* For every size of a call, of a block and of a register group, and       *)
(* whatever vl the unit grants: the vector multiply only multiplies values *)
(* of A and B that belong together, frees its buffers on every path        *)
(* (PanelsReadWhatTheyPacked), and returns with C scaled once and every    *)
(* product in it once or, when an allocation failed, with a leading part   *)
(* of the product (ImplementsLossyGemm).                                   *)
(*                                                                         *)
(* The inductive invariant is that of BlockedDgemmProofs, with one more    *)
(* level: a row of a block is multiplied strip by strip, so the cells of C *)
(* that are ahead in the current row are told from those behind (Passed).  *)
(***************************************************************************)
EXTENDS RvvDgemm, FiniteSetTheorems, TLAPS

InLoops == at \in {"pc", "ic", "panel"}

CountersInRange ==
  /\ at = "scale" \/ InLoops => call.m > 0 /\ call.n > 0 /\ call.k > 0
  /\ at \in {"enter", "scale"} => pc = 0
  /\ at = "enter" => i = 0 /\ j = 0
  /\ at = "scale" => i <= call.m
  /\ at \in {"scale", "panel"} => j < call.n
  /\ at = "pc" => pc < call.k + KC
  /\ at \in {"ic", "panel"} => pc < call.k
  /\ at = "ic" => ic < call.m + MC
  /\ at = "panel" => ic < call.m /\ (i < mc \/ (i = mc /\ j = 0))

BpHoldsPanel ==
  at \in {"ic", "panel"} =>
    \A p \in 0 .. kc - 1, y \in 0 .. call.n - 1 : BValue(p, y) = <<pc + p, y>>

ApHoldsBlock ==
  at = "panel" =>
    \A x \in 0 .. mc - 1, p \in 0 .. kc - 1 : Ap[x * kc + p] = <<ic + x, pc + p>>

(* The strips so far have been over column y of row x.                     *)
Passed(x, y) == x < i \/ (x = i /\ y < j)

StripsScaledOnce ==
  at = "scale" =>
    scaled = [p \in Cells |-> IF Passed(p[1], p[2]) THEN ScaledOnce(call)[p] ELSE 0]

(* The panels so far have been through term t.                             *)
Reached(t) ==
  \/ t[3] < pc
  \/ /\ at \in {"ic", "panel"}
     /\ t[3] < pc + KC
     /\ t[1] < ic \/ (at = "panel" /\ Passed(t[1] - ic, t[2]))

ReachedTermsOnce ==
  InLoops => terms = [t \in Terms |-> IF Reached(t) THEN Product(call)[t] ELSE 0]

(* C holds a leading part of the product.                                  *)
LeadingPart ==
  \E depth \in [Dims -> 0 .. call.k] :
    /\ \A x \in Dims, w \in Dims : w < x => depth[w] >= depth[x]
    /\ terms = Abstract!Leading(call, depth)

(* C before the loops and when the call has returned.                      *)
ResultSoFar ==
  /\ at = "enter" => scaled = NotScaled
  /\ InLoops => scaled = ScaledOnce(call)
  /\ at \in {"enter", "scale"} => terms = NoTerms
  /\ at = "done" /\ ~failed =>
       /\ scaled = IF Skipped(call) THEN NotScaled ELSE ScaledOnce(call)
       /\ terms = IF Skipped(call) THEN NoTerms ELSE Product(call)
  /\ at = "done" /\ failed =>
       ~Skipped(call) /\ scaled = ScaledOnce(call) /\ LeadingPart

BuffersLive ==
  live = IF at = "panel" THEN {"Ap", "Bp"}
         ELSE IF at \in {"pc", "ic"} THEN {"Bp"} ELSE {}

FailureIsFinal == failed => at = "done"

IInv ==
  /\ TypeOK
  /\ CountersInRange
  /\ BpHoldsPanel
  /\ ApHoldsBlock
  /\ StripsScaledOnce
  /\ ReachedTermsOnce
  /\ ResultSoFar
  /\ BuffersLive
  /\ FailureIsFinal
  /\ ~mismatched
-----------------------------------------------------------------------------

(* Row p, column x of a buffer of w columns is cell p * w + x, and no      *)
(* other row and column is.                                                *)
LEMMA IndexRoundTrip ==
  ASSUME NEW w \in Nat \ {0}, NEW p \in Nat, NEW x \in 0 .. w - 1
  PROVE  /\ p * w + x \in Nat
         /\ (p * w + x) \div w = p
         /\ (p * w + x) % w = x
<1> DEFINE a == p * w + x
           d == a \div w
           r == a % w
<1>1. a \in Nat
  OBVIOUS
<1>2. d \in Int /\ r \in 0 .. w - 1 /\ a = w * d + r
  BY <1>1
<1> HIDE DEF d, r
<1>3. w * (d - p) = x - r
  BY <1>1, <1>2
<1>4. d = p
  <2>1. ASSUME d - p >= 1 PROVE FALSE
    <3>1. w * (d - p) >= w
      BY <1>2, <2>1
    <3>2. QED
      BY <1>2, <1>3, <3>1
  <2>2. ASSUME d - p <= -1 PROVE FALSE
    <3>1. w * (d - p) <= -w
      BY <1>2, <2>2
    <3>2. QED
      BY <1>2, <1>3, <3>1
  <2>3. QED
    BY <1>2, <2>1, <2>2
<1>5. w * (d - p) = 0
  BY <1>2, <1>4
<1>6. r = x
  BY <1>2, <1>3, <1>5
<1>7. QED
  BY <1>1, <1>4, <1>6 DEF d, r

(* The rows below h are the cells below h * w, and those of a buffer that  *)
(* is no smaller exist.                                                    *)
LEMMA IndexInBuffer ==
  ASSUME NEW w \in Nat \ {0}, NEW h \in Nat,
         NEW W \in Nat, NEW H \in Nat, w <= W, h <= H,
         NEW p \in 0 .. h - 1, NEW x \in 0 .. w - 1
  PROVE  /\ p * w + x < h * w
         /\ p * w + x \in 0 .. H * W - 1
<1>1. p * w <= (h - 1) * w
  BY SMT
<1>2. (h - 1) * w = h * w - w
  OBVIOUS
<1>3. p * w \in Nat /\ h * w \in Nat
  OBVIOUS
<1>4. p * w + x < h * w
  BY <1>1, <1>2, <1>3
<1>5. h * w <= H * w
  OBVIOUS
<1>6. H * w <= H * W
  OBVIOUS
<1>7. H * W \in Nat /\ H * w \in Nat
  OBVIOUS
<1>8. QED
  BY <1>3, <1>4, <1>5, <1>6, <1>7

(* A cell below h * w lies in a row below h.                               *)
LEMMA IndexSplits ==
  ASSUME NEW w \in Nat \ {0}, NEW h \in Nat, NEW a \in Nat, a < h * w
  PROVE  a \div w \in 0 .. h - 1 /\ a % w \in 0 .. w - 1
<1> DEFINE d == a \div w
           r == a % w
<1>1. d \in Int /\ r \in 0 .. w - 1 /\ a = w * d + r
  OBVIOUS
<1> HIDE DEF d, r
<1>2. ASSUME d >= h PROVE FALSE
  <2>1. w * d >= w * h
    BY <1>1, <1>2
  <2>2. w * h = h * w
    OBVIOUS
  <2>3. w * d \in Int /\ h * w \in Int
    BY <1>1
  <2>4. QED
    BY <1>1, <2>1, <2>2, <2>3
<1>3. ASSUME d <= -1 PROVE FALSE
  <2>1. w * d <= -w
    BY <1>1, <1>3
  <2>2. QED
    BY <1>1, <2>1
<1>4. QED
  BY <1>1, <1>2, <1>3 DEF d, r

-----------------------------------------------------------------------------

(* The arguments of a call, and the counters, typed.                       *)
LEMMA CallTypes ==
  ASSUME TypeOK
  PROVE  /\ call.m \in 0 .. MaxDim /\ call.n \in 0 .. MaxDim
         /\ call.k \in 0 .. MaxDim
         /\ call.guarded
         /\ call.vlmax \in Nat \ {0} /\ ScaleLanes \in Nat \ {0}
         /\ pc \in Nat /\ ic \in Nat /\ i \in Nat /\ j \in Nat
<1>1. call.vlmax \in VLMaxes
  BY DEF TypeOK, Calls
<1>2. call.vlmax \in Nat \ {0}
  BY <1>1, GemmAssumption, VectorUnitAssumption
<1>3. call.guarded
  <2>1. call.guarded \in {TRUE}
    BY DEF TypeOK, Calls
  <2>2. QED
    BY <2>1
<1>4. call.m \in 0 .. MaxDim /\ call.n \in 0 .. MaxDim /\ call.k \in 0 .. MaxDim
  BY DEF TypeOK, Calls
<1>5. pc \in Nat /\ ic \in Nat /\ i \in Nat /\ j \in Nat
  BY GemmAssumption, VectorUnitAssumption DEF TypeOK
<1>6. QED
  BY <1>2, <1>3, <1>4, <1>5 DEF ScaleLanes

(* A block is as large as the buffers allow or as what is left does.       *)
LEMMA Extents ==
  ASSUME TypeOK
  PROVE  /\ kc \in Int /\ mc \in Int
         /\ pc < call.k => /\ kc \in 1 .. KC
                           /\ kc = KC \/ pc + kc = call.k
                           /\ pc + kc <= call.k
         /\ ic < call.m => /\ mc \in 1 .. MC
                           /\ mc = MC \/ ic + mc = call.m
                           /\ ic + mc <= call.m
BY CallTypes, GemmAssumption, VectorUnitAssumption DEF kc, mc, Smaller

(* What the caller wants of a term: once, if it is of C and of the inner   *)
(* dimension.                                                              *)
LEMMA ProductOf ==
  ASSUME NEW c, NEW t \in Terms
  PROVE  Product(c)[t] = IF InC(c, t[1], t[2]) /\ t[3] < c.k THEN 1 ELSE 0
BY DEF Product

(* What the caller wants, typed.                                           *)
LEMMA ProductType ==
  ASSUME NEW c
  PROVE  /\ Product(c) \in [Terms -> Nat]
         /\ ScaledOnce(c) \in [Cells -> Nat]
BY DEF Product, ScaledOnce

(* A term by its row, its column and its place in the inner dimension.     *)
LEMMA TermIndices ==
  ASSUME NEW t \in Terms
  PROVE  t[1] \in Dims /\ t[2] \in Dims /\ t[3] \in Dims
         /\ t[1] \in Nat /\ t[2] \in Nat /\ t[3] \in Nat
         /\ t[1] < MaxDim /\ t[2] < MaxDim /\ t[3] < MaxDim
BY GemmAssumption DEF Terms, Dims

(* A cell by its row and its column.                                       *)
LEMMA CellIndices ==
  ASSUME NEW p \in Cells
  PROVE  p[1] \in Nat /\ p[2] \in Nat
BY GemmAssumption DEF Cells, Dims

(* The unit grants at least one lane and never more than were asked for.   *)
LEMMA LegalVlBounds ==
  ASSUME NEW avl \in Nat \ {0}, NEW vlmax \in Nat \ {0},
         NEW vl \in LegalVl(avl, vlmax)
  PROVE  vl \in 1 .. avl
BY DEF LegalVl

(* Moving on by a strip leaves behind the cells that were behind, and      *)
(* those of the strip.                                                     *)
LEMMA StripPasses ==
  ASSUME call.n \in Nat, i \in Nat, j \in Nat, j < call.n,
         NEW vl \in 1 .. call.n - j, AdvanceStrip(vl), call' = call
  PROVE  /\ i' \in Nat /\ j' \in Nat /\ j' < call.n
         /\ i' = i \/ (i' = i + 1 /\ j' = 0)
         /\ \A x \in Int, y \in Nat :
              y < call.n =>
                (Passed(x, y)' <=> \/ Passed(x, y)
                                   \/ x = i /\ j <= y /\ y < j + vl)
<1>1. CASE j + vl < call.n
  <2>1. j' = j + vl /\ i' = i
    BY <1>1 DEF AdvanceStrip
  <2>2. QED
    BY <1>1, <2>1 DEF Passed
<1>2. CASE ~(j + vl < call.n)
  <2>1. j' = 0 /\ i' = i + 1 /\ j + vl = call.n
    BY <1>2 DEF AdvanceStrip
  <2>2. QED
    BY <1>2, <2>1 DEF Passed
<1>3. QED
  BY <1>1, <1>2

-----------------------------------------------------------------------------

(* The invariant holds at the start.                                       *)
LEMMA InitIInv == Init => IInv
<1> SUFFICES ASSUME Init PROVE IInv
  OBVIOUS
<1> USE GemmAssumption, VectorUnitAssumption DEF Init
<1>1. TypeOK
  <2>1. NotScaled \in [Cells -> Nat] /\ NoTerms \in [Terms -> Nat]
    BY DEF NotScaled, NoTerms
  <2>2. Junk \in Positions
    BY DEF Positions
  <2>3. /\ pc \in 0 .. MaxDim + KC /\ ic \in 0 .. MaxDim + MC
        /\ i \in 0 .. MaxDim /\ j \in 0 .. MaxDim
    OBVIOUS
  <2>4. QED
    BY <2>1, <2>2, <2>3 DEF TypeOK
<1>2. /\ CountersInRange /\ BpHoldsPanel /\ ApHoldsBlock /\ StripsScaledOnce
      /\ ReachedTermsOnce
  BY DEF CountersInRange, BpHoldsPanel, ApHoldsBlock, StripsScaledOnce,
         ReachedTermsOnce, InLoops
<1>3. ResultSoFar /\ BuffersLive /\ FailureIsFinal
  BY DEF ResultSoFar, BuffersLive, FailureIsFinal, InLoops
<1>4. QED
  BY <1>1, <1>2, <1>3 DEF IInv

(* A step that adds nothing to C and moves no counter past a term of the   *)
(* product.                                                                *)
LEMMA NothingReached ==
  ASSUME ReachedTermsOnce, InLoops,
         UNCHANGED <<call, terms>>,
         \A t \in Terms : Product(call)[t] # 0 => (Reached(t) <=> Reached(t)')
  PROVE  ReachedTermsOnce'
<1>1. \A t \in Terms : (IF Reached(t) THEN Product(call)[t] ELSE 0)
                         = IF Reached(t)' THEN Product(call)[t] ELSE 0
  OBVIOUS
<1>2. terms = [t \in Terms |-> IF Reached(t)' THEN Product(call)[t] ELSE 0]
  BY <1>1 DEF ReachedTermsOnce
<1>3. QED
  BY <1>2 DEF ReachedTermsOnce

(* Within the loops the call is not empty, C is scaled and nothing failed. *)
LEMMA InsideLoops ==
  ASSUME IInv, InLoops
  PROVE  /\ call.m > 0 /\ call.n > 0 /\ call.k > 0
         /\ call.m \in Nat /\ call.n \in Nat /\ call.k \in Nat
         /\ call.m <= MaxDim /\ call.n <= MaxDim /\ call.k <= MaxDim
         /\ pc \in Nat /\ ic \in Nat /\ i \in Nat /\ j \in Nat
         /\ ~failed /\ scaled = ScaledOnce(call) /\ ~Skipped(call)
<1>1. call.m > 0 /\ call.n > 0 /\ call.k > 0
  BY DEF IInv, InLoops, CountersInRange
<1>2. ~failed /\ scaled = ScaledOnce(call)
  BY DEF IInv, InLoops, FailureIsFinal, ResultSoFar
<1>3. /\ call.m \in Nat /\ call.n \in Nat /\ call.k \in Nat
      /\ call.m <= MaxDim /\ call.n <= MaxDim /\ call.k <= MaxDim
  BY CallTypes, GemmAssumption DEF IInv
<1>4. ~Skipped(call)
  BY <1>1, <1>3 DEF Skipped
<1>5. QED
  BY <1>1, <1>2, <1>3, <1>4, CallTypes DEF IInv

(* A step from one control point of the loops to another that leaves C's   *)
(* scaling alone and meets no failure.                                     *)
LEMMA StaysInside ==
  ASSUME IInv, InLoops, InLoops', UNCHANGED <<call, scaled>>, ~failed'
  PROVE  ResultSoFar' /\ FailureIsFinal' /\ StripsScaledOnce'
<1>1. scaled = ScaledOnce(call)
  BY InsideLoops
<1>2. at' # "enter" /\ at' # "scale" /\ at' # "done"
  BY DEF InLoops
<1>3. QED
  BY <1>1, <1>2 DEF ResultSoFar, FailureIsFinal, StripsScaledOnce

(* The call is entered: it returns early, or goes on to scale C.           *)
LEMMA EnterKeepsIInv ==
  ASSUME IInv, Enter
  PROVE  IInv'
<1> USE DEF IInv
<1>1. /\ at = "enter" /\ ~failed
      /\ UNCHANGED <<call, pc, ic, i, j, Bp, Ap, live, failed, scaled, terms, mismatched>>
  BY DEF Enter, FailureIsFinal
<1>2. /\ scaled = NotScaled /\ terms = NoTerms /\ live = {}
      /\ pc = 0 /\ i = 0 /\ j = 0
  BY <1>1 DEF ResultSoFar, BuffersLive, CountersInRange
<1>3. /\ call.m \in Nat /\ call.n \in Nat /\ call.k \in Nat /\ call.guarded
  BY CallTypes, GemmAssumption
<1>4. CASE Skipped(call) /\ at' = "done"
  <2>1. TypeOK'
    BY <1>1, <1>4 DEF TypeOK
  <2>2. /\ CountersInRange' /\ BpHoldsPanel' /\ ApHoldsBlock' /\ StripsScaledOnce'
        /\ ReachedTermsOnce'
    BY <1>4 DEF CountersInRange, BpHoldsPanel, ApHoldsBlock, StripsScaledOnce,
                ReachedTermsOnce, InLoops
  <2>3. ResultSoFar'
    BY <1>1, <1>2, <1>4 DEF ResultSoFar, InLoops, Skipped
  <2>4. BuffersLive' /\ FailureIsFinal'
    BY <1>1, <1>2, <1>4 DEF BuffersLive, FailureIsFinal
  <2>5. QED
    BY <1>1, <2>1, <2>2, <2>3, <2>4
<1>5. CASE ~Skipped(call) /\ at' = "scale"
  <2>1. TypeOK'
    BY <1>1, <1>5 DEF TypeOK
  <2>2. CountersInRange' /\ BpHoldsPanel' /\ ApHoldsBlock' /\ ReachedTermsOnce'
    BY <1>1, <1>2, <1>3, <1>5
       DEF CountersInRange, BpHoldsPanel, ApHoldsBlock, ReachedTermsOnce, InLoops, Skipped
  <2>3. StripsScaledOnce'
    <3>1. \A p \in Cells : ~Passed(p[1], p[2])
      BY <1>2, CellIndices DEF Passed
    <3>2. scaled = [p \in Cells |-> IF Passed(p[1], p[2])
                                    THEN ScaledOnce(call)[p] ELSE 0]
      BY <1>2, <3>1 DEF NotScaled
    <3>3. QED
      BY <1>1, <3>2 DEF StripsScaledOnce, Passed
  <2>4. ResultSoFar' /\ BuffersLive' /\ FailureIsFinal'
    BY <1>1, <1>2, <1>5 DEF ResultSoFar, BuffersLive, FailureIsFinal, InLoops
  <2>5. QED
    BY <1>1, <2>1, <2>2, <2>3, <2>4
<1>6. Skipped(call) <=> call.m = 0 \/ call.n = 0 \/ call.k = 0
  BY <1>3 DEF Skipped
<1>7. QED
  BY <1>4, <1>5, <1>6 DEF Enter

(* One strip of the scaling of a row of C.                                 *)
LEMMA ScaleStripKeepsIInv ==
  ASSUME IInv, ScaleStrip
  PROVE  IInv'
<1>1. /\ at = "scale" /\ i < call.m
      /\ UNCHANGED <<call, at, pc, ic, Bp, Ap, live, failed, terms, mismatched>>
  BY DEF ScaleStrip
<1>2. PICK vl \in LegalVl(call.n - j, ScaleLanes) :
        /\ scaled' = [p \in Cells |->
                        IF p[1] = i /\ p[2] \in j .. j + vl - 1
                        THEN scaled[p] + 1 ELSE scaled[p]]
        /\ AdvanceStrip(vl)
  BY DEF ScaleStrip
<1>3. /\ call.m \in Nat /\ call.n \in Nat /\ call.k \in Nat
      /\ call.m <= MaxDim /\ call.n <= MaxDim
      /\ i \in Nat /\ j \in Nat /\ j < call.n /\ ScaleLanes \in Nat \ {0}
  BY <1>1, CallTypes, GemmAssumption DEF IInv, CountersInRange
<1>4. vl \in 1 .. call.n - j
  <2>1. call.n - j \in Nat \ {0}
    BY <1>3
  <2>2. QED
    BY <1>2, <1>3, <2>1, LegalVlBounds
<1>5. /\ i' \in Nat /\ j' \in Nat /\ j' < call.n
      /\ i' = i \/ (i' = i + 1 /\ j' = 0)
      /\ \A x \in Int, y \in Nat :
           y < call.n =>
             (Passed(x, y)' <=> \/ Passed(x, y)
                                \/ x = i /\ j <= y /\ y < j + vl)
  BY <1>1, <1>2, <1>3, <1>4, StripPasses
<1>6. StripsScaledOnce'
  <2>1. ASSUME NEW p \in Cells
        PROVE  scaled'[p] = IF Passed(p[1], p[2])' THEN ScaledOnce(call)[p] ELSE 0
    <3>1. p[1] \in Nat /\ p[2] \in Nat
      BY CellIndices
    <3>2. scaled[p] = IF Passed(p[1], p[2]) THEN ScaledOnce(call)[p] ELSE 0
      BY <1>1 DEF IInv, StripsScaledOnce
    <3>3. ScaledOnce(call)[p] = IF p[1] < call.m /\ p[2] < call.n THEN 1 ELSE 0
      BY DEF ScaledOnce, InC
    <3>4. scaled'[p] = IF p[1] = i /\ j <= p[2] /\ p[2] < j + vl
                       THEN scaled[p] + 1 ELSE scaled[p]
      BY <1>2, <1>3, <1>4, <3>1
    <3>5. CASE p[1] = i /\ j <= p[2] /\ p[2] < j + vl
      <4>1. p[2] < call.n
        BY <1>3, <1>4, <3>1, <3>5
      <4>2. ~Passed(p[1], p[2])
        BY <1>3, <3>1, <3>5 DEF Passed
      <4>3. Passed(p[1], p[2])'
        BY <1>5, <3>1, <3>5, <4>1
      <4>4. QED
        BY <1>1, <3>2, <3>3, <3>4, <3>5, <4>1, <4>2, <4>3
    <3>6. CASE ~(p[1] = i /\ j <= p[2] /\ p[2] < j + vl)
      <4>1. CASE p[2] < call.n
        <5>1. Passed(p[1], p[2])' <=> Passed(p[1], p[2])
          BY <1>5, <3>1, <3>6, <4>1
        <5>2. QED
          BY <3>2, <3>4, <3>6, <5>1
      <4>2. CASE ~(p[2] < call.n)
        BY <3>2, <3>3, <3>4, <3>6, <4>2
      <4>3. QED
        BY <4>1, <4>2
    <3>7. QED
      BY <3>5, <3>6
  <2>2. scaled' = [p \in Cells |-> IF Passed(p[1], p[2])'
                                   THEN ScaledOnce(call)[p] ELSE 0]
    BY <1>2, <2>1
  <2>3. QED
    BY <1>1, <2>2 DEF StripsScaledOnce
<1>7. TypeOK'
  <2>1. scaled' \in [Cells -> Nat]
    <3>1. scaled' = [p \in Cells |-> IF Passed(p[1], p[2])'
                                     THEN ScaledOnce(call')[p] ELSE 0]
      BY <1>1, <1>6 DEF StripsScaledOnce
    <3>2. QED
      BY <3>1, ProductType
  <2>2. i' \in 0 .. MaxDim /\ j' \in 0 .. MaxDim
    BY <1>1, <1>3, <1>5, GemmAssumption
  <2>3. QED
    BY <1>1, <2>1, <2>2 DEF IInv, TypeOK
<1>8. CountersInRange'
  BY <1>1, <1>3, <1>5 DEF IInv, CountersInRange, InLoops
<1>9. BpHoldsPanel' /\ ApHoldsBlock' /\ ReachedTermsOnce'
  BY <1>1 DEF BpHoldsPanel, ApHoldsBlock, ReachedTermsOnce, InLoops
<1>10. ResultSoFar' /\ BuffersLive' /\ FailureIsFinal'
  BY <1>1 DEF IInv, ResultSoFar, BuffersLive, FailureIsFinal, InLoops
<1>11. QED
  BY <1>1, <1>6, <1>7, <1>8, <1>9, <1>10 DEF IInv

(* Both modules extend GemmData with the same MaxDim.                      *)
LEMMA SameData ==
  ASSUME NEW c
  PROVE  /\ Abstract!Dims = Dims
         /\ Abstract!NotScaled = NotScaled
         /\ Abstract!NoTerms = NoTerms
         /\ Abstract!ScaledOnce(c) = ScaledOnce(c)
         /\ Abstract!Product(c) = Product(c)
         /\ Abstract!Skipped(c) = Skipped(c)
<1>1. /\ Abstract!Dims = Dims /\ Abstract!Cells = Cells
      /\ Abstract!Terms = Terms
  BY DEF Abstract!Cells, Abstract!Terms, Abstract!Dims, Cells, Terms, Dims
<1>2. \A x, y : Abstract!InC(c, x, y) = InC(c, x, y)
  BY DEF Abstract!InC, InC
<1>3. Abstract!NotScaled = NotScaled /\ Abstract!NoTerms = NoTerms
  BY <1>1 DEF Abstract!NotScaled, Abstract!NoTerms, NotScaled, NoTerms
<1>4. Abstract!ScaledOnce(c) = ScaledOnce(c)
  BY <1>1, <1>2 DEF Abstract!ScaledOnce, ScaledOnce
<1>5. Abstract!Product(c) = Product(c)
  BY <1>1, <1>2 DEF Abstract!Product, Product
<1>6. Abstract!Skipped(c) = Skipped(c)
  BY DEF Abstract!Skipped, Skipped
<1>7. QED
  BY <1>1, <1>3, <1>4, <1>5, <1>6

(* Terms that are those of the product below a depth that does not grow    *)
(* with the row are a leading part of it.                                  *)
LEMMA LeadingPartOf ==
  ASSUME NEW depth \in [Dims -> 0 .. call.k],
         \A x \in Dims, w \in Dims : w < x => depth[w] >= depth[x],
         \A t \in Terms :
           terms[t] = IF InC(call, t[1], t[2]) /\ t[3] < depth[t[1]] THEN 1 ELSE 0,
         terms \in [Terms -> Nat]
  PROVE  LeadingPart
<1>1. Abstract!Terms = Terms /\ Abstract!Dims = Dims
  BY DEF Abstract!Terms, Abstract!Dims, Terms, Dims
<1>2. \A x, y : Abstract!InC(call, x, y) = InC(call, x, y)
  BY DEF Abstract!InC, InC
<1>3. terms = [t \in Terms |-> IF InC(call, t[1], t[2]) /\ t[3] < depth[t[1]]
                               THEN 1 ELSE 0]
  OBVIOUS
<1>4. terms = Abstract!Leading(call, depth)
  BY <1>1, <1>2, <1>3 DEF Abstract!Leading
<1>5. QED
  BY <1>4 DEF LeadingPart

(* C is scaled; the buffer for the panels is allocated, or the call        *)
(* returns.                                                                *)
LEMMA AllocateBKeepsIInv ==
  ASSUME IInv, AllocateB
  PROVE  IInv'
<1> USE GemmAssumption, VectorUnitAssumption
<1>1. PICK null \in MayFail :
        /\ failed' = null
        /\ live' = IF null THEN live ELSE live \cup {"Bp"}
        /\ at' = IF null THEN "done" ELSE "pc"
  BY DEF AllocateB
<1>2. /\ at = "scale" /\ i >= call.m
      /\ UNCHANGED <<call, pc, ic, i, j, Bp, Ap, scaled, terms, mismatched>>
  BY DEF AllocateB
<1>3. null \in BOOLEAN
  OBVIOUS
<1>4. /\ call.m > 0 /\ call.n > 0 /\ call.k > 0
      /\ call.m \in Nat /\ call.n \in Nat /\ call.k \in Nat
      /\ i \in Nat /\ j \in Nat /\ j < call.n /\ i = call.m /\ pc = 0
  BY <1>2, CallTypes DEF IInv, CountersInRange
<1>5. terms = NoTerms /\ live = {}
  BY <1>2 DEF IInv, ResultSoFar, BuffersLive
<1>6. scaled = ScaledOnce(call)
  <2>1. ASSUME NEW p \in Cells
        PROVE  (IF Passed(p[1], p[2]) THEN ScaledOnce(call)[p] ELSE 0)
                 = IF InC(call, p[1], p[2]) THEN 1 ELSE 0
    <3>1. ScaledOnce(call)[p] = IF InC(call, p[1], p[2]) THEN 1 ELSE 0
      BY DEF ScaledOnce
    <3>2. InC(call, p[1], p[2]) => Passed(p[1], p[2])
      BY <1>4, CellIndices DEF InC, Passed
    <3>3. QED
      BY <3>1, <3>2
  <2>2. scaled = [p \in Cells |-> IF Passed(p[1], p[2])
                                  THEN ScaledOnce(call)[p] ELSE 0]
    BY <1>2 DEF IInv, StripsScaledOnce
  <2>3. QED
    BY <2>1, <2>2 DEF ScaledOnce
<1>7. TypeOK'
  BY <1>1, <1>2, <1>3 DEF IInv, TypeOK
<1>8. CASE null
  <2>1. failed' /\ at' = "done" /\ live' = {}
    BY <1>1, <1>5, <1>8
  <2>2. LeadingPart
    <3> DEFINE depth == [x \in Dims |-> 0]
    <3>1. depth \in [Dims -> 0 .. call.k]
      BY <1>4
    <3>2. \A x \in Dims, w \in Dims : w < x => depth[w] >= depth[x]
      OBVIOUS
    <3>3. \A t \in Terms : terms[t] = 0 /\ t[1] \in Dims /\ ~(t[3] < 0)
      BY <1>5, TermIndices DEF NoTerms
    <3>4. \A t \in Terms :
            terms[t] = IF InC(call, t[1], t[2]) /\ t[3] < depth[t[1]] THEN 1 ELSE 0
      BY <3>3
    <3>5. terms \in [Terms -> Nat]
      BY DEF IInv, TypeOK
    <3> HIDE DEF depth
    <3>6. QED
      BY <3>1, <3>2, <3>4, <3>5, LeadingPartOf
  <2>3. LeadingPart'
    BY <1>2, <2>2 DEF LeadingPart, Abstract!Leading, Abstract!InC
  <2>4. ~Skipped(call)
    BY <1>4 DEF Skipped
  <2>5. ResultSoFar'
    BY <1>2, <1>6, <2>1, <2>3, <2>4 DEF ResultSoFar, InLoops, Skipped
  <2>6. /\ CountersInRange' /\ BpHoldsPanel' /\ ApHoldsBlock' /\ StripsScaledOnce'
        /\ ReachedTermsOnce'
    BY <2>1 DEF CountersInRange, BpHoldsPanel, ApHoldsBlock, StripsScaledOnce,
                ReachedTermsOnce, InLoops
  <2>7. BuffersLive' /\ FailureIsFinal'
    BY <2>1 DEF BuffersLive, FailureIsFinal
  <2>8. QED
    BY <1>2, <1>7, <2>5, <2>6, <2>7 DEF IInv
<1>9. CASE ~null
  <2>1. ~failed' /\ at' = "pc" /\ live' = {"Bp"}
    BY <1>1, <1>5, <1>9
  <2>2. /\ CountersInRange' /\ BpHoldsPanel' /\ ApHoldsBlock' /\ StripsScaledOnce'
    BY <1>2, <1>4, <2>1
       DEF CountersInRange, BpHoldsPanel, ApHoldsBlock, StripsScaledOnce, InLoops
  <2>3. ReachedTermsOnce'
    <3>1. \A t \in Terms : ~Reached(t)'
      BY <1>2, <1>4, <2>1, TermIndices DEF Reached
    <3>2. terms = [t \in Terms |-> IF Reached(t)' THEN Product(call)[t] ELSE 0]
      BY <1>5, <3>1 DEF NoTerms
    <3>3. QED
      BY <1>2, <3>2 DEF ReachedTermsOnce
  <2>4. ResultSoFar' /\ BuffersLive' /\ FailureIsFinal'
    BY <1>2, <1>6, <2>1 DEF ResultSoFar, BuffersLive, FailureIsFinal, InLoops
  <2>5. QED
    BY <1>2, <1>7, <2>2, <2>3, <2>4 DEF IInv
<1>10. QED
  BY <1>8, <1>9

(* The panel of B is packed.                                               *)
LEMMA PackBKeepsIInv ==
  ASSUME IInv, PackB
  PROVE  IInv'
<1> USE GemmAssumption, VectorUnitAssumption
<1>1. /\ at = "pc" /\ pc < call.k /\ ic' = 0 /\ at' = "ic"
      /\ UNCHANGED <<call, pc, i, j, Ap, live, failed, scaled, terms, mismatched>>
  BY DEF PackB
<1>2. Bp' = [a \in DOMAIN Bp |->
               IF a < kc * call.n
               THEN <<pc + a \div call.n, a % call.n>> ELSE Bp[a]]
  BY DEF PackB
<1>3. InLoops /\ InLoops'
  BY <1>1 DEF InLoops
<1>4. /\ call.m \in Nat /\ call.n \in Nat \ {0} /\ call.k \in Nat
      /\ call.n <= MaxDim /\ call.k <= MaxDim
      /\ pc \in Nat /\ ~failed
  BY <1>3, InsideLoops
<1>5. kc \in 1 .. KC /\ pc + kc <= call.k
  BY <1>1, Extents DEF IInv
<1>6. kc \in Nat /\ kc <= KC /\ kc' = kc /\ KC \in Nat /\ MaxDim \in Nat
  BY <1>1, <1>5 DEF kc
<1>7. DOMAIN Bp = 0 .. KC * MaxDim - 1 /\ KC * MaxDim \in Nat
  BY DEF IInv, TypeOK, BpSize
<1>8. TypeOK'
  <2>1. ASSUME NEW a \in DOMAIN Bp
        PROVE  Bp'[a] \in Positions
    <3>1. CASE a < kc * call.n
      <4>1. a \in Nat
        BY <1>7
      <4>2. a \div call.n \in 0 .. kc - 1 /\ a % call.n \in 0 .. call.n - 1
        BY <1>4, <1>6, <3>1, <4>1, IndexSplits
      <4>3. pc + a \div call.n \in Dims /\ a % call.n \in Dims
        BY <1>4, <1>5, <1>6, <4>2 DEF Dims
      <4>4. QED
        BY <1>2, <3>1, <4>3 DEF Positions, Cells
    <3>2. CASE ~(a < kc * call.n)
      BY <1>2, <3>2 DEF IInv, TypeOK
    <3>3. QED
      BY <3>1, <3>2
  <2>2. Bp' \in [0 .. BpSize - 1 -> Positions]
    BY <1>2, <1>7, <2>1 DEF BpSize
  <2>3. ic' \in 0 .. MaxDim + MC
    BY <1>1
  <2>4. QED
    BY <1>1, <2>2, <2>3 DEF IInv, TypeOK
<1>9. BpHoldsPanel'
  <2>1. ASSUME NEW p \in 0 .. kc - 1, NEW y \in 0 .. call.n - 1
        PROVE  Bp'[p * call.n + y] = <<pc + p, y>>
    <3>1. /\ p * call.n + y < kc * call.n
          /\ p * call.n + y \in 0 .. KC * MaxDim - 1
      BY <1>4, <1>6, IndexInBuffer
    <3>2. p \in Nat
      OBVIOUS
    <3>3. (p * call.n + y) \div call.n = p /\ (p * call.n + y) % call.n = y
      BY <1>4, <3>2, IndexRoundTrip
    <3>4. QED
      BY <1>2, <1>7, <3>1, <3>3
  <2>2. QED
    BY <1>1, <1>6, <2>1 DEF BpHoldsPanel, BValue
<1>10. CountersInRange' /\ ApHoldsBlock'
  BY <1>1, <1>3, <1>4, InsideLoops DEF CountersInRange, ApHoldsBlock
<1>11. \A t \in Terms : Reached(t) <=> Reached(t)'
  BY <1>1, <1>4, TermIndices DEF Reached
<1>12. ReachedTermsOnce'
  BY <1>1, <1>3, <1>11, NothingReached DEF IInv
<1>13. BuffersLive'
  BY <1>1 DEF IInv, BuffersLive
<1>14. ResultSoFar' /\ FailureIsFinal' /\ StripsScaledOnce'
  BY <1>1, <1>3, <1>4, StaysInside
<1>15. QED
  BY <1>1, <1>8, <1>9, <1>10, <1>12, <1>13, <1>14 DEF IInv

(* What is in C when a buffer for a block cannot be had: the rows of the   *)
(* blocks finished have one panel more than the others.                    *)
LEMMA BlocksSoFarLead ==
  ASSUME IInv, at = "ic", ic < call.m
  PROVE  LeadingPart
<1> DEFINE depth == [x \in Dims |-> IF x < ic THEN pc + kc ELSE pc]
<1> USE GemmAssumption, VectorUnitAssumption
<1>1. InLoops
  BY DEF InLoops
<1>2. /\ call.k \in Nat /\ pc \in Nat /\ ic \in Nat /\ pc < call.k
      /\ kc \in 1 .. KC /\ (kc = KC \/ pc + kc = call.k) /\ pc + kc <= call.k
  BY <1>1, InsideLoops, Extents DEF IInv, CountersInRange
<1>3. depth \in [Dims -> 0 .. call.k]
  BY <1>2
<1>4. \A x \in Dims, w \in Dims : w < x => depth[w] >= depth[x]
  BY <1>2 DEF Dims
<1>5. ASSUME NEW t \in Terms
      PROVE  terms[t] = IF InC(call, t[1], t[2]) /\ t[3] < depth[t[1]] THEN 1 ELSE 0
  <2>1. t[1] \in Dims /\ t[1] \in Nat /\ t[3] \in Nat
    BY TermIndices
  <2>2. terms[t] = IF Reached(t) THEN Product(call)[t] ELSE 0
    BY <1>1 DEF IInv, ReachedTermsOnce
  <2>3. depth[t[1]] = IF t[1] < ic THEN pc + kc ELSE pc
    BY <2>1
  <2> HIDE DEF depth
  <2>4. t[3] < depth[t[1]] <=> Reached(t) /\ t[3] < call.k
    BY <1>2, <2>1, <2>3 DEF Reached
  <2>5. CASE t[3] < depth[t[1]]
    BY <2>2, <2>4, <2>5, ProductOf
  <2>6. CASE ~(t[3] < depth[t[1]])
    BY <2>2, <2>4, <2>6, ProductOf
  <2>7. QED
    BY <2>5, <2>6
<1>6. terms \in [Terms -> Nat]
  BY DEF IInv, TypeOK
<1> HIDE DEF depth
<1>7. QED
  BY <1>3, <1>4, <1>5, <1>6, LeadingPartOf

(* The block of A is allocated and packed, or the call frees the panel and *)
(* returns.                                                                *)
LEMMA AllocateAKeepsIInv ==
  ASSUME IInv, AllocateA
  PROVE  IInv'
<1> USE GemmAssumption, VectorUnitAssumption
<1>1. PICK null \in MayFail :
        /\ failed' = null
        /\ live' = IF null THEN live \ {"Bp"} ELSE live \cup {"Ap"}
        /\ at' = IF null THEN "done" ELSE "panel"
        /\ Ap' = IF null THEN Ap ELSE PackedA
  BY DEF AllocateA
<1>2. /\ at = "ic" /\ ic < call.m /\ i' = 0 /\ j' = 0
      /\ UNCHANGED <<call, pc, ic, Bp, scaled, terms, mismatched>>
  BY DEF AllocateA
<1>3. null \in BOOLEAN
  OBVIOUS
<1>4. InLoops
  BY <1>2 DEF InLoops
<1>5. /\ call.m \in Nat /\ call.n \in Nat /\ call.k \in Nat
      /\ call.m <= MaxDim /\ call.n <= MaxDim /\ call.k <= MaxDim
      /\ pc \in Nat /\ ic \in Nat
      /\ scaled = ScaledOnce(call) /\ ~Skipped(call)
  BY <1>4, InsideLoops
<1>6. pc < call.k /\ call.n > 0 /\ call.m > 0 /\ call.k > 0
  BY <1>2, <1>4, InsideLoops DEF IInv, CountersInRange
<1>7. live = {"Bp"}
  BY <1>2 DEF IInv, BuffersLive
<1>8. /\ mc \in 1 .. MC /\ ic + mc <= call.m
      /\ kc \in 1 .. KC /\ pc + kc <= call.k
  BY <1>2, <1>6, Extents DEF IInv
<1>9. /\ mc \in Nat /\ kc \in Nat \ {0} /\ mc' = mc /\ kc' = kc
      /\ mc <= MC /\ kc <= KC /\ MC \in Nat /\ KC \in Nat
  BY <1>2, <1>8 DEF kc, mc
<1>10. DOMAIN Ap = 0 .. MC * KC - 1 /\ MC * KC \in Nat
  BY DEF IInv, TypeOK, ApSize
<1>11. PackedA \in [0 .. ApSize - 1 -> Positions]
  <2>1. ASSUME NEW a \in DOMAIN Ap
        PROVE  PackedA[a] \in Positions
    <3>1. CASE a < mc * kc
      <4>1. a \in Nat
        BY <1>10
      <4>2. a \div kc \in 0 .. mc - 1 /\ a % kc \in 0 .. kc - 1
        BY <1>9, <3>1, <4>1, IndexSplits
      <4>3. ic + a \div kc \in Dims /\ pc + (a % kc) \in Dims
        BY <1>5, <1>8, <1>9, <4>2 DEF Dims
      <4>4. QED
        BY <3>1, <4>3 DEF PackedA, Positions, Cells
    <3>2. CASE ~(a < mc * kc)
      BY <3>2 DEF PackedA, Positions
    <3>3. QED
      BY <3>1, <3>2
  <2>2. PackedA = [a \in DOMAIN Ap |-> PackedA[a]]
    BY DEF PackedA
  <2>3. QED
    BY <1>10, <2>1, <2>2 DEF ApSize
<1>12. ASSUME NEW x \in 0 .. mc - 1, NEW p \in 0 .. kc - 1
       PROVE  PackedA[x * kc + p] = <<ic + x, pc + p>>
  <2>1. x * kc + p < mc * kc /\ x * kc + p \in 0 .. MC * KC - 1
    BY <1>9, IndexInBuffer
  <2>2. x \in Nat
    OBVIOUS
  <2>3. (x * kc + p) \div kc = x /\ (x * kc + p) % kc = p
    BY <1>9, <2>2, IndexRoundTrip
  <2>4. QED
    BY <1>10, <2>1, <2>3 DEF PackedA
<1>13. CASE null
  <2>1. failed' /\ at' = "done" /\ live' = {} /\ Ap' = Ap
    BY <1>1, <1>7, <1>13
  <2>2. TypeOK'
    BY <1>1, <1>2, <1>3, <2>1 DEF IInv, TypeOK
  <2>3. LeadingPart
    BY <1>2, BlocksSoFarLead
  <2>4. LeadingPart'
    BY <1>2, <2>3 DEF LeadingPart, Abstract!Leading, Abstract!InC
  <2>5. ResultSoFar'
    BY <1>2, <1>5, <2>1, <2>4 DEF ResultSoFar, InLoops, Skipped
  <2>6. /\ CountersInRange' /\ BpHoldsPanel' /\ ApHoldsBlock' /\ StripsScaledOnce'
        /\ ReachedTermsOnce'
    BY <2>1 DEF CountersInRange, BpHoldsPanel, ApHoldsBlock, StripsScaledOnce,
                ReachedTermsOnce, InLoops
  <2>7. BuffersLive' /\ FailureIsFinal'
    BY <2>1 DEF BuffersLive, FailureIsFinal
  <2>8. QED
    BY <1>2, <2>2, <2>5, <2>6, <2>7 DEF IInv
<1>14. CASE ~null
  <2>1. /\ ~failed' /\ at' = "panel" /\ live' = {"Ap", "Bp"} /\ Ap' = PackedA
    BY <1>1, <1>7, <1>14
  <2>2. InLoops'
    BY <2>1 DEF InLoops
  <2>3. TypeOK'
    BY <1>1, <1>2, <1>3, <1>11, <2>1 DEF IInv, TypeOK
  <2>4. BpHoldsPanel'
    BY <1>2, <1>9, <2>1 DEF IInv, BpHoldsPanel, BValue
  <2>5. ApHoldsBlock'
    BY <1>2, <1>9, <1>12, <2>1 DEF ApHoldsBlock
  <2>6. CountersInRange'
    BY <1>2, <1>5, <1>6, <1>9, <2>1 DEF CountersInRange, InLoops
  <2>7. ASSUME NEW t \in Terms
        PROVE  Reached(t) <=> Reached(t)'
    <3>1. t[1] \in Nat /\ t[2] \in Nat
      BY TermIndices
    <3>2. Passed(t[1] - ic, t[2])' <=> t[1] < ic
      BY <1>2, <1>5, <3>1 DEF Passed
    <3>3. QED
      BY <1>2, <2>1, <3>2 DEF Reached
  <2>8. ReachedTermsOnce'
    BY <1>2, <1>4, <2>7, NothingReached DEF IInv
  <2>9. BuffersLive'
    BY <2>1 DEF BuffersLive
  <2>10. ResultSoFar' /\ FailureIsFinal' /\ StripsScaledOnce'
    BY <1>2, <1>4, <2>1, <2>2, StaysInside
  <2>11. QED
    BY <1>2, <2>3, <2>4, <2>5, <2>6, <2>8, <2>9, <2>10 DEF IInv
<1>15. QED
  BY <1>13, <1>14

(* A strip of row i of the block adds to its cells their terms of the      *)
(* panel, each once.                                                       *)
LEMMA StripAddsItsTerms ==
  ASSUME IInv, at = "panel", i < mc, NEW t \in Terms,
         t[1] = ic + i, t[2] < call.n
  PROVE  Cardinality({p \in 0 .. kc - 1 : /\ AValue(p) = <<t[1], t[3]>>
                                          /\ BValue(p, t[2]) = <<t[3], t[2]>>})
           = IF pc <= t[3] /\ t[3] < pc + kc THEN 1 ELSE 0
<1> DEFINE S == {p \in 0 .. kc - 1 : /\ AValue(p) = <<t[1], t[3]>>
                                     /\ BValue(p, t[2]) = <<t[3], t[2]>>}
<1>1. /\ t[2] \in Nat /\ t[3] \in Nat /\ pc \in Nat /\ i \in Nat
      /\ kc \in Int /\ mc \in Int /\ call.n \in Nat
  BY TermIndices, CallTypes, Extents, GemmAssumption DEF IInv
<1>2. i \in 0 .. mc - 1 /\ t[2] \in 0 .. call.n - 1
  BY <1>1
<1>3. ASSUME NEW p \in 0 .. kc - 1
      PROVE  p \in S <=> pc + p = t[3]
  <2>1. AValue(p) = <<t[1], pc + p>>
    BY <1>2 DEF IInv, ApHoldsBlock, AValue
  <2>2. BValue(p, t[2]) = <<pc + p, t[2]>>
    BY <1>2 DEF IInv, BpHoldsPanel
  <2>3. QED
    BY <2>1, <2>2
<1>4. S \subseteq 0 .. kc - 1
  OBVIOUS
<1> HIDE DEF S
<1>5. S = IF pc <= t[3] /\ t[3] < pc + kc THEN {t[3] - pc} ELSE {}
  <2>1. CASE pc <= t[3] /\ t[3] < pc + kc
    <3>1. t[3] - pc \in 0 .. kc - 1 /\ pc + (t[3] - pc) = t[3]
      BY <1>1, <2>1
    <3>2. \A p \in 0 .. kc - 1 : pc + p = t[3] <=> p = t[3] - pc
      BY <1>1
    <3>3. S = {t[3] - pc}
      BY <1>3, <1>4, <3>1, <3>2
    <3>4. QED
      BY <2>1, <3>3
  <2>2. CASE ~(pc <= t[3] /\ t[3] < pc + kc)
    <3>1. \A p \in 0 .. kc - 1 : pc + p # t[3]
      BY <1>1, <2>2
    <3>2. S = {}
      BY <1>3, <1>4, <3>1
    <3>3. QED
      BY <2>2, <3>2
  <2>3. QED
    BY <2>1, <2>2
<1>6. Cardinality(S) = IF pc <= t[3] /\ t[3] < pc + kc THEN 1 ELSE 0
  BY <1>5, FS_Singleton, FS_EmptySet
<1>7. QED
  BY <1>6 DEF S

(* One strip of a row of C takes the products of the panels.               *)
LEMMA PanelStripKeepsIInv ==
  ASSUME IInv, PanelStrip
  PROVE  IInv'
<1> USE GemmAssumption, VectorUnitAssumption
<1> DEFINE Added(t) ==
      Cardinality({p \in 0 .. kc - 1 : /\ AValue(p) = <<t[1], t[3]>>
                                       /\ BValue(p, t[2]) = <<t[3], t[2]>>})
           Joined(vl) ==
      \E p \in 0 .. kc - 1, y \in j .. j + vl - 1 :
        ~ \E q \in Dims : AValue(p) = <<ic + i, q>> /\ BValue(p, y) = <<q, y>>
<1>1. /\ at = "panel" /\ i < mc
      /\ UNCHANGED <<call, at, pc, ic, Bp, Ap, live, failed, scaled>>
  BY DEF PanelStrip
<1>2. PICK vl \in LegalVl(call.n - j, call.vlmax) :
        /\ terms' = [t \in Terms |->
                       IF t[1] = ic + i /\ t[2] \in j .. j + vl - 1
                       THEN terms[t] + Added(t) ELSE terms[t]]
        /\ mismatched' = (mismatched \/ Joined(vl))
        /\ AdvanceStrip(vl)
  BY DEF PanelStrip
<1>3. InLoops /\ InLoops'
  BY <1>1 DEF InLoops
<1>4. /\ call.m \in Nat /\ call.n \in Nat /\ call.k \in Nat
      /\ call.m <= MaxDim /\ call.n <= MaxDim /\ call.k <= MaxDim
      /\ pc \in Nat /\ ic \in Nat /\ i \in Nat /\ j \in Nat /\ ~failed
  BY <1>3, InsideLoops
<1>5. pc < call.k /\ ic < call.m /\ j < call.n
  BY <1>1 DEF IInv, CountersInRange
<1>6. /\ mc \in 1 .. MC /\ ic + mc <= call.m
      /\ kc \in 1 .. KC /\ (kc = KC \/ pc + kc = call.k) /\ pc + kc <= call.k
  BY <1>5, Extents DEF IInv
<1>7. mc' = mc /\ kc' = kc
  BY <1>1 DEF mc, kc
<1>8. vl \in 1 .. call.n - j
  <2>1. call.n - j \in Nat \ {0} /\ call.vlmax \in Nat \ {0}
    BY <1>4, <1>5, CallTypes DEF IInv
  <2>2. QED
    BY <1>2, <2>1, LegalVlBounds
<1>9. /\ i' \in Nat /\ j' \in Nat /\ j' < call.n
      /\ i' = i \/ (i' = i + 1 /\ j' = 0)
      /\ \A x \in Int, y \in Nat :
           y < call.n =>
             (Passed(x, y)' <=> \/ Passed(x, y)
                                \/ x = i /\ j <= y /\ y < j + vl)
  BY <1>1, <1>2, <1>4, <1>5, <1>8, StripPasses
<1>10. ReachedTermsOnce'
  <2>1. ASSUME NEW t \in Terms
        PROVE  terms'[t] = IF Reached(t)' THEN Product(call)[t] ELSE 0
    <3>1. t[1] \in Nat /\ t[2] \in Nat /\ t[3] \in Nat /\ t[1] - ic \in Int
      BY <1>4, TermIndices
    <3>2. terms[t] = IF Reached(t) THEN Product(call)[t] ELSE 0
      BY <1>3 DEF IInv, ReachedTermsOnce
    <3>3. Product(call)[t] = IF t[1] < call.m /\ t[2] < call.n /\ t[3] < call.k
                             THEN 1 ELSE 0
      BY ProductOf DEF InC
    <3>4. t[1] = ic + i <=> t[1] - ic = i
      BY <1>4, <3>1
    <3>5. terms'[t] = IF t[1] = ic + i /\ j <= t[2] /\ t[2] < j + vl
                      THEN terms[t] + Added(t) ELSE terms[t]
      BY <1>2, <1>4, <1>8, <3>1
    <3>6. CASE t[1] = ic + i /\ j <= t[2] /\ t[2] < j + vl
      <4>1. t[2] < call.n
        BY <1>4, <1>8, <3>1, <3>6
      <4>2. Added(t) = IF pc <= t[3] /\ t[3] < pc + kc THEN 1 ELSE 0
        BY <1>1, <3>6, <4>1, StripAddsItsTerms
      <4> HIDE DEF Added
      <4>3. t[1] < call.m
        BY <1>1, <1>4, <1>6, <3>1, <3>6
      <4>4. ~Passed(t[1] - ic, t[2]) /\ ~(t[1] < ic)
        BY <1>4, <3>1, <3>6 DEF Passed
      <4>5. Passed(t[1] - ic, t[2])'
        BY <1>1, <1>9, <3>1, <3>4, <3>6, <4>1
      <4>6. Reached(t) <=> t[3] < pc
        BY <4>4 DEF Reached
      <4>7. Reached(t)' <=> t[3] < pc \/ t[3] < pc + KC
        BY <1>1, <4>5 DEF Reached
      <4>8. QED
        BY <1>4, <1>6, <3>1, <3>2, <3>3, <3>5, <3>6, <4>1, <4>2, <4>3, <4>6, <4>7
    <3>7. CASE ~(t[1] = ic + i /\ j <= t[2] /\ t[2] < j + vl)
      <4>1. CASE t[2] < call.n
        <5>1. Passed(t[1] - ic, t[2])' <=> Passed(t[1] - ic, t[2])
          BY <1>1, <1>9, <3>1, <3>4, <3>7, <4>1
        <5>2. Reached(t)' <=> Reached(t)
          BY <1>1, <5>1 DEF Reached
        <5>3. QED
          BY <3>2, <3>5, <3>7, <5>2
      <4>2. CASE ~(t[2] < call.n)
        BY <3>2, <3>3, <3>5, <3>7, <4>2
      <4>3. QED
        BY <4>1, <4>2
    <3>8. QED
      BY <3>6, <3>7
  <2>2. terms' = [t \in Terms |-> IF Reached(t)' THEN Product(call)[t] ELSE 0]
    BY <1>2, <2>1
  <2>3. QED
    BY <1>1, <2>2 DEF ReachedTermsOnce
<1>11. mismatched' = FALSE
  <2>1. ASSUME NEW p \in 0 .. kc - 1, NEW y \in j .. j + vl - 1
        PROVE  \E q \in Dims : AValue(p) = <<ic + i, q>> /\ BValue(p, y) = <<q, y>>
    <3>1. pc + p \in Dims
      BY <1>4, <1>6 DEF Dims
    <3>2. y \in 0 .. call.n - 1 /\ i \in 0 .. mc - 1
      BY <1>1, <1>4, <1>6, <1>8
    <3>3. AValue(p) = <<ic + i, pc + p>> /\ BValue(p, y) = <<pc + p, y>>
      BY <1>1, <3>2 DEF IInv, ApHoldsBlock, BpHoldsPanel, AValue
    <3>4. QED
      BY <3>1, <3>3
  <2>2. ~Joined(vl)
    BY <2>1
  <2>3. ~mismatched
    BY DEF IInv
  <2> HIDE DEF Joined
  <2>4. QED
    BY <1>2, <2>2, <2>3
<1>12. TypeOK'
  <2>1. terms' \in [Terms -> Nat]
    <3>1. terms' = [t \in Terms |-> IF Reached(t)' THEN Product(call')[t] ELSE 0]
      BY <1>3, <1>10 DEF ReachedTermsOnce
    <3>2. QED
      BY <3>1, ProductType
  <2>2. i' \in 0 .. MaxDim /\ j' \in 0 .. MaxDim
    BY <1>1, <1>4, <1>6, <1>9
  <2>3. QED
    BY <1>1, <1>11, <2>1, <2>2 DEF IInv, TypeOK
<1>13. CountersInRange'
  BY <1>1, <1>4, <1>5, <1>6, <1>7, <1>9 DEF IInv, CountersInRange, InLoops
<1>14. BpHoldsPanel' /\ ApHoldsBlock' /\ BuffersLive'
  BY <1>1, <1>7 DEF IInv, BpHoldsPanel, BValue, ApHoldsBlock, BuffersLive
<1>15. ResultSoFar' /\ FailureIsFinal' /\ StripsScaledOnce'
  BY <1>1, <1>3, <1>4, StaysInside
<1>16. QED
  BY <1>10, <1>11, <1>12, <1>13, <1>14, <1>15 DEF IInv

(* The block of A is done with: on to the next rows.                       *)
LEMMA FreeAKeepsIInv ==
  ASSUME IInv, FreeA
  PROVE  IInv'
<1> USE GemmAssumption, VectorUnitAssumption
<1>1. /\ at = "panel" /\ i >= mc /\ live' = live \ {"Ap"}
      /\ ic' = ic + MC /\ at' = "ic"
      /\ UNCHANGED <<call, pc, i, j, Bp, Ap, failed, scaled, terms, mismatched>>
  BY DEF FreeA
<1>2. InLoops /\ InLoops'
  BY <1>1 DEF InLoops
<1>3. /\ call.m \in Nat /\ call.n \in Nat /\ call.k \in Nat /\ call.m <= MaxDim
      /\ pc \in Nat /\ ic \in Nat /\ i \in Nat /\ j \in Nat /\ ~failed
  BY <1>2, InsideLoops
<1>4. pc < call.k /\ ic < call.m /\ j < call.n /\ (i < mc \/ (i = mc /\ j = 0))
  BY <1>1 DEF IInv, CountersInRange
<1>5. mc \in 1 .. MC /\ (mc = MC \/ ic + mc = call.m) /\ kc' = kc
  BY <1>1, <1>4, Extents DEF IInv, kc
<1>6. TypeOK'
  <2>1. ic' \in 0 .. MaxDim + MC
    BY <1>1, <1>3, <1>4
  <2>2. QED
    BY <1>1, <2>1 DEF IInv, TypeOK
<1>7. CountersInRange'
  BY <1>1, <1>2, <1>3, <1>4, InsideLoops DEF CountersInRange
<1>8. BpHoldsPanel' /\ ApHoldsBlock'
  BY <1>1, <1>5 DEF IInv, BpHoldsPanel, BValue, ApHoldsBlock
<1>9. ASSUME NEW t \in Terms, Product(call)[t] # 0
      PROVE  Reached(t) <=> Reached(t)'
  <2>1. /\ t[1] \in Nat /\ t[2] \in Nat /\ t[3] \in Nat
        /\ t[1] < call.m /\ t[2] < call.n
    BY <1>9, TermIndices, ProductOf DEF InC
  <2>2. i = mc /\ j = 0
    BY <1>1, <1>3, <1>4, <1>5
  <2>3. Reached(t) <=> \/ t[3] < pc
                        \/ /\ t[3] < pc + KC
                           /\ t[1] < ic \/ Passed(t[1] - ic, t[2])
    BY <1>1 DEF Reached
  <2>4. Reached(t)' <=> t[3] < pc \/ (t[3] < pc + KC /\ t[1] < ic + MC)
    BY <1>1 DEF Reached
  <2>5. Passed(t[1] - ic, t[2]) <=> t[1] < ic + mc
    BY <1>3, <1>5, <2>1, <2>2 DEF Passed
  <2>6. t[1] < ic + mc <=> t[1] < ic + MC
    BY <1>3, <1>5, <2>1
  <2>7. t[1] < ic => t[1] < ic + MC
    BY <1>3, <2>1
  <2>8. QED
    BY <2>3, <2>4, <2>5, <2>6, <2>7
<1>10. ReachedTermsOnce'
  BY <1>1, <1>2, <1>9, NothingReached DEF IInv
<1>11. BuffersLive'
  BY <1>1 DEF IInv, BuffersLive
<1>12. ResultSoFar' /\ FailureIsFinal' /\ StripsScaledOnce'
  BY <1>1, <1>2, <1>3, StaysInside
<1>13. QED
  BY <1>1, <1>6, <1>7, <1>8, <1>10, <1>11, <1>12 DEF IInv

(* On to the next panel of the inner dimension.                            *)
LEMMA NextPanelKeepsIInv ==
  ASSUME IInv, NextPanel
  PROVE  IInv'
<1> USE GemmAssumption, VectorUnitAssumption
<1>1. /\ at = "ic" /\ ic >= call.m /\ pc' = pc + KC /\ at' = "pc"
      /\ UNCHANGED <<call, ic, i, j, Bp, Ap, live, failed, scaled, terms, mismatched>>
  BY DEF NextPanel
<1>2. InLoops /\ InLoops'
  BY <1>1 DEF InLoops
<1>3. /\ call.m \in Nat /\ call.n \in Nat /\ call.k \in Nat /\ call.k <= MaxDim
      /\ pc \in Nat /\ ic \in Nat /\ ~failed
  BY <1>2, InsideLoops
<1>4. pc < call.k
  BY <1>1 DEF IInv, CountersInRange
<1>5. TypeOK'
  <2>1. pc' \in 0 .. MaxDim + KC
    BY <1>1, <1>3, <1>4
  <2>2. QED
    BY <1>1, <2>1 DEF IInv, TypeOK
<1>6. CountersInRange' /\ BpHoldsPanel' /\ ApHoldsBlock'
  BY <1>1, <1>2, <1>3, <1>4, InsideLoops
     DEF CountersInRange, BpHoldsPanel, ApHoldsBlock
<1>7. ASSUME NEW t \in Terms, Product(call)[t] # 0
      PROVE  Reached(t) <=> Reached(t)'
  <2>1. t[1] < call.m
    BY <1>7, ProductOf DEF InC
  <2>2. QED
    BY <1>1, <1>3, <2>1, TermIndices DEF Reached
<1>8. ReachedTermsOnce'
  BY <1>1, <1>2, <1>7, NothingReached DEF IInv
<1>9. BuffersLive'
  BY <1>1 DEF IInv, BuffersLive
<1>10. ResultSoFar' /\ FailureIsFinal' /\ StripsScaledOnce'
  BY <1>1, <1>2, <1>3, StaysInside
<1>11. QED
  BY <1>1, <1>5, <1>6, <1>8, <1>9, <1>10 DEF IInv

(* The last panel is done: its buffer is freed and the call returns.       *)
LEMMA FreeBKeepsIInv ==
  ASSUME IInv, FreeB
  PROVE  IInv'
<1>1. /\ at = "pc" /\ pc >= call.k /\ live' = live \ {"Bp"} /\ at' = "done"
      /\ UNCHANGED <<call, pc, ic, i, j, Bp, Ap, failed, scaled, terms, mismatched>>
  BY DEF FreeB
<1>2. InLoops
  BY <1>1 DEF InLoops
<1>3. /\ call.k \in Nat /\ pc \in Nat
      /\ ~failed /\ scaled = ScaledOnce(call) /\ ~Skipped(call)
  BY <1>2, InsideLoops
<1>4. TypeOK'
  BY <1>1 DEF IInv, TypeOK
<1>5. terms = Product(call)
  <2>1. ASSUME NEW t \in Terms
        PROVE  (IF Reached(t) THEN Product(call)[t] ELSE 0) = Product(call)[t]
    <3>1. t[3] < call.k => Reached(t)
      BY <1>1, <1>3, TermIndices DEF Reached
    <3>2. ~(t[3] < call.k) => Product(call)[t] = 0
      BY ProductOf
    <3>3. QED
      BY <3>1, <3>2
  <2>2. terms = [t \in Terms |-> Product(call)[t]]
    BY <1>2, <2>1 DEF IInv, ReachedTermsOnce
  <2>3. QED
    BY <2>2 DEF Product
<1>6. ResultSoFar'
  BY <1>1, <1>3, <1>5 DEF ResultSoFar, InLoops, Skipped
<1>7. /\ CountersInRange' /\ BpHoldsPanel' /\ ApHoldsBlock' /\ StripsScaledOnce'
      /\ ReachedTermsOnce'
  BY <1>1 DEF CountersInRange, BpHoldsPanel, ApHoldsBlock, StripsScaledOnce,
              ReachedTermsOnce, InLoops
<1>8. BuffersLive' /\ FailureIsFinal'
  BY <1>1 DEF IInv, BuffersLive, FailureIsFinal
<1>9. QED
  BY <1>1, <1>4, <1>6, <1>7, <1>8 DEF IInv

(* Nothing happens.                                                        *)
LEMMA StutterKeepsIInv ==
  ASSUME IInv, UNCHANGED vars
  PROVE  IInv'
<1>1. TypeOK'
  BY DEF IInv, vars, TypeOK
<1>2. kc' = kc /\ mc' = mc
  BY DEF vars, kc, mc
<1>3. CountersInRange' /\ BpHoldsPanel' /\ ApHoldsBlock'
  BY <1>2 DEF IInv, vars, CountersInRange, BpHoldsPanel, ApHoldsBlock, BValue, InLoops
<1>4. ReachedTermsOnce' /\ StripsScaledOnce'
  BY DEF IInv, vars, ReachedTermsOnce, Reached, InLoops, StripsScaledOnce, Passed
<1>5. LeadingPart => LeadingPart'
  BY DEF vars, LeadingPart, Abstract!Leading, Abstract!InC
<1>6. ResultSoFar' /\ BuffersLive' /\ FailureIsFinal'
  BY <1>5 DEF IInv, vars, ResultSoFar, BuffersLive, FailureIsFinal, InLoops
<1>7. QED
  BY <1>1, <1>3, <1>4, <1>6 DEF IInv, vars

(* Every step of the call keeps the invariant.                             *)
LEMMA NextKeepsIInv == IInv /\ [Next]_vars => IInv'
<1> SUFFICES ASSUME IInv, [Next]_vars PROVE IInv'
  OBVIOUS
<1>1. CASE Enter
  BY <1>1, EnterKeepsIInv
<1>2. CASE ScaleStrip
  BY <1>2, ScaleStripKeepsIInv
<1>3. CASE AllocateB
  BY <1>3, AllocateBKeepsIInv
<1>4. CASE PackB
  BY <1>4, PackBKeepsIInv
<1>5. CASE AllocateA
  BY <1>5, AllocateAKeepsIInv
<1>6. CASE PanelStrip
  BY <1>6, PanelStripKeepsIInv
<1>7. CASE FreeA
  BY <1>7, FreeAKeepsIInv
<1>8. CASE NextPanel
  BY <1>8, NextPanelKeepsIInv
<1>9. CASE FreeB
  BY <1>9, FreeBKeepsIInv
<1>10. CASE Done \/ UNCHANGED vars
  BY <1>10, StutterKeepsIInv DEF Done
<1>11. QED
  BY <1>1, <1>2, <1>3, <1>4, <1>5, <1>6, <1>7, <1>8, <1>9, <1>10 DEF Next

THEOREM RvvDgemmInvariant == Spec => []IInv
BY InitIInv, NextKeepsIInv, PTL DEF Spec

-----------------------------------------------------------------------------

(* The counters of rvv_dgemm.c stay within one block of the dimensions,    *)
(* and what the packing loops copy are cells of the matrices.              *)
THEOREM RvvDgemmTypeCorrect == Spec => []TypeOK
<1>1. IInv => TypeOK
  BY DEF IInv
<1>2. QED
  BY <1>1, RvvDgemmInvariant, PTL

(* A panel only ever joins A[x][q] and B[q][y], although Bp keeps the rows *)
(* of a longer panel and the buffer for a block comes from malloc; and     *)
(* every path out of the function, those after a failed allocation         *)
(* included, has freed what it held.                                       *)
THEOREM RvvDgemmReadsWhatItPacked == Spec => []PanelsReadWhatTheyPacked
<1>1. IInv => PanelsReadWhatTheyPacked
  BY DEF IInv, PanelsReadWhatTheyPacked, BuffersLive
<1>2. QED
  BY <1>1, RvvDgemmInvariant, PTL

-----------------------------------------------------------------------------

(* The call begins as the abstract one does.                               *)
LEMMA InitImplements == Init => Abstract!Init
BY SameData DEF Init, Abstract!Init

(* A step that returns is the caller's Complete or, after a failed         *)
(* allocation, GiveUp; the caller sees nothing of any other.               *)
LEMMA StepImplements ==
  IInv /\ IInv' /\ [Next]_vars
    => [Abstract!Complete \/ Abstract!GiveUp]_(Abstract!vars)
<1> SUFFICES ASSUME IInv, IInv', [Next]_vars
             PROVE  [Abstract!Complete \/ Abstract!GiveUp]_(Abstract!vars)
  OBVIOUS
<1>1. call' = call
  BY DEF Next, vars, Enter, ScaleStrip, AllocateB, PackB, AllocateA, PanelStrip,
         FreeA, NextPanel, FreeB, Done
<1>2. CASE at = "done"
  <2>1. UNCHANGED vars
    BY <1>2 DEF Next, vars, Enter, ScaleStrip, AllocateB, PackB, AllocateA,
                PanelStrip, FreeA, NextPanel, FreeB, Done
  <2>2. QED
    BY <2>1 DEF vars, Abstract!vars
<1>3. CASE at # "done" /\ at' # "done"
  BY <1>1, <1>3 DEF Abstract!vars
<1>4. CASE at # "done" /\ at' = "done"
  <2>1. CASE ~failed'
    <3>1. /\ scaled' = IF Skipped(call) THEN NotScaled ELSE ScaledOnce(call)
          /\ terms' = IF Skipped(call) THEN NoTerms ELSE Product(call)
      BY <1>1, <1>4, <2>1 DEF IInv, ResultSoFar
    <3>2. QED
      BY <1>1, <1>4, <2>1, <3>1, SameData DEF Abstract!Complete
  <2>2. CASE failed'
    <3>1. ~Skipped(call) /\ scaled' = ScaledOnce(call) /\ LeadingPart'
      BY <1>1, <1>4, <2>2 DEF IInv, ResultSoFar
    <3>2. \E depth \in [Dims -> 0 .. call.k] :
            /\ \A x \in Dims, w \in Dims : w < x => depth[w] >= depth[x]
            /\ terms' = Abstract!Leading(call, depth)
      BY <1>1, <3>1 DEF LeadingPart, Abstract!Leading, Abstract!InC
    <3>3. QED
      BY <1>1, <1>4, <2>2, <3>1, <3>2, SameData DEF Abstract!GiveUp
  <2>3. QED
    BY <2>1, <2>2
<1>5. QED
  BY <1>2, <1>3, <1>4

(* Whatever the sizes, the vector lengths granted and the allocations that *)
(* fail, the function returns with C scaled by beta once and with every    *)
(* product in it once or, after a failure that it does not report, with    *)
(* the leading part of the inner dimension, one panel more in the rows     *)
(* above the block it had no buffer for.                                   *)
THEOREM RvvDgemmImplementsLossyGemm == Spec => ImplementsLossyGemm
<1>1. Init => Abstract!Init
  BY InitImplements
<1>2. IInv /\ IInv' /\ [Next]_vars
        => [Abstract!Complete \/ Abstract!GiveUp]_(Abstract!vars)
  BY StepImplements
<1>3. QED
  BY <1>1, <1>2, RvvDgemmInvariant, PTL
     DEF Spec, ImplementsLossyGemm, Abstract!LossySpec
=============================================================================
