--------------------------- MODULE ReductionsProofs ---------------------------
(***************************************************************************)
(* For every row count, row length and register length: every row a        *)
(* reduction kernel stores holds each of its products exactly once         *)
(* (ProductsCountedOnce), and a row is only poisoned when its length is    *)
(* not a multiple of the register length (PoisonNeedsShortStrip).  And the *)
(* rows are stored in order, each once (RowsStoredInOrder).                *)
(*                                                                         *)
(* The inductive invariant says of the row being folded that the products  *)
(* below j sit in exactly one accumulator each and those from j on in none *)
(* (LanesPartition), of the rows below it that they are exact              *)
(* (RowsFinished), and of the strips that what is left of a row of a       *)
(* multiple of vlmax products is a multiple of vlmax (WholeStripsLeft).    *)
(***************************************************************************)
EXTENDS Reductions, FiniteSetTheorems, TLAPS

-----------------------------------------------------------------------------

(* The unit grants at least one lane and never more than were asked for or *)
(* than a register group holds.                                            *)
LEMMA LegalVlBounds ==
  ASSUME NEW avl \in Nat \ {0}, NEW vlmax \in Nat \ {0},
         NEW vl \in LegalVl(avl, vlmax)
  PROVE  vl \in 1 .. avl /\ vl <= vlmax
BY DEF LegalVl

(* Asked for a multiple of the register length, the unit grants a full     *)
(* register: the rule that lets it split evenly does not apply.            *)
LEMMA WholeStripIsFull ==
  ASSUME NEW vlmax \in Nat \ {0}, NEW q \in Nat \ {0},
         NEW vl \in LegalVl(q * vlmax, vlmax)
  PROVE  vl = vlmax
<1>1. q * vlmax \in Nat
  OBVIOUS
<1>2. CASE q = 1
  BY <1>2 DEF LegalVl
<1>3. CASE q >= 2
  <2>1. q * vlmax >= 2 * vlmax
    BY <1>3
  <2>2. QED
    BY <1>1, <2>1 DEF LegalVl
<1>4. QED
  BY <1>2, <1>3

(* A number with remainder zero is a multiple.                             *)
LEMMA ZeroRemainder ==
  ASSUME NEW a \in Nat, NEW b \in Nat \ {0}, a % b = 0
  PROVE  \E q \in Nat : a = q * b
<1>1. a = b * (a \div b) + (a % b)
  OBVIOUS
<1>2. a \div b \in Nat
  OBVIOUS
<1>3. a = (a \div b) * b
  BY <1>1, <1>2
<1>4. QED
  BY <1>2, <1>3

(* n & ~3L is the largest multiple of four that is at most n.              *)
LEMMA RoundDown ==
  ASSUME NEW q \in Nat
  PROVE  /\ q - (q % 4) \in Int
         /\ (q - (q % 4)) % 4 = 0
         /\ q - (q % 4) <= q
<1>1. q - (q % 4) \in Int
  OBVIOUS
<1>2. (q - (q % 4)) % 4 = 0
  OBVIOUS
<1>3. q - (q % 4) <= q
  OBVIOUS
<1>4. QED
  BY <1>1, <1>2, <1>3

-----------------------------------------------------------------------------

(* Product k sits in exactly one of the accumulators that will be summed.  *)
InOneLane(k) ==
  \E l \in LanesSummed :
    \A m \in Lanes : acc[<<m, k>>] = IF m = l THEN 1 ELSE 0

InNoLane(k) == \A m \in Lanes : acc[<<m, k>>] = 0

LanesPartition ==
  pc = "strips" =>
    \A k \in Products : IF k < j THEN InOneLane(k) ELSE InNoLane(k)

CounterInPlace ==
  /\ pc = "enter" => row = 0
  /\ pc \in {"rows", "strips"} => ~NothingToDo /\ ~OneElementNorm /\ row <= call.m
  /\ pc = "strips" => row < call.m /\ (j = 0 \/ j <= call.n)
  /\ (pc = "strips" /\ call.kernel \in Unrolled /\ call.unit /\ j < N4)
       => j % 4 = 0

RowsFinished ==
  /\ pc = "enter" => nanRows = {} /\ (\A r \in Rows : stored[r] = 0 /\
                        \A k \in Products : dot[<<r, k>>] = 0)
  /\ pc \in {"rows", "strips"} =>
       \A r \in Rows :
         IF r < row THEN stored[r] = 1 /\ (r \notin nanRows => RowExact(r))
                    ELSE stored[r] = 0

Multiple(n, q) == n = q * call.vlmax

WholeStripsLeft ==
  /\ nan # {} => Vectorised /\ call.n % call.vlmax # 0
  /\ (pc = "strips" /\ Vectorised /\ call.n % call.vlmax = 0)
       => \E q \in Nat : Multiple(call.n - j, q)

IInv ==
  /\ TypeOK
  /\ CounterInPlace
  /\ LanesPartition
  /\ RowsFinished
  /\ WholeStripsLeft
  /\ PoisonNeedsShortStrip
  /\ ProductsCountedOnce

(* The arguments of a call, typed.                                         *)
LEMMA CallTypes ==
  ASSUME TypeOK
  PROVE  /\ call.n \in Int /\ call.n <= MaxN
         /\ call.m \in Nat /\ call.m <= MaxM
         /\ call.vlmax \in Nat \ {0} /\ call.vlmax <= MaxLanes
         /\ call.kernel \in Kernels
         /\ call.kernel \notin Gemv => call.m = 1
         /\ row \in Nat /\ j \in Nat
<1>1. call.n \in Int /\ call.n <= MaxN
  BY ReductionsAssumption DEF TypeOK, Calls
<1>2. call.m \in Nat /\ call.m <= MaxM
  BY ReductionsAssumption DEF TypeOK, Calls
<1>3. call.vlmax \in VLMaxes
  BY DEF TypeOK, Calls
<1>4. call.vlmax \in Nat \ {0} /\ call.vlmax <= MaxLanes
  <2>1. call.vlmax \in 1 .. MaxLanes
    BY <1>3, ReductionsAssumption
  <2>2. QED
    BY <2>1, ReductionsAssumption
<1>5. call.kernel \in Kernels /\ (call.kernel \notin Gemv => call.m = 1)
  BY DEF TypeOK, Calls
<1>6. row \in Nat /\ j \in Nat
  BY ReductionsAssumption DEF TypeOK
<1>7. QED
  BY <1>1, <1>2, <1>4, <1>5, <1>6

(* The accumulators summed are accumulators.                               *)
LEMMA SummedAreLanes ==
  ASSUME TypeOK
  PROVE  LanesSummed \subseteq Lanes
BY CallTypes, ReductionsAssumption DEF LanesSummed, Lanes

(* A strip handles at least one product, stops at n at the latest and uses *)
(* no accumulator that is not summed.                                      *)
LEMMA StripBounds ==
  ASSUME TypeOK, CounterInPlace, pc = "strips", j < call.n,
         NEW len \in StripLengths
  PROVE  /\ len \in Nat \ {0}
         /\ j + len <= call.n
         /\ 0 .. len - 1 \subseteq LanesSummed
         /\ (call.kernel \in Unrolled /\ call.unit /\ j + len < N4)
              => (j + len) % 4 = 0
<1>1. /\ j \in Nat /\ call.n \in Nat /\ call.vlmax \in Nat \ {0}
  BY CallTypes
<1>2. CASE Vectorised
  <2>1. len \in LegalVl(call.n - j, call.vlmax)
    BY <1>2 DEF StripLengths
  <2>2. call.n - j \in Nat \ {0}
    BY <1>1
  <2>3. len \in 1 .. call.n - j /\ len <= call.vlmax
    BY <1>1, <2>1, <2>2, LegalVlBounds
  <2>4. call.kernel \notin Unrolled
    BY <1>2 DEF Vectorised, Vector, Unrolled
  <2>5. QED
    BY <1>1, <1>2, <2>3, <2>4 DEF LanesSummed
<1>3. CASE ~Vectorised /\ call.kernel \in Unrolled /\ call.unit /\ j < N4
  <2>1. len = 4 /\ j % 4 = 0
    BY <1>3 DEF StripLengths, CounterInPlace
  <2>2. N4 \in Int /\ N4 % 4 = 0 /\ N4 <= call.n
    BY <1>1, RoundDown DEF N4
  <2>3. j + 4 <= N4 /\ (j + 4) % 4 = 0
    BY <1>1, <1>3, <2>1, <2>2
  <2>4. QED
    BY <1>1, <1>3, <2>1, <2>2, <2>3 DEF LanesSummed
<1>4. CASE ~Vectorised /\ ~(call.kernel \in Unrolled /\ call.unit /\ j < N4)
  <2>1. len = 1
    BY <1>4 DEF StripLengths
  <2>2. N4 \in Int
    BY <1>1, RoundDown DEF N4
  <2>3. (call.kernel \in Unrolled /\ call.unit) => ~(j + 1 < N4)
    BY <1>1, <1>4, <2>2
  <2>4. QED
    BY <1>1, <1>4, <2>1, <2>3 DEF LanesSummed
<1>5. QED
  BY <1>2, <1>3, <1>4

-----------------------------------------------------------------------------

(* The sum over the accumulators of a product in one of them, and of one   *)
(* in none.                                                                *)
LEMMA SummedOnce ==
  ASSUME TypeOK, NEW k \in Products, InOneLane(k)
  PROVE  Summed(k) = 1
<1> DEFINE Occurrences ==
      {o \in LanesSummed \X (1 .. MaxN) : o[2] <= acc[<<o[1], k>>]}
<1>1. PICK l \in LanesSummed :
        \A m \in Lanes : acc[<<m, k>>] = IF m = l THEN 1 ELSE 0
  BY DEF InOneLane
<1>2. 1 \in 1 .. MaxN
  BY ReductionsAssumption
<1>3. \A m \in LanesSummed : acc[<<m, k>>] = IF m = l THEN 1 ELSE 0
  BY <1>1, SummedAreLanes
<1>4. ASSUME NEW m \in LanesSummed, NEW c \in 1 .. MaxN
      PROVE  c <= acc[<<m, k>>] <=> m = l /\ c = 1
  BY <1>3, <1>4, ReductionsAssumption
<1>5. Occurrences = {<<l, 1>>}
  BY <1>2, <1>4
<1>6. Cardinality(Occurrences) = 1
  BY <1>5, FS_Singleton
<1>7. QED
  BY <1>6 DEF Summed

(* A product in no accumulator is in no sum.                               *)
LEMMA SummedNever ==
  ASSUME TypeOK, NEW k \in Products, InNoLane(k)
  PROVE  Summed(k) = 0
<1> DEFINE Occurrences ==
      {o \in LanesSummed \X (1 .. MaxN) : o[2] <= acc[<<o[1], k>>]}
<1>1. \A m \in LanesSummed : acc[<<m, k>>] = 0
  BY SummedAreLanes DEF InNoLane
<1>2. Occurrences = {}
  BY <1>1, ReductionsAssumption
<1>3. Cardinality(Occurrences) = 0
  BY <1>2, FS_EmptySet
<1>4. QED
  BY <1>3 DEF Summed

-----------------------------------------------------------------------------

(* The invariant holds at the start.                                       *)
LEMMA InitIInv == Init => IInv
<1> SUFFICES ASSUME Init PROVE IInv
  OBVIOUS
<1> USE ReductionsAssumption DEF Init
<1>1. TypeOK
  BY DEF TypeOK, NoProducts
<1>2. CounterInPlace /\ LanesPartition /\ RowsFinished /\ WholeStripsLeft
  BY DEF CounterInPlace, LanesPartition, RowsFinished, WholeStripsLeft
<1>3. PoisonNeedsShortStrip /\ ProductsCountedOnce
  BY DEF PoisonNeedsShortStrip, ProductsCountedOnce
<1>4. QED
  BY <1>1, <1>2, <1>3 DEF IInv

(* A row is begun, with every accumulator cleared.                         *)
LEMMA BeginRowKeepsIInv ==
  ASSUME IInv, BeginRow
  PROVE  IInv'
<1> USE ReductionsAssumption DEF IInv, BeginRow
<1>1. TypeOK'
  BY DEF TypeOK, NoProducts
<1>2. LanesPartition'
  <2>1. \A m \in Lanes, k \in Products : acc'[<<m, k>>] = 0
    BY DEF NoProducts
  <2>2. \A k \in Products : ~(k < j')
    BY DEF Products
  <2>3. QED
    BY <2>1, <2>2 DEF LanesPartition, InNoLane
<1>3. CounterInPlace'
  <2>1. j' = 0 /\ j' % 4 = 0
    OBVIOUS
  <2>2. QED
    BY <2>1 DEF CounterInPlace, NothingToDo, OneElementNorm
<1>4. RowsFinished'
  BY DEF RowsFinished, RowExact
<1>5. WholeStripsLeft'
  <2>1. ASSUME Vectorised, call.n % call.vlmax = 0
        PROVE  \E q \in Nat : call.n = q * call.vlmax
    <3>1. call.n \in Nat /\ call.vlmax \in Nat \ {0}
      BY <2>1, CallTypes DEF CounterInPlace, NothingToDo, Vectorised
    <3>2. QED
      BY <2>1, <3>1, ZeroRemainder
  <2>2. call.n - 0 = call.n
    BY CallTypes
  <2>3. QED
    BY <2>1, <2>2 DEF WholeStripsLeft, Vectorised, Multiple
<1>6. PoisonNeedsShortStrip' /\ ProductsCountedOnce'
  BY DEF PoisonNeedsShortStrip, ProductsCountedOnce, Vectorised
<1>7. QED
  BY <1>1, <1>2, <1>3, <1>4, <1>5, <1>6

(* A strip of products goes to the accumulators.                           *)
LEMMA StripKeepsIInv ==
  ASSUME IInv, Strip
  PROVE  IInv'
<1> USE ReductionsAssumption DEF IInv
<1>a. PICK len \in StripLengths :
        \E tail \in Tails(len) :
          /\ acc' = [p \in Lanes \X Products |->
                       IF p[1] < len /\ p[2] = j + p[1]
                       THEN acc[p] + 1 ELSE acc[p]]
          /\ nan' = nan \cup tail
          /\ j' = j + len
  BY DEF Strip
<1>1. PICK tail \in Tails(len) :
        /\ acc' = [p \in Lanes \X Products |->
                     IF p[1] < len /\ p[2] = j + p[1] THEN acc[p] + 1 ELSE acc[p]]
        /\ nan' = nan \cup tail
        /\ j' = j + len
  BY <1>a
<1>2. /\ pc = "strips" /\ j < call.n
      /\ UNCHANGED <<call, row, dot, nanRows, stored, pc>>
  BY DEF Strip
<1>3. /\ len \in Nat \ {0}
      /\ j + len <= call.n
      /\ 0 .. len - 1 \subseteq LanesSummed
      /\ (call.kernel \in Unrolled /\ call.unit /\ j + len < N4)
           => (j + len) % 4 = 0
  BY <1>2, StripBounds
<1>4. /\ j \in Nat /\ call.n \in Nat /\ call.n <= MaxN
      /\ call.vlmax \in Nat \ {0} /\ call.vlmax <= MaxLanes
  BY <1>2, CallTypes
<1>5. tail \subseteq Lanes
  BY <1>3, <1>4 DEF Tails, Clobbered, Lanes
<1>6. TypeOK'
  <2>1. acc' \in [Lanes \X Products -> Nat]
    BY <1>1 DEF TypeOK
  <2>2. QED
    BY <1>1, <1>2, <1>3, <1>4, <1>5, <2>1 DEF TypeOK
<1>7. LanesPartition'
  <2> SUFFICES ASSUME NEW k \in Products
               PROVE  (IF k < j THEN InOneLane(k) ELSE InNoLane(k))'
    BY <1>2 DEF LanesPartition
  <2>1. k \in Nat
    BY DEF Products
  <2>2. \A m \in Lanes : acc'[<<m, k>>] = IF m < len /\ k = j + m
                                          THEN acc[<<m, k>>] + 1
                                          ELSE acc[<<m, k>>]
    BY <1>1
  <2>3. LanesSummed' = LanesSummed
    BY <1>2 DEF LanesSummed, Vectorised
  <2>4. \A m \in Lanes : m \in Nat
    BY DEF Lanes
  <2>5. CASE k < j
    <3>1. \A m \in Lanes : acc'[<<m, k>>] = acc[<<m, k>>]
      BY <1>4, <2>1, <2>2, <2>4, <2>5
    <3>2. InOneLane(k)
      BY <1>2, <2>5 DEF LanesPartition
    <3>3. k < j'
      BY <1>1, <1>3, <1>4, <2>1, <2>5
    <3>4. InOneLane(k)'
      BY <2>3, <3>1, <3>2 DEF InOneLane
    <3>5. QED
      BY <3>3, <3>4
  <2>6. CASE k >= j /\ k < j + len
    <3>1. InNoLane(k)
      BY <1>2, <1>4, <2>1, <2>6 DEF LanesPartition
    <3>2. k - j \in 0 .. len - 1
      BY <1>3, <1>4, <2>1, <2>6
    <3>3. k - j \in LanesSummed
      BY <1>3, <3>2
    <3>4. \A m \in Lanes : acc'[<<m, k>>] = IF m = k - j THEN 1 ELSE 0
      BY <1>3, <1>4, <2>1, <2>2, <2>4, <2>6, <3>1 DEF InNoLane
    <3>5. InOneLane(k)'
      BY <2>3, <3>3, <3>4 DEF InOneLane
    <3>6. QED
      BY <1>1, <2>6, <3>5
  <2>7. CASE k >= j + len
    <3>1. InNoLane(k)
      BY <1>2, <1>3, <1>4, <2>1, <2>7 DEF LanesPartition
    <3>2. InNoLane(k)'
      BY <1>3, <1>4, <2>1, <2>2, <2>4, <2>7, <3>1 DEF InNoLane
    <3>3. ~(k < j')
      BY <1>1, <1>3, <1>4, <2>1, <2>7
    <3>4. QED
      BY <3>2, <3>3
  <2>8. QED
    BY <1>3, <1>4, <2>1, <2>5, <2>6, <2>7
<1>8. CounterInPlace'
  BY <1>1, <1>2, <1>3, <1>4 DEF CounterInPlace, NothingToDo, OneElementNorm, N4
<1>9. RowsFinished'
  BY <1>2 DEF RowsFinished, RowExact
<1>10. WholeStripsLeft'
  <2>1. CASE ~(Vectorised /\ call.n % call.vlmax = 0)
    <3>1. ~Vectorised => tail = {}
      BY DEF Tails
    <3>2. QED
      BY <1>1, <1>2, <2>1, <3>1 DEF WholeStripsLeft, Vectorised, Multiple
  <2>2. CASE Vectorised /\ call.n % call.vlmax = 0
    <3>1. PICK q \in Nat : call.n - j = q * call.vlmax
      BY <1>2, <2>2 DEF WholeStripsLeft, Multiple
    <3>2. q # 0
      BY <1>2, <1>4, <3>1
    <3>3. len \in LegalVl(q * call.vlmax, call.vlmax)
      BY <2>2, <3>1 DEF StripLengths
    <3>4. len = call.vlmax
      BY <1>4, <3>2, <3>3, WholeStripIsFull
    <3>5. tail = {}
      BY <1>4, <2>2, <3>4 DEF Tails, Clobbered
    <3>6. call.n - (j + call.vlmax) = (q - 1) * call.vlmax
      BY <1>4, <3>1
    <3>7. q - 1 \in Nat
      BY <3>2
    <3>8. Multiple(call.n - j, q - 1)'
      BY <1>1, <1>2, <3>4, <3>6 DEF Multiple
    <3>9. nan' = nan
      BY <1>1, <3>5
    <3>10. QED
      BY <1>2, <2>2, <3>7, <3>8, <3>9 DEF WholeStripsLeft, Vectorised
  <2>3. QED
    BY <2>1, <2>2
<1>11. PoisonNeedsShortStrip' /\ ProductsCountedOnce'
  BY <1>2 DEF PoisonNeedsShortStrip, ProductsCountedOnce, Vectorised
<1>12. QED
  BY <1>6, <1>7, <1>8, <1>9, <1>10, <1>11

(* The accumulators are summed and the row stored.                         *)
LEMMA StoreRowKeepsIInv ==
  ASSUME IInv, StoreRow
  PROVE  IInv'
<1> USE ReductionsAssumption DEF IInv
<1>1. /\ pc = "strips" /\ j >= call.n
      /\ dot' = [p \in Rows \X Products |->
                   IF p[1] = row THEN Summed(p[2]) ELSE dot[p]]
      /\ nanRows' = IF nan \cap LanesSummed = {}
                    THEN nanRows ELSE nanRows \cup {row}
      /\ stored' = [stored EXCEPT ![row] = @ + 1]
      /\ row' = row + 1 /\ pc' = "rows"
      /\ UNCHANGED <<call, j, acc, nan>>
  BY DEF StoreRow
<1>2. /\ row \in Nat /\ row < call.m /\ call.m \in Nat /\ call.m <= MaxM
      /\ j \in Nat /\ call.n \in Int /\ call.n <= MaxN
  BY <1>1, CallTypes DEF CounterInPlace
<1>3. row \in Rows
  BY <1>2 DEF Rows
<1>4. \A k \in Products : Summed(k) = IF k < call.n THEN 1 ELSE 0
  <2> SUFFICES ASSUME NEW k \in Products
               PROVE  Summed(k) = IF k < call.n THEN 1 ELSE 0
    OBVIOUS
  <2>1. k \in Nat
    BY DEF Products
  <2>2. k < j <=> k < call.n
    BY <1>1, <1>2, <2>1 DEF CounterInPlace
  <2>3. CASE k < j
    <3>1. InOneLane(k)
      BY <1>1, <2>3 DEF LanesPartition
    <3>2. QED
      BY <2>2, <2>3, <3>1, SummedOnce
  <2>4. CASE ~(k < j)
    <3>1. InNoLane(k)
      BY <1>1, <2>4 DEF LanesPartition
    <3>2. QED
      BY <2>2, <2>4, <3>1, SummedNever
  <2>5. QED
    BY <2>3, <2>4
<1>5. TypeOK'
  <2>1. dot' \in [Rows \X Products -> Nat]
    BY <1>1, <1>4 DEF TypeOK
  <2>2. stored' \in [Rows -> Nat]
    BY <1>1, <1>3 DEF TypeOK
  <2>3. nanRows' \in SUBSET Rows
    BY <1>1, <1>3 DEF TypeOK
  <2>4. row' \in 0 .. MaxM
    BY <1>1, <1>2
  <2>5. QED
    BY <1>1, <2>1, <2>2, <2>3, <2>4 DEF TypeOK
<1>6. CounterInPlace'
  BY <1>1, <1>2 DEF CounterInPlace, NothingToDo, OneElementNorm
<1>7. LanesPartition'
  BY <1>1 DEF LanesPartition
<1>8. RowsFinished'
  <2> SUFFICES ASSUME NEW r \in Rows
               PROVE  (IF r < row
                       THEN stored[r] = 1 /\ (r \notin nanRows => RowExact(r))
                       ELSE stored[r] = 0)'
    BY <1>1 DEF RowsFinished
  <2>1. r \in Nat
    BY DEF Rows
  <2>2. stored[row] = 0 /\ stored' [row] = 1
    BY <1>1, <1>2, <1>3 DEF RowsFinished, TypeOK
  <2>3. CASE r = row
    <3>1. RowExact(r)'
      BY <1>1, <1>4, <2>3 DEF RowExact
    <3>2. QED
      BY <1>1, <1>2, <2>2, <2>3, <3>1
  <2>4. CASE r # row
    <3>1. stored'[r] = stored[r] /\ (r \in nanRows => r \in nanRows')
      BY <1>1, <2>4 DEF TypeOK
    <3>2. RowExact(r) => RowExact(r)'
      BY <1>1, <2>4 DEF RowExact
    <3>3. r < row' <=> r < row
      BY <1>1, <1>2, <2>1, <2>4
    <3>4. QED
      BY <1>1, <3>1, <3>2, <3>3 DEF RowsFinished
  <2>5. QED
    BY <2>3, <2>4
<1>9. WholeStripsLeft'
  BY <1>1 DEF WholeStripsLeft, Vectorised
<1>10. PoisonNeedsShortStrip'
  BY <1>1 DEF PoisonNeedsShortStrip, WholeStripsLeft, Vectorised
<1>11. ProductsCountedOnce'
  BY <1>1 DEF ProductsCountedOnce
<1>12. QED
  BY <1>5, <1>6, <1>7, <1>8, <1>9, <1>10, <1>11

(* A call over nothing returns.                                            *)
LEMMA ReturnEmptyKeepsIInv ==
  ASSUME IInv, ReturnEmpty
  PROVE  IInv'
<1> USE ReductionsAssumption DEF IInv, ReturnEmpty
<1>1. 0 \in Rows
  BY DEF Rows
<1>2. \A k \in Products : ~(k < call.n) \/ call.kernel \in Gemv
  BY CallTypes DEF NothingToDo, Products
<1>3. TypeOK'
  BY <1>1 DEF TypeOK
<1>4. CounterInPlace' /\ LanesPartition' /\ RowsFinished' /\ WholeStripsLeft'
  BY DEF CounterInPlace, LanesPartition, RowsFinished, WholeStripsLeft, Vectorised
<1>5. PoisonNeedsShortStrip'
  BY DEF PoisonNeedsShortStrip, Vectorised
<1>6. ProductsCountedOnce'
  <2>1. CASE call.kernel \in Gemv
    BY <2>1 DEF ProductsCountedOnce, NothingToDo, RowsFinished
  <2>2. CASE call.kernel \notin Gemv
    <3>1. call.m = 1
      BY <2>2, CallTypes
    <3>2. \A r \in Rows : r < call.m <=> r = 0
      BY <3>1 DEF Rows
    <3>3. RowExact(0)'
      BY <1>1, <1>2, <2>2 DEF RowExact, RowsFinished
    <3>4. QED
      BY <1>1, <2>2, <3>2, <3>3
         DEF ProductsCountedOnce, NothingToDo, RowsFinished, TypeOK
  <2>3. QED
    BY <2>1, <2>2
<1>7. QED
  BY <1>3, <1>4, <1>5, <1>6

(* The norm of one element.                                                *)
LEMMA ReturnAbsKeepsIInv ==
  ASSUME IInv, ReturnAbs
  PROVE  IInv'
<1> USE ReductionsAssumption DEF IInv, ReturnAbs
<1>1. 0 \in Rows /\ 0 \in Products
  BY DEF Rows, Products
<1>2. call.kernel = "rvv_dnrm2" /\ call.n = 1 /\ call.m = 1
  BY CallTypes DEF OneElementNorm, Gemv
<1>3. TypeOK'
  BY <1>1 DEF TypeOK
<1>4. CounterInPlace' /\ LanesPartition' /\ RowsFinished' /\ WholeStripsLeft'
  BY DEF CounterInPlace, LanesPartition, RowsFinished, WholeStripsLeft, Vectorised
<1>5. PoisonNeedsShortStrip'
  BY DEF PoisonNeedsShortStrip, Vectorised
<1>6. ProductsCountedOnce'
  <2>1. \A r \in Rows : r < call.m <=> r = 0
    BY <1>2 DEF Rows
  <2>2. \A k \in Products : k < call.n <=> k = 0
    BY <1>2 DEF Products
  <2>3. RowExact(0)'
    BY <1>1, <2>2 DEF RowExact, RowsFinished, TypeOK
  <2>4. QED
    BY <1>1, <1>2, <2>1, <2>3
       DEF ProductsCountedOnce, NothingToDo, RowsFinished, TypeOK
<1>7. QED
  BY <1>3, <1>4, <1>5, <1>6

(* Every step keeps the invariant.                                         *)
LEMMA NextIInv == IInv /\ [Next]_vars => IInv'
<1> SUFFICES ASSUME IInv, [Next]_vars PROVE IInv'
  OBVIOUS
<1> USE ReductionsAssumption
<1>1. CASE Enter
  <2> USE <1>1 DEF Enter, IInv
  <2>1. TypeOK' /\ CounterInPlace'
    BY CallTypes DEF TypeOK, CounterInPlace, NothingToDo, OneElementNorm
  <2>2. RowsFinished'
    BY DEF RowsFinished, CounterInPlace, Rows
  <2>3. QED
    BY <2>1, <2>2 DEF LanesPartition, WholeStripsLeft, PoisonNeedsShortStrip,
                      ProductsCountedOnce, Vectorised
<1>2. CASE Return
  <2> USE <1>2 DEF Return, IInv
  <2>1. TypeOK' /\ CounterInPlace' /\ RowsFinished'
    BY DEF TypeOK, CounterInPlace, RowsFinished
  <2>2. ProductsCountedOnce'
    <3>1. row = call.m
      BY CallTypes DEF CounterInPlace
    <3>2. QED
      BY <3>1 DEF ProductsCountedOnce, RowsFinished, RowExact, CounterInPlace,
                  NothingToDo
  <2>3. QED
    BY <2>1, <2>2 DEF LanesPartition, WholeStripsLeft, PoisonNeedsShortStrip,
                      Vectorised
<1>3. CASE UNCHANGED vars
  BY <1>3 DEF vars, IInv, TypeOK, CounterInPlace, LanesPartition, RowsFinished,
              WholeStripsLeft, PoisonNeedsShortStrip, ProductsCountedOnce,
              Vectorised, NothingToDo, OneElementNorm, RowExact, InOneLane,
              InNoLane, LanesSummed, N4, Multiple
<1>4. QED
  BY <1>1, <1>2, <1>3, ReturnEmptyKeepsIInv, ReturnAbsKeepsIInv,
     BeginRowKeepsIInv, StripKeepsIInv, StoreRowKeepsIInv DEF Next, Done

(* The inductive invariant.                                                *)
LEMMA IInvHolds == Spec => []IInv
BY InitIInv, NextIInv, PTL DEF Spec

-----------------------------------------------------------------------------

(* The reduction kernels keep their types.                                 *)
THEOREM ReductionsTypeCorrect == Spec => []TypeOK
<1>1. IInv => TypeOK
  BY DEF IInv
<1>2. QED
  BY <1>1, IInvHolds, PTL

(* Every row a returning call stored holds each of its products exactly    *)
(* once, unless it is a NaN.                                               *)
THEOREM ReductionsProductsCountedOnce == Spec => []ProductsCountedOnce
<1>1. IInv => ProductsCountedOnce
  BY DEF IInv
<1>2. QED
  BY <1>1, IInvHolds, PTL

(* On every conforming unit, tail agnosticism only reaches the result of a *)
(* vectorised call whose length is not a multiple of the register length.  *)
THEOREM ReductionsPoisonNeedsShortStrip == Spec => []PoisonNeedsShortStrip
<1>1. IInv => PoisonNeedsShortStrip
  BY DEF IInv
<1>2. QED
  BY <1>1, IInvHolds, PTL

(* A step that changes what a row holds, or how often it was stored, finds *)
(* that row unstored and every row before it stored.                       *)
StoresNextRow ==
  \A r \in Rows :
    (stored'[r] # stored[r] \/ \E k \in Products : dot'[<<r, k>>] # dot[<<r, k>>])
      => stored[r] = 0 /\ \A q \in Rows : q < r => stored[q] = 1

(* Row 0 comes first: it has none before it.                               *)
LEMMA FirstRowNext ==
  ASSUME IInv, ReturnEmpty \/ ReturnAbs
  PROVE  StoresNextRow
<1>1. stored[0] = 0 /\ 0 \in Rows
  BY ReductionsAssumption DEF IInv, RowsFinished, ReturnEmpty, ReturnAbs, Rows
<1>2. \A r \in Rows : r # 0 =>
        stored'[r] = stored[r] /\ \A k \in Products : dot'[<<r, k>>] = dot[<<r, k>>]
  BY DEF IInv, TypeOK, ReturnEmpty, ReturnAbs
<1>3. \A q \in Rows : ~(q < 0)
  BY ReductionsAssumption DEF Rows
<1>4. QED
  BY <1>1, <1>2, <1>3 DEF StoresNextRow

(* The row counter is the first row not stored.                            *)
LEMMA CounterRowNext ==
  ASSUME IInv, StoreRow
  PROVE  StoresNextRow
<1>1. \A r \in Rows : r # row =>
        stored'[r] = stored[r] /\ \A k \in Products : dot'[<<r, k>>] = dot[<<r, k>>]
  BY DEF IInv, TypeOK, StoreRow
<1>2. row \in Nat
  BY CallTypes DEF IInv
<1>3. \A q \in Rows : /\ q < row => stored[q] = 1
                      /\ q = row => stored[q] = 0
  BY <1>2, ReductionsAssumption DEF IInv, RowsFinished, StoreRow, Rows
<1>4. QED
  BY <1>1, <1>3 DEF StoresNextRow

(* Rows are stored in order, each once: the row counter never goes back    *)
(* and nothing but the reduction writes a row.                             *)
THEOREM ReductionsRowsStoredInOrder == Spec => RowsStoredInOrder
<1>1. IInv /\ [Next]_vars => StoresNextRow \/ UNCHANGED vars
  <2> SUFFICES ASSUME IInv, [Next]_vars PROVE StoresNextRow \/ UNCHANGED vars
    OBVIOUS
  <2>1. CASE Enter \/ BeginRow \/ Strip \/ Return
    BY <2>1 DEF StoresNextRow, Enter, BeginRow, Strip, Return
  <2>2. QED
    BY <2>1, FirstRowNext, CounterRowNext DEF Next, Done
<1>2. IInv /\ [Next]_vars => [StoresNextRow]_vars
  BY <1>1
<1>3. QED
  BY <1>2, IInvHolds, PTL DEF Spec, RowsStoredInOrder, StoresNextRow
=============================================================================
