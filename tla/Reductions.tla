------------------------------ MODULE Reductions ------------------------------
(***************************************************************************)
(* The kernels that fold products into one double per row: ddot and dnrm2, *)
(* which have a single row, and dgemv, which has m.  They are the code of  *)
(* src/rvv/rvv_ddot.c, rvv_dnrm2.c and rvv_dgemv.c, in the vector build    *)
(* ("rvv_*", and the unrolled "scalar_*" reference) and in the build       *)
(* without vectors ("plain_*", to which both entry points come down), and  *)
(* of src/simd_fallbacks/scalar_memory.c and scalar_dgemv.c.               *)
(*                                                                         *)
(* A product is abstracted to its index in the row: acc[<<l, k>>] is how   *)
(* often product k is in accumulator l (a lane of the vector accumulator,  *)
(* or acc0 .. acc3), dot[<<r, k>>] how often it is in the value computed   *)
(* for row r.  nan is the set of lanes, nanRows the set of rows, whose     *)
(* value is a NaN because the unit overwrote a tail lane.                  *)
(***************************************************************************)
EXTENDS KernelData, FiniteSets

CONSTANTS
  MaxM,     (* The largest number of rows of a call.                       *)
  MaxLanes  (* The largest number of accumulators.                         *)

ASSUME ReductionsAssumption ==
  /\ MaxM \in Nat \ {0}
  /\ MaxN \in Nat \ {0}
  /\ MaxLanes \in Nat /\ MaxLanes >= 4
  /\ VLMaxes \subseteq 1 .. MaxLanes

VARIABLES
  call,     (* The arguments, and the build and hardware that serve them.  *)
  row, j,   (* The loop counters over the rows and within a row.           *)
  acc, nan, (* The accumulators of the current row.                        *)
  dot, nanRows,
  stored,   (* How often the value of each row was returned or stored.     *)
  pc

vars == <<call, row, j, acc, nan, dot, nanRows, stored, pc>>

Vector   == {"rvv_ddot", "rvv_dnrm2", "rvv_dgemv"}
Unrolled == {"scalar_ddot", "scalar_dgemv", "ddot_n", "dgemv_packed",
             "dgemv_n_unrolled"}
Simple   == {"plain_ddot", "scalar_dnrm2", "plain_dnrm2", "dnrm2_n",
             "plain_dgemv", "dgemv_n"}
Gemv     == {"rvv_dgemv", "scalar_dgemv", "plain_dgemv", "dgemv_packed",
             "dgemv_n_unrolled", "dgemv_n"}

Kernels == Vector \cup Unrolled \cup Simple

Rows     == 0 .. MaxM - 1
Products == 0 .. MaxN - 1
Lanes    == 0 .. MaxLanes - 1

(* ddot and dnrm2 have one row; dgemv walks its rows with stride one.  An  *)
(* unrolled loop without a guard is only defined for n >= 0.               *)
Calls ==
  {c \in [kernel : Kernels, m : 0 .. MaxM, n : -1 .. MaxN,
          unit : BOOLEAN, vlmax : VLMaxes] :
     /\ c.kernel \in Gemv => c.unit
     /\ c.kernel \notin Gemv => c.m = 1
     /\ c.kernel \in Unrolled => c.n >= 0}

Vectorised == call.kernel \in Vector /\ call.unit

(* n & ~3L                                                                 *)
N4 == call.n - (call.n % 4)

(* How many products the next turn of the inner loop may handle.           *)
StripLengths ==
  IF Vectorised THEN LegalVl(call.n - j, call.vlmax)
  ELSE IF call.kernel \in Unrolled /\ call.unit /\ j < N4 THEN {4} ELSE {1}

(* Slip: one lane of the strip is taken for tail.                          *)
MutTails(len) == IF Vectorised THEN SUBSET (len - 1 .. call.vlmax - 1) ELSE {{}}

(* The lanes a turn may leave overwritten: the tail of the fused           *)
(* multiply-add, whose destination is the accumulator.                     *)
Tails(len) == IF Vectorised THEN Clobbered(len, call.vlmax) ELSE {{}}

(* The accumulators the final sum reads: vfredusum runs over vlmax lanes,  *)
(* and acc0 + acc1 + acc2 + acc3 over four.                                *)
LanesSummed == IF Vectorised THEN 0 .. call.vlmax - 1 ELSE 0 .. 3

(* How often product k is in the sum of those accumulators.                *)
Summed(k) ==
  Cardinality({o \in LanesSummed \X (1 .. MaxN) : o[2] <= acc[<<o[1], k>>]})

NoProducts == [p \in Lanes \X Products |-> 0]

-----------------------------------------------------------------------------

Init ==
  /\ call \in Calls
  /\ row = 0
  /\ j = 0
  /\ acc = NoProducts
  /\ nan = {}
  /\ dot = [p \in Rows \X Products |-> 0]
  /\ nanRows = {}
  /\ stored = [r \in Rows |-> 0]
  /\ pc = "enter"

(* Only the vector kernels test their arguments.                           *)
NothingToDo == call.kernel \in Vector /\ (call.n <= 0 \/ call.m = 0)

(* ddot and dnrm2 return 0.0, dgemv leaves y as it is.                     *)
ReturnEmpty ==
  /\ pc = "enter"
  /\ NothingToDo
  /\ stored' = IF call.kernel \in Gemv THEN stored ELSE [stored EXCEPT ![0] = 1]
  /\ pc' = "done"
  /\ UNCHANGED <<call, row, j, acc, nan, dot, nanRows>>

OneElementNorm == call.kernel = "rvv_dnrm2" /\ call.n = 1

(* dnrm2 of one element is fabs(x[0]).                                     *)
ReturnAbs ==
  /\ pc = "enter"
  /\ OneElementNorm
  /\ dot' = [dot EXCEPT ![<<0, 0>>] = 1]
  /\ stored' = [stored EXCEPT ![0] = 1]
  /\ pc' = "done"
  /\ UNCHANGED <<call, row, j, acc, nan, nanRows>>

Enter ==
  /\ pc = "enter"
  /\ ~NothingToDo
  /\ ~OneElementNorm
  /\ pc' = "rows"
  /\ UNCHANGED <<call, row, j, acc, nan, dot, nanRows, stored>>

(* Slip: the accumulators are cleared once, before the loop over the rows. *)
MutBeginRow ==
  /\ pc = "rows"
  /\ row < call.m
  /\ j' = 0
  /\ pc' = "strips"
  /\ UNCHANGED <<call, row, acc, nan, dot, nanRows, stored>>

(* Clears every lane of the accumulator: vfmv_v_f at vlmax, or acc0 .. 3.  *)
BeginRow ==
  /\ pc = "rows"
  /\ row < call.m
  /\ j' = 0
  /\ acc' = NoProducts
  /\ nan' = {}
  /\ pc' = "strips"
  /\ UNCHANGED <<call, row, dot, nanRows, stored>>

(* Slip: a strip that is not full is left out, and the counter stays.      *)
MutStrip ==
  /\ pc = "strips"
  /\ j < call.n
  /\ \E len \in StripLengths : \E tail \in Tails(len) :
       IF Vectorised /\ len < call.vlmax
       THEN UNCHANGED <<acc, nan, j>>
       ELSE /\ acc' = [p \in Lanes \X Products |->
                         IF p[1] < len /\ p[2] = j + p[1] THEN acc[p] + 1 ELSE acc[p]]
            /\ j' = j + len
            /\ UNCHANGED nan
  /\ UNCHANGED <<call, row, dot, nanRows, stored, pc>>

(* One vsetvl, its loads and its vfmacc, or one turn of a scalar loop:     *)
(* product j + l goes to accumulator l.  A NaN lane stays a NaN.  (The     *)
(* remainder of an unrolled loop is added to the sum of the accumulators:  *)
(* here to the first of them.)                                             *)
Strip ==
  /\ pc = "strips"
  /\ j < call.n
  /\ \E len \in StripLengths : \E tail \in Tails(len) :
       /\ acc' = [p \in Lanes \X Products |->
                    IF p[1] < len /\ p[2] = j + p[1] THEN acc[p] + 1 ELSE acc[p]]
       /\ nan' = nan \cup tail
       /\ j' = j + len
  /\ UNCHANGED <<call, row, dot, nanRows, stored, pc>>

(* Slip: the value of row i lands in the row after it.                     *)
MutStoreRow ==
  /\ pc = "strips"
  /\ j >= call.n
  /\ LET r == IF row + 1 \in Rows THEN row + 1 ELSE row IN
       /\ dot' = [p \in Rows \X Products |->
                    IF p[1] = r THEN Summed(p[2]) ELSE dot[p]]
       /\ nanRows' = IF nan \cap LanesSummed = {} THEN nanRows ELSE nanRows \cup {r}
       /\ stored' = [stored EXCEPT ![r] = @ + 1]
  /\ row' = row + 1
  /\ pc' = "rows"
  /\ UNCHANGED <<call, j, acc, nan>>

(* The reduction, and the return of the value or y[i] = alpha * dot +      *)
(* beta * y[i].                                                            *)
StoreRow ==
  /\ pc = "strips"
  /\ j >= call.n
  /\ dot' = [p \in Rows \X Products |->
               IF p[1] = row THEN Summed(p[2]) ELSE dot[p]]
  /\ nanRows' = IF nan \cap LanesSummed = {} THEN nanRows ELSE nanRows \cup {row}
  /\ stored' = [stored EXCEPT ![row] = @ + 1]
  /\ row' = row + 1
  /\ pc' = "rows"
  /\ UNCHANGED <<call, j, acc, nan>>

Return ==
  /\ pc = "rows"
  /\ row >= call.m
  /\ pc' = "done"
  /\ UNCHANGED <<call, row, j, acc, nan, dot, nanRows, stored>>

Done == pc = "done" /\ UNCHANGED vars

Next ==
  \/ ReturnEmpty \/ ReturnAbs \/ Enter
  \/ BeginRow \/ Strip \/ StoreRow
  \/ Return \/ Done

Spec == Init /\ [][Next]_vars /\ WF_vars(Next)

-----------------------------------------------------------------------------

(* Every variable has its type.                                            *)
TypeOK ==
  /\ call \in Calls
  /\ row \in 0 .. MaxM
  /\ j \in 0 .. MaxN
  /\ acc \in [Lanes \X Products -> Nat]
  /\ nan \in SUBSET Lanes
  /\ dot \in [Rows \X Products -> Nat]
  /\ nanRows \in SUBSET Rows
  /\ stored \in [Rows -> Nat]
  /\ pc \in {"enter", "rows", "strips", "done"}

(* Row r holds the sum of the first n products of its row, each once.      *)
RowExact(r) ==
  \A k \in Products : dot[<<r, k>>] = IF k < call.n THEN 1 ELSE 0

(* When a call returns, the value of every row that is a number contains   *)
(* each of the row's products exactly once and none of another row: no     *)
(* lane is lost between the strips and the reduction and none is counted   *)
(* twice, whatever vl the unit grants strip by strip.  Only a vector dgemv *)
(* over empty rows returns without having stored every row once.           *)
ProductsCountedOnce ==
  pc = "done" =>
    \A r \in Rows :
      IF r < call.m /\ ~(NothingToDo /\ call.kernel \in Gemv)
      THEN stored[r] = 1 /\ (r \notin nanRows => RowExact(r))
      ELSE stored[r] = 0

(* A row is only poisoned by the tail of a strip shorter than the register *)
(* group: a call over a multiple of vlmax products never is, nor a scalar  *)
(* kernel, on any conforming unit.                                         *)
PoisonNeedsShortStrip ==
  nanRows # {} => Vectorised /\ call.n % call.vlmax # 0

(* The rows are stored in order and a stored row is never written again.   *)
RowsStoredInOrder ==
  [][\A r \in Rows :
       (stored'[r] # stored[r] \/ \E k \in Products : dot'[<<r, k>>] # dot[<<r, k>>])
         => stored[r] = 0 /\ \A q \in Rows : q < r => stored[q] = 1]_vars

(* Whatever vl the unit grants, the loops end.                             *)
Terminates == <>(pc = "done")

-----------------------------------------------------------------------------

(* src/harness/rvv_correctness.c:196 asserts                               *)
(*   ok &= (fabs(rvforge_rvv_ddot(1, &x1, 1, &y1, 1) - 15.0) < EPS);       *)
(* which is false for a NaN.                                               *)
EdgeCaseDdotOfOne ==
  (pc = "done" /\ call.kernel = "rvv_ddot" /\ call.unit /\ call.n = 1)
    => 0 \notin nanRows /\ RowExact(0)
=============================================================================
