-------------------------------- MODULE Elementwise --------------------------------
(***************************************************************************)
(* The kernels that visit n elements once each and update one cell per     *)
(* element: y := y + alpha * x in src/rvv/rvv_daxpy.c and in               *)
(* src/simd_fallbacks/scalar_memory.c, x := alpha * x and y := x in the    *)
(* latter.                                                                 *)
(*                                                                         *)
(*   "rvv_daxpy"     strip-mined vector loop when both strides are 1       *)
(*   "scalar_daxpy"  the loop unrolled by four of the vector build         *)
(*   "plain_daxpy"   the loop of the build without vectors, to which both  *)
(*                   entry points of that build come down                  *)
(*   "daxpy_n", "dscal_n"  unrolled by four, without a guard on n          *)
(*   "dcopy_n"       one memcpy when both strides are 1                    *)
(*                                                                         *)
(* The doubles are abstracted to provenance: updates[<<a, b>>] is the      *)
(* number of times cell a has been updated from cell b.  In "dscal_n" the  *)
(* two arrays are the same one.                                            *)
(***************************************************************************)
EXTENDS KernelData

VARIABLES
  call,   (* The arguments, and the build and hardware that serve them.    *)
  i,      (* The loop counter of every one of the loops.                   *)
  updates,  (* How often each cell of y was updated from each of x.      *)
  pc

vars == <<call, i, updates, pc>>

Guarded  == {"rvv_daxpy", "scalar_daxpy"}
Unrolled == {"scalar_daxpy", "daxpy_n", "dscal_n"}
Kernels  == Guarded \cup Unrolled \cup {"plain_daxpy", "dcopy_n"}

(* The kernels without a guard are only defined for n >= 0: rounding a     *)
(* negative n down to a multiple of four would start the remainder loop    *)
(* below zero.                                                             *)
Calls ==
  {c \in [kernel : Kernels, n : -1 .. MaxN, alphaZero : BOOLEAN,
          incx : Incs, incy : Incs, vlmax : VLMaxes] :
     /\ c.n < 0 => c.kernel \in Guarded
     /\ c.kernel = "dscal_n" => c.incx = c.incy}

(* The offsets x[k * incx] and y[k * incy] of a call reach.                *)
Addr == {k * inc : k \in 0 .. MaxN, inc \in Incs}

(* The element of x that element k of a call reads, the cell it updates.   *)
XCell(c, k) == k * c.incx
YCell(c, k) == k * c.incy

UnitStride == call.incx = 1 /\ call.incy = 1

(* n & ~3L                                                                 *)
N4 == call.n - (call.n % 4)

(***************************************************************************)
(* How many elements the next turn of the loop may handle.                 *)
(***************************************************************************)
StripLengths ==
  IF ~UnitStride THEN {1}
  ELSE CASE call.kernel = "rvv_daxpy"   -> LegalVl(call.n - i, call.vlmax)
         [] call.kernel \in Unrolled     -> IF i < N4 THEN {4} ELSE {1}
         [] call.kernel = "dcopy_n"     -> {call.n - i}
         [] call.kernel = "plain_daxpy" -> {1}

(* A cell of y with a cell of x.                                           *)
CellPairs == Addr \X Addr

(* Whether an element from first to just below next updates p[1] from p[2]. *)
Pairs(c, first, next, p) ==
  \E k \in first .. next - 1 : p = <<YCell(c, k), XCell(c, k)>>

(* Adding alpha * x to y for the elements from first to just below next.   *)
Accumulate(first, next) ==
  [p \in CellPairs |->
     IF Pairs(call, first, next, p) THEN updates[p] + 1 ELSE updates[p]]

Untouched == [p \in CellPairs |-> 0]

-----------------------------------------------------------------------------

Init ==
  /\ call \in Calls
  /\ i = 0
  /\ updates = Untouched
  /\ pc = "enter"

(* Only the kernels of the vector build return early.                      *)
NothingToDo == call.kernel \in Guarded /\ (call.n <= 0 \/ call.alphaZero)

Enter ==
  /\ pc = "enter"
  /\ pc' = IF NothingToDo THEN "done" ELSE "loop"
  /\ UNCHANGED <<call, i, updates>>

(* Slip: the strip stores one element more than it was granted.            *)
MutStripStoresMore ==
  /\ pc = "loop"
  /\ i < call.n
  /\ \E len \in StripLengths :
       /\ updates' = Accumulate(i, i + len + 1)
       /\ i' = i + len
  /\ UNCHANGED <<call, pc>>

(* Slip: the counter advances by the register length, not by the vl granted. *)
MutStripAdvancesVlmax ==
  /\ pc = "loop"
  /\ i < call.n
  /\ \E len \in StripLengths :
       /\ updates' = Accumulate(i, i + len)
       /\ i' = i + IF call.kernel = "rvv_daxpy" THEN call.vlmax ELSE len
  /\ UNCHANGED <<call, pc>>

(* Slip: a strip that is not full is left to a remainder loop that is not  *)
(* there, and the counter stays.                                           *)
MutStripNeverEnds ==
  /\ pc = "loop"
  /\ i < call.n
  /\ \E len \in StripLengths :
       IF call.kernel = "rvv_daxpy" /\ len < call.vlmax
       THEN UNCHANGED <<updates, i>>
       ELSE updates' = Accumulate(i, i + len) /\ i' = i + len
  /\ UNCHANGED <<call, pc>>

(* vsetvl, two loads, vfmacc and the store of one strip; or one turn of a  *)
(* scalar loop.  Loads and the store use the same vl.                      *)
Strip ==
  /\ pc = "loop"
  /\ i < call.n
  /\ \E len \in StripLengths :
       /\ updates' = Accumulate(i, i + len)
       /\ i' = i + len
  /\ UNCHANGED <<call, pc>>

Return ==
  /\ pc = "loop"
  /\ i >= call.n
  /\ pc' = "done"
  /\ UNCHANGED <<call, i, updates>>

Done == pc = "done" /\ UNCHANGED vars

Next == Enter \/ Strip \/ Return \/ Done

Spec == Init /\ [][Next]_vars /\ WF_vars(Next)

-----------------------------------------------------------------------------

(* Every variable has its type.                                            *)
TypeOK ==
  /\ call \in Calls
  /\ i \in 0 .. MaxN
  /\ updates \in [CellPairs -> Nat]
  /\ pc \in {"enter", "loop", "done"}

(* The first len elements of call c, each updated once.                    *)
OnceEach(c, len) ==
  [p \in CellPairs |-> IF Pairs(c, 0, len, p) THEN 1 ELSE 0]

(* A call returns with y[k * incy] updated from x[k * incx] exactly once    *)
(* for every k below n and with no other cell touched, those past n and     *)
(* those between the strides included: whichever way the unit splits the    *)
(* vector loop, and whichever build ran it.                                 *)
EveryElementOnce ==
  pc = "done" =>
    updates = IF NothingToDo THEN Untouched ELSE OnceEach(call, call.n)

(* Strips never overlap and never skip: at every turn of the loop exactly  *)
(* the elements below i have been updated.                                 *)
PrefixUpdated == updates = OnceEach(call, i)

(* Whatever vl the unit grants, the loop ends.                             *)
Terminates == <>(pc = "done")
=============================================================================
