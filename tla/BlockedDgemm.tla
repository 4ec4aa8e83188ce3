----------------------------- MODULE BlockedDgemm -----------------------------
(***************************************************************************)
(* src/simd_fallbacks/scalar_dgemm.c: the blocked multiply over two        *)
(* buffers allocated once, which falls back to the plain triple loop when  *)
(* an allocation fails; and the plain triple loop called directly, which   *)
(* is also rvforge_scalar_dgemm of src/rvv/rvv_dgemm.c, rvforge_sgemm_nn   *)
(* of src/simd_fallbacks/scalar_sgemm.c and, where C has a single row,     *)
(* rvforge_dgemv_t of src/simd_fallbacks/scalar_dgemv.c; and the loop      *)
(* rvforge_sgemm_nn_unrolled unrolls by four.                              *)
(*                                                                         *)
(* "at" is the control point; jc, pc and ic are the code's counters.       *)
(***************************************************************************)
EXTENDS GemmData

CONSTANT NC    (* DGEMM_NC.                                               *)

ASSUME BlockedDgemmAssumption == NC \in Nat \ {0}

VARIABLES
  call, at, jc, pc, ic,
  Ap, Bp,     (* The packed buffers, by flat index.                         *)
  live,       (* The buffers allocated and not yet freed.                   *)
  failed,     (* Whether an allocation has failed.                          *)
  scaled, terms,
  mismatched  (* Whether a product of two values that do not belong         *)
              (* together was ever added to C.                              *)

vars == <<call, at, jc, pc, ic, Ap, Bp, live, failed, scaled, terms, mismatched>>

(* The blocked kernel is the one that tests its arguments.                 *)
Calls ==
  {c \in [m : 0 .. MaxDim, n : 0 .. MaxDim, k : 0 .. MaxDim,
          guarded : BOOLEAN, unrolled : BOOLEAN] : c.unrolled => ~c.guarded}

ApSize == MC * KC
BpSize == KC * NC

(* Slip: the last column block is not cut to the width that is left.       *)
Mutnc == NC

nc == Smaller(NC, call.n - jc)
kc == Smaller(KC, call.k - pc)
mc == Smaller(MC, call.m - ic)

(* Adding to every term of C the number of times the code adds it.         *)
Plus(T, more(_)) == [t \in Terms |-> T[t] + more(t)]

(* The loops over the rows and columns of C come to the cell of term t.    *)
Visits(t) == t[1] < call.m /\ t[2] < call.n

(* rvforge_dgemm_nn after its scaling loop: in each cell, a turn for each  *)
(* p below k.                                                              *)
TripleLoop(T) ==
  Plus(T, LAMBDA t :
    IF Visits(t) THEN Cardinality({p \in 0 .. call.k - 1 : t[3] = p}) ELSE 0)

(* k & ~3L                                                                 *)
k4 == call.k - (call.k % 4)

(* The same with acc0 .. acc3: the turns over four products, then those of *)
(* the remainder loop.                                                     *)
UnrolledLoop(T) ==
  LET turns == {p \in 0 .. k4 - 1 : p % 4 = 0} IN
  Plus(T, LAMBDA t :
    IF Visits(t)
    THEN Cardinality({p \in turns : t[3] \in p .. p + 3})
         + Cardinality({p \in k4 .. call.k - 1 : t[3] = p})
    ELSE 0)

-----------------------------------------------------------------------------

Init ==
  /\ call \in Calls
  /\ at = "enter"
  /\ jc = 0 /\ pc = 0 /\ ic = 0
  /\ Ap = [a \in 0 .. ApSize - 1 |-> Junk]
  /\ Bp = [a \in 0 .. BpSize - 1 |-> Junk]
  /\ live = {}
  /\ failed = FALSE
  /\ scaled = NotScaled
  /\ terms = NoTerms
  /\ mismatched = FALSE

(* C *= beta over m rows and n columns.                                    *)
ScaleAll(S) == [p \in Cells |-> IF Visits(p) THEN S[p] + 1 ELSE S[p]]

Skip ==
  /\ at = "enter"
  /\ call.guarded
  /\ call.m = 0 \/ call.n = 0 \/ call.k = 0
  /\ at' = "done"
  /\ UNCHANGED <<call, jc, pc, ic, Ap, Bp, live, failed, scaled, terms, mismatched>>

(* The loops without blocks, called directly.                              *)
Naive ==
  /\ at = "enter"
  /\ ~call.guarded
  /\ scaled' = ScaleAll(scaled)
  /\ terms' = IF call.unrolled THEN UnrolledLoop(terms) ELSE TripleLoop(terms)
  /\ at' = "done"
  /\ UNCHANGED <<call, jc, pc, ic, Ap, Bp, live, failed, mismatched>>

Scale ==
  /\ at = "enter"
  /\ call.guarded
  /\ call.m > 0 /\ call.n > 0 /\ call.k > 0
  /\ scaled' = ScaleAll(scaled)
  /\ at' = "alloc"
  /\ UNCHANGED <<call, jc, pc, ic, Ap, Bp, live, failed, terms, mismatched>>

(* Both allocations.                                                       *)
Allocate ==
  /\ at = "alloc"
  /\ \E nullA \in MayFail, nullB \in MayFail :
       /\ live' = (IF nullA THEN {} ELSE {"Ap"}) \cup (IF nullB THEN {} ELSE {"Bp"})
       /\ failed' = (nullA \/ nullB)
       /\ at' = IF nullA \/ nullB THEN "fallback" ELSE "jc"
  /\ UNCHANGED <<call, jc, pc, ic, Ap, Bp, scaled, terms, mismatched>>

(* Slip: the fallback, which scales C itself, is handed beta and not 1.0.  *)
MutFallBack ==
  /\ at = "fallback"
  /\ live' = live \ {"Ap", "Bp"}
  /\ scaled' = ScaleAll(scaled)
  /\ terms' = TripleLoop(terms)
  /\ at' = "done"
  /\ UNCHANGED <<call, jc, pc, ic, Ap, Bp, failed, mismatched>>

(* If either failed, both are freed, NULL or not, and rvforge_dgemm_nn is  *)
(* called with beta = 1.0 on the C already scaled.                         *)
FallBack ==
  /\ at = "fallback"
  /\ live' = live \ {"Ap", "Bp"}
  /\ terms' = TripleLoop(terms)
  /\ at' = "done"
  /\ UNCHANGED <<call, jc, pc, ic, Ap, Bp, failed, scaled, mismatched>>

(* The head of the loop over column blocks.                                *)
NextColumns ==
  /\ at = "jc"
  /\ IF jc < call.n
     THEN pc' = 0 /\ at' = "pc" /\ UNCHANGED live
     ELSE live' = {} /\ at' = "done" /\ UNCHANGED pc
  /\ UNCHANGED <<call, jc, ic, Ap, Bp, failed, scaled, terms, mismatched>>

(* The head of the loop over panels: pack_B, Bp[p * nc + j] =              *)
(* B[pc + p][jc + j]; or the next column block.                            *)
PackB ==
  /\ at = "pc"
  /\ pc < call.k
  /\ Bp' = [a \in DOMAIN Bp |->
              IF a < kc * nc THEN <<pc + a \div nc, jc + (a % nc)>> ELSE Bp[a]]
  /\ ic' = 0
  /\ at' = "ic"
  /\ UNCHANGED <<call, jc, pc, Ap, live, failed, scaled, terms, mismatched>>

(* Slip: the loop over panels does not hand back to the one around it.     *)
MutEndPanels ==
  /\ at = "pc"
  /\ pc >= call.k
  /\ UNCHANGED vars

EndPanels ==
  /\ at = "pc"
  /\ pc >= call.k
  /\ jc' = jc + NC
  /\ at' = "jc"
  /\ UNCHANGED <<call, pc, ic, Ap, Bp, live, failed, scaled, terms, mismatched>>

(* Slip: pack_A strides by MC, the multiply by mc.                         *)
MutPackA ==
  /\ at = "ic"
  /\ ic < call.m
  /\ Ap' = [a \in DOMAIN Ap |->
              IF a < MC * kc /\ a % MC < mc
              THEN <<ic + (a % MC), pc + a \div MC>> ELSE Ap[a]]
  /\ at' = "block"
  /\ UNCHANGED <<call, jc, pc, ic, Bp, live, failed, scaled, terms, mismatched>>

(* pack_A, Ap[p * mc + i] = A[ic + i][pc + p].                             *)
PackA ==
  /\ at = "ic"
  /\ ic < call.m
  /\ Ap' = [a \in DOMAIN Ap |->
              IF a < mc * kc THEN <<ic + (a % mc), pc + a \div mc>> ELSE Ap[a]]
  /\ at' = "block"
  /\ UNCHANGED <<call, jc, pc, ic, Bp, live, failed, scaled, terms, mismatched>>

EndBlocks ==
  /\ at = "ic"
  /\ ic >= call.m
  /\ pc' = pc + KC
  /\ at' = "pc"
  /\ UNCHANGED <<call, jc, ic, Ap, Bp, live, failed, scaled, terms, mismatched>>

AValue(pr, ir) == Ap[pr * mc + ir]
BValue(pr, jr) == Bp[pr * nc + jr]

(* How often the block adds A[x][q] * B[q][y] to C[x][y], for t = x, y, q. *)
AddedByBlock(t) ==
  LET ir == t[1] - ic
      jr == t[2] - jc
  IN  IF ir \in 0 .. mc - 1 /\ jr \in 0 .. nc - 1
      THEN Cardinality({pr \in 0 .. kc - 1 : /\ AValue(pr, ir) = <<t[1], t[3]>>
                                             /\ BValue(pr, jr) = <<t[3], t[2]>>})
      ELSE 0

(* The loops over ir and jr, for one block of C.                           *)
MultiplyBlock ==
  /\ at = "block"
  /\ terms' = Plus(terms, AddedByBlock)
  /\ mismatched' =
       (mismatched \/ \E ir \in 0 .. mc - 1, jr \in 0 .. nc - 1, pr \in 0 .. kc - 1 :
                        ~ \E q \in Dims : /\ AValue(pr, ir) = <<ic + ir, q>>
                                          /\ BValue(pr, jr) = <<q, jc + jr>>)
  /\ ic' = ic + MC
  /\ at' = "ic"
  /\ UNCHANGED <<call, jc, pc, Ap, Bp, live, failed, scaled>>

Done == at = "done" /\ UNCHANGED vars

Next ==
  \/ Skip \/ Naive \/ Scale \/ Allocate \/ FallBack
  \/ NextColumns \/ PackB \/ EndPanels
  \/ PackA \/ EndBlocks \/ MultiplyBlock
  \/ Done

Spec == Init /\ [][Next]_vars /\ WF_vars(Next)

-----------------------------------------------------------------------------

(* Every variable has its type.                                            *)
TypeOK ==
  /\ call \in Calls
  /\ at \in {"enter", "alloc", "fallback", "jc", "pc", "ic", "block", "done"}
  /\ jc \in 0 .. MaxDim + NC
  /\ pc \in 0 .. MaxDim + KC
  /\ ic \in 0 .. MaxDim + MC
  /\ Ap \in [0 .. ApSize - 1 -> Positions]
  /\ Bp \in [0 .. BpSize - 1 -> Positions]
  /\ live \subseteq {"Ap", "Bp"}
  /\ failed \in BOOLEAN
  /\ scaled \in [Cells -> Nat]
  /\ terms \in [Terms -> Nat]
  /\ mismatched \in BOOLEAN

(* The blocks only multiply values of A and B that belong together: the    *)
(* two buffers are reused for blocks of other shapes, whose leading        *)
(* dimension differs, and keep what was not overwritten; both exist        *)
(* meanwhile, and the call ends with both freed, whichever of the two      *)
(* could not be allocated.                                                 *)
BlocksReadWhatTheyPacked ==
  /\ ~mismatched
  /\ at = "block" => live = {"Ap", "Bp"}
  /\ at = "done" => live = {}

(* The caller's view: C is looked at only when the call has returned.      *)
Abstract ==
  INSTANCE GemmSpec WITH
    returned <- at = "done",
    failed <- at = "done" /\ failed,
    scaled <- IF at = "done" THEN scaled ELSE NotScaled,
    terms <- IF at = "done" THEN terms ELSE NoTerms

(* The call returns with the whole product, C scaled once and each term in *)
(* it once, whatever the allocations do.                                   *)
ImplementsGemm == Abstract!Spec

(* The loops end.                                                          *)
Terminates == <>(at = "done")
=============================================================================
