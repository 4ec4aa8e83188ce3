------------------------------- MODULE RvvDgemm -------------------------------
(***************************************************************************)
(* src/rvv/rvv_dgemm.c, vector build: C is scaled strip by strip, then     *)
(* every panel of KC rows of B is packed into Bp, and under it every block *)
(* of MC rows of A into a buffer allocated for that block, and the block   *)
(* is multiplied strip by strip.  Either allocation may fail, and then the *)
(* function, which returns nothing, returns.                               *)
(*                                                                         *)
(* "at" is the control point; pc, ic, i and j are the code's counters.     *)
(***************************************************************************)
EXTENDS GemmData, VectorUnit

VARIABLES
  call, at, pc, ic, i, j,
  Bp, Ap,     (* The packed buffers, by flat index.                         *)
  live,       (* The buffers allocated and not yet freed.                   *)
  failed,     (* Whether an allocation has failed.                          *)
  scaled, terms,
  mismatched  (* Whether a product of two values that do not belong         *)
              (* together was ever added to C.                              *)

vars == <<call, at, pc, ic, i, j, Bp, Ap, live, failed, scaled, terms, mismatched>>

Calls == [m : 0 .. MaxDim, n : 0 .. MaxDim, k : 0 .. MaxDim,
          guarded : {TRUE}, vlmax : VLMaxes]

BpSize == KC * MaxDim
ApSize == MC * KC

(* The lanes of an LMUL=8 group, which the scaling loop uses.              *)
ScaleLanes == 4 * call.vlmax

kc == Smaller(KC, call.k - pc)
mc == Smaller(MC, call.m - ic)

-----------------------------------------------------------------------------

Init ==
  /\ call \in Calls
  /\ at = "enter"
  /\ pc = 0 /\ ic = 0 /\ i = 0 /\ j = 0
  /\ Bp = [a \in 0 .. BpSize - 1 |-> Junk]
  /\ Ap = [a \in 0 .. ApSize - 1 |-> Junk]
  /\ live = {}
  /\ failed = FALSE
  /\ scaled = NotScaled
  /\ terms = NoTerms
  /\ mismatched = FALSE

Enter ==
  /\ at = "enter"
  /\ at' = IF call.m = 0 \/ call.n = 0 \/ call.k = 0 THEN "done" ELSE "scale"
  /\ UNCHANGED <<call, pc, ic, i, j, Bp, Ap, live, failed, scaled, terms, mismatched>>

(* Slip: the row counter advances by vl as well.                           *)
MutAdvanceStrip(vl) ==
  IF j + vl < call.n THEN j' = j + vl /\ i' = i ELSE j' = 0 /\ i' = i + vl

(* Moves on by vl columns, and to the next row at the end of one.          *)
AdvanceStrip(vl) ==
  IF j + vl < call.n THEN j' = j + vl /\ i' = i ELSE j' = 0 /\ i' = i + 1

(* Slip: a strip that is not full is left out, and the counters stay.      *)
MutScaleStrip ==
  /\ at = "scale"
  /\ i < call.m
  /\ \E vl \in LegalVl(call.n - j, ScaleLanes) :
       IF vl < ScaleLanes
       THEN UNCHANGED <<scaled, i, j>>
       ELSE /\ scaled' = [p \in Cells |->
                            IF p[1] = i /\ p[2] \in j .. j + vl - 1
                            THEN scaled[p] + 1 ELSE scaled[p]]
            /\ AdvanceStrip(vl)
  /\ UNCHANGED <<call, at, pc, ic, Bp, Ap, live, failed, terms, mismatched>>

(* Load, vfmul by beta and store of one strip of C.                        *)
ScaleStrip ==
  /\ at = "scale"
  /\ i < call.m
  /\ \E vl \in LegalVl(call.n - j, ScaleLanes) :
       /\ scaled' = [p \in Cells |->
                       IF p[1] = i /\ p[2] \in j .. j + vl - 1
                       THEN scaled[p] + 1 ELSE scaled[p]]
       /\ AdvanceStrip(vl)
  /\ UNCHANGED <<call, at, pc, ic, Bp, Ap, live, failed, terms, mismatched>>

AllocateB ==
  /\ at = "scale"
  /\ i >= call.m
  /\ \E null \in MayFail :
       /\ failed' = null
       /\ live' = IF null THEN live ELSE live \cup {"Bp"}
       /\ at' = IF null THEN "done" ELSE "pc"
  /\ UNCHANGED <<call, pc, ic, i, j, Bp, Ap, scaled, terms, mismatched>>

(* Slip: the panel is packed from the first rows of B every time.          *)
MutPackB ==
  /\ at = "pc"
  /\ pc < call.k
  /\ Bp' = [a \in DOMAIN Bp |->
              IF a < kc * call.n
              THEN <<a \div call.n, a % call.n>> ELSE Bp[a]]
  /\ ic' = 0
  /\ at' = "ic"
  /\ UNCHANGED <<call, pc, i, j, Ap, live, failed, scaled, terms, mismatched>>

(* Bp[p * n + j] = B[pc + p][j] for p < kc and j < n.                      *)
PackB ==
  /\ at = "pc"
  /\ pc < call.k
  /\ Bp' = [a \in DOMAIN Bp |->
              IF a < kc * call.n
              THEN <<pc + a \div call.n, a % call.n>> ELSE Bp[a]]
  /\ ic' = 0
  /\ at' = "ic"
  /\ UNCHANGED <<call, pc, i, j, Ap, live, failed, scaled, terms, mismatched>>

(* Ap_buf[i * kc + p] = A[ic + i][pc + p], in a buffer of mc * kc doubles.  *)
PackedA ==
  [a \in DOMAIN Ap |->
     IF a < mc * kc THEN <<ic + a \div kc, pc + (a % kc)>> ELSE Junk]

(* A buffer for this block, and its contents; or none, and the call ends.  *)
AllocateA ==
  /\ at = "ic"
  /\ ic < call.m
  /\ \E null \in MayFail :
       /\ failed' = null
       /\ live' = IF null THEN live \ {"Bp"} ELSE live \cup {"Ap"}
       /\ at' = IF null THEN "done" ELSE "panel"
       /\ Ap' = IF null THEN Ap ELSE PackedA
  /\ i' = 0 /\ j' = 0
  /\ UNCHANGED <<call, pc, ic, Bp, scaled, terms, mismatched>>

(* The values lane column y of row i multiplies at step p of a panel.      *)
AValue(p) == Ap[i * kc + p]
BValue(p, y) == Bp[p * call.n + y]

(* rvv_dgemm_panel: load of one strip of C, kc fused multiply-adds, store. *)
PanelStrip ==
  /\ at = "panel"
  /\ i < mc
  /\ \E vl \in LegalVl(call.n - j, call.vlmax) :
       LET columns == j .. j + vl - 1 IN
       /\ terms' = [t \in Terms |->
                      IF t[1] = ic + i /\ t[2] \in columns
                      THEN terms[t] + Cardinality(
                             {p \in 0 .. kc - 1 : /\ AValue(p) = <<t[1], t[3]>>
                                                  /\ BValue(p, t[2]) = <<t[3], t[2]>>})
                      ELSE terms[t]]
       /\ mismatched' =
            (mismatched \/ \E p \in 0 .. kc - 1, y \in columns :
                             ~ \E q \in Dims : /\ AValue(p) = <<ic + i, q>>
                                               /\ BValue(p, y) = <<q, y>>)
       /\ AdvanceStrip(vl)
  /\ UNCHANGED <<call, at, pc, ic, Bp, Ap, live, failed, scaled>>

FreeA ==
  /\ at = "panel"
  /\ i >= mc
  /\ live' = live \ {"Ap"}
  /\ ic' = ic + MC
  /\ at' = "ic"
  /\ UNCHANGED <<call, pc, i, j, Bp, Ap, failed, scaled, terms, mismatched>>

(* Slip: the next panel starts one row early.                              *)
MutNextPanel ==
  /\ at = "ic"
  /\ ic >= call.m
  /\ pc' = IF KC = 1 THEN pc + 1 ELSE pc + KC - 1
  /\ at' = "pc"
  /\ UNCHANGED <<call, ic, i, j, Bp, Ap, live, failed, scaled, terms, mismatched>>

NextPanel ==
  /\ at = "ic"
  /\ ic >= call.m
  /\ pc' = pc + KC
  /\ at' = "pc"
  /\ UNCHANGED <<call, ic, i, j, Bp, Ap, live, failed, scaled, terms, mismatched>>

FreeB ==
  /\ at = "pc"
  /\ pc >= call.k
  /\ live' = live \ {"Bp"}
  /\ at' = "done"
  /\ UNCHANGED <<call, pc, ic, i, j, Bp, Ap, failed, scaled, terms, mismatched>>

Done == at = "done" /\ UNCHANGED vars

Next ==
  \/ Enter \/ ScaleStrip \/ AllocateB
  \/ PackB \/ AllocateA \/ PanelStrip \/ FreeA \/ NextPanel
  \/ FreeB \/ Done

Spec == Init /\ [][Next]_vars /\ WF_vars(Next)

-----------------------------------------------------------------------------

(* Every variable has its type.                                            *)
TypeOK ==
  /\ call \in Calls
  /\ at \in {"enter", "scale", "pc", "ic", "panel", "done"}
  /\ pc \in 0 .. MaxDim + KC
  /\ ic \in 0 .. MaxDim + MC
  /\ i \in 0 .. MaxDim
  /\ j \in 0 .. MaxDim
  /\ Bp \in [0 .. BpSize - 1 -> Positions]
  /\ Ap \in [0 .. ApSize - 1 -> Positions]
  /\ live \subseteq {"Ap", "Bp"}
  /\ failed \in BOOLEAN
  /\ scaled \in [Cells -> Nat]
  /\ terms \in [Terms -> Nat]
  /\ mismatched \in BOOLEAN

(* A panel only multiplies values of A and B that belong together: nothing *)
(* left in Bp by the panel before, whose rows may have been more, and      *)
(* nothing malloc handed out; both buffers exist meanwhile, and every path *)
(* out of the function, those after a failed allocation included, frees    *)
(* both.                                                                   *)
PanelsReadWhatTheyPacked ==
  /\ ~mismatched
  /\ at = "panel" => live = {"Ap", "Bp"}
  /\ at = "done" => live = {}

(* The caller's view: C is looked at only when the call has returned.      *)
Abstract ==
  INSTANCE GemmSpec WITH
    returned <- at = "done",
    failed <- at = "done" /\ failed,
    scaled <- IF at = "done" THEN scaled ELSE NotScaled,
    terms <- IF at = "done" THEN terms ELSE NoTerms

(* The function returns with the whole product, each term once; or, when   *)
(* an allocation failed, with C scaled and a leading part of the product.  *)
ImplementsLossyGemm == Abstract!LossySpec

(* Whatever vl the unit grants, the loops end.                             *)
Terminates == <>(at = "done")
=============================================================================
