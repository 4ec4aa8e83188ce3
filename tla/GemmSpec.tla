------------------------------- MODULE GemmSpec -------------------------------
(***************************************************************************)
(* What a caller of the matrix-multiply kernels is promised.               *)
(*                                                                         *)
(*   Spec       the call returns with C scaled by beta once and with every *)
(*              product of A and B in it once (or with C as it was when    *)
(*              the kernel skips the call);                                *)
(*   LossySpec  or, if an allocation failed, with C scaled once and with   *)
(*              the products of a leading part of the inner dimension,     *)
(*              which may be shorter for the later rows.                   *)
(***************************************************************************)
EXTENDS GemmData

VARIABLES call, returned, failed, scaled, terms

vars == <<call, returned, failed, scaled, terms>>

Init ==
  /\ ~returned
  /\ ~failed
  /\ scaled = NotScaled
  /\ terms = NoTerms

Complete ==
  /\ ~returned
  /\ returned'
  /\ scaled' = IF Skipped(call) THEN NotScaled ELSE ScaledOnce(call)
  /\ terms' = IF Skipped(call) THEN NoTerms ELSE Product(call)
  /\ UNCHANGED <<call, failed>>

(* The first depth[x] products of every cell of row x.                     *)
Leading(c, depth) ==
  [p \in Terms |-> IF InC(c, p[1], p[2]) /\ p[3] < depth[p[1]] THEN 1 ELSE 0]

GiveUp ==
  /\ ~returned
  /\ returned'
  /\ ~Skipped(call)
  /\ failed'
  /\ scaled' = ScaledOnce(call)
  /\ \E depth \in [Dims -> 0 .. call.k] :
       /\ \A x \in Dims, w \in Dims : w < x => depth[w] >= depth[x]
       /\ terms' = Leading(call, depth)
  /\ UNCHANGED call

(* Recovered: an allocation failed and the result is complete all the same. *)
Recover ==
  /\ ~returned
  /\ returned'
  /\ ~Skipped(call)
  /\ failed'
  /\ scaled' = ScaledOnce(call)
  /\ terms' = Product(call)
  /\ UNCHANGED call

Spec      == Init /\ [][Complete \/ Recover]_vars
LossySpec == Init /\ [][Complete \/ GiveUp]_vars
=============================================================================
