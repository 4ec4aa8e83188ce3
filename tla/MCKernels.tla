------------------------------- MODULE MCKernels -------------------------------
(***************************************************************************)
(* Instances of Elementwise and Reductions side by side: a behaviour is a  *)
(* call of a kernel of one of the two families, and the variables of the   *)
(* other rest.  Calls of up to nine elements give every strip length to    *)
(* registers of one to four lanes (full, split and short strips) and two   *)
(* turns of the unrolled loops with a remainder.                           *)
(***************************************************************************)
EXTENDS Reductions

VARIABLES
  family,              (* Which of the two is called.                      *)
  eCall, i, updates, ePc

E == INSTANCE Elementwise WITH call <- eCall, pc <- ePc

elementwise == <<eCall, i, updates, ePc>>

Any(S) == CHOOSE x \in S : TRUE

KernelsInit ==
  /\ \/ family = "elementwise" /\ call = Any(Calls)
     \/ family = "reductions" /\ eCall = Any(E!Calls)
  /\ E!Init
  /\ Init

KernelsNext ==
  \/ family = "elementwise" /\ E!Next /\ UNCHANGED <<family, vars>>
  \/ family = "reductions" /\ Next /\ UNCHANGED <<family, elementwise>>

KernelsSpec ==
  KernelsInit /\ [][KernelsNext]_<<family, vars, elementwise>>
              /\ WF_<<family, vars, elementwise>>(KernelsNext)

-----------------------------------------------------------------------------

(* A call of daxpy, dscal or dcopy updates every element exactly once.     *)
EveryElementOnce == E!EveryElementOnce

(* At every turn of its loop the elements below the counter are updated.   *)
PrefixUpdated == E!PrefixUpdated

(* Whatever vl the unit grants, the loops of daxpy, dscal and dcopy end.   *)
ElementwiseTerminates == family = "elementwise" => E!Terminates

(* Whatever vl the unit grants, the loops of the reductions end.           *)
ReductionsTerminate == family = "reductions" => Terminates

-----------------------------------------------------------------------------

MCIncs == {1, 2}
MCVLMaxes == {1, 2, 4}
=============================================================================
