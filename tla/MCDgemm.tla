-------------------------------- MODULE MCDgemm --------------------------------
(***************************************************************************)
(* Instances of BlockedDgemm and RvvDgemm side by side: a behaviour is a   *)
(* call of one of the two, and the variables of the other rest.  Blocks of *)
(* two rows, panels of two and, in the scalar code, three columns, so that *)
(* a dimension of five has full blocks and a short one, in buffers that    *)
(* still hold what the full ones left.                                     *)
(***************************************************************************)
EXTENDS BlockedDgemm

CONSTANT VLMaxes

VARIABLES
  build,                       (* Which of the two is called.              *)
  vCall, vAt, vPc, vIc, i, j, vBp, vAp, vLive, vFailed, vScaled, vTerms, vMismatched

V == INSTANCE RvvDgemm WITH
       call <- vCall, at <- vAt, pc <- vPc, ic <- vIc, Bp <- vBp, Ap <- vAp,
       live <- vLive, failed <- vFailed, scaled <- vScaled, terms <- vTerms,
       mismatched <- vMismatched

vector == <<vCall, vAt, vPc, vIc, i, j, vBp, vAp, vLive, vFailed, vScaled, vTerms, vMismatched>>

Any(S) == CHOOSE x \in S : TRUE

DgemmInit ==
  /\ \/ build = "vector" /\ call = Any(Calls)
     \/ build = "scalar" /\ vCall = Any(V!Calls)
  /\ V!Init
  /\ Init

DgemmNext ==
  \/ build = "vector" /\ V!Next /\ UNCHANGED <<build, vars>>
  \/ build = "scalar" /\ Next /\ UNCHANGED <<build, vector>>

DgemmSpec ==
  DgemmInit /\ [][DgemmNext]_<<build, vars, vector>> /\ WF_<<build, vars, vector>>(DgemmNext)

-----------------------------------------------------------------------------

(* The variables of the vector dgemm have their types.                     *)
VectorTypeOK == V!TypeOK

(* Its panels only multiply what was packed for them, and every path frees *)
(* the buffers.                                                            *)
PanelsReadWhatTheyPacked == V!PanelsReadWhatTheyPacked

(* It keeps the contract in which a failed allocation may cut the product  *)
(* short.                                                                  *)
ImplementsLossyGemm == V!ImplementsLossyGemm

(* Whatever vl the unit grants, the vector dgemm ends.                     *)
VectorTerminates == build = "vector" => V!Terminates

(* The scalar dgemm ends.                                                  *)
ScalarTerminates == build = "scalar" => Terminates

-----------------------------------------------------------------------------

MCVLMaxes == {1, 2}
MCMayFail == BOOLEAN
=============================================================================
