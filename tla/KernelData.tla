------------------------------ MODULE KernelData ------------------------------
(***************************************************************************)
(* What the modules about the kernels with one counter share: the sizes    *)
(* and the strides of a call.                                              *)
(***************************************************************************)
EXTENDS Integers, VectorUnit

CONSTANTS
  MaxN,  (* The largest element count of a call, or of a row.              *)
  Incs   (* The strides callers pass.                                      *)

ASSUME KernelAssumption ==
  /\ MaxN \in Nat
  /\ Incs \subseteq Nat \ {0}
=============================================================================
