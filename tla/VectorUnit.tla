----------------------------- MODULE VectorUnit -----------------------------
(***************************************************************************)
(* What the kernels under src/rvv may assume of the hardware behind the    *)
(* <riscv_vector.h> intrinsics they call (RISC-V "V" extension 1.0).  The  *)
(* hardware is not part of the repository: these definitions are external. *)
(***************************************************************************)
EXTENDS Integers

CONSTANT VLMaxes  (* The numbers of lanes a register group may hold.        *)

ASSUME VectorUnitAssumption == VLMaxes \subseteq Nat \ {0}

(***************************************************************************)
(* __riscv_vsetvl_e64mX(avl): the vector lengths the unit may grant for an *)
(* application vector length avl when a register group holds vlmax lanes.  *)
(* Between vlmax and 2 * vlmax the unit is free to split the rest evenly.  *)
(***************************************************************************)
LegalVl(avl, vlmax) ==
  {vl \in 0 .. vlmax :
     /\ avl <= vlmax => vl = avl
     /\ avl >= 2 * vlmax => vl = vlmax
     /\ (vlmax < avl /\ avl < 2 * vlmax) => (avl + 1) \div 2 <= vl}

(***************************************************************************)
(* The lanes of the destination an instruction executed with length vl     *)
(* leaves in the tail.  The intrinsics without a _tu suffix, which are the *)
(* only ones src/rvv uses, are tail agnostic: each tail lane either keeps  *)
(* its old value or is overwritten with ones, which read as a NaN.         *)
(* Clobbered(vl, vlmax) is the set of lane sets that may be overwritten.   *)
(***************************************************************************)
Clobbered(vl, vlmax) == SUBSET (vl .. vlmax - 1)
=============================================================================
