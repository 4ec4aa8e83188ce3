------------------------------ MODULE MCPatchTree ------------------------------
(* An instance of PatchTree: 0001 for GMP; 0002, 0003 and 0004 stand for    *)
(* the patches of OpenBLAS: one that changes its own context, one the port  *)
(* applies as well, and the five that only the script applies.              *)
EXTENDS PatchTree

CONSTANTS GMP, OB

MCTreeOf == <<GMP, OB, OB, OB>>
MCPorted == [t \in {GMP, OB} |-> IF t = GMP THEN <<1>> ELSE <<2, 3>>]
=============================================================================
