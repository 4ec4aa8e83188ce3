------------------------------- MODULE GemmData -------------------------------
(***************************************************************************)
(* What the three matrix-multiply modules share: the shape of a call       *)
(* C := beta * C + alpha * A * B with C of m rows and n columns and an     *)
(* inner dimension k, and how the state of C and of the packed buffers is  *)
(* abstracted.                                                             *)
(*                                                                         *)
(* scaled[<<x, y>>] is how often C[x][y] was multiplied by beta, and       *)
(* terms[<<x, y, q>>] how often A[x][q] * B[q][y] was added to it.  A cell *)
(* of a buffer holds the position <<row, column>> in A or B of the value   *)
(* copied there, or Junk.                                                  *)
(***************************************************************************)
EXTENDS Integers, FiniteSets

CONSTANTS
  MaxDim,   (* The largest m, n and k of a call.                           *)
  MC, KC,   (* DGEMM_MC and DGEMM_KC.                                      *)
  MayFail   (* The outcomes of an allocation: TRUE stands for NULL.        *)

ASSUME GemmAssumption ==
  /\ MaxDim \in Nat \ {0}
  /\ MC \in Nat \ {0}
  /\ KC \in Nat \ {0}
  /\ MayFail \subseteq BOOLEAN

Dims  == 0 .. MaxDim - 1
Cells == Dims \X Dims
Terms == Dims \X Dims \X Dims

(* A cell of no matrix: what malloc hands out.                             *)
Junk == <<-1, -1>>

Positions == Cells \cup {Junk}

Smaller(a, b) == IF a <= b THEN a ELSE b

(* The kernels that return at once unless m, n and k are all positive      *)
(* leave C alone on an empty inner dimension; the others scale it.         *)
Skipped(c) == c.m = 0 \/ c.n = 0 \/ (c.guarded /\ c.k = 0)

InC(c, x, y) == x < c.m /\ y < c.n

NotScaled == [p \in Cells |-> 0]
NoTerms   == [p \in Terms |-> 0]

(* beta * C, over the whole of C.                                          *)
ScaledOnce(c) == [p \in Cells |-> IF InC(c, p[1], p[2]) THEN 1 ELSE 0]

(* A * B.                                                                  *)
Product(c) ==
  [p \in Terms |-> IF InC(c, p[1], p[2]) /\ p[3] < c.k THEN 1 ELSE 0]
=============================================================================
