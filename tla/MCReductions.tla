----------------------------- MODULE MCReductions -----------------------------
(* An instance of Reductions: a register of two lanes is enough for a strip *)
(* that is shorter.                                                         *)
EXTENDS Reductions

MCIncs == {1}
MCVLMaxesOfOne == {2}
=============================================================================
