----------------------------- MODULE MCUpvalues -----------------------------
(* Instances of Upvalues for TLC.                                          *)
EXTENDS Upvalues, TLC

CONSTANTS x1, x2, b1, b2, c1

TwoCells == {x1, x2}
TwoVars  == {b1, b2}
OneCoro  == {c1}
NoCoros  == {}
Values   == {0, 1}

SymmetryIds == Permutations(TwoCells) \cup Permutations(TwoVars)
=============================================================================
