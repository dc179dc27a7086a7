------------------------------ MODULE MCUnwind ------------------------------
(* Instances of Unwind for TLC.                                            *)
EXTENDS Unwind, TLC

CONSTANTS c1, c2

NoCoros  == {}
OneCoro  == {c1}
TwoCoros == {c1, c2}
SymmetryCoros == Permutations(TwoCoros)

CoreOnly  == {}
Guarded   == {"guarded"}
Inside    == {"inside"}
=============================================================================
