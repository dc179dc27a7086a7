------------------------------- MODULE MCHeap -------------------------------
(* Instances of Heap for TLC: the objects are model values, the plain ones *)
(* interchangeable.                                                        *)
EXTENDS Heap, TLC

CONSTANTS o1, o2, c1

Plain2 == {o1, o2}
OneAndCoro == {o1, c1}
TwoAndCoro  == {o1, o2, c1}
OneCoro  == {c1}

Symmetry2 == Permutations(Plain2)
=============================================================================
