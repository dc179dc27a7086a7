---------------------------- MODULE MCHeapSites ----------------------------
(* Instances of HeapSites for TLC.                                         *)
EXTENDS HeapSites, TLC

CONSTANTS o1, o2, o3

Plain3  == {o1, o2, o3}
NoCoros == {}
Symmetry3 == Permutations(Plain3)
BoxSites   == {"box"}
AccumSites == {"accum"}
EmitSites  == {"emit"}
=============================================================================
