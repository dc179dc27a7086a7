---------------------------- MODULE Reachability ----------------------------
(***************************************************************************)
(* What "reachable" means for an object graph, without recursion: an       *)
(* object is reachable from a set of roots iff every set that contains the *)
(* roots and is closed under the graph's edges contains the object.        *)
(* edges maps every object of its domain to the set of objects it refers   *)
(* to.                                                                     *)
(***************************************************************************)
LOCAL INSTANCE Naturals

IsClosed(S, edges) == \A o \in S : edges[o] \subseteq S

ReachableFrom(roots, edges) ==
  {o \in DOMAIN edges :
     \A S \in SUBSET DOMAIN edges :
        roots \subseteq S /\ IsClosed(S, edges) => o \in S}
=============================================================================
