------------------------------ MODULE SafeHeap ------------------------------
(***************************************************************************)
(* What a garbage-collected heap promises the program that runs on it,     *)
(* whatever the collector does inside (src/src/vm/gc.hpp): the program     *)
(* sees an object graph and a set of roots; an object disappears only when *)
(* no path from the roots leads to it, and the program can only reach      *)
(* objects it could already reach or has just allocated.                   *)
(***************************************************************************)
EXTENDS Reachability

CONSTANT Obj                \* the objects there may ever be

VARIABLES
  allocated,                \* the objects that exist
  roots,                    \* what the program holds outside the heap
  edges                     \* edges[o]: the objects o refers to

vars == <<allocated, roots, edges>>

Live == ReachableFrom(roots, edges)

Init == /\ allocated = {}
        /\ roots = {}
        /\ edges = [o \in Obj |-> {}]

(* The program runs: it allocates the objects of New and rewires what it   *)
(* can reach, but it never gets hold of an object it could not reach.      *)
Mutate == \E New \in SUBSET (Obj \ allocated) :
            /\ allocated' = allocated \cup New
            /\ roots' \subseteq Obj
            /\ edges' \in [Obj -> SUBSET Obj]
            /\ Live' \subseteq Live \cup New

(* The collector frees one object the program cannot reach.                *)
Free == \E o \in allocated \ Live :
          /\ allocated' = allocated \ {o}
          /\ edges' = [edges EXCEPT ![o] = {}]
          /\ UNCHANGED roots

Next == Mutate \/ Free

Spec == Init /\ [][Next]_vars

(* What the promise gives: everything the program can reach exists.        *)
NoDangling == Live \subseteq allocated
=============================================================================
