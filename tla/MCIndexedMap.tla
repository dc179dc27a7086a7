---------------------------- MODULE MCIndexedMap ----------------------------
(* An instance of IndexedMap for TLC: keys that collide in every table, keys *)
(* that part when it doubles, and probes that go round its end.             *)
EXTENDS IndexedMap, TLC

\* a and b never part, c is with them in 4 slots, d starts in the last slot.
SomeHashes == "a" :> 0 @@ "b" :> 0 @@ "c" :> 4 @@ "d" :> 7
SomeKeys == DOMAIN SomeHashes
=============================================================================
