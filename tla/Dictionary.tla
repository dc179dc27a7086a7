----------------------------- MODULE Dictionary -----------------------------
(***************************************************************************)
(* What a map promises: a value for a key, and the keys in the order in     *)
(* which they first came.  A key that is put again keeps its place, one     *)
(* that was removed and comes back goes to the end.                         *)
(***************************************************************************)
EXTENDS Naturals, Sequences, SequencesExt

CONSTANTS Keys, Vals, None      \* None is neither a key nor a value

VARIABLES dict,     \* the keys and values, in order
          asked,    \* the key of the last call
          answer    \* and what it answered
dictVars == <<dict, asked, answer>>

PlacesOf(k) == {i \in 1..Len(dict) : dict[i].key = k}

DictInit == dict = <<>> /\ asked = None /\ answer = None

DictPut(k, v) ==
    /\ asked' = k /\ answer' = None
    /\ \/ PlacesOf(k) = {} /\ dict' = Append(dict, [key |-> k, val |-> v])
       \/ \E i \in PlacesOf(k) : dict' = [dict EXCEPT ![i].val = v]

DictGet(k) ==
    /\ answer' = IF PlacesOf(k) = {} THEN None ELSE dict[CHOOSE i \in PlacesOf(k) : TRUE].val
    /\ asked' = k /\ UNCHANGED dict

DictRemove(k) ==
    /\ asked' = k /\ answer' = None
    /\ \/ PlacesOf(k) = {} /\ UNCHANGED dict
       \/ \E i \in PlacesOf(k) : dict' = RemoveAt(dict, i)

DictClear == dict' = <<>> /\ asked' = None /\ answer' = None

DictNext ==
    \/ \E k \in Keys : DictGet(k) \/ DictRemove(k) \/ \E v \in Vals : DictPut(k, v)
    \/ DictClear

DictSpec == DictInit /\ [][DictNext]_dictVars
=============================================================================
