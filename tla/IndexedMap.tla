----------------------------- MODULE IndexedMap -----------------------------
(***************************************************************************)
(* The map of object.hpp: the entries in the order they came, and beside    *)
(* them one flat table that finds the entry of a key.  A slot of the table  *)
(* holds the hash of a key and the position of its entry; a probe starts at *)
(* the slot of the hash and goes on, round the end, to the key or to an     *)
(* empty slot.  Boolean keys have two slots of their own.  The table is     *)
(* rebuilt when an entry goes, because the positions behind it change.      *)
(***************************************************************************)
EXTENDS Naturals, Sequences, FiniteSets, SequencesExt

CONSTANTS
    Keys,           \* the string and integer keys
    Bools,          \* the boolean keys
    Vals, None,
    Hash,           \* the 64 bits of a key, avalanched: any function
    FirstCapacity   \* slots of the first table: 8

ASSUME KeysAssumption == Keys \cap Bools = {}
ASSUME NoneAssumption == None \notin Keys \cup Bools /\ None \notin Vals
ASSUME HashAssumption == Hash \in [Keys -> Nat]
ASSUME CapacityAssumption == FirstCapacity \in Nat \ {0, 1}

VARIABLES entries, index, indexUsed, boolIndex,
          asked, answer     \* the key of the last call and what it answered
vars == <<entries, index, indexUsed, boolIndex, asked, answer>>

NPOS == 0
NoSlot == [h |-> 0, pos |-> NPOS]
EmptyTable(n) == [i \in 1..n |-> NoSlot]
NoBools == [b \in Bools |-> NPOS]

-----------------------------------------------------------------------------
(* The table *)

\* The filled slots of a table.
Taken(table) == {i \in DOMAIN table : table[i].pos # NPOS}

\* The slot d steps on from the slot of a hash, round the end of a table of n:
\* the mask of the code is a remainder, for n is a power of two times the first.
SlotAt(n, h, d) ==
    LET i == (h % n) + d IN IF i < n THEN i + 1 ELSE i + 1 - n
\* The steps from the slot of a hash after which a probe stops that looks for
\* an entry at one of the places sought: it compares the cached hash first.
Stops(table, h, sought) ==
    {d \in 0..(Len(table) - 1) :
        LET s == table[SlotAt(Len(table), h, d)]
        IN s.pos = NPOS \/ (s.h = h /\ s.pos \in sought)}
Probe(table, h, sought) ==
    LET stops == Stops(table, h, sought)
    IN SlotAt(Len(table), h, CHOOSE d \in stops : \A e \in stops : d <= e)

PlacesOf(k) == {p \in DOMAIN entries : entries[p].key = k}
\* mutant: the probe does not look for the key.
ProbeForRoom(table, k) == Probe(table, Hash[k], {})
\* mutant: keys with the same hash are taken for the same key.
ProbeForHash(table, k) == Probe(table, Hash[k], DOMAIN entries)
ProbeSlot(table, k) == Probe(table, Hash[k], PlacesOf(k))

\* A slot is put into a table that does not have its key.
Seat(table, s) == [table EXCEPT ![Probe(table, s.h, {})] = s]
\* A new table, with the slots that hold something put in one after the other.
Seated(slots, capacity) ==
    LET upTo[i \in 0..Len(slots)] ==
            IF i = 0 THEN EmptyTable(capacity)
            ELSE IF slots[i].pos = NPOS THEN upTo[i - 1]
            ELSE Seat(upTo[i - 1], slots[i])
    IN upTo[Len(slots)]

\* mutant: the slot about to be taken is not counted.
IndexIsFull == indexUsed * 10 >= Len(index) * 7
IndexWantsGrow == (indexUsed + 1) * 10 >= Len(index) * 7
\* mutant: the slots stay where they are.
GrownInPlace == index \o EmptyTable(IF index = <<>> THEN FirstCapacity ELSE Len(index))
Grown == Seated(index, IF index = <<>> THEN FirstCapacity ELSE 2 * Len(index))
IndexWithRoom == IF IndexWantsGrow THEN Grown ELSE index

\* The capacity a rebuilt table has for n entries: doubled until it is enough.
RebuiltCapacity(n) ==
    LET need == (n * 10) \div 7 + 1
        doubled[e \in 0..need] == IF e = 0 THEN FirstCapacity ELSE 2 * doubled[e - 1]
        enough == {e \in 0..need : doubled[e] >= need}
    IN doubled[CHOOSE e \in enough : \A f \in enough : e <= f]
\* The index of the entries left, made anew; boolean keys have no slot in it.
HashedPlaces(left) == {p \in DOMAIN left : left[p].key \in Keys}
RebuiltSlots(left) ==
    [p \in 1..Len(left) |->
        IF left[p].key \in Keys THEN [h |-> Hash[left[p].key], pos |-> p] ELSE NoSlot]
BoolPlaces(left) ==
    [b \in Bools |-> LET places == {p \in DOMAIN left : left[p].key = b}
                     IN IF places = {} THEN NPOS ELSE CHOOSE p \in places : TRUE]
\* mutant: the boolean keys keep their places.
RebuildHashed(left) ==
    /\ index' = Seated(RebuiltSlots(left), RebuiltCapacity(Len(left)))
    /\ indexUsed' = Cardinality(HashedPlaces(left))
    /\ UNCHANGED boolIndex
RebuildIndex(left) ==
    /\ index' = Seated(RebuiltSlots(left), RebuiltCapacity(Len(left)))
    /\ indexUsed' = Cardinality(HashedPlaces(left))
    /\ boolIndex' = BoolPlaces(left)

\* Where the entry of a key is, NPOS when there is none.
Find(k) ==
    IF k \in Bools THEN boolIndex[k]
    ELSE IF index = <<>> THEN NPOS ELSE index[ProbeSlot(index, k)].pos

-----------------------------------------------------------------------------
(* The calls *)

Init ==
    /\ entries = <<>> /\ index = <<>> /\ indexUsed = 0 /\ boolIndex = NoBools
    /\ asked = None /\ answer = None

\* The table grows before it is known whether the key is there.
Set(k, v) ==
    LET table == IndexWithRoom
        at == ProbeSlot(table, k)
        found == table[at].pos
    IN /\ k \in Keys
       /\ IF found # NPOS
          THEN /\ entries' = [entries EXCEPT ![found].val = v]
               /\ index' = table /\ UNCHANGED indexUsed
          ELSE /\ entries' = Append(entries, [key |-> k, val |-> v])
               /\ index' = [table EXCEPT ![at] = [h |-> Hash[k], pos |-> Len(entries) + 1]]
               /\ indexUsed' = indexUsed + 1
       /\ asked' = k /\ answer' = None /\ UNCHANGED boolIndex

SetBool(b, v) ==
    /\ b \in Bools
    /\ IF boolIndex[b] # NPOS
       THEN entries' = [entries EXCEPT ![boolIndex[b]].val = v] /\ UNCHANGED boolIndex
       ELSE /\ entries' = Append(entries, [key |-> b, val |-> v])
            /\ boolIndex' = [boolIndex EXCEPT ![b] = Len(entries) + 1]
    /\ asked' = b /\ answer' = None /\ UNCHANGED <<index, indexUsed>>

Get(k) ==
    /\ answer' = IF Find(k) = NPOS THEN None ELSE entries[Find(k)].val
    /\ asked' = k /\ UNCHANGED <<entries, index, indexUsed, boolIndex>>

RemoveKey(k) ==
    /\ IF Find(k) = NPOS THEN UNCHANGED <<entries, index, indexUsed, boolIndex>>
       ELSE /\ entries' = RemoveAt(entries, Find(k))
            /\ RebuildIndex(RemoveAt(entries, Find(k)))
    /\ asked' = k /\ answer' = None

\* clear of base.hpp.
Clear ==
    /\ entries' = <<>>
    /\ index' = <<>> /\ indexUsed' = 0 /\ boolIndex' = NoBools      \* clearIndex
    /\ asked' = None /\ answer' = None

Next ==
    \/ \E k \in Keys \cup Bools : Get(k) \/ RemoveKey(k) \/ \E v \in Vals : Set(k, v) \/ SetBool(k, v)
    \/ Clear

Spec == Init /\ [][Next]_vars

-----------------------------------------------------------------------------
(* What must hold *)

\* The entries have different keys and the slots name entries of the map (the
\* members of MapObject).
TypeOK ==
    /\ entries \in Seq([key : Keys \cup Bools, val : Vals])
    /\ index \in Seq([h : Nat, pos : 0..Len(entries)])
    /\ indexUsed \in Nat
    /\ boolIndex \in [Bools -> 0..Len(entries)]
    /\ \A p, q \in 1..Len(entries) : entries[p].key = entries[q].key => p = q

\* Less than 70 % of the slots are taken, as the comment on indexUsed says, and
\* indexUsed is their number: so there is an empty slot and a probe for a key
\* that is absent ends (probeSlot, "Callers guarantee a non-full table").
LoadIsKept ==
    /\ indexUsed = Cardinality(Taken(index))
    /\ index # <<>> => indexUsed * 10 < Len(index) * 7

\* Every entry is found by a probe for its key, whatever was removed, re-seated
\* and put since it came: no empty slot stands between the slot of its hash and
\* its own (probeSlot, indexGrow and rebuildIndex).
EveryKeyIsFound == \A p \in 1..Len(entries) : Find(entries[p].key) = p

\* The map is a dictionary in order: every call answers and changes what the
\* same call of a plain list of keys and values would (get, set, remove, clear).
Dict == INSTANCE Dictionary WITH Keys <- Keys \cup Bools, dict <- entries
ImplementsDictionary == Dict!DictSpec

-----------------------------------------------------------------------------
(* The invariant behind them                                                *)

\* A probe for the hash of a taken slot comes to it over taken slots.
Chained(table) ==
    \A i \in Taken(table) : \E d \in 0..(Len(table) - 1) :
        /\ SlotAt(Len(table), table[i].h, d) = i
        /\ \A e \in 0..(d - 1) : SlotAt(Len(table), table[i].h, e) \in Taken(table)

\* The taken slots of a table and the entries with hashed keys correspond.
Indexes(table, es) ==
    /\ \A i \in Taken(table) :
         /\ table[i].pos \in HashedPlaces(es)
         /\ table[i].h = Hash[es[table[i].pos].key]
    /\ \A i, j \in Taken(table) : table[i].pos = table[j].pos => i = j
    /\ \A p \in HashedPlaces(es) : \E i \in Taken(table) : table[i].pos = p

\* A boolean key's place is the place of its entry.
BoolsInv ==
    \A b \in Bools : IF boolIndex[b] = NPOS THEN PlacesOf(b) = {} ELSE PlacesOf(b) = {boolIndex[b]}

SizeInv == index # <<>> => Len(index) >= FirstCapacity

\* The table, the entries and the boolean slots agree between any two calls of
\* set, get, remove and clear, and every probe that will be made ends.
IInv == TypeOK /\ LoadIsKept /\ SizeInv /\ Chained(index) /\ Indexes(index, entries) /\ BoolsInv
=============================================================================
