-------------------------- MODULE IndexedMapProofs --------------------------
(***************************************************************************)
(* IndexedMap keeps its index and its entries together, whatever the hash   *)
(* function is, and is a dictionary.                                        *)
(***************************************************************************)
EXTENDS IndexedMap, FiniteSetTheorems, SequenceTheorems, NaturalOrder, TLAPS

(* Slots, and tables of them.                                              *)
Slot == [h : Nat, pos : Nat]
Tables(n) == [1..n -> Slot]

-----------------------------------------------------------------------------
(* Probes.                                                                 *)

LEMMA HomeSlot ==
  ASSUME NEW n \in Nat \ {0}, NEW h \in Nat
  PROVE  h % n \in 0..(n - 1)
OBVIOUS

LEMMA SlotInTable ==
  ASSUME NEW n \in Nat \ {0}, NEW h \in Nat, NEW d \in 0..(n - 1)
  PROVE  SlotAt(n, h, d) \in 1..n
<1>1. PICK m \in 0..(n - 1) : m = h % n
  BY HomeSlot
<1>2. QED
  BY <1>1 DEF SlotAt

(* From the slot of any hash, a probe comes to every slot.                 *)
LEMMA EverySlotIsProbed ==
  ASSUME NEW n \in Nat \ {0}, NEW h \in Nat, NEW i \in 1..n
  PROVE  \E d \in 0..(n - 1) : SlotAt(n, h, d) = i
<1>1. PICK m \in 0..(n - 1) : m = h % n
  BY HomeSlot
<1>2. CASE m <= i - 1
  <2>1. i - 1 - m \in 0..(n - 1) /\ m + (i - 1 - m) < n /\ m + (i - 1 - m) + 1 = i
    BY <1>2
  <2>2. SlotAt(n, h, i - 1 - m) = i
    BY <1>1, <2>1 DEF SlotAt
  <2>3. QED
    BY <2>1, <2>2
<1>3. CASE m > i - 1
  <2>1. i - 1 - m + n \in 0..(n - 1) /\ ~(m + (i - 1 - m + n) < n) /\ m + (i - 1 - m + n) + 1 - n = i
    BY <1>3
  <2>2. SlotAt(n, h, i - 1 - m + n) = i
    BY <1>1, <2>1 DEF SlotAt
  <2>3. QED
    BY <2>1, <2>2
<1>4. QED
  BY <1>2, <1>3

LEMMA SequenceFacts ==
  ASSUME NEW D, NEW s \in Seq(D)
  PROVE  /\ Len(s) \in Nat /\ DOMAIN s = 1..Len(s)
         /\ \A i \in DOMAIN s : s[i] \in D
         /\ s = << >> <=> Len(s) = 0
OBVIOUS

LEMMA TableFacts ==
  ASSUME NEW n \in Nat, NEW table \in Tables(n)
  PROVE  table \in Seq(Slot) /\ Len(table) = n /\ DOMAIN table = 1..n
<1>1. table \in Seq(Slot)
  BY IsASeq DEF Tables
<1>2. DOMAIN table = 1..n
  BY DEF Tables
<1>3. QED
  BY <1>1, <1>2, LenProperties

LEMMA ProbeStops ==
  ASSUME NEW n \in Nat \ {0}, NEW table \in Tables(n), NEW h \in Nat, NEW sought,
         \E i \in 1..n : table[i].pos = NPOS
  PROVE  \E d \in Stops(table, h, sought) :
           /\ Probe(table, h, sought) = SlotAt(n, h, d)
           /\ d \in 0..(n - 1)
           /\ \A e \in 0..(d - 1) : e \notin Stops(table, h, sought)
<1>1. Len(table) = n
  BY TableFacts
<1>2. PICK c \in 0..(n - 1) : table[SlotAt(n, h, c)].pos = NPOS
  BY EverySlotIsProbed
<1> DEFINE stops == Stops(table, h, sought)
<1>3. stops \in SUBSET Nat /\ stops \subseteq 0..(n - 1) /\ c \in stops
  BY <1>1, <1>2 DEF Stops
<1>4. PICK d \in stops : \A e \in stops : d <= e
  BY <1>3, LeastNatural
<1> DEFINE first == CHOOSE f \in stops : \A e \in stops : f <= e
<1>5. first \in stops /\ \A e \in stops : first <= e
  BY <1>4
<1>6. Probe(table, h, sought) = SlotAt(n, h, first)
  BY <1>1 DEF Probe
<1> HIDE DEF first
<1>7. ASSUME NEW e \in 0..(first - 1) PROVE e \notin stops
  BY <1>3, <1>5
<1> HIDE DEF stops
<1>8. QED
  BY <1>3, <1>5, <1>6, <1>7 DEF stops

(* A probe that looks for nothing comes over taken slots to a free one.    *)
LEMMA ProbeForFree ==
  ASSUME NEW n \in Nat \ {0}, NEW table \in Tables(n), NEW h \in Nat,
         \E i \in 1..n : table[i].pos = NPOS
  PROVE  \E d \in 0..(n - 1) :
           /\ Probe(table, h, {}) = SlotAt(n, h, d)
           /\ SlotAt(n, h, d) \in (1..n) \ Taken(table)
           /\ \A e \in 0..(d - 1) : SlotAt(n, h, e) \in Taken(table)
<1>1. Len(table) = n /\ DOMAIN table = 1..n
  BY TableFacts
<1>2. PICK d \in Stops(table, h, {}) :
           /\ Probe(table, h, {}) = SlotAt(n, h, d)
           /\ d \in 0..(n - 1)
           /\ \A e \in 0..(d - 1) : e \notin Stops(table, h, {})
  BY ProbeStops
<1>3. SlotAt(n, h, d) \in (1..n) \ Taken(table)
  BY <1>1, <1>2, SlotInTable DEF Stops, Taken
<1>4. ASSUME NEW e \in 0..(d - 1) PROVE SlotAt(n, h, e) \in Taken(table)
  <2>1. e \in 0..(n - 1)
    BY <1>2
  <2>2. SlotAt(n, h, e) \in 1..n
    BY <2>1, SlotInTable
  <2>3. QED
    BY <1>1, <1>2, <2>1, <2>2 DEF Stops, Taken
<1>5. QED
  BY <1>2, <1>3, <1>4

-----------------------------------------------------------------------------
(* Tables that are filled slot by slot.                                    *)

LEMMA TakenFinite ==
  ASSUME NEW n \in Nat, NEW table \in Tables(n)
  PROVE  /\ Taken(table) \subseteq 1..n
         /\ IsFiniteSet(Taken(table)) /\ Cardinality(Taken(table)) \in Nat
<1>1. Taken(table) \subseteq 1..n
  BY TableFacts DEF Taken
<1>2. IsFiniteSet(Taken(table))
  BY <1>1, FS_Interval, FS_Subset
<1>3. QED
  BY <1>1, <1>2, FS_CardinalityType

LEMMA FreeSlot ==
  ASSUME NEW n \in Nat, NEW table \in Tables(n), Cardinality(Taken(table)) < n
  PROVE  \E i \in 1..n : table[i].pos = NPOS
<1> SUFFICES ASSUME \A i \in 1..n : table[i].pos # NPOS PROVE FALSE
  OBVIOUS
<1>1. Taken(table) = 1..n
  BY TableFacts DEF Taken
<1>2. Cardinality(1..n) = n
  BY FS_Interval
<1>3. QED
  BY <1>1, <1>2

(* The first d steps from a hash's slot are all taken.                     *)
Walked(table, n, h, d) == \A e \in 0..(d - 1) : SlotAt(n, h, e) \in Taken(table)

(* A slot put where a probe for its hash ends keeps every probe whole.     *)
LEMMA PutKeeps ==
  ASSUME NEW n \in Nat \ {0}, NEW table \in Tables(n), Chained(table),
         NEW s \in Slot, s.pos # NPOS,
         NEW d \in 0..(n - 1), NEW i, i = SlotAt(n, s.h, d), i \in (1..n) \ Taken(table),
         Walked(table, n, s.h, d),
         NEW t \in Tables(n), t[i] = s, \A j \in (1..n) \ {i} : t[j] = table[j]
  PROVE  /\ Chained(t)
         /\ Taken(t) = Taken(table) \cup {i}
         /\ Cardinality(Taken(t)) = Cardinality(Taken(table)) + 1
<1>2. /\ DOMAIN table = 1..n /\ DOMAIN t = 1..n /\ Len(table) = n /\ Len(t) = n
  BY TableFacts
<1>3. t[i] = s /\ \A j \in 1..n : j # i => t[j] = table[j]
  OBVIOUS
<1>4. Taken(t) = Taken(table) \cup {i}
  BY <1>2, <1>3 DEF Taken
<1>5. Cardinality(Taken(t)) = Cardinality(Taken(table)) + 1
  <2>1. i \notin Taken(table) /\ IsFiniteSet(Taken(table))
    BY TakenFinite
  <2>2. Cardinality(Taken(table) \cup {i}) = Cardinality(Taken(table)) + 1
    BY ONLY <2>1, FS_AddElement
  <2>3. QED
    BY <1>4, <2>2
<1>6. ASSUME NEW j \in Taken(t)
      PROVE  \E c \in 0..(n - 1) : /\ SlotAt(n, t[j].h, c) = j
                                   /\ \A e \in 0..(c - 1) : SlotAt(n, t[j].h, e) \in Taken(t)
  <2>1. CASE j = i
    BY <1>3, <1>4, <2>1 DEF Walked
  <2>2. CASE j # i
    <3>1. j \in Taken(table) /\ t[j] = table[j]
      BY <1>3, <1>4, <2>2, TakenFinite
    <3>2. PICK c \in 0..(n - 1) :
            /\ SlotAt(n, table[j].h, c) = j
            /\ \A e \in 0..(c - 1) : SlotAt(n, table[j].h, e) \in Taken(table)
      BY <1>2, <3>1 DEF Chained
    <3>3. QED
      BY <1>4, <3>1, <3>2
  <2>3. QED
    BY <2>1, <2>2
<1>7. Chained(t)
  BY ONLY <1>2, <1>6 DEF Chained
<1>8. QED
  BY <1>4, <1>5, <1>7

LEMMA SeatKeeps ==
  ASSUME NEW n \in Nat \ {0}, NEW table \in Tables(n), Chained(table),
         NEW s \in Slot, s.pos # NPOS, \E i \in 1..n : table[i].pos = NPOS
  PROVE  /\ Seat(table, s) \in Tables(n) /\ Chained(Seat(table, s))
         /\ Cardinality(Taken(Seat(table, s))) = Cardinality(Taken(table)) + 1
         /\ \E i \in (1..n) \ Taken(table) :
              Seat(table, s) = [table EXCEPT ![i] = s] /\ Taken(Seat(table, s)) = Taken(table) \cup {i}
<1>1. s.h \in Nat
  BY DEF Slot
<1>2. PICK d \in 0..(n - 1) :
           /\ Probe(table, s.h, {}) = SlotAt(n, s.h, d)
           /\ SlotAt(n, s.h, d) \in (1..n) \ Taken(table)
           /\ \A e \in 0..(d - 1) : SlotAt(n, s.h, e) \in Taken(table)
  BY <1>1, ProbeForFree
<1>3. PICK i : i = SlotAt(n, s.h, d)
  OBVIOUS
<1>4. Seat(table, s) = [table EXCEPT ![i] = s]
  BY <1>2, <1>3 DEF Seat
<1>t. PICK t : t = [table EXCEPT ![i] = s]
  OBVIOUS
<1>5. /\ t \in Tables(n) /\ Chained(t) /\ Taken(t) = Taken(table) \cup {i}
      /\ Cardinality(Taken(t)) = Cardinality(Taken(table)) + 1
  <2>1. /\ i = SlotAt(n, s.h, d) /\ i \in (1..n) \ Taken(table)
        /\ Walked(table, n, s.h, d)
    BY <1>2, <1>3 DEF Walked
  <2>2. t \in Tables(n) /\ t[i] = s /\ \A j \in (1..n) \ {i} : t[j] = table[j]
    BY <1>t, <2>1 DEF Tables
  <2>3. QED
    BY <2>1, <2>2, PutKeeps
<1>6. i \in (1..n) \ Taken(table) /\ Seat(table, s) = t
  BY <1>2, <1>3, <1>4, <1>t
<1>7. QED
  BY <1>t, <1>5, <1>6

LEMMA EmptyTableKeeps ==
  ASSUME NEW n \in Nat
  PROVE  /\ EmptyTable(n) \in Tables(n)
         /\ Taken(EmptyTable(n)) = {} /\ Cardinality(Taken(EmptyTable(n))) = 0
         /\ Chained(EmptyTable(n))
<1>1. EmptyTable(n) \in Tables(n)
  BY DEF EmptyTable, NoSlot, NPOS, Tables, Slot
<1>2. Taken(EmptyTable(n)) = {}
  BY DEF EmptyTable, NoSlot, Taken
<1>3. QED
  BY <1>1, <1>2, FS_EmptySet DEF Chained

(* A function from 1..n to what each step does to a member of S.           *)
IsStep(step, n, S) == step \in [1..n -> [S -> S]]

(* A function that is defined by its value at 0 and its steps exists.      *)
LEMMA RecursionExists ==
  ASSUME NEW n \in Nat, NEW S, NEW a \in S, NEW step, IsStep(step, n, S)
  PROVE  \E f \in [0..n -> S] : f[0] = a /\ \A i \in 1..n : f[i] = step[i][f[i - 1]]
<1> DEFINE Upto(m) == \E f \in [0..m -> S] :
                        f[0] = a /\ \A i \in 1..m : f[i] = step[i][f[i - 1]]
           Good == {m \in Nat : m <= n => Upto(m)}
<1>1. 0 \in Good
  <2>1. [i \in 0..0 |-> a] \in [0..0 -> S] /\ [i \in 0..0 |-> a][0] = a
    OBVIOUS
  <2>2. 1..0 = {}
    OBVIOUS
  <2>3. Upto(0)
    BY <2>1, <2>2
  <2>4. QED
    BY <2>3
<1>2. ASSUME NEW m \in Nat, m \in Good PROVE m + 1 \in Good
  <2> SUFFICES ASSUME m + 1 <= n PROVE Upto(m + 1)
    OBVIOUS
  <2>1. PICK f \in [0..m -> S] : f[0] = a /\ \A i \in 1..m : f[i] = step[i][f[i - 1]]
    BY <1>2
  <2> DEFINE g == [i \in 0..(m + 1) |-> IF i = m + 1 THEN step[m + 1][f[m]] ELSE f[i]]
  <2>2. step[m + 1] \in [S -> S] /\ f[m] \in S
    BY DEF IsStep
  <2>3. step[m + 1][f[m]] \in S
    BY <2>2
  <2>4. g \in [0..(m + 1) -> S]
    BY <2>3
  <2>5. g[0] = a
    BY <2>1
  <2>6. ASSUME NEW i \in 1..(m + 1) PROVE g[i] = step[i][g[i - 1]]
    <3>1. CASE i = m + 1
      <4>1. g[i] = step[m + 1][f[m]] /\ g[i - 1] = f[m]
        BY <3>1
      <4>2. QED
        BY <3>1, <4>1
    <3>2. CASE i # m + 1
      <4>1. i \in 1..m /\ i - 1 \in 0..m /\ i - 1 # m + 1
        BY <3>2
      <4>2. g[i] = f[i] /\ g[i - 1] = f[i - 1]
        BY <3>2, <4>1
      <4>3. QED
        BY <2>1, <4>1, <4>2
    <3>3. QED
      BY <3>1, <3>2
  <2> HIDE DEF g
  <2>7. QED
    BY <2>4, <2>5, <2>6
<1>3. Nat \subseteq Good
  <2> HIDE DEF Good
  <2>1. QED
    BY <1>1, <1>2, SetInduction
<1>4. QED
  BY <1>3

(* The tables Seated goes through, one for each number of slots.           *)
LEMMA SeatedSteps ==
  ASSUME NEW n \in Nat, NEW slots \in Seq(Slot)
  PROVE  \E f : /\ Seated(slots, n) = f[Len(slots)]
                /\ f[0] = EmptyTable(n)
                /\ \A i \in 1..Len(slots) :
                     f[i] = IF slots[i].pos = NPOS THEN f[i - 1] ELSE Seat(f[i - 1], slots[i])
<1> DEFINE m == Len(slots)
           Fill(f) == [i \in 0..m |->
             IF i = 0 THEN EmptyTable(n)
             ELSE IF slots[i].pos = NPOS THEN f[i - 1]
             ELSE Seat(f[i - 1], slots[i])]
           step == [i \in 1..m |-> [t \in Tables(n) |->
             IF slots[i].pos = NPOS THEN t ELSE Seat(t, slots[i])]]
<1>1. m \in Nat /\ \A i \in 1..m : slots[i] \in Slot
  OBVIOUS
<1>2. IsStep(step, m, Tables(n))
  <2>1. ASSUME NEW i \in 1..m, NEW t \in Tables(n) PROVE Seat(t, slots[i]) \in Tables(n)
    BY <1>1 DEF Seat, Tables
  <2>2. QED
    BY <2>1 DEF IsStep
<1>3. EmptyTable(n) \in Tables(n)
  BY EmptyTableKeeps
<1>4. PICK f \in [0..m -> Tables(n)] :
        f[0] = EmptyTable(n) /\ \A i \in 1..m : f[i] = step[i][f[i - 1]]
  <2> HIDE DEF step, m
  <2>1. QED
    BY <1>1, <1>2, <1>3, RecursionExists
<1>5. ASSUME NEW i \in 1..m
      PROVE  f[i] = IF slots[i].pos = NPOS THEN f[i - 1] ELSE Seat(f[i - 1], slots[i])
  <2>1. i - 1 \in 0..m
    BY <1>1
  <2>2. f[i - 1] \in Tables(n)
    BY <2>1
  <2>3. QED
    BY <1>4, <2>2
<1>6. f = Fill(f)
  <2>1. \A i \in 0..m : f[i] = Fill(f)[i]
    BY <1>1, <1>4, <1>5
  <2>2. QED
    BY <2>1
<1> DEFINE g == CHOOSE g : g = Fill(g)
<1>7. g = Fill(g)
  BY <1>6
<1>8. Seated(slots, n) = g[m]
  BY DEF Seated
<1> HIDE DEF g
<1>9. g[0] = EmptyTable(n)
  <2>1. 0 \in 0..m
    BY <1>1
  <2>2. QED
    BY <1>7, <2>1
<1>10. ASSUME NEW i \in 1..m
       PROVE  g[i] = IF slots[i].pos = NPOS THEN g[i - 1] ELSE Seat(g[i - 1], slots[i])
  <2>1. i \in 0..m /\ i # 0
    BY <1>1
  <2>2. g[i] = Fill(g)[i]
    BY <1>7
  <2>3. QED
    BY <2>1, <2>2
<1>11. QED
  BY <1>8, <1>9, <1>10

(* The slots of a table are these, each once.                              *)
Holds(table, slots, held) ==
  /\ \A i \in Taken(table) : \E j \in held : table[i] = slots[j]
  /\ \A j \in held : \E i \in Taken(table) : table[i] = slots[j]
  /\ \A i, j \in Taken(table) : table[i].pos = table[j].pos => i = j
  /\ Cardinality(Taken(table)) = Cardinality(held)

Distinct(slots) == \A i, j \in Taken(slots) : slots[i].pos = slots[j].pos => i = j

(* Whatever the hashes, a table with more slots than are put in holds all  *)
(* of them where a probe finds them (indexGrow, rebuildIndex).             *)
LEMMA SeatedKeeps ==
  ASSUME NEW n \in Nat \ {0}, NEW slots \in Seq(Slot),
         Distinct(slots), Cardinality(Taken(slots)) < n
  PROVE  /\ Seated(slots, n) \in Tables(n) /\ Chained(Seated(slots, n))
         /\ Holds(Seated(slots, n), slots, Taken(slots))
<1> DEFINE m == Len(slots)
           Upto(i) == {j \in Taken(slots) : j <= i}
<1>1. m \in Nat /\ DOMAIN slots = 1..m /\ \A i \in 1..m : slots[i] \in Slot
  OBVIOUS
<1>2. Taken(slots) \subseteq 1..m /\ IsFiniteSet(Taken(slots))
  <2>1. Taken(slots) \subseteq 1..m
    BY <1>1 DEF Taken
  <2>2. QED
    <3> HIDE DEF m
    <3>1. IsFiniteSet(1..m)
      BY <1>1, FS_Interval
    <3>2. QED
      BY <2>1, <3>1, FS_Subset
<1>3. PICK f : /\ Seated(slots, n) = f[m]
               /\ f[0] = EmptyTable(n)
               /\ \A i \in 1..m :
                    f[i] = IF slots[i].pos = NPOS THEN f[i - 1] ELSE Seat(f[i - 1], slots[i])
  BY SeatedSteps
<1> DEFINE Good(i) == f[i] \in Tables(n) /\ Chained(f[i]) /\ Holds(f[i], slots, Upto(i))
           Reached == {i \in Nat : i <= m => Good(i)}
<1>4. 0 \in Reached
  <2>1. Upto(0) = {}
    BY <1>2
  <2>2. Cardinality(Upto(0)) = 0
    BY <2>1, FS_EmptySet
  <2>3. f[0] \in Tables(n) /\ Chained(f[0]) /\ Taken(f[0]) = {} /\ Cardinality(Taken(f[0])) = 0
    BY <1>3, EmptyTableKeeps
  <2>4. Holds(f[0], slots, Upto(0))
    BY <2>1, <2>2, <2>3 DEF Holds
  <2>5. QED
    BY <2>3, <2>4
<1>5. ASSUME NEW i \in Nat, i \in Reached PROVE i + 1 \in Reached
  <2> SUFFICES ASSUME i + 1 <= m PROVE Good(i + 1)
    OBVIOUS
  <2>1. Good(i)
    BY <1>1, <1>5
  <2>2. i + 1 \in 1..m /\ (i + 1) - 1 = i
    BY <1>1
  <2>3. CASE slots[i + 1].pos = NPOS
    <3>1. f[i + 1] = f[i]
      BY <1>3, <2>2, <2>3
    <3>2. Upto(i + 1) = Upto(i)
      BY <1>2, <2>3 DEF Taken
    <3>3. QED
      BY <2>1, <3>1, <3>2
  <2>4. CASE slots[i + 1].pos # NPOS
    <3>1. f[i + 1] = Seat(f[i], slots[i + 1])
      BY <1>3, <2>2, <2>4
    <3>2. i + 1 \in Taken(slots)
      BY <1>1, <2>2, <2>4 DEF Taken
    <3>3. Upto(i + 1) = Upto(i) \cup {i + 1} /\ i + 1 \notin Upto(i)
      BY <1>2, <3>2
    <3>4. IsFiniteSet(Upto(i)) /\ Upto(i) \subseteq Taken(slots)
      BY <1>2, FS_Subset
    <3>5. Cardinality(Upto(i)) < n
      <4>1. Cardinality(Upto(i)) <= Cardinality(Taken(slots))
        BY <1>2, <3>4, FS_Subset
      <4>2. Cardinality(Upto(i)) \in Nat /\ Cardinality(Taken(slots)) \in Nat
        BY <1>2, <3>4, FS_CardinalityType
      <4>3. QED
        BY <4>1, <4>2
    <3>6. Cardinality(Upto(i + 1)) = Cardinality(Upto(i)) + 1
      BY <3>3, <3>4, FS_AddElement
    <3>7. \E x \in 1..n : f[i][x].pos = NPOS
      <4>1. Cardinality(Taken(f[i])) < n
        BY <2>1, <3>5 DEF Holds
      <4>2. QED
        BY <2>1, <4>1, FreeSlot
    <3> DEFINE s == slots[i + 1]
               t == Seat(f[i], s)
    <3>8. s \in Slot /\ s.pos # NPOS
      BY <1>1, <2>2, <2>4
    <3>9. PICK x \in (1..n) \ Taken(f[i]) :
            t = [f[i] EXCEPT ![x] = s] /\ Taken(t) = Taken(f[i]) \cup {x}
      BY <2>1, <3>7, <3>8, SeatKeeps
    <3>10. /\ t \in Tables(n) /\ Chained(t)
           /\ Cardinality(Taken(t)) = Cardinality(Taken(f[i])) + 1
      BY <2>1, <3>7, <3>8, SeatKeeps
    <3>11. t[x] = s /\ \A y \in Taken(f[i]) : t[y] = f[i][y]
      <4>1. Taken(f[i]) \subseteq 1..n /\ DOMAIN f[i] = 1..n
        BY <2>1, TableFacts, TakenFinite
      <4>2. QED
        BY <3>9, <4>1
    <3> HIDE DEF t
    <3>12. Holds(t, slots, Upto(i + 1))
      <4>1. ASSUME NEW y \in Taken(t) PROVE \E j \in Upto(i + 1) : t[y] = slots[j]
        BY <2>1, <3>3, <3>9, <3>11 DEF Holds
      <4>2. ASSUME NEW j \in Upto(i + 1) PROVE \E y \in Taken(t) : t[y] = slots[j]
        BY <2>1, <3>3, <3>9, <3>11 DEF Holds
      <4>3. ASSUME NEW y \in Taken(f[i]) PROVE t[y].pos # t[x].pos
        <5>1. PICK j \in Upto(i) : t[y] = slots[j]
          BY <2>1, <3>11 DEF Holds
        <5>2. j \in Taken(slots) /\ j # i + 1
          BY <3>3, <5>1
        <5>3. QED
          BY <3>2, <3>11, <5>1, <5>2 DEF Distinct
      <4>4. ASSUME NEW y \in Taken(t), NEW z \in Taken(t), t[y].pos = t[z].pos PROVE y = z
        <5>1. CASE y = x \/ z = x
          BY <3>9, <4>3, <4>4, <5>1
        <5>2. CASE y # x /\ z # x
          BY <2>1, <3>9, <3>11, <4>4, <5>2 DEF Holds
        <5>3. QED
          BY <5>1, <5>2
      <4>5. Cardinality(Taken(t)) = Cardinality(Upto(i + 1))
        BY <2>1, <3>6, <3>10 DEF Holds
      <4>6. QED
        BY <4>1, <4>2, <4>4, <4>5 DEF Holds
    <3>13. QED
      BY <3>1, <3>10, <3>12 DEF t
  <2>5. QED
    BY <2>3, <2>4
<1>6. Nat \subseteq Reached
  <2> HIDE DEF Reached
  <2>1. QED
    BY <1>4, <1>5, SetInduction
<1>7. Good(m)
  <2> HIDE DEF Good, m
  <2>1. m \in Reached /\ m <= m
    BY <1>1, <1>6
  <2>2. QED
    BY <2>1
<1>8. Upto(m) = Taken(slots)
  BY <1>1, <1>2
<1>9. QED
  BY <1>3, <1>7, <1>8

(* rebuildIndex doubles the capacity until the entries fill less than 70 % *)
(* of it.                                                                  *)
LEMMA RebuiltCapacityIsEnough ==
  ASSUME NEW n \in Nat
  PROVE  /\ RebuiltCapacity(n) \in Nat /\ RebuiltCapacity(n) >= FirstCapacity
         /\ n * 10 < RebuiltCapacity(n) * 7
<1> DEFINE need == (n * 10) \div 7 + 1
           Double(f) == [e \in 0..need |-> IF e = 0 THEN FirstCapacity ELSE 2 * f[e - 1]]
           step == [e \in 1..need |-> [c \in Nat |-> 2 * c]]
<1>1. need \in Nat /\ need * 7 > n * 10
  OBVIOUS
<1>2. FirstCapacity \in Nat /\ FirstCapacity > 1
  BY CapacityAssumption
<1> HIDE DEF need
<1>3. IsStep(step, need, Nat)
  BY DEF IsStep
<1>4. PICK f \in [0..need -> Nat] :
        f[0] = FirstCapacity /\ \A e \in 1..need : f[e] = step[e][f[e - 1]]
  <2> HIDE DEF step
  <2>1. PICK S : S = Nat
    OBVIOUS
  <2>2. IsStep(step, need, S) /\ FirstCapacity \in S
    BY <1>2, <1>3, <2>1
  <2>3. \E f \in [0..need -> S] :
          f[0] = FirstCapacity /\ \A e \in 1..need : f[e] = step[e][f[e - 1]]
    BY <1>1, <2>2, RecursionExists
  <2>4. QED
    BY <2>1, <2>3
<1>5. ASSUME NEW e \in 1..need PROVE f[e] = 2 * f[e - 1]
  <2>1. f[e - 1] \in Nat
    BY <1>1
  <2>2. QED
    BY <1>4, <2>1
<1>6. f = Double(f)
  <2>1. \A e \in 0..need : f[e] = Double(f)[e]
    BY <1>1, <1>4, <1>5
  <2>2. QED
    BY <2>1
<1> DEFINE g == CHOOSE g : g = Double(g)
<1>7. g = Double(g)
  BY <1>6
<1> HIDE DEF g
<1>8. g[0] = FirstCapacity
  BY <1>1, <1>7
<1>9. ASSUME NEW e \in 1..need PROVE g[e] = 2 * g[e - 1]
  <2>1. e \in 0..need /\ e # 0
    BY <1>1
  <2>2. g[e] = Double(g)[e]
    BY <1>7
  <2>3. QED
    BY <2>1, <2>2
<1> DEFINE Good(e) == g[e] \in Nat /\ g[e] > e /\ g[e] >= FirstCapacity
           Reached == {e \in Nat : e <= need => Good(e)}
<1>10. Nat \subseteq Reached
  <2>1. 0 \in Reached
    BY <1>2, <1>8
  <2>2. ASSUME NEW e \in Nat, e \in Reached PROVE e + 1 \in Reached
    <3> SUFFICES ASSUME e + 1 <= need PROVE Good(e + 1)
      OBVIOUS
    <3>1. Good(e) /\ e + 1 \in 1..need /\ (e + 1) - 1 = e
      BY <1>1, <2>2
    <3>2. g[e + 1] = 2 * g[e]
      BY <1>9, <3>1
    <3>3. QED
      BY <1>2, <3>1, <3>2
  <2> HIDE DEF Reached
  <2>3. QED
    BY <2>1, <2>2, SetInduction
<1> DEFINE enough == {e \in 0..need : g[e] >= need}
<1>11. enough \in SUBSET Nat /\ need \in enough
  <2>1. Good(need)
    BY <1>1, <1>10
  <2>2. QED
    BY <1>1, <2>1
<1>12. PICK least \in enough : \A e \in enough : least <= e
  BY <1>11, LeastNatural
<1> DEFINE first == CHOOSE e \in enough : \A d \in enough : e <= d
<1>13. first \in enough
  BY <1>12
<1>14. RebuiltCapacity(n) = g[first]
  BY DEF RebuiltCapacity, need, g
<1> HIDE DEF first
<1>15. Good(first) /\ g[first] >= need
  <2>1. first \in Nat /\ first <= need /\ g[first] >= need
    BY <1>1, <1>13
  <2>2. QED
    BY <1>10, <2>1
<1>16. QED
  <2> HIDE DEF Reached, enough
  <2>1. PICK c \in Nat : c = g[first]
    BY <1>15
  <2>2. QED
    BY <1>1, <1>14, <1>15, <2>1

-----------------------------------------------------------------------------
(* Probes for keys.                                                        *)

Entry == [key : Keys \cup Bools, val : Vals]
UniqueKeys(es) == \A p, q \in DOMAIN es : es[p].key = es[q].key => p = q

LEMMA EntriesFacts ==
  ASSUME TypeOK
  PROVE  /\ entries \in Seq(Entry) /\ UniqueKeys(entries)
         /\ Len(entries) \in Nat /\ DOMAIN entries = 1..Len(entries)
<1>1. entries \in Seq(Entry)
  BY DEF TypeOK, Entry
<1>2. Len(entries) \in Nat /\ DOMAIN entries = 1..Len(entries)
  BY <1>1
<1>3. UniqueKeys(entries)
  BY <1>2 DEF TypeOK, UniqueKeys
<1>4. QED
  BY <1>1, <1>2, <1>3

LEMMA IndexFacts ==
  ASSUME TypeOK
  PROVE  /\ Len(index) \in Nat /\ index \in Tables(Len(index)) /\ index \in Seq(Slot)
         /\ index = << >> <=> Len(index) = 0
<1>1. Len(entries) \in Nat
  BY EntriesFacts
<1>2. index \in Seq([h : Nat, pos : 0..Len(entries)])
  BY DEF TypeOK
<1>3. /\ Len(index) \in Nat /\ DOMAIN index = 1..Len(index)
      /\ index = << >> <=> Len(index) = 0
      /\ \A i \in DOMAIN index : index[i] \in [h : Nat, pos : 0..Len(entries)]
  <2>1. PICK D : D = [h : Nat, pos : 0..Len(entries)]
    OBVIOUS
  <2>2. index \in Seq(D)
    BY <1>2, <2>1
  <2>3. QED
    BY <2>1, <2>2, SequenceFacts
<1>4. [h : Nat, pos : 0..Len(entries)] \subseteq Slot
  BY <1>1 DEF Slot
<1>5. \A i \in 1..Len(index) : index[i] \in Slot
  BY <1>3, <1>4
<1>6. index = [i \in 1..Len(index) |-> index[i]]
  BY <1>2, <1>3
<1>7. index \in Tables(Len(index))
  BY <1>5, <1>6 DEF Tables
<1>8. QED
  BY <1>3, <1>7, TableFacts

(* A probe for a key ends at its slot if it has one, and else at the free  *)
(* slot where it will be put.                                              *)
LEMMA ProbeForKey ==
  ASSUME TypeOK, NEW n \in Nat \ {0}, NEW table \in Tables(n), Chained(table),
         Indexes(table, entries), Cardinality(Taken(table)) < n,
         NEW k \in Keys
  PROVE  \E d \in 0..(n - 1) :
           /\ ProbeSlot(table, k) = SlotAt(n, Hash[k], d)
           /\ SlotAt(n, Hash[k], d) \in 1..n
           /\ \/ /\ PlacesOf(k) = {} /\ table[SlotAt(n, Hash[k], d)].pos = NPOS
                 /\ \A e \in 0..(d - 1) : SlotAt(n, Hash[k], e) \in Taken(table)
              \/ PlacesOf(k) = {table[SlotAt(n, Hash[k], d)].pos}
<1> DEFINE h == Hash[k]
           stops == Stops(table, h, PlacesOf(k))
<1>1. h \in Nat
  BY HashAssumption
<1>2. Len(table) = n /\ DOMAIN table = 1..n
  BY TableFacts
<1>3. \E i \in 1..n : table[i].pos = NPOS
  BY FreeSlot
<1> HIDE DEF h
<1>4. PICK d \in stops : /\ Probe(table, h, PlacesOf(k)) = SlotAt(n, h, d)
                         /\ d \in 0..(n - 1)
                         /\ \A e \in 0..(d - 1) : e \notin stops
  BY <1>1, <1>3, ProbeStops
<1>5. ProbeSlot(table, k) = SlotAt(n, h, d)
  BY <1>4 DEF ProbeSlot, h
<1>6. \A e \in 0..(n - 1) : SlotAt(n, h, e) \in 1..n
  BY <1>1, SlotInTable
<1>7. ASSUME NEW e \in 0..(d - 1) PROVE SlotAt(n, h, e) \in Taken(table)
  <2>1. e \in 0..(n - 1) /\ e \notin stops
    BY <1>4
  <2>2. QED
    BY <1>2, <1>6, <2>1 DEF Stops, Taken
<1>8. \A p, q \in PlacesOf(k) : p = q
  BY EntriesFacts DEF PlacesOf, UniqueKeys
<1> DEFINE i == SlotAt(n, h, d)
<1>9. i \in 1..n
  BY <1>4, <1>6
<1>10. CASE PlacesOf(k) = {}
  <2>1. table[i].pos = NPOS
    BY <1>2, <1>4, <1>10 DEF Stops
  <2>2. QED
    BY <1>4, <1>5, <1>7, <1>9, <1>10, <2>1 DEF h
<1>11. CASE PlacesOf(k) # {}
  <2>1. PICK p : p \in PlacesOf(k)
    BY <1>11
  <2>2. p \in HashedPlaces(entries) /\ entries[p].key = k
    BY <2>1 DEF PlacesOf, HashedPlaces
  <2>3. PICK j \in Taken(table) : table[j].pos = p
    BY <2>2 DEF Indexes
  <2>4. table[j].h = h
    BY <2>2, <2>3 DEF Indexes, h
  <2>5. PICK c \in 0..(n - 1) :
          SlotAt(n, h, c) = j /\ \A e \in 0..(c - 1) : SlotAt(n, h, e) \in Taken(table)
    BY <1>2, <2>4 DEF Chained
  <2>6. c \in stops
    BY <1>2, <2>1, <2>3, <2>4, <2>5 DEF Stops
  <2>7. d <= c
    BY <1>4, <2>5, <2>6
  <2>8. i \in Taken(table)
    <3>1. CASE d = c
      BY <2>5, <3>1
    <3>2. CASE d < c
      BY <1>4, <2>5, <3>2
    <3>3. QED
      BY <1>4, <2>5, <2>7, <3>1, <3>2
  <2>9. table[i].pos \in PlacesOf(k)
    BY <1>2, <1>4, <2>8 DEF Stops, Taken
  <2>10. PlacesOf(k) = {table[i].pos}
    BY <1>8, <2>9
  <2>11. QED
    BY <1>4, <1>5, <1>9, <2>10 DEF h
<1>12. QED
  BY <1>10, <1>11

LEMMA FindFacts ==
  ASSUME IInv, NEW k \in Keys \cup Bools
  PROVE  \/ Find(k) = NPOS /\ PlacesOf(k) = {}
         \/ Find(k) # NPOS /\ PlacesOf(k) = {Find(k)}
<1>1. TypeOK /\ Chained(index) /\ Indexes(index, entries)
  BY DEF IInv
<1>2. CASE k \in Bools
  <2>1. Find(k) = boolIndex[k]
    BY <1>2 DEF Find
  <2>2. QED
    BY <1>2, <2>1 DEF IInv, BoolsInv
<1>3. CASE k \in Keys /\ index = << >>
  <2>1. Taken(index) = {} /\ k \notin Bools
    BY <1>3, KeysAssumption DEF Taken
  <2>2. HashedPlaces(entries) = {}
    BY <1>1, <2>1 DEF Indexes
  <2>3. PlacesOf(k) = {}
    BY <1>3, <2>2 DEF PlacesOf, HashedPlaces
  <2>4. Find(k) = NPOS
    BY <1>3, <2>1 DEF Find
  <2>5. QED
    BY <2>3, <2>4
<1>4. CASE k \in Keys /\ index # << >>
  <2>1. k \in Keys /\ k \notin Bools
    BY <1>4, KeysAssumption
  <2>2. PICK n \in Nat \ {0} : n = Len(index)
    BY <1>1, <1>4, IndexFacts
  <2>3. index \in Tables(n)
    BY <1>1, <2>2, IndexFacts
  <2>4. Cardinality(Taken(index)) \in Nat
    BY <2>3, TakenFinite
  <2>5. Cardinality(Taken(index)) < n
    BY <1>4, <2>2, <2>4 DEF IInv, LoadIsKept
  <2>6. PICK d \in 0..(n - 1) :
           /\ ProbeSlot(index, k) = SlotAt(n, Hash[k], d)
           /\ \/ PlacesOf(k) = {} /\ index[SlotAt(n, Hash[k], d)].pos = NPOS
              \/ PlacesOf(k) = {index[SlotAt(n, Hash[k], d)].pos}
    BY <1>1, <2>1, <2>3, <2>5, ProbeForKey
  <2>7. Find(k) = index[ProbeSlot(index, k)].pos
    BY <1>4, <2>1 DEF Find
  <2>8. \A p \in PlacesOf(k) : p # NPOS
    <3>1. \A p \in DOMAIN entries : p # 0
      BY <1>1, EntriesFacts
    <3>2. QED
      BY <3>1 DEF PlacesOf, NPOS
  <2>9. QED
    BY <2>6, <2>7, <2>8
<1>5. QED
  BY <1>2, <1>3, <1>4

(* A slot of the same hash and position, in another table.                 *)
LEMMA HoldsIndexes ==
  ASSUME NEW n \in Nat, NEW m \in Nat, NEW t \in Tables(n), NEW slots \in Tables(m),
         Holds(t, slots, Taken(slots)), NEW es,
         \A i \in Taken(slots) : /\ slots[i].pos \in HashedPlaces(es)
                                 /\ slots[i].h = Hash[es[slots[i].pos].key],
         \A p \in HashedPlaces(es) : \E i \in Taken(slots) : slots[i].pos = p
  PROVE  Indexes(t, es)
<1>1. ASSUME NEW i \in Taken(t)
      PROVE  t[i].pos \in HashedPlaces(es) /\ t[i].h = Hash[es[t[i].pos].key]
  BY DEF Holds
<1>2. ASSUME NEW p \in HashedPlaces(es) PROVE \E i \in Taken(t) : t[i].pos = p
  <2>1. PICK j \in Taken(slots) : slots[j].pos = p
    OBVIOUS
  <2>2. PICK i \in Taken(t) : t[i] = slots[j]
    BY DEF Holds
  <2>3. QED
    BY <2>1, <2>2
<1>3. QED
  BY <1>1, <1>2 DEF Holds, Indexes

(* Before a key is put its table has room for it (set).                    *)
LEMMA RoomFacts ==
  ASSUME IInv
  PROVE  \E n \in Nat \ {0} :
           /\ IndexWithRoom \in Tables(n) /\ n >= FirstCapacity
           /\ Chained(IndexWithRoom) /\ Indexes(IndexWithRoom, entries)
           /\ indexUsed \in Nat /\ Cardinality(Taken(IndexWithRoom)) = indexUsed
           /\ (indexUsed + 1) * 10 < n * 7
<1>1. TypeOK /\ Chained(index) /\ Indexes(index, entries) /\ LoadIsKept /\ SizeInv
  BY DEF IInv
<1>2. PICK m \in Nat : m = Len(index)
  BY <1>1, IndexFacts
<1>3. index \in Tables(m) /\ index \in Seq(Slot) /\ (index = << >> <=> m = 0)
  BY <1>1, <1>2, IndexFacts
<1>4. PICK c \in Nat : c = FirstCapacity /\ c > 1
  BY CapacityAssumption
<1>5. PICK u \in Nat : u = indexUsed /\ u = Cardinality(Taken(index))
  BY <1>1 DEF TypeOK, LoadIsKept
<1>6. m # 0 => m >= c /\ u * 10 < m * 7
  BY <1>1, <1>2, <1>3, <1>4, <1>5 DEF LoadIsKept, SizeInv
<1>7. CASE ~IndexWantsGrow
  <2>1. IndexWithRoom = index
    BY <1>7 DEF IndexWithRoom
  <2>2. ~((u + 1) * 10 >= m * 7)
    BY <1>2, <1>5, <1>7 DEF IndexWantsGrow
  <2>3. m # 0 /\ (u + 1) * 10 < m * 7
    BY <2>2
  <2>4. QED
    BY <1>1, <1>3, <1>4, <1>5, <1>6, <2>1, <2>3
<1>8. CASE IndexWantsGrow
  <2>1. PICK n \in Nat \ {0} : n = IF index = << >> THEN c ELSE 2 * m
    BY <1>3, <1>4
  <2>2. IndexWithRoom = Seated(index, n)
    BY <1>2, <1>4, <1>8, <2>1 DEF IndexWithRoom, Grown
  <2>3. m = 0 => u = 0
    <3>1. Taken(index) \subseteq 1..m
      BY <1>3, TakenFinite
    <3>2. m = 0 => Taken(index) = {}
      BY <3>1
    <3>3. QED
      BY <1>5, <3>2, FS_EmptySet
  <2>4. n >= c /\ u < n /\ (u + 1) * 10 < n * 7
    <3>1. CASE m = 0
      BY <1>3, <1>4, <2>1, <2>3, <3>1
    <3>2. CASE m # 0
      <4>1. n = 2 * m /\ m >= c /\ u * 10 < m * 7
        BY <1>3, <1>6, <2>1, <3>2
      <4>2. QED
        BY <1>4, <4>1
    <3>3. QED
      BY <3>1, <3>2
  <2>5. Distinct(index)
    BY <1>1 DEF Indexes, Distinct
  <2> DEFINE t == Seated(index, n)
  <2>6. t \in Tables(n) /\ Chained(t) /\ Holds(t, index, Taken(index))
    BY <1>3, <1>5, <2>4, <2>5, SeatedKeeps
  <2> HIDE DEF t
  <2>7. Indexes(t, entries)
    BY <1>1, <1>3, <2>6, HoldsIndexes DEF Indexes
  <2>8. Cardinality(Taken(t)) = u
    BY <1>5, <2>6 DEF Holds
  <2>9. QED
    BY <1>4, <1>5, <2>2, <2>4, <2>6, <2>7, <2>8 DEF t
<1>9. QED
  BY <1>7, <1>8

-----------------------------------------------------------------------------
(* The invariant, of any values of the members.                            *)

BoolsIndexed(bs, es) ==
  \A b \in Bools : IF bs[b] = NPOS THEN \A p \in DOMAIN es : es[p].key # b
                   ELSE bs[b] \in DOMAIN es /\ es[bs[b]].key = b

Sized(t, u) == t # << >> => Len(t) >= FirstCapacity /\ u * 10 < Len(t) * 7

MapInv(es, t, u, bs) ==
  /\ es \in Seq(Entry) /\ UniqueKeys(es)
  /\ t \in Seq(Slot) /\ Chained(t) /\ Indexes(t, es)
  /\ u = Cardinality(Taken(t)) /\ Sized(t, u)
  /\ bs \in [Bools -> Nat] /\ BoolsIndexed(bs, es)

LEMMA InvGivesMapInv == IInv => MapInv(entries, index, indexUsed, boolIndex)
<1> SUFFICES ASSUME IInv PROVE MapInv(entries, index, indexUsed, boolIndex)
  OBVIOUS
<1>1. TypeOK /\ LoadIsKept /\ SizeInv /\ Chained(index) /\ Indexes(index, entries) /\ BoolsInv
  BY DEF IInv
<1>2. entries \in Seq(Entry) /\ UniqueKeys(entries) /\ Len(entries) \in Nat
  BY <1>1, EntriesFacts
<1>3. index \in Seq(Slot)
  BY <1>1, IndexFacts
<1>4. indexUsed = Cardinality(Taken(index)) /\ Sized(index, indexUsed)
  BY <1>1 DEF LoadIsKept, SizeInv, Sized
<1>5. boolIndex \in [Bools -> Nat]
  BY <1>1, <1>2 DEF TypeOK
<1>6. BoolsIndexed(boolIndex, entries)
  <2>1. ASSUME NEW b \in Bools
        PROVE  IF boolIndex[b] = NPOS THEN \A p \in DOMAIN entries : entries[p].key # b
               ELSE boolIndex[b] \in DOMAIN entries /\ entries[boolIndex[b]].key = b
    <3>1. IF boolIndex[b] = NPOS THEN PlacesOf(b) = {} ELSE PlacesOf(b) = {boolIndex[b]}
      BY <1>1 DEF BoolsInv
    <3>2. CASE boolIndex[b] = NPOS
      BY <3>1, <3>2 DEF PlacesOf
    <3>3. CASE boolIndex[b] # NPOS
      <4>1. boolIndex[b] \in PlacesOf(b)
        BY <3>1, <3>3
      <4>2. QED
        BY <3>3, <4>1 DEF PlacesOf
    <3>4. QED
      BY <3>2, <3>3
  <2>2. QED
    BY <2>1 DEF BoolsIndexed
<1>7. QED
  BY <1>1, <1>2, <1>3, <1>4, <1>5, <1>6 DEF MapInv

LEMMA MapInvGivesInv == MapInv(entries, index, indexUsed, boolIndex) => IInv
<1> SUFFICES ASSUME MapInv(entries, index, indexUsed, boolIndex) PROVE IInv
  OBVIOUS
<1>1. entries \in Seq(Entry) /\ UniqueKeys(entries)
  BY DEF MapInv
<1>2. Len(entries) \in Nat /\ DOMAIN entries = 1..Len(entries)
  BY <1>1, SequenceFacts
<1>3. /\ index \in Seq(Slot) /\ Chained(index) /\ Indexes(index, entries)
      /\ indexUsed = Cardinality(Taken(index)) /\ Sized(index, indexUsed)
  BY DEF MapInv
<1>4. PICK n \in Nat : n = Len(index) /\ DOMAIN index = 1..n
  BY <1>3, SequenceFacts
<1>5. boolIndex \in [Bools -> Nat] /\ BoolsIndexed(boolIndex, entries)
  BY DEF MapInv
<1>6. index \in Seq([h : Nat, pos : 0..Len(entries)])
  <2>1. ASSUME NEW i \in 1..n PROVE index[i] \in [h : Nat, pos : 0..Len(entries)]
    <3>1. index[i] \in Slot
      BY <1>3, <1>4, SequenceFacts
    <3>2. index[i].pos \in 0..Len(entries)
      <4>1. CASE i \in Taken(index)
        <5>1. index[i].pos \in DOMAIN entries
          BY <1>3, <4>1 DEF Indexes, HashedPlaces
        <5>2. QED
          BY <1>2, <5>1
      <4>2. CASE i \notin Taken(index)
        BY <1>2, <1>4, <4>2 DEF Taken, NPOS
      <4>3. QED
        BY <4>1, <4>2
    <3>3. QED
      BY <3>1, <3>2 DEF Slot
  <2>2. index = [i \in 1..n |-> index[i]]
    BY <1>3, <1>4
  <2>3. PICK D : D = [h : Nat, pos : 0..Len(entries)]
    OBVIOUS
  <2>4. index \in [1..n -> D]
    BY <2>1, <2>2, <2>3
  <2>5. index \in Seq(D)
    BY <2>4, SeqDef
  <2>6. QED
    BY <2>3, <2>5
<1>7. indexUsed \in Nat
  <2>1. index = [i \in 1..n |-> index[i]] /\ \A i \in 1..n : index[i] \in Slot
    BY <1>3, <1>4
  <2>2. index \in Tables(n)
    BY <2>1 DEF Tables
  <2>3. QED
    BY <1>3, <2>2, TakenFinite
<1>8. boolIndex \in [Bools -> 0..Len(entries)]
  <2>1. ASSUME NEW b \in Bools PROVE boolIndex[b] \in 0..Len(entries)
    BY <1>2, <1>5 DEF BoolsIndexed, NPOS
  <2>2. QED
    BY <1>5, <2>1
<1>9. TypeOK
  BY <1>1, <1>2, <1>6, <1>7, <1>8 DEF TypeOK, Entry, UniqueKeys
<1>10. LoadIsKept /\ SizeInv
  BY <1>3 DEF LoadIsKept, SizeInv, Sized
<1>11. BoolsInv
  <2>1. ASSUME NEW b \in Bools
        PROVE  IF boolIndex[b] = NPOS THEN PlacesOf(b) = {} ELSE PlacesOf(b) = {boolIndex[b]}
    <3>1. CASE boolIndex[b] = NPOS
      BY <1>5, <3>1 DEF BoolsIndexed, PlacesOf
    <3>2. CASE boolIndex[b] # NPOS
      <4>1. boolIndex[b] \in PlacesOf(b)
        BY <1>5, <3>2 DEF BoolsIndexed, PlacesOf
      <4>2. \A p \in PlacesOf(b) : p = boolIndex[b]
        BY <1>1, <4>1 DEF PlacesOf, UniqueKeys
      <4>3. QED
        BY <3>2, <4>1, <4>2
    <3>3. QED
      BY <3>1, <3>2
  <2>2. QED
    BY <2>1 DEF BoolsInv
<1>12. QED
  BY <1>3, <1>9, <1>10, <1>11 DEF IInv

(* The empty map: the first one, and what clear leaves.                    *)
LEMMA EmptyMap == MapInv(<< >>, << >>, 0, NoBools)
<1>1. Taken(<< >>) = {} /\ HashedPlaces(<< >>) = {}
  BY DEF Taken, HashedPlaces
<1>2. Cardinality(Taken(<< >>)) = 0
  BY <1>1, FS_EmptySet
<1>3. Chained(<< >>) /\ Indexes(<< >>, << >>) /\ Sized(<< >>, 0) /\ UniqueKeys(<< >>)
  BY <1>1 DEF Chained, Indexes, Sized, UniqueKeys
<1>4. NoBools \in [Bools -> Nat] /\ BoolsIndexed(NoBools, << >>)
  BY DEF NoBools, NPOS, BoolsIndexed
<1>5. << >> \in Seq(Entry) /\ << >> \in Seq(Slot)
  OBVIOUS
<1>6. QED
  BY <1>2, <1>3, <1>4, <1>5 DEF MapInv

-----------------------------------------------------------------------------
(* What the calls do to it.                                                *)

LEMMA MapFacts ==
  ASSUME NEW es, NEW t, NEW u, NEW bs, MapInv(es, t, u, bs)
  PROVE  /\ es \in Seq(Entry) /\ UniqueKeys(es)
         /\ Len(es) \in Nat /\ DOMAIN es = 1..Len(es) /\ \A p \in DOMAIN es : es[p] \in Entry
         /\ t \in Seq(Slot) /\ Len(t) \in Nat /\ t \in Tables(Len(t))
         /\ Chained(t) /\ Indexes(t, es) /\ u = Cardinality(Taken(t)) /\ u \in Nat
         /\ Sized(t, u) /\ bs \in [Bools -> Nat] /\ BoolsIndexed(bs, es)
<1>1. /\ es \in Seq(Entry) /\ UniqueKeys(es) /\ t \in Seq(Slot)
      /\ Chained(t) /\ Indexes(t, es) /\ u = Cardinality(Taken(t))
      /\ Sized(t, u) /\ bs \in [Bools -> Nat] /\ BoolsIndexed(bs, es)
  BY DEF MapInv
<1>2. Len(es) \in Nat /\ DOMAIN es = 1..Len(es) /\ \A p \in DOMAIN es : es[p] \in Entry
  BY <1>1, SequenceFacts
<1>3. PICK n \in Nat : n = Len(t) /\ DOMAIN t = 1..n
  BY <1>1, SequenceFacts
<1>4. t = [i \in 1..n |-> t[i]] /\ \A i \in 1..n : t[i] \in Slot
  BY <1>1, <1>3
<1>5. t \in Tables(n)
  BY <1>4 DEF Tables
<1>6. u \in Nat
  BY <1>1, <1>5, TakenFinite
<1>7. QED
  BY <1>1, <1>2, <1>3, <1>5, <1>6

(* A new value for a key that is there.                                    *)
LEMMA ValueKeeps ==
  ASSUME NEW es, NEW t, NEW u, NEW bs, MapInv(es, t, u, bs),
         NEW p \in DOMAIN es, NEW v \in Vals
  PROVE  MapInv([es EXCEPT ![p].val = v], t, u, bs)
<1>1. /\ es \in Seq(Entry) /\ UniqueKeys(es)
      /\ Len(es) \in Nat /\ DOMAIN es = 1..Len(es) /\ \A q \in DOMAIN es : es[q] \in Entry
      /\ t \in Seq(Slot) /\ Chained(t) /\ Indexes(t, es) /\ u = Cardinality(Taken(t))
      /\ Sized(t, u) /\ bs \in [Bools -> Nat] /\ BoolsIndexed(bs, es)
  BY MapFacts
<1> DEFINE fs == [es EXCEPT ![p].val = v]
<1>2. PICK e : e = [es[p] EXCEPT !.val = v]
  OBVIOUS
<1>3. e \in Entry /\ e.key = es[p].key
  BY <1>1, <1>2 DEF Entry
<1>4. fs = [es EXCEPT ![p] = e]
  BY <1>2
<1> HIDE DEF fs
<1>5. fs \in Seq(Entry)
  BY <1>1, <1>3, <1>4
<1>6. DOMAIN fs = DOMAIN es /\ \A q \in DOMAIN es : fs[q].key = es[q].key
  BY <1>3, <1>4
<1>7. UniqueKeys(fs) /\ HashedPlaces(fs) = HashedPlaces(es) /\ BoolsIndexed(bs, fs)
  <2>1. UniqueKeys(fs)
    BY <1>1, <1>6 DEF UniqueKeys
  <2>2. HashedPlaces(fs) = HashedPlaces(es)
    BY <1>6 DEF HashedPlaces
  <2>3. BoolsIndexed(bs, fs)
    BY <1>1, <1>6 DEF BoolsIndexed
  <2>4. QED
    BY <2>1, <2>2, <2>3
<1>8. Indexes(t, fs)
  <2>1. \A q \in HashedPlaces(es) : fs[q].key = es[q].key
    BY <1>6 DEF HashedPlaces
  <2>2. QED
    BY <1>1, <1>7, <2>1 DEF Indexes
<1>9. QED
  BY <1>1, <1>5, <1>7, <1>8 DEF MapInv, fs

(* A new entry at the end.                                                 *)
LEMMA AppendFacts ==
  ASSUME NEW es \in Seq(Entry), UniqueKeys(es), NEW e \in Entry,
         \A q \in DOMAIN es : es[q].key # e.key
  PROVE  /\ Append(es, e) \in Seq(Entry) /\ UniqueKeys(Append(es, e))
         /\ DOMAIN Append(es, e) = DOMAIN es \cup {Len(es) + 1}
         /\ Len(es) + 1 \notin DOMAIN es /\ Len(es) + 1 \in Nat /\ Len(es) + 1 # NPOS
         /\ Append(es, e)[Len(es) + 1] = e
         /\ \A q \in DOMAIN es : Append(es, e)[q] = es[q]
<1> DEFINE fs == Append(es, e)
<1>1. PICK n \in Nat : n = Len(es) /\ DOMAIN es = 1..n
  BY SequenceFacts
<1>2. fs \in Seq(Entry) /\ Len(fs) = n + 1
  BY <1>1
<1>3. fs[n + 1] = e /\ \A q \in 1..n : fs[q] = es[q]
  BY <1>1
<1> HIDE DEF fs
<1>4. DOMAIN fs = (1..n) \cup {n + 1}
  BY <1>2, SequenceFacts
<1>5. UniqueKeys(fs)
  BY <1>1, <1>3, <1>4 DEF UniqueKeys
<1>6. n + 1 \notin 1..n /\ n + 1 \in Nat /\ n + 1 # NPOS
  BY DEF NPOS
<1>7. QED
  BY <1>1, <1>2, <1>3, <1>4, <1>5, <1>6 DEF fs

LEMMA AppendBool ==
  ASSUME NEW es, NEW t, NEW u, NEW bs, MapInv(es, t, u, bs),
         NEW b \in Bools, bs[b] = NPOS, NEW v \in Vals
  PROVE  MapInv(Append(es, [key |-> b, val |-> v]), t, u, [bs EXCEPT ![b] = Len(es) + 1])
<1>1. /\ es \in Seq(Entry) /\ UniqueKeys(es)
      /\ t \in Seq(Slot) /\ Chained(t) /\ Indexes(t, es) /\ u = Cardinality(Taken(t))
      /\ Sized(t, u) /\ bs \in [Bools -> Nat] /\ BoolsIndexed(bs, es)
  BY MapFacts
<1>2. PICK e : e = [key |-> b, val |-> v]
  OBVIOUS
<1>3. e \in Entry /\ e.key = b /\ e.key \notin Keys
  BY <1>2, KeysAssumption DEF Entry
<1>4. \A q \in DOMAIN es : es[q].key # e.key
  BY <1>1, <1>3 DEF BoolsIndexed
<1> DEFINE fs == Append(es, e)
           n == Len(es) + 1
           cs == [bs EXCEPT ![b] = n]
<1>5. /\ fs \in Seq(Entry) /\ UniqueKeys(fs) /\ DOMAIN fs = DOMAIN es \cup {n}
      /\ n \notin DOMAIN es /\ n \in Nat /\ n # NPOS
      /\ fs[n] = e /\ \A q \in DOMAIN es : fs[q] = es[q]
  BY <1>1, <1>3, <1>4, AppendFacts
<1> HIDE DEF fs, n
<1>6. HashedPlaces(fs) = HashedPlaces(es)
  BY <1>3, <1>5 DEF HashedPlaces
<1>7. Indexes(t, fs)
  <2>1. \A q \in HashedPlaces(es) : fs[q] = es[q]
    BY <1>5 DEF HashedPlaces
  <2>2. QED
    BY <1>1, <1>6, <2>1 DEF Indexes
<1>8. cs \in [Bools -> Nat] /\ cs[b] = n /\ \A c \in Bools \ {b} : cs[c] = bs[c]
  BY <1>1, <1>5
<1> HIDE DEF cs
<1>9. BoolsIndexed(cs, fs)
  <2>1. ASSUME NEW c \in Bools
        PROVE  IF cs[c] = NPOS THEN \A p \in DOMAIN fs : fs[p].key # c
               ELSE cs[c] \in DOMAIN fs /\ fs[cs[c]].key = c
    <3>1. CASE c = b
      BY <1>3, <1>5, <1>8, <3>1
    <3>2. CASE c # b
      <4>1. cs[c] = bs[c] /\ e.key # c
        BY <1>3, <1>8, <3>2
      <4>2. CASE bs[c] = NPOS
        BY <1>1, <1>5, <4>1, <4>2 DEF BoolsIndexed
      <4>3. CASE bs[c] # NPOS
        BY <1>1, <1>5, <4>1, <4>3 DEF BoolsIndexed
      <4>4. QED
        BY <4>2, <4>3
    <3>3. QED
      BY <3>1, <3>2
  <2>2. QED
    BY <2>1 DEF BoolsIndexed
<1>10. MapInv(fs, t, u, cs)
  BY <1>1, <1>5, <1>7, <1>8, <1>9 DEF MapInv
<1>11. QED
  BY <1>2, <1>10 DEF fs, cs, n

(* A key that was not there gets the free slot its probe ended at.         *)
LEMMA AppendKey ==
  ASSUME NEW es, NEW t, NEW u, NEW bs, MapInv(es, t, u, bs),
         NEW n \in Nat \ {0}, t \in Tables(n), n >= FirstCapacity, (u + 1) * 10 < n * 7,
         NEW k \in Keys, NEW v \in Vals, \A q \in DOMAIN es : es[q].key # k,
         NEW d \in 0..(n - 1), NEW at, at = SlotAt(n, Hash[k], d), at \in 1..n, t[at].pos = NPOS,
         \A e \in 0..(d - 1) : SlotAt(n, Hash[k], e) \in Taken(t)
  PROVE  MapInv(Append(es, [key |-> k, val |-> v]),
                [t EXCEPT ![at] = [h |-> Hash[k], pos |-> Len(es) + 1]], u + 1, bs)
<1>1. /\ es \in Seq(Entry) /\ UniqueKeys(es)
      /\ t \in Seq(Slot) /\ Chained(t) /\ Indexes(t, es) /\ u = Cardinality(Taken(t)) /\ u \in Nat
      /\ Sized(t, u) /\ bs \in [Bools -> Nat] /\ BoolsIndexed(bs, es)
  BY MapFacts
<1>2. PICK e : e = [key |-> k, val |-> v]
  OBVIOUS
<1>3. e \in Entry /\ e.key = k /\ k \notin Bools
  BY <1>2, KeysAssumption DEF Entry
<1>4. \A q \in DOMAIN es : es[q].key # e.key
  BY <1>3
<1> DEFINE fs == Append(es, e)
           l == Len(es) + 1
           s == [h |-> Hash[k], pos |-> l]
           w == [t EXCEPT ![at] = s]
<1>5. /\ fs \in Seq(Entry) /\ UniqueKeys(fs) /\ DOMAIN fs = DOMAIN es \cup {l}
      /\ l \notin DOMAIN es /\ l \in Nat /\ l # NPOS
      /\ fs[l] = e /\ \A q \in DOMAIN es : fs[q] = es[q]
  BY <1>1, <1>3, <1>4, AppendFacts
<1> HIDE DEF fs, l
<1>6. s \in Slot /\ s.h = Hash[k] /\ s.pos = l
  BY <1>5, HashAssumption DEF Slot
<1>7. w \in Tables(n) /\ w[at] = s /\ \A j \in (1..n) \ {at} : w[j] = t[j]
  <2> HIDE DEF s
  <2>1. QED
    BY <1>6 DEF Tables
<1> HIDE DEF s, w
<1>8. Len(t) = n /\ DOMAIN t = 1..n /\ at \notin Taken(t) /\ Taken(t) \subseteq 1..n
  BY TableFacts, TakenFinite DEF Taken
<1>9. /\ Chained(w) /\ Taken(w) = Taken(t) \cup {at}
      /\ Cardinality(Taken(w)) = Cardinality(Taken(t)) + 1
  <2>1. at = SlotAt(n, s.h, d) /\ at \in (1..n) \ Taken(t) /\ s.pos # NPOS
    BY <1>5, <1>6, <1>8
  <2>2. Walked(t, n, s.h, d)
    BY <1>6 DEF Walked
  <2>3. QED
    BY <1>1, <1>6, <1>7, <2>1, <2>2, PutKeeps
<1>10. HashedPlaces(fs) = HashedPlaces(es) \cup {l} /\ l \notin HashedPlaces(es)
  BY <1>3, <1>5 DEF HashedPlaces
<1>11. Indexes(w, fs)
  <2>1. \A i \in Taken(t) : w[i] = t[i]
    BY <1>7, <1>8
  <2>2. \A q \in HashedPlaces(es) : fs[q] = es[q]
    BY <1>5 DEF HashedPlaces
  <2>3. ASSUME NEW i \in Taken(w)
        PROVE  w[i].pos \in HashedPlaces(fs) /\ w[i].h = Hash[fs[w[i].pos].key]
    <3>1. CASE i = at
      BY <1>3, <1>5, <1>6, <1>7, <1>10, <3>1
    <3>2. CASE i # at
      <4>1. i \in Taken(t) /\ w[i] = t[i]
        BY <1>9, <2>1, <3>2
      <4>2. t[i].pos \in HashedPlaces(es) /\ t[i].h = Hash[es[t[i].pos].key]
        BY <1>1, <4>1 DEF Indexes
      <4>3. QED
        BY <1>10, <2>2, <4>1, <4>2
    <3>3. QED
      BY <3>1, <3>2
  <2>4. \A i \in Taken(t) : t[i].pos \in HashedPlaces(es)
    BY <1>1 DEF Indexes
  <2>5. ASSUME NEW i \in Taken(w), NEW j \in Taken(w), w[i].pos = w[j].pos PROVE i = j
    <3>1. CASE i = at \/ j = at
      BY <1>6, <1>7, <1>9, <1>10, <2>1, <2>4, <2>5, <3>1
    <3>2. CASE i # at /\ j # at
      BY <1>1, <1>9, <2>1, <2>5, <3>2 DEF Indexes
    <3>3. QED
      BY <3>1, <3>2
  <2>6. ASSUME NEW p \in HashedPlaces(fs) PROVE \E i \in Taken(w) : w[i].pos = p
    <3>1. CASE p = l
      BY <1>6, <1>7, <1>9, <3>1
    <3>2. CASE p # l
      <4>1. PICK i \in Taken(t) : t[i].pos = p
        BY <1>1, <1>10, <3>2 DEF Indexes
      <4>2. QED
        BY <1>9, <2>1, <4>1
    <3>3. QED
      BY <3>1, <3>2
  <2>7. QED
    BY <2>3, <2>5, <2>6 DEF Indexes
<1>12. Sized(w, u + 1) /\ u + 1 = Cardinality(Taken(w)) /\ w \in Seq(Slot)
  <2>1. Len(w) = n /\ w \in Seq(Slot)
    BY <1>7, TableFacts
  <2>2. QED
    BY <1>1, <1>9, <2>1 DEF Sized
<1>13. BoolsIndexed(bs, fs)
  BY <1>1, <1>3, <1>5, SMTT(20) DEF BoolsIndexed
<1>14. MapInv(fs, w, u + 1, bs)
  BY <1>1, <1>5, <1>9, <1>11, <1>12, <1>13 DEF MapInv
<1>15. QED
  BY <1>2, <1>14 DEF fs, w, s, l

(* The index made anew of any entries with different keys.                 *)
LEMMA RebuildKeeps ==
  ASSUME NEW es \in Seq(Entry), UniqueKeys(es)
  PROVE  MapInv(es, Seated(RebuiltSlots(es), RebuiltCapacity(Len(es))),
                Cardinality(HashedPlaces(es)), BoolPlaces(es))
<1>1. PICK n \in Nat : n = Len(es) /\ DOMAIN es = 1..n
  BY SequenceFacts
<1>2. \A p \in 1..n : es[p] \in Entry
  BY <1>1, SequenceFacts
<1> DEFINE slots == RebuiltSlots(es)
<1>3. /\ slots \in Tables(n)
      /\ \A p \in 1..n : slots[p] = IF es[p].key \in Keys
                                    THEN [h |-> Hash[es[p].key], pos |-> p] ELSE NoSlot
  <2>1. slots = [p \in 1..n |->
                   IF es[p].key \in Keys THEN [h |-> Hash[es[p].key], pos |-> p] ELSE NoSlot]
    BY <1>1 DEF RebuiltSlots
  <2>2. ASSUME NEW p \in 1..n, es[p].key \in Keys
        PROVE  [h |-> Hash[es[p].key], pos |-> p] \in Slot
    <3>1. Hash[es[p].key] \in Nat /\ p \in Nat
      BY <2>2, HashAssumption
    <3>2. QED
      BY <3>1 DEF Slot
  <2>3. NoSlot \in Slot
    BY DEF NoSlot, NPOS, Slot
  <2>4. \A p \in 1..n : slots[p] = IF es[p].key \in Keys
                                   THEN [h |-> Hash[es[p].key], pos |-> p] ELSE NoSlot
    BY <2>1
  <2>5. \A p \in 1..n : slots[p] \in Slot
    BY <2>2, <2>3, <2>4
  <2>6. slots \in Tables(n)
    BY <2>1, <2>5 DEF Tables
  <2>7. QED
    BY <2>4, <2>6
<1> HIDE DEF slots
<1>4. \A p \in 1..n : es[p].key \in Keys => slots[p].h = Hash[es[p].key] /\ slots[p].pos = p
  <2>1. ASSUME NEW p \in 1..n, es[p].key \in Keys
        PROVE  slots[p].h = Hash[es[p].key] /\ slots[p].pos = p
    <3>1. slots[p] = [h |-> Hash[es[p].key], pos |-> p]
      BY <1>3, <2>1, Zenon
    <3>2. QED
      BY <3>1
  <2>2. QED
    BY <2>1
<1>5. \A p \in 1..n : es[p].key \notin Keys => slots[p].pos = NPOS
  <2>1. ASSUME NEW p \in 1..n, es[p].key \notin Keys PROVE slots[p] = NoSlot
    BY <1>3, <2>1, Zenon
  <2>2. QED
    BY <2>1 DEF NoSlot
<1>6. Taken(slots) = HashedPlaces(es)
  <2>1. \A p \in 1..n : p # NPOS
    BY DEF NPOS
  <2>2. DOMAIN slots = 1..n
    BY <1>3, TableFacts
  <2>3. QED
    BY <1>1, <1>4, <1>5, <2>1, <2>2 DEF Taken, HashedPlaces
<1>7. \A p \in HashedPlaces(es) : p \in 1..n /\ slots[p].h = Hash[es[p].key] /\ slots[p].pos = p
  BY <1>1, <1>4 DEF HashedPlaces
<1>8. Distinct(slots)
  BY <1>6, <1>7 DEF Distinct
<1>9. Cardinality(HashedPlaces(es)) \in Nat /\ Cardinality(HashedPlaces(es)) <= n
  <2>1. HashedPlaces(es) \subseteq 1..n
    BY <1>7
  <2>2. IsFiniteSet(1..n) /\ Cardinality(1..n) = n
    BY FS_Interval
  <2>3. QED
    BY <2>1, <2>2, FS_Subset, FS_CardinalityType
<1>10. PICK u \in Nat : u = Cardinality(HashedPlaces(es)) /\ u <= n
  BY <1>9
<1>11. PICK c \in Nat : c = RebuiltCapacity(n) /\ c >= FirstCapacity /\ n * 10 < c * 7
  BY RebuiltCapacityIsEnough
<1>12. c \in Nat \ {0} /\ u < c /\ u * 10 < c * 7
  BY <1>10, <1>11
<1> DEFINE t == Seated(slots, c)
<1>13. slots \in Seq(Slot)
  BY <1>3, TableFacts
<1>14. t \in Tables(c) /\ Chained(t) /\ Holds(t, slots, Taken(slots))
  BY <1>6, <1>8, <1>10, <1>12, <1>13, SeatedKeeps
<1> HIDE DEF t
<1>15. Indexes(t, es)
  <2>1. \A i \in Taken(slots) : /\ slots[i].pos \in HashedPlaces(es)
                                /\ slots[i].h = Hash[es[slots[i].pos].key]
    BY <1>6, <1>7
  <2>2. \A p \in HashedPlaces(es) : \E i \in Taken(slots) : slots[i].pos = p
    BY <1>6, <1>7
  <2>3. QED
    BY <1>3, <1>12, <1>14, <2>1, <2>2, HoldsIndexes
<1>16. /\ t \in Seq(Slot) /\ u = Cardinality(Taken(t)) /\ Sized(t, u)
  <2>1. t \in Seq(Slot) /\ Len(t) = c
    BY <1>12, <1>14, TableFacts
  <2>2. u = Cardinality(Taken(t))
    BY <1>6, <1>10, <1>14 DEF Holds
  <2>3. QED
    BY <1>11, <1>12, <2>1, <2>2 DEF Sized
<1> DEFINE bs == BoolPlaces(es)
<1>17. ASSUME NEW b \in Bools
       PROVE  /\ bs[b] \in Nat
              /\ IF bs[b] = NPOS THEN \A p \in DOMAIN es : es[p].key # b
                 ELSE bs[b] \in DOMAIN es /\ es[bs[b]].key = b
  <2> DEFINE places == {p \in DOMAIN es : es[p].key = b}
  <2>1. bs[b] = IF places = {} THEN NPOS ELSE CHOOSE p \in places : TRUE
    BY DEF BoolPlaces
  <2>2. CASE places = {}
    BY <2>1, <2>2 DEF NPOS
  <2>3. CASE places # {}
    <3>1. bs[b] \in places
      BY <2>1, <2>3
    <3>2. bs[b] # NPOS /\ bs[b] \in Nat
      BY <1>1, <3>1 DEF NPOS
    <3>3. QED
      BY <3>1, <3>2
  <2>4. QED
    BY <2>2, <2>3
<1>18. bs \in [Bools -> Nat] /\ BoolsIndexed(bs, es)
  <2>1. bs = [b \in Bools |-> bs[b]]
    BY DEF BoolPlaces
  <2> HIDE DEF bs
  <2>2. QED
    BY <1>17, <2>1 DEF BoolsIndexed
<1> HIDE DEF bs
<1>19. MapInv(es, t, u, bs)
  BY <1>14, <1>15, <1>16, <1>18 DEF MapInv
<1>20. QED
  BY <1>1, <1>10, <1>11, <1>19 DEF t, slots, bs

LEMMA RemovedEntries ==
  ASSUME NEW D, NEW s \in Seq(D), NEW p \in 1..Len(s)
  PROVE  /\ RemoveAt(s, p) \in Seq(D) /\ Len(RemoveAt(s, p)) = Len(s) - 1
         /\ \A q \in 1..(Len(s) - 1) : RemoveAt(s, p)[q] = IF q < p THEN s[q] ELSE s[q + 1]
<1> DEFINE before == SubSeq(s, 1, p - 1)
           after == SubSeq(s, p + 1, Len(s))
<1>1. PICK n \in Nat : n = Len(s) /\ p \in 1..n
  OBVIOUS
<1>2. before \in Seq(D) /\ Len(before) = p - 1 /\ \A q \in 1..(p - 1) : before[q] = s[q]
  BY <1>1
<1>3. after \in Seq(D) /\ Len(after) = n - p /\ \A q \in 1..(n - p) : after[q] = s[p + q]
  BY <1>1
<1>4. PICK left : left = RemoveAt(s, p)
  OBVIOUS
<1>5. left = before \o after
  BY <1>4 DEF RemoveAt
<1> HIDE DEF before, after
<1>6. /\ left \in Seq(D) /\ Len(left) = Len(before) + Len(after)
      /\ \A q \in 1..(Len(before) + Len(after)) :
           left[q] = IF q <= Len(before) THEN before[q] ELSE after[q - Len(before)]
  <2>1. before \in Seq(D) /\ after \in Seq(D)
    BY <1>2, <1>3
  <2>2. QED
    BY <1>5, <2>1, ConcatProperties, Zenon
<1>7. Len(before) + Len(after) = n - 1
  BY <1>1, <1>2, <1>3
<1>8. ASSUME NEW q \in 1..(n - 1), q < p PROVE left[q] = s[q]
  <2>1. q \in 1..(p - 1) /\ q <= Len(before)
    BY <1>1, <1>2, <1>8
  <2>2. QED
    BY <1>2, <1>6, <1>7, <2>1
<1>9. ASSUME NEW q \in 1..(n - 1), ~(q < p) PROVE left[q] = s[q + 1]
  <2>1. ~(q <= Len(before))
    BY <1>1, <1>2, <1>9
  <2>2. left[q] = after[q - Len(before)]
    BY <1>6, <1>7, <2>1
  <2>3. q - Len(before) \in 1..(n - p) /\ p + (q - Len(before)) = q + 1
    BY <1>1, <1>2, <1>9
  <2>4. QED
    BY <1>3, <2>2, <2>3
<1>10. left \in Seq(D) /\ Len(left) = n - 1
  BY <1>6, <1>7
<1>11. \A q \in 1..(n - 1) : left[q] = IF q < p THEN s[q] ELSE s[q + 1]
  BY <1>8, <1>9, Zenon
<1>12. QED
  BY <1>1, <1>4, <1>10, <1>11

LEMMA RemovedFacts ==
  ASSUME NEW es \in Seq(Entry), UniqueKeys(es), NEW p \in DOMAIN es
  PROVE  RemoveAt(es, p) \in Seq(Entry) /\ UniqueKeys(RemoveAt(es, p))
<1>1. PICK n \in Nat : n = Len(es) /\ DOMAIN es = 1..n
  BY SequenceFacts
<1> DEFINE left == RemoveAt(es, p)
           From(q) == IF q < p THEN q ELSE q + 1
<1>2. p \in 1..n
  BY <1>1
<1>3. /\ left \in Seq(Entry) /\ Len(left) = n - 1
      /\ \A q \in 1..(n - 1) : left[q] = IF q < p THEN es[q] ELSE es[q + 1]
  BY <1>1, <1>2, RemovedEntries
<1> HIDE DEF left
<1>4. ASSUME NEW q \in 1..(n - 1) PROVE left[q] = es[From(q)]
  BY <1>3
<1>5. DOMAIN left = 1..(n - 1)
  BY <1>3, SequenceFacts
<1>6. ASSUME NEW q \in DOMAIN left, NEW r \in DOMAIN left, left[q].key = left[r].key PROVE q = r
  <2>1. From(q) \in 1..n /\ From(r) \in 1..n
    BY <1>2, <1>5
  <2>2. es[From(q)].key = es[From(r)].key
    BY <1>4, <1>5, <1>6
  <2>3. From(q) = From(r)
    <3> HIDE DEF From
    <3>1. QED
      BY <1>1, <2>1, <2>2 DEF UniqueKeys
  <2>4. QED
    BY <1>2, <1>5, <2>3
<1>7. QED
  BY <1>3, <1>6 DEF UniqueKeys, left

LEMMA SetKeeps ==
  ASSUME IInv, NEW k \in Keys, NEW v \in Vals, Set(k, v)
  PROVE  MapInv(entries', index', indexUsed', boolIndex')
<1>1. TypeOK /\ MapInv(entries, index, indexUsed, boolIndex)
  BY InvGivesMapInv DEF IInv
<1>2. PICK t : t = IndexWithRoom
  OBVIOUS
<1>3. PICK n \in Nat \ {0} :
           /\ t \in Tables(n) /\ n >= FirstCapacity /\ Chained(t) /\ Indexes(t, entries)
           /\ indexUsed \in Nat /\ Cardinality(Taken(t)) = indexUsed
           /\ (indexUsed + 1) * 10 < n * 7
  BY <1>2, RoomFacts
<1>4. Len(t) = n /\ t \in Seq(Slot)
  BY <1>3, TableFacts
<1>5. Sized(t, indexUsed) /\ Cardinality(Taken(t)) < n
  BY <1>3, <1>4 DEF Sized
<1>6. MapInv(entries, t, indexUsed, boolIndex)
  BY <1>1, <1>3, <1>4, <1>5 DEF MapInv
<1>7. PICK at : at = ProbeSlot(t, k)
  OBVIOUS
<1>8. PICK d \in 0..(n - 1) :
           /\ at = SlotAt(n, Hash[k], d) /\ at \in 1..n
           /\ \/ /\ PlacesOf(k) = {} /\ t[at].pos = NPOS
                 /\ \A e \in 0..(d - 1) : SlotAt(n, Hash[k], e) \in Taken(t)
              \/ PlacesOf(k) = {t[at].pos}
  BY <1>1, <1>3, <1>5, <1>7, ProbeForKey
<1>9. /\ IF t[at].pos # NPOS
         THEN /\ entries' = [entries EXCEPT ![t[at].pos].val = v]
              /\ index' = t /\ indexUsed' = indexUsed
         ELSE /\ entries' = Append(entries, [key |-> k, val |-> v])
              /\ index' = [t EXCEPT ![at] = [h |-> Hash[k], pos |-> Len(entries) + 1]]
              /\ indexUsed' = indexUsed + 1
      /\ boolIndex' = boolIndex
  BY <1>2, <1>7 DEF Set
<1>10. \A p \in PlacesOf(k) : p \in DOMAIN entries /\ p # NPOS
  <2>1. \A p \in DOMAIN entries : p # NPOS
    BY <1>1, EntriesFacts DEF NPOS
  <2>2. QED
    BY <2>1 DEF PlacesOf
<1>11. CASE t[at].pos # NPOS
  <2>1. PICK p : p = t[at].pos
    OBVIOUS
  <2>2. p \in DOMAIN entries
    BY <1>8, <1>10, <1>11, <2>1
  <2>3. /\ entries' = [entries EXCEPT ![p].val = v]
        /\ index' = t /\ indexUsed' = indexUsed /\ boolIndex' = boolIndex
    BY <1>9, <1>11, <2>1
  <2>4. MapInv([entries EXCEPT ![p].val = v], t, indexUsed, boolIndex)
    BY <1>6, <2>2, ValueKeeps
  <2>5. QED
    BY <2>3, <2>4
<1>12. CASE t[at].pos = NPOS
  <2>1. /\ PlacesOf(k) = {}
        /\ \A e \in 0..(d - 1) : SlotAt(n, Hash[k], e) \in Taken(t)
    BY <1>8, <1>10, <1>12
  <2>2. \A q \in DOMAIN entries : entries[q].key # k
    BY <2>1 DEF PlacesOf
  <2>3. MapInv(Append(entries, [key |-> k, val |-> v]),
               [t EXCEPT ![at] = [h |-> Hash[k], pos |-> Len(entries) + 1]],
               indexUsed + 1, boolIndex)
    BY <1>3, <1>6, <1>8, <1>12, <2>1, <2>2, AppendKey
  <2>4. QED
    BY <1>9, <1>12, <2>3
<1>13. QED
  BY <1>11, <1>12

LEMMA SetBoolKeeps ==
  ASSUME IInv, NEW b \in Bools, NEW v \in Vals, SetBool(b, v)
  PROVE  MapInv(entries', index', indexUsed', boolIndex')
<1>1. MapInv(entries, index, indexUsed, boolIndex)
  BY InvGivesMapInv
<1>2. CASE boolIndex[b] # NPOS
  <2>1. boolIndex[b] \in DOMAIN entries
    BY <1>1, <1>2, MapFacts DEF BoolsIndexed
  <2>2. MapInv([entries EXCEPT ![boolIndex[b]].val = v], index, indexUsed, boolIndex)
    BY <1>1, <2>1, ValueKeeps
  <2>3. QED
    BY <1>2, <2>2 DEF SetBool
<1>3. CASE boolIndex[b] = NPOS
  <2>1. MapInv(Append(entries, [key |-> b, val |-> v]), index, indexUsed,
               [boolIndex EXCEPT ![b] = Len(entries) + 1])
    BY <1>1, <1>3, AppendBool
  <2>2. QED
    BY <1>3, <2>1 DEF SetBool
<1>4. QED
  BY <1>2, <1>3

LEMMA RemoveKeeps ==
  ASSUME IInv, NEW k \in Keys \cup Bools, RemoveKey(k)
  PROVE  MapInv(entries', index', indexUsed', boolIndex')
<1>1. TypeOK /\ MapInv(entries, index, indexUsed, boolIndex)
  BY InvGivesMapInv DEF IInv
<1>2. CASE Find(k) = NPOS
  BY <1>1, <1>2 DEF RemoveKey
<1>3. CASE Find(k) # NPOS
  <2>1. PICK p : p = Find(k)
    OBVIOUS
  <2>2. p \in DOMAIN entries
    BY <1>3, <2>1, FindFacts DEF PlacesOf
  <2>3. PICK left : left = RemoveAt(entries, p)
    OBVIOUS
  <2>4. left \in Seq(Entry) /\ UniqueKeys(left)
    BY <1>1, <2>2, <2>3, EntriesFacts, RemovedFacts
  <2>5. MapInv(left, Seated(RebuiltSlots(left), RebuiltCapacity(Len(left))),
               Cardinality(HashedPlaces(left)), BoolPlaces(left))
    BY <2>4, RebuildKeeps
  <2>6. entries' = left /\ RebuildIndex(left)
    BY <1>3, <2>1, <2>3 DEF RemoveKey
  <2>7. QED
    BY <2>5, <2>6 DEF RebuildIndex
<1>4. QED
  BY <1>2, <1>3

LEMMA NextKeeps == IInv /\ [Next]_vars => IInv'
<1>1. MapInv(entries, index, indexUsed, boolIndex)' => IInv'
  BY MapInvGivesInv, PTL
<1> SUFFICES ASSUME IInv, [Next]_vars PROVE MapInv(entries', index', indexUsed', boolIndex')
  BY <1>1
<1>2. MapInv(entries, index, indexUsed, boolIndex)
  BY InvGivesMapInv
<1>3. ASSUME NEW k \in Keys \cup Bools, Get(k)
      PROVE  MapInv(entries', index', indexUsed', boolIndex')
  BY <1>2, <1>3 DEF Get
<1>4. ASSUME NEW k \in Keys \cup Bools, RemoveKey(k)
      PROVE  MapInv(entries', index', indexUsed', boolIndex')
  BY <1>4, RemoveKeeps
<1>5. ASSUME NEW k \in Keys \cup Bools, NEW v \in Vals, Set(k, v)
      PROVE  MapInv(entries', index', indexUsed', boolIndex')
  <2>1. k \in Keys
    BY <1>5 DEF Set
  <2>2. QED
    BY <1>5, <2>1, SetKeeps
<1>6. ASSUME NEW k \in Keys \cup Bools, NEW v \in Vals, SetBool(k, v)
      PROVE  MapInv(entries', index', indexUsed', boolIndex')
  <2>1. k \in Bools
    BY <1>6 DEF SetBool
  <2>2. QED
    BY <1>6, <2>1, SetBoolKeeps
<1>7. CASE Clear
  BY <1>7, EmptyMap DEF Clear
<1>8. CASE UNCHANGED vars
  BY <1>2, <1>8 DEF vars
<1>9. QED
  BY <1>3, <1>4, <1>5, <1>6, <1>7, <1>8 DEF Next

LEMMA InitKeeps == Init => IInv
<1> SUFFICES ASSUME Init PROVE IInv
  OBVIOUS
<1>1. MapInv(entries, index, indexUsed, boolIndex)
  BY EmptyMap DEF Init
<1>2. QED
  BY <1>1, MapInvGivesInv

-----------------------------------------------------------------------------
(* The theorems.                                                           *)

(* The entries, the flat index and the boolean slots of a MapObject agree  *)
(* after any calls of set, get, remove and clear, whatever the hashes are. *)
THEOREM MapIsConsistent == Spec => []IInv
<1>1. QED
  BY InitKeeps, NextKeeps, PTL DEF Spec

(* The entries have different keys and the slots name entries of the map.  *)
THEOREM MapTypeCorrect == Spec => []TypeOK
<1>1. IInv => TypeOK
  BY DEF IInv
<1>2. QED
  BY <1>1, MapIsConsistent, PTL

(* indexUsed counts the taken slots and they are less than 70 % of the     *)
(* table: every probe of probeSlot, indexGrow and rebuildIndex ends.       *)
THEOREM ProbesEnd == Spec => []LoadIsKept
<1>1. IInv => LoadIsKept
  BY DEF IInv
<1>2. QED
  BY <1>1, MapIsConsistent, PTL

(* Every entry is found by its key, whatever was removed, re-seated and    *)
(* put since it came.                                                      *)
THEOREM KeysAreFound == Spec => []EveryKeyIsFound
<1>1. ASSUME IInv, NEW p \in 1..Len(entries) PROVE Find(entries[p].key) = p
  <2>1. TypeOK
    BY <1>1 DEF IInv
  <2>2. PICK k : k = entries[p].key
    OBVIOUS
  <2>3. k \in Keys \cup Bools /\ p \in PlacesOf(k)
    <3>1. p \in DOMAIN entries /\ entries \in Seq(Entry)
      BY <2>1, EntriesFacts
    <3>2. entries[p] \in Entry
      BY <3>1, SequenceFacts
    <3>3. QED
      BY <2>2, <3>1, <3>2 DEF Entry, PlacesOf
  <2>4. QED
    BY <1>1, <2>2, <2>3, FindFacts
<1>2. IInv => EveryKeyIsFound
  BY <1>1 DEF EveryKeyIsFound
<1>3. QED
  BY <1>2, MapIsConsistent, PTL

-----------------------------------------------------------------------------
(* The map implements the dictionary.                                      *)

LEMMA PlacesAgree ==
  ASSUME IInv, NEW k
  PROVE  Dict!PlacesOf(k) = PlacesOf(k)
BY EntriesFacts DEF Dict!PlacesOf, PlacesOf, IInv

LEMMA SetIsPut ==
  ASSUME IInv, NEW k \in Keys, NEW v \in Vals, Set(k, v)
  PROVE  Dict!DictPut(k, v)
<1>1. TypeOK
  BY DEF IInv
<1>2. PICK t : t = IndexWithRoom
  OBVIOUS
<1>3. PICK n \in Nat \ {0} :
           /\ t \in Tables(n) /\ Chained(t) /\ Indexes(t, entries)
           /\ indexUsed \in Nat /\ Cardinality(Taken(t)) = indexUsed
           /\ (indexUsed + 1) * 10 < n * 7
  BY <1>2, RoomFacts
<1>4. PICK at : at = ProbeSlot(t, k)
  OBVIOUS
<1>5. \/ PlacesOf(k) = {} /\ t[at].pos = NPOS
      \/ PlacesOf(k) = {t[at].pos}
  <2>1. Cardinality(Taken(t)) < n
    BY <1>3
  <2>2. QED
    BY <1>1, <1>3, <1>4, <2>1, ProbeForKey
<1>6. \A p \in PlacesOf(k) : p # NPOS
  <2>1. \A p \in DOMAIN entries : p # NPOS
    BY <1>1, EntriesFacts DEF NPOS
  <2>2. QED
    BY <2>1 DEF PlacesOf
<1>7. /\ IF t[at].pos # NPOS
         THEN entries' = [entries EXCEPT ![t[at].pos].val = v]
         ELSE entries' = Append(entries, [key |-> k, val |-> v])
      /\ asked' = k /\ answer' = None
  BY <1>2, <1>4 DEF Set
<1>8. CASE t[at].pos # NPOS
  <2>1. PICK p : p = t[at].pos
    OBVIOUS
  <2>2. p \in Dict!PlacesOf(k) /\ entries' = [entries EXCEPT ![p].val = v]
    BY <1>5, <1>7, <1>8, <2>1, PlacesAgree
  <2>3. QED
    BY <1>7, <2>2 DEF Dict!DictPut
<1>9. CASE t[at].pos = NPOS
  <2>1. Dict!PlacesOf(k) = {}
    BY <1>5, <1>6, <1>9, PlacesAgree
  <2>2. QED
    BY <1>7, <1>9, <2>1 DEF Dict!DictPut
<1>10. QED
  BY <1>8, <1>9

LEMMA SetBoolIsPut ==
  ASSUME IInv, NEW b \in Bools, NEW v \in Vals, SetBool(b, v)
  PROVE  Dict!DictPut(b, v)
<1>1. IF boolIndex[b] = NPOS THEN PlacesOf(b) = {} ELSE PlacesOf(b) = {boolIndex[b]}
  BY DEF IInv, BoolsInv
<1>2. CASE boolIndex[b] # NPOS
  <2>1. PICK p : p = boolIndex[b]
    OBVIOUS
  <2>2. p \in Dict!PlacesOf(b)
    BY <1>1, <1>2, <2>1, PlacesAgree
  <2>3. entries' = [entries EXCEPT ![p].val = v] /\ asked' = b /\ answer' = None
    BY <1>2, <2>1 DEF SetBool
  <2>4. QED
    BY <2>2, <2>3 DEF Dict!DictPut
<1>3. CASE boolIndex[b] = NPOS
  <2>1. Dict!PlacesOf(b) = {}
    BY <1>1, <1>3, PlacesAgree
  <2>2. QED
    BY <1>3, <2>1 DEF SetBool, Dict!DictPut
<1>4. QED
  BY <1>2, <1>3

LEMMA GetIsGet ==
  ASSUME IInv, NEW k \in Keys \cup Bools, Get(k)
  PROVE  Dict!DictGet(k)
<1>1. Dict!PlacesOf(k) = PlacesOf(k)
  BY PlacesAgree
<1>2. CASE Find(k) = NPOS
  <2>1. PlacesOf(k) = {}
    BY <1>2, FindFacts
  <2>2. QED
    BY <1>1, <1>2, <2>1 DEF Get, Dict!DictGet
<1>3. CASE Find(k) # NPOS
  <2>1. PICK p : p = Find(k)
    OBVIOUS
  <2>2. PlacesOf(k) = {p}
    BY <1>3, <2>1, FindFacts
  <2>3. (CHOOSE i \in {p} : TRUE) = p
    OBVIOUS
  <2>4. answer' = entries[p].val /\ asked' = k /\ entries' = entries
    BY <1>3, <2>1 DEF Get
  <2>5. QED
    BY <1>1, <2>2, <2>3, <2>4 DEF Dict!DictGet
<1>4. QED
  BY <1>2, <1>3

LEMMA RemoveIsRemove ==
  ASSUME IInv, NEW k \in Keys \cup Bools, RemoveKey(k)
  PROVE  Dict!DictRemove(k)
<1>1. Dict!PlacesOf(k) = PlacesOf(k)
  BY PlacesAgree
<1>2. CASE Find(k) = NPOS
  <2>1. PlacesOf(k) = {}
    BY <1>2, FindFacts
  <2>2. QED
    BY <1>1, <1>2, <2>1 DEF RemoveKey, Dict!DictRemove
<1>3. CASE Find(k) # NPOS
  <2>1. PICK p : p = Find(k)
    OBVIOUS
  <2>2. p \in PlacesOf(k)
    BY <1>3, <2>1, FindFacts
  <2>3. entries' = RemoveAt(entries, p) /\ asked' = k /\ answer' = None
    BY <1>3, <2>1 DEF RemoveKey
  <2>4. RemoveAt(entries, p) = Dict!RemoveAt(entries, p)
    BY DEF RemoveAt, Dict!RemoveAt
  <2>5. QED
    BY <1>1, <2>2, <2>3, <2>4 DEF Dict!DictRemove
<1>4. QED
  BY <1>2, <1>3

(* A map is a dictionary in order: each call answers and changes what the  *)
(* same call of a list of keys and values does, for every hash function.   *)
THEOREM MapIsADictionary == Spec => ImplementsDictionary
<1>1. Init => Dict!DictInit
  BY DEF Init, Dict!DictInit
<1>2. IInv /\ [Next]_vars => [Dict!DictNext]_(Dict!dictVars)
  <2> SUFFICES ASSUME IInv, [Next]_vars PROVE [Dict!DictNext]_(Dict!dictVars)
    OBVIOUS
  <2>1. ASSUME NEW k \in Keys \cup Bools, Get(k) PROVE Dict!DictNext
    BY <2>1, GetIsGet DEF Dict!DictNext
  <2>2. ASSUME NEW k \in Keys \cup Bools, RemoveKey(k) PROVE Dict!DictNext
    BY <2>2, RemoveIsRemove DEF Dict!DictNext
  <2>3. ASSUME NEW k \in Keys \cup Bools, NEW v \in Vals, Set(k, v) PROVE Dict!DictNext
    <3>1. k \in Keys
      BY <2>3 DEF Set
    <3>2. QED
      BY <2>3, <3>1, SetIsPut DEF Dict!DictNext
  <2>4. ASSUME NEW k \in Keys \cup Bools, NEW v \in Vals, SetBool(k, v) PROVE Dict!DictNext
    <3>1. k \in Bools
      BY <2>4 DEF SetBool
    <3>2. QED
      BY <2>4, <3>1, SetBoolIsPut DEF Dict!DictNext
  <2>5. CASE Clear
    BY <2>5 DEF Clear, Dict!DictNext, Dict!DictClear
  <2>6. CASE UNCHANGED vars
    BY <2>6 DEF vars, Dict!dictVars
  <2>7. QED
    BY <2>1, <2>2, <2>3, <2>4, <2>5, <2>6 DEF Next
<1>3. QED
  BY <1>1, <1>2, MapIsConsistent, PTL DEF Spec, ImplementsDictionary, Dict!DictSpec
=============================================================================
