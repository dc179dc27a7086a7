--------------------------- MODULE HeapRefinement ---------------------------
(***************************************************************************)
(* Heap implements SafeHeap, for every set of objects and coroutines and   *)
(* every slice budget: a step of the program is a Mutate, the destruction  *)
(* of one object by the sweep is a Free, every other step of the collector *)
(* stutters.                                                               *)
(***************************************************************************)
EXTENDS HeapProofs

USE CorosAssumption, MainAssumption

(* The live objects hold the roots and are closed under the edges.         *)
LEMMA LiveIsClosed ==
  ASSUME TypeOK
  PROVE  /\ Live \subseteq Obj
         /\ MutatorRoots \subseteq Live
         /\ \A o \in Live : Children(o) \subseteq Live
<1>1. MutatorRoots \subseteq Obj /\ Edges \in [Obj -> SUBSET Obj]
  <2>1. MutatorRoots \subseteq Obj
    BY RootsAreObjects DEF MutatorRoots, Running
  <2>2. \A o \in Obj : Children(o) \subseteq Obj
    BY DEF TypeOK, Children, Contexts
  <2>3. QED
    BY <2>1, <2>2 DEF Edges
<1>2. Live \subseteq Obj /\ MutatorRoots \subseteq Live
  BY <1>1 DEF Live, ReachableFrom
<1>3. ASSUME NEW o \in Live PROVE Children(o) \subseteq Live
  <2>1. o \in Obj /\ Edges[o] = Children(o) /\ Edges[o] \subseteq Obj
    BY <1>1, <1>2 DEF Edges
  <2>2. ASSUME NEW S \in SUBSET Obj, MutatorRoots \subseteq S, IsClosed(S, Edges)
        PROVE  Edges[o] \subseteq S
    <3>1. o \in S
      BY <1>1, <2>1, <2>2 DEF Live, ReachableFrom
    <3>2. QED
      BY <2>2, <3>1 DEF IsClosed
  <2>3. QED
    BY <1>1, <2>1, <2>2 DEF Live, ReachableFrom
<1>4. QED
  BY <1>2, <1>3

(* A running context holds live objects only, a running coroutine is live. *)
LEMMA HeldIsLive ==
  ASSUME IInv
  PROVE  /\ \A c \in Running \cup {Main} : frame[c] \subseteq Live
         /\ frame[active] \subseteq Live
         /\ active \in Running \cup {Main}
         /\ Running \subseteq Live
         /\ globals \subseteq Live
         /\ yieldValue \subseteq Live
         /\ \A i \in DOMAIN tempRoots : tempRoots[i].obj \in Live
<1>1. \A c \in Running \cup {Main} : frame[c] \subseteq MutatorRoots
  BY DEF LiveFrames, GcRoots, MutatorRoots
<1>2. \A i \in DOMAIN tempRoots : tempRoots[i].obj \in MutatorRoots
  BY DEF TempObjs, GcRoots, MutatorRoots
<1>3. globals \cup yieldValue \cup Running \subseteq MutatorRoots
  BY DEF GcRoots, MutatorRoots
<1>4. QED
  BY <1>1, <1>2, <1>3, ActiveSafe, LiveIsClosed DEF IInv

(* What the roots of the next state are made of.                           *)
LEMMA RootsNext ==
  ASSUME TypeOK', NEW S,
         \A c \in Running' \cup {Main} : frame'[c] \subseteq S,
         globals' \subseteq S, yieldValue' \subseteq S,
         \A i \in DOMAIN tempRoots' : tempRoots'[i].obj \in S,
         Running' \subseteq S, active' \in Running' \cup {Main}
  PROVE  MutatorRoots' \subseteq S
<1>1. LiveFrames' \subseteq S
  BY DEF LiveFrames
<1>2. TempObjs' \subseteq S
  BY DEF TempObjs
<1>3. ({active} \cap Obj)' \subseteq S
  OBVIOUS
<1>4. QED
  BY <1>1, <1>2, <1>3 DEF MutatorRoots, GcRoots

(* A step that allocates the objects of New and lets the program reach     *)
(* nothing but them and what was live is one of the abstract heap.         *)
LEMMA Grows ==
  ASSUME TypeOK, TypeOK', NEW New \in SUBSET (Obj \ Allocated),
         Allocated' = Allocated \cup New,
         MutatorRoots' \subseteq Live \cup New,
         \A o \in Live \cup New : Children(o)' \subseteq Live \cup New
  PROVE  Abstract!Mutate
<1>1. MutatorRoots' \subseteq Obj
  BY LiveIsClosed
<1>2. (\A o \in Obj : Children(o) \subseteq Obj)'
  BY DEF TypeOK, Children, Contexts
<1>3. Edges' \in [Obj -> SUBSET Obj]
  BY <1>2 DEF Edges
<1>4. Live' \subseteq Live \cup New
  <2>1. Live \cup New \in SUBSET Obj
    BY LiveIsClosed
  <2>2. IsClosed(Live \cup New, Edges')
    <3>1. \A o \in Obj : Edges'[o] = Children(o)'
      BY DEF Edges
    <3>2. QED
      BY <2>1, <3>1 DEF IsClosed
  <2>3. DOMAIN Edges' = Obj
    BY DEF Edges
  <2>4. ReachableFrom(MutatorRoots', Edges') \subseteq Live \cup New
    BY <2>1, <2>2, <2>3, ReachableInClosed
  <2>5. QED
    BY <2>4 DEF Live, ReachableFrom
<1>5. Abstract!Live = Live
  BY DEF Abstract!Live, Live, Abstract!ReachableFrom, ReachableFrom,
       Abstract!IsClosed, IsClosed
<1>6. (Abstract!Live = Live)'
  BY DEF Abstract!Live, Live, Abstract!ReachableFrom, ReachableFrom,
       Abstract!IsClosed, IsClosed
<1>7. QED
  BY <1>1, <1>3, <1>4, <1>5, <1>6 DEF Abstract!Mutate

(* The same of a step that allocates nothing.                              *)
LEMMA Rewires ==
  ASSUME TypeOK, TypeOK', Allocated' = Allocated, MutatorRoots' \subseteq Live,
         \A o \in Live : Children(o)' \subseteq Live
  PROVE  Abstract!Mutate
<1>1. {} \in SUBSET (Obj \ Allocated) /\ Allocated' = Allocated \cup {}
  OBVIOUS
<1>2. MutatorRoots' \subseteq Live \cup {}
  OBVIOUS
<1>3. \A o \in Live \cup {} : Children(o)' \subseteq Live \cup {}
  OBVIOUS
<1>4. QED
  BY <1>1, <1>2, <1>3, Grows

-----------------------------------------------------------------------------
(* The steps of the program.  Each lemma shows that the step reaches only  *)
(* live objects, and the one it allocates.                                 *)

(* gcAlloc: the new object refers to values of the stack.                  *)
LEMMA AllocMutates ==
  ASSUME IInv, TypeOK', NEW o \in Obj, NEW R \in SUBSET Obj, Alloc(o, R)
  PROVE  Abstract!Mutate
<1> USE DEF Alloc
<1>1. {o} \in SUBSET (Obj \ Allocated) /\ Allocated' = Allocated \cup {o}
  BY DEF Link, Allocated
<1>2. Running' \subseteq Running /\ Running \subseteq Running' \cup {o}
  BY DEF IInv, TypeOK, Running
<1>3. o \notin Running
  BY ActiveSafe DEF Safe, Allocated
<1>4. MutatorRoots' \subseteq Live \cup {o}
  <2>1. \A c \in Running' \cup {Main} : frame'[c] \subseteq Live \cup {o}
    BY <1>2, HeldIsLive DEF IInv, TypeOK, Contexts
  <2>2. active' \in Running' \cup {Main} /\ Running' \subseteq Live
    BY <1>2, <1>3, HeldIsLive
  <2>3. QED
    BY <2>1, <2>2, HeldIsLive, RootsNext DEF rootVars
<1>5. \A x \in Live : Children(x)' \subseteq Live \cup {o}
  <2>1. ASSUME NEW x \in Live, x # o PROVE Children(x)' \subseteq Children(x) \cup {o}
    BY <2>1, LiveIsClosed DEF Children, IInv, TypeOK, Contexts
  <2>2. o \notin Live
    BY LiveIsSafe DEF Safe, Allocated
  <2>3. QED
    BY <2>1, <2>2, LiveIsClosed DEF IInv
<1>6. Children(o)' \subseteq Live
  <2>1. Children(o)' = R
    BY DEF Children, IInv, TypeOK
  <2>2. QED
    BY <2>1, HeldIsLive
<1>7. QED
  BY <1>1, <1>4, <1>5, <1>6, Grows DEF IInv

(* Reads, pops, stores, removals, roots and native calls: nothing that was *)
(* not live becomes reachable.                                             *)
LEMMA PlainMutates ==
  ASSUME IInv, TypeOK', UNCHANGED <<listVars, coroVars>>,
         frame'[active] \subseteq Live,
         \A c \in Contexts \ {active} : frame'[c] = frame[c],
         globals' \subseteq Live,
         \A i \in DOMAIN tempRoots' : tempRoots'[i].obj \in Live,
         \A o \in Live : refs'[o] \subseteq Live
  PROVE  Abstract!Mutate
<1>1. Allocated' = Allocated /\ Running' = Running
  BY DEF listVars, coroVars, Allocated, Running
<1>2. MutatorRoots' \subseteq Live
  <2>1. \A c \in Running' \cup {Main} : frame'[c] \subseteq Live
    BY <1>1, HeldIsLive DEF Contexts, Running
  <2>2. QED
    BY <1>1, <2>1, HeldIsLive, RootsNext DEF coroVars
<1>3. \A o \in Live : Children(o)' \subseteq Live
  <2>1. ASSUME NEW o \in Live PROVE Children(o)' \subseteq Live
    <3>1. CASE o \in Coros /\ status[o] = "SUSPENDED"
      <4>1. o # active
        BY <3>1, ActiveSafe DEF Running
      <4>2. Children(o) \subseteq Live /\ frame'[o] = frame[o]
        BY <3>1, <4>1, LiveIsClosed DEF IInv, Contexts
      <4>3. QED
        BY <3>1, <4>2 DEF Children, coroVars
    <3>2. CASE ~(o \in Coros /\ status[o] = "SUSPENDED")
      BY <3>2 DEF Children, coroVars
    <3>3. QED
      BY <3>1, <3>2
  <2>2. QED
    BY <2>1
<1>4. QED
  BY <1>1, <1>2, <1>3, Rewires DEF IInv

(* What the operations on the stack and on objects reach was live already. *)
LEMMA ObjectOpsMutate ==
  ASSUME IInv, TypeOK', NEW o \in Obj, NEW v \in Obj,
         Load(v) \/ Drop(v) \/ Store(o, v) \/ Erase(o, v)
  PROVE  Abstract!Mutate
<1>1. \A x \in Live : refs[x] \subseteq Live
  BY LiveIsClosed DEF Children, IInv
<1>2. Load(v) => v \in Live
  BY <1>1, HeldIsLive DEF Load
<1>3. UNCHANGED <<listVars, coroVars, rootVars>>
  BY DEF Load, Drop, Store, Erase
<1>4. frame'[active] \subseteq Live /\ \A c \in Contexts \ {active} : frame'[c] = frame[c]
  BY <1>2, HeldIsLive DEF Load, Drop, Store, Erase, IInv, TypeOK
<1>5. \A x \in Live : refs'[x] \subseteq Live
  BY <1>1, HeldIsLive, LiveIsClosed DEF Load, Drop, Store, Erase, IInv, TypeOK
<1>6. globals' \subseteq Live /\ \A i \in DOMAIN tempRoots' : tempRoots'[i].obj \in Live
  BY <1>3, HeldIsLive DEF rootVars
<1>7. QED
  BY <1>3, <1>4, <1>5, <1>6, PlainMutates

(* The same of the operations on globals and of native calls.              *)
LEMMA RootOpsMutate ==
  ASSUME IInv, TypeOK', NEW v \in Obj,
         SetGlobal(v) \/ DropGlobal(v) \/ NativeEnter(v) \/ NativeReturn
  PROVE  Abstract!Mutate
<1>1. \A x \in Live : refs[x] \subseteq Live
  BY LiveIsClosed DEF Children, IInv
<1>2. UNCHANGED <<listVars, coroVars, refs>>
  BY DEF SetGlobal, DropGlobal, NativeEnter, NativeReturn, coroVars
<1>3. globals' \subseteq Live
  BY HeldIsLive DEF SetGlobal, DropGlobal, NativeEnter, NativeReturn
<1>4. \A i \in DOMAIN tempRoots' : tempRoots'[i].obj \in Live
  <2>1. CASE NativeReturn
    <3>1. \A i \in DOMAIN tempRoots' : i \in DOMAIN tempRoots /\ tempRoots'[i] = tempRoots[i]
      BY <2>1 DEF NativeReturn, IInv, TypeOK
    <3>2. QED
      BY <3>1, HeldIsLive
  <2>2. CASE NativeEnter(v)
    <3>1. \A i \in DOMAIN tempRoots' : tempRoots'[i].obj = v \/
            (i \in DOMAIN tempRoots /\ tempRoots'[i] = tempRoots[i])
      BY <2>2 DEF NativeEnter, IInv, TypeOK
    <3>2. QED
      BY <2>2, <3>1, HeldIsLive DEF NativeEnter
  <2>3. CASE SetGlobal(v) \/ DropGlobal(v)
    BY <2>3, HeldIsLive DEF SetGlobal, DropGlobal
  <2>4. QED
    BY <2>1, <2>2, <2>3
<1>5. frame'[active] \subseteq Live /\ \A c \in Contexts \ {active} : frame'[c] = frame[c]
  BY HeldIsLive DEF SetGlobal, DropGlobal, NativeEnter, NativeReturn, IInv, TypeOK
<1>6. \A x \in Live : refs'[x] \subseteq Live
  BY <1>1, <1>2
<1>7. QED
  BY <1>2, <1>3, <1>4, <1>5, <1>6, PlainMutates

(* resumeCoroutine: what the coroutine kept was live, for it was live.     *)
LEMMA ResumeMutates ==
  ASSUME IInv, TypeOK', NEW c \in Coros, NEW arg \in SUBSET Obj, Resume(c, arg)
  PROVE  Abstract!Mutate
<1> USE DEF Resume
<1>1. Allocated' = Allocated /\ Running' = Running \cup {c}
  BY DEF listVars, Allocated, Running, IInv, TypeOK
<1>2. c \in Live /\ arg \subseteq Live
  BY HeldIsLive
<1>3. Children(c) \subseteq Live
  BY <1>2, LiveIsClosed DEF IInv
<1>4. frame'[c] \subseteq Live /\ \A x \in Contexts \ {c} : frame'[x] = frame[x]
  BY <1>2, <1>3 DEF Children, IInv, TypeOK, Contexts
<1>5. MutatorRoots' \subseteq Live
  <2>1. \A x \in Running' \cup {Main} : frame'[x] \subseteq Live
    BY <1>1, <1>4, HeldIsLive DEF Contexts, Running
  <2>2. QED
    BY <1>1, <1>2, <2>1, HeldIsLive, RootsNext DEF rootVars
<1>6. \A o \in Live : Children(o)' \subseteq Children(o)
  <2>1. ASSUME NEW o \in Live PROVE Children(o)' \subseteq Children(o)
    <3>1. CASE o = c
      BY <3>1 DEF Children, IInv, TypeOK
    <3>2. CASE o # c
      BY <3>2, <1>4 DEF Children, IInv, TypeOK, Contexts
    <3>3. QED BY <3>1, <3>2
  <2>2. QED BY <2>1
<1>7. QED
  BY <1>1, <1>5, <1>6, LiveIsClosed, Rewires DEF IInv

(* A coroutine leaves: its resumer gets a value that was live, and what    *)
(* the coroutine keeps was live.                                           *)
LEMMA LeaveMutates ==
  ASSUME IInv, TypeOK', NEW val \in SUBSET Obj, Yield(val) \/ Finish(val)
  PROVE  Abstract!Mutate
<1>1. Allocated' = Allocated /\ active \in Coros
  BY DEF Yield, Finish, listVars, Allocated
<1>2. Running' = Running \ {active}
  BY <1>1 DEF Yield, Finish, Running, IInv, TypeOK
<1>3. PICK r \in Contexts : r = resumer[active]
  BY <1>1 DEF IInv, TypeOK
<1>4. active' = r /\ r \in Running \cup {Main} /\ r # active
  BY <1>1, <1>3, ActiveSafe DEF Yield, Finish, LeaveCoroutine, IInv, ResumeInv
<1>5. val \subseteq Live /\ frame[r] \subseteq Live /\ frame[active] \subseteq Live
  BY <1>4, HeldIsLive DEF Yield, Finish
<1>6. /\ frame'[r] = frame[r] \cup val
      /\ frame'[active] \subseteq frame[active]
      /\ \A x \in Contexts \ {r, active} : frame'[x] = frame[x]
  BY <1>1, <1>3, <1>4 DEF Yield, Finish, IInv, TypeOK, Contexts
<1>7. yieldValue' \subseteq Live /\ UNCHANGED <<refs, globals, tempRoots>>
  BY <1>5, HeldIsLive DEF Yield, Finish, rootVars
<1>8. MutatorRoots' \subseteq Live
  <2>1. \A x \in Running' \cup {Main} : frame'[x] \subseteq Live
    BY <1>2, <1>5, <1>6, HeldIsLive DEF Contexts, Running
  <2>2. QED
    BY <1>2, <1>4, <1>7, <2>1, HeldIsLive, RootsNext
<1>9. \A o \in Live : Children(o)' \subseteq Live
  <2>1. ASSUME NEW o \in Live PROVE Children(o)' \subseteq Live
    <3>1. Children(o) \subseteq Live /\ refs[o] \subseteq Live
      BY LiveIsClosed DEF IInv, Children
    <3>2. CASE o = active
      BY <1>5, <1>6, <1>7, <3>1, <3>2 DEF Children
    <3>3. CASE o # active
      <4>1. o \in Coros => status'[o] = status[o]
        BY <1>1, <3>3 DEF Yield, Finish, IInv, TypeOK
      <4>2. o \in Coros /\ status[o] = "SUSPENDED" => frame'[o] = frame[o]
        BY <1>4, <1>6, <3>3 DEF Running, Contexts
      <4>3. QED
        BY <1>7, <3>1, <4>1, <4>2 DEF Children
    <3>4. QED BY <3>2, <3>3
  <2>2. QED BY <2>1
<1>10. QED
  BY <1>1, <1>8, <1>9, Rewires DEF IInv

-----------------------------------------------------------------------------
(* The steps of the collector.                                             *)

(* A step that leaves the program alone and destroys nothing stutters.     *)
LEMMA CollectorStutters ==
  ASSUME UNCHANGED programVars, Allocated' = Allocated
  PROVE  UNCHANGED Abstract!vars
<1>1. MutatorRoots' = MutatorRoots
  BY DEF programVars, coroVars, rootVars, MutatorRoots, GcRoots, LiveFrames, Running, TempObjs
<1>2. Edges' = Edges
  BY DEF programVars, coroVars, Edges, Children
<1>3. QED
  BY <1>1, <1>2 DEF Abstract!vars

(* sweepStep destroys an object the program cannot reach, and nothing      *)
(* else the program sees changes.                                          *)
LEMMA SweepFrees ==
  ASSUME IInv, TypeOK', NEW o \in Obj, SweepFree(o)
  PROVE  Abstract!Free
<1> USE DEF SweepFree
<1>1. o \in Allocated \ Safe /\ Allocated' = Allocated \ {o}
  BY DEF IInv, ListsDisjoint, Safe, Allocated
<1>2. o \notin Live /\ o \notin Running
  BY <1>1, LiveIsSafe, ActiveSafe
<1>3. MutatorRoots' = MutatorRoots
  <2>1. Running' = Running
    BY <1>2 DEF Running, IInv, TypeOK
  <2>2. \A c \in Running \cup {Main} : frame'[c] = frame[c]
    BY <1>2 DEF IInv, TypeOK, Contexts
  <2>3. LiveFrames' = LiveFrames
    BY <2>1, <2>2 DEF LiveFrames
  <2>4. QED
    BY <2>1, <2>3 DEF MutatorRoots, GcRoots, TempObjs, rootVars
<1>4. Edges' = [Edges EXCEPT ![o] = {}]
  <2>1. Children(o)' = {}
    BY DEF Children, IInv, TypeOK
  <2>2. ASSUME NEW x \in Obj \ {o} PROVE Children(x)' = Children(x)
    BY <2>2 DEF Children, IInv, TypeOK, Contexts
  <2>3. QED
    BY <2>1, <2>2 DEF Edges
<1>5. Abstract!Live = Live
  BY DEF Abstract!Live, Live, Abstract!ReachableFrom, ReachableFrom,
         Abstract!IsClosed, IsClosed
<1>6. QED
  BY <1>1, <1>2, <1>3, <1>4, <1>5 DEF Abstract!Free

(* Every step of the heap is one of the abstract heap or stutters.         *)
LEMMA StepRefines == IInv /\ TypeOK' /\ [Next]_vars => [Abstract!Next]_(Abstract!vars)
<1> SUFFICES ASSUME IInv, TypeOK', [Next]_vars
             PROVE  Abstract!Next \/ UNCHANGED Abstract!vars
  OBVIOUS
<1> USE DEF Abstract!Next
<1>1. CASE \E o \in Obj, R \in SUBSET Obj : Alloc(o, R)
  BY <1>1, AllocMutates
<1>2. CASE AllocOther
  BY <1>2, CollectorStutters DEF AllocOther, programVars, listVars, Allocated
<1>3. ASSUME NEW o \in Obj, NEW v \in Obj,
             Load(v) \/ Drop(v) \/ Store(o, v) \/ Erase(o, v)
      PROVE  Abstract!Next
  BY <1>3, ObjectOpsMutate
<1>4. ASSUME NEW v \in Obj, SetGlobal(v) \/ DropGlobal(v) \/ NativeEnter(v)
      PROVE  Abstract!Next
  BY <1>4, RootOpsMutate
<1>5. CASE NativeReturn
  <2>1. PICK v : v \in Obj
    BY <1>5, PopSeq DEF NativeReturn, IInv, TypeOK
  <2>2. QED
    BY <1>5, <2>1, RootOpsMutate
<1>6. ASSUME NEW c \in Coros, NEW arg \in SUBSET Obj, Resume(c, arg)
      PROVE  Abstract!Next
  BY <1>6, ResumeMutates
<1>7. ASSUME NEW val \in SUBSET Obj, Yield(val) \/ Finish(val) PROVE Abstract!Next
  BY <1>7, LeaveMutates
<1>8. CASE Safepoint
  BY <1>8, CollectorStutters DEF Safepoint, listVars, Allocated
<1>9. ASSUME NEW o \in Obj, MarkOne(o) \/ FinishOne(o) \/ SweepKeep(o)
      PROVE  UNCHANGED Abstract!vars
  <2>1. UNCHANGED programVars /\ Allocated' = Allocated
    BY <1>9 DEF MarkOne, FinishOne, SweepKeep, listVars, Allocated
  <2>2. QED
    BY <2>1, CollectorStutters
<1>10. CASE MarkPause \/ SweepPause \/ FinishBegin
  BY <1>10, CollectorStutters DEF MarkPause, SweepPause, FinishBegin, listVars, Allocated
<1>11. CASE SweepBegin \/ FinishCycle
  <2>1. UNCHANGED programVars /\ Allocated' = Allocated
    BY <1>11 DEF SweepBegin, FinishCycle, Allocated, IInv, PhaseInv
  <2>2. QED
    BY <2>1, CollectorStutters
<1>12. ASSUME NEW o \in Obj, SweepFree(o) PROVE Abstract!Next
  BY <1>12, SweepFrees
<1>13. CASE UNCHANGED vars
  BY <1>13, CollectorStutters DEF vars, listVars, programVars, Allocated
<1>14. QED
  BY <1>1, <1>2, <1>3, <1>4, <1>5, <1>6, <1>7, <1>8, <1>9, <1>10, <1>11, <1>12, <1>13
     DEF Next, Program, Collector

(* Every behaviour of the collector and its program is one of the abstract *)
(* heap: it frees only what the program cannot reach, and the program only *)
(* ever reaches what it could reach before or has just allocated.          *)
THEOREM Refines == Spec => ImplementsSafeHeap
<1>1. Init => Abstract!Init
  <2> SUFFICES ASSUME Init PROVE Abstract!Init
    OBVIOUS
  <2>1. Allocated = {} /\ MutatorRoots = {}
    BY DEF Init, Allocated, MutatorRoots, GcRoots, LiveFrames, Running, TempObjs, Contexts
  <2>2. Edges = [o \in Obj |-> {}]
    BY DEF Init, Edges, Children
  <2>3. QED
    BY <2>1, <2>2 DEF Abstract!Init
<1>2. IInv => TypeOK
  BY DEF IInv
<1>3. QED
  BY <1>1, <1>2, StepRefines, Invariant, PTL DEF Spec, ImplementsSafeHeap, Abstract!Spec
=============================================================================
