----------------------------- MODULE HeapProofs -----------------------------
(***************************************************************************)
(* Proofs about Heap for every set of objects, every set of coroutines and *)
(* every slice budget: the type invariant, the inductive invariant IInv,   *)
(* and that the program never reaches a freed object.                      *)
(***************************************************************************)
EXTENDS Heap, TLAPS

USE CorosAssumption, MainAssumption, BudgetAssumption, BoundsAssumption

(* A set that holds the roots and is closed under the edges holds every    *)
(* object reachable from them: the argument behind every use of Safe.      *)
LEMMA ReachableInClosed ==
  ASSUME NEW D, NEW edges, DOMAIN edges = D,
         NEW roots, NEW S \in SUBSET D,
         roots \subseteq S, IsClosed(S, edges)
  PROVE  ReachableFrom(roots, edges) \subseteq S
BY DEF ReachableFrom

(* Popping the GcRoot stack: the top entry and what is left below it.      *)
LEMMA PopSeq ==
  ASSUME NEW D, NEW s \in Seq(D), s # << >>
  PROVE  /\ s[Len(s)] \in D
         /\ SubSeq(s, 1, Len(s) - 1) \in Seq(D)
OBVIOUS

(* Any entry of the GcRoot stack is one of its declared entries.           *)
LEMMA EntryOfSeq ==
  ASSUME NEW D, NEW s \in Seq(D), NEW i \in DOMAIN s
  PROVE  s[i] \in D
OBVIOUS

(* The roots the collector marks are objects.                              *)
LEMMA RootsAreObjects == TypeOK => GcRoots \subseteq Obj
<1> SUFFICES ASSUME TypeOK PROVE GcRoots \subseteq Obj
  OBVIOUS
<1>1. TempObjs \subseteq Obj
  <2>1. ASSUME NEW i \in DOMAIN tempRoots PROVE tempRoots[i].obj \in Obj
    <3>1. tempRoots[i] \in [obj : Obj, ctx : Contexts]
      BY EntryOfSeq DEF TypeOK
    <3>2. QED BY <3>1
  <2>2. QED
    BY <2>1 DEF TempObjs
<1>2. LiveFrames \subseteq Obj
  BY DEF TypeOK, LiveFrames, Running, Contexts
<1>3. QED
  BY <1>1, <1>2 DEF GcRoots, TypeOK

(* Heap.tla: every action keeps the declared types of the collector's and  *)
(* the VM's state; in particular no slice overdraws its budget.            *)
LEMMA TypeInit == Init => TypeOK
<1> SUFFICES ASSUME Init PROVE TypeOK
  OBVIOUS
<1>1. /\ tempRoots \in Seq([obj : Obj, ctx : Contexts])
      /\ frame \in [Contexts -> SUBSET Obj]
  BY DEF Init
<1>2. /\ budget \in 0 .. (2 * StepBudget)
      /\ color \in [Obj -> {"WHITE", "GRAY", "BLACK"}]
  BY DEF Init
<1>3. /\ active \in Contexts
      /\ resumer \in [Coros -> Contexts]
      /\ status \in [Coros -> {"CREATED", "SUSPENDED", "RUNNING", "DEAD"}]
  BY DEF Init, Contexts
<1>4. QED
  BY <1>1, <1>2, <1>3 DEF Init, TypeOK

(* Every step of the program and of the collector keeps the types; a slice *)
(* never overdraws its budget.                                             *)
LEMMA TypeNext == TypeOK /\ [Next]_vars => TypeOK'
<1> SUFFICES ASSUME TypeOK, [Next]_vars PROVE TypeOK'
  OBVIOUS
<1> USE DEF TypeOK, Contexts
<1>1. ASSUME NEW o \in Obj, NEW R \in SUBSET Obj, Alloc(o, R) PROVE TypeOK'
  BY <1>1 DEF Alloc, RequestGC, Link, markVars, rootVars
<1>2. CASE AllocOther
  BY <1>2 DEF AllocOther, RequestGC, markVars, listVars, coroVars, rootVars
<1>3. ASSUME NEW v \in Obj, Load(v) \/ Drop(v) PROVE TypeOK'
  BY <1>3 DEF Load, Drop, gcVars, markVars, listVars, coroVars, rootVars
<1>4. ASSUME NEW o \in Obj, NEW v \in Obj, Store(o, v) \/ Erase(o, v) PROVE TypeOK'
  BY <1>4 DEF Store, Shade, MarkObjects, Erase, gcVars, markVars, listVars, coroVars, rootVars
<1>5. ASSUME NEW v \in Obj, SetGlobal(v) \/ DropGlobal(v) PROVE TypeOK'
  BY <1>5 DEF SetGlobal, DropGlobal, gcVars, markVars, listVars, coroVars
<1>6. ASSUME NEW v \in Obj, NativeEnter(v) PROVE TypeOK'
  BY <1>6 DEF NativeEnter, gcVars, markVars, listVars, coroVars
<1>7. CASE NativeReturn
  <2>1. /\ tempRoots[Len(tempRoots)] \in [obj : Obj, ctx : Contexts]
        /\ tempRoots' \in Seq([obj : Obj, ctx : Contexts])
    BY <1>7, PopSeq DEF NativeReturn
  <2>2. frame' \in [Contexts -> SUBSET Obj]
    BY <1>7, <2>1 DEF NativeReturn
  <2>3. QED
    BY <1>7, <2>1, <2>2 DEF NativeReturn, gcVars, markVars, listVars, coroVars
<1>8. ASSUME NEW c \in Coros, NEW arg \in SUBSET Obj, Resume(c, arg) PROVE TypeOK'
  BY <1>8 DEF Resume, gcVars, markVars, listVars, rootVars
<1>9. ASSUME NEW val \in SUBSET Obj, Yield(val) PROVE TypeOK'
  BY <1>9 DEF Yield, LeaveCoroutine, gcVars, markVars, listVars, rootVars
<1>10. ASSUME NEW val \in SUBSET Obj, Finish(val) PROVE TypeOK'
  BY <1>10 DEF Finish, LeaveCoroutine, gcVars, markVars, listVars, rootVars
<1>11. CASE Safepoint
  <2>1. /\ color' \in [Obj -> {"WHITE", "GRAY", "BLACK"}]
        /\ worklist' \subseteq Obj
    BY <1>11, RootsAreObjects DEF Safepoint, MarkObjects, markVars
  <2>2. /\ phase' \in {"IDLE", "MARK", "SWEEP"}
        /\ pc' \in {"PROGRAM", "MARK", "FINISH", "SWEEP"}
        /\ gcPending' \in BOOLEAN
    BY <1>11 DEF Safepoint
  <2>3. budget' \in 0 .. (2 * StepBudget)
    <3>1. budget' \in {budget, StepBudget, 2 * StepBudget}
      BY <1>11 DEF Safepoint
    <3>2. QED
      BY <3>1
  <2>4. QED
    BY <1>11, <2>1, <2>2, <2>3 DEF Safepoint, listVars, programVars, coroVars, rootVars
<1>12. ASSUME NEW o \in Obj, MarkOne(o) \/ FinishOne(o) PROVE TypeOK'
  <2>1. color' \in [Obj -> {"WHITE", "GRAY", "BLACK"}] /\ worklist' \subseteq Obj
    BY <1>12 DEF MarkOne, FinishOne, Scan, Children
  <2>2. QED
    BY <1>12, <2>1 DEF MarkOne, FinishOne, gcVars, listVars, programVars, coroVars, rootVars
<1>13. CASE MarkPause \/ SweepPause
  BY <1>13 DEF MarkPause, SweepPause, markVars, listVars, programVars, coroVars, rootVars
<1>14. CASE FinishBegin
  BY <1>14, RootsAreObjects DEF FinishBegin, MarkObjects, listVars, programVars, coroVars, rootVars
<1>15. CASE SweepBegin
  BY <1>15 DEF SweepBegin, markVars, programVars, coroVars, rootVars
<1>16. ASSUME NEW o \in Obj, SweepKeep(o) PROVE TypeOK'
  BY <1>16 DEF SweepKeep, programVars, coroVars, rootVars
<1>17. ASSUME NEW o \in Obj, SweepFree(o) PROVE TypeOK'
  BY <1>17 DEF SweepFree, markVars, rootVars
<1>18. CASE FinishCycle
  BY <1>18 DEF FinishCycle, markVars, programVars, coroVars, rootVars
<1>19. CASE UNCHANGED vars
  BY <1>19 DEF vars, gcVars, markVars, listVars, coroVars, rootVars
<1>20. QED
  BY <1>1, <1>2, <1>3, <1>4, <1>5, <1>6, <1>7, <1>8, <1>9, <1>10, <1>11, <1>12,
     <1>13, <1>14, <1>15, <1>16, <1>17, <1>18, <1>19
     DEF Next, Program, Collector

(* The state of the collector and of the program always has the types the  *)
(* source declares.                                                        *)
THEOREM TypeCorrect == Spec => []TypeOK
BY TypeInit, TypeNext, PTL DEF Spec

-----------------------------------------------------------------------------
(* The inductive invariant.                                                *)

(* The empty heap satisfies the invariant.                                 *)
LEMMA InvInit == Init => IInv
<1> SUFFICES ASSUME Init PROVE IInv
  OBVIOUS
<1>1. TypeOK
  BY TypeInit
<1>2. ListsDisjoint /\ PhaseInv /\ WhiteInv
  BY DEF Init, ListsDisjoint, PhaseInv, WhiteInv, White
<1>3. RootInv /\ ClosureInv
  BY DEF Init, RootInv, ClosureInv, Safe, Running, Contexts
<1>4. MarkInv /\ ResumeInv
  BY MainAssumption DEF Init, MarkInv, ResumeInv, Running
<1>5. QED
  BY <1>1, <1>2, <1>3, <1>4 DEF IInv

(* The running context and the running coroutine are safe.                 *)
LEMMA ActiveSafe ==
  ASSUME IInv
  PROVE  /\ active \in Running \cup {Main}
         /\ frame[active] \subseteq Safe
         /\ Running \subseteq Safe
         /\ active \in Coros => active \in Safe
BY DEF IInv, TypeOK, Contexts, RootInv, ResumeInv

(* A step of the program that touches neither the lists nor the colours    *)
(* leaves the collector's own part of the invariant alone.                 *)
LEMMA CollectorUntouched ==
  ASSUME IInv, UNCHANGED <<gcVars, markVars, listVars>>
  PROVE  /\ ListsDisjoint' /\ PhaseInv' /\ WhiteInv'
         /\ Safe' = Safe
BY DEF IInv, gcVars, markVars, listVars, ListsDisjoint, PhaseInv, WhiteInv,
       White, Safe, Allocated

(* A program step that gives no object a new child, and changes no colour, *)
(* cannot make a black object refer to a white one.                        *)
LEMMA MarkUntouched ==
  ASSUME IInv, InProgram, UNCHANGED <<gcVars, markVars>>,
         \A o \in Obj : Children(o)' \subseteq Children(o)
  PROVE  MarkInv'
BY DEF IInv, gcVars, markVars, InProgram, MarkInv, White

(* A read reaches an element of a safe object or a global, so the stack    *)
(* stays safe.                                                             *)
LEMMA InvLoad ==
  ASSUME IInv, TypeOK', NEW v \in Obj, Load(v)
  PROVE  IInv'
<1> USE DEF Load
<1>1. v \in Safe
  <2>1. CASE v \in globals
    BY <2>1 DEF IInv, RootInv
  <2>2. ASSUME NEW o \in frame[active] \ Coros, v \in refs[o] PROVE v \in Safe
    BY <2>2, ActiveSafe DEF IInv, ClosureInv, Children
  <2>3. QED
    BY <2>1, <2>2
<1>2. ListsDisjoint' /\ PhaseInv' /\ WhiteInv' /\ Safe' = Safe
  BY CollectorUntouched
<1>3. \A o \in Obj : Children(o)' \subseteq Children(o)
  BY ActiveSafe DEF IInv, TypeOK, Contexts, Children, coroVars, Running
<1>4. RootInv'
  BY <1>1, <1>2, ActiveSafe DEF IInv, TypeOK, RootInv, coroVars, rootVars, Running, Contexts
<1>5. ClosureInv'
  BY <1>2, <1>3 DEF IInv, TypeOK, ClosureInv, markVars, Safe
<1>6. MarkInv'
  BY <1>3, MarkUntouched
<1>7. ResumeInv'
  BY DEF IInv, TypeOK, ResumeInv, coroVars, Running, Contexts
<1>8. QED
  BY <1>2, <1>4, <1>5, <1>6, <1>7 DEF IInv

(* Popping the stack takes a root away and adds nothing.                   *)
LEMMA InvDrop ==
  ASSUME IInv, TypeOK', NEW v \in Obj, Drop(v)
  PROVE  IInv'
<1> USE DEF Drop
<1>1. ListsDisjoint' /\ PhaseInv' /\ WhiteInv' /\ Safe' = Safe
  BY CollectorUntouched
<1>2. \A o \in Obj : Children(o)' \subseteq Children(o)
  BY ActiveSafe DEF IInv, TypeOK, Contexts, Children, coroVars, Running
<1>3. RootInv'
  BY <1>1, ActiveSafe DEF IInv, TypeOK, RootInv, coroVars, rootVars, Running, Contexts
<1>4. ClosureInv'
  BY <1>1, <1>2 DEF IInv, TypeOK, ClosureInv, markVars, Safe
<1>5. MarkInv'
  BY <1>2, MarkUntouched
<1>6. ResumeInv'
  BY DEF IInv, TypeOK, ResumeInv, coroVars, Running, Contexts
<1>7. QED
  BY <1>1, <1>3, <1>4, <1>5, <1>6 DEF IInv

(* A global takes a value from the stack, which is safe; no barrier is     *)
(* needed because the atomic finish marks the globals again.               *)
LEMMA InvGlobal ==
  ASSUME IInv, TypeOK', NEW v \in Obj, SetGlobal(v) \/ DropGlobal(v)
  PROVE  IInv'
<1>1. UNCHANGED <<gcVars, markVars, listVars, refs, frame, coroVars, tempRoots>>
  BY DEF SetGlobal, DropGlobal
<1>2. ListsDisjoint' /\ PhaseInv' /\ WhiteInv' /\ Safe' = Safe
  BY <1>1, CollectorUntouched
<1>3. \A o \in Obj : Children(o)' \subseteq Children(o)
  BY <1>1 DEF Children, coroVars
<1>4. globals' \subseteq Safe
  BY ActiveSafe DEF SetGlobal, DropGlobal, IInv, RootInv
<1>5. RootInv'
  BY <1>1, <1>2, <1>4 DEF IInv, RootInv, coroVars, Running
<1>6. ClosureInv'
  BY <1>1, <1>2, <1>3 DEF IInv, TypeOK, ClosureInv, markVars, Safe
<1>7. MarkInv'
  BY <1>1, <1>3, MarkUntouched DEF SetGlobal, DropGlobal
<1>8. ResumeInv'
  BY <1>1 DEF IInv, ResumeInv, coroVars, Running
<1>9. QED
  BY <1>2, <1>5, <1>6, <1>7, <1>8 DEF IInv

(* A GcRoot holds a value of the stack, which is safe.                     *)
LEMMA InvNativeEnter ==
  ASSUME IInv, TypeOK', NEW v \in Obj, NativeEnter(v)
  PROVE  IInv'
<1> USE DEF NativeEnter
<1>1. ListsDisjoint' /\ PhaseInv' /\ WhiteInv' /\ Safe' = Safe
  BY CollectorUntouched
<1>2. \A o \in Obj : Children(o)' \subseteq Children(o)
  BY DEF Children, coroVars
<1>3. ASSUME NEW i \in DOMAIN tempRoots' PROVE tempRoots'[i].obj \in Safe
  <2>1. v \in Safe
    BY ActiveSafe
  <2>2. \/ i \in DOMAIN tempRoots /\ tempRoots'[i] = tempRoots[i]
        \/ tempRoots'[i] = [obj |-> v, ctx |-> active]
    BY <1>3 DEF IInv, TypeOK
  <2>3. QED
    BY <2>1, <2>2 DEF IInv, RootInv
<1>4. RootInv'
  BY <1>1, <1>3 DEF IInv, RootInv, coroVars, Running
<1>5. ClosureInv'
  BY <1>1, <1>2 DEF IInv, TypeOK, ClosureInv, markVars, Safe
<1>6. MarkInv'
  BY <1>2, MarkUntouched
<1>7. ResumeInv'
  BY DEF IInv, ResumeInv, coroVars, Running
<1>8. QED
  BY <1>1, <1>4, <1>5, <1>6, <1>7 DEF IInv

(* A native gives its rooted object back to the stack of its context.      *)
LEMMA InvNativeReturn ==
  ASSUME IInv, TypeOK', NativeReturn
  PROVE  IInv'
<1> USE DEF NativeReturn
<1>1. ListsDisjoint' /\ PhaseInv' /\ WhiteInv' /\ Safe' = Safe
  BY CollectorUntouched
<1> DEFINE top == tempRoots[Len(tempRoots)]
<1>2. top.obj \in Safe
  <2>1. Len(tempRoots) \in DOMAIN tempRoots
    BY DEF IInv, TypeOK
  <2>2. QED
    BY <2>1 DEF IInv, RootInv
<1>3. \A i \in DOMAIN tempRoots' : i \in DOMAIN tempRoots /\ tempRoots'[i] = tempRoots[i]
  BY DEF IInv, TypeOK
<1>4. frame' = [frame EXCEPT ![active] = @ \cup {top.obj}]
  OBVIOUS
<1> HIDE DEF top
<1>5. \A o \in Obj : Children(o)' \subseteq Children(o)
  BY <1>4, ActiveSafe DEF IInv, TypeOK, Contexts, Children, coroVars, Running
<1>6. RootInv'
  BY <1>1, <1>2, <1>3, <1>4, ActiveSafe DEF IInv, TypeOK, RootInv, coroVars, Running, Contexts
<1>7. ClosureInv'
  BY <1>1, <1>5 DEF IInv, TypeOK, ClosureInv, markVars, Safe
<1>8. MarkInv'
  BY <1>5, MarkUntouched
<1>9. ResumeInv'
  BY <1>4 DEF IInv, TypeOK, ResumeInv, coroVars, Running, Contexts
<1>10. QED
  BY <1>1, <1>6, <1>7, <1>8, <1>9 DEF IInv

(* Removing a reference needs no barrier: it only takes children away.     *)
LEMMA InvErase ==
  ASSUME IInv, TypeOK', NEW o \in Obj, NEW v \in Obj, Erase(o, v)
  PROVE  IInv'
<1> USE DEF Erase
<1>1. ListsDisjoint' /\ PhaseInv' /\ WhiteInv' /\ Safe' = Safe
  BY CollectorUntouched
<1>2. \A x \in Obj : Children(x)' \subseteq Children(x)
  BY DEF IInv, TypeOK, Children, coroVars
<1>3. RootInv'
  BY <1>1 DEF IInv, RootInv, coroVars, rootVars, Running
<1>4. ClosureInv'
  BY <1>1, <1>2 DEF IInv, TypeOK, ClosureInv, markVars, Safe
<1>5. MarkInv'
  BY <1>2, MarkUntouched
<1>6. ResumeInv'
  BY DEF IInv, ResumeInv, coroVars, Running
<1>7. QED
  BY <1>1, <1>3, <1>4, <1>5, <1>6 DEF IInv

(* The barrier at work: the stored child is not white while marking.       *)
LEMMA InvStore ==
  ASSUME IInv, TypeOK', NEW o \in Obj, NEW v \in Obj, Store(o, v)
  PROVE  IInv'
<1> USE DEF Store
<1>1. o \in Safe /\ v \in Safe
  BY ActiveSafe
<1>2. /\ \A x \in Obj :
           \/ color'[x] = color[x]
           \/ phase = "MARK" /\ x = v /\ color[x] = "WHITE" /\ color'[x] = "GRAY"
      /\ worklist' = worklist \cup (IF phase = "MARK" /\ White(v) THEN {v} ELSE {})
  <2> DEFINE S == IF phase = "MARK" THEN {v} ELSE {}
  <2>1. /\ color' = [x \in Obj |-> IF x \in S /\ White(x) THEN "GRAY" ELSE color[x]]
        /\ worklist' = worklist \cup {x \in S : White(x)}
    BY DEF Shade, MarkObjects
  <2>2. ASSUME NEW x \in Obj
        PROVE  \/ color'[x] = color[x]
               \/ phase = "MARK" /\ x = v /\ color[x] = "WHITE" /\ color'[x] = "GRAY"
    BY <2>1 DEF White
  <2>3. {x \in S : White(x)} = IF phase = "MARK" /\ White(v) THEN {v} ELSE {}
    OBVIOUS
  <2>4. worklist' = worklist \cup (IF phase = "MARK" /\ White(v) THEN {v} ELSE {})
    BY <2>1, <2>3
  <2>5. QED
    BY <2>2, <2>4
<1>3. phase = "MARK" => ~White(v)' /\ Safe = main
  BY DEF Shade, MarkObjects, IInv, TypeOK, White, PhaseInv, Safe
<1>4. ListsDisjoint' /\ PhaseInv' /\ WhiteInv'
  BY <1>1, <1>2, <1>3 DEF IInv, TypeOK, ListsDisjoint, PhaseInv, WhiteInv, White,
     Allocated, gcVars, listVars, Safe
<1>5. Safe' = Safe
  BY <1>2, <1>3 DEF IInv, TypeOK, PhaseInv, Safe, White, gcVars, listVars
<1>6. \A x \in Obj : Children(x)' \subseteq Children(x) \cup (IF x = o THEN {v} ELSE {})
  BY DEF IInv, TypeOK, Children, coroVars
<1>7. RootInv'
  BY <1>5 DEF IInv, RootInv, coroVars, rootVars, Running
<1>8. ClosureInv'
  BY <1>1, <1>2, <1>5, <1>6 DEF IInv, TypeOK, ClosureInv, Safe
<1>9. MarkInv'
  <2> SUFFICES ASSUME phase = "MARK" PROVE MarkInv'
    BY DEF MarkInv, gcVars
  <2>1. \A x \in Obj : color'[x] = "GRAY" => x \in worklist'
    BY <1>2 DEF IInv, MarkInv, White
  <2>2. \A x \in Obj : color'[x] = "BLACK" => \A y \in Children(x)' : ~White(y)'
    BY <1>2, <1>3, <1>6 DEF IInv, TypeOK, MarkInv, White, Children, Contexts
  <2>3. QED
    BY <2>1, <2>2 DEF MarkInv, InProgram, gcVars
<1>10. ResumeInv'
  BY DEF IInv, ResumeInv, coroVars, Running
<1>11. QED
  BY <1>4, <1>7, <1>8, <1>9, <1>10 DEF IInv

(* A new object is white and nothing that exists refers to it.             *)
LEMMA InvAlloc ==
  ASSUME IInv, TypeOK', NEW o \in Obj, NEW R \in SUBSET Obj, Alloc(o, R)
  PROVE  IInv'
<1> USE DEF Alloc, RequestGC, Link
<1>1. /\ color' = color /\ worklist' = worklist /\ phase' = phase /\ pc' = pc
      /\ o \notin Safe /\ White(o)
  BY DEF markVars, IInv, WhiteInv, Safe, Allocated
<1>2. Safe' = Safe \cup {o}
  BY <1>1 DEF Safe, White, IInv, TypeOK
<1>3. ListsDisjoint' /\ PhaseInv' /\ WhiteInv'
  BY <1>1 DEF IInv, ListsDisjoint, PhaseInv, WhiteInv, White, Allocated
<1>4. Running' = Running \ {o}
  BY DEF Running, IInv, TypeOK
<1>5. o \notin Running
  BY <1>1, ActiveSafe
<1>6. RootInv'
  BY <1>2, <1>4, <1>5, ActiveSafe DEF IInv, TypeOK, RootInv, rootVars, Contexts
<1>7. Children(o)' = R
  BY DEF Children, IInv, TypeOK
<1>8. \A x \in Obj \ {o} : Children(x)' = Children(x)
  <2> SUFFICES ASSUME NEW x \in Obj \ {o} PROVE Children(x)' = Children(x)
    OBVIOUS
  <2>1. refs'[x] = refs[x]
    BY DEF IInv, TypeOK
  <2>2. x \in Coros => status'[x] = status[x]
    BY DEF IInv, TypeOK
  <2>3. x \in Coros /\ status[x] = "SUSPENDED" => frame'[x] = frame[x]
    BY ActiveSafe DEF IInv, TypeOK, Contexts, Running
  <2>4. QED
    BY <2>1, <2>2, <2>3 DEF Children
<1>9. ClosureInv'
  BY <1>1, <1>2, <1>7, <1>8, ActiveSafe DEF IInv, TypeOK, ClosureInv, Safe
<1>10. MarkInv'
  BY <1>1, <1>8 DEF IInv, TypeOK, MarkInv, White, InProgram
<1>11. ResumeInv'
  BY <1>4, <1>5 DEF IInv, TypeOK, ResumeInv, Contexts, Running
<1>12. QED
  BY <1>3, <1>6, <1>9, <1>10, <1>11 DEF IInv

(* An allocation elsewhere raises gcPending and nothing more.              *)
LEMMA InvAllocOther ==
  ASSUME IInv, TypeOK', AllocOther
  PROVE  IInv'
<1> USE DEF AllocOther, RequestGC
<1>1. UNCHANGED <<phase, pc, markVars, listVars, refs, frame, coroVars, rootVars>>
  OBVIOUS
<1>2. ListsDisjoint' /\ PhaseInv' /\ WhiteInv' /\ Safe' = Safe
  BY <1>1 DEF IInv, ListsDisjoint, PhaseInv, WhiteInv, White, Allocated, Safe, markVars, listVars
<1>3. Running' = Running /\ \A x \in Obj : Children(x)' = Children(x)
  BY <1>1 DEF Running, Children, coroVars
<1>4. RootInv' /\ ClosureInv' /\ ResumeInv'
  BY <1>1, <1>2, <1>3 DEF IInv, TypeOK, RootInv, ClosureInv, ResumeInv, Safe,
     markVars, coroVars, rootVars
<1>5. MarkInv'
  BY <1>1, <1>3 DEF IInv, MarkInv, White, InProgram, markVars
<1>6. QED
  BY <1>2, <1>4, <1>5 DEF IInv

(* Resuming moves a saved context from an object to the roots.             *)
LEMMA InvResume ==
  ASSUME IInv, TypeOK', NEW c \in Coros, NEW arg \in SUBSET Obj, Resume(c, arg)
  PROVE  IInv'
<1> USE DEF Resume
<1>1. ListsDisjoint' /\ PhaseInv' /\ WhiteInv' /\ Safe' = Safe
  BY CollectorUntouched
<1>2. c \in Safe /\ c \notin Running /\ Running' = Running \cup {c}
  BY ActiveSafe DEF IInv, TypeOK, Running
<1>3. frame'[c] \subseteq Safe
  <2>1. CASE status[c] = "CREATED"
    BY <1>2, <2>1, ActiveSafe DEF IInv, TypeOK, ClosureInv, Children, Contexts
  <2>2. CASE status[c] = "SUSPENDED"
    BY <1>2, <2>2, ActiveSafe DEF IInv, TypeOK, ClosureInv, Children, Contexts
  <2>3. QED
    BY <2>1, <2>2
<1>4. \A x \in Contexts \ {c} : frame'[x] = frame[x]
  BY DEF IInv, TypeOK
<1>5. \A x \in Obj : Children(x)' \subseteq Children(x)
  BY <1>4 DEF IInv, TypeOK, Children, Contexts
<1>6. RootInv'
  BY <1>1, <1>2, <1>3, <1>4 DEF IInv, RootInv, rootVars, Running, Contexts
<1>7. ClosureInv'
  BY <1>1, <1>5 DEF IInv, TypeOK, ClosureInv, markVars, Safe
<1>8. MarkInv'
  BY <1>5, MarkUntouched
<1>9. ResumeInv'
  <2>1. active' = c /\ c \in Running'
    BY <1>2
  <2>2. /\ c \in frame'[resumer'[c]]
        /\ resumer'[c] = active /\ active # c
    BY <1>2, <1>4, ActiveSafe DEF IInv, TypeOK, Contexts
  <2>3. ASSUME NEW d \in Running
        PROVE  /\ d \in frame'[resumer'[d]]
               /\ resumer'[d] \in Running \cup {Main}
               /\ resumer'[d] # active
    BY <1>2, <1>4 DEF IInv, TypeOK, ResumeInv, Running, Contexts
  <2>4. ASSUME NEW d \in Running, NEW e \in Running, resumer'[d] = resumer'[e]
        PROVE  d = e
    BY <1>2, <2>4 DEF IInv, TypeOK, ResumeInv, Running
  <2>5. QED
    BY <1>2, <2>1, <2>2, <2>3, <2>4, ActiveSafe, MainAssumption DEF ResumeInv, Running
<1>10. QED
  BY <1>1, <1>6, <1>7, <1>8, <1>9 DEF IInv

(* Both ways out of a coroutine, seen from its resumer.                    *)
LEMMA LeaveFacts ==
  ASSUME IInv, active \in Coros, LeaveCoroutine
  PROVE  /\ active' \in (Running \ {active}) \cup {Main}
         /\ active' = resumer[active]
         /\ \A d \in Running \ {active} :
              /\ resumer'[d] = resumer[d]
              /\ resumer[d] # active'
              /\ resumer[d] \in (Running \ {active}) \cup {Main}
BY MainAssumption DEF LeaveCoroutine, IInv, TypeOK, ResumeInv, Running

(* A coroutine that yields while black turns gray again, because its       *)
(* context becomes part of its payload (resumeCoroutine).                  *)
LEMMA InvYield ==
  ASSUME IInv, TypeOK', NEW val \in SUBSET Obj, Yield(val)
  PROVE  IInv'
<1> USE DEF Yield
<1>1. /\ active \in Running /\ active \in Safe
      /\ Running' = Running \ {active}
      /\ val \subseteq Safe
  BY ActiveSafe DEF IInv, TypeOK, ResumeInv, Running
<1>2. \A x \in Obj : \/ color'[x] = color[x]
                     \/ x = active /\ color[x] = "BLACK" /\ color'[x] = "GRAY"
  BY DEF markVars, IInv, TypeOK
<1>3. /\ worklist \subseteq worklist'
      /\ worklist' \subseteq worklist \cup {active}
      /\ color[active] = "BLACK" => active \in worklist' /\ color'[active] = "GRAY"
  BY DEF markVars, IInv, TypeOK
<1>4. ListsDisjoint' /\ PhaseInv'
  BY <1>2 DEF IInv, ListsDisjoint, PhaseInv, White, gcVars, listVars
<1>5. WhiteInv' /\ Safe' = Safe
  BY <1>2 DEF IInv, TypeOK, WhiteInv, White, Allocated, Safe, gcVars, listVars
<1>6. \A x \in Contexts : frame'[x] = frame[x] \cup (IF x = resumer[active] THEN val ELSE {})
  BY DEF IInv, TypeOK
<1>7. resumer[active] \in (Running \ {active}) \cup {Main}
  BY LeaveFacts
<1>8. RootInv'
  BY <1>1, <1>5, <1>6, <1>7 DEF IInv, TypeOK, RootInv, rootVars, Running, Contexts
<1>9. \A x \in Obj \ {active} : Children(x)' = Children(x)
  BY <1>6, <1>7 DEF IInv, TypeOK, Children, Running, Contexts
<1>10. ASSUME NEW x \in Obj, x = active PROVE Children(x)' \subseteq Safe
  <2>1. x \in Coros /\ status'[x] = "SUSPENDED" /\ refs' = refs
    BY <1>10 DEF IInv, TypeOK
  <2>2. frame'[x] = frame[x]
    BY <1>6, <1>7, <1>10, MainAssumption DEF IInv, TypeOK, Contexts
  <2>3. Children(x)' = refs[x] \cup frame[x]
    BY <2>1, <2>2 DEF Children
  <2>4. refs[x] \subseteq Safe
    BY <1>1, <1>10 DEF IInv, ClosureInv, Children
  <2>5. QED
    BY <1>10, <2>3, <2>4, ActiveSafe
<1>11. ClosureInv'
  <2>1. worklist' \subseteq Safe
    BY <1>1, <1>3 DEF IInv, ClosureInv
  <2>2. ASSUME NEW x \in Safe PROVE Children(x)' \subseteq Safe
    <3>1. x \in Obj
      BY DEF IInv, TypeOK, Safe
    <3>2. QED
      BY <1>9, <1>10, <3>1 DEF IInv, ClosureInv
  <2>3. QED
    BY <1>5, <2>1, <2>2 DEF ClosureInv
<1>12. MarkInv'
  <2> SUFFICES ASSUME phase = "MARK" PROVE MarkInv'
    BY DEF MarkInv, gcVars
  <2>1. \A x \in Obj : color'[x] = "GRAY" => x \in worklist'
    BY <1>2, <1>3 DEF IInv, MarkInv
  <2>2. \A x \in Obj : color'[x] = "BLACK" => \A y \in Children(x)' : ~White(y)'
    BY <1>2, <1>3, <1>9 DEF IInv, TypeOK, MarkInv, White, Children, Contexts
  <2>3. QED
    BY <2>1, <2>2 DEF MarkInv, InProgram, gcVars
<1>13. ResumeInv'
  BY <1>1, <1>6, LeaveFacts DEF IInv, TypeOK, ResumeInv, Running, Contexts
<1>14. QED
  BY <1>4, <1>5, <1>8, <1>11, <1>12, <1>13 DEF IInv

(* A coroutine that ends drops its context; its resumer gets a safe value. *)
LEMMA InvFinish ==
  ASSUME IInv, TypeOK', NEW val \in SUBSET Obj, Finish(val)
  PROVE  IInv'
<1> USE DEF Finish
<1>1. ListsDisjoint' /\ PhaseInv' /\ WhiteInv' /\ Safe' = Safe
  BY CollectorUntouched
<1>2. /\ active \in Running
      /\ Running' = Running \ {active}
      /\ val \subseteq Safe
  BY ActiveSafe DEF IInv, TypeOK, ResumeInv, Running
<1>3. resumer[active] \in (Running \ {active}) \cup {Main}
  BY LeaveFacts
<1>4. \A x \in Contexts \ {active} :
        frame'[x] = frame[x] \cup (IF x = resumer[active] THEN val ELSE {})
  BY <1>3 DEF IInv, TypeOK
<1>5. \A x \in Obj : Children(x)' \subseteq Children(x)
  BY <1>3, <1>4 DEF IInv, TypeOK, Children, Contexts, Running
<1>6. RootInv'
  BY <1>1, <1>2, <1>3, <1>4, MainAssumption DEF IInv, TypeOK, RootInv, rootVars, Running, Contexts
<1>7. ClosureInv'
  BY <1>1, <1>5 DEF IInv, TypeOK, ClosureInv, markVars, Safe
<1>8. MarkInv'
  BY <1>5, MarkUntouched
<1>9. ResumeInv'
  BY <1>2, <1>4, LeaveFacts, MainAssumption DEF IInv, TypeOK, ResumeInv, Running, Contexts
<1>10. QED
  BY <1>1, <1>6, <1>7, <1>8, <1>9 DEF IInv

(* A step of the collector that destroys nothing changes no edge and no    *)
(* root; what is left to check is the safe set and the colours.            *)
LEMMA ProgramUntouched ==
  ASSUME IInv, UNCHANGED programVars
  PROVE  /\ Running' = Running
         /\ \A x \in Obj : Children(x)' = Children(x)
         /\ GcRoots' = GcRoots
         /\ ResumeInv'
         /\ Safe' = Safe => RootInv'
BY DEF IInv, programVars, coroVars, rootVars, Running, Children, GcRoots,
       LiveFrames, TempObjs, ResumeInv, RootInv

(* What a root scan finds is safe.                                         *)
LEMMA RootsSafe ==
  ASSUME IInv
  PROVE  GcRoots \subseteq Safe
<1>1. LiveFrames \subseteq Safe
  BY DEF IInv, RootInv, LiveFrames
<1>2. TempObjs \subseteq Safe
  BY DEF IInv, RootInv, TempObjs
<1>3. {active} \cap Obj \subseteq Safe
  BY ActiveSafe, MainAssumption DEF IInv, TypeOK, Contexts
<1>4. QED
  BY <1>1, <1>2, <1>3 DEF IInv, RootInv, GcRoots

(* A set that holds what the scan finds holds what RootInv asks for.       *)
LEMMA RootsCover ==
  ASSUME NEW S, GcRoots \subseteq S
  PROVE  /\ \A c \in Running \cup {Main} : frame[c] \subseteq S
         /\ globals \subseteq S
         /\ yieldValue \subseteq S
         /\ \A i \in DOMAIN tempRoots : tempRoots[i].obj \in S
<1>1. LiveFrames \subseteq S /\ TempObjs \subseteq S
  BY DEF GcRoots
<1>2. \A c \in Running \cup {Main} : frame[c] \subseteq S
  BY <1>1 DEF LiveFrames
<1>3. \A i \in DOMAIN tempRoots : tempRoots[i].obj \in S
  BY <1>1 DEF TempObjs
<1>4. QED
  BY <1>2, <1>3 DEF GcRoots

(* Marking safe objects grays white ones and queues them, no more.         *)
LEMMA MarkFacts ==
  ASSUME TypeOK, NEW S, MarkObjects(S)
  PROVE  /\ \A x \in Obj :
              \/ color'[x] = color[x] /\ (x \in S => color[x] # "WHITE")
              \/ x \in S /\ color[x] = "WHITE" /\ color'[x] = "GRAY" /\ x \in worklist'
         /\ worklist \subseteq worklist'
         /\ worklist' \subseteq worklist \cup S
BY DEF TypeOK, MarkObjects, White

(* A safepoint starts a cycle by graying the roots, or starts a slice.     *)
LEMMA InvSafepoint ==
  ASSUME IInv, TypeOK', Safepoint
  PROVE  IInv'
<1> USE DEF Safepoint
<1>1. CASE phase # "IDLE"
  <2>1. UNCHANGED <<phase, markVars, listVars, programVars>> /\ pc' = phase
    BY <1>1
  <2>2. ListsDisjoint' /\ PhaseInv' /\ WhiteInv' /\ Safe' = Safe
    BY <1>1, <2>1 DEF IInv, TypeOK, ListsDisjoint, PhaseInv, WhiteInv, White, Allocated,
       Safe, markVars, listVars
  <2>3. ClosureInv'
    BY <2>1, <2>2, ProgramUntouched DEF IInv, TypeOK, ClosureInv, Safe, markVars
  <2>4. MarkInv'
    BY <1>1, <2>1, ProgramUntouched DEF IInv, TypeOK, MarkInv, White, markVars
  <2>5. QED
    BY <2>1, <2>2, <2>3, <2>4, ProgramUntouched DEF IInv
<1>2. CASE phase = "IDLE"
  <2>1. /\ phase' = "MARK" /\ pc' = "PROGRAM"
        /\ MarkObjects(GcRoots)
        /\ UNCHANGED <<listVars, programVars>>
    BY <1>2 DEF InProgram
  <2>2. /\ Safe = main /\ todo = {} /\ newborn = {}
        /\ \A x \in Obj : White(x)
    BY <1>2 DEF IInv, PhaseInv, Safe
  <2>3. \A x \in Obj : color'[x] # "WHITE" => x \in GcRoots /\ color'[x] = "GRAY" /\ x \in worklist'
    BY <2>1, <2>2, MarkFacts DEF IInv, White
  <2>4. Safe' = Safe /\ ListsDisjoint' /\ PhaseInv'
    BY <2>1, <2>2 DEF IInv, ListsDisjoint, PhaseInv, Safe, listVars
  <2>5. WhiteInv'
    BY <2>1, <2>2, <2>3, RootsSafe DEF WhiteInv, White, Allocated, listVars
  <2>6. ClosureInv'
    BY <2>1, <2>4, ProgramUntouched, RootsSafe, MarkFacts DEF IInv, TypeOK, ClosureInv, Safe
  <2>7. MarkInv'
    BY <2>1, <2>3 DEF MarkInv
  <2>8. QED
    BY <2>1, <2>4, <2>5, <2>6, <2>7, ProgramUntouched DEF IInv
<1>3. QED
  BY <1>1, <1>2

(* One iteration of a mark loop.                                           *)
LEMMA InvScan ==
  ASSUME IInv, TypeOK', NEW o \in worklist, Scan(o),
         phase = "MARK", pc \in {"MARK", "FINISH"},
         UNCHANGED <<phase, pc, listVars, programVars>>
  PROVE  IInv'
<1>1. /\ o \in Obj /\ o \in Safe
      /\ Safe = main /\ todo = {} /\ newborn = {}
  BY DEF IInv, TypeOK, ClosureInv, PhaseInv, Safe
<1>2. /\ color'[o] = "BLACK"
      /\ \A x \in Obj \ {o} :
           \/ x \in Children(o) /\ White(x) /\ color'[x] = "GRAY" /\ x \in worklist'
           \/ ~(x \in Children(o) /\ White(x)) /\ color'[x] = color[x]
      /\ worklist \ {o} \subseteq worklist'
      /\ worklist' \subseteq worklist \cup Children(o)
  <2> DEFINE gray == {x \in Children(o) : White(x) /\ x # o}
  <2>1. /\ color' = [x \in Obj |-> IF x = o THEN "BLACK"
                                   ELSE IF x \in gray THEN "GRAY" ELSE color[x]]
        /\ worklist' = (worklist \ {o}) \cup gray
    BY DEF Scan
  <2>2. QED
    BY <1>1, <2>1
<1>3. Children(o) \subseteq Safe
  BY <1>1 DEF IInv, ClosureInv
<1>4. Safe' = Safe /\ ListsDisjoint' /\ PhaseInv'
  BY <1>1 DEF IInv, ListsDisjoint, PhaseInv, Safe, listVars
<1>5. WhiteInv'
  BY <1>1, <1>2, <1>3 DEF IInv, WhiteInv, White, Allocated, listVars
<1>6. ClosureInv'
  BY <1>2, <1>3, <1>4, ProgramUntouched DEF IInv, TypeOK, ClosureInv, Safe
<1>7. MarkInv'
  <2>1. \A x \in Obj : color'[x] = "GRAY" => x \in worklist'
    BY <1>2 DEF IInv, MarkInv
  <2>2. \A x \in Obj : ~White(x) => ~White(x)'
    BY <1>2 DEF White
  <2>3. ASSUME NEW x \in Obj, color'[x] = "BLACK", NEW y \in Children(x)'
        PROVE  ~White(y)'
    <3>1. y \in Children(x) /\ y \in Obj
      BY <2>3, ProgramUntouched DEF IInv, TypeOK, Children, Contexts
    <3>2. CASE x = o
      BY <1>2, <3>1, <3>2 DEF White
    <3>3. CASE x # o
      BY <1>2, <2>2, <2>3, <3>1, <3>3 DEF IInv, MarkInv
    <3>4. QED
      BY <3>2, <3>3
  <2>4. pc = "FINISH" => \A x \in GcRoots' : ~White(x)'
    BY <2>2, ProgramUntouched, RootsAreObjects DEF IInv, MarkInv
  <2>5. QED
    BY <2>1, <2>3, <2>4 DEF MarkInv
<1>8. QED
  BY <1>4, <1>5, <1>6, <1>7, ProgramUntouched DEF IInv

(* A slice that runs out of budget leaves everything as it is.             *)
LEMMA InvPause ==
  ASSUME IInv, TypeOK', MarkPause \/ SweepPause
  PROVE  IInv'
<1>1. UNCHANGED <<phase, markVars, listVars, programVars>> /\ pc' = "PROGRAM"
  BY DEF MarkPause, SweepPause
<1>2. ListsDisjoint' /\ PhaseInv' /\ WhiteInv' /\ Safe' = Safe
  BY <1>1 DEF IInv, ListsDisjoint, PhaseInv, WhiteInv, White, Allocated, Safe,
     markVars, listVars
<1>3. ClosureInv'
  BY <1>1, <1>2, ProgramUntouched DEF IInv, TypeOK, ClosureInv, Safe, markVars
<1>4. MarkInv'
  BY <1>1, ProgramUntouched DEF IInv, MarkInv, White, markVars
<1>5. QED
  BY <1>1, <1>2, <1>3, <1>4, ProgramUntouched DEF IInv

(* The atomic finish: stacks have no barrier, so the roots are marked a    *)
(* second time before anything is swept.                                   *)
LEMMA InvFinishBegin ==
  ASSUME IInv, TypeOK', FinishBegin
  PROVE  IInv'
<1> USE DEF FinishBegin
<1>1. /\ phase = "MARK" /\ phase' = "MARK"
      /\ Safe = main /\ todo = {} /\ newborn = {}
  BY DEF IInv, PhaseInv, Safe
<1>2. Safe' = Safe /\ ListsDisjoint' /\ PhaseInv'
  BY <1>1 DEF IInv, ListsDisjoint, PhaseInv, Safe, listVars
<1>3. WhiteInv'
  BY <1>1, MarkFacts, RootsSafe DEF IInv, WhiteInv, White, Allocated, listVars
<1>4. ClosureInv'
  BY <1>2, ProgramUntouched, RootsSafe, MarkFacts DEF IInv, TypeOK, ClosureInv, Safe
<1>5. MarkInv'
  <2>1. \A x \in Obj : color'[x] = "GRAY" => x \in worklist'
    BY <1>1, MarkFacts DEF IInv, MarkInv
  <2>2. ASSUME NEW x \in Obj, color'[x] = "BLACK", NEW y \in Children(x)'
        PROVE  ~White(y)'
    <3>1. y \in Children(x) /\ y \in Obj
      BY <2>2, ProgramUntouched DEF IInv, TypeOK, Children, Contexts
    <3>2. color[x] = "BLACK"
      BY <2>2, MarkFacts DEF IInv
    <3>3. QED
      BY <1>1, <3>1, <3>2, MarkFacts DEF IInv, MarkInv, White
  <2>3. \A x \in GcRoots' : ~White(x)'
    BY ProgramUntouched, RootsAreObjects, MarkFacts DEF IInv, White
  <2>4. QED
    BY <2>1, <2>2, <2>3 DEF MarkInv
<1>6. QED
  BY <1>2, <1>3, <1>4, <1>5, ProgramUntouched DEF IInv

(* The gray set is empty and the roots are marked: what is black is closed *)
(* and holds the roots, so it alone is safe from now on.                   *)
LEMMA InvSweepBegin ==
  ASSUME IInv, TypeOK', SweepBegin
  PROVE  IInv'
<1> USE DEF SweepBegin
<1>1. /\ phase = "MARK" /\ worklist = {} /\ worklist' = {} /\ color' = color
      /\ todo = {} /\ newborn = {} /\ newborn' = {}
  BY DEF IInv, PhaseInv, markVars
<1>2. /\ \A x \in Obj : ~White(x) => color[x] = "BLACK" /\ x \in main
      /\ \A x \in GcRoots : ~White(x)
  BY <1>1 DEF IInv, TypeOK, MarkInv, WhiteInv, White, Allocated
<1>3. Safe' = {x \in Obj : ~White(x)}
  BY <1>1, <1>2 DEF Safe, White, IInv, TypeOK
<1>4. ListsDisjoint' /\ PhaseInv'
  BY <1>1 DEF ListsDisjoint, PhaseInv
<1>5. WhiteInv'
  BY <1>1, <1>2 DEF WhiteInv, White, Allocated
<1>6. RootInv'
  <2>1. GcRoots \subseteq Safe'
    BY <1>2, <1>3, RootsAreObjects DEF IInv
  <2>2. QED
    BY <2>1, RootsCover, ProgramUntouched DEF RootInv, programVars, coroVars, rootVars, Running
<1>7. ASSUME NEW x \in Safe' PROVE Children(x)' \subseteq Safe'
  <2>1. x \in Obj /\ color[x] = "BLACK" /\ Children(x)' = Children(x)
    BY <1>2, <1>3, ProgramUntouched
  <2>2. Children(x) \subseteq Obj
    BY <2>1 DEF IInv, TypeOK, Children, Contexts
  <2>3. QED
    BY <1>1, <1>3, <2>1, <2>2 DEF IInv, MarkInv
<1>8. ClosureInv'
  BY <1>1, <1>7 DEF ClosureInv
<1>9. MarkInv'
  BY DEF MarkInv
<1>10. QED
  BY <1>4, <1>5, <1>6, <1>8, <1>9, ProgramUntouched DEF IInv

(* The sweep keeps a coloured object: it is white and behind the cursor.   *)
LEMMA InvSweepKeep ==
  ASSUME IInv, TypeOK', NEW o \in Obj, SweepKeep(o)
  PROVE  IInv'
<1> USE DEF SweepKeep
<1>1. /\ phase = "SWEEP" /\ phase' = "SWEEP"
      /\ \A x \in Obj \ {o} : color'[x] = color[x]
      /\ color'[o] = "WHITE"
  BY DEF IInv, TypeOK, PhaseInv
<1>2. ListsDisjoint' /\ PhaseInv'
  BY <1>1 DEF IInv, ListsDisjoint, PhaseInv
<1>3. WhiteInv' /\ Safe' = Safe
  BY <1>1 DEF IInv, TypeOK, WhiteInv, White, Allocated, Safe
<1>4. ClosureInv'
  BY <1>3, ProgramUntouched DEF IInv, TypeOK, ClosureInv, Safe
<1>5. MarkInv'
  BY <1>1 DEF MarkInv
<1>6. QED
  BY <1>2, <1>3, <1>4, <1>5, ProgramUntouched DEF IInv

(* A white object in front of the cursor is not safe, so freeing it takes  *)
(* nothing away that the roots or a safe object refer to.                  *)
LEMMA InvSweepFree ==
  ASSUME IInv, TypeOK', NEW o \in Obj, SweepFree(o)
  PROVE  IInv'
<1> USE DEF SweepFree
<1>1. phase = "SWEEP" /\ phase' = "SWEEP" /\ color' = color /\ worklist' = worklist
  BY DEF IInv, PhaseInv, markVars
<1>2. o \notin Safe /\ Safe' = Safe
  BY <1>1 DEF IInv, ListsDisjoint, Safe, White
<1>3. ListsDisjoint' /\ PhaseInv' /\ WhiteInv'
  BY <1>1 DEF IInv, ListsDisjoint, PhaseInv, WhiteInv, White, Allocated
<1>4. o \notin Running /\ Running' = Running
  BY <1>2, ActiveSafe DEF IInv, TypeOK, Running
<1>5. \A c \in Running \cup {Main} : frame'[c] = frame[c]
  BY <1>4, MainAssumption DEF IInv, TypeOK, Contexts, Running
<1>6. RootInv'
  BY <1>2, <1>4, <1>5 DEF IInv, RootInv, rootVars
<1>7. \A x \in Obj \ {o} : Children(x)' = Children(x)
  BY DEF IInv, TypeOK, Children, Contexts
<1>8. ClosureInv'
  BY <1>1, <1>2, <1>7 DEF IInv, TypeOK, ClosureInv, Safe
<1>9. MarkInv'
  BY <1>1 DEF MarkInv
<1>10. ResumeInv'
  BY <1>4, <1>5 DEF IInv, ResumeInv
<1>11. QED
  BY <1>3, <1>6, <1>8, <1>9, <1>10 DEF IInv

(* The end of a cycle splices the newborn, still white, into the list.     *)
LEMMA InvFinishCycle ==
  ASSUME IInv, TypeOK', FinishCycle
  PROVE  IInv'
<1> USE DEF FinishCycle
<1>1. phase = "SWEEP" /\ todo = {} /\ todo' = {} /\ color' = color /\ worklist' = worklist
  BY DEF IInv, PhaseInv, markVars
<1>2. \A x \in Obj : White(x)
  BY <1>1 DEF IInv, TypeOK, WhiteInv, Allocated
<1>3. Safe' = Safe
  BY <1>1 DEF Safe
<1>4. ListsDisjoint' /\ PhaseInv' /\ WhiteInv'
  BY <1>1, <1>2 DEF ListsDisjoint, PhaseInv, WhiteInv, White, Allocated
<1>5. ClosureInv'
  BY <1>1, <1>3, ProgramUntouched DEF IInv, TypeOK, ClosureInv, Safe
<1>6. MarkInv'
  BY DEF MarkInv
<1>7. QED
  BY <1>3, <1>4, <1>5, <1>6, ProgramUntouched DEF IInv

(* Every step of the heap keeps the inductive invariant.                   *)
LEMMA InvNext == IInv /\ [Next]_vars => IInv'
<1> SUFFICES ASSUME IInv, [Next]_vars PROVE IInv'
  OBVIOUS
<1>0. TypeOK'
  BY TypeNext DEF IInv
<1>1. CASE Program
  BY <1>0, <1>1, InvAlloc, InvAllocOther, InvLoad, InvDrop, InvStore, InvErase, InvGlobal,
     InvNativeEnter, InvNativeReturn, InvResume, InvYield, InvFinish DEF Program
<1>2. CASE Safepoint
  BY <1>0, <1>2, InvSafepoint
<1>3. ASSUME NEW o \in Obj, MarkOne(o) \/ FinishOne(o) PROVE IInv'
  <2>1. /\ o \in worklist /\ Scan(o) /\ pc \in {"MARK", "FINISH"}
        /\ UNCHANGED <<phase, pc, listVars, programVars>>
    BY <1>3 DEF MarkOne, FinishOne, gcVars
  <2>2. phase = "MARK"
    BY <2>1 DEF IInv, PhaseInv
  <2>3. QED
    BY <1>0, <2>1, <2>2, InvScan
<1>4. CASE MarkPause \/ SweepPause
  BY <1>0, <1>4, InvPause
<1>5. CASE FinishBegin \/ SweepBegin \/ FinishCycle
  BY <1>0, <1>5, InvFinishBegin, InvSweepBegin, InvFinishCycle
<1>6. ASSUME NEW o \in Obj, SweepKeep(o) \/ SweepFree(o) PROVE IInv'
  BY <1>0, <1>6, InvSweepKeep, InvSweepFree
<1>7. CASE UNCHANGED vars
  <2>1. UNCHANGED <<gcVars, markVars, listVars, programVars>>
    BY <1>7 DEF vars, programVars
  <2>2. ListsDisjoint' /\ PhaseInv' /\ WhiteInv' /\ Safe' = Safe
    BY <2>1, CollectorUntouched
  <2>3. ClosureInv'
    BY <2>1, <2>2, ProgramUntouched DEF IInv, TypeOK, ClosureInv, Safe, markVars
  <2>4. MarkInv'
    BY <2>1, ProgramUntouched DEF IInv, MarkInv, White, markVars, gcVars
  <2>5. QED
    BY <1>0, <2>1, <2>2, <2>3, <2>4, ProgramUntouched DEF IInv
<1>8. QED
  BY <1>1, <1>2, <1>3, <1>4, <1>5, <1>6, <1>7 DEF Next, Collector

(* The strengthening holds in every reachable state.                       *)
THEOREM Invariant == Spec => []IInv
BY InvInit, InvNext, PTL DEF Spec

(* Everything the program can reach is safe.                               *)
LEMMA LiveIsSafe == IInv => Live \subseteq Safe
<1> SUFFICES ASSUME IInv PROVE Live \subseteq Safe
  OBVIOUS
<1>1. MutatorRoots \subseteq Safe
  BY RootsSafe, ActiveSafe DEF MutatorRoots
<1>2. DOMAIN Edges = Obj /\ Safe \in SUBSET Obj
  BY DEF Edges, Safe, IInv, TypeOK
<1>3. IsClosed(Safe, Edges)
  BY <1>2 DEF IsClosed, Edges, IInv, ClosureInv
<1>4. QED
  BY <1>1, <1>2, <1>3, ReachableInClosed DEF Live

(* A program whose stores pass the write barrier never reaches an object   *)
(* the sweep has freed, wherever the slices fall and whatever coroutines   *)
(* do (gc.hpp, object.hpp gcStep; vm.hpp resumeCoroutine).                 *)
THEOREM HeapIsSafe == Spec => []NoDangling
<1>1. IInv => NoDangling
  BY LiveIsSafe DEF NoDangling, Safe, Allocated
<1>2. QED
  BY <1>1, Invariant, PTL

(* No colour and no list outlives its cycle: the next one starts from an   *)
(* all-white heap on one list (finishCycle).                               *)
THEOREM CyclesAreIndependent == Spec => []CleanBetweenCycles
<1>1. IInv => CleanBetweenCycles
  BY DEF IInv, TypeOK, PhaseInv, CleanBetweenCycles, Allocated
<1>2. QED
  BY <1>1, Invariant, PTL
=============================================================================
