-------------------------------- MODULE Heap --------------------------------
(***************************************************************************)
(* The incremental tri-colour collector of src/src/vm/gc.hpp and           *)
(* src/src/object/object.hpp, together with the program (the VM of         *)
(* src/src/vm/vm.hpp) that allocates, stores behind the write barrier,     *)
(* switches between coroutines and reaches safepoints.                     *)
(*                                                                         *)
(* The interpreter is single-threaded: a collector slice runs from one     *)
(* safepoint to its end while the program is stopped. pc says who runs; a  *)
(* slice is a sequence of steps on one object each.  What a program holds  *)
(* in one execution context (value stack, call frames, open upvalues) is   *)
(* the set frame[c]; what an object refers to is the set refs[o].          *)
(***************************************************************************)
EXTENDS Naturals, Sequences, FiniteSets, Reachability

CONSTANTS
  Obj,         \* identities of heap objects; reused after a free
  Coros,       \* the ones that are coroutine objects
  Main,        \* the execution context of the main program
  StepBudget,  \* Heap.stepBudget: objects per mark slice
  MaxRefs,     \* bound of the model: references an object can hold
  MaxTemps,    \* bound of the model: nested native calls with a GcRoot
  MaxGlobals   \* bound of the model: objects held by globals and handles

ASSUME CorosAssumption  == Coros \subseteq Obj
ASSUME MainAssumption   == Main \notin Obj
ASSUME BudgetAssumption == StepBudget \in Nat \ {0}
ASSUME BoundsAssumption == {MaxRefs, MaxTemps, MaxGlobals} \subseteq Nat

VARIABLES
  phase,       \* Heap.phase
  gcPending,   \* the flag gcAlloc raises and gcSafepoint tests
  pc,          \* who runs: the program, or the loop of gcStep it is in
  budget,      \* objects the current slice may still process
  color,       \* Object.gcColor
  worklist,    \* Heap.worklist (the gray set; may hold stale entries)
  main,        \* objects on Heap.first's list, up to the sweep cursor
  todo,        \* objects on that list from the sweep cursor on
  newborn,     \* Heap.newborn: objects born while sweeping
  refs,        \* refs[o]: what the payload of o refers to
  frame,       \* frame[c]: what execution context c refers to
  status,      \* CoroObject.status
  active,      \* the running context; VM.activeCoro_ when a coroutine
  resumer,     \* resumer[c]: the context that resumed the running c
  yieldValue,  \* VM.yieldValue_, as a set of at most one object
  globals,     \* globals_, module cache, permanentRoots, hostRoots
  tempRoots    \* Heap.tempRoots: the GcRoot stack, with its context

gcVars    == <<phase, gcPending, pc, budget>>
markVars  == <<color, worklist>>
listVars  == <<main, todo, newborn>>
coroVars  == <<status, active, resumer, yieldValue>>
rootVars  == <<globals, tempRoots>>
vars == <<gcVars, markVars, listVars, refs, frame, coroVars, rootVars>>

Contexts  == Coros \cup {Main}
Allocated == main \cup todo \cup newborn
Running   == {c \in Coros : status[c] = "RUNNING"}
TempObjs  == {tempRoots[i].obj : i \in DOMAIN tempRoots}

White(o)  == color[o] = "WHITE"

ChildrenOfPayload(o) == refs[o]         \* mutant: a suspended context not visited

(* What gcMark visits: an object's payload and, of a suspended coroutine,  *)
(* the context it keeps (that of a running one was moved into the VM).     *)
Children(o) ==
  refs[o] \cup IF o \in Coros /\ status[o] = "SUSPENDED" THEN frame[o] ELSE {}

(* The live context and, in savedStates, those waiting for a resume.       *)
LiveFrames == UNION {frame[c] : c \in Running \cup {Main}}

(* markAllRoots: the frames, globals, yieldValue_, activeCoro_, tempRoots. *)
GcRoots ==
  LiveFrames \cup globals \cup yieldValue \cup TempObjs \cup ({active} \cap Obj)

(* What the program will still touch: the same, and every coroutine whose  *)
(* resume is in progress in a C++ local.                                   *)
MutatorRoots == GcRoots \cup Running

Edges == [o \in Obj |-> Children(o)]
Live  == ReachableFrom(MutatorRoots, Edges)

-----------------------------------------------------------------------------
(* gcMarkObject on every object of S.                                      *)
MarkObjects(S) ==
  /\ color' = [o \in Obj |-> IF o \in S /\ White(o) THEN "GRAY" ELSE color[o]]
  /\ worklist' = worklist \cup {o \in S : White(o)}

ShadeNothing(S) == UNCHANGED markVars   \* mutant: no barrier

(* gcShade: the Dijkstra barrier, active while marking.                    *)
Shade(S) == MarkObjects(IF phase = "MARK" THEN S ELSE {})

-----------------------------------------------------------------------------
(* The program.  Every action below runs between two safepoints.           *)

InProgram == pc = "PROGRAM"

RequestWhenIdle ==                      \* mutant: a flight is not kept going
  /\ gcPending' \in IF phase = "IDLE" THEN {gcPending, TRUE} ELSE {gcPending}
  /\ UNCHANGED <<phase, pc, budget>>

(* The GC's view of an allocation: the object is white, on the main list   *)
(* or, while sweeping, on the side list; a flight in progress keeps asking *)
(* for slices, an idle collector is asked once the threshold is passed.    *)
RequestGC ==
  /\ gcPending' \in IF phase = "IDLE" THEN {gcPending, TRUE} ELSE {TRUE}
  /\ UNCHANGED <<phase, pc, budget>>

LinkBlack(o) ==                         \* mutant: born black while sweeping
  /\ newborn' = IF phase = "SWEEP" THEN newborn \cup {o} ELSE newborn
  /\ main' = IF phase = "SWEEP" THEN main ELSE main \cup {o}
  /\ color' = [color EXCEPT ![o] = IF phase = "SWEEP" THEN "BLACK" ELSE @]
  /\ UNCHANGED <<todo, worklist>>

Link(o) ==
  /\ newborn' = IF phase = "SWEEP" THEN newborn \cup {o} ELSE newborn
  /\ main' = IF phase = "SWEEP" THEN main ELSE main \cup {o}
  /\ UNCHANGED <<todo, markVars>>

(* A new object built from values on the stack; a coroutine refers to its  *)
(* function alone.                                                         *)
Alloc(o, R) ==
  /\ InProgram
  /\ o \notin Allocated
  /\ R \subseteq frame[active]
  /\ Cardinality(R) <= MaxRefs
  /\ o \in Coros => Cardinality(R) = 1
  /\ RequestGC
  /\ Link(o)
  /\ refs' = [refs EXCEPT ![o] = R]
  /\ frame' = [frame EXCEPT ![active] = @ \cup {o}]
  /\ status' = IF o \in Coros THEN [status EXCEPT ![o] = "CREATED"] ELSE status
  /\ UNCHANGED <<active, resumer, yieldValue, rootVars>>

(* An allocation of an object this model does not follow.                  *)
AllocOther ==
  /\ InProgram
  /\ RequestGC
  /\ UNCHANGED <<markVars, listVars, refs, frame, coroVars, rootVars>>

(* A read: an element, a field, an upvalue, a global reaches the stack.    *)
Load(v) ==
  /\ InProgram
  /\ v \notin frame[active]
  /\ \/ v \in globals
     \/ \E o \in frame[active] \ Coros : v \in refs[o]
  /\ frame' = [frame EXCEPT ![active] = @ \cup {v}]
  /\ UNCHANGED <<gcVars, markVars, listVars, refs, coroVars, rootVars>>

(* The last slot that held v is popped or overwritten: no barrier.         *)
Drop(v) ==
  /\ InProgram
  /\ v \in frame[active]
  /\ frame' = [frame EXCEPT ![active] = @ \ {v}]
  /\ UNCHANGED <<gcVars, markVars, listVars, refs, coroVars, rootVars>>

(* A reference written into an object that exists: list, map, set, struct, *)
(* deque, signal, closed upvalue.  The child is shaded first.              *)
Store(o, v) ==
  /\ InProgram
  /\ {o, v} \subseteq frame[active]
  /\ o \notin Coros
  /\ Cardinality(refs[o] \cup {v}) <= MaxRefs
  /\ Shade({v})
  /\ refs' = [refs EXCEPT ![o] = @ \cup {v}]
  /\ UNCHANGED <<gcVars, listVars, frame, coroVars, rootVars>>

(* A reference removed from an object, or overwritten: no barrier.         *)
Erase(o, v) ==
  /\ InProgram
  /\ o \in frame[active] \ Coros
  /\ v \in refs[o]
  /\ refs' = [refs EXCEPT ![o] = @ \ {v}]
  /\ UNCHANGED <<gcVars, markVars, listVars, frame, coroVars, rootVars>>

(* Globals, the module cache and host handles are roots: no barrier.       *)
SetGlobal(v) ==
  /\ InProgram
  /\ v \in frame[active] \ globals
  /\ Cardinality(globals) < MaxGlobals
  /\ globals' = globals \cup {v}
  /\ UNCHANGED <<gcVars, markVars, listVars, refs, frame, coroVars, tempRoots>>

DropGlobal(v) ==
  /\ InProgram
  /\ v \in globals
  /\ globals' = globals \ {v}
  /\ UNCHANGED <<gcVars, markVars, listVars, refs, frame, coroVars, tempRoots>>

(* A native function roots a C++-held object for as long as it calls back  *)
(* into the program; its result goes onto the stack of its context.        *)
NativeEnter(v) ==
  /\ InProgram
  /\ v \in frame[active]
  /\ Len(tempRoots) < MaxTemps
  /\ tempRoots' = Append(tempRoots, [obj |-> v, ctx |-> active])
  /\ UNCHANGED <<gcVars, markVars, listVars, refs, frame, coroVars, globals>>

NativeReturn ==
  /\ InProgram
  /\ tempRoots # << >>
  /\ LET top == tempRoots[Len(tempRoots)]
     IN /\ top.ctx = active
        /\ frame' = [frame EXCEPT ![active] = @ \cup {top.obj}]
  /\ tempRoots' = SubSeq(tempRoots, 1, Len(tempRoots) - 1)
  /\ UNCHANGED <<gcVars, markVars, listVars, refs, coroVars, globals>>

-----------------------------------------------------------------------------
(* Coroutines: resumeCoroutine up to run(), and what follows its return.   *)

(* The context of a fresh coroutine holds its function; a suspended one    *)
(* takes back what it saved.  arg is empty for an immediate.               *)
Resume(c, arg) ==
  /\ InProgram
  /\ c \in frame[active]
  /\ arg \subseteq frame[active]
  /\ Cardinality(arg) <= 1
  /\ \/ status[c] = "CREATED"   /\ frame' = [frame EXCEPT ![c] = refs[c] \cup arg]
     \/ status[c] = "SUSPENDED" /\ frame' = [frame EXCEPT ![c] = @ \cup arg]
  /\ status' = [status EXCEPT ![c] = "RUNNING"]
  /\ resumer' = [resumer EXCEPT ![c] = active]
  /\ active' = c
  /\ UNCHANGED <<gcVars, markVars, listVars, refs, yieldValue, rootVars>>

InNative(c) == \E i \in DOMAIN tempRoots : tempRoots[i].ctx = c

(* Both ways out of a coroutine restore the context that resumed it (a C++ *)
(* local of resumeCoroutine, forgotten with its call).                     *)
LeaveCoroutine ==
  /\ active' = resumer[active]
  /\ resumer' = [resumer EXCEPT ![active] = Main]

(* The running coroutine pauses: its context moves into the object, which  *)
(* grays itself again if it had been scanned.                              *)
Yield(val) ==
  /\ InProgram
  /\ active \in Coros
  /\ ~InNative(active)
  /\ val \subseteq frame[active]
  /\ Cardinality(val) <= 1
  /\ status' = [status EXCEPT ![active] = "SUSPENDED"]
  /\ IF color[active] = "BLACK"
       THEN /\ color' = [color EXCEPT ![active] = "GRAY"]
            /\ worklist' = worklist \cup {active}
       ELSE UNCHANGED markVars
  /\ yieldValue' = val
  /\ frame' = [frame EXCEPT ![resumer[active]] = @ \cup val]
  /\ LeaveCoroutine
  /\ UNCHANGED <<gcVars, listVars, refs, rootVars>>

(* The running coroutine returns val or fails with an uncaught error: its  *)
(* context is dropped.                                                     *)
Finish(val) ==
  /\ InProgram
  /\ active \in Coros
  /\ ~InNative(active)
  /\ val \subseteq frame[active]
  /\ Cardinality(val) <= 1
  /\ status' = [status EXCEPT ![active] = "DEAD"]
  /\ frame' = [frame EXCEPT ![resumer[active]] = @ \cup val, ![active] = {}]
  /\ LeaveCoroutine
  /\ UNCHANGED <<gcVars, markVars, listVars, refs, yieldValue, rootVars>>

-----------------------------------------------------------------------------
(* The collector: gcSafepoint and the loops of gcStep.                     *)

programVars == <<refs, frame, coroVars, rootVars>>

(* gcSafepoint when a slice is due: an idle collector grays the roots and  *)
(* is done; otherwise a slice of the phase's size begins.                  *)
Safepoint ==
  /\ InProgram
  /\ gcPending
  /\ gcPending' = FALSE
  /\ \/ /\ phase = "IDLE"
        /\ phase' = "MARK"
        /\ MarkObjects(GcRoots)
        /\ UNCHANGED <<pc, budget>>
     \/ /\ phase = "MARK"
        /\ pc' = "MARK"
        /\ budget' = StepBudget
        /\ UNCHANGED <<phase, markVars>>
     \/ /\ phase = "SWEEP"
        /\ pc' = "SWEEP"
        /\ budget' = 2 * StepBudget
        /\ UNCHANGED <<phase, markVars>>
  /\ UNCHANGED <<listVars, programVars>>

(* One iteration of markStep's loop: o turns black, its children gray.     *)
Scan(o) ==
  LET gray == {x \in Children(o) : White(x) /\ x # o}
  IN /\ color' = [x \in Obj |-> IF x = o THEN "BLACK"
                                ELSE IF x \in gray THEN "GRAY" ELSE color[x]]
     /\ worklist' = (worklist \ {o}) \cup gray

MarkOneOverdrawn(o) ==                  \* mutant: off by one in the slice
  /\ pc = "MARK"
  /\ budget >= 0
  /\ o \in worklist
  /\ Scan(o)
  /\ budget' = budget - 1
  /\ UNCHANGED <<phase, gcPending, pc, listVars, programVars>>

MarkOne(o) ==
  /\ pc = "MARK"
  /\ budget > 0
  /\ o \in worklist
  /\ Scan(o)
  /\ budget' = budget - 1
  /\ UNCHANGED <<phase, gcPending, pc, listVars, programVars>>

(* The budget is spent and gray objects remain: back to the program.       *)
MarkPause ==
  /\ pc = "MARK"
  /\ budget = 0
  /\ worklist # {}
  /\ pc' = "PROGRAM"
  /\ UNCHANGED <<phase, gcPending, budget, markVars, listVars, programVars>>

FinishOnOldRoots ==                     \* mutant: the roots not marked again
  /\ pc = "MARK"
  /\ worklist = {}
  /\ pc' = "FINISH"
  /\ budget' = 0
  /\ UNCHANGED <<phase, gcPending, markVars, listVars, programVars>>

(* The list drained: the atomic finish marks every root again ...          *)
FinishBegin ==
  /\ pc = "MARK"
  /\ worklist = {}
  /\ MarkObjects(GcRoots)
  /\ pc' = "FINISH"
  /\ budget' = 0
  /\ UNCHANGED <<phase, gcPending, listVars, programVars>>

(* ... drains what that grays, in this same slice ...                      *)
FinishOne(o) ==
  /\ pc = "FINISH"
  /\ o \in worklist
  /\ Scan(o)
  /\ UNCHANGED <<gcVars, listVars, programVars>>

(* ... and puts the sweep cursor at the head of the list.                  *)
SweepBegin ==
  /\ pc = "FINISH"
  /\ worklist = {}
  /\ phase' = "SWEEP"
  /\ todo' = main
  /\ main' = {}
  /\ pc' = "PROGRAM"
  /\ UNCHANGED <<gcPending, budget, markVars, newborn, programVars>>

(* One iteration of sweepStep's loop: a survivor turns white again, a      *)
(* white object is unlinked and destroyed.                                 *)
SweepKeep(o) ==
  /\ pc = "SWEEP"
  /\ budget > 0
  /\ o \in todo
  /\ ~White(o)
  /\ color' = [color EXCEPT ![o] = "WHITE"]
  /\ todo' = todo \ {o}
  /\ main' = main \cup {o}
  /\ budget' = budget - 1
  /\ UNCHANGED <<phase, gcPending, pc, worklist, newborn, programVars>>

SweepFree(o) ==
  /\ pc = "SWEEP"
  /\ budget > 0
  /\ o \in todo
  /\ White(o)
  /\ todo' = todo \ {o}
  /\ refs' = [refs EXCEPT ![o] = {}]
  /\ frame' = IF o \in Coros THEN [frame EXCEPT ![o] = {}] ELSE frame
  /\ status' = IF o \in Coros THEN [status EXCEPT ![o] = "DEAD"] ELSE status
  /\ budget' = budget - 1
  /\ UNCHANGED <<phase, gcPending, pc, markVars, main, newborn,
                 active, resumer, yieldValue, rootVars>>

SweepPause ==
  /\ pc = "SWEEP"
  /\ budget = 0
  /\ todo # {}
  /\ pc' = "PROGRAM"
  /\ UNCHANGED <<phase, gcPending, budget, markVars, listVars, programVars>>

(* finishCycle: the side list is spliced back, still white.                *)
FinishCycle ==
  /\ pc = "SWEEP"
  /\ todo = {}
  /\ main' = main \cup newborn
  /\ newborn' = {}
  /\ phase' = "IDLE"
  /\ pc' = "PROGRAM"
  /\ budget' = 0
  /\ UNCHANGED <<gcPending, todo, markVars, programVars>>

-----------------------------------------------------------------------------
Init ==
  /\ phase = "IDLE" /\ gcPending = FALSE /\ pc = "PROGRAM" /\ budget = 0
  /\ color = [o \in Obj |-> "WHITE"] /\ worklist = {}
  /\ main = {} /\ todo = {} /\ newborn = {}
  /\ refs = [o \in Obj |-> {}]
  /\ frame = [c \in Contexts |-> {}]
  /\ status = [c \in Coros |-> "DEAD"]
  /\ active = Main
  /\ resumer = [c \in Coros |-> Main]
  /\ yieldValue = {}
  /\ globals = {} /\ tempRoots = << >>

Program ==
  \/ \E o \in Obj, R \in SUBSET Obj : Alloc(o, R)
  \/ AllocOther
  \/ \E v \in Obj : Load(v)
  \/ \E v \in Obj : Drop(v)
  \/ \E o, v \in Obj : Store(o, v)
  \/ \E o, v \in Obj : Erase(o, v)
  \/ \E v \in Obj : SetGlobal(v)
  \/ \E v \in Obj : DropGlobal(v)
  \/ \E v \in Obj : NativeEnter(v)
  \/ NativeReturn
  \/ \E c \in Coros, arg \in SUBSET Obj : Resume(c, arg)
  \/ \E val \in SUBSET Obj : Yield(val)
  \/ \E val \in SUBSET Obj : Finish(val)

Collector ==
  \/ \E o \in Obj : MarkOne(o)
  \/ MarkPause
  \/ FinishBegin
  \/ \E o \in Obj : FinishOne(o)
  \/ SweepBegin
  \/ \E o \in Obj : SweepKeep(o)
  \/ \E o \in Obj : SweepFree(o)
  \/ SweepPause
  \/ FinishCycle

Next == Program \/ Safepoint \/ Collector

Spec == Init /\ [][Next]_vars

(* A slice always runs to its end; the VM reaches safepoints (every loop   *)
(* back-edge and call); the workload keeps allocating, which is what keeps *)
(* a cycle going.                                                          *)
Fairness == WF_vars(Collector) /\ WF_vars(Safepoint) /\ WF_vars(AllocOther)

FairSpec == Spec /\ Fairness

-----------------------------------------------------------------------------
TypeOK ==
  /\ phase \in {"IDLE", "MARK", "SWEEP"}
  /\ gcPending \in BOOLEAN
  /\ pc \in {"PROGRAM", "MARK", "FINISH", "SWEEP"}
  /\ budget \in 0 .. (2 * StepBudget)
  /\ color \in [Obj -> {"WHITE", "GRAY", "BLACK"}]
  /\ worklist \subseteq Obj
  /\ main \subseteq Obj /\ todo \subseteq Obj /\ newborn \subseteq Obj
  /\ refs \in [Obj -> SUBSET Obj]
  /\ frame \in [Contexts -> SUBSET Obj]
  /\ status \in [Coros -> {"CREATED", "SUSPENDED", "RUNNING", "DEAD"}]
  /\ active \in Contexts
  /\ resumer \in [Coros -> Contexts]
  /\ yieldValue \subseteq Obj
  /\ globals \subseteq Obj
  /\ tempRoots \in Seq([obj : Obj, ctx : Contexts])

(* The program never reaches a freed object, however the slices of the     *)
(* collector fall between its stores, pops and coroutine switches.         *)
NoDangling == Live \subseteq Allocated

(* The detailed heap keeps the abstract promise, step by step: it frees    *)
(* only what the program cannot reach.                                     *)
Abstract == INSTANCE SafeHeap WITH
              allocated <- Allocated, roots <- MutatorRoots, edges <- Edges
ImplementsSafeHeap == Abstract!Spec

(* Between cycles nothing is left over from the last one: every object is  *)
(* white and on the main list, so the next cycle scans it (the hazard      *)
(* RFC-023 reports: stale black objects leaked into the next cycle).       *)
CleanBetweenCycles ==
  phase = "IDLE" => /\ \A o \in Allocated : White(o)
                    /\ todo = {} /\ newborn = {}

(* The lists partition the objects: none is swept twice or lost.           *)
ListsDisjoint == main \cap todo = {} /\ main \cap newborn = {} /\ todo \cap newborn = {}

(* Every object the program can no longer reach is freed in the end.       *)
GarbageFreed ==
  \A o \in Obj : (o \in Allocated \ Live) ~> (o \notin Allocated)

-----------------------------------------------------------------------------
(* The inductive invariant behind NoDangling.                              *)

(* Safe is what this cycle will not free: during the sweep, everything but *)
(* the white objects still in front of the cursor.                         *)
Safe == main \cup newborn \cup {o \in todo : ~White(o)}

PhaseInv ==
  /\ phase # "SWEEP" => todo = {} /\ newborn = {}
  /\ phase = "IDLE" => \A o \in Obj : White(o)
  /\ pc \in {"MARK", "FINISH"} => phase = "MARK"
  /\ pc = "SWEEP" => phase = "SWEEP"

(* Objects that do not exist, and those the sweep is done with, are white. *)
WhiteInv ==
  /\ \A o \in Obj \ Allocated : White(o)
  /\ phase = "SWEEP" => \A o \in main \cup newborn : White(o)

(* The roots are safe, and nothing safe refers to anything unsafe.         *)
RootInv ==
  /\ \A c \in Running \cup {Main} : frame[c] \subseteq Safe
  /\ globals \subseteq Safe
  /\ yieldValue \subseteq Safe
  /\ \A i \in DOMAIN tempRoots : tempRoots[i].obj \in Safe

ClosureInv ==
  /\ worklist \subseteq Safe
  /\ \A o \in Safe : Children(o) \subseteq Safe

(* The tri-colour invariant, with the gray set on the worklist; the roots  *)
(* are marked once the atomic finish has begun.                            *)
MarkInv ==
  phase = "MARK" =>
    /\ \A o \in Obj : color[o] = "GRAY" => o \in worklist
    /\ \A o \in Obj : color[o] = "BLACK" => \A x \in Children(o) : ~White(x)
    /\ pc = "FINISH" => \A o \in GcRoots : ~White(o)

(* The running coroutines form a chain of resumes from Main to the active  *)
(* context; each is held by the context that resumed it.                   *)
ResumeInv ==
  /\ active \in Coros => active \in Running
  /\ \A c \in Running :
       /\ c \in frame[resumer[c]]
       /\ resumer[c] \in Running \cup {Main}
       /\ resumer[c] # active
       /\ \A d \in Running : resumer[c] = resumer[d] => c = d

IInv == /\ TypeOK
        /\ ListsDisjoint
        /\ PhaseInv
        /\ WhiteInv
        /\ RootInv
        /\ ClosureInv
        /\ MarkInv
        /\ ResumeInv
=============================================================================
