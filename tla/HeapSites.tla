------------------------------ MODULE HeapSites ------------------------------
(***************************************************************************)
(* The heap of Heap.tla under a program that also uses the three kinds of  *)
(* site where the standard library and the VM hold or store an object      *)
(* outside the discipline Heap.tla assumes.  Sites selects which of them   *)
(* the program uses:                                                       *)
(*   "box"    an integer that does not fit a Value is boxed twice: once    *)
(*            for the barrier, once for the slot (push, insert, a struct   *)
(*            field through indexSet);                                     *)
(*   "accum"  a native appends a callback's result to a list it keeps      *)
(*            under a GcRoot, without a barrier (transform, filter, ...);  *)
(*   "emit"   a native copies a container into a C++ vector that is no     *)
(*            root and calls its elements one after the other (emit).      *)
(***************************************************************************)
EXTENDS Heap

CONSTANT Sites   \* a subset of {"box", "accum", "emit"}

VARIABLES
  snapshot,    \* the listeners an emit in progress has yet to call
  emitter      \* the context that emit was called from

siteVars == <<vars, snapshot, emitter>>

(* The barrier shades one box, the slot receives another, allocated after  *)
(* it and white.                                                           *)
StoreBoxed(o, box) ==
  /\ "box" \in Sites
  /\ InProgram
  /\ o \in frame[active] \ Coros
  /\ box \notin Allocated \cup Coros
  /\ Cardinality(refs[o]) < MaxRefs
  /\ RequestGC
  /\ Link(box)
  /\ refs' = [refs EXCEPT ![o] = @ \cup {box}, ![box] = {}]
  /\ UNCHANGED <<frame, coroVars, rootVars, snapshot, emitter>>

(* The callback's result leaves the stack for the native's list.           *)
Accumulate(v) ==
  /\ "accum" \in Sites
  /\ InProgram
  /\ v \in frame[active]
  /\ tempRoots # << >>
  /\ LET top == tempRoots[Len(tempRoots)]
     IN /\ top.ctx = active
        /\ top.obj \notin Coros
        /\ Cardinality(refs[top.obj] \cup {v}) <= MaxRefs
        /\ refs' = [refs EXCEPT ![top.obj] = @ \cup {v}]
  /\ frame' = [frame EXCEPT ![active] = @ \ {v}]
  /\ UNCHANGED <<gcVars, markVars, listVars, coroVars, rootVars, snapshot, emitter>>

EmitBegin(sig) ==
  /\ "emit" \in Sites
  /\ InProgram
  /\ snapshot = {}
  /\ sig \in frame[active] \ Coros
  /\ snapshot' = refs[sig]
  /\ emitter' = active
  /\ UNCHANGED vars

(* The next listener is pushed onto the stack and called.                  *)
EmitCall(listener) ==
  /\ InProgram
  /\ listener \in snapshot
  /\ active = emitter
  /\ snapshot' = snapshot \ {listener}
  /\ frame' = [frame EXCEPT ![active] = @ \cup {listener}]
  /\ UNCHANGED <<gcVars, markVars, listVars, refs, coroVars, rootVars, emitter>>

SitesInit == Init /\ snapshot = {} /\ emitter = Main

SitesNext ==
  \/ Next /\ UNCHANGED <<snapshot, emitter>>
  \/ \E o, box \in Obj : StoreBoxed(o, box)
  \/ \E v \in Obj : Accumulate(v)
  \/ \E sig \in Obj : EmitBegin(sig)
  \/ \E listener \in Obj : EmitCall(listener)

SitesSpec == SitesInit /\ [][SitesNext]_siteVars

(* What the program will touch, the listeners still to be called included. *)
ProgramReach == ReachableFrom(MutatorRoots \cup snapshot, Edges)

(* RFC-023: any reference written into a pre-existing container shades the *)
(* child, which "closes the hole"; a GcRoot "keeps a C++-held object alive *)
(* across a VM re-entry" (gc.hpp); emit's snapshot "stays safe if a        *)
(* listener disconnects" (game.hpp).  If so, what the program will touch   *)
(* exists, whichever sites it uses.                                        *)
HeldObjectsExist == ProgramReach \subseteq Allocated
=============================================================================
