---------------------------- MODULE UpvaluesProofs ----------------------------
(***************************************************************************)
(* Proofs about Upvalues for every set of values, cells, variables and     *)
(* coroutines, every order of the two slots and every depth of frames.     *)
(* First the shape of the state: types, the chain of contexts, the open    *)
(* lists.  Then the correspondence of slots, cells and variables, and what *)
(* closures read.  All of it is proved of the steps of every program: the  *)
(* code lets go of some variables, the history strayed names these, and    *)
(* the invariant says how the others are tied to their cells.              *)
(***************************************************************************)
EXTENDS Upvalues, TLAPS

USE SlotAssumption, NilAssumption, ContextAssumption, FramesAssumption

LEMMA LocalSlots ==
  /\ LoopSlot \in {0, 1} /\ PlainSlot \in {0, 1}
  /\ PlainSlot = 1 - LoopSlot
OBVIOUS

LEMMA EntryOf ==
  ASSUME NEW D, NEW s \in Seq(D), NEW i \in 1 .. Len(s)
  PROVE  s[i] \in D
OBVIOUS

(* A write to one slot of one stack.                                       *)
LEMMA WriteSlot ==
  ASSUME NEW C, NEW N, NEW V, NEW f \in [C -> [N -> V]], NEW c \in C, NEW n \in N, NEW v \in V
  PROVE  [f EXCEPT ![c][n] = v] \in [C -> [N -> V]]
OBVIOUS

(* A context has no frame when it has 0 of them.                           *)
LEMMA EmptyIff ==
  ASSUME NEW D, NEW s \in Seq(D)
  PROVE  s = << >> <=> Len(s) = 0
OBVIOUS

(* The first k frames of a context's.                                      *)
LEMMA FirstFrames ==
  ASSUME NEW D, NEW s \in Seq(D), NEW k \in 0 .. Len(s)
  PROVE  /\ SubSeq(s, 1, k) \in Seq(D)
         /\ Len(SubSeq(s, 1, k)) = k
         /\ \A i \in 1 .. k : SubSeq(s, 1, k)[i] = s[i]
OBVIOUS

LEMMA FewFrames ==
  ASSUME TypeOK
  PROVE  \A c \in Contexts : Len(frames[c]) \in Nat /\ Len(frames[c]) <= MaxFrames
BY DEF TypeOK

LEMMA FewFramesLeft ==
  ASSUME TypeOK, Len(frames'[active]) <= MaxFrames,
         \A d \in Contexts \ {active} : frames'[d] = frames[d]
  PROVE  \A c \in Contexts : Len(frames'[c]) <= MaxFrames
<1> SUFFICES ASSUME NEW c \in Contexts PROVE Len(frames'[c]) <= MaxFrames
  OBVIOUS
<1>1. CASE c = active
  BY <1>1
<1>2. CASE c # active
  BY <1>2, FewFrames
<1>3. QED
  BY <1>1, <1>2

(* A step has a frame to run in, and its locals are slots of the stack.    *)
LEMMA RunningFrame ==
  ASSUME TypeOK, ContextInv
  PROVE  /\ frames[active] \in Seq([fn : SUBSET Captures, loop : BOOLEAN])
         /\ Depth \in 1 .. MaxFrames
         /\ Top \in [fn : SUBSET Captures, loop : BOOLEAN]
         /\ \A s \in {LoopSlot, PlainSlot} :
              Here(s) \in Slots /\ Here(s) \in 2 * (Depth - 1) .. 2 * Depth - 1
<1>1. active \in Contexts /\ frames[active] # << >>
  BY DEF ContextInv, Running, Contexts
<1>2. frames[active] \in Seq([fn : SUBSET Captures, loop : BOOLEAN]) /\ Len(frames[active]) <= MaxFrames
  BY <1>1 DEF TypeOK
<1>3. Depth \in 1 .. MaxFrames
  BY <1>1, <1>2 DEF Depth
<1>4. Top \in [fn : SUBSET Captures, loop : BOOLEAN]
  <2> DEFINE D == [fn : SUBSET Captures, loop : BOOLEAN]
  <2>1. frames[active] \in Seq(D) /\ Depth \in 1 .. Len(frames[active])
    BY <1>2, <1>3 DEF Depth
  <2> HIDE DEF D
  <2>2. frames[active][Depth] \in D
    BY <2>1, EntryOf
  <2>3. QED
    BY <2>2 DEF Top, D
<1>5. QED
  BY <1>2, <1>3, <1>4, LocalSlots DEF Here, At, Slots

LEMMA TopFrame ==
  ASSUME TypeOK, ContextInv
  PROVE  active \in Contexts /\ Depth \in DOMAIN frames[active]
<1> DEFINE D == [fn : SUBSET Captures, loop : BOOLEAN]
<1>1. frames[active] \in Seq(D) /\ Depth \in 1 .. MaxFrames
  BY RunningFrame
<1> HIDE DEF D
<1>2. DOMAIN frames[active] = 1 .. Len(frames[active])
  BY <1>1
<1>3. QED
  BY <1>1, <1>2 DEF TypeOK, Depth

(* What strays are variables, and nothing returns.                         *)
LEMMA StrayTyped ==
  ASSUME TypeOK, NEW B \in SUBSET Vars, Stray(B)
  PROVE  strayed' \subseteq Vars /\ strayed' = strayed \cup B
BY DEF TypeOK, Stray

LEMMA BoundVars ==
  ASSUME TypeOK
  PROVE  /\ \A n \in Nat : BoundAbove(n) \in SUBSET Vars
         /\ \A x \in Cells : Reached(x) \in SUBSET Vars
         /\ UNION {binding[active][n] : n \in Slots} \in SUBSET Vars
<1>1. active \in Contexts /\ \A n \in Slots : binding[active][n] \subseteq Vars
  BY DEF TypeOK
<1>2. \A n \in Nat : BoundAbove(n) \in SUBSET Vars
  <2>1. \A n \in Nat : (n + 1) .. (2 * MaxFrames - 1) \subseteq Slots
    BY DEF Slots
  <2>2. QED
    BY <1>1, <2>1 DEF BoundAbove
<1>3. \A x \in Cells : Reached(x) \in SUBSET Vars
  BY <1>1 DEF Reached, TypeOK, Captured, Captures
<1>4. QED
  BY <1>1, <1>2, <1>3

(* closeUpvalues: the cells it closes were open, the lists keep what lies  *)
(* below the slot.                                                         *)
LEMMA ClosedCells ==
  ASSUME TypeOK, OpenListsSound, FreshInv, NEW n \in Nat, CloseUpvalues(n)
  PROVE  /\ value' \in [Cells -> Vals] /\ closed' \in [Cells -> BOOLEAN]
         /\ open' \in [Contexts -> SUBSET used'] /\ FreshInv'
         /\ \A c \in Contexts : open'[c] = IF c = active THEN open[c] \ Closing(n) ELSE open[c]
         /\ \A c \in Contexts : \A x \in open'[c] : x \in open[c] /\ ~closed'[x]
         /\ \A x \in open'[active] : slot[x] < n
<1> USE DEF CloseUpvalues, TypeOK
<1>1. \A x \in Closing(n) : x \in open[active] /\ x \in Cells /\ x \in used
                              /\ slot[x] \in Slots /\ slot[x] >= n
  BY DEF Closing
<1>2. value' \in [Cells -> Vals]
  BY <1>1
<1>3. closed' \in [Cells -> BOOLEAN] /\ FreshInv'
  BY <1>1 DEF FreshInv
<1>4. \A c \in Contexts : open'[c] = IF c = active THEN open[c] \ Closing(n) ELSE open[c]
  OBVIOUS
<1>5. open' \in [Contexts -> SUBSET used']
  OBVIOUS
<1>6. \A c \in Contexts : \A x \in open'[c] : x \in open[c] /\ ~closed'[x]
  BY <1>1, <1>4 DEF OpenListsSound
<1>7. \A x \in open'[active] : slot[x] < n
  BY <1>4 DEF Closing, Slots
<1>8. QED
  BY <1>2, <1>3, <1>4, <1>5, <1>6, <1>7

(* A call of closeUpvalues keeps the lists sound when the cells above the  *)
(* frames that stay are closed by it.                                      *)
LEMMA ListsAfterClosing ==
  ASSUME TypeOK, OpenListsSound, FreshInv, NEW n \in Nat, CloseUpvalues(n),
         \A c \in Contexts : \A x \in open'[c] : slot[x] < 2 * Len(frames'[c])
  PROVE  OpenListsSound'
<1>1. UNCHANGED slot
  BY DEF CloseUpvalues
<1>2. \A c \in Contexts : \A x \in open'[c] : x \in open[c] /\ ~closed'[x]
  BY ClosedCells
<1>3. QED
  BY <1>1, <1>2 DEF OpenListsSound

-----------------------------------------------------------------------------
(* The shape of the state.                                                 *)

LEMMA ShapeInit == Init => ShapeInv
<1> SUFFICES ASSUME Init PROVE ShapeInv
  OBVIOUS
<1>1. frames \in [Contexts -> Seq([fn : SUBSET Captures, loop : BOOLEAN])]
  <2> DEFINE F == [fn : SUBSET Captures, loop : BOOLEAN]
             script == [fn |-> {}, loop |-> FALSE]
  <2>1. script \in F
    OBVIOUS
  <2> HIDE DEF F, script
  <2>2. <<script>> \in Seq(F) /\ << >> \in Seq(F)
    BY <2>1
  <2>3. frames = [c \in Contexts |-> IF c = Main THEN <<script>> ELSE << >>]
    BY DEF Init, script
  <2>4. frames \in [Contexts -> Seq(F)]
    BY <2>2, <2>3
  <2>5. QED
    BY <2>4 DEF F
<1>2. \A c \in Contexts : Len(frames[c]) <= MaxFrames
  BY DEF Init
<1>3. /\ stack \in [Contexts -> [Slots -> Vals]]
      /\ binding \in [Contexts -> [Slots -> SUBSET Vars]]
      /\ slot \in [Cells -> Slots]
  BY DEF Init, Slots
<1>4. /\ open \in [Contexts -> SUBSET used] /\ used \subseteq Cells
      /\ closed \in [Cells -> BOOLEAN] /\ value \in [Cells -> Vals]
      /\ closures \subseteq SUBSET Captures /\ content \in [Vars -> Vals]
  BY DEF Init
<1>5. /\ status \in [Coros -> {"CREATED", "SUSPENDED", "RUNNING", "DEAD"}]
      /\ active \in Contexts /\ resumer \in [Coros -> Contexts]
  BY DEF Init, Contexts
<1>6. TypeOK
  BY <1>1, <1>2, <1>3, <1>4, <1>5 DEF TypeOK, Init
<1>7. OpenListsSound /\ FreshInv
  BY DEF Init, OpenListsSound, FreshInv
<1>8. ContextInv
  BY DEF Init, ContextInv, Running, Contexts
<1>9. QED
  BY <1>6, <1>7, <1>8 DEF ShapeInv

(* Writes to a local, or through a cell.                                   *)
LEMMA ShapeSet ==
  ASSUME ShapeInv,
         \/ \E s \in {LoopSlot, PlainSlot}, v \in Vals : SetLocal(s, v)
         \/ \E cap \in Top.fn, v \in Vals : SetUpvalue(cap, v)
  PROVE  ShapeInv'
<1> USE DEF ShapeInv
<1>1. ASSUME NEW s \in {LoopSlot, PlainSlot}, NEW v \in Vals, SetLocal(s, v)
      PROVE  TypeOK'
  BY <1>1, RunningFrame DEF SetLocal, Write, TypeOK, cellVars, coroVars
<1>2. ASSUME NEW cap \in Top.fn, NEW v \in Vals, SetUpvalue(cap, v)
      PROVE  TypeOK'
  <2>1. cap \in Captures
    BY RunningFrame
  <2>2. cap.cell \in Cells /\ cap.var \in Vars
    BY <2>1 DEF Captures
  <2>3. value' \in [Cells -> Vals] /\ content' \in [Vars -> Vals] /\ strayed' \subseteq Vars
    <3>1. \/ UNCHANGED value
          \/ value' = [value EXCEPT ![cap.cell] = v]
      BY <1>2 DEF SetUpvalue
    <3>2. value' \in [Cells -> Vals]
      BY <2>2, <3>1 DEF TypeOK
    <3>3. content' = [content EXCEPT ![cap.var] = v]
      BY <1>2 DEF SetUpvalue, Assign
    <3>4. strayed' \subseteq Vars
      <4> DEFINE B == (Reached(cap.cell) \ {cap.var}) \cup (IF AtHand(cap.cell) THEN {} ELSE {cap.var})
      <4>1. Stray(B)
        BY <1>2 DEF SetUpvalue, Assign
      <4>2. B \in SUBSET Vars
        BY <2>2, BoundVars
      <4> HIDE DEF B
      <4>3. QED
        BY <4>1, <4>2, StrayTyped
    <3>5. QED
      BY <2>2, <3>2, <3>3, <3>4 DEF TypeOK
  <2>4. stack' \in [Contexts -> [Slots -> Vals]]
    <3>1. slot[cap.cell] \in Slots
      BY <2>2 DEF TypeOK
    <3>2. UNCHANGED stack \/ stack' = [stack EXCEPT ![active][slot[cap.cell]] = v]
      BY <1>2 DEF SetUpvalue
    <3>3. [stack EXCEPT ![active][slot[cap.cell]] = v] \in [Contexts -> [Slots -> Vals]]
      BY <3>1, WriteSlot DEF TypeOK
    <3>4. QED
      BY <3>2, <3>3 DEF TypeOK
  <2>5. QED
    BY <1>2, <2>3, <2>4 DEF SetUpvalue, Assign, TypeOK, coroVars
<1>3. UNCHANGED <<frames, open, slot, closed, used, coroVars>>
  BY DEF SetLocal, SetUpvalue, Write, cellVars
<1>4. OpenListsSound' /\ FreshInv'
  BY <1>3 DEF OpenListsSound, FreshInv
<1>5. ContextInv'
  BY <1>3 DEF ContextInv, Running, coroVars
<1>6. QED
  BY <1>1, <1>2, <1>4, <1>5

(* A captured cell is new to every list, or the one already on the slot.   *)
LEMMA ShapeMakeClosure ==
  ASSUME ShapeInv, NEW s \in {LoopSlot, PlainSlot}, NEW x \in Cells, NEW b \in Vars,
         NEW Inherited \in SUBSET Top.fn, MakeClosure(s, x, b, Inherited)
  PROVE  ShapeInv'
<1> USE DEF ShapeInv, MakeClosure
<1>1. UNCHANGED <<stack, frames, closed, value, coroVars, strayed>>
  BY DEF CaptureUpvalue, cellVars
<1>2. /\ Here(s) \in Slots /\ Here(s) < 2 * Len(frames[active])
      /\ Inherited \subseteq Captures /\ active \in Contexts
  <2>1. Here(s) \in Slots /\ Here(s) \in 2 * (Depth - 1) .. 2 * Depth - 1 /\ Depth \in 1 .. MaxFrames
    BY RunningFrame
  <2>2. Top.fn \subseteq Captures
    BY RunningFrame
  <2>3. QED
    BY <2>1, <2>2 DEF TypeOK, Depth
<1>3. used' \subseteq Cells /\ used \subseteq used' /\ slot' \in [Cells -> Slots]
      /\ open' \in [Contexts -> SUBSET used']
  <2>1. CASE UNCHANGED <<open, cellVars>>
    BY <2>1 DEF TypeOK, cellVars
  <2>2. CASE /\ used' = used \cup {x}
             /\ slot' = [slot EXCEPT ![x] = Here(s)]
             /\ open' = [open EXCEPT ![active] = @ \cup {x}]
    BY <1>2, <2>2 DEF TypeOK
  <2>3. QED
    BY <2>1, <2>2 DEF CaptureUpvalue
<1>4. closures' \subseteq SUBSET Captures
  BY <1>2 DEF TypeOK, Captures
<1>5. binding' \in [Contexts -> [Slots -> SUBSET Vars]] /\ content' \in [Vars -> Vals]
  <2>1. CASE UNCHANGED <<binding, content>>
    BY <2>1 DEF TypeOK
  <2>2. CASE /\ binding' = [binding EXCEPT ![active][Here(s)] = {b}]
             /\ content' = [content EXCEPT ![b] = stack[active][Here(s)]]
    BY <1>2, <2>2 DEF TypeOK
  <2>3. QED
    BY <2>1, <2>2 DEF CapturedVar
<1>6. TypeOK'
  BY <1>1, <1>3, <1>4, <1>5 DEF TypeOK, coroVars
<1>7. OpenListsSound'
  <2>1. CASE UNCHANGED <<open, cellVars>>
    BY <2>1, <1>1 DEF OpenListsSound, cellVars
  <2>2. CASE /\ \A y \in open[active] : slot[y] # Here(s)
             /\ x \notin used
             /\ slot' = [slot EXCEPT ![x] = Here(s)]
             /\ open' = [open EXCEPT ![active] = @ \cup {x}]
    <3>1. \A c \in Contexts : x \notin open[c]
      BY <2>2 DEF TypeOK
    <3>2. \A c \in Contexts : \A y \in open[c] : slot'[y] = slot[y]
      BY <2>2, <3>1 DEF TypeOK
    <3>3. slot'[x] = Here(s) /\ ~closed[x]
      BY <2>2 DEF TypeOK, FreshInv
    <3>4. \A c \in Contexts : open'[c] = IF c = active THEN open[c] \cup {x} ELSE open[c]
      BY <2>2 DEF TypeOK
    <3>5. QED
      BY <1>1, <1>2, <2>2, <3>1, <3>2, <3>3, <3>4 DEF OpenListsSound
  <2>3. QED
    BY <2>1, <2>2 DEF CaptureUpvalue
<1>8. ContextInv' /\ FreshInv'
  BY <1>1, <1>3 DEF ContextInv, FreshInv, Running, coroVars
<1>9. QED
  BY <1>6, <1>7, <1>8

LEMMA Replaced ==
  ASSUME NEW C, NEW S, NEW f \in [C -> S], NEW c \in C, NEW s \in S, NEW g, g = [f EXCEPT ![c] = s]
  PROVE  /\ g \in [C -> S] /\ g[c] = s
         /\ \A d \in C \ {c} : g[d] = f[d]
OBVIOUS

(* The frames keep their number, the one on top may change.                *)
LEMMA TopChanged ==
  ASSUME TypeOK, ContextInv, NEW l \in BOOLEAN,
         frames' = [frames EXCEPT ![active][Depth].loop = l]
  PROVE  /\ frames' \in [Contexts -> Seq([fn : SUBSET Captures, loop : BOOLEAN])]
         /\ \A c \in Contexts : Len(frames'[c]) = Len(frames[c])
         /\ \A c \in Contexts : \A k \in DOMAIN frames[c] :
              /\ frames'[c][k].fn = frames[c][k].fn
              /\ frames'[c][k].loop = IF c = active /\ k = Depth THEN l ELSE frames[c][k].loop
<1> DEFINE F == [fn : SUBSET Captures, loop : BOOLEAN]
<1>1. active \in Contexts /\ frames \in [Contexts -> Seq(F)]
  BY DEF TypeOK
<1>2. Depth \in 1 .. Len(frames[active]) /\ Top \in F
  BY RunningFrame DEF Depth
<1> DEFINE new == [frames[active] EXCEPT ![Depth] = [Top EXCEPT !.loop = l]]
<1>3. frames' = [frames EXCEPT ![active] = new]
  BY <1>1 DEF Top
<1>4. new \in Seq(F) /\ Len(new) = Len(frames[active])
  <2>1. [Top EXCEPT !.loop = l] \in F
    BY <1>2
  <2> HIDE DEF F
  <2>2. QED
    BY <1>1, <1>2, <2>1
<1>5. \A k \in DOMAIN frames[active] :
        new[k] = IF k = Depth THEN [Top EXCEPT !.loop = l] ELSE frames[active][k]
  BY <1>1, <1>2
<1>6. \A k \in DOMAIN frames[active] :
        /\ new[k].fn = frames[active][k].fn
        /\ new[k].loop = IF k = Depth THEN l ELSE frames[active][k].loop
  BY <1>2, <1>5 DEF Top
<1> HIDE DEF new, F
<1>7. /\ frames' \in [Contexts -> Seq(F)]
      /\ frames'[active] = new /\ \A c \in Contexts \ {active} : frames'[c] = frames[c]
  <2>1. frames \in [Contexts -> Seq(F)] /\ active \in Contexts /\ new \in Seq(F)
    BY <1>1, <1>4
  <2>2. PICK g : g = frames'
    OBVIOUS
  <2>3. g = [frames EXCEPT ![active] = new]
    BY <1>3, <2>2
  <2>4. g \in [Contexts -> Seq(F)] /\ g[active] = new /\ \A d \in Contexts \ {active} : g[d] = frames[d]
    BY <2>1, <2>3, Replaced
  <2>5. QED
    BY <2>2, <2>4
<1>8. \A c \in Contexts : Len(frames'[c]) = Len(frames[c])
  BY <1>4, <1>7
<1>9. ASSUME NEW c \in Contexts, NEW k \in DOMAIN frames[c]
      PROVE  /\ frames'[c][k].fn = frames[c][k].fn
             /\ frames'[c][k].loop = IF c = active /\ k = Depth THEN l ELSE frames[c][k].loop
  <2>1. CASE c = active
    BY <1>6, <1>7, <2>1
  <2>2. CASE c # active
    BY <1>7, <2>2
  <2>3. QED
    BY <2>1, <2>2
<1>10. QED
  BY <1>7, <1>8, <1>9 DEF F

LEMMA LoopChanged ==
  ASSUME TypeOK, ContextInv, NEW l \in BOOLEAN,
         frames' = [frames EXCEPT ![active][Depth].loop = l]
  PROVE  \A c \in Contexts : \A k \in DOMAIN frames'[c] :
           k \in DOMAIN frames[c] /\ frames'[c][k].fn = frames[c][k].fn
<1> DEFINE D == [fn : SUBSET Captures, loop : BOOLEAN]
<1>1. \A c \in Contexts : frames[c] \in Seq(D) /\ frames'[c] \in Seq(D) /\ Len(frames'[c]) = Len(frames[c])
  BY TopChanged, ZenonT(60) DEF TypeOK
<1> HIDE DEF D
<1>2. \A c \in Contexts : DOMAIN frames'[c] = DOMAIN frames[c]
  BY <1>1
<1>3. QED
  BY <1>2, TopChanged

(* Every step of a loop, early exits included.                             *)
LEMMA ShapeLoop ==
  ASSUME ShapeInv,
         \/ \E v \in Vals : BeginFor(v) \/ NextIteration(v) \/ Continue(v)
         \/ EndFor \/ Break
  PROVE  ShapeInv'
<1> USE DEF ShapeInv
<1>1. /\ UNCHANGED <<closures, coroVars, content, slot, used>>
      /\ UNCHANGED <<open, cellVars>> \/ CloseUpvalues(Here(LoopSlot))
      /\ Stray(binding[active][Here(LoopSlot)]) \/ Stray(BoundAbove(Here(LoopSlot)))
      /\ UNCHANGED frames \/ \E l \in BOOLEAN : frames' = [frames EXCEPT ![active][Depth].loop = l]
      /\ UNCHANGED stack \/ \E v \in Vals : stack' = [stack EXCEPT ![active][Here(LoopSlot)] = v]
      /\ binding' = [binding EXCEPT ![active][Here(LoopSlot)] = {}]
  BY DEF BeginFor, NextIteration, Continue, EndFor, Break, ForNext, ForExit, FreshLoopVar,
         LoopVarClosed, LoopVarLeftOpen, CloseUpvalues, cellVars
<1>2. /\ frames' \in [Contexts -> Seq([fn : SUBSET Captures, loop : BOOLEAN])]
      /\ \A c \in Contexts : Len(frames'[c]) = Len(frames[c])
  BY <1>1, TopChanged DEF TypeOK
<1>3. stack' \in [Contexts -> [Slots -> Vals]] /\ binding' \in [Contexts -> [Slots -> SUBSET Vars]]
  <2>1. Here(LoopSlot) \in Slots
    BY RunningFrame
  <2>2. stack' \in [Contexts -> [Slots -> Vals]]
    <3>1. \A v \in Vals : [stack EXCEPT ![active][Here(LoopSlot)] = v] \in [Contexts -> [Slots -> Vals]]
      BY <2>1, WriteSlot DEF TypeOK
    <3>2. CASE UNCHANGED stack
      BY <3>2 DEF TypeOK
    <3>3. ASSUME NEW v \in Vals, stack' = [stack EXCEPT ![active][Here(LoopSlot)] = v]
          PROVE  stack' \in [Contexts -> [Slots -> Vals]]
      BY <3>1, <3>3
    <3>4. QED
      BY <1>1, <3>2, <3>3
  <2>3. binding' \in [Contexts -> [Slots -> SUBSET Vars]]
    BY <1>1, <2>1 DEF TypeOK
  <2>4. QED
    BY <2>2, <2>3
<1>4. /\ value' \in [Cells -> Vals] /\ closed' \in [Cells -> BOOLEAN]
      /\ open' \in [Contexts -> SUBSET used'] /\ FreshInv'
  <2>1. CASE UNCHANGED <<open, cellVars>>
    BY <2>1 DEF TypeOK, FreshInv, cellVars
  <2>2. CASE CloseUpvalues(Here(LoopSlot))
    BY <2>2, RunningFrame, ClosedCells DEF Slots
  <2>3. QED
    BY <1>1, <2>1, <2>2
<1>5. TypeOK'
  <2>1. Here(LoopSlot) \in Slots /\ active \in Contexts
    BY RunningFrame, TopFrame
  <2>2. Here(LoopSlot) \in Nat
    BY <2>1 DEF Slots
  <2>3. binding[active][Here(LoopSlot)] \in SUBSET Vars
    BY <2>1 DEF TypeOK
  <2>4. BoundAbove(Here(LoopSlot)) \in SUBSET Vars
    BY <2>2, BoundVars
  <2>5. strayed' \subseteq Vars
    BY <1>1, <2>3, <2>4, StrayTyped
  <2>6. QED
    BY <1>1, <1>2, <1>3, <1>4, <2>5 DEF TypeOK, coroVars
<1>6. OpenListsSound'
  <2>1. CASE UNCHANGED <<open, cellVars>>
    BY <2>1, <1>2 DEF OpenListsSound, cellVars
  <2>2. CASE CloseUpvalues(Here(LoopSlot))
    <3>1. Here(LoopSlot) \in Nat
      BY RunningFrame DEF Slots
    <3>2. \A c \in Contexts : \A x \in open'[c] : slot[x] < 2 * Len(frames'[c])
      BY <1>2, <2>2, <3>1, ClosedCells DEF OpenListsSound
    <3>3. QED
      BY <2>2, <3>1, <3>2, ListsAfterClosing
  <2>3. QED
    BY <1>1, <2>1, <2>2
<1>7. ContextInv'
  BY <1>1, <1>2, EmptyIff DEF ContextInv, Running, coroVars, TypeOK, Contexts
<1>8. QED
  BY <1>4, <1>5, <1>6, <1>7

(* A new frame on a context that has room for it.                          *)
LEMMA EnterShape ==
  ASSUME TypeOK, NEW c \in Contexts, NEW cl \in closures, NEW v \in Vals,
         NEW F \in Seq([fn : SUBSET Captures, loop : BOOLEAN]), Len(F) < MaxFrames,
         Enter(c, cl, v, F)
  PROVE  /\ frames' \in [Contexts -> Seq([fn : SUBSET Captures, loop : BOOLEAN])]
         /\ stack' \in [Contexts -> [Slots -> Vals]]
         /\ Len(frames'[c]) = Len(F) + 1
         /\ \A k \in 1 .. Len(F) : frames'[c][k] = F[k]
         /\ frames'[c][Len(F) + 1] = [fn |-> cl, loop |-> FALSE]
         /\ \A d \in Contexts \ {c} : frames'[d] = frames[d]
<1> DEFINE D == [fn : SUBSET Captures, loop : BOOLEAN]
           f == [fn |-> cl, loop |-> FALSE]
<1>1. f \in D
  BY DEF TypeOK
<1>2. /\ frames \in [Contexts -> Seq(D)]
      /\ frames' = [frames EXCEPT ![c] = Append(F, f)]
  BY DEF TypeOK, Enter
<1> HIDE DEF f, D
<1>3. F \in Seq(D)
  BY DEF D
<1>4. /\ Append(F, f) \in Seq(D)
      /\ Len(Append(F, f)) = Len(F) + 1
      /\ \A k \in 1 .. Len(F) : Append(F, f)[k] = F[k]
      /\ Append(F, f)[Len(F) + 1] = f
  BY <1>1, <1>3
<1>5. /\ frames' \in [Contexts -> Seq(D)]
      /\ frames'[c] = Append(F, f)
      /\ \A d \in Contexts \ {c} : frames'[d] = frames[d]
  BY <1>2, <1>4
<1>6. stack' \in [Contexts -> [Slots -> Vals]]
  <2>1. 2 * Len(F) + PlainSlot \in Slots /\ 2 * Len(F) + LoopSlot \in Slots
    BY <1>3, LocalSlots DEF Slots
  <2>2. [stack EXCEPT ![c][2 * Len(F) + PlainSlot] = v] \in [Contexts -> [Slots -> Vals]]
    BY <2>1, WriteSlot DEF TypeOK
  <2>3. [[stack EXCEPT ![c][2 * Len(F) + PlainSlot] = v] EXCEPT ![c][2 * Len(F) + LoopSlot] = Nil]
          \in [Contexts -> [Slots -> Vals]]
    BY <2>1, <2>2, WriteSlot
  <2>4. stack' = [[stack EXCEPT ![c][2 * Len(F) + PlainSlot] = v]
                    EXCEPT ![c][2 * Len(F) + LoopSlot] = Nil]
    BY DEF Enter
  <2>5. QED
    BY <2>3, <2>4
<1>7. QED
  BY <1>4, <1>5, <1>6 DEF D, f

LEMMA ShapeCall ==
  ASSUME ShapeInv, NEW cl \in closures, NEW v \in Vals, Call(cl, v)
  PROVE  ShapeInv'
<1> USE DEF ShapeInv
<1>1. frames[active] \in Seq([fn : SUBSET Captures, loop : BOOLEAN]) /\ active \in Contexts
  BY RunningFrame DEF TypeOK
<1>2. Len(frames[active]) < MaxFrames /\ Enter(active, cl, v, frames[active])
  BY DEF Call, Depth
<1>3. /\ frames' \in [Contexts -> Seq([fn : SUBSET Captures, loop : BOOLEAN])]
      /\ stack' \in [Contexts -> [Slots -> Vals]]
      /\ Len(frames'[active]) = Len(frames[active]) + 1
      /\ \A d \in Contexts \ {active} : frames'[d] = frames[d]
  BY <1>1, <1>2, EnterShape, ZenonT(60)
<1>4. UNCHANGED <<open, cellVars, closures, coroVars, binding, content, strayed>>
  BY DEF Call, histVars
<1>5. \A c \in Contexts : Len(frames'[c]) <= MaxFrames /\ Len(frames[c]) <= Len(frames'[c])
  <2>1. \A c \in Contexts : Len(frames[c]) \in Nat /\ Len(frames[c]) <= MaxFrames
    BY FewFrames
  <2>2. Len(frames[active]) < MaxFrames /\ MaxFrames \in Nat
    BY <1>2
  <2>3. ASSUME NEW c \in Contexts
        PROVE  Len(frames'[c]) <= MaxFrames /\ Len(frames[c]) <= Len(frames'[c])
    <3>1. CASE c = active
      BY <1>3, <2>1, <2>2, <3>1
    <3>2. CASE c # active
      BY <1>3, <2>1, <2>2, <3>2
    <3>3. QED
      BY <3>1, <3>2
  <2>4. QED
    BY <2>3
<1>6. TypeOK'
  BY <1>3, <1>4, <1>5 DEF TypeOK, cellVars, coroVars
<1>7. OpenListsSound'
  <2>1. \A c \in Contexts : \A x \in open[c] : slot[x] \in Slots
    BY DEF TypeOK
  <2>2. \A c \in Contexts : Len(frames[c]) \in Nat /\ Len(frames'[c]) \in Nat
    BY <1>3 DEF TypeOK
  <2>3. \A c \in Contexts : \A x \in open[c] : slot[x] < 2 * Len(frames'[c])
    BY <1>5, <2>1, <2>2 DEF OpenListsSound, Slots
  <2>4. QED
    BY <1>4, <2>3 DEF OpenListsSound, cellVars
<1>8. ContextInv' /\ FreshInv'
  <2>1. \A c \in Contexts : frames[c] # << >> => frames'[c] # << >>
    BY <1>1, <1>3, EmptyIff DEF TypeOK
  <2>2. active = Main \/ status[active] = "RUNNING"
    BY DEF ContextInv, Running
  <2>3. \A c \in Coros : status[c] = "CREATED" => frames'[c] = << >>
    BY <1>3, <2>2 DEF ContextInv, Contexts
  <2>4. QED
    BY <1>4, <2>1, <2>3 DEF ContextInv, FreshInv, Running, cellVars, coroVars
<1>9. QED
  BY <1>6, <1>7, <1>8

(* A return and a caught error: the frames above number k go, and with     *)
(* them every cell that was open on their slots.                           *)
LEMMA PoppedShape ==
  ASSUME TypeOK, OpenListsSound, FreshInv, active \in Contexts,
         NEW k \in 0 .. Depth, PopFrames(k)
  PROVE  /\ frames' \in [Contexts -> Seq([fn : SUBSET Captures, loop : BOOLEAN])]
         /\ Len(frames'[active]) = k
         /\ \A i \in 1 .. k : frames'[active][i] = frames[active][i]
         /\ \A d \in Contexts \ {active} : frames'[d] = frames[d]
         /\ binding' \in [Contexts -> [Slots -> SUBSET Vars]]
         /\ \A n \in Slots : binding'[active][n] = IF n >= 2 * k THEN {} ELSE binding[active][n]
         /\ \A d \in Contexts \ {active} : binding'[d] = binding[d]
         /\ stack' \in [Contexts -> [Slots -> Vals]]
         /\ \A n \in Slots : n < 2 * k => stack'[active][n] = stack[active][n]
         /\ \A d \in Contexts \ {active} : stack'[d] = stack[d]
         /\ OpenListsSound'
<1> DEFINE D == [fn : SUBSET Captures, loop : BOOLEAN]
<1> HIDE DEF D
<1>1. frames \in [Contexts -> Seq(D)]
  BY DEF TypeOK, D
<1>2. frames' = [frames EXCEPT ![active] = SubSeq(frames[active], 1, k)]
  BY DEF PopFrames
<1>3. k \in 0 .. Len(frames[active]) /\ k \in Nat /\ At(k + 1, 0) = 2 * k
  BY <1>1 DEF Depth, At
<1>4. /\ SubSeq(frames[active], 1, k) \in Seq(D)
      /\ Len(SubSeq(frames[active], 1, k)) = k
      /\ \A i \in 1 .. k : SubSeq(frames[active], 1, k)[i] = frames[active][i]
  BY <1>1, <1>3, FirstFrames
<1>5. /\ frames' \in [Contexts -> Seq(D)]
      /\ Len(frames'[active]) = k
      /\ \A i \in 1 .. k : frames'[active][i] = frames[active][i]
      /\ \A d \in Contexts \ {active} : frames'[d] = frames[d]
  BY <1>1, <1>2, <1>4
<1>6. binding' = [binding EXCEPT ![active] = [n \in Slots |-> IF n >= 2 * k THEN {} ELSE @[n]]]
  BY <1>3 DEF PopFrames, VariablesEnd
<1>7. /\ binding' \in [Contexts -> [Slots -> SUBSET Vars]]
      /\ \A n \in Slots : binding'[active][n] = IF n >= 2 * k THEN {} ELSE binding[active][n]
      /\ \A d \in Contexts \ {active} : binding'[d] = binding[d]
  BY <1>6 DEF TypeOK
<1>8. CloseUpvalues(2 * k) /\ 2 * k \in Nat
  BY <1>3 DEF PopFrames
<1>9. OpenListsSound'
  <2>1. \A x \in open'[active] : slot[x] < 2 * Len(frames'[active])
    BY <1>5, <1>8, ClosedCells
  <2>2. \A c \in Contexts \ {active} : \A x \in open'[c] : slot[x] < 2 * Len(frames'[c])
    BY <1>5, <1>8, ClosedCells DEF OpenListsSound
  <2>3. QED
    BY <1>8, <2>1, <2>2, ListsAfterClosing
<1>10. stack' = [stack EXCEPT ![active] = [n \in Slots |-> IF n >= 2 * k THEN Nil ELSE @[n]]]
  BY <1>3 DEF PopFrames
<1>11. /\ stack' \in [Contexts -> [Slots -> Vals]]
       /\ \A n \in Slots : n < 2 * k => stack'[active][n] = stack[active][n]
       /\ \A d \in Contexts \ {active} : stack'[d] = stack[d]
  <2>1. stack \in [Contexts -> [Slots -> Vals]]
    BY DEF TypeOK
  <2>2. \A n \in Slots : n < 2 * k => ~(n >= 2 * k)
    BY <1>3 DEF Slots
  <2>3. QED
    BY <1>10, <2>1, <2>2
<1>12. QED
  BY <1>5, <1>7, <1>9, <1>11 DEF D

LEMMA ShapeReturn ==
  ASSUME ShapeInv, Return \/ \E d \in 1 .. MaxFrames : Catch(d)
  PROVE  ShapeInv'
<1> USE DEF ShapeInv
<1>1. /\ Depth \in 1 .. MaxFrames /\ active \in Contexts
      /\ frames[active] \in Seq([fn : SUBSET Captures, loop : BOOLEAN])
  BY RunningFrame DEF TypeOK
<1>2. PICK k \in 1 .. (Depth - 1) : PopFrames(k) /\ UNCHANGED <<closures, coroVars, content, strayed>>
  <2>1. CASE Return
    <3>1. Depth - 1 \in 1 .. (Depth - 1)
      BY <1>1, <2>1 DEF Return
    <3>2. QED
      BY <2>1, <3>1 DEF Return
  <2>2. ASSUME NEW d \in 1 .. MaxFrames, Catch(d)
        PROVE  \E k \in 1 .. (Depth - 1) : PopFrames(k) /\ UNCHANGED <<closures, coroVars, content, strayed>>
    BY <2>2 DEF Catch
  <2>3. QED
    BY <2>1, <2>2
<1>3. k \in 0 .. Depth /\ 2 * k \in Nat /\ CloseUpvalues(2 * k) /\ k >= 1 /\ k < Depth
  BY <1>1, <1>2 DEF PopFrames, At
<1>4. /\ frames' \in [Contexts -> Seq([fn : SUBSET Captures, loop : BOOLEAN])]
      /\ Len(frames'[active]) = k
      /\ \A d \in Contexts \ {active} : frames'[d] = frames[d]
      /\ binding' \in [Contexts -> [Slots -> SUBSET Vars]]
      /\ stack' \in [Contexts -> [Slots -> Vals]]
      /\ OpenListsSound'
  BY <1>1, <1>2, <1>3, PoppedShape
<1>5. TypeOK' /\ FreshInv'
  <2>1. /\ value' \in [Cells -> Vals] /\ closed' \in [Cells -> BOOLEAN]
        /\ open' \in [Contexts -> SUBSET used'] /\ FreshInv'
    BY <1>3, ClosedCells
  <2>2. UNCHANGED <<slot, used>>
    BY <1>3 DEF CloseUpvalues
  <2>3. Len(frames'[active]) <= MaxFrames
    BY <1>1, <1>3, <1>4
  <2>4. \A c \in Contexts : Len(frames'[c]) <= MaxFrames
    BY <1>4, <2>3, FewFramesLeft
  <2>5. QED
    BY <1>2, <1>4, <2>1, <2>2, <2>4 DEF TypeOK, coroVars
<1>6. ContextInv'
  <2>1. \A c \in Contexts : frames[c] # << >> => frames'[c] # << >>
    BY <1>3, <1>4, EmptyIff
  <2>2. active = Main \/ status[active] = "RUNNING"
    BY DEF ContextInv, Running
  <2>3. \A c \in Coros : status[c] = "CREATED" => frames'[c] = << >>
    BY <1>4, <2>2 DEF ContextInv, Contexts
  <2>4. QED
    BY <1>2, <2>1, <2>3 DEF ContextInv, Running, coroVars
<1>7. QED
  BY <1>4, <1>5, <1>6

(* The chain of resumers when coroutine c is resumed ...                   *)
LEMMA ChainGrows ==
  ASSUME TypeOK, ContextInv, NEW c \in Coros, status[c] \in {"CREATED", "SUSPENDED"}, SwitchTo(c)
  PROVE  /\ status' \in [Coros -> {"CREATED", "SUSPENDED", "RUNNING", "DEAD"}]
         /\ active' \in Contexts /\ resumer' \in [Coros -> Contexts]
         /\ Running' = Running \cup {c} /\ active' \in Running'
         /\ \A d \in Coros \ {c} : status'[d] = status[d]
         /\ \A d \in Running' : resumer'[d] \in (Running' \cup {Main}) \ {active'}
         /\ \A d, e \in Running' : resumer'[d] = resumer'[e] => d = e
<1> USE DEF SwitchTo, TypeOK, Contexts
<1>1. c \notin Running /\ c # Main
  BY DEF Running
<1>2. Running' = Running \cup {c} /\ \A d \in Coros \ {c} : status'[d] = status[d]
  BY DEF Running
<1>3. \A d \in Coros : resumer'[d] = IF d = c THEN active ELSE resumer[d]
  OBVIOUS
<1>4. \A d \in Running' : resumer'[d] \in (Running' \cup {Main}) \ {active'}
  BY <1>1, <1>2, <1>3 DEF ContextInv, Running
<1>5. \A d, e \in Running' : resumer'[d] = resumer'[e] => d = e
  BY <1>1, <1>2, <1>3 DEF ContextInv, Running
<1>6. QED
  BY <1>2, <1>4, <1>5

(* ... and when the active one leaves.                                     *)
LEMMA ChainShrinks ==
  ASSUME TypeOK, ContextInv, NEW st \in {"SUSPENDED", "DEAD"}, Leave(st)
  PROVE  /\ status' \in [Coros -> {"CREATED", "SUSPENDED", "RUNNING", "DEAD"}]
         /\ active' \in Contexts /\ resumer' \in [Coros -> Contexts]
         /\ Running' = Running \ {active} /\ active' \in Running' \cup {Main}
         /\ active' # active
         /\ status'[active] = st /\ \A d \in Coros \ {active} : status'[d] = status[d]
         /\ \A d \in Running' : resumer'[d] \in (Running' \cup {Main}) \ {active'}
         /\ \A d, e \in Running' : resumer'[d] = resumer'[e] => d = e
<1> USE DEF Leave, TypeOK, Contexts
<1>1. active \in Running /\ active # Main
  BY DEF ContextInv
<1>2. /\ status'[active] = st /\ \A d \in Coros \ {active} : status'[d] = status[d]
      /\ Running' = Running \ {active}
  BY DEF Running
<1>3. \A d \in Running' : d \in Running /\ d # active /\ resumer'[d] = resumer[d]
  BY <1>2 DEF Running
<1>4. active' = resumer[active] /\ active' \in (Running \cup {Main}) \ {active}
  BY <1>1 DEF ContextInv
<1>5. \A d \in Running' : resumer'[d] \in (Running' \cup {Main}) \ {active'}
  BY <1>1, <1>2, <1>3, <1>4 DEF ContextInv
<1>6. \A d, e \in Running' : resumer'[d] = resumer'[e] => d = e
  BY <1>3 DEF ContextInv
<1>7. QED
  BY <1>2, <1>4, <1>5, <1>6

LEMMA ShapeStart ==
  ASSUME ShapeInv, NEW c \in Coros, NEW cl \in closures, NEW v \in Vals, Start(c, cl, v)
  PROVE  ShapeInv'
<1> USE DEF ShapeInv
<1>1. c \in Contexts /\ << >> \in Seq([fn : SUBSET Captures, loop : BOOLEAN])
  BY DEF Contexts
<1>2. Enter(c, cl, v, << >>) /\ Len(<< >>) = 0 /\ 0 < MaxFrames
  BY DEF Start
<1>3. /\ frames' \in [Contexts -> Seq([fn : SUBSET Captures, loop : BOOLEAN])]
      /\ stack' \in [Contexts -> [Slots -> Vals]]
      /\ Len(frames'[c]) = 1
      /\ \A d \in Contexts \ {c} : frames'[d] = frames[d]
  <2>1. PICK none : none = << >>
    OBVIOUS
  <2>2. /\ none \in Seq([fn : SUBSET Captures, loop : BOOLEAN])
        /\ Enter(c, cl, v, none) /\ Len(none) < MaxFrames /\ Len(none) + 1 = 1
    BY <1>1, <1>2, <2>1
  <2>3. QED
    BY <1>1, <2>2, EnterShape, ZenonT(60)
<1>4. /\ UNCHANGED <<open, cellVars, closures, binding, content, strayed>>
      /\ status[c] = "CREATED" /\ SwitchTo(c)
  BY DEF Start, histVars
<1>5. frames[c] = << >>
  BY <1>4 DEF ContextInv
<1>6. TypeOK'
  <2>1. \A d \in Contexts : Len(frames'[d]) <= MaxFrames
    <3>1. Len(frames'[c]) <= MaxFrames
      BY <1>3
    <3>2. \A d \in Contexts \ {c} : Len(frames'[d]) <= MaxFrames
      BY <1>3, FewFrames
    <3>3. QED
      BY <3>1, <3>2
  <2>2. QED
    BY <1>3, <1>4, <2>1, ChainGrows DEF TypeOK, cellVars
<1>7. OpenListsSound' /\ FreshInv'
  <2>1. \A x \in open[c] : slot[x] \in Nat
    BY <1>1 DEF TypeOK, Slots
  <2>2. open[c] = {}
    BY <1>1, <1>5, <2>1 DEF OpenListsSound
  <2>3. QED
    BY <1>3, <1>4, <2>2 DEF OpenListsSound, FreshInv, cellVars
<1>8. ContextInv'
  <2>1. frames'[c] # << >>
    <3>1. Len(frames'[c]) # 0 /\ Len(<< >>) = 0
      BY <1>3
    <3>2. QED
      BY <3>1, Zenon
  <2>2. /\ \A d \in Coros \ {c} : status'[d] = status[d]
        /\ status'[c] = "RUNNING"
    BY <1>1, <1>4, ChainGrows DEF SwitchTo, TypeOK
  <2>3. \A d \in Contexts : d = Main \/ status'[d] \in {"RUNNING", "SUSPENDED"} => frames'[d] # << >>
    BY <1>1, <1>3, <2>1, <2>2 DEF ContextInv, Contexts
  <2>4. \A d \in Coros : status'[d] = "CREATED" => frames'[d] = << >>
    BY <1>3, <2>2 DEF ContextInv, Contexts
  <2>5. QED
    BY <1>4, <2>3, <2>4, ChainGrows DEF ContextInv
<1>9. QED
  BY <1>6, <1>7, <1>8

LEMMA ShapeSwitch ==
  ASSUME ShapeInv, Yield \/ \E c \in Coros : Resume(c)
  PROVE  ShapeInv'
<1> USE DEF ShapeInv
<1>1. UNCHANGED <<stack, frames, open, cellVars, closures, binding, content, strayed>>
  BY DEF Yield, Resume, histVars
<1>2. OpenListsSound' /\ FreshInv'
  BY <1>1 DEF OpenListsSound, FreshInv, cellVars
<1>3. ASSUME NEW c \in Coros, Resume(c) PROVE TypeOK' /\ ContextInv'
  <2>1. SwitchTo(c) /\ status[c] = "SUSPENDED"
    BY <1>3 DEF Resume
  <2>2. TypeOK'
    BY <1>1, <2>1, ChainGrows DEF TypeOK, cellVars
  <2>3. frames[c] # << >> /\ c \in Contexts
    BY <2>1 DEF ContextInv, Contexts
  <2>4. \A d \in Contexts : d = Main \/ status'[d] \in {"RUNNING", "SUSPENDED"} => frames'[d] # << >>
    BY <1>1, <2>1, <2>3, ChainGrows DEF ContextInv, Contexts
  <2>5. \A d \in Coros : status'[d] = "CREATED" => frames'[d] = << >>
    BY <1>1, <2>1, ChainGrows DEF ContextInv, Running
  <2>6. QED
    BY <2>1, <2>2, <2>4, <2>5, ChainGrows DEF ContextInv
<1>4. CASE Yield
  <2>1. Leave("SUSPENDED") /\ active \in Coros /\ frames[active] # << >>
    BY <1>4 DEF Yield, Leave, ContextInv, Running, Contexts
  <2>2. TypeOK'
    BY <1>1, <2>1, ChainShrinks DEF TypeOK, cellVars
  <2>3. \A d \in Contexts : d = Main \/ status'[d] \in {"RUNNING", "SUSPENDED"} => frames'[d] # << >>
    BY <1>1, <2>1, ChainShrinks DEF ContextInv, Contexts
  <2>4. \A d \in Coros : status'[d] = "CREATED" => frames'[d] = << >>
    BY <1>1, <2>1, ChainShrinks DEF ContextInv
  <2>5. ContextInv'
    BY <2>1, <2>3, <2>4, ChainShrinks DEF ContextInv
  <2>6. QED
    BY <1>2, <2>2, <2>5
<1>5. QED
  BY <1>2, <1>3, <1>4 DEF ShapeInv

(* A coroutine ends, by its return or by an error: it keeps neither frames *)
(* nor open cells.                                                         *)
LEMMA ShapeEnd ==
  ASSUME ShapeInv, Finish \/ Fail
  PROVE  ShapeInv'
<1> USE DEF ShapeInv
<1>1. Leave("DEAD") /\ UNCHANGED <<closures, content, slot, used>> /\ active \in Coros
  BY DEF Finish, Fail, PopFrames, CloseUpvalues, cellVars, Leave
<1>2. active \in Contexts
  BY DEF TypeOK
<1>3. strayed' \subseteq Vars
  <2>1. UNCHANGED strayed \/ Stray(UNION {binding[active][n] : n \in Slots})
    BY DEF Finish, Fail
  <2>2. strayed \subseteq Vars
    BY DEF TypeOK
  <2>3. QED
    BY <2>1, <2>2, BoundVars, StrayTyped
<1>4. /\ frames' \in [Contexts -> Seq([fn : SUBSET Captures, loop : BOOLEAN])]
      /\ \A c \in Contexts : Len(frames'[c]) <= MaxFrames
      /\ \A c \in Contexts \ {active} : frames'[c] = frames[c]
      /\ binding' \in [Contexts -> [Slots -> SUBSET Vars]]
      /\ stack' \in [Contexts -> [Slots -> Vals]]
      /\ OpenListsSound'
      /\ value' \in [Cells -> Vals] /\ closed' \in [Cells -> BOOLEAN]
      /\ open' \in [Contexts -> SUBSET used'] /\ FreshInv'
  <2>1. CASE Finish
    <3>1. 0 \in 0 .. Depth /\ PopFrames(0) /\ CloseUpvalues(0) /\ 0 \in Nat
      BY <2>1, RunningFrame DEF Finish, PopFrames, At
    <3>2. /\ value' \in [Cells -> Vals] /\ closed' \in [Cells -> BOOLEAN]
          /\ open' \in [Contexts -> SUBSET used'] /\ FreshInv'
      BY <3>1, ClosedCells
    <3>3. /\ frames' \in [Contexts -> Seq([fn : SUBSET Captures, loop : BOOLEAN])]
          /\ Len(frames'[active]) = 0
          /\ \A c \in Contexts \ {active} : frames'[c] = frames[c]
          /\ binding' \in [Contexts -> [Slots -> SUBSET Vars]]
          /\ stack' \in [Contexts -> [Slots -> Vals]]
          /\ OpenListsSound'
      BY <1>2, <3>1, PoppedShape
    <3>4. \A c \in Contexts : Len(frames'[c]) <= MaxFrames
      <4>1. Len(frames'[active]) <= MaxFrames
        BY <3>3
      <4>2. QED
        BY <3>3, <4>1, FewFramesLeft
    <3>5. QED
      BY <3>2, <3>3, <3>4
  <2>2. CASE Fail
    <3> USE DEF Fail
    <3>1. UNCHANGED <<slot, closed, value, used>>
      BY <2>2 DEF cellVars
    <3>2. \A c \in Contexts : frames'[c] = IF c = active THEN << >> ELSE frames[c]
      BY <2>2 DEF TypeOK
    <3>3. frames' \in [Contexts -> Seq([fn : SUBSET Captures, loop : BOOLEAN])]
      <4> DEFINE D == [fn : SUBSET Captures, loop : BOOLEAN]
      <4> HIDE DEF D
      <4>1. frames \in [Contexts -> Seq(D)]
        BY DEF TypeOK, D
      <4>2. frames' \in [Contexts -> Seq(D)]
        <5>1. frames' = [frames EXCEPT ![active] = << >>] /\ << >> \in Seq(D)
          BY <2>2
        <5>2. QED
          BY <4>1, <5>1
      <4>3. QED
        BY <4>2 DEF D
    <3>4. \A c \in Contexts : Len(frames'[c]) <= MaxFrames
      BY <3>2, FewFrames
    <3>5. binding' \in [Contexts -> [Slots -> SUBSET Vars]]
      BY <2>2 DEF VariablesEnd, TypeOK
    <3>6. /\ \A c \in Contexts : open'[c] = IF c = active THEN {} ELSE open[c]
          /\ open' \in [Contexts -> SUBSET used']
      BY <2>2, <3>1 DEF TypeOK
    <3>7. OpenListsSound' /\ FreshInv'
      BY <3>1, <3>2, <3>6 DEF OpenListsSound, FreshInv
    <3>8. stack' \in [Contexts -> [Slots -> Vals]]
      <4>1. stack' = [stack EXCEPT ![active] = [n \in Slots |-> Nil]]
        BY <2>2 DEF FreeStack
      <4>2. stack \in [Contexts -> [Slots -> Vals]] /\ [n \in Slots |-> Nil] \in [Slots -> Vals]
        BY DEF TypeOK
      <4>3. QED
        BY <1>2, <4>1, <4>2
    <3>9. QED
      BY <3>1, <3>2, <3>3, <3>4, <3>5, <3>6, <3>7, <3>8 DEF TypeOK
  <2>3. QED
    BY <2>1, <2>2
<1>5. TypeOK'
  BY <1>1, <1>3, <1>4, ChainShrinks DEF TypeOK
<1>6. ContextInv'
  <2>1. \A d \in Contexts : d = Main \/ status'[d] \in {"RUNNING", "SUSPENDED"} => frames'[d] # << >>
    <3>1. \A d \in Coros \ {active} : status'[d] = status[d]
      BY <1>1, ChainShrinks
    <3>2. status'[active] = "DEAD" /\ active # Main
      BY <1>1, ChainShrinks
    <3>3. QED
      BY <1>4, <3>1, <3>2 DEF ContextInv, Contexts
  <2>2. \A d \in Coros : status'[d] = "CREATED" => frames'[d] = << >>
    BY <1>1, <1>4, ChainShrinks DEF ContextInv, Contexts
  <2>3. QED
    BY <1>1, <2>1, <2>2, ChainShrinks DEF ContextInv
<1>7. QED
  BY <1>4, <1>5, <1>6

(* Upvalues.tla: every step of every program keeps the shape.              *)
LEMMA ShapeNext == ShapeInv /\ [Next]_vars => ShapeInv'
<1> SUFFICES ASSUME ShapeInv, [Next]_vars PROVE ShapeInv'
  OBVIOUS
<1>1. CASE UNCHANGED vars
  BY <1>1 DEF vars, cellVars, coroVars, histVars, ShapeInv, TypeOK, OpenListsSound, ContextInv, FreshInv, Running
<1>2. CASE Next
  BY <1>2, ShapeSet, ShapeMakeClosure, ShapeLoop, ShapeCall, ShapeReturn, ShapeStart, ShapeSwitch,
     ShapeEnd DEF Next
<1>3. QED
  BY <1>1, <1>2

(* The types of the VM's closures, cells and contexts, for every program.  *)
THEOREM ClosuresTypeCorrect == Spec => []TypeOK
<1>1. ShapeInv => TypeOK
  BY DEF ShapeInv
<1>2. QED
  BY <1>1, ShapeInit, ShapeNext, PTL DEF Spec

(* The openUpvalues lists are sound for every program: captureUpvalue and  *)
(* closeUpvalues, and the swap of the lists in resumeCoroutine, keep one   *)
(* open cell per captured slot of a frame that is still there.             *)
THEOREM OpenListsAreSound == Spec => []OpenListsSound
<1>1. ShapeInv => OpenListsSound
  BY DEF ShapeInv
<1>2. QED
  BY <1>1, ShapeInit, ShapeNext, PTL DEF Spec

-----------------------------------------------------------------------------
(* What closures read.                                                     *)

ReadInv == BindingInv /\ CaptureInv /\ ValueInv /\ ReachInv

LEMMA ReadInit == Init => ReadInv
<1> SUFFICES ASSUME Init PROVE ReadInv
  OBVIOUS
<1>1. Captured = {}
  BY DEF Init, Captured
<1>2. \A c \in Contexts : \A n \in Slots : binding[c][n] = {} /\ open[c] = {}
  BY DEF Init
<1>3. \A c \in Contexts : \A k \in DOMAIN frames[c] : frames[c][k].fn = {}
  <2>1. \A c \in Contexts : c # Main => DOMAIN frames[c] = {}
    BY DEF Init
  <2>2. Main \in Contexts => DOMAIN frames[Main] = {1} /\ frames[Main][1].fn = {}
    BY DEF Init
  <2>3. QED
    BY <2>1, <2>2
<1>4. QED
  BY <1>1, <1>2, <1>3 DEF ReadInv, BindingInv, CaptureInv, ValueInv, ReachInv

LEMMA CaptureTypes ==
  ASSUME TypeOK
  PROVE  \A cap \in Captured : cap.cell \in Cells /\ cap.var \in Vars
BY DEF TypeOK, Captured, Captures

(* Above the frames a slot holds no variable that has not strayed.         *)
LEMMA NoneAbove ==
  ASSUME ShapeInv, BindingInv, NEW c \in Contexts, NEW n \in Slots, n >= 2 * Len(frames[c])
  PROVE  binding[c][n] \subseteq strayed
<1>1. \A x \in open[c] : slot[x] < 2 * Len(frames[c]) /\ slot[x] \in Slots
  BY DEF ShapeInv, OpenListsSound, TypeOK
<1>2. ~ \E x \in open[c] : slot[x] = n
  BY <1>1, FewFrames DEF Slots, ShapeInv
<1>3. QED
  BY <1>2 DEF BindingInv

(* A step that only writes values keeps what is about names and places.    *)
LEMMA PlacesUnchanged ==
  ASSUME ReadInv, UNCHANGED <<frames, open, slot, closed, used, closures, binding>>,
         strayed \subseteq strayed'
  PROVE  BindingInv' /\ CaptureInv' /\ ReachInv'
<1>1. Captured' = Captured
  BY DEF Captured
<1>2. BindingInv'
  BY <1>1 DEF ReadInv, BindingInv
<1>3. CaptureInv'
  BY <1>1 DEF ReadInv, CaptureInv
<1>4. QED
  BY <1>1, <1>2, <1>3 DEF ReadInv, ReachInv

(* A write to a local changes the variable that is bound there, and no     *)
(* closed cell holds that one.                                             *)
LEMMA ReadSetLocal ==
  ASSUME ShapeInv, ReadInv, NEW s \in {LoopSlot, PlainSlot}, NEW v \in Vals, SetLocal(s, v)
  PROVE  ReadInv'
<1> DEFINE n == Here(s)
<1>1. n \in Slots /\ active \in Contexts
  BY RunningFrame DEF ShapeInv, TypeOK
<1> HIDE DEF n
<1>2. /\ stack' = [stack EXCEPT ![active][n] = v]
      /\ content' = [b \in Vars |-> IF b \in binding[active][n] THEN v ELSE content[b]]
      /\ UNCHANGED <<frames, open, slot, closed, value, used, closures, binding, strayed>>
  BY DEF SetLocal, Write, cellVars, n
<1>3. Captured' = Captured
  BY <1>2 DEF Captured
<1>4. ASSUME NEW c \in Contexts, NEW m \in Slots, NEW b \in binding[c][m] \ strayed
      PROVE  stack'[c][m] = content'[b]
  <2>1. b \in Vars /\ stack[c][m] = content[b]
    BY <1>4 DEF ShapeInv, TypeOK, ReadInv, ValueInv
  <2>2. CASE c = active /\ m = n
    BY <1>1, <1>2, <2>1, <2>2 DEF ShapeInv, TypeOK
  <2>3. CASE ~(c = active /\ m = n)
    <3>1. b \notin binding[active][n]
      BY <1>1, <1>4, <2>3 DEF ReadInv, BindingInv
    <3>2. stack'[c][m] = stack[c][m]
      BY <1>1, <1>2, <2>3 DEF ShapeInv, TypeOK
    <3>3. QED
      BY <1>2, <2>1, <3>1, <3>2
  <2>4. QED
    BY <2>2, <2>3
<1>5. ASSUME NEW cap \in Captured, cap.var \notin strayed, closed[cap.cell]
      PROVE  value[cap.cell] = content'[cap.var]
  <2>1. cap.var \in Vars
    BY CaptureTypes DEF ShapeInv
  <2>2. cap.var \notin binding[active][n]
    BY <1>1, <1>5 DEF ReadInv, CaptureInv, ShapeInv, OpenListsSound
  <2>3. QED
    BY <1>2, <1>5, <2>1, <2>2 DEF ReadInv, ValueInv
<1>6. ValueInv'
  BY <1>2, <1>3, <1>4, <1>5 DEF ValueInv
<1>7. QED
  BY <1>2, <1>6, PlacesUnchanged DEF ReadInv

(* A write through a cell: what it reaches besides the variable it means   *)
(* strays, and so does that one if the write goes to another stack.        *)
LEMMA ReadSetUpvalue ==
  ASSUME ShapeInv, ReadInv, NEW cap \in Top.fn, NEW v \in Vals, SetUpvalue(cap, v)
  PROVE  ReadInv'
<1> DEFINE x == cap.cell
           b == cap.var
           n == slot[cap.cell]
<1>1. cap \in Captured /\ active \in Contexts
  <2>1. active \in Contexts /\ Depth \in DOMAIN frames[active]
    BY TopFrame DEF ShapeInv
  <2>2. QED
    BY <2>1 DEF ReadInv, ReachInv, Top
<1>2. x \in Cells /\ b \in Vars /\ n \in Slots
  <2>1. cap.cell \in Cells /\ cap.var \in Vars
    BY <1>1, CaptureTypes DEF ShapeInv
  <2>2. QED
    BY <2>1 DEF ShapeInv, TypeOK
<1>3. /\ content'[b] = v /\ \A a \in Vars \ {b} : content'[a] = content[a]
      /\ UNCHANGED <<frames, open, slot, closed, used, closures, binding>>
      /\ strayed \subseteq strayed'
      /\ Reached(x) \ {b} \subseteq strayed'
      /\ b \notin strayed' => AtHand(x)
  <2>1. /\ content' = [content EXCEPT ![b] = v]
        /\ strayed' = strayed \cup ((Reached(x) \ {b}) \cup (IF AtHand(x) THEN {} ELSE {b}))
        /\ UNCHANGED <<frames, open, slot, closed, used, closures, binding>>
    BY DEF SetUpvalue, Assign, Stray
  <2>2. QED
    BY <1>2, <2>1 DEF ShapeInv, TypeOK
<1>4. Captured' = Captured
  BY <1>3 DEF Captured
<1>5. \A dap \in Captured : dap.cell \in Cells /\ dap.var \in Vars
  BY CaptureTypes DEF ShapeInv
<1>6. \A dap \in Captured : dap.var \notin strayed' /\ dap.var = b => dap.cell = x
  BY <1>1, <1>3 DEF ReadInv, CaptureInv
<1>7. ASSUME NEW c \in Contexts, NEW m \in Slots, NEW a \in binding[c][m] \ strayed'
      PROVE  stack'[c][m] = content'[a]
  <2>1. a \in Vars /\ a \notin strayed /\ stack[c][m] = content[a]
    BY <1>3, <1>7 DEF ShapeInv, TypeOK, ReadInv, ValueInv
  <2>2. CASE closed[x]
    <3>1. UNCHANGED stack
      BY <2>2 DEF SetUpvalue
    <3>2. a # b
      BY <1>1, <2>1, <2>2, <1>7 DEF ReadInv, CaptureInv, ShapeInv, OpenListsSound
    <3>3. QED
      BY <1>3, <2>1, <3>1, <3>2
  <2>3. CASE ~closed[x]
    <3>1. stack' = [stack EXCEPT ![active][n] = v]
      BY <2>3 DEF SetUpvalue
    <3>2. CASE c = active /\ m = n
      <4>1. a = b
        BY <1>3, <1>7, <2>3, <3>2 DEF Reached
      <4>2. QED
        BY <1>1, <1>2, <1>3, <3>1, <3>2, <4>1 DEF ShapeInv, TypeOK
    <3>3. CASE ~(c = active /\ m = n)
      <4>1. a # b
        <5>1. SUFFICES ASSUME a = b PROVE FALSE
          OBVIOUS
        <5>2. x \in open[active]
          BY <1>3, <1>7, <2>3, <5>1 DEF AtHand
        <5>3. b \in binding[active][n]
          BY <1>1, <1>2, <2>1, <5>1, <5>2 DEF ReadInv, CaptureInv
        <5>4. QED
          BY <1>1, <1>2, <1>7, <3>3, <5>1, <5>3 DEF ReadInv, BindingInv
      <4>2. stack'[c][m] = stack[c][m]
        BY <1>1, <1>2, <3>1, <3>3 DEF ShapeInv, TypeOK
      <4>3. QED
        BY <1>3, <2>1, <4>1, <4>2
    <3>4. QED
      BY <3>2, <3>3
  <2>4. QED
    BY <2>2, <2>3
<1>8. ASSUME NEW dap \in Captured, dap.var \notin strayed', closed[dap.cell]
      PROVE  value'[dap.cell] = content'[dap.var]
  <2>1. value[dap.cell] = content[dap.var] /\ dap.var \notin strayed
    BY <1>3, <1>8 DEF ReadInv, ValueInv
  <2>2. CASE dap.cell = x
    <3>1. value' = [value EXCEPT ![x] = v]
      BY <1>8, <2>2 DEF SetUpvalue
    <3>2. dap.var = b
      BY <1>3, <1>8, <2>2 DEF Reached
    <3>3. QED
      BY <1>2, <1>3, <2>2, <3>1, <3>2 DEF ShapeInv, TypeOK
  <2>3. CASE dap.cell # x
    <3>1. dap.var # b
      BY <1>6, <1>8, <2>3
    <3>2. value'[dap.cell] = value[dap.cell]
      <4>1. UNCHANGED value \/ value' = [value EXCEPT ![x] = v]
        BY DEF SetUpvalue
      <4>2. QED
        BY <1>2, <1>5, <2>3, <4>1 DEF ShapeInv, TypeOK
    <3>3. QED
      BY <1>3, <1>5, <2>1, <3>1, <3>2
  <2>4. QED
    BY <2>2, <2>3
<1>9. ValueInv'
  BY <1>3, <1>4, <1>7, <1>8 DEF ValueInv
<1>10. QED
  BY <1>3, <1>9, PlacesUnchanged DEF ReadInv

(* The cell that a capture returns is open on the slot; of the captures    *)
(* that were made before, those of the slot's variable share it.           *)
LEMMA CapturedCell ==
  ASSUME ShapeInv, ReadInv, NEW n \in Slots, NEW x \in Cells, CaptureUpvalue(n, x)
  PROVE  /\ \A c \in Contexts : \A y \in Cells \ {x} : y \in open'[c] <=> y \in open[c]
         /\ \A y \in Cells \ {x} : slot'[y] = slot[y]
         /\ \A c \in Contexts : x \in open'[c] <=> c = active
         /\ slot'[x] = n /\ ~closed[x] /\ x \in used' /\ used \subseteq used'
         /\ \A c \in Contexts : \A y \in open[c] : y \in open'[c] /\ slot'[y] = slot[y]
         /\ \A dap \in Captured : dap.var \notin strayed =>
              (dap.cell = x <=> dap.var \in binding[active][n])
<1>1. active \in Contexts /\ \A c \in Contexts : open[c] \subseteq Cells /\ open[c] \subseteq used
  BY DEF ShapeInv, TypeOK
<1>2. CASE x \in open[active] /\ slot[x] = n /\ UNCHANGED <<open, cellVars>>
  <2>1. /\ x \in used /\ ~closed[x] /\ \A c \in Contexts \ {active} : x \notin open[c]
        /\ \A y \in open[active] : slot[y] = n => y = x
    BY <1>1, <1>2 DEF ShapeInv, OpenListsSound
  <2>2. \A dap \in Captured : dap.var \notin strayed =>
          (dap.cell = x <=> dap.var \in binding[active][n])
    BY <1>1, <1>2, <2>1 DEF ReadInv, CaptureInv
  <2>3. QED
    BY <1>1, <1>2, <2>1, <2>2 DEF cellVars
<1>3. CASE /\ \A y \in open[active] : slot[y] # n
           /\ x \notin used
           /\ used' = used \cup {x}
           /\ slot' = [slot EXCEPT ![x] = n]
           /\ open' = [open EXCEPT ![active] = @ \cup {x}]
  <2>1. /\ \A c \in Contexts : open'[c] = IF c = active THEN open[c] \cup {x} ELSE open[c]
        /\ slot'[x] = n /\ \A y \in Cells \ {x} : slot'[y] = slot[y]
        /\ \A c \in Contexts : x \notin open[c]
        /\ ~closed[x]
    BY <1>1, <1>3 DEF ShapeInv, TypeOK, FreshInv
  <2>2. \A dap \in Captured : dap.var \notin strayed =>
          dap.cell # x /\ dap.var \notin binding[active][n]
    BY <1>1, <1>3 DEF ReadInv, CaptureInv
  <2>3. QED
    BY <1>1, <1>3, <2>1, <2>2
<1>4. QED
  BY <1>2, <1>3 DEF CaptureUpvalue

(* The variable of a slot: the one it holds, or a new one.                 *)
LEMMA CapturedVariable ==
  ASSUME ShapeInv, ReadInv, NEW n \in Slots, NEW b \in Vars, CapturedVar(n, b)
  PROVE  /\ \A c \in Contexts : \A m \in Slots :
              binding'[c][m] = IF c = active /\ m = n THEN {b} ELSE binding[c][m]
         /\ \A a \in binding[active][n] : a = b
         /\ \A c \in Contexts : \A m \in Slots : b \in binding[c][m] => c = active /\ m = n
         /\ \A a \in Vars \ {b} : content'[a] = content[a]
         /\ content'[b] = IF b \in binding[active][n] THEN content[b] ELSE stack[active][n]
         /\ \A dap \in Captured : dap.var = b => b \in binding[active][n]
<1>1. active \in Contexts
  BY DEF ShapeInv, TypeOK
<1>2. CASE b \in binding[active][n] /\ UNCHANGED <<binding, content>>
  <2>1. binding[active][n] = {b}
    BY <1>1, <1>2 DEF ReadInv, BindingInv
  <2>2. \A c \in Contexts : \A m \in Slots : b \in binding[c][m] => c = active /\ m = n
    BY <1>1, <1>2 DEF ReadInv, BindingInv
  <2>3. QED
    BY <1>2, <2>1, <2>2
<1>3. CASE /\ binding[active][n] = {}
           /\ \A cl \in closures : \A cap \in cl : cap.var # b
           /\ binding' = [binding EXCEPT ![active][n] = {b}]
           /\ content' = [content EXCEPT ![b] = stack[active][n]]
  <2>1. \A dap \in Captured : dap.var # b
    BY <1>3 DEF Captured
  <2>2. \A c \in Contexts : \A m \in Slots : b \notin binding[c][m]
    BY <2>1 DEF ReadInv, BindingInv
  <2>3. \A c \in Contexts : \A m \in Slots :
          binding'[c][m] = IF c = active /\ m = n THEN {b} ELSE binding[c][m]
    BY <1>1, <1>3 DEF ShapeInv, TypeOK
  <2>4. content'[b] = stack[active][n] /\ \A a \in Vars \ {b} : content'[a] = content[a]
    BY <1>3 DEF ShapeInv, TypeOK
  <2>5. QED
    BY <1>3, <2>1, <2>2, <2>3, <2>4
<1>4. QED
  BY <1>2, <1>3 DEF CapturedVar

(* A closure captures: the new pair of a cell and a variable fits the ones *)
(* that were there.                                                        *)
LEMMA ReadMakeClosure ==
  ASSUME ShapeInv, ReadInv, NEW s \in {LoopSlot, PlainSlot}, NEW x \in Cells, NEW b \in Vars,
         NEW Inherited \in SUBSET Top.fn, MakeClosure(s, x, b, Inherited)
  PROVE  ReadInv'
<1> DEFINE n == Here(s)
           cap == [cell |-> x, var |-> b]
<1>1. n \in Slots /\ active \in Contexts /\ Depth \in DOMAIN frames[active]
  BY RunningFrame, TopFrame DEF ShapeInv
<1>2. CaptureUpvalue(n, x) /\ CapturedVar(n, b)
  BY DEF MakeClosure
<1> HIDE DEF n
<1>3. UNCHANGED <<stack, frames, closed, value, strayed>>
  BY DEF MakeClosure, CaptureUpvalue, cellVars
<1>4. Captured' = Captured \cup {cap}
  <2>1. Inherited \subseteq Captured
    BY <1>1 DEF ReadInv, ReachInv, Top
  <2>2. closures' = closures \cup {Inherited \cup {cap}}
    BY DEF MakeClosure
  <2> HIDE DEF cap
  <2>3. Captured' = Captured \cup (Inherited \cup {cap})
    BY <2>2 DEF Captured
  <2>4. QED
    BY <2>1, <2>3
<1>5. cap.cell = x /\ cap.var = b
  OBVIOUS
<1> HIDE DEF cap
<1>6. /\ \A c \in Contexts : \A y \in Cells \ {x} : y \in open'[c] <=> y \in open[c]
      /\ \A y \in Cells \ {x} : slot'[y] = slot[y]
      /\ \A c \in Contexts : x \in open'[c] <=> c = active
      /\ slot'[x] = n /\ ~closed[x] /\ x \in used' /\ used \subseteq used'
      /\ \A c \in Contexts : \A y \in open[c] : y \in open'[c] /\ slot'[y] = slot[y]
      /\ \A dap \in Captured : dap.var \notin strayed =>
           (dap.cell = x <=> dap.var \in binding[active][n])
  BY <1>1, <1>2, CapturedCell
<1>7. /\ \A c \in Contexts : \A m \in Slots :
           binding'[c][m] = IF c = active /\ m = n THEN {b} ELSE binding[c][m]
      /\ \A a \in binding[active][n] : a = b
      /\ \A c \in Contexts : \A m \in Slots : b \in binding[c][m] => c = active /\ m = n
      /\ \A a \in Vars \ {b} : content'[a] = content[a]
      /\ content'[b] = IF b \in binding[active][n] THEN content[b] ELSE stack[active][n]
      /\ \A dap \in Captured : dap.var = b => b \in binding[active][n]
  BY <1>1, <1>2, CapturedVariable
<1>8. \A dap \in Captured : dap.cell \in Cells /\ dap.var \in Vars
  BY CaptureTypes DEF ShapeInv
<1>9. \A dap \in Captured : dap.var \notin strayed => (dap.cell = x <=> dap.var = b)
  BY <1>6, <1>7
<1>10. BindingInv'
  <2>1. ASSUME NEW c \in Contexts, NEW m \in Slots, NEW a \in binding'[c][m]
        PROVE  /\ \A p \in binding'[c][m] : a = p
               /\ \E dap \in Captured' : dap.var = a
               /\ a \notin strayed => \E y \in open'[c] : slot'[y] = m
    <3>1. CASE c = active /\ m = n
      BY <1>1, <1>4, <1>5, <1>6, <1>7, <2>1, <3>1
    <3>2. CASE ~(c = active /\ m = n)
      <4>1. binding'[c][m] = binding[c][m]
        BY <1>7, <3>2
      <4>2. a \notin strayed => \E y \in open[c] : slot[y] = m
        BY <2>1, <4>1 DEF ReadInv, BindingInv
      <4>3. QED
        BY <1>4, <1>6, <2>1, <4>1, <4>2 DEF ReadInv, BindingInv
    <3>3. QED
      BY <3>1, <3>2
  <2>2. ASSUME NEW c \in Contexts, NEW d \in Contexts, NEW m \in Slots, NEW l \in Slots,
               binding'[c][m] \cap binding'[d][l] # {}
        PROVE  c = d /\ m = l
    BY <1>7, <2>2 DEF ReadInv, BindingInv
  <2>3. QED
    BY <1>3, <2>1, <2>2 DEF BindingInv
<1>11. CaptureInv'
  <2>1. \A dap \in Captured' : dap.cell \in used'
    BY <1>4, <1>5, <1>6 DEF ReadInv, CaptureInv
  <2>2. \A dap, eap \in Captured' : dap.var \notin strayed /\ eap.var \notin strayed =>
          (dap.cell = eap.cell <=> dap.var = eap.var)
    BY <1>4, <1>5, <1>9 DEF ReadInv, CaptureInv
  <2>3. \A c \in Contexts : \A m \in Slots :
          b \in binding'[c][m] <=> x \in open'[c] /\ slot'[x] = m
    BY <1>6, <1>7
  <2>4. ASSUME NEW dap \in Captured, dap.var \notin strayed, NEW c \in Contexts, NEW m \in Slots
        PROVE  dap.var \in binding'[c][m] <=> dap.cell \in open'[c] /\ slot'[dap.cell] = m
    <3>1. CASE dap.cell = x
      BY <1>9, <2>3, <2>4, <3>1
    <3>2. CASE dap.cell # x
      <4>1. slot'[dap.cell] = slot[dap.cell] /\ (dap.cell \in open'[c] <=> dap.cell \in open[c])
        BY <1>6, <1>8, <3>2
      <4>2. dap.var # b
        BY <1>9, <2>4, <3>2
      <4>3. dap.var \in binding'[c][m] <=> dap.var \in binding[c][m]
        BY <1>7, <4>2
      <4>4. QED
        BY <2>4, <4>1, <4>3 DEF ReadInv, CaptureInv
    <3>3. QED
      BY <3>1, <3>2
  <2>5. QED
    BY <1>3, <1>4, <1>5, <2>1, <2>2, <2>3, <2>4 DEF CaptureInv
<1>12. ValueInv'
  <2>1. ASSUME NEW c \in Contexts, NEW m \in Slots, NEW a \in binding'[c][m] \ strayed
        PROVE  stack[c][m] = content'[a]
    <3>1. CASE c = active /\ m = n
      <4>1. a = b
        BY <1>7, <2>1, <3>1
      <4>2. b \in binding[active][n] => stack[active][n] = content[b]
        BY <1>1, <2>1, <4>1 DEF ReadInv, ValueInv
      <4>3. QED
        BY <1>7, <3>1, <4>1, <4>2
    <3>2. CASE ~(c = active /\ m = n)
      <4>1. a \in binding[c][m] /\ a \in Vars \ {b}
        BY <1>7, <2>1, <3>2 DEF ShapeInv, TypeOK
      <4>2. QED
        BY <1>7, <2>1, <4>1 DEF ReadInv, ValueInv
    <3>3. QED
      BY <3>1, <3>2
  <2>2. ASSUME NEW dap \in Captured, dap.var \notin strayed, closed[dap.cell]
        PROVE  value[dap.cell] = content'[dap.var]
    <3>1. value[dap.cell] = content[dap.var]
      BY <2>2 DEF ReadInv, ValueInv
    <3>2. content'[dap.var] = content[dap.var]
      BY <1>7, <1>8
    <3>3. QED
      BY <3>1, <3>2
  <2>3. QED
    BY <1>3, <1>4, <1>5, <1>6, <2>1, <2>2 DEF ValueInv
<1>13. ReachInv'
  BY <1>3, <1>4 DEF ReadInv, ReachInv
<1>14. QED
  BY <1>10, <1>11, <1>12, <1>13 DEF ReadInv

(* Cells close together with the variables on their slots: each takes the  *)
(* value of its variable along; a variable that stays in a slot from which *)
(* its cell was taken has strayed.                                         *)
LEMMA ReadAfterClosing ==
  ASSUME ShapeInv, ReadInv, NEW n \in Nat, CloseUpvalues(n), active \in Contexts,
         UNCHANGED <<closures, content>>, strayed \subseteq strayed',
         \A c \in Contexts : \A m \in Slots :
           IF c = active /\ m >= n
             THEN binding'[c][m] \subseteq binding[c][m] \cap strayed'
             ELSE binding'[c][m] = binding[c][m] /\ stack'[c][m] = stack[c][m],
         \A c \in Contexts : \A k \in DOMAIN frames'[c] :
           k \in DOMAIN frames[c] /\ frames'[c][k].fn = frames[c][k].fn
  PROVE  ReadInv'
<1>1. /\ Captured' = Captured /\ UNCHANGED <<slot, used>>
      /\ \A c \in Contexts : open'[c] = IF c = active THEN open[c] \ Closing(n) ELSE open[c]
      /\ \A x \in Cells : closed'[x] <=> closed[x] \/ x \in Closing(n)
      /\ \A x \in Cells : value'[x] = IF x \in Closing(n) THEN stack[active][slot[x]] ELSE value[x]
  BY ClosedCells DEF CloseUpvalues, Captured, ShapeInv
<1>2. Closing(n) \subseteq open[active] /\ \A x \in open[active] : x \in Closing(n) <=> slot[x] >= n
  BY DEF Closing
<1>3. \A c \in Contexts : \A x \in open[c] : x \in Cells /\ slot[x] \in Slots /\ slot[x] \in Nat
  BY DEF ShapeInv, TypeOK, Slots
<1>4. \A c \in Contexts : \A m \in Slots : \A x \in Cells :
        x \in open'[c] /\ slot[x] = m <=> x \in open[c] /\ slot[x] = m /\ ~(c = active /\ m >= n)
  <2>1. SUFFICES ASSUME NEW c \in Contexts, NEW m \in Slots, NEW x \in Cells, slot[x] = m
                 PROVE  x \in open'[c] <=> x \in open[c] /\ ~(c = active /\ m >= n)
    OBVIOUS
  <2>2. CASE c = active
    <3>1. x \in open'[c] <=> x \in open[c] /\ x \notin Closing(n)
      BY <1>1, <2>2
    <3>2. x \in open[c] => (x \in Closing(n) <=> m >= n)
      BY <1>2, <2>1, <2>2
    <3>3. QED
      BY <2>2, <3>1, <3>2
  <2>3. CASE c # active
    BY <1>1, <2>3
  <2>4. QED
    BY <2>2, <2>3
<1>5. \A c \in Contexts : \A m \in Slots : binding'[c][m] \subseteq binding[c][m]
  <2>1. SUFFICES ASSUME NEW c \in Contexts, NEW m \in Slots
                 PROVE  binding'[c][m] \subseteq binding[c][m]
    OBVIOUS
  <2>2. CASE c = active /\ m >= n
    BY <2>2
  <2>3. CASE ~(c = active /\ m >= n)
    BY <2>3
  <2>4. QED
    BY <2>2, <2>3
<1>6. ASSUME NEW c \in Contexts, NEW m \in Slots, NEW b, b \notin strayed'
      PROVE  b \in binding'[c][m] <=> b \in binding[c][m] /\ ~(c = active /\ m >= n)
  <2>1. CASE c = active /\ m >= n
    BY <1>6, <2>1
  <2>2. CASE ~(c = active /\ m >= n)
    BY <2>2
  <2>3. QED
    BY <2>1, <2>2
<1>7. BindingInv'
  <2>1. ASSUME NEW c \in Contexts, NEW m \in Slots, NEW b \in binding'[c][m]
        PROVE  /\ \A a \in binding'[c][m] : a = b
               /\ \E cap \in Captured : cap.var = b
               /\ b \notin strayed' => \E x \in open'[c] : slot[x] = m
    <3>1. b \in binding[c][m] /\ \A a \in binding'[c][m] : a \in binding[c][m]
      BY <1>5, <2>1
    <3>2. b \notin strayed' => \E x \in open'[c] : slot[x] = m
      <4>1. SUFFICES ASSUME b \notin strayed' PROVE \E x \in open'[c] : slot[x] = m
        OBVIOUS
      <4>2. ~(c = active /\ m >= n)
        BY <1>6, <2>1, <4>1
      <4>3. PICK x \in open[c] : slot[x] = m
        BY <3>1, <4>1 DEF ReadInv, BindingInv
      <4>4. x \in open'[c]
        BY <1>3, <1>4, <4>2, <4>3
      <4>5. QED
        BY <4>3, <4>4
    <3>3. QED
      BY <3>1, <3>2 DEF ReadInv, BindingInv
  <2>2. ASSUME NEW c \in Contexts, NEW d \in Contexts, NEW m \in Slots, NEW l \in Slots,
               binding'[c][m] \cap binding'[d][l] # {}
        PROVE  c = d /\ m = l
    <3>1. binding[c][m] \cap binding[d][l] # {}
      BY <1>5, <2>2
    <3>2. QED
      BY <3>1 DEF ReadInv, BindingInv
  <2>3. QED
    BY <1>1, <2>1, <2>2 DEF BindingInv
<1>8. CaptureInv'
  <2>1. ASSUME NEW cap \in Captured, cap.var \notin strayed', NEW c \in Contexts, NEW m \in Slots
        PROVE  cap.var \in binding'[c][m] <=> cap.cell \in open'[c] /\ slot[cap.cell] = m
    <3>1. cap.cell \in Cells
      BY CaptureTypes DEF ShapeInv
    <3>2. cap.var \in binding[c][m] <=> cap.cell \in open[c] /\ slot[cap.cell] = m
      BY <2>1 DEF ReadInv, CaptureInv
    <3>3. cap.var \in binding'[c][m] <=> cap.var \in binding[c][m] /\ ~(c = active /\ m >= n)
      BY <1>6, <2>1
    <3>4. QED
      BY <1>4, <3>1, <3>2, <3>3
  <2>2. QED
    BY <1>1, <2>1 DEF ReadInv, CaptureInv
<1>9. ValueInv'
  <2>1. ASSUME NEW c \in Contexts, NEW m \in Slots, NEW b \in binding'[c][m] \ strayed'
        PROVE  stack'[c][m] = content[b]
    <3>1. b \in binding[c][m] /\ ~(c = active /\ m >= n)
      BY <1>6, <2>1
    <3>2. stack'[c][m] = stack[c][m]
      BY <3>1
    <3>3. QED
      BY <2>1, <3>1, <3>2 DEF ReadInv, ValueInv
  <2>2. ASSUME NEW cap \in Captured, cap.var \notin strayed', closed'[cap.cell]
        PROVE  value'[cap.cell] = content[cap.var]
    <3>1. cap.cell \in Cells /\ cap.var \notin strayed
      BY <2>2, CaptureTypes DEF ShapeInv
    <3>2. CASE cap.cell \in Closing(n)
      <4>1. cap.var \in binding[active][slot[cap.cell]] /\ slot[cap.cell] \in Slots
        BY <1>2, <1>3, <3>1, <3>2 DEF ReadInv, CaptureInv
      <4>2. stack[active][slot[cap.cell]] = content[cap.var]
        BY <3>1, <4>1 DEF ReadInv, ValueInv
      <4>3. QED
        BY <1>1, <3>1, <3>2, <4>2
    <3>3. CASE cap.cell \notin Closing(n)
      BY <1>1, <2>2, <3>1, <3>3 DEF ReadInv, ValueInv
    <3>4. QED
      BY <3>2, <3>3
  <2>3. QED
    BY <1>1, <2>1, <2>2 DEF ValueInv
<1>10. ReachInv'
  BY <1>1 DEF ReadInv, ReachInv
<1>11. QED
  BY <1>7, <1>8, <1>9, <1>10 DEF ReadInv

(* The loop's slot is overwritten, or left, with the cell open on it: the  *)
(* variable it held strays.                                                *)
LEMMA ReadLeftOpen ==
  ASSUME ShapeInv, ReadInv, Break \/ \E v \in Vals : BeginFor(v) \/ Continue(v)
  PROVE  ReadInv'
<1> DEFINE n == Here(LoopSlot)
<1>1. active \in Contexts /\ n \in Slots
  BY TopFrame, RunningFrame DEF ShapeInv
<1>2. /\ UNCHANGED <<open, slot, closed, value, used, closures, content>>
      /\ binding' = [binding EXCEPT ![active][n] = {}]
      /\ strayed' = strayed \cup binding[active][n]
      /\ UNCHANGED stack \/ \E v \in Vals : stack' = [stack EXCEPT ![active][n] = v]
      /\ UNCHANGED frames \/ \E l \in BOOLEAN : frames' = [frames EXCEPT ![active][Depth].loop = l]
  BY DEF Break, BeginFor, Continue, ForNext, ForExit, FreshLoopVar, LoopVarLeftOpen, Stray, cellVars
<1> HIDE DEF n
<1>3. Captured' = Captured
  BY <1>2 DEF Captured
<1>4. \A c \in Contexts : \A m \in Slots :
        binding'[c][m] = IF c = active /\ m = n THEN {} ELSE binding[c][m]
  BY <1>1, <1>2 DEF ShapeInv, TypeOK
<1>5. \A c \in Contexts : \A m \in Slots : ~(c = active /\ m = n) => stack'[c][m] = stack[c][m]
  BY <1>1, <1>2 DEF ShapeInv, TypeOK
<1>6. ASSUME NEW c \in Contexts, NEW m \in Slots, NEW b, b \notin strayed'
      PROVE  b \in binding'[c][m] <=> b \in binding[c][m]
  BY <1>2, <1>4, <1>6
<1>7. BindingInv'
  BY <1>2, <1>3, <1>4 DEF ReadInv, BindingInv
<1>8. CaptureInv'
  BY <1>2, <1>3, <1>6 DEF ReadInv, CaptureInv
<1>9. ValueInv'
  BY <1>2, <1>3, <1>4, <1>5 DEF ReadInv, ValueInv
<1>10. \A c \in Contexts : \A k \in DOMAIN frames'[c] :
         k \in DOMAIN frames[c] /\ frames'[c][k].fn = frames[c][k].fn
  BY <1>2, LoopChanged DEF ShapeInv
<1>11. ReachInv'
  BY <1>3, <1>10 DEF ReadInv, ReachInv
<1>12. QED
  BY <1>7, <1>8, <1>9, <1>11 DEF ReadInv

(* An iteration ends: CLOSE_UPVALUE closes the loop variable's cell, and   *)
(* those of the locals above, which stray.                                 *)
LEMMA ReadEndIteration ==
  ASSUME ShapeInv, ReadInv, EndFor \/ \E v \in Vals : NextIteration(v)
  PROVE  ReadInv'
<1> DEFINE n == Here(LoopSlot)
<1>1. active \in Contexts /\ n \in Slots
  BY TopFrame, RunningFrame DEF ShapeInv
<1>2. /\ CloseUpvalues(n) /\ UNCHANGED <<closures, content>>
      /\ binding' = [binding EXCEPT ![active][n] = {}]
      /\ strayed' = strayed \cup BoundAbove(n)
      /\ UNCHANGED stack \/ \E v \in Vals : stack' = [stack EXCEPT ![active][n] = v]
      /\ UNCHANGED frames \/ \E l \in BOOLEAN : frames' = [frames EXCEPT ![active][Depth].loop = l]
  BY DEF EndFor, NextIteration, ForNext, ForExit, FreshLoopVar, LoopVarClosed, Stray
<1> HIDE DEF n
<1>3. n \in Nat /\ \A m \in Slots : m \in Nat /\ (m > n => m \in (n + 1) .. (2 * MaxFrames - 1))
  BY <1>1 DEF Slots
<1>4. \A c \in Contexts : \A m \in Slots :
        binding'[c][m] = IF c = active /\ m = n THEN {} ELSE binding[c][m]
  BY <1>1, <1>2 DEF ShapeInv, TypeOK
<1>5. \A c \in Contexts : \A m \in Slots : ~(c = active /\ m = n) => stack'[c][m] = stack[c][m]
  BY <1>1, <1>2 DEF ShapeInv, TypeOK
<1>6. ASSUME NEW c \in Contexts, NEW m \in Slots
      PROVE  IF c = active /\ m >= n
               THEN binding'[c][m] \subseteq binding[c][m] \cap strayed'
               ELSE binding'[c][m] = binding[c][m] /\ stack'[c][m] = stack[c][m]
  <2>1. CASE c = active /\ m = n
    BY <1>3, <1>4, <2>1
  <2>2. CASE c = active /\ m > n
    <3>1. binding[active][m] \subseteq BoundAbove(n)
      BY <1>3, <2>2 DEF BoundAbove
    <3>2. binding'[c][m] = binding[c][m] /\ m >= n
      BY <1>3, <1>4, <2>2
    <3>3. QED
      BY <1>2, <2>2, <3>1, <3>2
  <2>3. CASE ~(c = active /\ m >= n)
    <3>1. ~(c = active /\ m = n)
      BY <1>3, <2>3
    <3>2. QED
      BY <1>4, <1>5, <2>3, <3>1
  <2>4. m = n \/ m > n \/ ~(m >= n)
    BY <1>3
  <2>5. QED
    BY <2>1, <2>2, <2>3, <2>4
<1>7. \A c \in Contexts : \A k \in DOMAIN frames'[c] :
        k \in DOMAIN frames[c] /\ frames'[c][k].fn = frames[c][k].fn
  BY <1>2, LoopChanged DEF ShapeInv
<1>8. strayed \subseteq strayed'
  BY <1>2
<1>9. QED
  BY <1>1, <1>2, <1>3, <1>6, <1>7, <1>8, ReadAfterClosing

(* Frames above number k are popped, or all when the coroutine ends.       *)
LEMMA ReadPop ==
  ASSUME ShapeInv, ReadInv, NEW k \in 0 .. Depth, PopFrames(k),
         UNCHANGED <<closures, content, strayed>>
  PROVE  ReadInv'
<1>1. active \in Contexts /\ Depth \in Nat /\ Depth = Len(frames[active])
  BY RunningFrame DEF ShapeInv, TypeOK, Depth
<1>2. CloseUpvalues(2 * k) /\ 2 * k \in Nat
  BY <1>1 DEF PopFrames, At
<1>3. /\ frames' \in [Contexts -> Seq([fn : SUBSET Captures, loop : BOOLEAN])]
      /\ Len(frames'[active]) = k
      /\ \A i \in 1 .. k : frames'[active][i] = frames[active][i]
      /\ \A d \in Contexts \ {active} : frames'[d] = frames[d]
      /\ \A n \in Slots : binding'[active][n] = IF n >= 2 * k THEN {} ELSE binding[active][n]
      /\ \A d \in Contexts \ {active} : binding'[d] = binding[d]
      /\ \A n \in Slots : n < 2 * k => stack'[active][n] = stack[active][n]
      /\ \A d \in Contexts \ {active} : stack'[d] = stack[d]
  BY <1>1, PoppedShape DEF ShapeInv
<1>4. ASSUME NEW c \in Contexts, NEW m \in Slots
      PROVE  IF c = active /\ m >= 2 * k
               THEN binding'[c][m] \subseteq binding[c][m] \cap strayed'
               ELSE binding'[c][m] = binding[c][m] /\ stack'[c][m] = stack[c][m]
  <2>1. m >= 2 * k \/ m < 2 * k
    BY <1>2 DEF Slots
  <2>2. ~(m >= 2 * k /\ m < 2 * k)
    BY <1>2 DEF Slots
  <2>3. QED
    BY <1>3, <2>1, <2>2
<1>5. ASSUME NEW c \in Contexts, NEW i \in DOMAIN frames'[c]
      PROVE  i \in DOMAIN frames[c] /\ frames'[c][i] = frames[c][i]
  <2>1. CASE c = active
    <3>1. i \in 1 .. k
      BY <1>3, <1>5, <2>1
    <3>2. i \in DOMAIN frames[active]
      BY <1>1, <3>1 DEF ShapeInv, TypeOK
    <3>3. QED
      BY <1>3, <2>1, <3>1, <3>2
  <2>2. CASE c # active
    BY <1>3, <1>5, <2>2
  <2>3. QED
    BY <2>1, <2>2
<1>6. QED
  BY <1>1, <1>2, <1>4, <1>5, ReadAfterClosing

LEMMA ReadReturn ==
  ASSUME ShapeInv, ReadInv, Return \/ Finish \/ \E d \in 1 .. MaxFrames : Catch(d)
  PROVE  ReadInv'
<1>1. Depth \in 1 .. MaxFrames
  BY RunningFrame DEF ShapeInv
<1>2. CASE Return
  <2>1. Depth - 1 \in 0 .. Depth
    BY <1>1
  <2>2. QED
    BY <1>2, <2>1, ReadPop DEF Return
<1>3. ASSUME NEW d \in 1 .. MaxFrames, Catch(d) PROVE ReadInv'
  <2>1. d \in 0 .. Depth
    BY <1>1, <1>3 DEF Catch
  <2>2. QED
    BY <1>3, <2>1, ReadPop DEF Catch
<1>4. CASE Finish
  <2>1. 0 \in 0 .. Depth
    BY <1>1
  <2>2. QED
    BY <1>4, <2>1, ReadPop DEF Finish
<1>5. QED
  BY <1>2, <1>3, <1>4

(* A closure is entered on any context: the new frame's slots lie above    *)
(* every variable that is bound there and has not strayed.                 *)
LEMMA ReadEnter ==
  ASSUME ShapeInv, ReadInv, NEW c \in Contexts, NEW cl \in closures, NEW v \in Vals,
         NEW F \in Seq([fn : SUBSET Captures, loop : BOOLEAN]), F = frames[c],
         Len(F) < MaxFrames, Enter(c, cl, v, F),
         UNCHANGED <<open, cellVars, closures, histVars>>
  PROVE  ReadInv'
<1>1. /\ \A k \in 1 .. Len(F) : frames'[c][k] = F[k]
      /\ frames'[c][Len(F) + 1] = [fn |-> cl, loop |-> FALSE]
      /\ Len(F) \in Nat
      /\ DOMAIN frames'[c] = 1 .. Len(F) + 1 /\ DOMAIN frames[c] = 1 .. Len(F)
      /\ \A d \in Contexts \ {c} : frames'[d] = frames[d]
  <2> DEFINE D == [fn : SUBSET Captures, loop : BOOLEAN]
             f == [fn |-> cl, loop |-> FALSE]
  <2>1. F \in Seq(D) /\ f \in D /\ frames \in [Contexts -> Seq(D)]
    BY DEF ShapeInv, TypeOK
  <2>2. frames' = [frames EXCEPT ![c] = Append(F, f)]
    BY DEF Enter
  <2> HIDE DEF D, f
  <2>3. /\ frames'[c] = Append(F, f) /\ frames[c] = F
        /\ \A d \in Contexts \ {c} : frames'[d] = frames[d]
    BY <2>1, <2>2
  <2>4. /\ Append(F, f) \in Seq(D) /\ Len(Append(F, f)) = Len(F) + 1 /\ Len(F) \in Nat
        /\ \A k \in 1 .. Len(F) : Append(F, f)[k] = F[k]
        /\ Append(F, f)[Len(F) + 1] = f
    BY <2>1
  <2>5. DOMAIN frames'[c] = 1 .. Len(F) + 1 /\ DOMAIN frames[c] = 1 .. Len(F)
    BY <2>1, <2>3, <2>4
  <2>6. QED
    BY <2>3, <2>4, <2>5 DEF f
<1>2. /\ UNCHANGED <<open, slot, closed, value, used, closures, binding, content, strayed>>
      /\ Captured' = Captured
  BY DEF cellVars, histVars, Captured
<1>3. ASSUME NEW d \in Contexts, NEW k \in DOMAIN frames'[d]
      PROVE  frames'[d][k].fn \subseteq Captured
  <2>1. CASE k \in DOMAIN frames[d] /\ frames'[d][k] = frames[d][k]
    BY <2>1 DEF ReadInv, ReachInv
  <2>2. CASE frames'[d][k] = [fn |-> cl, loop |-> FALSE]
    BY <2>2 DEF Captured
  <2>3. \/ k \in DOMAIN frames[d] /\ frames'[d][k] = frames[d][k]
        \/ frames'[d][k] = [fn |-> cl, loop |-> FALSE]
    <3>1. CASE d = c
      BY <1>1, <1>3, <3>1
    <3>2. CASE d # c
      BY <1>1, <1>3, <3>2
    <3>3. QED
      BY <3>1, <3>2
  <2>4. QED
    BY <2>1, <2>2, <2>3
<1>4. BindingInv'
  BY <1>2 DEF ReadInv, BindingInv
<1>5. CaptureInv'
  BY <1>2 DEF ReadInv, CaptureInv
<1>6. ValueInv'
  <2>1. ASSUME NEW d \in Contexts, NEW n \in Slots, NEW b \in binding[d][n] \ strayed
        PROVE  stack'[d][n] = stack[d][n]
    <3>1. stack' = [[stack EXCEPT ![c][2 * Len(F) + PlainSlot] = v]
                      EXCEPT ![c][2 * Len(F) + LoopSlot] = Nil]
      BY DEF Enter
    <3>2. 2 * Len(F) + LoopSlot \in Slots /\ 2 * Len(F) + PlainSlot \in Slots
      BY <1>1, LocalSlots DEF Slots
    <3>3. CASE d = c
      <4>1. ~(n >= 2 * Len(F))
        BY <2>1, <3>3, NoneAbove DEF ReadInv
      <4>2. n # 2 * Len(F) + PlainSlot /\ n # 2 * Len(F) + LoopSlot
        BY <1>1, <4>1, LocalSlots
      <4>3. QED
        BY <3>1, <3>2, <3>3, <4>2 DEF ShapeInv, TypeOK
    <3>4. CASE d # c
      BY <3>1, <3>4 DEF ShapeInv, TypeOK
    <3>5. QED
      BY <3>3, <3>4
  <2>2. QED
    BY <1>2, <2>1 DEF ReadInv, ValueInv
<1>7. ReachInv'
  BY <1>2, <1>3 DEF ReachInv
<1>8. QED
  BY <1>4, <1>5, <1>6, <1>7 DEF ReadInv

LEMMA ReadCall ==
  ASSUME ShapeInv, ReadInv, NEW cl \in closures, NEW v \in Vals, Call(cl, v)
  PROVE  ReadInv'
<1>1. active \in Contexts /\ frames[active] \in Seq([fn : SUBSET Captures, loop : BOOLEAN])
  BY RunningFrame DEF ShapeInv, TypeOK
<1>2. /\ Enter(active, cl, v, frames[active]) /\ Len(frames[active]) < MaxFrames
      /\ UNCHANGED <<open, cellVars, closures, histVars>>
  BY DEF Call, Depth
<1>3. QED
  BY <1>1, <1>2, ReadEnter

(* The first resumption of a coroutine: it has no frame yet.               *)
LEMMA ReadStart ==
  ASSUME ShapeInv, ReadInv, NEW c \in Coros, NEW cl \in closures, NEW v \in Vals, Start(c, cl, v)
  PROVE  ReadInv'
<1>1. c \in Contexts /\ frames[c] = << >>
  BY DEF Contexts, Start, ShapeInv, ContextInv
<1>2. Len(frames[c]) = 0
  BY <1>1
<1>3. frames[c] \in Seq([fn : SUBSET Captures, loop : BOOLEAN])
  BY <1>1 DEF ShapeInv, TypeOK
<1>4. /\ Enter(c, cl, v, frames[c]) /\ Len(frames[c]) < MaxFrames
      /\ UNCHANGED <<open, cellVars, closures, histVars>>
  BY <1>1, <1>2 DEF Start
<1>5. QED
  BY <1>1, <1>3, <1>4, ReadEnter

(* A yield and the resumption of a suspended coroutine leave every stack.  *)
LEMMA ReadSwitch ==
  ASSUME ReadInv, Yield \/ \E c \in Coros : Resume(c)
  PROVE  ReadInv'
<1>1. UNCHANGED <<stack, frames, open, slot, closed, value, used, closures, binding, content, strayed>>
  BY DEF Yield, Resume, cellVars, histVars
<1>2. Captured' = Captured
  BY <1>1 DEF Captured
<1>3. ValueInv'
  BY <1>1, <1>2 DEF ReadInv, ValueInv
<1>4. QED
  BY <1>1, <1>3, PlacesUnchanged DEF ReadInv

(* An error ends a coroutine: its cells stay open, on no list; the         *)
(* variables they were for stray.                                          *)
LEMMA ReadFail ==
  ASSUME ShapeInv, ReadInv, Fail
  PROVE  ReadInv'
<1>1. /\ UNCHANGED <<slot, closed, value, used, closures, content>> /\ Captured' = Captured
      /\ active \in Contexts
  BY DEF Fail, cellVars, Captured, ShapeInv, TypeOK
<1>2. \A c \in Contexts : open'[c] = IF c = active THEN {} ELSE open[c]
  BY DEF Fail, ShapeInv, TypeOK
<1>3. \A c \in Contexts : \A n \in Slots : binding'[c][n] = IF c = active THEN {} ELSE binding[c][n]
  <2>1. binding' = [binding EXCEPT ![active] =
                      [n \in Slots |-> IF n >= At(0 + 1, 0) THEN {} ELSE @[n]]]
    BY DEF Fail, VariablesEnd
  <2>2. At(0 + 1, 0) = 0 /\ \A n \in Slots : n >= 0
    BY DEF At, Slots
  <2>3. QED
    BY <1>1, <2>1, <2>2 DEF ShapeInv, TypeOK
<1>4. strayed' = strayed \cup UNION {binding[active][n] : n \in Slots}
  BY DEF Fail, Stray
<1>5. \A c \in Contexts : frames'[c] = IF c = active THEN << >> ELSE frames[c]
  BY DEF Fail, ShapeInv, TypeOK
<1>6. \A c \in Contexts : \A k \in DOMAIN frames'[c] : c # active /\ frames'[c] = frames[c]
  BY <1>5
<1>7. \A c \in Contexts \ {active} : stack'[c] = stack[c]
  BY DEF Fail, FreeStack, ShapeInv, TypeOK
<1>8. BindingInv'
  <2>1. ASSUME NEW c \in Contexts, NEW n \in Slots, NEW b \in binding'[c][n]
        PROVE  /\ \A a \in binding'[c][n] : a = b
               /\ \E cap \in Captured' : cap.var = b
               /\ b \notin strayed' => \E x \in open'[c] : slot'[x] = n
    <3>1. c # active /\ binding'[c][n] = binding[c][n] /\ open'[c] = open[c]
      BY <1>2, <1>3, <2>1
    <3>2. QED
      BY <1>1, <1>4, <2>1, <3>1 DEF ReadInv, BindingInv
  <2>2. ASSUME NEW c \in Contexts, NEW d \in Contexts, NEW n \in Slots, NEW m \in Slots,
               binding'[c][n] \cap binding'[d][m] # {}
        PROVE  c = d /\ n = m
    <3>1. binding'[c][n] \subseteq binding[c][n] /\ binding'[d][m] \subseteq binding[d][m]
      BY <1>3
    <3>2. binding[c][n] \cap binding[d][m] # {}
      BY <2>2, <3>1
    <3>3. QED
      BY <3>2 DEF ReadInv, BindingInv
  <2>3. QED
    BY <2>1, <2>2 DEF BindingInv
<1>9. CaptureInv'
  <2>1. ASSUME NEW cap \in Captured, cap.var \notin strayed', NEW c \in Contexts, NEW n \in Slots
        PROVE  cap.var \in binding'[c][n] <=> cap.cell \in open'[c] /\ slot'[cap.cell] = n
    <3>1. CASE c = active
      BY <1>2, <1>3, <3>1
    <3>2. CASE c # active
      BY <1>1, <1>2, <1>3, <1>4, <2>1, <3>2 DEF ReadInv, CaptureInv
    <3>3. QED
      BY <3>1, <3>2
  <2>2. QED
    BY <1>1, <1>4, <2>1 DEF ReadInv, CaptureInv
<1>10. ValueInv'
  <2>1. \A c \in Contexts : \A n \in Slots : \A b \in binding'[c][n] :
          c # active /\ b \in binding[c][n] /\ stack'[c] = stack[c]
    BY <1>3, <1>7
  <2>2. QED
    BY <1>1, <1>4, <2>1 DEF ReadInv, ValueInv
<1>11. ReachInv'
  BY <1>1, <1>6 DEF ReadInv, ReachInv
<1>12. QED
  BY <1>8, <1>9, <1>10, <1>11 DEF ReadInv

LEMMA ReadNext == ShapeInv /\ ReadInv /\ [Next]_vars => ReadInv'
<1> SUFFICES ASSUME ShapeInv, ReadInv, [Next]_vars PROVE ReadInv'
  OBVIOUS
<1>1. CASE UNCHANGED vars
  <2>1. UNCHANGED <<stack, frames, open, slot, closed, value, used, closures, binding, content, strayed>>
    BY <1>1 DEF vars, cellVars, histVars
  <2>2. Captured' = Captured
    BY <2>1 DEF Captured
  <2>3. ValueInv'
    BY <2>1, <2>2 DEF ReadInv, ValueInv
  <2>4. QED
    BY <2>1, <2>3, PlacesUnchanged DEF ReadInv
<1>2. CASE Next
  BY <1>2, ReadSetLocal, ReadSetUpvalue, ReadMakeClosure, ReadLeftOpen, ReadEndIteration, ReadCall,
     ReadReturn, ReadStart, ReadSwitch, ReadFail DEF Next
<1>3. QED
  BY <1>1, <1>2

(* The inductive invariant, for every program: slots, cells and variables  *)
(* correspond, for every variable that the code has not lost track of.     *)
THEOREM CellsFollowVariables == Spec => []IInv
<1>1. Init => IInv
  BY ShapeInit, ReadInit DEF IInv, ReadInv
<1>2. IInv /\ [Next]_vars => IInv'
  BY ShapeNext, ReadNext DEF IInv, ReadInv
<1>3. QED
  BY <1>1, <1>2, PTL DEF Spec

(* GET_UPVALUE finds the value of the variable that the running closure    *)
(* captured, through a closed cell and through one that is open on the     *)
(* stack that runs, for every program and unless the variable has strayed. *)
THEOREM ClosuresReadTheirVariable == Spec => []CellsFollowTheirVariable
<1>1. IInv => CellsFollowTheirVariable
  <2> SUFFICES ASSUME IInv, NEW cap \in Top.fn, cap.var \notin strayed, AtHand(cap.cell)
               PROVE  Fetch(cap.cell) = content[cap.var]
    BY DEF CellsFollowTheirVariable
  <2>1. active \in Contexts /\ Depth \in DOMAIN frames[active]
    BY TopFrame DEF IInv, ShapeInv
  <2>2. cap \in Captured
    BY <2>1 DEF IInv, ReachInv, Top
  <2>3. CASE closed[cap.cell]
    BY <2>2, <2>3 DEF IInv, ValueInv, Fetch
  <2>4. CASE ~closed[cap.cell]
    <3>1. cap.cell \in open[active]
      BY <2>4 DEF AtHand
    <3>2. slot[cap.cell] \in Slots
      BY <2>1, <3>1 DEF IInv, ShapeInv, TypeOK
    <3>3. cap.var \in binding[active][slot[cap.cell]]
      BY <2>1, <2>2, <3>1, <3>2 DEF IInv, CaptureInv
    <3>4. QED
      BY <2>1, <2>4, <3>2, <3>3 DEF IInv, ValueInv, Fetch
  <2>5. QED
    BY <2>3, <2>4
<1>2. QED
  BY <1>1, CellsFollowVariables, PTL

(* A local that closures have captured is the same variable for the frame  *)
(* that owns it, for every program and unless the variable has strayed.    *)
THEOREM CapturedLocalsAreShared == Spec => []LocalsAreShared
<1>1. IInv => LocalsAreShared
  <2> SUFFICES ASSUME IInv PROVE LocalsAreShared
    OBVIOUS
  <2>1. active \in Contexts /\ Depth \in 1 .. MaxFrames
    BY RunningFrame, TopFrame DEF IInv, ShapeInv
  <2>2. 0 .. (2 * Depth - 1) \subseteq Slots
    BY <2>1 DEF Slots
  <2>3. QED
    BY <2>1, <2>2 DEF IInv, ValueInv, LocalsAreShared
<1>2. QED
  BY <1>1, CellsFollowVariables, PTL
=============================================================================
