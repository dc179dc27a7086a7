------------------------------ MODULE Upvalues ------------------------------
(***************************************************************************)
(* Closures and their captured variables (src/src/vm/vm.hpp): a variable   *)
(* lives in a stack slot until its scope ends; a closure that captures it  *)
(* gets a cell that points at the slot while it is open and holds the      *)
(* value once it is closed.  GET_UPVALUE resolves the slot of an open cell *)
(* in the stack that is live at that moment, and each coroutine has a      *)
(* stack of its own.                                                       *)
(*                                                                         *)
(* The modelled function has two local variables: one that `for` loops     *)
(* bind afresh in every iteration, and a plain one.  The variables         *)
(* binding, content and strayed are history variables: the first two say   *)
(* which variable a slot holds and what that variable's value is by the    *)
(* rules of the language, the third which variables the code has lost      *)
(* track of, and no step of the program depends on them.                   *)
(***************************************************************************)
EXTENDS Naturals, Sequences, FiniteSets

CONSTANTS
  Vals, Nil,     \* values; Nil is what a local starts with
  Cells, Vars,   \* identities of cells and, for the history, of variables
  Coros, Main,   \* the execution contexts: coroutines, the main program
  LoopSlot,      \* the slot of the loop variable among a frame's locals,
  PlainSlot,     \* and that of the other one: the compiler numbers them in
                 \* the order in which the function first mentions them
  MaxFrames,     \* MAX_FRAMES; a call that would exceed it fails
  MaxCaptures,   \* bounds of the model: variables a closure captures,
  MaxClosures,   \* closures that are made,
  MaxLive,       \* frames of all contexts together,
  MaxStrayed,    \* and variables that stray
  OutsideLoop    \* does the program capture the loop variable outside loops?

ASSUME SlotAssumption    == {LoopSlot, PlainSlot} = {0, 1}
ASSUME NilAssumption     == Nil \in Vals
ASSUME ContextAssumption == Main \notin Coros
ASSUME FramesAssumption  == MaxFrames \in Nat \ {0}
ASSUME OutsideAssumption == OutsideLoop \in BOOLEAN

VARIABLES
  stack,      \* stack[c]: the value stack of context c
  frames,     \* frames[c]: its frames, [fn: captures, loop: inside a for?]
  open,       \* open[c]: the cells on its openUpvalues list
  slot,       \* UpvalueCell.stackSlot
  closed,     \* UpvalueCell.closed
  value,      \* UpvalueCell.value
  used,       \* the cells that have been created
  closures,   \* the closures that have been created: sets of captures
  status,     \* CoroObject.status
  active,     \* the running context
  resumer,    \* resumer[c]: the context that resumed the running c
  binding,    \* history: the captured variable a slot holds, {} if none
  content,    \* history: the value of a captured variable
  strayed     \* history: the captured variables that lost their cell or slot

cellVars == <<slot, closed, value, used>>
coroVars == <<status, active, resumer>>
histVars == <<binding, content, strayed>>
vars == <<stack, frames, open, cellVars, closures, coroVars, histVars>>

Contexts == Coros \cup {Main}
Slots    == 0 .. (2 * MaxFrames - 1)
Captures == [cell : Cells, var : Vars]

(* Slot s of frame number k; frame->base + 1 + s in the code.              *)
At(k, s) == 2 * (k - 1) + s

Depth   == Len(frames[active])
Top     == frames[active][Depth]
Here(s) == At(Depth, s)

(* The captures of all closures that were made.                            *)
Captured == UNION closures

(* GET_UPVALUE.  It finds the value of a cell that is closed, or open on   *)
(* the stack that is live; for any other it looks in a slot of that stack. *)
Fetch(x) == IF closed[x] THEN value[x] ELSE stack[active][slot[x]]
AtHand(x) == closed[x] \/ x \in open[active]

(* A value is written to slot n of the running context: by the language's  *)
(* rules, the variable in it changes.                                      *)
Write(n, v) ==
  /\ stack' = [stack EXCEPT ![active][n] = v]
  /\ content' = [b \in Vars |-> IF b \in binding[active][n] THEN v ELSE content[b]]

ClosingAbove(n) == {x \in open[active] : slot[x] > n}   \* mutant: off by one

(* closeUpvalues: every open cell at or above slot n takes its value along *)
(* and leaves the list.                                                    *)
Closing(n) == {x \in open[active] : slot[x] >= n}

CloseUpvalues(n) ==
  /\ value' = [x \in Cells |-> IF x \in Closing(n) THEN stack[active][slot[x]] ELSE value[x]]
  /\ closed' = [x \in Cells |-> closed[x] \/ x \in Closing(n)]
  /\ open' = [open EXCEPT ![active] = @ \ Closing(n)]
  /\ UNCHANGED <<slot, used>>

(* History: variables stray when the code lets go of their slot without    *)
(* closing their cell, or of their cell while they stay in their slot.     *)
Stray(B) ==
  /\ Cardinality(strayed \cup B) <= MaxStrayed
  /\ strayed' = strayed \cup B

BoundAbove(n) == UNION {binding[active][m] : m \in (n + 1) .. (2 * MaxFrames - 1)}

-----------------------------------------------------------------------------
(* SET_LOCAL.                                                              *)
SetLocal(s, v) ==
  /\ Write(Here(s), v)
  /\ UNCHANGED <<frames, open, cellVars, closures, coroVars, binding, strayed>>

(* History: the variables whose place a write to cell x changes.  Those    *)
(* that a write through cap does not mean stray, and so does the one it    *)
(* means if the write goes elsewhere.                                      *)
Reached(x) == IF closed[x] THEN {cap.var : cap \in {d \in Captured : d.cell = x}}
                           ELSE binding[active][slot[x]]

Assign(cap, v) ==
  /\ content' = [content EXCEPT ![cap.var] = v]
  /\ Stray((Reached(cap.cell) \ {cap.var}) \cup (IF AtHand(cap.cell) THEN {} ELSE {cap.var}))
  /\ UNCHANGED binding

SetUpvalueInCell(cap, v) ==             \* mutant: an open cell taken for closed
  /\ value' = [value EXCEPT ![cap.cell] = v]
  /\ Assign(cap, v)
  /\ UNCHANGED <<stack, frames, open, slot, closed, used, closures, coroVars>>

(* SET_UPVALUE by the running closure.                                     *)
SetUpvalue(cap, v) ==
  /\ IF closed[cap.cell]
       THEN value' = [value EXCEPT ![cap.cell] = v] /\ UNCHANGED stack
       ELSE stack' = [stack EXCEPT ![active][slot[cap.cell]] = v] /\ UNCHANGED value
  /\ Assign(cap, v)
  /\ UNCHANGED <<frames, open, slot, closed, used, closures, coroVars>>

CaptureUpvalueAnew(n, x) ==             \* mutant: the open cells are not searched
  /\ x \notin used
  /\ used' = used \cup {x}
  /\ slot' = [slot EXCEPT ![x] = n]
  /\ open' = [open EXCEPT ![active] = @ \cup {x}]
  /\ UNCHANGED <<closed, value>>

(* captureUpvalue(n) returns x: the cell open on the slot, or a new one.   *)
CaptureUpvalue(n, x) ==
  \/ /\ x \in open[active]
     /\ slot[x] = n
     /\ UNCHANGED <<open, cellVars>>
  \/ /\ \A y \in open[active] : slot[y] # n
     /\ x \notin used
     /\ used' = used \cup {x}
     /\ slot' = [slot EXCEPT ![x] = n]
     /\ open' = [open EXCEPT ![active] = @ \cup {x}]
     /\ UNCHANGED <<closed, value>>

(* History: b is the variable in slot n, named at its first capture.       *)
CapturedVar(n, b) ==
  \/ /\ b \in binding[active][n]
     /\ UNCHANGED <<binding, content>>
  \/ /\ binding[active][n] = {}
     /\ \A cl \in closures : \A cap \in cl : cap.var # b
     /\ binding' = [binding EXCEPT ![active][n] = {b}]
     /\ content' = [content EXCEPT ![b] = stack[active][n]]

(* CLOSURE: over local s of the running frame and over some of the         *)
(* captures of the running closure.  The code lets every program capture   *)
(* the loop variable before and after its loops; OutsideLoop says if the   *)
(* modelled one does.                                                      *)
MakeClosure(s, x, b, Inherited) ==
  /\ s = LoopSlot => Top.loop \/ OutsideLoop
  /\ Cardinality(Inherited) < MaxCaptures /\ Cardinality(closures) < MaxClosures
  /\ CaptureUpvalue(Here(s), x)
  /\ CapturedVar(Here(s), b)
  /\ closures' = closures \cup {Inherited \cup {[cell |-> x, var |-> b]}}
  /\ UNCHANGED <<stack, frames, coroVars, strayed>>

-----------------------------------------------------------------------------
(* `for`: a fresh variable in every iteration, and after the loop; FOR_NEXT *)
(* writes the next element into the one slot they all use, whatever cell   *)
(* is open on it.                                                          *)
FreshLoopVar ==
  /\ binding' = [binding EXCEPT ![active][Here(LoopSlot)] = {}]
  /\ UNCHANGED <<closures, coroVars, content>>

ForNext(v) ==
  /\ stack' = [stack EXCEPT ![active][Here(LoopSlot)] = v]
  /\ FreshLoopVar

ForExit ==
  /\ frames' = [frames EXCEPT ![active][Depth].loop = FALSE]
  /\ UNCHANGED stack
  /\ FreshLoopVar

(* History: CLOSE_UPVALUE takes from the variables above the loop's their  *)
(* cells, in scope as they are; where it is left out, the loop's variable  *)
(* leaves its slot and its cell stays.                                     *)
LoopVarClosed ==
  /\ CloseUpvalues(Here(LoopSlot))
  /\ Stray(BoundAbove(Here(LoopSlot)))

LoopVarLeftOpen ==
  /\ Stray(binding[active][Here(LoopSlot)])
  /\ UNCHANGED <<open, cellVars>>

BeginFor(v) ==
  /\ ~Top.loop
  /\ frames' = [frames EXCEPT ![active][Depth].loop = TRUE]
  /\ ForNext(v)
  /\ LoopVarLeftOpen

(* The body ends: CLOSE_UPVALUE, then the next element ...                 *)
NextIteration(v) ==
  /\ Top.loop
  /\ LoopVarClosed
  /\ ForNext(v)
  /\ UNCHANGED frames

(* ... or none is left.                                                    *)
EndFor ==
  /\ Top.loop
  /\ LoopVarClosed
  /\ ForExit

(* `continue` jumps to FOR_NEXT, past the CLOSE_UPVALUE.                   *)
Continue(v) ==
  /\ Top.loop
  /\ ForNext(v)
  /\ LoopVarLeftOpen
  /\ UNCHANGED frames

(* `break`, and an error caught outside the loop, leave it the same way.   *)
Break ==
  /\ Top.loop
  /\ ForExit
  /\ LoopVarLeftOpen

-----------------------------------------------------------------------------
(* Calls.  A new frame on context c: its argument, and a null.             *)
Enter(c, cl, v, Frames) ==
  LET base == 2 * Len(Frames)
  IN /\ frames' = [frames EXCEPT ![c] = Append(Frames, [fn |-> cl, loop |-> FALSE])]
     /\ stack' = [stack EXCEPT ![c][base + PlainSlot] = v, ![c][base + LoopSlot] = Nil]

(* The frames above number k are popped, and their cells closed; what they *)
(* leave above the stack is not kept.  History: their variables end.       *)
VariablesEnd(k) ==
  binding' = [binding EXCEPT ![active] = [n \in Slots |-> IF n >= At(k + 1, 0) THEN {} ELSE @[n]]]

PopFrames(k) ==
  /\ CloseUpvalues(At(k + 1, 0))
  /\ frames' = [frames EXCEPT ![active] = SubSeq(@, 1, k)]
  /\ VariablesEnd(k)
  /\ stack' = [stack EXCEPT ![active] = [n \in Slots |-> IF n >= At(k + 1, 0) THEN Nil ELSE @[n]]]

LiveFrames == UNION {{c} \X DOMAIN frames[c] : c \in Contexts}

CallTooDeep(cl, v) ==                   \* mutant: off by one in the depth
  /\ Depth <= MaxFrames
  /\ Cardinality(LiveFrames) < MaxLive
  /\ Enter(active, cl, v, frames[active])
  /\ UNCHANGED <<open, cellVars, closures, coroVars, histVars>>

Call(cl, v) ==
  /\ Depth < MaxFrames
  /\ Cardinality(LiveFrames) < MaxLive
  /\ Enter(active, cl, v, frames[active])
  /\ UNCHANGED <<open, cellVars, closures, coroVars, histVars>>

Return ==
  /\ Depth > 1
  /\ PopFrames(Depth - 1)
  /\ UNCHANGED <<closures, coroVars, content, strayed>>

(* tryHandle: an error is caught by frame d; the frames above are popped,  *)
(* each closing its cells.                                                 *)
Catch(d) ==
  /\ d \in 1 .. (Depth - 1)
  /\ PopFrames(d)
  /\ UNCHANGED <<closures, coroVars, content, strayed>>

-----------------------------------------------------------------------------
(* Coroutines: resumeCoroutine swaps stack, frames and open cells.         *)
SwitchTo(c) ==
  /\ active' = c
  /\ resumer' = [resumer EXCEPT ![c] = active]
  /\ status' = [status EXCEPT ![c] = "RUNNING"]

Start(c, cl, v) ==
  /\ status[c] = "CREATED"
  /\ Cardinality(LiveFrames) < MaxLive
  /\ Enter(c, cl, v, << >>)
  /\ SwitchTo(c)
  /\ UNCHANGED <<open, cellVars, closures, histVars>>

Resume(c) ==
  /\ status[c] = "SUSPENDED"
  /\ SwitchTo(c)
  /\ UNCHANGED <<stack, frames, open, cellVars, closures, histVars>>

Leave(st) ==
  /\ active \in Coros
  /\ active' = resumer[active]
  /\ resumer' = [resumer EXCEPT ![active] = Main]
  /\ status' = [status EXCEPT ![active] = st]

Yield ==
  /\ Leave("SUSPENDED")
  /\ UNCHANGED <<stack, frames, open, cellVars, closures, histVars>>

(* The coroutine's context is replaced by its resumer's: its stack's       *)
(* memory is freed.                                                        *)
FreeStack == stack' = [stack EXCEPT ![active] = [n \in Slots |-> Nil]]

(* The coroutine's function returns.                                       *)
Finish ==
  /\ Depth = 1
  /\ Leave("DEAD")
  /\ PopFrames(0)
  /\ UNCHANGED <<closures, content, strayed>>

FailKeepsCells ==                       \* mutant: the list of open cells survives
  /\ Leave("DEAD")
  /\ frames' = [frames EXCEPT ![active] = << >>]
  /\ VariablesEnd(0)
  /\ Stray(UNION {binding[active][n] : n \in Slots})
  /\ FreeStack
  /\ UNCHANGED <<open, cellVars, closures, content>>

(* An error nobody catches ends it: run() drops its frames, and the list   *)
(* of open cells goes with the context, the cells still open.              *)
Fail ==
  /\ Leave("DEAD")
  /\ frames' = [frames EXCEPT ![active] = << >>]
  /\ open' = [open EXCEPT ![active] = {}]
  /\ VariablesEnd(0)
  /\ Stray(UNION {binding[active][n] : n \in Slots})
  /\ FreeStack
  /\ UNCHANGED <<cellVars, closures, content>>

-----------------------------------------------------------------------------
Init ==
  /\ stack = [c \in Contexts |-> [n \in Slots |-> Nil]]
  /\ frames = [c \in Contexts |->
                 IF c = Main THEN <<[fn |-> {}, loop |-> FALSE]>> ELSE << >>]
  /\ open = [c \in Contexts |-> {}]
  /\ slot = [x \in Cells |-> 0] /\ closed = [x \in Cells |-> FALSE]
  /\ value = [x \in Cells |-> Nil] /\ used = {}
  /\ closures = {}
  /\ status = [c \in Coros |-> "CREATED"]
  /\ active = Main
  /\ resumer = [c \in Coros |-> Main]
  /\ binding = [c \in Contexts |-> [n \in Slots |-> {}]]
  /\ content = [b \in Vars |-> Nil]
  /\ strayed = {}

Next ==
  \/ \E s \in {LoopSlot, PlainSlot}, v \in Vals : SetLocal(s, v)
  \/ \E cap \in Top.fn, v \in Vals : SetUpvalue(cap, v)
  \/ \E s \in {LoopSlot, PlainSlot}, x \in Cells, b \in Vars, Inherited \in SUBSET Top.fn :
        MakeClosure(s, x, b, Inherited)
  \/ \E v \in Vals : BeginFor(v)
  \/ \E v \in Vals : NextIteration(v)
  \/ EndFor
  \/ \E v \in Vals : Continue(v)
  \/ Break
  \/ \E cl \in closures, v \in Vals : Call(cl, v)
  \/ Return
  \/ \E d \in 1 .. MaxFrames : Catch(d)
  \/ \E c \in Coros, cl \in closures, v \in Vals : Start(c, cl, v)
  \/ \E c \in Coros : Resume(c)
  \/ Yield
  \/ Finish
  \/ Fail

Spec == Init /\ [][Next]_vars

-----------------------------------------------------------------------------
TypeOK ==
  /\ stack \in [Contexts -> [Slots -> Vals]]
  /\ frames \in [Contexts -> Seq([fn : SUBSET Captures, loop : BOOLEAN])]
  /\ \A c \in Contexts : Len(frames[c]) <= MaxFrames
  /\ open \in [Contexts -> SUBSET used]
  /\ slot \in [Cells -> Slots]
  /\ closed \in [Cells -> BOOLEAN]
  /\ value \in [Cells -> Vals]
  /\ used \subseteq Cells
  /\ closures \subseteq SUBSET Captures
  /\ status \in [Coros -> {"CREATED", "SUSPENDED", "RUNNING", "DEAD"}]
  /\ active \in Contexts
  /\ resumer \in [Coros -> Contexts]
  /\ binding \in [Contexts -> [Slots -> SUBSET Vars]]
  /\ content \in [Vars -> Vals]
  /\ strayed \subseteq Vars

(* Lexical scoping: what the running closure reads through a cell is the   *)
(* value of the variable it captured.  The code does not keep to it.       *)
CellsReadTheirVariable ==
  \A cap \in Top.fn : Fetch(cap.cell) = content[cap.var]

(* What it does keep to: the running closure reads the variable it         *)
(* captured wherever its cell is at hand and the variable has not strayed, *)
(* whatever calls, loops, errors and coroutines did meanwhile; and a local *)
(* that closures share has the same value for the frame that owns it.      *)
CellsFollowTheirVariable ==
  \A cap \in Top.fn : cap.var \notin strayed /\ AtHand(cap.cell) =>
     Fetch(cap.cell) = content[cap.var]

LocalsAreShared ==
  \A n \in 0 .. (2 * Depth - 1) : \A b \in binding[active][n] \ strayed :
     stack[active][n] = content[b]

(* The openUpvalues list of a context: one cell per captured slot, every   *)
(* cell on it open, its slot in a frame that is still there, and on no     *)
(* other list.                                                             *)
OpenListsSound ==
  \A c \in Contexts : \A x \in open[c] :
    /\ ~closed[x]
    /\ slot[x] < 2 * Len(frames[c])
    /\ \A y \in open[c] : slot[y] = slot[x] => y = x
    /\ \A d \in Contexts \ {c} : x \notin open[d]

(* What the proofs need.  The contexts and their frames, for every         *)
(* program: a context that can run has a frame, the running coroutines are *)
(* a chain of resumers that ends at the active one, and a new cell is open.*)
Running == {c \in Coros : status[c] = "RUNNING"}

ContextInv ==
  /\ \A c \in Contexts : c = Main \/ status[c] \in {"RUNNING", "SUSPENDED"} => frames[c] # << >>
  /\ \A c \in Coros : status[c] = "CREATED" => frames[c] = << >>
  /\ active \in Running \cup {Main}
  /\ \A c \in Running : resumer[c] \in (Running \cup {Main}) \ {active}
  /\ \A c, d \in Running : resumer[c] = resumer[d] => c = d

FreshInv == \A x \in Cells : closed[x] => x \in used

ShapeInv == TypeOK /\ OpenListsSound /\ ContextInv /\ FreshInv

(* A slot holds at most one captured variable, a variable is in at most    *)
(* one slot, and a cell is open on it unless the variable has strayed.     *)
BindingInv ==
  /\ \A c \in Contexts : \A n \in Slots : \A b \in binding[c][n] :
       /\ \A a \in binding[c][n] : a = b
       /\ \E cap \in Captured : cap.var = b
       /\ b \notin strayed => \E x \in open[c] : slot[x] = n
  /\ \A c, d \in Contexts : \A n, m \in Slots :
       binding[c][n] \cap binding[d][m] # {} => c = d /\ n = m

(* Cells and captured variables that have not strayed correspond, and a    *)
(* cell is open on the slot its variable is in.                            *)
CaptureInv ==
  /\ \A cap \in Captured : cap.cell \in used
  /\ \A cap, dap \in Captured : cap.var \notin strayed /\ dap.var \notin strayed =>
       (cap.cell = dap.cell <=> cap.var = dap.var)
  /\ \A cap \in Captured : cap.var \notin strayed =>
       \A c \in Contexts : \A n \in Slots :
         cap.var \in binding[c][n] <=> cap.cell \in open[c] /\ slot[cap.cell] = n

(* The value of a variable is in its slot, or in its closed cell.          *)
ValueInv ==
  /\ \A c \in Contexts : \A n \in Slots : \A b \in binding[c][n] \ strayed :
       stack[c][n] = content[b]
  /\ \A cap \in Captured : cap.var \notin strayed /\ closed[cap.cell] =>
       value[cap.cell] = content[cap.var]

(* A running closure was made, with all its captures.                      *)
ReachInv ==
  \A c \in Contexts : \A k \in DOMAIN frames[c] : frames[c][k].fn \subseteq Captured

IInv == ShapeInv /\ BindingInv /\ CaptureInv /\ ValueInv /\ ReachInv
=============================================================================
