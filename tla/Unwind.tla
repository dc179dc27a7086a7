------------------------------- MODULE Unwind -------------------------------
(***************************************************************************)
(* Control in the VM (src/src/vm/vm.hpp): call frames, the value stack,    *)
(* try handlers, native functions that call back into the program, and     *)
(* coroutines.                                                             *)
(*                                                                         *)
(* The VM's own stacks are frames, sp and handlers, one of each for every  *)
(* context.  The C++ stack is calls: a run() that executes bytecode until  *)
(* the frame count is back at its exit, a native function called by the    *)
(* run below it, a resumeCoroutine, and at the bottom the host.  Of a      *)
(* value only its place on the stack matters.                              *)
(***************************************************************************)
EXTENDS Integers, Sequences, FiniteSets

CONSTANTS
  Coros, Main,   \* the execution contexts: coroutines, the main program
  MaxFrames,     \* MAX_FRAMES
  StackLimit,    \* STACK_LIMIT
  Headroom,      \* the slots callValue wants free above a new frame (16)
  MaxOperands,   \* the operands of the program's deepest frame
  MaxCalls,      \* bound of the model: nesting of the C++ stack
  MaxTries,      \* bound of the model: active handlers in a context
  Uses           \* what the program does beyond the core: a subset of
                 \* {"guarded", "inside"}

ASSUME ContextAssumption == Main \notin Coros
ASSUME LimitAssumption   == {MaxFrames, StackLimit, Headroom, MaxOperands} \subseteq Nat \ {0}
ASSUME RoomAssumption    == Headroom < StackLimit

VARIABLES
  frames,    \* frames[c]: the base of each frame, the script's first
  sp,        \* sp[c]: values on the stack
  handlers,  \* handlers[c]: [depth: frameDepth, top: stackTop] of each try
  calls,     \* the C++ stack, bottom first
  outcome,   \* what a call that just ended gave its C++ caller
  yielded,   \* VM.yielded_
  status,    \* CoroObject.status
  active     \* the running context

vmVars   == <<frames, sp, handlers>>
coroVars == <<yielded, status, active>>
vars == <<vmVars, calls, outcome, coroVars>>

Contexts == Coros \cup {Main}

(* An activation on the C++ stack.  exit is a run's exitFrameDepth, co and *)
(* prev are resumeCoroutine's locals; ctx, depth and size record what the  *)
(* activation found in the VM, for the properties (ctx is also the caller  *)
(* context that resumeCoroutine saves).                                    *)
Activation(kind, exit, co) ==
  [kind |-> kind, exit |-> exit, co |-> co, prev |-> yielded,
   ctx |-> active, depth |-> Len(frames[active]), size |-> sp[active]]

RunKinds == {"interpret", "callback", "resumed"}
TopCall  == calls[Len(calls)]
Below    == SubSeq(calls, 1, Len(calls) - 1)
Depth    == Len(frames[active])
Base     == frames[active][Depth]
Tries    == handlers[active]
TopTry   == Tries[Len(Tries)]
Keep(s, n) == SubSeq(s, 1, IF n < Len(s) THEN n ELSE Len(s))

Executing == TopCall.kind \in RunKinds /\ outcome = "none"
Raising   == TopCall.kind \in RunKinds /\ outcome = "error"
InScript  == active = Main /\ Depth = 1 /\ calls[2].kind = "interpret"

SetSp(n)       == sp' = [sp EXCEPT ![active] = n]
SetFrames(f)   == frames' = [frames EXCEPT ![active] = f]
SetHandlers(h) == handlers' = [handlers EXCEPT ![active] = h]

-----------------------------------------------------------------------------
(* Bytecode within a frame.                                                *)

(* What a frame may pop: its callee slot stays, and so does what was on    *)
(* the stack when it entered the try it is in (try is a statement).        *)
InTry == Tries # << >> /\ TopTry.depth = Depth
Floor == IF InTry THEN TopTry.top ELSE Base + 1

(* No operation checks that its operand fits on the stack.  The code of a  *)
(* program fixes how deep its operands get; nothing relates that depth to  *)
(* Headroom or to StackLimit.                                              *)
MayPush == sp[active] - Base <= MaxOperands

Push ==
  /\ Executing
  /\ MayPush
  /\ SetSp(sp[active] + 1)
  /\ UNCHANGED <<frames, handlers, calls, outcome, coroVars>>

Pop ==
  /\ Executing
  /\ sp[active] > Floor
  /\ SetSp(sp[active] - 1)
  /\ UNCHANGED <<frames, handlers, calls, outcome, coroVars>>

TryPush ==
  /\ Executing
  /\ MayPush
  /\ Len(Tries) < MaxTries
  /\ SetHandlers(Append(Tries, [depth |-> Depth, top |-> sp[active]]))
  /\ UNCHANGED <<frames, sp, calls, outcome, coroVars>>

(* The end of a try block: back at the stack it began with.                *)
TryPop ==
  /\ Executing
  /\ InTry
  /\ sp[active] = TopTry.top
  /\ SetHandlers(Keep(Tries, Len(Tries) - 1))
  /\ UNCHANGED <<frames, sp, calls, outcome, coroVars>>

-----------------------------------------------------------------------------
(* Calls, returns and errors in the program.                               *)

RoomTooDeep == Depth <= MaxFrames /\ sp[active] + 1 + Headroom <= StackLimit \* mutant
RoomNoHeadroom == Depth < MaxFrames /\ sp[active] < StackLimit               \* mutant

(* The closure is pushed, and callValue adds a frame or fails, the closure *)
(* still on the stack.                                                     *)
RoomForFrame == Depth < MaxFrames /\ sp[active] + 1 + Headroom <= StackLimit

EnterFrame ==
  /\ SetSp(sp[active] + 1)
  /\ IF RoomForFrame
       THEN SetFrames(Append(frames[active], sp[active])) /\ outcome' = "none"
       ELSE outcome' = "error" /\ UNCHANGED frames

CallFunction ==
  /\ Executing
  /\ MayPush
  /\ EnterFrame
  /\ UNCHANGED <<handlers, calls, coroVars>>

EndRunUnpopped(n) ==                    \* mutant: the result left on the stack
  /\ calls' = Below
  /\ outcome' = "value"
  /\ SetSp(n)

EndRunPopsTwice(n) ==                   \* mutant: the callee popped as well
  /\ calls' = Below
  /\ outcome' = "value"
  /\ SetSp(IF TopCall.kind = "callback" THEN n - 2 ELSE n)

(* A run that is back at its exit hands a value to its caller; of a        *)
(* callback's, callFromNative pops the value at size n.                    *)
EndRun(n) ==
  /\ calls' = Below
  /\ outcome' = "value"
  /\ SetSp(IF TopCall.kind = "callback" THEN n - 1 ELSE n)

LastTryOfAll(n) == Len(Tries)           \* mutant: RETURN keeps the handlers

(* RETURN: the result replaces the callee; the handlers of the returning   *)
(* frame go with it.                                                       *)
LastTry(n) == CHOOSE i \in 0 .. Len(Tries) :
                /\ i > 0 => Tries[i].depth <= n
                /\ \A j \in (i + 1) .. Len(Tries) : Tries[j].depth > n

Return ==
  /\ Executing
  /\ ~InScript
  /\ SetFrames(Keep(frames[active], Depth - 1))
  /\ SetHandlers(Keep(Tries, LastTry(Depth - 1)))
  /\ IF Depth - 1 = TopCall.exit
       THEN EndRun(Base + 1)
       ELSE SetSp(Base + 1) /\ UNCHANGED <<calls, outcome>>
  /\ UNCHANGED coroVars

(* HALT: the script ends, whatever run executes it; every try of its own   *)
(* text has ended before.                                                  *)
Halt ==
  /\ Executing
  /\ InScript
  /\ ~InTry
  /\ SetFrames(Keep(frames[active], Depth - 1))
  /\ EndRun(0)
  /\ UNCHANGED <<handlers, coroVars>>

(* THROW_ and every operation that fails.                                  *)
Throw ==
  /\ Executing
  /\ outcome' = "error"
  /\ UNCHANGED <<vmVars, calls, coroVars>>

InAnyWindow == Tries # << >>            \* mutant: a handler of another run

(* VM_THROW: tryHandle takes the innermost handler unless it lies below    *)
(* the frames of this run, ...                                             *)
InWindow == Tries # << >> /\ ~(TopTry.depth < TopCall.exit)

Catch ==
  /\ Raising
  /\ InWindow
  /\ SetHandlers(Keep(Tries, Len(Tries) - 1))
  /\ SetFrames(Keep(frames[active], TopTry.depth))
  /\ SetSp(TopTry.top + 1)
  /\ outcome' = "none"
  /\ UNCHANGED <<calls, coroVars>>

(* ... and otherwise the run drops its frames and returns the error.       *)
RunFails ==
  /\ Raising
  /\ ~InWindow
  /\ SetFrames(Keep(frames[active], TopCall.exit))
  /\ calls' = Below
  /\ UNCHANGED <<sp, handlers, outcome, coroVars>>

-----------------------------------------------------------------------------
(* Native functions.                                                       *)

InNative == TopCall.kind \in {"native", "host"}

(* callValue on a builtin.                                                 *)
CallNative ==
  /\ Executing
  /\ Len(calls) < MaxCalls
  /\ MayPush
  /\ SetSp(sp[active] + 1)
  /\ calls' = Append(calls, [Activation("native", 0, active) EXCEPT !.size = @ + 1])
  /\ UNCHANGED <<frames, handlers, outcome, coroVars>>

(* callFromNative: the native (or the host) calls a closure.               *)
CallBack ==
  /\ InNative
  /\ outcome # "error"
  /\ Len(calls) < MaxCalls
  /\ InTry => "guarded" \in Uses
  /\ EnterFrame
  /\ calls' = IF RoomForFrame
                THEN Append(calls, Activation("callback", Depth, active))
                ELSE calls
  /\ UNCHANGED <<handlers, coroVars>>

(* Its result takes the callee's place.                                    *)
NativeReturn ==
  /\ TopCall.kind = "native"
  /\ outcome # "error"
  /\ calls' = Below
  /\ outcome' = "none"
  /\ UNCHANGED <<vmVars, coroVars>>

(* It fails, or passes on the error of its callback.                       *)
NativeFail ==
  /\ TopCall.kind = "native"
  /\ calls' = Below
  /\ outcome' = "error"
  /\ UNCHANGED <<vmVars, coroVars>>

(* assert_error, and a host that goes on after a failed call.              *)
Swallow ==
  /\ InNative
  /\ outcome = "error"
  /\ outcome' = "none"
  /\ UNCHANGED <<vmVars, calls, coroVars>>

-----------------------------------------------------------------------------
(* The host: interpret() on a script, and the REPL's resetReplState.       *)

InHost == TopCall.kind = "host"

Interpret ==
  /\ InHost
  /\ outcome # "error"
  /\ SetSp(sp[active] + 1)
  /\ SetFrames(Append(frames[active], 0))
  /\ calls' = Append(calls, Activation("interpret", 0, active))
  /\ outcome' = "none"
  /\ UNCHANGED <<handlers, coroVars>>

Reset ==
  /\ InHost
  /\ SetSp(0) /\ SetFrames(<< >>) /\ SetHandlers(<< >>)
  /\ outcome' = "none"
  /\ UNCHANGED <<calls, coroVars>>

-----------------------------------------------------------------------------
(* Coroutines: resumeCoroutine, called as the native `resume`.             *)

Resume(c) ==
  /\ Executing
  /\ Len(calls) + 1 < MaxCalls
  /\ MayPush
  /\ \/ /\ status[c] = "CREATED"
        /\ frames' = [frames EXCEPT ![c] = <<0>>]
        /\ sp' = [sp EXCEPT ![active] = @ + 1, ![c] = 1]
        /\ handlers' = [handlers EXCEPT ![c] = << >>]
     \/ /\ status[c] = "SUSPENDED"
        /\ sp' = [sp EXCEPT ![active] = @ + 1, ![c] = @ + 1]
        /\ UNCHANGED <<frames, handlers>>
  /\ calls' = calls \o
       <<Activation("resume", 0, c),
         [Activation("resumed", 0, c) EXCEPT !.ctx = c]>>
  /\ status' = [status EXCEPT ![c] = "RUNNING"]
  /\ active' = c
  /\ yielded' = FALSE
  /\ UNCHANGED outcome

(* YIELD_: the value is popped and run() returns; the frames stay.         *)
Yield ==
  /\ Executing
  /\ active \in Coros
  /\ TopCall.kind # "resumed" => "inside" \in Uses
  /\ sp[active] > Floor
  /\ EndRun(sp[active] - 1)
  /\ yielded' = TRUE
  /\ UNCHANGED <<frames, handlers, status, active>>

RestoreToMain(st) ==                    \* mutant: always back to the main program
  /\ status' = [status EXCEPT ![TopCall.co] = st]
  /\ active' = Main
  /\ yielded' = TopCall.prev
  /\ calls' = Below

RestoreKeepsFlag(st) ==                 \* mutant: yielded_ not restored
  /\ status' = [status EXCEPT ![TopCall.co] = st]
  /\ active' = TopCall.ctx
  /\ calls' = Below
  /\ UNCHANGED yielded

RestoreKeepsStatus(st) ==               \* mutant: the coroutine stays RUNNING
  /\ active' = TopCall.ctx
  /\ yielded' = TopCall.prev
  /\ calls' = Below
  /\ UNCHANGED status

(* What resumeCoroutine does with the outcome of run().                    *)
Restore(st) ==
  /\ status' = [status EXCEPT ![TopCall.co] = st]
  /\ active' = TopCall.ctx
  /\ yielded' = TopCall.prev
  /\ calls' = Below

Discard(c) ==
  /\ frames' = [frames EXCEPT ![c] = << >>]
  /\ sp' = [sp EXCEPT ![c] = 0]
  /\ handlers' = [handlers EXCEPT ![c] = << >>]

Suspend ==
  /\ TopCall.kind = "resume"
  /\ outcome = "value" /\ yielded
  /\ Restore("SUSPENDED")
  /\ outcome' = "none"
  /\ UNCHANGED vmVars

Finish ==
  /\ TopCall.kind = "resume"
  /\ outcome = "value" /\ ~yielded
  /\ Restore("DEAD")
  /\ Discard(TopCall.co)
  /\ outcome' = "none"

ResumeFails ==
  /\ TopCall.kind = "resume"
  /\ outcome = "error"
  /\ Restore("DEAD")
  /\ Discard(TopCall.co)
  /\ UNCHANGED outcome

-----------------------------------------------------------------------------
Init ==
  /\ frames = [c \in Contexts |-> << >>]
  /\ sp = [c \in Contexts |-> 0]
  /\ handlers = [c \in Contexts |-> << >>]
  /\ outcome = "none"
  /\ yielded = FALSE
  /\ status = [c \in Coros |-> "CREATED"]
  /\ active = Main
  /\ calls = <<[kind |-> "host", exit |-> 0, co |-> Main, prev |-> FALSE,
                ctx |-> Main, depth |-> 0, size |-> 0]>>

Next ==
  \/ Push \/ Pop \/ TryPush \/ TryPop
  \/ CallFunction \/ Return \/ Halt \/ Throw \/ Catch \/ RunFails
  \/ CallNative \/ CallBack \/ NativeReturn \/ NativeFail
  \/ Interpret \/ Reset
  \/ \E c \in Coros : Resume(c)
  \/ Yield \/ Suspend \/ Finish \/ ResumeFails

Spec == Init /\ [][Next]_vars

(* The same with natives and hosts that go on after a failed call.         *)
SwallowNext == Next \/ Swallow

SwallowSpec == Init /\ [][SwallowNext]_vars

-----------------------------------------------------------------------------
Handler == [depth : Nat, top : Nat]

CallRecord ==
  [kind : RunKinds \cup {"native", "resume", "host"}, exit : Nat,
   co : Contexts, prev : BOOLEAN, ctx : Contexts, depth : Nat, size : Nat]

TypeOK ==
  /\ frames \in [Contexts -> Seq(Nat)]
  /\ \A c \in Contexts : Len(frames[c]) <= MaxFrames
  /\ sp \in [Contexts -> Nat]
  /\ handlers \in [Contexts -> Seq(Handler)]
  /\ calls \in Seq(CallRecord)
  /\ outcome \in {"none", "value", "error"}
  /\ yielded \in BOOLEAN
  /\ status \in [Coros -> {"CREATED", "SUSPENDED", "RUNNING", "DEAD"}]
  /\ active \in Contexts

(* A run executes only frames of its own: those above the ones that were   *)
(* there when its native caller started it.                                *)
RunOwnsItsFrames ==
  Executing => active = TopCall.ctx /\ Depth > TopCall.exit

(* A native function that goes on after a callback finds the frames and    *)
(* the value stack as it left them: its arguments are where it looks.      *)
NativeFindsItsStack ==
  InNative /\ outcome # "error" =>
    active = TopCall.ctx /\ Depth = TopCall.depth /\ sp[active] = TopCall.size

(* Only callValue looks at the stack's limit.  What the frames in between  *)
(* push beyond their headroom does not add up: whatever calls, callbacks,  *)
(* errors and resumes did, the values pass the limit by no more than what  *)
(* one frame's operands, and a call that fails, exceed the headroom by.    *)
Highest == StackLimit + MaxOperands + 1 - Headroom

OverrunWithinOneFrame == \A c \in Contexts : sp[c] <= Highest

(* The values stay within the memory of the stack.  The program must see   *)
(* to that: it follows where MaxOperands < Headroom, and fails elsewhere.  *)
StackInBounds == \A c \in Contexts : sp[c] <= StackLimit

(* The handlers of a context are those of its frames, inner ones last, and *)
(* each one's stack is still there to be cut back to.                      *)
HandlersNested ==
  \A c \in Contexts : \A i \in DOMAIN handlers[c] :
    LET h == handlers[c][i]
    IN /\ h.depth \in DOMAIN frames[c]
       /\ frames[c][h.depth] < h.top
       /\ h.top <= sp[c]
       /\ \A j \in 1 .. (i - 1) : handlers[c][j].depth <= h.depth

(* The operand regions of the frames do not overlap.                       *)
FramesNested ==
  \A c \in Contexts : \A i \in DOMAIN frames[c] :
    frames[c][i] < IF i = Len(frames[c]) THEN sp[c] ELSE frames[c][i + 1]

(* A yield is answered by the resume it belongs to, and a coroutine is     *)
(* RUNNING exactly while its resume is on the C++ stack.                   *)
YieldIsConsumed == yielded => TopCall.kind = "resume" /\ outcome = "value"

RunningIffResumed ==
  {c \in Coros : status[c] = "RUNNING"} =
    {calls[i].co : i \in {k \in DOMAIN calls : calls[k].kind = "resume"}}

(* What the proofs need of a program that uses nothing beyond the core.    *)

(* A context with bases F, s values and handlers H: the bases grow, by no  *)
(* more than the operands of a frame; a handler's stack lies within its    *)
(* frame's; and callValue left headroom above each base.                   *)
Stacked(F, s, H) ==
  /\ s <= Highest
  /\ \A i \in DOMAIN F : F[i] < s /\ F[i] + 1 + Headroom <= StackLimit
  /\ \A i, j \in DOMAIN F : i < j => F[i] < F[j]
  /\ \A i \in DOMAIN F : i > 1 => F[i] <= F[i - 1] + MaxOperands + 1
  /\ \A i \in DOMAIN H :
       /\ H[i].depth \in DOMAIN F
       /\ F[H[i].depth] < H[i].top
       /\ H[i].top <= F[H[i].depth] + MaxOperands
       /\ H[i].top <= IF H[i].depth = Len(F) THEN s ELSE F[H[i].depth + 1]
  /\ \A i, j \in DOMAIN H : i < j => H[i].depth <= H[j].depth /\ H[i].top <= H[j].top

(* No more than m values above the base of the last frame.                 *)
Slack(F, s, m) == F # << >> => s <= F[Len(F)] + m

StackInv ==
  /\ \A c \in Contexts : Stacked(frames[c], sp[c], handlers[c])
  /\ \A c \in Contexts : (c = active => outcome # "error") =>
       Slack(frames[c], sp[c], MaxOperands + 2)
  /\ \A c \in Coros : status[c] = "SUSPENDED" =>
       frames[c] # << >> /\ Slack(frames[c], sp[c], MaxOperands + 1)

(* The C++ stack: which activation may call which, and in which context.   *)
Host == [kind |-> "host", exit |-> 0, co |-> Main, prev |-> FALSE,
         ctx |-> Main, depth |-> 0, size |-> 0]

RunsIn(a) == IF a.kind = "resume" THEN a.co ELSE a.ctx

Fits(a, b) ==
  /\ b.ctx = RunsIn(a)
  /\ ~b.prev
  /\ \/ b.kind = "interpret" /\ a.kind = "host" /\ b.exit = 0
     \/ b.kind = "callback" /\ a.kind \in {"native", "host"} /\ b.exit = a.depth /\ b.size = a.size
     \/ b.kind = "native" /\ a.kind \in RunKinds
     \/ b.kind = "resume" /\ a.kind \in RunKinds /\ b.co \in Coros
     \/ b.kind = "resumed" /\ a.kind = "resume" /\ b.exit = 0

CallsInv ==
  /\ calls # << >> /\ calls[1] = Host
  /\ \A i \in DOMAIN calls : i > 1 => Fits(calls[i - 1], calls[i])
  /\ active = RunsIn(TopCall)

OutcomeInv ==
  /\ TopCall.kind \in RunKinds => outcome # "value"
  /\ TopCall.kind = "resume" => outcome # "none"
  /\ yielded => /\ TopCall.kind = "resume" /\ outcome = "value"
                /\ frames[active] # << >> /\ Slack(frames[active], sp[active], MaxOperands + 1)

(* A coroutine is resumed by one activation, below those that run in it.   *)
Resumes == {i \in DOMAIN calls : calls[i].kind = "resume"}

ResumeInv ==
  /\ RunningIffResumed
  /\ \A i, j \in Resumes : calls[i].co = calls[j].co => i = j
  /\ \A i \in DOMAIN calls : calls[i].ctx \in Coros =>
       \E j \in Resumes : j < i /\ calls[j].co = calls[i].ctx

(* The frames of a context are shared out among the runs in it, and what a *)
(* native that called back will find is what its callback will leave.      *)
Runs == {i \in DOMAIN calls : calls[i].kind \in RunKinds}

RunInv ==
  /\ \A i \in Runs : calls[i].exit < Len(frames[calls[i].ctx])
  /\ \A i, j \in Runs : i < j /\ calls[i].ctx = calls[j].ctx => calls[i].exit < calls[j].exit
  /\ \A i \in Runs : calls[i].kind = "callback" =>
       /\ frames[calls[i].ctx][calls[i].exit + 1] = calls[i].size
       /\ \A h \in DOMAIN handlers[calls[i].ctx] :
            handlers[calls[i].ctx][h].depth # calls[i].exit
  /\ InNative => Depth = TopCall.depth
  /\ InNative /\ outcome # "error" =>
       sp[active] = TopCall.size /\ Slack(frames[active], sp[active], MaxOperands + 1)

IInv == TypeOK /\ StackInv /\ CallsInv /\ OutcomeInv /\ ResumeInv /\ RunInv
=============================================================================
