# A verification project for Lovax

Lovax (`src/src/`) is a scripting language: lexer, parser, bytecode compiler, a
stack virtual machine with coroutines and an incremental garbage collector, a
just-in-time compiler, a standard library and a C embedding interface. The
modules here are of two kinds. `Heap`, `Upvalues`, `Unwind`, `IndexedMap` and
`Loader` take one mechanism each and leave what the program does to nondeterminism: every
interleaving on a small instance. `Lexer` to `Machine` are the language from the
text to the output, run on generated and written programs and compared with what
the programs mean. TLC checks small instances; TLAPS proves the safety of the five
mechanisms for every value of the constants (section 6).

    cd tla
    tlc -workers 2 -config MCHeap.cfg MCHeap.tla            # any run of PROJECT.json
    tlapm HeapProofs.tla; tlapm HeapRefinement.tla          # the proofs of section 6
    tlapm UpvaluesProofs.tla; tlapm UnwindProofs.tla; tlapm IndexedMapProofs.tla
    tlapm LoaderProofs.tla; tlapm WordsProofs.tla

`PROJECT.json` has the map from definitions to source lines, the runs, one mutant
per checked property, the hazards of the code and the theorems.

## 1. Inventory

The program is one thread. What makes it hard is *re-entry* and *interleaving by
slices*: a native function calls back into the interpreter, a coroutine swaps
the interpreter's whole context, and the collector does a bounded piece of work
at every safepoint.

| Component | State | Operations | Interacts by | What makes it correct |
|---|---|---|---|---|
| Garbage collector (`vm/gc.hpp`, `object/object.hpp` 82-233) | `Heap`: object list, sweep cursor, `newborn` list, worklist, phase, `tempRoots`, `permanentRoots`, `hostRoots` | `gcAlloc`, `gcShade`, `gcSafepoint`, `gcStep`, `gcCollect` | called from every allocation, store and loop/call; calls back `markRoots` of the VM | frees only what is unreachable; frees all of it in the end; a cycle leaves nothing behind for the next |
| Interpreter: calls, errors, natives (`vm/vm.hpp`) | value stack `sp_`, `frames_`, `handlers_`; nested C++ `run()`s | CALL, RETURN, THROW_, TRY_PUSH/POP, HALT, `callValue`, `callFromNative`, `interpret`, `resetReplState` | C++ recursion through natives | each run executes its own frames only; whoever goes on finds the stack as it left it; handlers belong to live frames |
| Closures (`vm/vm.hpp` 790-812, compiler loops) | `UpvalueCell`s, `openUpvalues_` | CLOSURE, GET/SET_UPVALUE, CLOSE_UPVALUE, `closeUpvalues` | slots of the live stack | every closure and the owning frame see one value per captured variable |
| Coroutines (`vm/vm.hpp` 79-116, 191-283, 2343) | `CoroObject.status/state`, `activeCoro_`, `yielded_`, `yieldValue_`, `savedStates` | create, `resumeCoroutine`, YIELD_, finish, fail | swaps the VM's stacks; a GC object | RUNNING exactly while its resume is on the C++ stack; a yield answers its own resume; contexts are roots or traversed |
| Data operations (`vm/runtime.hpp`, `vm/value.hpp`) | values | arithmetic, comparison, slices, iteration | — | two's-complement wrap, order laws, bounds |
| Containers (`object/object.hpp`) | `SmallVec`, `MapObject` entries + hash index, `DequeObject`, `StructShape` | get/set/erase/push/pop | write barrier in the chokepoints | index and entries agree; insertion order |
| Compiler (`vm/compiler.hpp`, `vm/chunk.hpp`) | function contexts, loops, try scopes, chunks | one method per node | emits bytecode | jumps land, stack depth balanced, `finally` on every path |
| Lexer, parser, AST | token stream, indentation stack | tokenise, parse | text in, tree out | indent/dedent balance, precedence |
| Module loader (`vm/vm.hpp` 407-540) | `moduleCache`, `loadingStack`, `baseDirs`, `moduleVMs`, all static; `moduleGlobals` of closures | `loadModule`, `loadFileModule`, `exportGlobals`, USE | runs a file on a VM of its own inside the one that said `use` | a file runs again only after it failed; one module for all importers; paths count from the file, functions read their module's globals |
| JIT (`jit/`) | per-loop and per-function counters, compiled code, side exits | record, compile, enter, exit | shares the VM's stack and frames | same result as the interpreter |
| Embedding (`embed/`) | `hostRoots`, persistent handles | load, call, get/set global, release | `interpret`, `callFromNative` | a handle keeps its object until its own release |
| Library (`modules/`) | signals, timers, scenes, random state, test counters, regex programs | natives | `CallFn`, `GcRoot` | results; objects held across callbacks stay alive |
| Package tool, REPL (`pkg.hpp`, `main.cpp`) | lock file; session globals | install, update; a line at a time | file system; `resetReplState` | — |

The hazards are listed at their lines in `PROJECT.json`; those no property covers
yet carry a note.

## 2. Plan

Done:

1. **Heap**: `Reachability`, `SafeHeap` (abstract), `Heap` (detailed), `HeapSites`
   (the sites outside the discipline), `HeapProofs`, `HeapRefinement`.
2. **Upvalues** and **Unwind**, with `UpvaluesProofs` and `UnwindProofs`.
3. **The language**: `Syntax`, `Lexer`, `Parser`, `Lowering`, `Words`, `Values`,
   `Base`, `NumFn`, `Machine` (detailed), `Notation` and `Meaning` (references), `Language`
   (the composition and its properties), with `WordsProofs`.
4. **IndexedMap** and the `Dictionary` it implements, with `IndexedMapProofs`.
5. **Loader** and the `ModuleRegistry` it implements, with `LoaderProofs`.

Left to model: `Embedding` (persistent handles over `Heap`'s globals), the tier
policy of the trace compiler, the regular expression matcher, calendar arithmetic,
bytes and deques, the imported library modules.

## 3. Modules and their correspondence to the code

### `Heap` — the collector and the program above it

*State.* The variables are the fields of the C++ `Heap` and of the VM that the
collector sees, named alike. `main`/`todo` are the object list up to and from the
sweep cursor, `newborn` the side list; `worklist` is the gray set (its order
changes nothing a property could see). `frame[c]` is all that an execution context
refers to (value stack, frames' closures, open upvalues); `refs[o]` the payload of
an object; a suspended coroutine's children include its own `frame`. `pc` says
whether the program runs or which loop of `gcStep` does.

*Steps.* The program allocates (`gcAlloc`: births go to `newborn` during the
sweep), loads, drops, stores (the child shaded first, as `gcShade` does), erases,
changes globals, enters and leaves natives with a `GcRoot`, resumes, yields (the
black coroutine re-grays itself) and finishes. `Safepoint` is `gcSafepoint`;
`MarkOne`, `FinishBegin`/`FinishOne` (the atomic finish), `SweepKeep`/`SweepFree`
and `FinishCycle` are the loop bodies of `markStep`, `gcStep`, `sweepStep` and
`finishCycle`. Since a slice only starts at a safepoint and the program is stopped
meanwhile, one object per step loses no behaviour.

*Left out.* Bytes: an idle collector may start whenever an allocation has passed the
threshold, so `gcPending` is free to rise. `gcCollect` runs in stress builds only.
The pool's free lists show only as reuse of identities.

### `SafeHeap`, `Reachability` — what a heap promises

`SafeHeap` knows objects, roots and edges. A step either lets the program rewire
what it can reach and take new objects, or frees one unreachable object.
`Reachability` defines "reachable" without recursion (the least closed set), so
that proofs can use it.

### `HeapSites` — where the code leaves the discipline

`Heap` assumes that every reference written into an existing object is shaded and
every object a native holds is a root. Three kinds of site do otherwise, and
`Sites` selects which of them the program uses: boxing an integer twice (`"box"`),
appending to a native's list without a barrier (`"accum"`), and iterating over an
unrooted copy (`"emit"`). The property `HeldObjectsExist` fails with each.

### `Upvalues` — closures and captured variables

`stack`, `frames`, `open`, and the three fields of `UpvalueCell` are the code's. A
frame has two locals, one that `for` binds and a plain one, numbered by the
constants `LoopSlot` and `PlainSlot` in either order, since the compiler numbers
locals by first mention. CLOSURE captures any of them at any time. The constant
`OutsideLoop` says whether the modelled program captures the loop variable before or
after its loops as well; the code lets it (`rfcs/011` has the variable outlive its loop).

`binding`, `content` and `strayed` are history variables, and no guard of an action of
the program reads them except to choose the name of a new variable. `binding` and
`content` follow RFC-011 and lexical scoping. `CellsReadTheirVariable` compares what
`GET_UPVALUE` yields with what the variable holds; the code does not keep to it
(sections 4 and 5). `strayed` names the variables of which the code loses track, by
one of four steps:

- FOR_NEXT writes into the loop's slot, or the loop is left, with the cell still open
  (`LoopVarLeftOpen`: the begin of a loop, `continue`, `break`);
- CLOSE_UPVALUE takes the cells of the locals above the loop's slot, which stay in
  scope (`LoopVarClosed`);
- SET_UPVALUE goes through a cell that is not at hand, so that another place is
  written (`Assign`);
- a coroutine fails, and its list of open cells goes with it (`Fail`).

`CellsFollowTheirVariable` and `LocalsAreShared` say that this is all: for every other
variable, closures and frames agree, whatever the strayed ones do. A read through a
cell that is not at hand strays nothing, it is only wrong, so the property is about
cells that are closed or open on the stack that runs.

Values above the frames (what a return leaves in `stackMem_`) are not kept: a cell read
in another stack above its frames finds a null here and anything in the code.

### `Unwind` — frames, the value stack, handlers, the C++ stack

`frames`, `sp`, `handlers` are the VM's, one of each per context; only places on the
stack matter, so the value stack is a height and a frame is its base. `push` checks
nothing: `MaxOperands` is the operand depth of the program's deepest frame, any
number (a list literal compiles all its elements before LIST, `compiler.hpp` 967-972),
and only a call keeps `Headroom` slots free. Beyond `stackMem_` the C++ is undefined;
the model goes on counting. `calls` is
the C++ stack: host, `run()`s, natives, `resumeCoroutine`s. An activation carries
the C++ locals (`exitFrameDepth`, the saved `yielded_`, the caller's context) and,
for the properties, the frame depth and stack height it found. `outcome` is what a
finished C++ call gives its caller. A callback that fails at `callValue`, an error
that leaves a run, a return out of a try and a failing coroutine are all there.

`Uses` admits a try around a native with a failing callback (`"guarded"`) and a
yield inside a callback (`"inside"`); `SwallowSpec` adds callers that go on after
an error (`assert_error`, an embedding host that does not reset).

### `Syntax`, `Lexer`, `Parser`, `Lowering` — from the text to the code

`Syntax` has one constructor per node class of `ast.hpp`. The lexer is a record of
the C++ members (`src`, `at`, `fresh` for `isAtLineStart`, `indents`, `queue`,
`depth` for `bracketDepth`) and `NextToken` its one operation. The parser is a record
of its token, error count and the two depth counters; each `parse…` method is an
operator of the same name that returns the parser after it, with the node. Recovery
(`Synchronize`) and the limits are there; the wording of messages is not. `Lowering`
is the compiler: a record `c` of function contexts (`FnCtx`: code, locals, upvalues,
loops, try scopes), the compiled functions, constants and global names; each
`compile…` method is an operator from `c` to `c`. An instruction is a tuple of its
name and operands, a jump's target the number of an instruction. The fused
instructions of the peephole (`LGET2`, `ADD_I`, `LT_I_JF`, …) are kept as such.

### `Words`, `Values`, `Base` — data

A value is a tuple of its type and its content; objects live in a heap, a sequence,
and a value names one by index. Integers have `Width` bits and wrap; `Words` has
their arithmetic, and the places and lengths computed with it. Floats are
fractions, infinities and NaN, so every result is exact and rounding is not
modelled (conversion of an integer to a double cuts to `Precision` bits). Each
operator follows the function of `runtime.hpp`, `object.hpp` or `vm.hpp` it is mapped
to, error paths included: an error is a value that `Machine` throws. `Base` has the
builtins of `base.hpp` that do not call back; an operator takes the heap and the
arguments and returns the heap and the result.

### `Machine`, `NumFn` — the program running

`machines` is one record per VM: the main one and one for each module that is being
or has been loaded; `active` is the C++ stack of the nested `interpret`s. A machine
goes through `stage`s: it reads tokens, parses and compiles one top-level statement
per step, then runs. There is an action per instruction, or per group of
instructions that share a handler. `natives` is the C++ stack of builtins that call
functions back: each callback is a step (`CallBack`), so that errors, nested
callbacks and captures meet between two of them. `cells`, `caches` and
`modules` are the captured variables, the inline caches and `moduleCache`. `block`
and `typed` are the REPL's lines.

`NumFn` is the compiler of integer functions, `jit/compile_fn.hpp`: which functions
it takes, where each instruction finds its operands, overflow, the depth limit, and
the bail-out. `NativeCall` runs the whole native function in one step, as the
interpreter sees it. What it reads from a register that was never written is any
value of `Junk`.

### `Meaning`, `Notation`, `Language` — what the program should do

`Meaning` evaluates the syntax tree: scopes and locations instead of slots and cells,
no instructions, stack, handlers, caches or machine code; a `finally` runs
whichever way its `try` is left, and a `for` binds new variables in each round.
It shares `Values` and `Base` with the machine, so `RunsAsItMeans` is about control
and variables; what the operations on data compute is checked where it
is delicate (`DivisionFloors`, `IndexedMap`). `Notation` writes a tree down, with
parentheses only where the documented precedences need them. `Language` adds
`read`, the trees that were compiled.

### `IndexedMap`, `Dictionary` — the map

`entries`, `index`, `indexUsed` and `boolIndex` are the members of `MapObject`, with
positions from 1 and 0 for `NPOS`. The hash is any function to the naturals. `Set`,
`SetBool`, `Get`, `RemoveKey` and `Clear` are the calls. `Dictionary` is the promise:
a sequence of keys and values. In `Values` a map is its entries only: that this is
enough is what `ImplementsDictionary` says.

### `Loader`, `ModuleRegistry` — modules in files

`Machine` loads modules in programs that run; `Loader` takes the loading alone, for any
tree of files. `moduleCache`, `loadingStack`, `baseDirs` and `moduleVMs` are the four
statics that all VMs share; a module is the number of the machine that made it,
machine 0 the program's. `runs` is the C++ stack: `interpret`s nested by USE, each with
the functions it is in, by the number of the machine whose file defines them. The
constants `Resolve` and `PackageFiles` stand for the file system: where a path leads
from a directory, and which files a package may have.

USE is two steps. `UseFile` and `UsePackage` find the file, then answer from the cache
(`Cached`), refuse (`Refused`: a file that is not there, cannot be read or parsed, or is
being loaded) or push the load and a new machine (`Begin`). The machine's own steps
follow; then `LoadEnds` pops, exports, rebinds the exported functions, fills the cache
and binds the module or names of it in the machine below, or `LoadFails` pops and keeps
only the machine. `Call` lets any function run on any machine, which is what makes
directories and globals hard. Only `whole` (the machines that came to the end of their
file) is not the code's.

`ModuleRegistry` is the promise: a file gets one object, from one load that completed,
and importers get that object and nothing else.

*Left out.* One function stands for all that a file defines, and `Define` and the names
of a `use` are the only ways into a global: a function that is handed over as a value
and assigned is not followed, nor the slot numbers of globals (`Machine` has those).
Coroutines do not occur.

## 4. Runs

| Run | Shows | Bounds |
|---|---|---|
| `heap` | no reachable object is freed; cycles are independent; `IInv` is an invariant | 2 plain objects and 1 coroutine, 1 reference each, 1 object per mark slice, one native |
| `heap_liveness` | unreachable objects are freed; every step implements `SafeHeap` | 1 plain object, 1 coroutine, 2 per slice, one global |
| `upvalues` | closures and frames agree on the captured variables that have not strayed, across coroutine switches too; the open lists are sound; `IInv` is an invariant | 2 frames per context, 3 in all, 2 cells, 2 variables of which 1 may stray, 2 closures, 1 coroutine; the loop's slot below the plain one |
| `unwind` | runs own their frames, natives find their stack, handlers and frames nest, yields and resumes match, overruns of the stack do not add up; `IInv` is an invariant | 3 frames, 2 handlers, 2 coroutines, C++ nesting of 8, stack of 5, operands as deep as the headroom |
| `language` | from text to output: layout, parsing, code, variables, errors, modules, sessions, compiled functions | 1567 programs; 16-bit integers, 5 frames, 12 levels of expressions, functions compiled at their second call |
| `maps` | the hash index and the entries agree; the map is an ordered dictionary; `IInv` is an invariant | 4 keys that collide in different ways, 1 boolean, 2 values, a first table of 2 slots that doubles twice |
| `loader` | a file runs again only after it failed; its uses count from its own directory; the loader implements the registry; `IInv` is an invariant | 2 files that use each other, a package, 3 machines, 2 frames each |
| `heap_accum` | finding: a result list misses the barrier | 3 objects |
| `upvalues_exits` | finding: `continue` and `break` skip CLOSE_UPVALUE | one context |
| `unwind_guarded` | finding: the handler window is off by one | one context |
| `unwind_swallow` | finding: an error leaves its operands on the stack | one context |
| `numfn_conditional` | finding: a compiled conditional expression | one program |

*Why the bounds are enough.* A miscollection needs a container already scanned, an
object that moves into it and a root that moves away: three objects, of which a
coroutine may be one, with a slice of one object so that the program gets between any
two scans. A coroutine's context is inside the object or in the VM. A wrong cell needs two
variables that could be confused, a loop slot reused and a call on top. An unwinding
error needs a frame below the native, the native's own and one above;
two coroutines are needed for a resume inside a resume.
The stack of 5 is the smallest at which the limit, the headroom (1) and a third
frame all come into play, and the overrun happens: it reaches 6. A cycle of uses that is not of a file by itself needs two files
and, with the refused one, three machines; three runs of files also let one fail and be
loaded again inside another. Each mutant in `PROJECT.json` is a slip in one definition, and
each is caught within these bounds.

The programs of `language` are not a sample of what people write. Those that are
generated are all of a kind: every pair of operators in both orders and every
operator beside every other form of expression (the parser's precedences), every
way to leave a try, a catch and a loop around them (the compiler's try scopes),
every nest of two blocks with statements behind each (the lexer's layout). The
written ones bring together what the hazards name: captures over three levels and
across errors, two shapes at one cached place, recursion to the depth limit, builtins
whose callbacks fail, integer functions that overflow in the compiled code,
modules that use each other or fail, sessions with errors. Each program is
deterministic, so the states are the steps of its run.

*Bounds of the models* (not of the code): `MaxRefs`, `MaxTemps`, `MaxGlobals`,
`MaxCaptures`, `MaxClosures`, `MaxLive`, `MaxStrayed`, `MaxCalls`, `MaxTries`, `MaxVMs`. `StepBudget`, `MaxFrames`, `StackLimit` and
`Headroom` are the code's `stepBudget`, `MAX_FRAMES`, `STACK_LIMIT` and 16, made
small; so are `MaxErrors`, `MaxExprDepth`, `MaxExprChain`, `MaxBlockDepth`, `RepeatMax`,
`RenderMax`, `NumFnThreshold` and `ImmMax` of the language. `MaxOperands` and `OutsideLoop`
are parameters of the program, not bounds.

*Fairness* (`heap_liveness`). A slice runs to its end (`WF(Collector)`); every call
and loop back-edge is a safepoint (`WF(Safepoint)`); the program goes on allocating
(`WF(AllocOther)`), because only `gcAlloc` asks for the next slice: a program that
stops allocating keeps its garbage, and so does one that yields a whole slice's worth
of coroutines between two safepoints.

*Fairness* (`language`). The thread that runs the program goes on: `WF` of a step of
it. A file ends, a loop of these programs is finite, so a run that does not end is
the compiler's or the machine's doing.

## 5. Findings

Five disagreements between code and documentation have a run (section 4). More come
out of the same modules by changing a constant or adding a program to `TestPrograms`;
they are among the hazards:

| What | To see it | Source |
|---|---|---|
| a wide integer stored by `push`, `insert` or into a struct is boxed twice, and the shaded box is not the stored one | `MCHeapAccum.cfg`, `Sites <- BoxSites` | `modules/base.hpp` 182, 786; `vm.hpp` 2421 |
| `emit` calls listeners from an unrooted copy | `Sites <- EmitSites` | `modules/game.hpp` 175 |
| a variable captured before or after a `for` over it is overwritten by FOR_NEXT under its open cell | `MCUpvaluesExits.cfg`, `OutsideLoop = TRUE` | `vm.hpp` 1983, 2043; `vm/compiler.hpp` 872 |
| CLOSE_UPVALUE closes variables of outer scopes with a higher slot | `MCUpvaluesExits.cfg`, `LoopSlot = 0`, `PlainSlot = 1`, and `LocalsAreShared` without its `\ strayed` | `vm.hpp` 2050 |
| a coroutine's function reads its creator's variables out of its own stack | `MCUpvaluesExits.cfg`, `Coros <- OneCoro` | `vm.hpp` 1119 |
| pushes pass the end of the value stack | `MCUnwind.cfg`, `INVARIANT StackInBounds` | `vm.hpp` 782, 851 |
| a yield in a callback ends the callback as if it had returned | `MCUnwind.cfg`, `Uses <- Inside`: `NativeFindsItsStack` fails first; `YieldIsConsumed` too when checked alone | `vm.hpp` 383 |
| an error in a catch passes the finally by | a try with `throw` in its catch and a finally (`Passed` in `MCLanguage`): `RunsAsItMeans` | `vm/compiler.hpp` 742 |
| `continue` in a `repeat` never ends | `repeat 2:` with `continue`: `Terminates` | `vm/compiler.hpp` 851 |
| after an entry of a session fails, closures it made read other slots | a session that keeps a closure and throws: `RunsAsItMeans` (the model answers "stale") | `vm/vm.hpp` 365 |
| a compiled function calls itself after its name was bound to another | define, call twice, keep it under another name, define again: `RunsAsItMeans` | `vm/vm.hpp` 1427 |

| a module that takes a function of another by name and is loaded makes it read its own globals, for everyone (`vm/chunk.hpp` 201 says they resolve against the module's) | `MCLoader.cfg`, `INVARIANT FunctionsReadTheirModule` | `vm/vm.hpp` 528 |
| a `use` inside a function counts from the directory of what is being loaded, not of the file it is written in, as `rfcs/006` has it | `MCLoader.cfg`, `PROPERTY PathsFromTheImporter` | `vm/vm.hpp` 439 |

The passing runs leave these programs out, or claim less of them, and say so by their constants; what they
show holds for the programs that remain.

## 6. Proofs

`HeapProofs` proves, from the assumptions on the constants alone (`Coros` is a
subset of `Obj`, `Main` is no object, the budget is positive):

- `TypeCorrect`: `Spec => []TypeOK`.
- `Invariant`: `Spec => []IInv`. `NoDangling` is not inductive: a state in the
  middle of a mark phase with a black object pointing to a white one satisfies it
  and loses an object later. `IInv` adds what the collector relies on. `Safe` is
  what this cycle will not free. Outside the sweep that is every object. `RootInv`
  and `ClosureInv` say that the roots are safe and nothing safe refers to anything
  unsafe, so the program only ever gets hold of safe objects. `MarkInv` is the
  tri-colour invariant: gray objects are on the worklist, black ones refer to no
  white one, and once the atomic finish has begun the roots are not white; when the
  list drains, everything that is not white is closed and contains the roots, which
  re-establishes `ClosureInv` for the sweep. `WhiteInv` and `PhaseInv` give the
  next cycle its clean start, and `ResumeInv` keeps a running coroutine in the
  context that resumed it, so it is never swept under its own `resumeCoroutine`.
- `HeapIsSafe` (`NoDangling`) and `CyclesAreIndependent` (`CleanBetweenCycles`)
  follow from `IInv`.

`HeapRefinement` proves `Refines`: `Spec => ImplementsSafeHeap`. A step of the
program is a `Mutate`: lemmas `Grows` and `Rewires` bound what becomes reachable; a
step of the collector is a stutter, except `SweepFree`, which by `IInv` frees an
unreachable object.

`UpvaluesProofs` proves, for any number of contexts, cells and frames:

- `ClosuresTypeCorrect` (`TypeOK`) and `OpenListsAreSound` (`OpenListsSound`). The
  invariant is `ShapeInv`: the open cells of a context are in its frames' slots, the
  contexts that run form a chain of resumers, a cell is closed only after it was used.
- `CellsFollowVariables` (`IInv`), and from it `ClosuresReadTheirVariable`
  (`CellsFollowTheirVariable`) and `CapturedLocalsAreShared` (`LocalsAreShared`).

  All of them are of `Spec`, without a hypothesis on the program: captures outside of
  loops, either order of the slots, `continue`, `break` and calls in other contexts
  are steps of it. What a hypothesis would exclude, the history `strayed` records, at
  the step where it happens and for the variables it happens to. That the strict
  `CellsReadTheirVariable` cannot be proved is the finding of `upvalues_exits` and of
  three rows of section 5.

  Neither property is inductive: a closure that is not running may be called next.
  `IInv` speaks of all closures that were made. `BindingInv`: a slot holds at most one
  captured variable, a variable is in at most one slot, and a cell is open on it
  unless the variable has strayed. `CaptureInv`: cells and captured variables that
  have not strayed correspond one to one, and a cell is open on the slot its variable
  is in. `ValueInv`: the variable's value is in that slot, or in its closed cell.
  `ReachInv`: a running closure was made, with all its captures. The hard steps are
  MakeClosure, where a cell or a variable that was left behind may be met again
  (lemmas `CapturedCell` and `CapturedVariable`), SET_UPVALUE, which must not reach a
  second variable unnoticed, and CLOSE_UPVALUE, which closes every slot from the
  loop's on (`ReadAfterClosing`).

`UnwindProofs` proves `ControlIsNested` (`Spec => []IInv`) for any number of
coroutines, any depth of C++ calls, any limits and any depth of operands, and
from it the eight properties of the run `unwind`: `ControlTypeCorrect`,
`RunsOwnTheirFrames`, `NativesFindTheirStack`, `OverrunsStayWithinOneFrame`,
`HandlersAreNested`, `FramesAreNested`, `YieldsAreConsumed`, `RunningMeansResumed`. The
hypothesis `Uses = {}` leaves out the two kinds of program for which the code fails:
`unwind_guarded` is one, and section 5 names the other.

That the value stack stays in its memory is *not* proved: `push` checks nothing, and
`StackInBounds` fails in the run. `OverrunsStayWithinOneFrame` says how far it can
go: although every frame on the stack pushes unchecked, the overruns do not add up,
because each call looks at the limit again; the values pass it by at most
`MaxOperands + 1 - Headroom`. The corollary `StacksInBounds` is the special case of a
program whose operands are below the headroom, which nothing in the code enforces.

None of the eight is inductive alone; `IInv` has these parts:

- `StackInv`. Frames and handlers interleave on the value stack (`Stacked`): a handler's
  mark lies between the base of its frame and that of the next. `Slack`
  bounds what is above the last base: an instruction checks the limit only when
  it pushes a frame, so an expression must fit in the headroom, plus one for
  the error of a catch and one for a resumed value; a suspended coroutine has
  kept one free for the value it will be given.
- `CallsInv`. `Fits` says which activation may call which, in which context, and
  that a callback's `exitFrameDepth` and stack height are those its native had.
- `RunInv`. In each context the exits of its runs increase up the C++ stack, so
  the frames are shared out among the runs; below the first frame of a callback
  the stack is what its native will find, and no handler of a native's own
  frame is there (which `Uses = {}` gives) for an error to be caught at.
- `OutcomeInv` and `ResumeInv`: a yield is pending only between `run` and the resume
  that asked for it; a coroutine has one resume on the C++ stack, below every
  activation that runs in it, so a switch of contexts cannot enter one twice.

`NaturalOrder` has what the prover's library states only with an operator as a
parameter: a nonempty set of naturals has a least member, and induction, both of
sets. The first is needed where an action takes the *last* handler of a set.

`IndexedMapProofs` proves, for any keys, any function from them to hashes and any first
capacity above 1 (the code's is 8), `MapIsConsistent` (`Spec => []IInv`), from it
`MapTypeCorrect` (`TypeOK`), `ProbesEnd` (`LoadIsKept`) and `KeysAreFound`
(`EveryKeyIsFound`), and `MapIsADictionary`: `Spec => ImplementsDictionary`.

- `Chained` is what a probe needs and no single call shows: between the slot of a
  key's hash and its own, every slot is filled. `PutKeeps` is the lemma that putting
  a slot where a probe ended keeps this of all others. `Indexes` says that
  filled slots and entries with hashed keys correspond one to one, `BoolsInv` the same
  of the boolean slots; with the load these make `ProbeForKey`: a probe ends at the
  key's slot, or at the free one where it will be put.
- A table that is filled slot by slot, in `indexGrow` and `rebuildIndex`, goes through
  as many tables as there are slots. `SeatedKeeps` follows them by induction over
  their number; that the recursive function of the model exists is itself proved
  (`RecursionExists`). A first capacity of 1 would break `LoadIsKept` at the first key.
- The refinement has a lemma per call (`SetIsPut`, `GetIsGet`, `RemoveIsRemove`, …).

`LoaderProofs` proves, for any files, directories, packages and paths, any number of
machines and frames and every order of uses, failures and calls, `LoaderInvariant`
(`Spec => []IInv`), from it `LoaderRunsFilesOnce` (`FilesRunOnce`), `LoaderOwnPaths`
(`OwnPaths`), `LoaderOwnGlobals` (`OwnGlobals`) and, when there are finitely many files,
`LoaderNestingBounded` (`NestingBounded`), and `LoaderImplementsRegistry`: `Spec =>
ImplementsModuleRegistry`.

- `FilesRunOnce` speaks of machines of the past, which nothing in the code remembers:
  that an earlier run of a file is neither going on nor in the cache. `LoadsNest` ties
  `loadingStack` and `baseDirs` to the C++ stack, entry by entry. `NoLoadTwice` says that
  a file on the stack is there once, not in the cache, and that no machine younger
  than its own was made for it; `CacheIsLast` says the same of the file's module. A use
  that finds neither may begin a new run, because no earlier one can come back.
- `ExportsReadAnExporter` is what remains true of exported functions when modules
  export each other's: they read the globals of a module in the cache that exports
  them. With no such exports it gives `OwnGlobals`. An export can only come from
  a module machine, never the program's; without that part the invariant is
  not inductive.
- In the refinement a use that hits the cache is `Import`, `LoadEnds` is `Complete` with
  the machine below as the importer, and its object is new because no file's module is a
  machine that still runs (`TopMachine`, `CacheIsLast`).

`WordsProofs` is about the arithmetic of the language at every width, 64 included,
where the run `language` has 16 bits: `Words` holds what needs no recursion. The
only assumption is that the width is positive; that a power of two is the double
of the one before, which the provers do not know, is proved by counting subsets
(`PowersDouble`).

- `WrapIsAWord`, `WrapIsUnique`, `WordsAreKept`, `WrappedTermsAgree`: wrapping gives the
  one word congruent to the exact result, and a chain of sums, differences and
  products may wrap at each step or once.
- `DivisionsFloor`: the law of `DivisionFloors` for all pairs of words. The guard
  for -1 in `FLOOR_DIV` and `MOD` is needed for one dividend only, and without it
  every other quotient is a word, also after the 1 is taken off to round down.
- `PlacesExist`: indices and slice bounds. `RangesCountTheirSteps`: the length of a range,
  whenever distance plus step fits a word; beyond that `length` overflows, which
  `RangeLength` follows by wrapping.

Model-checked only: liveness and fairness (out of the prover's reach). The other
modules from `Lexer` to `Language` follow recursive code over trees with recursive
operators, which the prover does not take: they are for TLC, and so is the action
property `DivisionFloors`, which says that the machine applies this arithmetic. The runs
that end in a violation have no theorem.

## 7. Not modelled

Listed with reasons under `components` in `PROJECT.json`. In short:

- the trace compiler (`jit/trace_record.hpp`, `compile.hpp`, `compile_ra.hpp`): it
  speculates on machine types, registers and encodings; a model would be its
  transliteration. Its entry counters and side exits are left to do.
- floating-point mathematics and rounding, bytes, deques, generators outside the
  mechanisms of section 3 (`Machine` makes no coroutine, so a `yield` is outside one and refused);
- the imported library modules, regular expressions, calendar, JSON, files,
  network, canvas, and the package tool;
- the embedding handles and marshalling;
- the native standard modules and the permission that `use net` asks for;
- a loop over a range that ends next to the greatest integer, whose index overflows
  on its way past the end: `NextItem` wraps it, and no program of the runs does it;
- the wording of messages: an error carries a word for its kind.
