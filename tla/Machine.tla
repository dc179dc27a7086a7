------------------------------- MODULE Machine -------------------------------
(***************************************************************************)
(* src/vm/vm.hpp and the part of src/main.cpp that drives it: a program is  *)
(* scanned, parsed, compiled and run, one instruction a step.  Each file    *)
(* module has a virtual machine of its own, with its own globals, stack and *)
(* frames; the one that loads it waits.  A builtin that calls a function    *)
(* back re-enters the machine.  In a session every entry is a program that  *)
(* finds the globals of those before it.                                   *)
(*                                                                         *)
(* A machine is a record; indices count from 1, the frame's base is the     *)
(* place of the called function and slot i is at base + i.  An upvalue cell *)
(* names a place on a stack while it is open.  Of the just-in-time         *)
(* compiler the functions of integers are there; the compiled loops and     *)
(* bodies, the collector and coroutines are left out.                       *)
(***************************************************************************)
EXTENDS Parser, Lowering, Base, NumFn
LOCAL INSTANCE Integers
LOCAL INSTANCE Sequences
LOCAL INSTANCE SequencesExt
LOCAL INSTANCE FiniteSets
LOCAL INSTANCE Functions

CONSTANTS
    StackLimit,     \* the operands a stack holds (STACK_LIMIT)
    NumFnThreshold, \* the calls before a function of integers is compiled
    Junk,           \* what the processor's registers may hold
    Programs        \* what may be run, records of files, main and session: the
                    \* texts of the files by path, the path of the program, and
                    \* the lines typed when it is a session, <<>> for a program

VARIABLES
    program,    \* the member of Programs
    machines,   \* the program's machine, then those of the modules
    active,     \* the machines that run, each loaded by the one before it
    typed,      \* the lines of the session still to come
    block,      \* those that wait for the end of their block
    modules,    \* the modules that are loaded, by path
    protos,     \* the compiled functions
    heap, cells,
    caches,     \* the entry a member access found last, by instruction
    numFns,     \* the calls of a function and its machine code, by function
    output,
    outcome     \* "running" until the program ends
vars == <<program, machines, active, typed, block, modules, protos, heap, cells, caches,
          numFns, output, outcome>>

Builtins == DOMAIN Arity \cup Callers
NoFrames == [stack |-> <<>>, frames |-> <<>>, handlers |-> <<>>, open |-> {}, natives |-> <<>>]
NewMachine(path, text) ==
    NoFrames @@ [path |-> path, stage |-> "text", work |-> NewLexer(text), parts |-> <<>>,
                 names |-> <<>>, pending |-> Nil,
                 globals |-> [name \in Builtins |-> <<"builtin", name>>]]

Files == program.files
MainPath == program.main
Session == program.session

Init ==
    /\ program \in Programs
    /\ machines = <<IF Session = <<>> THEN NewMachine(MainPath, Files[MainPath])
                    ELSE [NewMachine(MainPath, "") EXCEPT !.stage = "idle"]>>
    /\ active = <<1>>
    /\ typed = Session /\ block = ""
    /\ modules = <<>> /\ protos = <<>> /\ heap = <<>> /\ cells = <<>> /\ caches = <<>>
    /\ numFns = <<>> /\ output = <<>> /\ outcome = "running"

Me == Last(active)
M == machines[Me]
Frame == Last(M.frames)
Closure == Object(heap, Frame.fn)
Instruction == protos[Closure.proto].code[Frame.ip]
Arg(i) == Instruction[i + 1]

-----------------------------------------------------------------------------
(* What a step does to the machine that runs *)

Become(m) == machines' = [machines EXCEPT ![Me] = m]
\* The machine after the instruction, which most steps start from.
N == [M EXCEPT !.frames[Len(M.frames)].ip = @ + 1]
Goto(m, target) == [m EXCEPT !.frames[Len(m.frames)].ip = target]
Push(m, v) == [m EXCEPT !.stack = Append(@, v)]
PushAll(m, seq) == [m EXCEPT !.stack = @ \o seq]
Drop(m, n) == [m EXCEPT !.stack = SubSeq(@, 1, Len(@) - n)]
Operand(i) == M.stack[Len(M.stack) - i]         \* counted from the top, which is 0
Operands(n) == SubSeq(M.stack, Len(M.stack) - n + 1, Len(M.stack))

\* Above the stack a place holds whatever was left there.
PlaceOf(m, place) == IF place <= Len(m.stack) THEN m.stack[place] ELSE <<"stale">>
SetPlace(m, place, v) == IF place <= Len(m.stack) THEN [m EXCEPT !.stack[place] = v] ELSE m
Slot(i) == PlaceOf(M, Frame.base + i)
SetSlot(m, i, v) == SetPlace(m, Frame.base + i, v)

\* Cells at or above a place take the value that is there and leave the stack.
Closed(m, place) ==
    [id \in DOMAIN cells |->
        IF id \in m.open /\ cells[id].place >= place
        THEN [cells[id] EXCEPT !.open = FALSE, !.value = PlaceOf(m, cells[id].place)]
        ELSE cells[id]]
WithoutOpen(m, place) == [m EXCEPT !.open = {id \in @ : cells[id].place < place}]

Else == UNCHANGED <<active, typed, block, modules, protos, output, outcome>>

\* An error goes to the last handler inside the innermost run of the machine.
\* Without one the run ends: the machine is left with the error pending.
RunDepth(m) == IF m.natives = <<>> THEN 0 ELSE Last(m.natives).depth
Caught(err) == IF err[3] = Nil THEN Str(err[2]) ELSE err[3]
\* The cells of the frames that an error drops close, from the lowest one up.
\* mutant: only those of the frame it was raised in.
LowestOfTop(m, kept) == Last(m.frames).base
LowestDropped(m, kept) == m.frames[kept + 1].base
Raise(m, h, err) ==
    LET handler == Last(m.handlers)
        drops == handler.frames < Len(m.frames)
        place == IF drops THEN LowestDropped(m, handler.frames) ELSE Len(m.stack) + 1
        left == [WithoutOpen(m, place) EXCEPT
                    !.frames = SubSeq(@, 1, handler.frames), !.handlers = Front(@),
                    !.stack = Append(SubSeq(@, 1, handler.height), Caught(err))]
        out == [m EXCEPT !.frames = SubSeq(@, 1, RunDepth(m)), !.pending = err]
    IN /\ heap' = h
       /\ IF m.handlers # <<>> /\ handler.frames >= RunDepth(m)
          THEN Become(Goto(left, handler.target)) /\ cells' = IF drops THEN Closed(m, place) ELSE cells
          ELSE Become(out) /\ cells' = cells
       /\ UNCHANGED caches /\ Else
Throw(err) == Raise(N, heap, err)

Plainly(m) == Become(m) /\ UNCHANGED <<heap, cells, caches>> /\ Else
\* A result replaces its n operands, or its error is thrown.
Complete(n, r) ==
    IF IsErr(r.value) THEN Raise(Drop(N, n), r.heap, r.value)
    ELSE Become(Push(Drop(N, n), r.value)) /\ heap' = r.heap /\ UNCHANGED <<cells, caches>> /\ Else
\* An assignment leaves nothing.
Assigned(n, r) ==
    IF IsErr(r.value) THEN Raise(Drop(N, n), r.heap, r.value)
    ELSE Become(Drop(N, n)) /\ heap' = r.heap /\ UNCHANGED <<cells, caches>> /\ Else

InNative == M.natives # <<>> /\ ~Last(M.natives).busy
Ready == outcome = "running" /\ M.stage = "run" /\ M.pending = Nil /\ ~InNative
Op(name) == Ready /\ Instruction[1] = name

-----------------------------------------------------------------------------
(* From the text to the code *)

Scan ==
    LET next == NextToken(M.work)
        parts == Append(M.parts, next.tok)
    IN /\ outcome = "running" /\ M.stage = "text"
       /\ Plainly(IF next.tok = EndOfFile
                  THEN [M EXCEPT !.parts = <<>>, !.work = NewParser(parts), !.stage = "tokens"]
                  ELSE [M EXCEPT !.parts = parts, !.work = next])

ParseTopLevel ==
    LET round == ParseRound(M.work, M.parts)
    IN /\ outcome = "running" /\ M.stage = "tokens" /\ ~RoundsEnd(M.work, {"EOF"})
       /\ Plainly([M EXCEPT !.parts = round.statements, !.work = round.p])

\* A lone expression in a session is said.
Echo(statements) ==
    IF Session # <<>> /\ Me = 1 /\ Len(statements) = 1 /\ statements[1].k = "expression"
    THEN <<SayStatement(<<statements[1].expression>>)>> ELSE statements

\* What does not parse is not run.
ParseEnds ==
    /\ outcome = "running" /\ M.stage = "tokens" /\ RoundsEnd(M.work, {"EOF"})
    /\ Plainly([M EXCEPT !.work = StartProgram(protos, M.names),
                         !.stage = IF M.work.errors > 0 THEN "ended" ELSE "tree",
                         !.parts = IF M.work.errors > 0 THEN <<>> ELSE Echo(@),
                         !.pending = IF M.work.errors > 0 THEN Err("syntax error") ELSE Nil])

CompileTopLevel ==
    /\ outcome = "running" /\ M.stage = "tree" /\ M.parts # <<>>
    /\ Plainly([M EXCEPT !.work = Compile(@, Head(M.parts)), !.parts = Tail(@)])

\* The script is a function without parameters, called at the bottom of an
\* empty stack; what the last entry of a session left there is dropped.
CompileEnds ==
    LET c == EndProgram(M.work)
        script == New(heap, [type |-> "fn", proto |-> Len(c.protos), cells |-> <<>>,
                             unit |-> Me, module |-> 0, shape |-> Nil])
        locals == [i \in 1..Last(c.protos).locals |-> Nil]
        frame == [fn |-> script.value, ip |-> 1, base |-> 1, nargs |-> 0]
    IN /\ outcome = "running" /\ M.stage = "tree" /\ M.parts = <<>>
       /\ protos' = c.protos
       /\ heap' = script.heap
       /\ Become([NoFrames EXCEPT !.stack = <<script.value>> \o locals, !.frames = <<frame>>]
                 @@ [M EXCEPT !.stage = "run", !.work = <<>>, !.names = c.globals])
       /\ UNCHANGED <<active, typed, block, modules, cells, caches, output, outcome>>

-----------------------------------------------------------------------------
(* Constants, names and operators *)

PushConstant == \/ Op("CONST") /\ Plainly(Push(N, Arg(1)))
                \/ Op("NIL") /\ Plainly(Push(N, Nil))
PopOperand == Op("POP") /\ Plainly(Drop(N, 1))
Duplicate == Op("DUP") /\ Plainly(Push(N, Operand(0)))

GetLocal == Op("GET_LOCAL") /\ Plainly(Push(N, Slot(Arg(1))))
SetLocal == Op("SET_LOCAL") /\ Plainly(SetSlot(Drop(N, 1), Arg(1), Operand(0)))
GetTwoLocals == Op("LGET2") /\ Plainly(PushAll(N, <<Slot(Arg(1)), Slot(Arg(2))>>))

\* A global is a number, given by the unit that was compiled, in the table of
\* the module an exported function belongs to or else of the machine that runs
\* the function: the name that has the number there, "" past the table.
Table == IF Closure.module = 0 THEN Me ELSE Closure.module
NameFor(unit, table, name) ==
    LET number == SelectInSeq(machines[unit].names, LAMBDA n : n = name)
    IN CASE number = 0 -> name
         [] number \in DOMAIN machines[table].names -> machines[table].names[number]
         [] OTHER -> ""
NameIn(table, name) == NameFor(Closure.unit, table, name)
Globals == machines[Table].globals

GetGlobal ==
    LET name == NameIn(Table, Arg(1))
    IN /\ Op("GET_GLOBAL")
       /\ CASE name \in DOMAIN Globals -> Plainly(Push(N, Globals[name]))
            [] Closure.module # 0 -> Plainly(Push(N, Nil))
            [] OTHER -> Throw(Err("undefined variable"))

DefineGlobal ==
    /\ Op("DEFINE_GLOBAL")
    /\ Plainly([Drop(N, 1) EXCEPT !.globals = (Arg(1) :> Operand(0)) @@ @])

SetGlobal ==
    LET name == NameIn(Table, Arg(1))
    IN /\ Op("SET_GLOBAL")
       /\ CASE Closure.module # 0 ->
                  /\ machines' = [machines EXCEPT
                                     ![Me] = Drop(N, 1),
                                     ![Table].globals = IF name = "" THEN @ ELSE (name :> Operand(0)) @@ @]
                  /\ UNCHANGED <<heap, cells, caches>> /\ Else
            [] name \in DOMAIN Globals -> Plainly([Drop(N, 1) EXCEPT !.globals[name] = Operand(0)])
            [] OTHER -> Throw(Err("undefined variable"))

Cell == cells[Closure.cells[Arg(1)]]
GetUpvalue ==
    /\ Op("GET_UPVALUE")
    /\ Plainly(Push(N, IF Cell.open THEN PlaceOf(M, Cell.place) ELSE Cell.value))
SetUpvalue ==
    /\ Op("SET_UPVALUE")
    /\ IF Cell.open THEN Plainly(SetPlace(Drop(N, 1), Cell.place, Operand(0)))
       ELSE /\ cells' = [cells EXCEPT ![Closure.cells[Arg(1)]].value = Operand(0)]
            /\ Become(Drop(N, 1)) /\ UNCHANGED <<heap, caches>> /\ Else

\* Two integers and two numbers are taken on the spot, other pairs are boxed.
Binary(h, op, a, b) ==
    CASE op \in {"==", "!="} -> Plain(h, Bool(Same(h, a, b) = (op = "==")))
      [] IsInt(a) /\ IsInt(b) /\ op # "in" -> Plain(h, IntOp(op, a[2], b[2]))
      [] IsNumber(a) /\ IsNumber(b) /\ op \in FloatOps -> Plain(h, FloatOp(op, Double(a), Double(b)))
      [] OTHER -> Infix(h, op, a, b)

BinaryOperator == Op("BINARY") /\ Complete(2, Binary(heap, Arg(1), Operand(1), Operand(0)))
\* The instructions that carry an operand compute what the plain ones do.
ImmediateOperator ==
    \/ Op("IMM") /\ Complete(1, Binary(heap, Arg(1), Operand(0), Integer(Arg(2))))
    \/ Op("LGET_IMM") /\ Complete(0, Binary(heap, Arg(1), Slot(Arg(2)), Integer(Arg(3))))
AddInPlace == Op("ADD_INPLACE") /\ Complete(2, Binary(heap, "+", Operand(1), Operand(0)))

\* The jump is taken when the comparison does not hold.
CompareAndJump(n, r, target) ==
    IF IsErr(r.value) THEN Raise(Drop(N, n), r.heap, r.value)
    ELSE Plainly(IF Truthy(heap, r.value) THEN Drop(N, n) ELSE Goto(Drop(N, n), target))
ComparingJump ==
    \/ Op("CMP_JF") /\ CompareAndJump(2, Binary(heap, Arg(1), Operand(1), Operand(0)), Arg(2))
    \/ Op("CMP_I_JF") /\ CompareAndJump(1, Binary(heap, Arg(1), Operand(0), Integer(Arg(2))), Arg(3))

UnaryOperator ==
    \/ Op("NEGATE") /\ Complete(1, Plain(heap, Negate(Operand(0))))
    \/ Op("NOT") /\ Complete(1, Plain(heap, Bool(~Truthy(heap, Operand(0)))))
    \/ Op("BIT_NOT") /\ Complete(1, Plain(heap, BitNot(Operand(0))))

MakeRange ==
    /\ Op("RANGE_NEW")
    /\ Complete(2, IF IsInt(Operand(1)) /\ IsInt(Operand(0))
                   THEN New(heap, RangeObject(Operand(1)[2], Operand(0)[2], 1))
                   ELSE Plain(heap, Err("range operator '..' expects two integers")))
IsOfType ==
    /\ Op("IS_TYPE")
    /\ Complete(2, Plain(heap, IF Has(Operand(0), {"string"})
                               THEN Bool(TypeName(Operand(1)) = Operand(0)[2])
                               ELSE Err("'is' expects a type name string on the right")))

-----------------------------------------------------------------------------
(* Jumps *)

Jump == (Op("JUMP") \/ Op("LOOP")) /\ Plainly(Goto(M, Arg(1)))
JumpIfFalse ==
    /\ Op("JUMP_IF_FALSE")
    /\ Plainly(IF Truthy(heap, Operand(0)) THEN Drop(N, 1) ELSE Goto(Drop(N, 1), Arg(1)))
\* The operand stays when it decides.
KeepOrPop(decides) == Plainly(IF decides THEN Goto(M, Arg(1)) ELSE Drop(N, 1))
ShortCircuit ==
    \/ Op("AND_KEEP") /\ KeepOrPop(~Truthy(heap, Operand(0)))
    \/ Op("OR_KEEP") /\ KeepOrPop(Truthy(heap, Operand(0)))
    \/ Op("COALESCE") /\ KeepOrPop(Operand(0) # Nil)

-----------------------------------------------------------------------------
(* Calls *)

\* The function of m and its argc arguments are on top of its stack: a frame
\* for it, with the extra arguments in a list and null where none was given.
\* mutant: the locals that are not parameters are not reserved.
CallWithoutLocals(m, argc) ==
    LET fn == m.stack[Len(m.stack) - argc]
        proto == protos[Object(heap, fn).proto]
    IN /\ Become([m EXCEPT !.frames = Append(@, [fn |-> fn, ip |-> 1,
                                                 base |-> Len(m.stack) - argc, nargs |-> argc])])
       /\ UNCHANGED <<heap, cells, caches>> /\ Else
CallFunction(m, argc) ==
    LET fn == m.stack[Len(m.stack) - argc]
        proto == protos[Object(heap, fn).proto]
        fixed == Len(m.stack) - argc + proto.params - 1
        rest == New(heap, ListObject(SubSeq(m.stack, fixed + 1, Len(m.stack))))
        given == IF proto.variadic THEN Append(SubSeq(m.stack, 1, fixed), rest.value) ELSE m.stack
        nargs == IF proto.variadic THEN proto.params ELSE argc
        stack == given \o [i \in 1..(proto.locals - nargs) |-> Nil]
        frame == [fn |-> fn, ip |-> 1, base |-> Len(stack) - proto.locals, nargs |-> nargs]
    IN CASE IF proto.variadic THEN argc < proto.params - 1
            ELSE argc < proto.required \/ argc > proto.params ->
               Raise(m, heap, Err("wrong number of parameters"))
         [] Len(m.frames) >= MaxFrames -> Raise(m, heap, Err("maximum call depth exceeded"))
         [] Len(given) + proto.locals + 16 > StackLimit -> Raise(m, heap, Err("value stack overflow"))
         [] OTHER -> /\ Become([m EXCEPT !.stack = stack, !.frames = Append(@, frame)])
                     /\ heap' = IF proto.variadic THEN rest.heap ELSE heap
                     /\ UNCHANGED <<cells, caches>> /\ Else

\* A builtin's result takes the place of its n operands on the stack; without
\* operands it goes to the builtin that called it.
Hand(m, n, r) ==
    LET t == Last(m.natives)
        kept == IF t.name = "filter" THEN Bool(Truthy(r.heap, r.value)) ELSE r.value
    IN CASE IsErr(r.value) -> Raise(m, r.heap, r.value)
         [] n = 0 ->
               /\ Become([m EXCEPT !.natives[Len(m.natives)].results = Append(@, kept),
                                            !.natives[Len(m.natives)].busy = FALSE])
               /\ heap' = r.heap /\ UNCHANGED <<cells, caches>> /\ Else
         [] OTHER -> /\ Become(Push(Drop(m, n), r.value))
                     /\ heap' = r.heap /\ UNCHANGED <<cells, caches>> /\ Else

\* A builtin takes its arguments from the stack, or n = 0 from another builtin.
CallBuiltin(m, n, name, a) ==
    LET callable == /\ Len(a) = 2 \/ (name = "reduce" /\ Len(a) = 3)
                    /\ Has(a[1], {"list"}) /\ Has(a[2], {"fn", "builtin"})
                    /\ Elems(heap, a[1]) = <<>> =>
                          name \notin {"min_by", "max_by"} /\ (name = "reduce" => Len(a) = 3)
        start == CASE name # "reduce" -> <<>>
                   [] Len(a) = 3 -> <<a[3]>>
                   [] OTHER -> <<Head(Elems(heap, a[1]))>>
        t == [name |-> name, args |-> a, operands |-> n, next |-> IF name = "reduce" /\ Len(a) = 2 THEN 2 ELSE 1,
              seen |-> <<>>, results |-> start, depth |-> Len(m.frames), busy |-> FALSE]
    IN CASE name \notin Callers -> Hand(m, n, Apply(heap, name, a))
         [] callable -> Plainly([m EXCEPT !.natives = Append(@, t)])
         [] OTHER -> Raise(m, heap, Err("argument"))

CallValue(m, argc) ==
    LET callee == m.stack[Len(m.stack) - argc]
        arguments == SubSeq(m.stack, Len(m.stack) - argc + 1, Len(m.stack))
    IN CASE Has(callee, {"fn"}) -> CallFunction(m, argc)
         [] Has(callee, {"builtin"}) -> CallBuiltin(m, argc + 1, callee[2], arguments)
         [] OTHER -> Raise(m, heap, Err("not a function, cannot be called"))

\* The machine code of a function, shared by all its closures, is tried when
\* it is called with integers.
NumFnOf(fn) == LET proto == Object(heap, fn).proto
               IN IF proto \in DOMAIN numFns THEN numFns[proto] ELSE [calls |-> 0, native |-> <<>>, dead |-> FALSE]
NativeResults(argc) ==
    LET fn == Operand(argc)
        f == NumFnOf(fn).native
        arguments == Operands(argc)
    IN IF Has(fn, {"fn"}) /\ f # <<>> /\ argc = f[1].params /\ \A i \in 1..argc : IsInt(arguments[i])
       THEN {CallNumFn(f[1], [i \in 1..argc |-> arguments[i][2]], Len(M.frames), junk) : junk \in Junk}
       ELSE {[result |-> 0, aborted |-> TRUE]}
NativeCall ==
    /\ Op("CALL")
    /\ \E r \in NativeResults(Arg(1)) :
          ~r.aborted /\ Plainly(Push(Drop(N, Arg(1) + 1), Integer(r.result)))

\* A function that is called with its parameters and all of them often enough
\* is compiled, for the calls that follow.
Counted(fn, argc) ==
    LET closure == Object(heap, fn)
        proto == protos[closure.proto]
        old == NumFnOf(fn)
        IsSelf(ins) ==
            LET global == NameFor(closure.unit, Me, ins[2])
            IN ins[1] = "GET_GLOBAL" /\ global \in DOMAIN M.globals /\ M.globals[global] = fn
        selves == {pc \in DOMAIN proto.code : IsSelf(proto.code[pc])}
        native == IF old.calls + 1 < NumFnThreshold THEN <<>> ELSE CompileNumericFn(proto, selves)
        new == [calls |-> old.calls + 1, native |-> native, dead |-> native = <<>> /\ old.calls + 1 >= NumFnThreshold]
    IN IF /\ old.native = <<>> /\ ~old.dead /\ closure.module = 0
          /\ ~proto.variadic /\ argc = proto.params /\ argc = proto.required
       THEN (closure.proto :> new) @@ numFns ELSE numFns
Call ==
    /\ Op("CALL")
    /\ \E r \in NativeResults(Arg(1)) : r.aborted
    /\ CallValue(N, Arg(1))
    /\ numFns' = IF Has(Operand(Arg(1)), {"fn"}) THEN Counted(Operand(Arg(1)), Arg(1)) ELSE numFns

\* The receiver is the first argument of a struct's method and of a function in
\* a map with a __type__; for the members of other maps and modules it is dropped.
CallMethod ==
    LET argc == Arg(1)
        receiver == Operand(argc + 1)
        below == SubSeq(M.stack, 1, Len(M.stack) - argc - 2)
        asMethod == \/ Has(receiver, {"struct"})
                    \/ Has(receiver, {"map"}) /\ Position(Entries(heap, receiver), Str("__type__")) # 0
    IN /\ Op("CALL_METHOD")
       /\ IF asMethod
          THEN CallValue([N EXCEPT !.stack = below \o <<Operand(argc), receiver>> \o Operands(argc)], argc + 1)
          ELSE CallValue([N EXCEPT !.stack = below \o Operands(argc + 1)], argc)

\* The cell of a place on the stack is shared by all the functions that use it.
\* mutant: every function gets a cell of its own.
CaptureAlone(all, place) == 0
Capture(all, place) ==
    LET known == {id \in M.open \cup (Len(cells) + 1)..Len(all) : all[id].place = place}
    IN IF known = {} THEN 0 ELSE Max(known)

MakeClosure ==
    LET Add(r, up) ==
            LET place == Frame.base + up[2]
                at == Capture(r.all, place)
            IN CASE ~up[1] -> [r EXCEPT !.mine = Append(@, Closure.cells[up[2]])]
                 [] at # 0 -> [r EXCEPT !.mine = Append(@, at)]
                 [] OTHER -> [all |-> Append(r.all, [open |-> TRUE, place |-> place, value |-> Nil]),
                              mine |-> Append(r.mine, Len(r.all) + 1)]
        r == FoldLeft(Add, [all |-> cells, mine |-> <<>>], Arg(2))
        fn == New(heap, [type |-> "fn", proto |-> Arg(1), cells |-> r.mine,
                         unit |-> Closure.unit, module |-> Closure.module, shape |-> Nil])
    IN /\ Op("CLOSURE")
       /\ cells' = r.all
       /\ heap' = fn.heap
       /\ Become([Push(N, fn.value) EXCEPT !.open = @ \cup (Len(cells) + 1)..Len(r.all)])
       /\ UNCHANGED caches /\ Else

DefaultArgument ==
    Op("ARG_DEFAULT") /\ Plainly(IF Frame.nargs >= Arg(1) THEN Goto(M, Arg(2)) ELSE N)

\* The result takes the place of the function; the cells above it close and the
\* handlers of the frame go.
ReturnFromFunction ==
    LET result == Operand(0)
        left == [WithoutOpen(M, Frame.base) EXCEPT
                    !.stack = SubSeq(@, 1, Frame.base - 1), !.frames = Front(@),
                    !.handlers = SelectSeq(@, LAMBDA h : h.frames < Len(M.frames))]
        t == Last(M.natives)
        kept == IF t.name = "filter" THEN Bool(Truthy(heap, result)) ELSE result
    IN /\ Op("RETURN")
       /\ cells' = Closed(M, Frame.base)
       /\ Become(IF M.natives # <<>> /\ Len(left.frames) = t.depth
                 THEN [left EXCEPT !.natives[Len(M.natives)].results = Append(@, kept),
                                   !.natives[Len(M.natives)].busy = FALSE]
                 ELSE Push(left, result))
       /\ UNCHANGED <<heap, caches>> /\ Else

\* The script ends with its stack empty; open cells stay open.  When a builtin
\* still waits for it, that builtin takes a value below the stack.
Halt ==
    /\ Op("HALT")
    /\ Become([M EXCEPT !.stage = "ended", !.stack = <<>>, !.frames = Front(@)])
    /\ outcome' = IF M.natives = <<>> THEN outcome ELSE "undefined"
    /\ UNCHANGED <<heap, cells, caches, active, typed, block, modules, protos, output>>

-----------------------------------------------------------------------------
(* Builtins that call functions *)

T == Last(M.natives)
Items == Elems(heap, T.args[1])
Idle == outcome = "running" /\ M.pending = Nil /\ InNative

\* Keys are looked at as they come.
BadKey == \/ T.name = "group_by" /\ \E i \in DOMAIN T.results : ~IsValidMapKey(T.results[i])
          \/ T.name \in {"min_by", "max_by"} /\ Len(T.results) > 1 /\ ~AllNumbers(T.results)

CallBack ==
    LET item == Items[T.next]
        a == IF T.name = "reduce" THEN <<Last(T.results), item>> ELSE <<item>>
        t == [T EXCEPT !.next = @ + 1, !.seen = Append(@, item), !.busy = TRUE]
        m == [M EXCEPT !.natives[Len(M.natives)] = t]
    IN /\ Idle /\ ~BadKey /\ T.next <= Len(Items)
       /\ IF Has(T.args[2], {"fn"}) THEN CallFunction(PushAll(m, <<T.args[2]>> \o a), Len(a))
          ELSE CallBuiltin(m, 0, T.args[2][2], a)

\* The elements whose keys order them, equal keys as they were.
ByKey(keys, items) ==
    LET pairs == [i \in 1..Len(keys) |-> <<keys[i], items[i]>>]
        Less(p, q) == IF AllNumbers(keys) THEN FLess(Double(p[1]), Double(q[1]))
                      ELSE StringLess(p[1][2], q[1][2])
        sorted == StableSort(pairs, Less)
    IN [i \in 1..Len(keys) |-> sorted[i][2]]
BestOf(keys, items, wantMin) ==
    LET Better(i, j) == IF wantMin THEN FLess(Double(keys[i]), Double(keys[j]))
                        ELSE FLess(Double(keys[j]), Double(keys[i]))
    IN items[FoldLeft(LAMBDA best, i : IF i > 1 /\ Better(i, best) THEN i ELSE best, 1,
                      [i \in 1..Len(keys) |-> i])]
Groups(h, keys, items) ==
    LET In(key) == ListObject(FoldLeft(LAMBDA all, i : IF keys[i] = key THEN Append(all, items[i]) ELSE all,
                                       <<>>, [i \in 1..Len(keys) |-> i]))
        names == FoldLeft(LAMBDA all, key : IF key \in ToSet(all) THEN all ELSE Append(all, key), <<>>, keys)
    IN New(h \o [i \in 1..Len(names) |-> In(names[i])],
           MapObject([i \in 1..Len(names) |-> <<names[i], <<"list", Len(h) + i>>>>]))

NativeResult ==
    LET r == T.results
        kept == SelectSeq([i \in 1..Len(r) |-> <<r[i], T.seen[i]>>], LAMBDA p : p[1][2])
    IN CASE T.name = "each" -> Plain(heap, Nil)
         [] T.name = "transform" -> NewList(heap, r)
         [] T.name = "filter" -> NewList(heap, [i \in 1..Len(kept) |-> kept[i][2]])
         [] T.name = "reduce" -> Plain(heap, Last(r))
         [] T.name = "group_by" -> Groups(heap, r, T.seen)
         [] T.name \in {"min_by", "max_by"} -> Plain(heap, BestOf(r, T.seen, T.name = "min_by"))
         [] T.name = "sort_by" /\ ~Sortable(r) -> Rejected(heap)
         [] T.name = "sort_by" ->
               Plain([heap EXCEPT ![T.args[1][2]].elems =
                         ByKey(r, T.seen) \o SubSeq(@, Len(r) + 1, Len(@))], T.args[1])

FinishNative ==
    LET m == [M EXCEPT !.natives = Front(@)]
    IN /\ Idle
       /\ IF BadKey THEN Raise(m, heap, Err("argument"))
          ELSE T.next > Len(Items) /\ Hand(m, T.operands, NativeResult)

-----------------------------------------------------------------------------
(* Containers, structs and their parts *)

Pairs(n) == [i \in 1..n |-> <<Operand(2 * (n - i) + 1), Operand(2 * (n - i))>>]

MakeContainer ==
    \/ Op("LIST") /\ Complete(Arg(1), New(heap, ListObject(Operands(Arg(1)))))
    \/ Op("TUPLE") /\ Complete(Arg(1), New(heap, TupleObject(Operands(Arg(1)))))
    \/ /\ Op("MAP")
       /\ Complete(2 * Arg(1),
                   IF \E i \in 1..Arg(1) : ~IsValidMapKey(Pairs(Arg(1))[i][1])
                   THEN Plain(heap, Err("map keys must be string, int or bool"))
                   ELSE New(heap, MapObject(PutAll(<<>>, Pairs(Arg(1))))))

\* The methods are on the stack, the first one deepest.
MakeShape ==
    LET names == Arg(3)
        methods == [i \in 1..Len(names) |-> <<names[i], Operands(Len(names))[i]>>]
    IN /\ Op("STRUCT_SHAPE")
       /\ Complete(Len(names), New(heap, [type |-> "shape", name |-> Arg(1), fields |-> Arg(2), methods |-> methods]))
BindShape ==
    /\ Op("STRUCT_BIND")
    /\ Complete(2, Plain([heap EXCEPT ![Operand(0)[2]].shape = Operand(1)], Operand(0)))
MakeStruct ==
    /\ Op("STRUCT_MAKE")
    /\ Complete(0, New(heap, [type |-> "struct", shape |-> Closure.shape[2],
                              slots |-> [i \in 1..Arg(1) |-> Slot(i)]]))

GetIndex ==
    \/ Op("INDEX_GET") /\ Complete(2, Plain(heap, Index(heap, Operand(1), Operand(0))))
    \/ Op("INDEX_GET_KEEP") /\ Complete(0, Plain(heap, Index(heap, Operand(1), Operand(0))))
StoreIndex == Op("INDEX_SET") /\ Assigned(3, SetIndex(heap, Operand(2), Operand(1), Operand(0)))
TakeSlice == Op("SLICE") /\ Complete(3, Slice(heap, Operand(2), Operand(1), Operand(0)))

\* Each member access keeps the entry that answered last, and looks there first.
Site == <<Closure.proto, Frame.ip>>
Guess == IF Site \in DOMAIN caches THEN caches[Site] ELSE 1
\* mutant: the entry is taken without comparing its name.
TrustTheCache(v, prop) ==
    CASE Has(v, {"struct"}) -> IF Guess <= Len(Object(heap, v).slots) THEN Guess
                               ELSE FieldSlot(heap[Object(heap, v).shape], prop)
      [] Has(v, {"map"}) -> IF Guess <= Len(Entries(heap, v)) THEN Guess ELSE Position(Entries(heap, v), Str(prop))
      [] OTHER -> 0
LookupMember(v, prop) ==
    CASE Has(v, {"struct"}) ->
            LET shape == heap[Object(heap, v).shape]
            IN IF Guess <= Len(Object(heap, v).slots) /\ shape.fields[Guess] = prop THEN Guess
               ELSE FieldSlot(shape, prop)
      [] Has(v, {"map"}) ->
            LET found == Entries(heap, v)
            IN IF Guess <= Len(found) /\ found[Guess][1] = Str(prop) THEN Guess
               ELSE Position(found, Str(prop))
      [] OTHER -> 0

\* The value of a member takes the place of n operands.
GetMember(n, v, prop) ==
    LET at == LookupMember(v, prop)
        val == IF Has(v, {"struct"}) THEN Object(heap, v).slots[at] ELSE Entries(heap, v)[at][2]
    IN IF at = 0 THEN Complete(n, Plain(heap, Member(heap, v, prop)))
       ELSE /\ Become(Push(Drop(N, n), val))
            /\ caches' = (Site :> at) @@ caches
            /\ UNCHANGED <<heap, cells>> /\ Else
ReadMember ==
    \/ Op("MEMBER_GET") /\ GetMember(1, Operand(0), Arg(1))
    \/ Op("MEMBER_GET_SAFE") /\ IF Operand(0) = Nil THEN Plainly(N) ELSE GetMember(1, Operand(0), Arg(1))
    \/ Op("MEMBER_GET_KEEP") /\ GetMember(0, Operand(0), Arg(1))

WriteMember ==
    LET v == Operand(1)
        at == LookupMember(v, Arg(1))
        found == at # 0 /\ ~(Has(v, {"map"}) /\ Object(heap, v).frozen)
    IN /\ Op("MEMBER_SET")
       /\ IF found
          THEN /\ heap' = IF Has(v, {"struct"}) THEN [heap EXCEPT ![v[2]].slots[at] = Operand(0)]
                          ELSE [heap EXCEPT ![v[2]].entries[at][2] = Operand(0)]
               /\ caches' = (Site :> at) @@ caches
               /\ Become(Drop(N, 2)) /\ UNCHANGED cells /\ Else
          ELSE Assigned(2, SetMember(heap, v, Arg(1), Operand(0)))

Unpack ==
    LET v == Operand(0)
    IN /\ Op("UNPACK")
       /\ CASE ~Has(v, {"list", "tuple"}) -> Throw(Err("unpacking assignment expects a list or tuple"))
            [] Len(Elems(heap, v)) # Arg(1) -> Throw(Err("unpacking mismatch"))
            [] OTHER -> Plainly(PushAll(Drop(N, 1), Elems(heap, v)))

-----------------------------------------------------------------------------
(* Text *)

Texts(n) == [i \in 1..n |-> Inspect(heap, Operands(n)[i])]
Interpolate == Op("INTERP") /\ Complete(Arg(1), Plain(heap, Str(Join(Texts(Arg(1)), ""))))
Say ==
    /\ Op("SAY")
    /\ output' = Append(output, Join(Texts(Arg(1)), " "))
    /\ Become(Drop(N, Arg(1)))
    /\ UNCHANGED <<active, typed, block, modules, protos, heap, cells, caches, outcome>>

-----------------------------------------------------------------------------
(* Loops over a value *)

\* The keys of a map are those it had when the loop began; the elements of a
\* list are looked at as they come.
StartLoop ==
    LET v == Operand(0)
        iter == [type |-> "iter", source |-> v, index |-> 0, keys |-> <<>>]
    IN /\ Op("FOR_SETUP")
       /\ Complete(1, CASE Has(v, {"list", "tuple", "string"}) -> New(heap, iter)
                        [] Has(v, {"range"}) -> New(heap, [iter EXCEPT !.index = Object(heap, v).from])
                        [] Has(v, {"map", "set"}) -> New(heap, [iter EXCEPT !.keys = KeysOf(Entries(heap, v))])
                        [] OTHER -> Plain(heap, Err("for loops iterate over list, range, string or map")))

Over(iter) ==
    LET source == iter.source
    IN CASE Has(source, {"range"}) ->
               IF Object(heap, source).step > 0 THEN iter.index >= Object(heap, source).to
               ELSE iter.index <= Object(heap, source).to
         [] Has(source, {"string"}) -> iter.index >= Len(source[2])
         [] Has(source, {"list", "tuple"}) -> iter.index >= Len(Elems(heap, source))
         [] OTHER -> iter.index >= Len(iter.keys)
\* What the variables of the loop get, for one variable and for two.
Items1(iter) ==
    LET source == iter.source
    IN CASE Has(source, {"range"}) -> Integer(iter.index)
         [] Has(source, {"string"}) -> Str(At(source[2], iter.index + 1))
         [] Has(source, {"list", "tuple"}) -> Elems(heap, source)[iter.index + 1]
         [] OTHER -> iter.keys[iter.index + 1]
Items2(iter) ==
    LET val == Lookup(Entries(heap, iter.source), Items1(iter))
    IN IF Has(iter.source, {"map", "set"})
       THEN <<Items1(iter), IF val = <<"absent">> THEN Nil ELSE val>>
       ELSE <<Integer(iter.index), Items1(iter)>>

NextItem ==
    LET iter == Object(heap, Operand(0))
        step == IF Has(iter.source, {"range"}) THEN Object(heap, iter.source).step ELSE 1
        values == IF Len(Arg(1)) = 1 THEN <<Items1(iter)>> ELSE Items2(iter)
        set == FoldLeft(LAMBDA m, i : SetSlot(m, Arg(1)[i], values[i]), N, [i \in 1..Len(Arg(1)) |-> i])
    IN /\ Op("FOR_NEXT")
       /\ IF Over(iter) THEN Plainly(Goto(M, Arg(2)))
          ELSE /\ heap' = [heap EXCEPT ![Operand(0)[2]].index = Wrap(@ + step)]
               /\ Become(set)
               /\ UNCHANGED <<cells, caches>> /\ Else

CloseUpvalue ==
    /\ Op("CLOSE_UPVALUE")
    /\ cells' = Closed(M, Frame.base + Arg(1))
    /\ Become(WithoutOpen(N, Frame.base + Arg(1)))
    /\ UNCHANGED <<heap, caches>> /\ Else

-----------------------------------------------------------------------------
(* Errors *)

PushHandler ==
    /\ Op("TRY_PUSH")
    /\ Plainly([N EXCEPT !.handlers =
                   Append(@, [frames |-> Len(M.frames), height |-> Len(M.stack), target |-> Arg(1)])])
PopHandler == Op("TRY_POP") /\ Plainly([N EXCEPT !.handlers = IF @ = <<>> THEN @ ELSE Front(@)])

\* A container is what the handler gets; of other values it gets the text.
ThrowValue ==
    LET v == Operand(0)
    IN /\ Op("THROW")
       /\ Raise(Drop(N, 1), heap,
                <<"error", Inspect(heap, v), IF Has(v, {"map", "struct", "list", "tuple"}) THEN v ELSE Nil>>)
RuntimeFailure == Op("RUNTIME_ERROR") /\ Throw(Err(Arg(1)))
YieldOutside == Op("YIELD") /\ Throw(Err("yield used outside a coroutine"))

\* An error that a run ended with: the one that waited for a module throws it,
\* and so does the code that called the builtin the run was for.
Rethrow ==
    LET m == [M EXCEPT !.pending = Nil]
    IN /\ outcome = "running" /\ M.pending # Nil
       /\ \/ Len(M.frames) > RunDepth(M) /\ Raise(m, heap, M.pending)
          \/ /\ M.natives # <<>> /\ Len(M.frames) = RunDepth(M)
             /\ Raise([m EXCEPT !.natives = Front(@)], heap, M.pending)

-----------------------------------------------------------------------------
(* Modules *)

Directory(path) == SubSeq(path, 1, Max({0} \cup {i \in 1..Len(path) : At(path, i) = "/"}))
\* A quoted path counts from the module that is being loaded, a package's from
\* the program.
Candidates(s) ==
    IF s.isFile THEN <<Directory(M.path) \o s.target>>
    ELSE LET package == Directory(MainPath) \o "lovax_libs/" \o s.target \o "/"
         IN <<package \o s.target \o ".lov", package \o "main.lov">>
\* mutant: only the module that says use is looked at.
LoadingHere == {M.path}
Loading == {machines[active[i]].path : i \in 2..Len(active)}

\* A name is bound in the table of the machine that runs, at the number it has
\* in the unit that was compiled.
Bind(m, names, values) ==
    LET bound == [i \in DOMAIN values |-> NameIn(Me, names[i])]
        missing == SelectInSeq(values, LAMBDA v : v = <<"absent">>)
        count == IF missing = 0 THEN Len(names) ELSE missing - 1
        table == FoldLeft(LAMBDA t, i : (bound[i] :> values[i]) @@ t, m.globals, [i \in 1..count |-> i])
        done == [m EXCEPT !.globals = table]
    IN CASE "" \in {bound[i] : i \in 1..count} ->
               /\ outcome' = "undefined"
               /\ UNCHANGED <<machines, heap, cells, caches, active, typed, block, modules, protos, output>>
         [] missing # 0 -> Raise(done, heap, Err("module has no member"))
         [] OTHER -> Plainly(done)
BindModule(s, module) ==
    Bind(N, BoundNames(s),
         IF s.names = <<>> THEN <<module>>
         ELSE [i \in 1..Len(s.names) |-> Lookup(Entries(heap, module), Str(s.names[i]))])

\* A module that is not loaded yet is run first, on a machine of its own; then
\* the instruction finds it.  The modules in C++ are not modelled.
Use ==
    LET s == Arg(1)
        there == SelectSeq(Candidates(s), LAMBDA path : path \in DOMAIN Files)
    IN /\ Op("USE")
       /\ CASE ~s.isFile /\ s.target \in DOMAIN modules -> BindModule(s, modules[s.target])
            [] there = <<>> -> Throw(Err("unknown module"))
            [] Head(there) \in DOMAIN modules -> BindModule(s, modules[Head(there)])
            [] Head(there) \in Loading -> Throw(Err("circular use detected"))
            [] OTHER -> /\ machines' = Append(machines, NewMachine(Head(there), Files[Head(there)]))
                        /\ active' = Append(active, Len(machines) + 1)
                        /\ UNCHANGED <<typed, block, modules, protos, heap, cells, caches, output, outcome>>

\* The globals of the module without the builtins nobody changed, by name; the
\* functions among them will find their globals here.
Exported ==
    LET names == {n \in DOMAIN M.globals : n \in Builtins => M.globals[n] # <<"builtin", n>>}
        keys == Sort(SetToSeq({Str(n) : n \in names}))
        functions == {M.globals[n][2] : n \in {x \in names : Has(M.globals[x], {"fn"})}}
        bound == [id \in DOMAIN heap |-> IF id \in functions THEN [heap[id] EXCEPT !.module = Me] ELSE heap[id]]
    IN New(bound, [MapObject([i \in 1..Len(keys) |-> <<keys[i], M.globals[keys[i][2]]>>])
                      EXCEPT !.frozen = TRUE, !.module = Stem(M.path)])

ModuleLoaded ==
    /\ outcome = "running" /\ Len(active) > 1
    /\ M.stage = "ended" /\ M.pending = Nil
    /\ heap' = Exported.heap
    /\ modules' = (M.path :> Exported.value) @@ modules
    /\ active' = Front(active)
    /\ UNCHANGED <<machines, typed, block, protos, cells, caches, output, outcome>>

Failed == M.pending # Nil /\ M.frames = <<>> /\ M.natives = <<>>
ModuleFailed ==
    /\ outcome = "running" /\ Len(active) > 1 /\ Failed
    /\ active' = Front(active)
    /\ machines' = [machines EXCEPT ![Last(active')].pending = Err("error while loading module")]
    /\ UNCHANGED <<typed, block, modules, protos, heap, cells, caches, output, outcome>>

-----------------------------------------------------------------------------
(* Programs and sessions *)

ProgramEnded ==
    /\ outcome = "running" /\ Session = <<>> /\ Len(active) = 1
    /\ Failed \/ M.stage = "ended"
    /\ outcome' = CASE M.pending = Nil -> "done"
                    [] M.stage = "ended" -> "rejected"
                    [] OTHER -> "failed"
    /\ UNCHANGED <<machines, active, typed, block, modules, protos, heap, cells, caches, output>>

EntryEnded ==
    /\ outcome = "running" /\ Session # <<>> /\ Len(active) = 1
    /\ Failed \/ M.stage = "ended"
    /\ Plainly([M EXCEPT !.stage = "idle", !.pending = Nil])

\* A line that ends in a colon begins a block, which a blank line ends.
ReadLine ==
    LET line == Head(typed)
        first == Skip(line, 1, Blanks)
        last == Max({0} \cup {i \in 1..Len(line) : At(line, i) \notin Blanks})
        Evaluate(text) == Become([M EXCEPT !.stage = "text", !.work = NewLexer(text)])
        Wait == UNCHANGED machines
    IN /\ outcome = "running" /\ M.stage = "idle" /\ typed # <<>>
       /\ typed' = Tail(typed)
       /\ CASE block # "" /\ last = 0 -> Evaluate(block) /\ block' = ""
            [] block # "" -> Wait /\ block' = block \o line \o "\n"
            [] last = 0 -> Wait /\ UNCHANGED block
            [] CharAt(line, last) = ":" -> Wait /\ block' = line \o "\n"
            [] OTHER -> Evaluate(line) /\ UNCHANGED block
       /\ outcome' = IF block = "" /\ Part(line, first, Len(line)) \in {"exit", "quit"} THEN "done" ELSE outcome
       /\ UNCHANGED <<active, modules, protos, heap, cells, caches, output>>
\* What waits for the end of its block is dropped with the session.
SessionEnded ==
    /\ outcome = "running" /\ M.stage = "idle" /\ typed = <<>>
    /\ outcome' = "done"
    /\ UNCHANGED <<machines, active, typed, block, modules, protos, heap, cells, caches, output>>

-----------------------------------------------------------------------------
Step ==
    \/ Scan \/ ParseTopLevel \/ ParseEnds \/ CompileTopLevel \/ CompileEnds
    \/ PushConstant \/ PopOperand \/ Duplicate \/ GetLocal \/ SetLocal \/ GetTwoLocals
    \/ GetGlobal \/ DefineGlobal \/ SetGlobal \/ GetUpvalue \/ SetUpvalue
    \/ BinaryOperator \/ ImmediateOperator \/ AddInPlace \/ ComparingJump \/ UnaryOperator
    \/ MakeRange \/ IsOfType \/ Jump \/ JumpIfFalse \/ ShortCircuit
    \/ NativeCall \/ CallMethod \/ MakeClosure \/ DefaultArgument \/ ReturnFromFunction \/ Halt
    \/ CallBack \/ FinishNative
    \/ MakeContainer \/ MakeShape \/ BindShape \/ MakeStruct
    \/ GetIndex \/ StoreIndex \/ TakeSlice \/ ReadMember \/ WriteMember \/ Unpack
    \/ Interpolate \/ Say \/ StartLoop \/ NextItem \/ CloseUpvalue
    \/ PushHandler \/ PopHandler \/ ThrowValue \/ RuntimeFailure \/ YieldOutside \/ Rethrow
    \/ Use \/ ModuleLoaded \/ ModuleFailed
    \/ ProgramEnded \/ EntryEnded \/ ReadLine \/ SessionEnded

Next == ((Step /\ UNCHANGED numFns) \/ Call) /\ UNCHANGED program

Spec == Init /\ [][Next]_vars
FairSpec == Spec /\ WF_vars(Next)
=============================================================================
