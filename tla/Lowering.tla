------------------------------ MODULE Lowering ------------------------------
(***************************************************************************)
(* src/vm/compiler.hpp: syntax trees to bytecode.  The compiler's state is  *)
(* the record c: the contexts of the functions being compiled, innermost    *)
(* last, the functions compiled so far, the names marked const and the      *)
(* names of globals met so far.  An instruction is a tuple of its opcode and *)
(* operands; a jump ends with its target, an index into the code.  Opcodes  *)
(* that differ in an operator only share a name and carry the operator, and *)
(* a global goes by its name.  Slots, upvalues and code count from 1.  Line *)
(* tables and the limits of operand widths are left out.                    *)
(***************************************************************************)
EXTENDS Values, Syntax
LOCAL INSTANCE Integers
LOCAL INSTANCE Sequences
LOCAL INSTANCE SequencesExt
LOCAL INSTANCE FiniteSetsExt
LOCAL INSTANCE TLC

CONSTANT ImmMax     \* the largest immediate operand (32767)

NewContext(locals, script) ==
    [code |-> <<>>, locals |-> locals, upvals |-> <<>>, loops |-> <<>>, tries |-> <<>>,
     script |-> script]

Top(c) == Len(c.ctxs)
Ctx(c) == c.ctxs[Top(c)]
Here(c) == Len(Ctx(c).code) + 1
Latest(c) == Len(Ctx(c).code)

Emit(c, instruction) == [c EXCEPT !.ctxs[Top(c)].code = Append(@, instruction)]
\* The jump at this index goes here.
Patch(c, at) ==
    [c EXCEPT !.ctxs[Top(c)].code[at] = [@ EXCEPT ![Len(@)] = Here(c)]]
PatchAll(c, jumps) == FoldLeft(LAMBDA d, at : Patch(d, at), c, jumps)

RuntimeError(c, message) == Emit(c, <<"RUNTIME_ERROR", message>>)

-----------------------------------------------------------------------------
(* Names *)

\* The slot that (uint16_t)-1 names.
NoSlot == 65536

ResolveLocal(ctx, name) == SelectLastInSeq(ctx.locals, LAMBDA n : n = name)

AddUpvalue(c, d, isLocal, index) ==
    LET known == SelectInSeq(c.ctxs[d].upvals, LAMBDA u : u = <<isLocal, index>>)
    IN IF known # 0 THEN [c |-> c, index |-> known]
       ELSE [c |-> [c EXCEPT !.ctxs[d].upvals = Append(@, <<isLocal, index>>)],
             index |-> Len(c.ctxs[d].upvals) + 1]

\* The upvalue of context d for a local of a context around it, 0 without one.
RECURSIVE ResolveUpvalue(_, _, _)
ResolveUpvalue(c, d, name) ==
    IF d = 1 THEN [c |-> c, index |-> 0]
    ELSE IF ResolveLocal(c.ctxs[d - 1], name) # 0
    THEN AddUpvalue(c, d, TRUE, ResolveLocal(c.ctxs[d - 1], name))
    ELSE LET outer == ResolveUpvalue(c, d - 1, name)
         IN IF outer.index = 0 THEN outer ELSE AddUpvalue(outer.c, d, FALSE, outer.index)

\* A global gets its slot where its name first occurs.
Registered(c, name) ==
    IF name \in ToSet(c.globals) THEN c ELSE [c EXCEPT !.globals = Append(@, name)]

\* The instruction that reads or writes a name: a local, an upvalue or a global.
EmitName(c, access, name) ==
    LET slot == ResolveLocal(Ctx(c), name)
        up == ResolveUpvalue(c, Top(c), name)
    IN IF slot # 0 THEN Emit(c, <<access \o "_LOCAL", slot>>)
       ELSE IF up.index # 0 THEN Emit(up.c, <<access \o "_UPVALUE", up.index>>)
       ELSE Emit(Registered(c, name), <<access \o "_GLOBAL", name>>)
EmitNameGet(c, name) == EmitName(c, "GET", name)
EmitNameSet(c, name) == EmitName(c, "SET", name)

DefineName(c, name) ==
    LET slot == ResolveLocal(Ctx(c), name)
    IN IF slot # 0 THEN Emit(c, <<"SET_LOCAL", slot>>)
       ELSE IF Ctx(c).script THEN Emit(Registered(c, name), <<"DEFINE_GLOBAL", name>>)
       ELSE Emit(c, <<"SET_LOCAL", NoSlot>>)

MarkConst(c, name) == [c EXCEPT !.consts = @ \cup {name}]

\* The names a statement binds in its function, nested functions aside.
RECURSIVE CollectLocals(_, _)
\* mutant: the name a catch binds is not collected.
CollectBlocks(stmt, out) ==
    LET Block(names, block) == IF IsNone(block) THEN names
                               ELSE FoldLeft(LAMBDA all, s : CollectLocals(s, all), names, block.statements)
    IN CASE stmt.k = "set" -> FoldLeft(LAMBDA all, n : IF n \in ToSet(all) THEN all ELSE Append(all, n), out, stmt.names)
         [] stmt.k = "try" -> Block(Block(Block(out, stmt.tryBlock), stmt.catchBlock), stmt.finallyBlock)
         [] OTHER -> out
CollectBlock(block, out) ==
    IF IsNone(block) THEN out
    ELSE FoldLeft(LAMBDA names, s : CollectLocals(s, names), out, block.statements)
CollectLocals(stmt, out) ==
    LET AddTo(names, name) == IF name \in ToSet(names) THEN names ELSE Append(names, name)
        AddAll(more) == FoldLeft(AddTo, out, more)
    IN CASE stmt.k = "set" -> AddAll(stmt.names)
         [] stmt.k = "expression" ->
               IF stmt.expression.k = "function" /\ stmt.expression.name # ""
               THEN AddTo(out, stmt.expression.name) ELSE out
         [] stmt.k = "for" -> CollectBlock(stmt.body, AddAll(stmt.variables))
         [] stmt.k \in {"repeat", "while"} -> CollectBlock(stmt.body, out)
         [] stmt.k = "try" ->
               LET body == CollectBlock(stmt.tryBlock, out)
                   name == IF stmt.catchName = "" THEN body ELSE AddTo(body, stmt.catchName)
               IN CollectBlock(stmt.finallyBlock, CollectBlock(stmt.catchBlock, name))
         [] stmt.k = "if" ->
               LET then == CollectBlock(stmt.consequence, out)
               IN IF IsNone(stmt.alternative) THEN then ELSE CollectLocals(stmt.alternative, then)
         [] stmt.k = "match" ->
               FoldLeft(LAMBDA names, case : CollectBlock(case.body, names), out, stmt.cases)
         [] stmt.k = "block" -> CollectBlock(stmt, out)
         [] OTHER -> out

-----------------------------------------------------------------------------
(* Expressions *)

RECURSIVE Compile(_, _)     \* a statement or an expression

CompileAll(c, expressions) == FoldLeft(LAMBDA d, e : Compile(d, e), c, expressions)
CompileOptional(c, expression) ==
    IF IsNone(expression) THEN Emit(c, <<"NIL">>) ELSE Compile(c, expression)
CompileBlock(c, block) == FoldLeft(LAMBDA d, s : Compile(d, s), c, block.statements)

IsImmediate(e) == e.k = "integer" /\ e.value <= ImmMax
Comparing == Comparisons \cup {"==", "!="}
Opposite(op) == CASE op = "<" -> ">=" [] op = ">" -> "<=" [] op = "<=" -> ">" [] op = ">=" -> "<"
                 [] op = "==" -> "!=" [] op = "!=" -> "=="

LocalSlotOf(c, e) == IF e.k = "identifier" THEN ResolveLocal(Ctx(c), e.name) ELSE 0

\* The jump that leaves when the condition is false (true when inverted) is the
\* last instruction emitted.
EmitCondJump(c, cond, invert) ==
    LET compares == cond.k = "infix" /\ cond.op \in Comparing
        op == IF invert THEN Opposite(cond.op) ELSE cond.op
        value == Compile(c, cond)
    IN CASE compares /\ IsImmediate(cond.right) ->
               Emit(Compile(c, cond.left), <<"CMP_I_JF", op, cond.right.value, 0>>)
         [] compares -> Emit(CompileAll(c, <<cond.left, cond.right>>), <<"CMP_JF", op, 0>>)
         [] OTHER -> Emit(IF invert THEN Emit(value, <<"NOT">>) ELSE value, <<"JUMP_IF_FALSE", 0>>)

\* The right operand runs only when the left one does not decide.
CompileShortCircuit(c, left, op, right) ==
    LET jump == Emit(Compile(c, left), <<op, 0>>)
    IN Patch(Compile(jump, right), Latest(jump))

CompileInfix(c, b) ==
    LET slot == LocalSlotOf(c, b.left)
        both == slot # 0 /\ LocalSlotOf(c, b.right) # 0
        operands == IF both THEN Emit(c, <<"LGET2", slot, LocalSlotOf(c, b.right)>>)
                    ELSE CompileAll(c, <<b.left, b.right>>)
    IN CASE b.op = "and" -> CompileShortCircuit(c, b.left, "AND_KEEP", b.right)
         [] b.op = "or" -> CompileShortCircuit(c, b.left, "OR_KEEP", b.right)
         [] b.op = "??" -> CompileShortCircuit(c, b.left, "COALESCE", b.right)
         [] IsImmediate(b.right) /\ b.op \in {"+", "-"} /\ slot # 0 ->
               Emit(c, <<"LGET_IMM", b.op, slot, b.right.value>>)
         [] IsImmediate(b.right) /\ b.op \in {"+", "-", "*", "%", "&", "|", "^"} ->
               Emit(Compile(c, b.left), <<"IMM", b.op, b.right.value>>)
         [] b.op = ".." -> Emit(operands, <<"RANGE_NEW">>)
         [] b.op = "is" -> Emit(operands, <<"IS_TYPE">>)
         [] OTHER -> Emit(operands, <<"BINARY", b.op>>)

\* Default values fill the parameters that have no argument.
CompileDefaults(c, defaults, base) ==
    FoldLeft(LAMBDA d, i :
                 IF IsNone(defaults[i]) THEN d
                 ELSE LET test == Emit(d, <<"ARG_DEFAULT", i + base, 0>>)
                          value == Compile(test, defaults[i])
                      IN Patch(Emit(value, <<"SET_LOCAL", i + base>>), Latest(test)),
             c, [i \in 1..Len(defaults) |-> i])

Enter(c, locals) == [c EXCEPT !.ctxs = Append(@, NewContext(locals, FALSE))]
\* The innermost function is complete: back in the one around it, its closure is made.
LeaveWith(c, params, required, variadic) ==
    LET done == Ctx(c)
        proto == [code |-> done.code, params |-> params, required |-> required,
                  variadic |-> variadic, locals |-> Len(done.locals), upvals |-> Len(done.upvals)]
    IN [c |-> [c EXCEPT !.ctxs = Front(@), !.protos = Append(@, proto)],
        closure |-> <<"CLOSURE", Len(c.protos) + 1, done.upvals>>]

CompileFunction(c, fn, asMethod) ==
    LET base == IF asMethod THEN 1 ELSE 0
        params == (IF asMethod THEN <<"this">> ELSE <<>>) \o fn.parameters
        names == SelectSeq(CollectBlock(fn.body, <<>>), LAMBDA n : n \notin ToSet(params))
        required == base + Len(SelectSeq(fn.defaults, IsNone))
        prologue == CompileDefaults(Enter(c, params \o names), fn.defaults, base)
        body == CompileBlock(prologue, fn.body)
        done == LeaveWith(Emit(Emit(body, <<"NIL">>), <<"RETURN">>),
                          Len(params), required, fn.variadic)
        made == Emit(done.c, done.closure)
    IN IF fn.name # "" /\ ~asMethod THEN DefineName(Emit(made, <<"DUP">>), fn.name) ELSE made

CompileCall(c, call) ==
    LET fn == call.function
        count == Len(call.arguments)
        receiver == Emit(Compile(c, fn.object), <<"MEMBER_GET_KEEP", fn.property>>)
    IN IF fn.k = "member" /\ ~fn.safe
       THEN Emit(CompileAll(receiver, call.arguments), <<"CALL_METHOD", count>>)
       ELSE Emit(CompileAll(Compile(c, fn), call.arguments), <<"CALL", count>>)

CompileConditional(c, e) ==
    LET test == EmitCondJump(c, e.condition, FALSE)
        then == Emit(Compile(test, e.thenExpr), <<"JUMP", 0>>)
    IN Patch(Compile(Patch(then, Latest(test)), e.elseExpr), Latest(then))

CompileExpression(c, e) ==
    CASE e.k = "integer" -> Emit(c, <<"CONST", Integer(e.value)>>)
      [] e.k = "float" -> Emit(c, <<"CONST", Float(e.value)>>)
      [] e.k = "string" -> Emit(c, <<"CONST", Str(e.value)>>)
      [] e.k = "boolean" -> Emit(c, <<"CONST", Bool(e.value)>>)
      [] e.k = "null" -> Emit(c, <<"NIL">>)
      [] e.k = "identifier" -> EmitNameGet(c, e.name)
      [] e.k = "interpolated" -> Emit(CompileAll(c, e.parts), <<"INTERP", Len(e.parts)>>)
      [] e.k = "list" -> Emit(CompileAll(c, e.elements), <<"LIST", Len(e.elements)>>)
      [] e.k = "tuple" -> Emit(CompileAll(c, e.elements), <<"TUPLE", Len(e.elements)>>)
      [] e.k = "map" -> Emit(CompileAll(c, FlattenSeq(e.pairs)), <<"MAP", Len(e.pairs)>>)
      [] e.k = "index" -> Emit(CompileAll(c, <<e.object, e.index>>), <<"INDEX_GET">>)
      [] e.k = "slice" ->
            LET from == CompileOptional(Compile(c, e.object), e.index)
            IN Emit(CompileOptional(from, e.indexEnd), <<"SLICE">>)
      [] e.k = "member" ->
            Emit(Compile(c, e.object),
                 <<IF e.safe THEN "MEMBER_GET_SAFE" ELSE "MEMBER_GET", e.property>>)
      [] e.k = "conditional" -> CompileConditional(c, e)
      [] e.k = "prefix" ->
            Emit(Compile(c, e.right),
                 <<CASE e.op = "-" -> "NEGATE" [] e.op = "not" -> "NOT" [] OTHER -> "BIT_NOT">>)
      [] e.k = "infix" -> CompileInfix(c, e)
      [] e.k = "function" -> CompileFunction(c, e, FALSE)
      [] e.k = "yield" -> Emit(CompileOptional(c, e.value), <<"YIELD">>)
      [] e.k = "call" -> CompileCall(c, e)

-----------------------------------------------------------------------------
(* Statements *)

PushLoop(c, start, payload) ==
    [c EXCEPT !.ctxs[Top(c)].loops =
        Append(@, [continueTarget |-> start, breaks |-> <<>>, payload |-> payload,
                   tryDepth |-> Len(Ctx(c).tries)])]
\* The breaks of the loop come here.
PopLoop(c) ==
    LET done == PatchAll(c, Last(Ctx(c).loops).breaks)
    IN [done EXCEPT !.ctxs[Top(c)].loops = Front(@)]
InLoop(c) == Ctx(c).loops # <<>>
Loop(c) == Last(Ctx(c).loops)

PushTry(c, finallyBlock) ==
    [c EXCEPT !.ctxs[Top(c)].tries = Append(@, [finallyBlock |-> finallyBlock, live |-> TRUE])]
PopTry(c) == [c EXCEPT !.ctxs[Top(c)].tries = Front(@)]

\* An early exit leaves the tries above downTo, innermost first: it removes the
\* handler of each and runs its finally, with that try and the inner ones hidden.
\* mutant: the handler of a try that an early exit leaves stays behind.
LeaveTriesArmed(c, downTo) ==
    FoldLeft(LAMBDA d, i : LET scope == Ctx(c).tries[Len(Ctx(c).tries) + 1 - i]
                               hidden == PopTry(d)
                           IN IF IsNone(scope.finallyBlock) THEN hidden
                              ELSE CompileBlock(hidden, scope.finallyBlock),
             c, [i \in 1..(Len(Ctx(c).tries) - downTo) |-> i])
LeaveTries(c, downTo) ==
    FoldLeft(LAMBDA d, i : LET scope == Ctx(c).tries[Len(Ctx(c).tries) + 1 - i]
                               hidden == PopTry(d)
                               popped == IF scope.live THEN Emit(hidden, <<"TRY_POP">>) ELSE hidden
                           IN IF IsNone(scope.finallyBlock) THEN popped
                              ELSE CompileBlock(popped, scope.finallyBlock),
             c, [i \in 1..(Len(Ctx(c).tries) - downTo) |-> i])
\* The code of the exit is emitted, the tries go on for the code after it.
EmitFinallyUnwind(c, downTo) ==
    [LeaveTries(c, downTo) EXCEPT !.ctxs[Top(c)].tries = Ctx(c).tries]

CompileBreak(c) ==
    LET left == EmitFinallyUnwind(c, Loop(c).tryDepth)
        popped == IF Loop(c).payload = 1 THEN Emit(left, <<"POP">>) ELSE left
        jump == Emit(popped, <<"JUMP", 0>>)
        loop == Len(Ctx(c).loops)
    IN [jump EXCEPT !.ctxs[Top(c)].loops[loop].breaks = Append(@, Latest(jump))]

CompileReturn(c, value) ==
    Emit(EmitFinallyUnwind(CompileOptional(c, value), 0), <<"RETURN">>)

CompileIf(c, s) ==
    LET test == EmitCondJump(c, s.condition, FALSE)
        then == CompileBlock(test, s.consequence)
        jump == Emit(then, <<"JUMP", 0>>)
    IN IF IsNone(s.alternative) THEN Patch(then, Latest(test))
       ELSE Patch(Compile(Patch(jump, Latest(test)), s.alternative), Latest(jump))

CompileWhile(c, s) ==
    LET start == Here(c)
        test == EmitCondJump(PushLoop(c, start, 0), s.condition, s.untilForm)
        back == Emit(CompileBlock(test, s.body), <<"LOOP", start>>)
    IN PopLoop(Patch(back, Latest(test)))

\* mutant: the counter of a repeat goes back as it was.
CountAgain(c) == c
CountDown(c) == Emit(Emit(c, <<"CONST", Integer(1)>>), <<"BINARY", "-">>)
\* A counter that no name of the program can be, a local or a global.
CompileRepeat(c, s) ==
    LET value == Compile(c, s.count)
        hidden == "hidden " \o ToString(value.hidden)
        slot == Len(Ctx(c).locals) + 1
        count == [value EXCEPT !.hidden = @ + 1]
        named == IF Ctx(c).script THEN Registered(count, hidden)
                 ELSE [count EXCEPT !.ctxs[Top(c)].locals = Append(@, hidden)]
        Stored(d) == Emit(d, IF Ctx(c).script THEN <<"DEFINE_GLOBAL", hidden>> ELSE <<"SET_LOCAL", slot>>)
        Loaded(d) == Emit(d, IF Ctx(c).script THEN <<"GET_GLOBAL", hidden>> ELSE <<"GET_LOCAL", slot>>)
        first == Stored(named)
        test == Emit(Emit(Loaded(PushLoop(first, Here(first), 0)), <<"CONST", Integer(0)>>),
                     <<"CMP_JF", ">", 0>>)
        body == CompileBlock(test, s.body)
        back == Emit(Stored(CountDown(Loaded(body))), <<"LOOP", Here(first)>>)
    IN PopLoop(Patch(back, Latest(test)))

DeclareLocal(c, name) ==
    IF ResolveLocal(Ctx(c), name) # 0 THEN c
    ELSE [c EXCEPT !.ctxs[Top(c)].locals = Append(@, name)]

CompileFor(c, s) ==
    LET setup == Emit(Compile(c, s.iterable), <<"FOR_SETUP">>)
        named == FoldLeft(DeclareLocal, setup, s.variables)
        slots == [i \in 1..Len(s.variables) |-> ResolveLocal(Ctx(named), s.variables[i])]
        next == Emit(PushLoop(named, Here(named), 1), <<"FOR_NEXT", slots, 0>>)
        body == CompileBlock(next, s.body)
        back == Emit(Emit(body, <<"CLOSE_UPVALUE", slots[1]>>), <<"LOOP", Here(named)>>)
    IN PopLoop(Emit(Patch(back, Latest(next)), <<"POP">>))

\* One pattern after the other against the subject, which stays on the stack
\* until a body runs; the jumps are those of the patterns that match.
CompilePatterns(c, patterns) ==
    FoldLeft(LAMBDA r, i :
                 LET equal == Emit(Compile(Emit(r.c, <<"DUP">>), patterns[i]), <<"BINARY", "==">>)
                     test == Emit(equal, <<"JUMP_IF_FALSE", 0>>)
                     jump == Emit(test, <<"JUMP", 0>>)
                 IN IF i = Len(patterns) THEN [c |-> PatchAll(test, r.jumps), jumps |-> <<Latest(test)>>]
                    ELSE [c |-> Patch(jump, Latest(test)), jumps |-> Append(r.jumps, Latest(jump))],
             [c |-> c, jumps |-> <<>>], [i \in 1..Len(patterns) |-> i])

CompileMatch(c, s) ==
    LET Case(r, case) ==
            LET tested == CompilePatterns(r.c, case.patterns)
                body == CompileBlock(Emit(tested.c, <<"POP">>), case.body)
                out == Emit(body, <<"JUMP", 0>>)
            IN [c |-> PatchAll(out, tested.jumps), ends |-> Append(r.ends, Latest(out))]
        all == FoldLeft(Case, [c |-> Compile(c, s.subject), ends |-> <<>>], s.cases)
    IN PatchAll(Emit(all.c, <<"POP">>), all.ends)

CompileSet(c, s) ==
    LET n == Len(s.names)
        values == CompileAll(c, s.values)
        ready == IF Len(s.values) < n THEN Emit(values, <<"UNPACK", n>>) ELSE values
        Bind(d, name) == IF s.isConst THEN MarkConst(DefineName(d, name), name) ELSE DefineName(d, name)
    IN FoldLeft(Bind, ready, Reverse(s.names))

\* The handler covers the try block; the finally of an early exit covers the
\* catch block too.
CompileTry(c, t) ==
    LET push == Emit(c, <<"TRY_PUSH", 0>>)
        body == CompileBlock(PushTry(push, t.finallyBlock), t.tryBlock)
        caught == [body EXCEPT !.ctxs[Top(c)].tries[Len(Ctx(body).tries)].live = FALSE]
        end == Emit(Emit(caught, <<"TRY_POP">>), <<"JUMP", 0>>)
        bound == DefineName(Patch(end, Latest(push)), t.catchName)
        handler == Patch(PopTry(CompileBlock(bound, t.catchBlock)), Latest(end))
        normal == CompileBlock(Emit(PopTry(body), <<"TRY_POP">>), t.finallyBlock)
        over == Emit(normal, <<"JUMP", 0>>)
        thrown == Emit(CompileBlock(Patch(over, Latest(push)), t.finallyBlock), <<"THROW">>)
    IN IF IsNone(t.catchBlock) THEN Patch(thrown, Latest(over))
       ELSE IF IsNone(t.finallyBlock) THEN handler
       ELSE CompileBlock(handler, t.finallyBlock)

CompileEnum(c, e) ==
    LET pairs == FoldLeft(LAMBDA d, i : Emit(Emit(d, <<"CONST", Str(e.members[i])>>),
                                             <<"CONST", Integer(i - 1)>>),
                          c, [i \in 1..Len(e.members) |-> i])
    IN MarkConst(DefineName(Emit(pairs, <<"MAP", Len(e.members)>>), e.name), e.name)

\* The factory takes the fields as parameters; the methods are compiled where
\* the struct is declared.
CompileStruct(c, s) ==
    LET n == Len(s.fields)
        prologue == CompileDefaults(Enter(c, s.fields), s.fieldDefaults, 0)
        factory == LeaveWith(Emit(Emit(prologue, <<"STRUCT_MAKE", n>>), <<"RETURN">>),
                             n, Len(SelectSeq(s.fieldDefaults, IsNone)), FALSE)
        methods == FoldLeft(LAMBDA d, m : CompileFunction(d, m, TRUE), factory.c, s.methods)
        shape == Emit(methods, <<"STRUCT_SHAPE", s.name, s.fields,
                                 [i \in 1..Len(s.methods) |-> s.methods[i].name]>>)
    IN MarkConst(DefineName(Emit(Emit(shape, factory.closure), <<"STRUCT_BIND">>), s.name), s.name)

-----------------------------------------------------------------------------
(* Assignment *)

\* The operator of a compound assignment; "" for a plain one.
BinOp(op) == IF op = "=" THEN "" ELSE SubSeq(op, 1, Len(op) - 1)
\* There is no opcode for ??: nothing is emitted for it.
EmitCompound(c, op) == IF op = "??" THEN c ELSE Emit(c, <<"BINARY", op>>)

CompileNameAssign(c, name, op, value) ==
    LET old == EmitNameGet(c, name)
        appends == /\ op = "" /\ value.k = "infix"
                   /\ value.op = "+" /\ value.left = Identifier(name)
        new == CASE op = "??" ->
                      LET jump == Emit(old, <<"COALESCE", 0>>)
                      IN Patch(Compile(jump, value), Latest(jump))
                 [] op = "+" -> Emit(Compile(old, value), <<"ADD_INPLACE">>)
                 [] appends -> Emit(Compile(old, value.right), <<"ADD_INPLACE">>)
                 [] op = "" -> Compile(c, value)
                 [] OTHER -> EmitCompound(Compile(old, value), op)
    IN EmitNameSet(new, name)

CompileAssign(c, s) ==
    LET op == BinOp(s.op)
        target == s.target
        Assigned(place, get, set) ==
            IF op = "" THEN Emit(Compile(place, s.value), set)
            ELSE Emit(EmitCompound(Compile(Emit(place, get), s.value), op), set)
    IN CASE target.k = "identifier" ->
               IF target.name \in c.consts THEN RuntimeError(c, "cannot assign to constant")
               ELSE CompileNameAssign(c, target.name, op, s.value)
         [] target.k \in {"index", "slice"} ->
               Assigned(CompileAll(c, <<target.object, target.index>>), <<"INDEX_GET_KEEP">>, <<"INDEX_SET">>)
         [] target.k = "member" ->
               Assigned(Compile(c, target.object),
                        <<"MEMBER_GET_KEEP", target.property>>, <<"MEMBER_SET", target.property>>)

\* The names the statement binds: those it lists, the alias, or the module's.
Stem(path) ==
    LET LastOf(c) == Max({0} \cup {i \in 1..Len(path) : At(path, i) = c})
        name == LastOf("/") + 1
    IN SubSeq(path, name, IF LastOf(".") > name THEN LastOf(".") - 1 ELSE Len(path))
BoundNames(s) == CASE s.names # <<>> -> s.names
                   [] s.alias # "" -> <<s.alias>>
                   [] s.isFile -> <<Stem(s.target)>>
                   [] OTHER -> <<s.target>>
CompileUse(c, s) == Emit(FoldLeft(Registered, c, BoundNames(s)), <<"USE", s>>)

CompileStatement(c, s) ==
    CASE s.k = "set" -> CompileSet(c, s)
      [] s.k = "pass" -> c
      [] s.k = "throw" -> Emit(Compile(c, s.value), <<"THROW">>)
      [] s.k = "try" -> CompileTry(c, s)
      [] s.k = "repeat" -> CompileRepeat(c, s)
      [] s.k = "enum" -> CompileEnum(c, s)
      [] s.k = "struct" -> CompileStruct(c, s)
      [] s.k = "assign" -> CompileAssign(c, s)
      [] s.k = "say" -> Emit(CompileAll(c, s.values), <<"SAY", Len(s.values)>>)
      [] s.k = "if" -> CompileIf(c, s)
      [] s.k = "block" -> CompileBlock(c, s)
      [] s.k = "match" -> CompileMatch(c, s)
      [] s.k = "while" -> CompileWhile(c, s)
      [] s.k = "for" -> CompileFor(c, s)
      [] s.k = "break" -> IF InLoop(c) THEN CompileBreak(c)
                          ELSE RuntimeError(c, "'break' cannot be used outside a loop")
      [] s.k = "continue" -> IF InLoop(c) THEN Emit(EmitFinallyUnwind(c, Loop(c).tryDepth),
                                                    <<"LOOP", Loop(c).continueTarget>>)
                             ELSE RuntimeError(c, "'continue' cannot be used outside a loop")
      [] s.k = "return" -> IF Ctx(c).script
                           THEN RuntimeError(c, "'return' cannot be used outside a function")
                           ELSE CompileReturn(c, s.returnValue)
      [] s.k = "use" -> CompileUse(c, s)
      [] s.k = "expression" -> Emit(Compile(c, s.expression), <<"POP">>)

StatementKinds == {"set", "pass", "throw", "try", "repeat", "enum", "struct", "assign", "say", "if", "block",
                   "match", "while", "for", "break", "continue", "return", "use", "expression"}
\* There is always a context.  That c is looked at here, first, keeps TLC from
\* evaluating the code in front of a node inside that of the node.
Compile(c, node) ==
    CASE c.ctxs = <<>> -> c
      [] node.k \in StatementKinds -> CompileStatement(c, node)
      [] OTHER -> CompileExpression(c, node)

\* A program is compiled one statement after the other: its functions are added
\* to those compiled before, its script last, and the names of its globals to
\* those it starts with.
StartProgram(protos, globals) ==
    [ctxs |-> <<NewContext(<<>>, TRUE)>>, protos |-> protos, consts |-> {}, hidden |-> 0, globals |-> globals]
EndProgram(c) ==
    LET done == LeaveWith(Emit(c, <<"HALT">>), 0, 0, FALSE).c
    IN [protos |-> done.protos, globals |-> done.globals]
=============================================================================
