------------------------------- MODULE Meaning -------------------------------
(***************************************************************************)
(* What a program means, read off its syntax tree: the reference that the   *)
(* compiled program is compared with.  There is no code, no stack and no    *)
(* frame here.  A name denotes a location; a call and every round of a for  *)
(* loop bring new locations, which is what a closure keeps.  A statement     *)
(* ends with a value, or in break, continue, return or throw.               *)
(*                                                                         *)
(* st is the state of the world: the heap, the contents of the locations,   *)
(* the globals of each file, the modules that are loaded and the files that *)
(* are being loaded, and the output.  env is what a statement sees: its     *)
(* file, the locations of its names, the depth of calls, and whether it is  *)
(* outside all functions and in a loop.                                    *)
(***************************************************************************)
EXTENDS Syntax, Base
LOCAL INSTANCE Integers
LOCAL INSTANCE Sequences
LOCAL INSTANCE SequencesExt
LOCAL INSTANCE FiniteSetsExt
LOCAL INSTANCE TLC

CONSTANT DeepestCall

Ok(st, v) == [st |-> st, kind |-> "value", v |-> v]
Exit(st, kind, v) == [st |-> st, kind |-> kind, v |-> v]
\* What a catch gets of an error: the value thrown, or the message.
Thrown(st, err) == Exit(st, "throw", IF err[3] = Nil THEN Str(err[2]) ELSE err[3])
Wrong(st, message) == Thrown(st, Err(message))
Then(r, F(_, _)) == IF r.kind = "value" THEN F(r.st, r.v) ELSE r
\* A result of the operations on values.
Of(st, r) == IF IsErr(r.value) THEN Thrown([st EXCEPT !.heap = r.heap], r.value)
             ELSE Ok([st EXCEPT !.heap = r.heap], r.value)
Make(st, object) == Of(st, New(st.heap, object))

-----------------------------------------------------------------------------
(* Names *)

\* The names the statements of a block bind, nested functions aside.
RECURSIVE Bound(_)
BoundIn(block) == IF IsNone(block) THEN {} ELSE UNION {Bound(s) : s \in ToSet(block.statements)}
Bound(s) ==
    CASE s.k = "set" -> ToSet(s.names)
      [] s.k = "for" -> ToSet(s.variables) \cup BoundIn(s.body)
      [] s.k \in {"while", "repeat"} -> BoundIn(s.body)
      [] s.k = "if" -> BoundIn(s.consequence) \cup (IF IsNone(s.alternative) THEN {} ELSE Bound(s.alternative))
      [] s.k = "match" -> UNION {BoundIn(case.body) : case \in ToSet(s.cases)}
      [] s.k = "try" -> (BoundIn(s.tryBlock) \cup BoundIn(s.catchBlock) \cup BoundIn(s.finallyBlock)
                            \cup {s.catchName}) \ {""}
      [] s.k = "block" -> BoundIn(s)
      [] s.k = "expression" -> IF s.expression.k = "function" THEN {s.expression.name} \ {""} ELSE {}
      [] OTHER -> {}

\* The names get new locations with these contents.
Allocate(st, env, names, contents) ==
    [st |-> [st EXCEPT !.vars = @ \o contents],
     env |-> [env EXCEPT !.names = [n \in ToSet(names) |->
                                       Len(st.vars) + SelectLastInSeq(names, LAMBDA m : m = n)] @@ @]]

IsKnown(st, env, name) == name \in DOMAIN env.names \/ name \in DOMAIN st.globals[env.file]
Fetch(st, env, name) ==
    IF name \in DOMAIN env.names THEN st.vars[env.names[name]] ELSE st.globals[env.file][name]
Keep(st, env, name, v) ==
    IF name \in DOMAIN env.names THEN [st EXCEPT !.vars[env.names[name]] = v]
    ELSE [st EXCEPT !.globals[env.file] = (name :> v) @@ @]

-----------------------------------------------------------------------------
(* Expressions *)

RECURSIVE Does(_, _, _),    \* a statement or an expression
          Applied(_, _, _, _), Rounds(_, _, _, _, _, _), Repeats(_, _, _, _)
Value(e, env, st) == Does(e, env, st)

\* From left to right.
Values(es, env, st) ==
    FoldLeft(LAMBDA r, e : Then(r, LAMBDA s, vs : Then(Value(e, env, s), LAMBDA t, v : Ok(t, Append(vs, v)))),
             Ok(st, <<>>), es)
Optional(e, env, st) == IF IsNone(e) THEN Ok(st, Nil) ELSE Value(e, env, st)

Operate(st, op, a, b) ==
    CASE op = ".." -> IF IsInt(a) /\ IsInt(b) THEN Make(st, RangeObject(a[2], b[2], 1))
                      ELSE Wrong(st, "range operator '..' expects two integers")
      [] op = "is" -> IF Has(b, {"string"}) THEN Ok(st, Bool(TypeName(a) = b[2]))
                      ELSE Wrong(st, "'is' expects a type name string on the right")
      [] OTHER -> Of(st, Infix(st.heap, op, a, b))

Decides(op, st, v) == CASE op = "and" -> ~Truthy(st.heap, v)
                        [] op = "or" -> Truthy(st.heap, v)
                        [] op = "??" -> v # Nil

MapOf(st, parts) ==
    LET pairs == [i \in 1..(Len(parts) \div 2) |-> <<parts[2 * i - 1], parts[2 * i]>>]
    IN IF \E i \in DOMAIN pairs : ~IsValidMapKey(pairs[i][1])
       THEN Wrong(st, "map keys must be string, int or bool")
       ELSE Make(st, MapObject(PutAll(<<>>, pairs)))

\* A method gets the object it is called on, a function in a module does not.
TakesReceiver(st, v) ==
    \/ Has(v, {"struct"})
    \/ Has(v, {"map"}) /\ Position(Entries(st.heap, v), Str("__type__")) # 0

FunctionObject(node, env, method) ==
    [type |-> "fn", node |-> node, env |-> env, method |-> method, shape |-> Nil]

\* The function that is called, and the object it is found in.
Callee(f, env, st) ==
    LET Called(s, fn, this) == Ok(s, [fn |-> fn, this |-> this])
    IN IF f.k # "member" THEN Then(Value(f, env, st), LAMBDA s, v : Called(s, v, Nil))
       ELSE Then(Value(f.object, env, st), LAMBDA s, object :
                 IF f.safe /\ object = Nil THEN Called(s, Nil, Nil)
                 ELSE Then(Of(s, Plain(s.heap, Member(s.heap, object, f.property))), LAMBDA t, v :
                           Called(t, v, IF f.safe THEN Nil ELSE object)))

ValueOf(e, env, st) ==
    CASE e.k = "integer" -> Ok(st, Integer(e.value))
      [] e.k = "float" -> Ok(st, Float(e.value))
      [] e.k = "string" -> Ok(st, Str(e.value))
      [] e.k = "boolean" -> Ok(st, Bool(e.value))
      [] e.k = "null" -> Ok(st, Nil)
      [] e.k = "identifier" -> IF IsKnown(st, env, e.name) THEN Ok(st, Fetch(st, env, e.name))
                               ELSE Wrong(st, "undefined variable")
      [] e.k = "interpolated" ->
            Then(Values(e.parts, env, st),
                 LAMBDA s, vs : Ok(s, Str(Join([i \in 1..Len(vs) |-> Inspect(s.heap, vs[i])], ""))))
      [] e.k = "list" -> Then(Values(e.elements, env, st), LAMBDA s, vs : Make(s, ListObject(vs)))
      [] e.k = "tuple" -> Then(Values(e.elements, env, st), LAMBDA s, vs : Make(s, TupleObject(vs)))
      [] e.k = "map" -> Then(Values(FlattenSeq(e.pairs), env, st), MapOf)
      [] e.k = "index" ->
            Then(Values(<<e.object, e.index>>, env, st),
                 LAMBDA s, vs : Of(s, Plain(s.heap, Index(s.heap, vs[1], vs[2]))))
      [] e.k = "slice" ->
            Then(Value(e.object, env, st), LAMBDA s, v :
                 Then(Optional(e.index, env, s), LAMBDA t, from :
                      Then(Optional(e.indexEnd, env, t), LAMBDA u, to : Of(u, Slice(u.heap, v, from, to)))))
      [] e.k = "member" ->
            Then(Value(e.object, env, st), LAMBDA s, v :
                 IF e.safe /\ v = Nil THEN Ok(s, Nil)
                 ELSE Of(s, Plain(s.heap, Member(s.heap, v, e.property))))
      [] e.k = "conditional" ->
            Then(Value(e.condition, env, st), LAMBDA s, v :
                 IF Truthy(s.heap, v) THEN Value(e.thenExpr, env, s) ELSE Value(e.elseExpr, env, s))
      [] e.k = "prefix" ->
            Then(Value(e.right, env, st), LAMBDA s, v :
                 Of(s, Plain(s.heap, CASE e.op = "not" -> Bool(~Truthy(s.heap, v))
                                       [] e.op = "-" -> Negate(v)
                                       [] e.op = "~" -> BitNot(v))))
      [] e.k = "infix" /\ e.op \in {"and", "or", "??"} ->
            Then(Value(e.left, env, st), LAMBDA s, v :
                 IF Decides(e.op, s, v) THEN Ok(s, v) ELSE Value(e.right, env, s))
      [] e.k = "infix" -> Then(Values(<<e.left, e.right>>, env, st), LAMBDA s, vs : Operate(s, e.op, vs[1], vs[2]))
      [] e.k = "function" ->
            Then(Make(st, FunctionObject(e, env, FALSE)), LAMBDA s, v :
                 Ok(IF e.name = "" THEN s ELSE Keep(s, env, e.name, v), v))
      [] e.k = "call" ->
            Then(Callee(e.function, env, st), LAMBDA s, callee :
                 Then(Values(e.arguments, env, s), LAMBDA t, args :
                      Applied(t, callee.fn, IF TakesReceiver(t, callee.this) THEN <<callee.this>> \o args ELSE args,
                              env.depth)))
      [] e.k = "yield" -> Then(Optional(e.value, env, st), LAMBDA s, v : Wrong(s, "yield used outside a coroutine"))

-----------------------------------------------------------------------------
(* Calls *)

\* A struct is made by a function of its fields.
ParametersOf(o) == CASE o.node.k = "struct" -> o.node.fields
                     [] o.method -> <<"this">> \o o.node.parameters
                     [] OTHER -> o.node.parameters
DefaultsOf(o) == CASE o.node.k = "struct" -> o.node.fieldDefaults
                   [] o.method -> <<None>> \o o.node.defaults
                   [] OTHER -> o.node.defaults

Fits(o, n) ==
    LET params == Len(ParametersOf(o))
    IN IF o.node.k = "function" /\ o.node.variadic THEN n >= params - 1
       ELSE n >= Len(SelectSeq(DefaultsOf(o), IsNone)) /\ n <= params

\* The arguments that were not given, in order; each sees those before it.
Defaults(o, n, env, st) ==
    FoldLeft(LAMBDA r, i :
                 IF i <= n \/ IsNone(DefaultsOf(o)[i]) THEN r
                 ELSE Then(r, LAMBDA s, v : Then(Value(DefaultsOf(o)[i], env, s), LAMBDA t, w :
                               Ok(Keep(t, env, ParametersOf(o)[i], w), Nil))),
             Ok(st, Nil), [i \in 1..Len(ParametersOf(o)) |-> i])

Entered(st, o, args, depth) ==
    LET names == ParametersOf(o)
        variadic == o.node.k = "function" /\ o.node.variadic
        rest == New(st.heap, ListObject(SubSeq(args, Len(names), Len(args))))
        given == IF variadic THEN Append(SubSeq(args, 1, Len(names) - 1), rest.value) ELSE args
        locals == SetToSeq((IF o.node.k = "struct" THEN {} ELSE BoundIn(o.node.body)) \ ToSet(names))
        all == names \o locals
        room == Allocate(IF variadic THEN [st EXCEPT !.heap = rest.heap] ELSE st,
                         [o.env EXCEPT !.depth = depth + 1, !.outside = FALSE, !.loop = FALSE],
                         all, [i \in 1..Len(all) |-> IF i <= Len(given) THEN given[i] ELSE Nil])
        ready == Defaults(o, Len(given), room.env, room.st)
    IN Then(ready, LAMBDA s, v :
            IF o.node.k = "struct"
            THEN Make(s, [type |-> "struct", shape |-> o.shape[2],
                          slots |-> [i \in 1..Len(names) |-> Fetch(s, room.env, names[i])]])
            ELSE LET r == Does(o.node.body, room.env, s)
                 IN CASE r.kind = "value" -> Ok(r.st, Nil)
                      [] r.kind = "return" -> Ok(r.st, r.v)
                      [] OTHER -> r)

\* The results of a function for one item after the other.
Each(st, fn, items, depth) ==
    FoldLeft(LAMBDA r, item : Then(r, LAMBDA s, vs :
                 Then(Applied(s, fn, <<item>>, depth), LAMBDA t, v : Ok(t, Append(vs, v)))),
             Ok(st, <<>>), items)
First(keys, Good(_)) == CHOOSE i \in DOMAIN keys : Good(i) /\ \A j \in 1..(i - 1) : ~Good(j)
InOrder(keys) ==
    LET Before(i, j) == keys[i][2] < keys[j][2] \/ (keys[i][2] = keys[j][2] /\ i < j)
    IN SetToSortSeq(DOMAIN keys, Before)
Grouped(st, keys, items) ==
    LET firsts == SelectSeq([i \in 1..Len(keys) |-> i], LAMBDA i : \A j \in 1..(i - 1) : keys[j] # keys[i])
        Group(i) == LET members == SelectSeq([j \in 1..Len(keys) |-> j], LAMBDA j : keys[j] = keys[i])
                    IN ListObject([m \in 1..Len(members) |-> items[members[m]]])
    IN Make([st EXCEPT !.heap = @ \o [g \in 1..Len(firsts) |-> Group(firsts[g])]],
            MapObject([g \in 1..Len(firsts) |-> <<keys[firsts[g]], <<"list", Len(st.heap) + g>>>>]))

CallsBack(st, name, args, depth) ==
    LET items == Elems(st.heap, args[1])
        Pick(vs, chosen) == [i \in 1..Len(chosen) |-> items[chosen[i]]]
        Finish(s, vs) ==
            LET all == [i \in 1..Len(vs) |-> i]
            IN CASE name = "group_by" /\ \E i \in DOMAIN vs : ~IsValidMapKey(vs[i]) -> Wrong(s, "argument")
                 [] name = "each" -> Ok(s, Nil)
                 [] name = "transform" -> Make(s, ListObject(vs))
                 [] name = "filter" ->
                       Make(s, ListObject(Pick(vs, SelectSeq(all, LAMBDA i : Truthy(s.heap, vs[i])))))
                 [] name = "sort_by" ->
                       Ok([s EXCEPT !.heap[args[1][2]].elems = Pick(vs, InOrder(vs))], args[1])
                 [] name = "min_by" -> Ok(s, items[First(vs, LAMBDA i : \A j \in DOMAIN vs : vs[i][2] <= vs[j][2])])
                 [] name = "max_by" -> Ok(s, items[First(vs, LAMBDA i : \A j \in DOMAIN vs : vs[i][2] >= vs[j][2])])
                 [] name = "group_by" -> Grouped(s, vs, items)
        Reduced(first, from) ==
            FoldLeft(LAMBDA r, item : Then(r, LAMBDA s, v : Applied(s, args[2], <<v, item>>, depth)),
                     Ok(st, first), SubSeq(items, from, Len(items)))
    IN CASE ~Has(args[1], {"list"}) -> Wrong(st, "argument")
         [] name = "reduce" /\ Len(args) = 3 -> Reduced(args[3], 1)
         [] name = "reduce" -> Reduced(items[1], 2)
         [] OTHER -> Then(Each(st, args[2], items, depth), Finish)

Applied(st, fn, args, depth) ==
    CASE Has(fn, {"builtin"}) -> IF fn[2] \in Callers THEN CallsBack(st, fn[2], args, depth)
                                 ELSE Of(st, Apply(st.heap, fn[2], args))
      [] ~Has(fn, {"fn"}) -> Wrong(st, "not a function, cannot be called")
      [] ~Fits(Object(st.heap, fn), Len(args)) -> Wrong(st, "wrong number of parameters")
      [] depth >= DeepestCall -> Wrong(st, "maximum call depth exceeded")
      [] OTHER -> Entered(st, Object(st.heap, fn), args, depth)

-----------------------------------------------------------------------------
(* Statements *)

\* The first statement that leaves the block ends it.
Block(statements, env, st) ==
    FoldLeft(LAMBDA r, s : Then(r, LAMBDA t, v : Does(s, env, t)), Ok(st, Nil), statements)

KeepAll(st, env, names, vs) ==
    FoldLeft(LAMBDA s, i : Keep(s, env, names[i], vs[i]), st, [i \in 1..Len(names) |-> i])
Set(s, env, st) ==
    LET Bind(t, vs) ==
            LET parts == Elems(t.heap, vs[1])
            IN CASE Len(vs) = Len(s.names) -> Ok(KeepAll(t, env, s.names, vs), Nil)
                 [] ~Has(vs[1], {"list", "tuple"}) -> Wrong(t, "unpacking assignment expects a list or tuple")
                 [] Len(parts) # Len(s.names) -> Wrong(t, "unpacking mismatch")
                 [] OTHER -> Ok(KeepAll(t, env, s.names, parts), Nil)
        Mark(t, v) == Ok(IF s.isConst THEN [t EXCEPT !.consts = @ \cup ToSet(s.names)] ELSE t, v)
    IN Then(Then(Values(s.values, env, st), Bind), Mark)

Assign(s, env, st) ==
    LET target == s.target
        op == IF s.op = "=" THEN "" ELSE SubSeq(s.op, 1, Len(s.op) - 1)
        \* The value that is stored, given the one that is there.
        New1(t, old) ==
            IF op = "??" /\ old # Nil THEN Ok(t, old)
            ELSE Then(Value(s.value, env, t), LAMBDA u, v :
                      IF op \in {"", "??"} THEN Ok(u, v) ELSE Operate(u, op, old, v))
        Old(t, r) == IF op = "" THEN Ok(t, Nil) ELSE Of(t, Plain(t.heap, r))
    IN CASE target.k = "identifier" /\ target.name \in st.consts -> Wrong(st, "cannot assign to constant")
         [] target.k = "identifier" ->
               Then(Then(IF op = "" THEN Ok(st, Nil) ELSE Value(target, env, st), New1),
                    LAMBDA t, v : IF IsKnown(t, env, target.name) THEN Ok(Keep(t, env, target.name, v), Nil)
                                  ELSE Wrong(t, "undefined variable"))
         [] target.k = "index" ->
               Then(Values(<<target.object, target.index>>, env, st), LAMBDA t, place :
                    Then(Then(Old(t, Index(t.heap, place[1], place[2])), New1), LAMBDA u, v :
                         Of(u, SetIndex(u.heap, place[1], place[2], v))))
         [] target.k = "member" ->
               Then(Value(target.object, env, st), LAMBDA t, object :
                    Then(Then(Old(t, Member(t.heap, object, target.property)), New1), LAMBDA u, v :
                         Of(u, SetMember(u.heap, object, target.property, v))))

\* finally runs however the try or its catch ends, and then that end stands,
\* unless finally ends in an exit of its own.
Finally(block, env, r) ==
    IF IsNone(block) THEN r
    ELSE Then(Does(block, env, r.st), LAMBDA s, v : [r EXCEPT !.st = s])
Try(s, env, st) ==
    LET body == Does(s.tryBlock, env, st)
    IN Finally(s.finallyBlock, env,
               IF body.kind = "throw" /\ ~IsNone(s.catchBlock)
               THEN Does(s.catchBlock, env, Keep(body.st, env, s.catchName, body.v)) ELSE body)

\* The round of a loop is over; break ends the loop.
Again(r, More(_)) ==
    CASE r.kind \in {"value", "continue"} -> More(r.st)
      [] r.kind = "break" -> Ok(r.st, Nil)
      [] OTHER -> r

\* What a loop gets from a value: a list is looked at as the loop goes on, a
\* map by the keys it had at the beginning.
Count(st, v, keys) ==
    CASE Has(v, {"range"}) ->
            LET r == Object(st.heap, v)
            IN Cardinality({x \in r.from..(r.to - 1) \cup (r.to + 1)..r.from : (x - r.from) % Magnitude(r.step) = 0})
      [] Has(v, {"string"}) -> Len(v[2])
      [] Has(v, {"list", "tuple"}) -> Len(Elems(st.heap, v))
      [] OTHER -> Len(keys)
Items(st, v, keys, i, n) ==
    LET key == CASE Has(v, {"range"}) -> Integer(Object(st.heap, v).from + i * Object(st.heap, v).step)
                 [] Has(v, {"map", "set"}) -> keys[i + 1]
                 [] OTHER -> Integer(i)
        item == CASE Has(v, {"range"}) -> key
                  [] Has(v, {"string"}) -> Str(SubSeq(v[2], i + 1, i + 1))
                  [] Has(v, {"list", "tuple"}) -> Elems(st.heap, v)[i + 1]
                  [] OTHER -> LET found == Lookup(Entries(st.heap, v), key)
                              IN IF found = <<"absent">> THEN Nil ELSE found
    IN IF n = 2 THEN <<key, item>> ELSE IF Has(v, {"map", "set"}) THEN <<key>> ELSE <<item>>

\* Every round has variables of its own, which begin with what those of the
\* round before ended with.
Rounds(s, env, st, v, keys, i) ==
    LET fresh == SetToSeq(ToSet(s.variables) \cup (IF env.outside THEN {} ELSE BoundIn(s.body)))
        before == [k \in 1..Len(fresh) |-> IF fresh[k] \in DOMAIN env.names
                                           THEN Fetch(st, env, fresh[k]) ELSE Nil]
        room == Allocate(st, [env EXCEPT !.loop = TRUE], fresh, before)
        r == Does(s.body, room.env, KeepAll(room.st, room.env, s.variables, Items(st, v, keys, i, Len(s.variables))))
        After(t) == FoldLeft(LAMBDA u, k : IF fresh[k] \in DOMAIN env.names
                                           THEN Keep(u, env, fresh[k], Fetch(u, room.env, fresh[k])) ELSE u,
                             t, [k \in 1..Len(fresh) |-> k])
    IN IF i >= Count(st, v, keys) THEN Ok(st, Nil)
       ELSE Again([r EXCEPT !.st = After(r.st)], LAMBDA t : Rounds(s, env, t, v, keys, i + 1))
For(s, env, st) ==
    Then(Value(s.iterable, env, st), LAMBDA t, v :
         IF ~Has(v, {"list", "tuple", "string", "range", "map", "set"})
         THEN Wrong(t, "for loops iterate over list, range, string or map")
         ELSE Rounds(s, env, t, v,
                     IF Has(v, {"map", "set"}) THEN KeysOf(Entries(t.heap, v)) ELSE <<>>, 0))

\* A while loop, or a repeat with n rounds to go.
Repeats(s, env, st, n) ==
    IF s.k = "repeat"
    THEN IF n <= 0 THEN Ok(st, Nil)
         ELSE Again(Does(s.body, [env EXCEPT !.loop = TRUE], st), LAMBDA t : Repeats(s, env, t, n - 1))
    ELSE Then(Value(s.condition, env, st), LAMBDA t, v :
              IF Truthy(t.heap, v) = s.untilForm THEN Ok(t, Nil)
              ELSE Again(Does(s.body, [env EXCEPT !.loop = TRUE], t), LAMBDA u : Repeats(s, env, u, 0)))

\* The patterns of the cases are looked at in order, up to one that is equal.
Match(s, env, st) ==
    LET Matches(case, t, subject) ==
            IF case.patterns = <<>> THEN Ok(t, TRUE)
            ELSE FoldLeft(LAMBDA r, p : IF r.kind = "value" /\ r.v THEN r
                                        ELSE Then(r, LAMBDA u, no : Then(Value(p, env, u), LAMBDA w, v :
                                                      Ok(w, Same(w.heap, subject, v)))),
                          Ok(t, FALSE), case.patterns)
        \* v says whether a case has matched.
        Tried(r, case, subject) ==
            IF r.kind # "value" \/ r.v THEN r
            ELSE Then(Matches(case, r.st, subject), LAMBDA t, yes :
                      IF yes THEN Then(Does(case.body, env, t), LAMBDA u, v : Ok(u, TRUE)) ELSE Ok(t, FALSE))
    IN Then(Value(s.subject, env, st), LAMBDA t, subject :
            FoldLeft(LAMBDA r, case : Tried(r, case, subject), Ok(t, FALSE), s.cases))

StructOf(s, env, st) ==
    LET methods == [i \in 1..Len(s.methods) |-> FunctionObject(s.methods[i], env, TRUE)]
        h == st.heap \o methods
        shape == New(h, [type |-> "shape", name |-> s.name, fields |-> s.fields,
                         methods |-> [i \in 1..Len(methods) |-> <<s.methods[i].name, <<"fn", Len(st.heap) + i>>>>]])
    IN Then(Make([st EXCEPT !.heap = shape.heap], [FunctionObject(s, env, FALSE) EXCEPT !.shape = shape.value]),
            LAMBDA t, v : Ok([Keep(t, env, s.name, v) EXCEPT !.consts = @ \cup {s.name}], Nil))
EnumOf(s, env, st) ==
    Then(Make(st, MapObject([i \in 1..Len(s.members) |-> <<Str(s.members[i]), Integer(i - 1)>>])),
         LAMBDA t, v : Ok([Keep(t, env, s.name, v) EXCEPT !.consts = @ \cup {s.name}], Nil))

-----------------------------------------------------------------------------
(* Modules *)

LastOf(path, c) == LET at == {i \in 1..Len(path) : SubSeq(path, i, i) = c}
                   IN CHOOSE i \in at \cup {0} : \A j \in at : j <= i
Folder(path) == SubSeq(path, 1, LastOf(path, "/"))
ModuleName(path) == SubSeq(path, LastOf(path, "/") + 1, LastOf(path, ".") - 1)
Places(s, env, main) ==
    IF s.isFile THEN <<Folder(env.file) \o s.target>>
    ELSE LET package == Folder(main) \o "lovax_libs/" \o s.target \o "/"
         IN <<package \o s.target \o ".lov", package \o "main.lov">>

FirstGlobals == [name \in DOMAIN Arity \cup Callers |-> <<"builtin", name>>]
Opened(st, file) == [st EXCEPT !.globals = (file :> FirstGlobals) @@ @, !.consts = {}]
Outside(file) == [file |-> file, names |-> <<>>, depth |-> 1, outside |-> TRUE, loop |-> FALSE]

\* What a file offers: its globals by name, but for the builtins it left alone.
Offered(st, file) ==
    LET mine == st.globals[file]
        names == {n \in DOMAIN mine : n \notin DOMAIN FirstGlobals \/ mine[n] # FirstGlobals[n]}
        keys == Sort(SetToSeq({Str(n) : n \in names}))
    IN Make(st, [MapObject([i \in 1..Len(keys) |-> <<keys[i], mine[keys[i][2]]>>])
                    EXCEPT !.frozen = TRUE, !.module = ModuleName(file)])

\* A file is run when it is used first.
Loaded(st, file) ==
    IF file \in DOMAIN st.loaded THEN Ok(st, st.loaded[file])
    ELSE IF file \in st.loading THEN Wrong(st, "circular use detected")
    ELSE IF file \notin DOMAIN st.trees THEN Wrong(st, "error while loading module")
    ELSE LET r == Block(st.trees[file][1], Outside(file), Opened([st EXCEPT !.loading = @ \cup {file}], file))
             back == [r.st EXCEPT !.loading = st.loading, !.consts = st.consts]
         IN IF r.kind # "value" THEN Wrong(back, "error while loading module")
            ELSE Then(Offered(back, file), LAMBDA t, v : Ok([t EXCEPT !.loaded = (file :> v) @@ @], v))

Use(s, env, st) ==
    LET there == SelectSeq(Places(s, env, st.main), LAMBDA file : file \in st.files)
        name == IF s.alias # "" THEN s.alias ELSE IF s.isFile THEN ModuleName(s.target) ELSE s.target
        BindMember(r, n) ==
            Then(r, LAMBDA t, module :
                 LET v == Lookup(Entries(t.heap, module), Str(n))
                 IN IF v = <<"absent">> THEN Wrong(t, "module has no member") ELSE Ok(Keep(t, env, n, v), module))
    IN IF there = <<>> THEN Wrong(st, "unknown module")
       ELSE LET module == Loaded(st, Head(there))
            IN IF s.names = <<>> THEN Then(module, LAMBDA t, v : Ok(Keep(t, env, name, v), Nil))
               ELSE FoldLeft(BindMember, module, s.names)

-----------------------------------------------------------------------------
Does(s, env, st) ==
    CASE s.k = "set" -> Set(s, env, st)
      [] s.k = "pass" -> Ok(st, Nil)
      [] s.k = "assign" -> Assign(s, env, st)
      [] s.k = "say" ->
            Then(Values(s.values, env, st), LAMBDA t, vs :
                 Ok([t EXCEPT !.out = Append(@, Join([i \in 1..Len(vs) |-> Inspect(t.heap, vs[i])], " "))], Nil))
      [] s.k = "throw" ->
            Then(Value(s.value, env, st), LAMBDA t, v :
                 Exit(t, "throw", IF Has(v, {"map", "struct", "list", "tuple"}) THEN v ELSE Str(Inspect(t.heap, v))))
      [] s.k \in {"break", "continue"} /\ env.loop -> Exit(st, s.k, Nil)
      [] s.k = "break" -> Wrong(st, "'break' cannot be used outside a loop")
      [] s.k = "continue" -> Wrong(st, "'continue' cannot be used outside a loop")
      [] s.k = "return" /\ env.outside -> Wrong(st, "'return' cannot be used outside a function")
      [] s.k = "return" -> Then(Optional(s.returnValue, env, st), LAMBDA t, v : Exit(t, "return", v))
      [] s.k = "block" -> Block(s.statements, env, st)
      [] s.k = "if" ->
            Then(Value(s.condition, env, st), LAMBDA t, v :
                 CASE Truthy(t.heap, v) -> Does(s.consequence, env, t)
                   [] IsNone(s.alternative) -> Ok(t, Nil)
                   [] OTHER -> Does(s.alternative, env, t))
      [] s.k = "try" -> Try(s, env, st)
      [] s.k = "for" -> For(s, env, st)
      [] s.k = "while" -> Repeats(s, env, st, 0)
      [] s.k = "repeat" -> Then(Value(s.count, env, st), LAMBDA t, v : Repeats(s, env, t, v[2]))
      [] s.k = "match" -> Match(s, env, st)
      [] s.k = "struct" -> StructOf(s, env, st)
      [] s.k = "enum" -> EnumOf(s, env, st)
      [] s.k = "use" -> Use(s, env, st)
      [] s.k = "expression" -> Value(s.expression, env, st)
      [] OTHER -> ValueOf(s, env, st)

\* A program, or the entries of a session one after the other: an entry that
\* fails does not end the session.  Constants last as long as their entry.
Meaning(trees, files, main, session) ==
    LET start == [heap |-> <<>>, vars |-> <<>>, globals |-> <<>>, loaded |-> <<>>, loading |-> {},
                  consts |-> {}, out |-> <<>>, trees |-> trees, files |-> files, main |-> main]
        Entry(r, tree) == Block(tree, Outside(main), [r.st EXCEPT !.consts = {}])
        Ended(r) == [output |-> r.st.out,
                     outcome |-> CASE session -> "done"
                                   [] main \notin DOMAIN trees -> "rejected"
                                   [] r.kind = "throw" -> "failed"
                                   [] OTHER -> "done"]
    IN Ended(FoldLeft(Entry, Ok(Opened(start, main), Nil),
                      IF main \in DOMAIN trees THEN trees[main] ELSE <<>>))
=============================================================================
