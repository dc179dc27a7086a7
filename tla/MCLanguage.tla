------------------------------ MODULE MCLanguage ------------------------------
(***************************************************************************)
(* The programs the language is checked on.  Those of the first part are    *)
(* built as trees, all of a kind, and written down; the others are texts.   *)
(***************************************************************************)
EXTENDS Language
LOCAL INSTANCE Integers
LOCAL INSTANCE Sequences
LOCAL INSTANCE SequencesExt
LOCAL INSTANCE TLC

Paper == INSTANCE Notation
Program(tree) ==
    [files |-> "main" :> Paper!Lines(tree, ""), main |-> "main", session |-> <<>>, tree |-> tree]

Text(lines) == FoldLeft(LAMBDA a, b : a \o b \o "\n", "", lines)
Project(main, others) ==
    [files |-> ("main.lov" :> Text(main)) @@ others, main |-> "main.lov", session |-> <<>>, tree |-> <<>>]
Source(lines) == Project(lines, <<>>)
Typed(lines) == [files |-> <<>>, main |-> "main.lov", session |-> lines, tree |-> <<>>]

\* Two operators in one expression, in both orders, and an operator next to
\* every other form of expression.
Operations == {"??", "or", "and", "==", "!=", "<", ">", "<=", ">=", "..", "|", "^", "&", "<<", ">>",
               "+", "-", "*", "/", "//", "%", "**"}
A == IntegerLiteral(5)
B == IntegerLiteral(2)
C == IntegerLiteral(3)
Pair(f, g) == {InfixExpression(InfixExpression(A, f, B), g, C), InfixExpression(A, f, InfixExpression(B, g, C))}
Forms == {PrefixExpression(op, B) : op \in {"not", "-", "~"}} \cup
         {ConditionalExpression(A, B, C), CallExpression(Identifier("abs"), <<B>>),
          IndexExpression(ListLiteral(<<A, B>>), IntegerLiteral(0)),
          MemberExpression(MapLiteral(<<<<StringLiteral("k"), B>>>>), "k", FALSE)}
Mixed == UNION {{InfixExpression(f, op, C), InfixExpression(C, op, f)} : f \in Forms, op \in Operations} \cup
         {PrefixExpression(op, InfixExpression(A, g, B)) : op \in {"not", "-", "~"}, g \in Operations} \cup
         {PrefixExpression(op, f) : op \in {"not", "-", "~"}, f \in Forms}
Expressions == {Program(<<SayStatement(<<e>>)>>) : e \in Mixed \cup UNION {Pair(f, g) : f \in Operations, g \in Operations}}

\* Every way to leave a try statement in a loop in a function.
Show(text) == SayStatement(<<StringLiteral(text), Identifier("i")>>)
Exits == {PassStatement, BreakStatement, ContinueStatement, ReturnStatement(Identifier("i")),
          ThrowStatement(StringLiteral("t")), SayStatement(<<InfixExpression(A, "//", IntegerLiteral(0))>>)}
Fails(s) == s.k \in {"throw", "say"}
Loops(body) == {ForStatement(<<"i">>, InfixExpression(IntegerLiteral(0), "..", B), body),
                WhileStatement(InfixExpression(Identifier("i"), "<", B), FALSE,
                               BlockStatement(<<AssignStatement(Identifier("i"), "+=", IntegerLiteral(1))>>
                                                  \o body.statements))}
Tries == {TryStatement(BlockStatement(<<Show("a"), x, Show("b")>>), "e",
                       BlockStatement(<<SayStatement(<<Identifier("e")>>), y>>), z) :
             x \in Exits, y \in Exits, z \in {None, BlockStatement(<<Show("f")>>)}} \cup
         {TryStatement(BlockStatement(<<Show("a"), x>>), "", None, BlockStatement(<<Show("f")>>)) : x \in Exits}
\* An error in a catch passes the finally by: such programs do not run as they mean.
Passed(t) == ~IsNone(t.finallyBlock) /\ ~IsNone(t.catchBlock) /\ Fails(t.catchBlock.statements[2])
Guarded(t, loop) ==
    <<ExpressionStatement(FunctionLiteral("f", <<>>, <<>>, FALSE,
          BlockStatement(<<SetStatement(FALSE, <<"i">>, <<IntegerLiteral(0)>>), loop,
                           ReturnStatement(IntegerLiteral(9))>>))),
      SayStatement(<<CallExpression(Identifier("f"), <<>>)>>)>>
Leaving == {Program(Guarded(t, loop)) : <<t, loop>> \in UNION {{t} \X Loops(BlockStatement(<<t, Show("n")>>)) :
                                                              t \in {u \in Tries : ~Passed(u)}}}

Nested(kind, body) ==
    CASE kind = "if" -> IfStatement(BooleanLiteral(TRUE), body, BlockStatement(<<PassStatement>>))
      [] kind = "for" -> ForStatement(<<"x">>, ListLiteral(<<A>>), body)
      [] kind = "try" -> TryStatement(body, "e", BlockStatement(<<PassStatement>>), None)
Nests == {Program(<<Nested(a, BlockStatement(<<Nested(b, BlockStatement(<<SayStatement(<<A>>)>> \o more))>> \o rest)),
                    SayStatement(<<C>>)>>) :
             a \in {"if", "for", "try"}, b \in {"if", "for", "try"},
             more \in {<<>>, <<SayStatement(<<B>>)>>}, rest \in {<<>>, <<SayStatement(<<B>>)>>}}

\* Variables that functions share: counters, functions of functions, of loops, of
\* a try that failed and of a call that failed.
Captures == {
    Source(<<"fn counter():", "  set n = 0", "  fn inc():", "    n += 1", "    return n",
             "  return inc", "set c = counter()", "set d = counter()", "say c(), c(), d()",
             "fn pair():", "  set n = 0", "  fn inc():", "    n += 1", "  return [inc, fn() -> n]",
             "set p = pair()", "p[0]()", "say p[1]()">>),
    Source(<<"fn outer():", "  set total = 0", "  fn twice():", "    fn add(x):", "      total += x",
             "      return total", "    add(1)", "    return add", "  return twice()(5)", "say outer()">>),
    Source(<<"set fs = []", "for i in 0..3:", "  push(fs, fn() -> i * i)", "for f in fs:", "  say f()">>),
    Source(<<"fn f():", "  set fs = []", "  for a, b in {\"x\": 1, \"y\": 2}:", "    set c = b * 2",
             "    push(fs, fn(d) -> \"{a}{b}{c}{d}\")",
             "  return transform([0, 1], fn(k) -> fs[k](k))", "say f()">>),
    Source(<<"fn f():", "  set g = null", "  try:", "    set x = 1", "    fn h():", "      x += 1",
             "      return x", "    g = h", "    h()", "    throw x", "  catch e:", "    say e, g()",
             "  return g", "set g = f()", "say g()">>),
    Source(<<"fn risky(x):", "  set y = x", "  set keep = fn() -> y", "  push(kept, keep)",
             "  if x > 1:", "    throw [x, \"bad\"]", "  return x", "fn around(x):", "  set z = x",
             "  push(kept, fn() -> z)", "  return risky(x)", "set kept = []", "for x in [1, 2]:",
             "  try:", "    say around(x)", "  catch e:", "    say e[1], kept[2](), kept[3]()">>)}

\* Structs, maps and the members at one place of the program.
Members == {
    Source(<<"struct Point:", "  x", "  y = x + 1", "  fn move(by, times = 2):",
             "    this.x += by * times", "    return this", "set p = Point(3)",
             "say p.move(2).move(1, 1), p.y", "set q = Point(1, 1)", "for r in [p, q, {\"x\": 7}]:",
             "  say r.x, r?.y if r is \"map\" else r.y">>),
    Source(<<"struct A:", "  x", "  y", "struct B:", "  y", "  x",
             "for o in [A(1, 2), B(3, 4), {\"z\": 0, \"y\": 5}, {\"y\": 6}]:", "  o.y += 1",
             "  say o.y, o", "say null?.y, B(1)">>),
    Source(<<"set m = {\"f\": fn(x) -> x + 1, \"k\": [1, 2, 3]}", "m.k[1] += m.f(4)",
             "m[\"n\"] = {true: 1, 2: \"two\"}",
             "say m.k[0:2], m[\"n\"][true], m.n[2], \"k\" in m, len(m)",
             "set t = {\"__type__\": \"T\", \"v\": 4, \"get\": fn(self, by) -> self.v * by}",
             "say t.get(3), t?.none ?? \"none\"", "say t.none">>)}

\* Parameters, recursion and the builtins that call functions.
Calls == {
    Source(<<"fn all(first, rest...):", "  return [first, rest]", "fn opt(a, b = a + 1, c = b * 2):",
             "  return (a, b, c)", "say all(1), all(1, 2, 3), opt(1), opt(1, 5), opt(1, 5, 0)", "try:",
             "  all()", "catch e:", "  say e", "opt()">>),
    Source(<<"fn down(n):", "  if n == 0:", "    return 0", "  return 1 + down(n - 1)", "say down(3)",
             "try:", "  down(9)", "catch e:", "  say e", "say [down(1), \"{down(0)}\"]">>),
    Source(<<"set xs = [3, 1, 2]",
             "say sort_by(xs, fn(x) -> 0 - x), min_by(xs, fn(x) -> x), max_by(xs, fn(x) -> x % 3)",
             "say filter(xs, fn(x) -> x > 1), reduce(xs, fn(a, x) -> a * 10 + x), reduce([], max, 7)",
             "say group_by(xs, fn(x) -> x > 1), transform(xs, text)", "fn fail(x):",
             "  return filter(xs, fn(y) -> y // (x - 2) > 0)", "say fail(3)",
             "each(xs, fn(x) -> fail(x))">>)}

\* Functions of integers, called often enough to be compiled.
NumericFunctions == {
    Source(<<"fn fib(n):", "  if n < 2:", "    return n", "  return fib(n - 1) + fib(n - 2)",
             "for i in [2, 2, 3, 0]:", "  say fib(i)", "fn mix(a, b):", "  if a >= b:",
             "    return (a & 6) | 1", "  if b == 9:", "    return a * b ^ 3", "  a + 1",
             "  if a != 3:", "    return mix(a + 1, b - 1) % -4", "  return mix(b, 2) % 3 - a",
             "for i in 0..4:", "  say mix(i, 5), mix(3, i)", "  say mix(i - 3, 9)">>),
    Source(<<"fn g(n, m):", "  if n == m:", "    return m", "  return g(n - 1, m) - g(n - 1, m)",
             "fn k(n):", "  if n <= 0:", "    return 9000", "  return k(n - 1) * n", "fn h(n):",
             "  return k(n)", "for i in [2, 1, 2]:", "  try:", "    say g(i, 0), k(2)",
             "    say h(i), k(i + 0.5)", "    say g(9, 0)", "  catch e:", "    say e">>),
    Source(<<"fn q(a, b, c):", "  if a == 0:", "    return b - c", "  return q(a - 1, c, b)",
             "fn opt(n, m = 2):", "  if n == 0:", "    return m", "  return opt(n - 1, m) + 1",
             "fn at(n, s):", "  if n == 0:", "    return s", "  return at(n - 1, s)", "for i in 0..3:",
             "  say q(i, 5, 1), opt(i, 4)", "  say opt(i), at(i, i), at(i, \"x\")">>)}

\* Divisions at every sign, of the least integer too.
Divisions == {
    Source(<<"set m = -32767 - 1", "for a in [m, m + 1, -7, -1, 0, 7, 32767]:",
             "  for b in [-1, m, -2, 2, 7]:", "    say a // b, a % b", "  say a // 3, a % 3, a % -1">>)}

\* A conditional expression in a function that is called often enough to be
\* compiled.
HotConditionals == {
    Source(<<"fn down(n):", "  return 0 if n == 0 else 1 + down(n - 1)", "for i in [2, 2, 1, 0]:",
             "  say down(i)">>)}

\* The statements and the forms of expressions.
Statements == {
    Source(<<"set s = \"abc\"", "set i = 0", "match len(s):", "  1, 2:", "    say \"short\"",
             "  i + 3:", "    say \"three\"", "  _:", "    say \"long\"", "match s:", "  \"x\":",
             "    pass", "repeat 2:", "  i += 2", "  if i > 3:", "    break", "  say i", "for c in s:",
             "  say c", "repeat 2:", "  pass", "until i <= 0:", "  i -= 3">>),
    Source(<<"set a, b = 1, 2.5", "set c, d = [a, b]",
             "say a is \"int\", b is \"float\", d + a, -d, ~a, not a, 7 / 2, b * 2",
             "for k in (c, \"t\", Set([1])):", "  say k", "for x in Set([2, 2]):", "  say x",
             "const z = 1", "set u, v = [1]">>),
    Source(<<"const z = 1", "enum Hue: RED, BLUE", "say Hue.BLUE + z, Hue", "try:", "  z = 2",
             "catch e:", "  say e", "set n = null", "n ??= 4", "n ??= 5", "set w = n and z or 0",
             "w = w + n", "w += 1", "w -= 1", "say w, n ?? 1, missing">>),
    Source(<<"for i in 5:", "  pass">>),
    Source(<<"for x in [1, 2]:", "  try:", "    if x == 1:", "      throw {\"code\": x}",
             "    for y in x:", "      pass", "  catch e:", "    say e", "  finally:",
             "    say \"end\", x", "1 .. \"a\"">>),
    Source(<<"set x = 1", "if x == 1 or y:", "  say (1, 2)[0], [1, 2][-1], \"ab\"[1], {\"k\": 2}?.k",
             "if x is x:", "  pass">>)}

\* What the compiler or the machine refuses.
Misuses == {
    Source(<<"fn gen():", "  yield 1", "try:", "  gen()", "catch e:", "  say e", "fn late():",
             "  return here", "say late()">>),
    Source(<<"undefined = 3">>),
    Source(<<"return 3">>),
    Source(<<"fn f():", "  break", "f()">>)}

\* What the parser refuses.
Unreadable == {
    Source(<<"say 1 +", "say (2">>),
    Source(<<"if true:", "    say 1", "  say 2", "say 3">>),
    Source(<<"x = = 1", "y = = 2", "z = = 3", "w = = 4">>),
    Source(<<"say ((((((((((((1))))))))))))">>)}

\* Files that use each other, fail, or are not there.
Modules == {
    Project(<<"use \"lib/a.lov\" as a", "use \"lib/b.lov\": bump", "bump()", "say a.count(), a.name",
              "use pkg", "say pkg.v">>,
            "lib/a.lov" :> Text(<<"use \"b.lov\" as b", "set name = \"a\"", "fn count():",
                                     "  b.bump()", "  return b.read()">>) @@
            "lib/b.lov" :> Text(<<"set n = 0", "fn bump():", "  n += 1", "fn read():", "  return n">>) @@
            "lovax_libs/pkg/main.lov" :> Text(<<"set v = 3">>)),
    Project(<<"try:", "  use \"a.lov\" as a", "catch e:", "  say e", "try:",
              "  use \"b.lov\": nothing", "catch e:", "  say e", "use nowhere">>,
            "a.lov" :> Text(<<"say \"once\"", "use \"b.lov\" as b", "throw b.k">>) @@
            "b.lov" :> Text(<<"say \"b\"", "set k = \"k\"">>)),
    Project(<<"use \"a.lov\" as a", "say a.ok">>,
            "a.lov" :> Text(<<"set ok = \"ok\"", "try:", "  use \"b.lov\" as b", "catch e:",
                                 "  say e">>) @@
            "b.lov" :> Text(<<"use \"a.lov\" as a">>)),
    Project(<<"use \"a.lov\" as a">>,
            "a.lov" :> Text(<<"set ok = (">>))}

\* Lines typed one by one.
Sessions == {
    Typed(<<"set x = 1", "x + 1", "fn f(a):", "  return a + x", "", "f(3)", "missing", "const k = 2",
            "if x == 1:", "  say \"in\"", "", "say \"still\", k", ")", "exit", "say \"not\"">>),
    Typed(<<"", "fn g():", "  throw \"t\"", "", "g()", "for i in 0..2:", "  say i", "", "while x:",
            "  pass">>)}

TestPrograms == Expressions \cup Leaving \cup Nests \cup Captures \cup Members \cup Calls \cup NumericFunctions \cup Divisions \cup Statements \cup Misuses \cup Unreadable \cup Modules \cup Sessions
=============================================================================
