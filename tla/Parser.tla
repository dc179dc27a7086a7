-------------------------------- MODULE Parser --------------------------------
(***************************************************************************)
(* src/parser/parser.hpp: tokens to syntax trees.  The parser's state is    *)
(* the record p: the tokens and the position of curToken among them, the    *)
(* number of errors so far, the nesting of expressions and blocks, the      *)
(* result of the last step (node), and ok.  A step that fails reports an    *)
(* error and clears ok, and the steps after it do nothing, as the returns   *)
(* of nullptr do, until the statement's caller recovers.                    *)
(***************************************************************************)
EXTENDS Lexer, Syntax, Values
LOCAL INSTANCE Integers
LOCAL INSTANCE Sequences
LOCAL INSTANCE SequencesExt

CONSTANTS
    MaxErrors,      \* MAX_ERRORS (20)
    MaxExprDepth,   \* MAX_EXPR_DEPTH (200)
    MaxExprChain,   \* MAX_EXPR_CHAIN (10000)
    MaxBlockDepth   \* MAX_BLOCK_DEPTH (1000)

Lowest == 1
Ternary == 2
Conjunction == 5
Unary == 15
Precedence(type) ==
    CASE type = "if" -> Ternary
      [] type = "??" -> 3
      [] type = "or" -> 4
      [] type = "and" -> Conjunction
      [] type \in {"==", "!="} -> 6
      [] type \in {"<", ">", "<=", ">=", "in", "is"} -> 7
      [] type = ".." -> 8
      [] type = "|" -> 9
      [] type = "^" -> 10
      [] type = "&" -> 11
      [] type \in {"<<", ">>"} -> 12
      [] type \in {"+", "-"} -> 13
      [] type \in {"*", "/", "//", "%"} -> 14
      [] type = "**" -> 16
      [] type = "(" -> 17
      [] type \in {"[", ".", "?."} -> 18
      [] OTHER -> Lowest

Assignments == {"=", "+=", "-=", "*=", "/=", "//=", "%=", "&=", "|=", "^=", "<<=", ">>=", "??="}

NewParser(tokens) == [toks |-> tokens, at |-> 1, errors |-> 0, exprs |-> 0, blocks |-> 0,
                      node |-> None, ok |-> TRUE]

\* curToken and peekToken; the end of the file repeats.
TokenAt(p, i) == IF i <= Len(p.toks) THEN p.toks[i] ELSE EndOfFile
Cur(p) == TokenAt(p, p.at)
Peek(p) == TokenAt(p, p.at + 1)
CurIs(p, types) == p.ok /\ Cur(p).type \in types
PeekIs(p, types) == p.ok /\ Peek(p).type \in types

Return(p, node) == IF p.ok THEN [p EXCEPT !.node = node] ELSE p
Error(p) == IF p.ok THEN [p EXCEPT !.ok = FALSE, !.errors = @ + 1] ELSE p
Advance(p) == IF p.ok THEN [p EXCEPT !.at = @ + 1] ELSE p
AdvanceOver(p, types) == IF PeekIs(p, types) THEN Advance(p) ELSE p
Expect(p, type) == IF PeekIs(p, {type}) THEN Advance(p) ELSE Error(p)
ExpectName(p) == LET q == Expect(p, "identifier") IN Return(q, Cur(q).text)

RECURSIVE Synchronize(_)
Synchronize(p) ==
    IF Cur(p).type \in {"NEWLINE", "EOF"} THEN [p EXCEPT !.ok = TRUE]
    ELSE Synchronize([p EXCEPT !.at = @ + 1])

\* Names after commas.
RECURSIVE ParseNames(_, _)
ParseNames(p, names) ==
    IF ~PeekIs(p, {","}) THEN Return(p, names)
    ELSE LET name == ExpectName(Advance(p)) IN ParseNames(name, Append(names, name.node))

\* The grammar's recursion: what is "statement", "block", "function" or
\* "expression", which takes the operators that bind tighter than precedence.
RECURSIVE Parse(_, _, _)
Expression(p) == Parse("expression", p, Lowest)
ParseNext(p) == Expression(Advance(p))

RECURSIVE ParseSuffixes(_, _, _), ParseValues(_, _, _), ParsePairs(_, _), ParseParameters(_, _, _, _),
          ParseStatements(_, _, _), ParseCases(_, _), ParseMembers(_, _, _, _), ParseEnumMembers(_, _),
          ParseText(_, _, _, _)

\* Expressions after commas; a comma may stand before the closing bracket.
ParseValues(p, values, close) ==
    IF ~PeekIs(p, {","}) THEN Return(p, values)
    ELSE LET comma == Advance(p)
         IN IF PeekIs(comma, {close}) THEN Return(comma, values)
            ELSE LET value == ParseNext(comma) IN ParseValues(value, Append(values, value.node), close)

-----------------------------------------------------------------------------
(* Literals *)

DigitValue(c) == CHOOSE k \in 0..15 : \/ CharAt("0123456789abcdef", k + 1) = c
                                       \/ CharAt("0123456789ABCDEF", k + 1) = c
Natural(digits, base) ==
    FoldLeft(LAMBDA n, i : n * base + DigitValue(CharAt(digits, i)), 0, [i \in 1..Len(digits) |-> i])

ParseIntegerLiteral(p) ==
    LET raw == Cur(p).text
        base == CASE Part(raw, 1, 2) \in {"0x", "0X"} -> 16
                  [] Part(raw, 1, 2) \in {"0b", "0B"} -> 2
                  [] OTHER -> 10
        n == Natural(IF base = 10 THEN raw ELSE Part(raw, 3, Len(raw)), base)
    IN IF n > IntMax THEN Error(p) ELSE Return(p, IntegerLiteral(n))

ParseFloatLiteral(p) ==
    LET raw == Cur(p).text
        mark == Reach(raw, 1, {"e", "E"})
        mantissa == Part(raw, 1, mark - 1)
        places == LET dot == Reach(mantissa, 1, {"."})
                  IN IF dot > Len(mantissa) THEN 0 ELSE Len(mantissa) - dot
        negative == CharAt(raw, mark + 1) = "-"
        exponent == Natural(Part(raw, IF CharAt(raw, mark + 1) \in {"+", "-"} THEN mark + 2 ELSE mark + 1,
                                 Len(raw)), 10)
        power == (IF negative THEN -exponent ELSE exponent) - places
        digits == Natural(Without(mantissa, "."), 10)
        value == IF power >= 0 THEN Fraction(digits * 10^power, 1) ELSE Fraction(digits, 10^(-power))
    IN IF value[2] = 0 THEN Error(p) ELSE Return(p, FloatLiteral(value))

Escape(c) ==
    CASE c = "n" -> "\n"
      [] c = "t" -> "\t"
      [] c = "r" -> "\r"
      [] c \in {"\\", "\"", "{", "}"} -> c
      [] OTHER -> "\\" \o c

\* The brace that closes the interpolation, or past the end.
RECURSIVE InterpolationEnd(_, _, _, _)
InterpolationEnd(raw, j, braces, quoted) ==
    LET c == CharAt(raw, j)
    IN CASE j > Len(raw) \/ (c = "}" /\ braces = 1 /\ ~quoted) -> j
         [] quoted /\ c = "\\" -> InterpolationEnd(raw, j + 2, braces, TRUE)
         [] c = "\"" -> InterpolationEnd(raw, j + 1, braces, ~quoted)
         [] c = "{" /\ ~quoted -> InterpolationEnd(raw, j + 1, braces + 1, FALSE)
         [] c = "}" /\ ~quoted -> InterpolationEnd(raw, j + 1, braces - 1, FALSE)
         [] OTHER -> InterpolationEnd(raw, j + 1, braces, quoted)

Flush(parts, text) == IF text = "" THEN parts ELSE Append(parts, StringLiteral(text))

\* The parts of a raw string from i on, None when it is malformed; each
\* interpolation has a lexer and a parser of its own.
ParseText(raw, i, text, parts) ==
    LET c == CharAt(raw, i)
        end == InterpolationEnd(raw, i + 1, 1, FALSE)
        inner == Expression(NewParser(Tokens(Part(raw, i + 1, end - 1))))
    IN CASE i > Len(raw) ->
               IF parts = <<>> THEN StringLiteral(text) ELSE InterpolatedString(Flush(parts, text))
         [] c = "\\" /\ i < Len(raw) -> ParseText(raw, i + 2, text \o Escape(CharAt(raw, i + 1)), parts)
         [] c = "{" -> IF end > Len(raw) \/ end = i + 1 \/ ~inner.ok THEN None
                       ELSE ParseText(raw, end + 1, "", Append(Flush(parts, text), inner.node))
         [] c = "}" -> None
         [] OTHER -> ParseText(raw, i + 1, text \o c, parts)

ParseStringLiteral(p) ==
    LET Checked(node) == IF IsNone(node) THEN Error(p) ELSE Return(p, node)
    IN Checked(ParseText(Cur(p).text, 1, "", <<>>))

-----------------------------------------------------------------------------
(* Expressions *)

ParseColonBlock(p) == Parse("block", Expect(AdvanceOver(Expect(p, ":"), {"NEWLINE"}), "INDENT"), Lowest)

ParsePrefixExpression(p) ==
    LET op == Cur(p).type
        right == Parse("expression", Advance(p), IF op = "not" THEN Conjunction ELSE Unary)
    IN Return(right, PrefixExpression(op, right.node))

ParseGroupedExpression(p) ==
    IF PeekIs(p, {")"}) THEN Return(Advance(p), TupleLiteral(<<>>))
    ELSE LET first == ParseNext(p)
             all == ParseValues(first, <<first.node>>, ")")
         IN Return(Expect(all, ")"),
                   IF PeekIs(first, {","}) THEN TupleLiteral(all.node) ELSE first.node)

ParseListLiteral(p) ==
    IF PeekIs(p, {"]"}) THEN Return(Advance(p), ListLiteral(<<>>))
    ELSE LET first == ParseNext(p)
             all == ParseValues(first, <<first.node>>, "]")
         IN Return(Expect(all, "]"), ListLiteral(all.node))

ParsePairs(p, pairs) ==
    LET key == ParseNext(p)
        value == ParseNext(Expect(key, ":"))
        all == Append(pairs, <<key.node, value.node>>)
        comma == Advance(value)
    IN IF ~PeekIs(value, {","}) THEN Return(value, all)
       ELSE IF PeekIs(comma, {"}"}) THEN Return(comma, all)
       ELSE ParsePairs(comma, all)

ParseMapLiteral(p) ==
    IF PeekIs(p, {"}"}) THEN Return(Advance(p), MapLiteral(<<>>))
    ELSE LET pairs == ParsePairs(p, <<>>) IN Return(Expect(pairs, "}"), MapLiteral(pairs.node))

\* A name, and maybe its default, at a time; the rest parameter is the last.
ParseParameters(p, names, defaults, seenDefault) ==
    LET name == ExpectName(p)
        all == Append(names, name.node)
        default == ParseNext(Advance(name))
        given == PeekIs(name, {"="})
        one == IF given THEN default ELSE IF seenDefault THEN Error(name) ELSE Return(name, None)
        Signature(q, values, variadic) ==
            Return(q, [parameters |-> all, defaults |-> values, variadic |-> variadic])
    IN CASE ~name.ok -> name
         [] name.node \in ToSet(names) -> Error(name)
         [] PeekIs(name, {"..."}) ->
               IF PeekIs(Advance(name), {","}) THEN Error(Advance(name))
               ELSE Signature(Advance(name), Append(defaults, None), TRUE)
         [] PeekIs(one, {","}) ->
               ParseParameters(Advance(one), all, Append(defaults, one.node), given)
         [] OTHER -> Signature(one, Append(defaults, one.node), FALSE)

ParseFunctionLiteral(p) ==
    LET name == IF PeekIs(p, {"identifier"}) THEN Peek(p).text ELSE ""
        open == Expect(AdvanceOver(p, {"identifier"}), "(")
        signature == IF PeekIs(open, {")"})
                     THEN Return(open, [parameters |-> <<>>, defaults |-> <<>>, variadic |-> FALSE])
                     ELSE ParseParameters(open, <<>>, <<>>, FALSE)
        close == Expect(signature, ")")
        value == ParseNext(Advance(close))
        body == IF PeekIs(close, {"->"})
                THEN Return(value, BlockStatement(<<ReturnStatement(value.node)>>))
                ELSE ParseColonBlock(close)
    IN Return(body, FunctionLiteral(name, signature.node.parameters, signature.node.defaults,
                                    signature.node.variadic, body.node))

ParseYieldExpression(p) ==
    IF PeekIs(p, {"NEWLINE", "DEDENT", "EOF", ")", "]", ",", ":"}) THEN Return(p, YieldExpression(None))
    ELSE LET value == ParseNext(p) IN Return(value, YieldExpression(value.node))

ParsePrefix(p) ==
    LET type == Cur(p).type
    IN CASE type = "int" -> ParseIntegerLiteral(p)
         [] type = "float" -> ParseFloatLiteral(p)
         [] type = "string" -> ParseStringLiteral(p)
         [] type \in {"identifier", "this"} -> Return(p, Identifier(Cur(p).text))
         [] type \in {"true", "false"} -> Return(p, BooleanLiteral(type = "true"))
         [] type = "null" -> Return(p, NullLiteral)
         [] type = "fn" -> Parse("function", p, Lowest)
         [] type = "yield" -> ParseYieldExpression(p)
         [] type \in {"-", "~", "not"} -> ParsePrefixExpression(p)
         [] type = "(" -> ParseGroupedExpression(p)
         [] type = "[" -> ParseListLiteral(p)
         [] type = "{" -> ParseMapLiteral(p)
         [] OTHER -> Error(p)

\* A keyword may name a member.
ParseMemberExpression(p, object) ==
    LET word == Peek(p).text
    IN IF PeekIs(p, {"identifier"}) \/ (word # "" /\ Characters(word) \subseteq Letters)
       THEN Return(Advance(p), MemberExpression(object, word, Cur(p).type = "?."))
       ELSE Error(p)

ParseIndexExpression(p, object) ==
    LET index == IF PeekIs(p, {":"}) THEN Return(p, None) ELSE ParseNext(p)
        isSlice == PeekIs(index, {":"})
        colon == AdvanceOver(index, {":"})
        end == IF isSlice /\ ~PeekIs(colon, {"]"}) THEN ParseNext(colon) ELSE Return(colon, None)
    IN Return(Expect(end, "]"), IF isSlice THEN SliceExpression(object, index.node, end.node)
                                ELSE IndexExpression(object, index.node))

\* mutant: ** associates to the left as the other operators do.
ParseInfixLeft(p, left) ==
    LET op == Cur(p).type
        right == Parse("expression", Advance(p), Precedence(op))
    IN Return(right, InfixExpression(left, op, right.node))
ParseInfixExpression(p, left) ==
    LET op == Cur(p).type
        right == Parse("expression", Advance(p), IF op = "**" THEN Precedence(op) - 1 ELSE Precedence(op))
    IN Return(right, InfixExpression(left, op, right.node))

ParseConditionalExpression(p, thenExpr) ==
    LET condition == ParseNext(p)
        elseExpr == ParseNext(Expect(condition, "else"))
    IN Return(elseExpr, ConditionalExpression(thenExpr, condition.node, elseExpr.node))

ParseCallExpression(p, function) ==
    LET first == ParseNext(p)
        all == ParseValues(first, <<first.node>>, "")
    IN IF PeekIs(p, {")"}) THEN Return(Advance(p), CallExpression(function, <<>>))
       ELSE Return(Expect(all, ")"), CallExpression(function, all.node))

\* The operators that follow an operand, while they bind tighter than precedence.
ParseSuffixes(p, precedence, chain) ==
    LET q == Advance(p)
        op == Cur(q).type
    IN IF ~p.ok \/ precedence >= Precedence(Peek(p).type) THEN p
       ELSE IF chain >= MaxExprChain THEN Error(p)
       ELSE ParseSuffixes(CASE op = "(" -> ParseCallExpression(q, p.node)
                            [] op = "[" -> ParseIndexExpression(q, p.node)
                            [] op \in {".", "?."} -> ParseMemberExpression(q, p.node)
                            [] op = "if" -> ParseConditionalExpression(q, p.node)
                            [] OTHER -> ParseInfixExpression(q, p.node),
                          precedence, chain + 1)

ParseExpression(p, precedence) ==
    IF p.ok /\ p.exprs >= MaxExprDepth THEN Error(p)
    ELSE IF ~p.ok THEN p
    ELSE [ParseSuffixes(ParsePrefix([p EXCEPT !.exprs = @ + 1]), precedence, 0) EXCEPT !.exprs = p.exprs]

-----------------------------------------------------------------------------
(* Blocks *)

ParseBlockStatement(p) ==
    IF p.ok /\ p.blocks >= MaxBlockDepth
    THEN [p EXCEPT !.errors = @ + 1, !.node = BlockStatement(<<>>)]
    ELSE LET body == ParseStatements(Advance([p EXCEPT !.blocks = @ + 1]), <<>>, {"DEDENT", "EOF"})
         IN [Return(body, BlockStatement(body.node)) EXCEPT !.blocks = p.blocks]

-----------------------------------------------------------------------------
(* Statements *)

ParseExpressionOrAssignStatement(p) ==
    LET target == Expression(p)
        value == ParseNext(Advance(target))
    IN IF ~PeekIs(target, Assignments) THEN Return(target, ExpressionStatement(target.node))
       ELSE IF target.node.k \notin {"identifier", "index", "slice", "member"} THEN Error(target)
       ELSE Return(value, AssignStatement(target.node, Peek(target).type, value.node))

ParseSetStatement(p, isConst) ==
    LET name == ExpectName(p)
        names == ParseNames(name, <<name.node>>)
        value == ParseNext(Expect(names, "="))
        values == ParseValues(value, <<value.node>>, "")
    IN IF values.ok /\ Len(values.node) \notin {1, Len(names.node)} THEN Error(values)
       ELSE Return(values, SetStatement(isConst, names.node, values.node))

ParseTryStatement(p) ==
    LET body == ParseColonBlock(p)
        catches == PeekIs(body, {"catch"})
        name == IF catches THEN ExpectName(Advance(body)) ELSE Return(body, "")
        handler == IF catches THEN ParseColonBlock(name) ELSE Return(body, None)
        final == IF PeekIs(handler, {"finally"}) THEN ParseColonBlock(Advance(handler))
                 ELSE Return(handler, None)
    IN IF final.ok /\ IsNone(handler.node) /\ IsNone(final.node) THEN Error(final)
       ELSE Return(final, TryStatement(body.node, name.node, handler.node, final.node))

\* The members of an enum's block, separated by lines and commas.
ParseEnumMembers(p, names) ==
    IF ~p.ok THEN p
    ELSE IF CurIs(p, {"DEDENT", "EOF"}) THEN Return(p, names)
    ELSE IF CurIs(p, {"NEWLINE", ","}) THEN ParseEnumMembers(Advance(p), names)
    ELSE IF CurIs(p, {"identifier"}) THEN ParseEnumMembers(Advance(p), Append(names, Cur(p).text))
    ELSE Error(p)

ParseEnumStatement(p) ==
    LET name == ExpectName(p)
        colon == Expect(name, ":")
        first == ExpectName(colon)
        members == IF PeekIs(colon, {"NEWLINE"})
                   THEN ParseEnumMembers(Advance(Expect(Advance(colon), "INDENT")), <<>>)
                   ELSE ParseNames(first, <<first.node>>)
    IN IF members.ok /\ members.node = <<>> THEN Error(members)
       ELSE Return(members, EnumStatement(name.node, members.node))

\* The fields and methods of a struct's block.
ParseMembers(p, fields, defaults, methods) ==
    LET method == Parse("function", p, Lowest)
        default == ParseNext(Advance(p))
        field == IF PeekIs(p, {"="}) THEN default ELSE Return(p, None)
    IN CASE ~p.ok -> p
         [] CurIs(p, {"DEDENT", "EOF"}) ->
               Return(p, [fields |-> fields, defaults |-> defaults, methods |-> methods])
         [] CurIs(p, {"NEWLINE"}) -> ParseMembers(Advance(p), fields, defaults, methods)
         [] CurIs(p, {"fn"}) ->
               IF method.ok /\ method.node.name = "" THEN Error(method)
               ELSE ParseMembers(Advance(method), fields, defaults, Append(methods, method.node))
         [] CurIs(p, {"identifier"}) ->
               ParseMembers(Advance(field), Append(fields, Cur(p).text), Append(defaults, field.node),
                            methods)
         [] OTHER -> Error(p)

ParseStructStatement(p) ==
    LET name == ExpectName(p)
        indent == Expect(AdvanceOver(Expect(name, ":"), {"NEWLINE"}), "INDENT")
        members == ParseMembers(Advance(indent), <<>>, <<>>, <<>>)
    IN Return(members, StructStatement(name.node, members.node.fields, members.node.defaults,
                                       members.node.methods))

ParseThrowStatement(p) == LET value == ParseNext(p) IN Return(value, ThrowStatement(value.node))

ParseRepeatStatement(p) ==
    LET count == ParseNext(p)
        body == ParseColonBlock(count)
    IN Return(body, RepeatStatement(count.node, body.node))

ParseSayStatement(p) ==
    LET first == ParseNext(p)
        values == ParseValues(first, <<first.node>>, "")
    IN Return(values, SayStatement(values.node))

\* A return stands even when its value does not parse.
ParseReturnStatement(p) ==
    LET q == Advance(p)
        value == [Expression(q) EXCEPT !.ok = TRUE]
        values == [ParseValues(value, <<value.node>>, "") EXCEPT !.ok = TRUE]
    IN IF CurIs(q, {"NEWLINE", "EOF", "DEDENT"}) THEN Return(q, ReturnStatement(None))
       ELSE IF PeekIs(value, {","}) THEN Return(values, ReturnStatement(TupleLiteral(values.node)))
       ELSE Return(value, ReturnStatement(value.node))

ParseUseStatement(p) ==
    LET target == Advance(p)
        alias == IF PeekIs(target, {"as"}) THEN ExpectName(Advance(target)) ELSE Return(target, "")
        name == ExpectName(Advance(alias))
        names == IF PeekIs(alias, {":"}) THEN ParseNames(name, <<name.node>>) ELSE Return(alias, <<>>)
    IN IF ~PeekIs(p, {"identifier", "string"}) THEN Error(p)
       ELSE IF PeekIs(alias, {":"}) /\ alias.node # "" THEN Error(alias)
       ELSE Return(names, UseStatement(Cur(target).text, Cur(target).type = "string",
                                       alias.node, names.node))

\* An alternative that does not parse is left out.
ParseIfStatement(p) ==
    LET condition == ParseNext(p)
        consequence == ParseColonBlock(condition)
        else == Advance(consequence)
        alternative ==
            IF ~PeekIs(consequence, {"else"}) THEN Return(consequence, None)
            ELSE [(IF PeekIs(else, {"if"}) THEN Parse("statement", Advance(else), Lowest)
                   ELSE ParseColonBlock(else)) EXCEPT !.ok = TRUE]
    IN IF ~consequence.ok THEN consequence
       ELSE Return(alternative, IfStatement(condition.node, consequence.node, alternative.node))

ParseCases(p, cases) ==
    LET wildcard == CurIs(p, {"identifier"}) /\ Cur(p).text = "_"
        first == Expression(p)
        patterns == IF wildcard THEN Return(p, <<>>) ELSE ParseValues(first, <<first.node>>, "")
        body == ParseColonBlock(patterns)
    IN CASE ~p.ok -> p
         [] CurIs(p, {"DEDENT", "EOF"}) \/ p.errors >= MaxErrors ->
               IF cases = <<>> THEN Error(p) ELSE Return(p, cases)
         [] CurIs(p, {"NEWLINE"}) -> ParseCases(Advance(p), cases)
         [] OTHER -> ParseCases(Advance(body), Append(cases, MatchCase(patterns.node, body.node)))

ParseMatchStatement(p) ==
    LET subject == ParseNext(p)
        indent == Expect(AdvanceOver(Expect(subject, ":"), {"NEWLINE"}), "INDENT")
        cases == ParseCases(Advance(indent), <<>>)
    IN Return(cases, MatchStatement(subject.node, cases.node))

ParseWhileStatement(p, untilForm) ==
    LET condition == ParseNext(p)
        body == ParseColonBlock(condition)
    IN Return(body, WhileStatement(condition.node, untilForm, body.node))

ParseForStatement(p) ==
    LET name == ExpectName(p)
        second == IF PeekIs(name, {","}) THEN ExpectName(Advance(name)) ELSE name
        variables == IF PeekIs(name, {","}) THEN <<name.node, second.node>> ELSE <<name.node>>
        iterable == ParseNext(Expect(second, "in"))
        body == ParseColonBlock(iterable)
    IN Return(body, ForStatement(variables, iterable.node, body.node))

ParseStatement(p) ==
    LET type == Cur(p).type
    IN CASE type \in {"set", "const"} -> ParseSetStatement(p, type = "const")
         [] type = "say" -> ParseSayStatement(p)
         [] type = "if" -> ParseIfStatement(p)
         [] type = "match" -> ParseMatchStatement(p)
         [] type \in {"while", "until"} -> ParseWhileStatement(p, type = "until")
         [] type = "for" -> ParseForStatement(p)
         [] type = "break" -> Return(p, BreakStatement)
         [] type = "continue" -> Return(p, ContinueStatement)
         [] type = "return" -> ParseReturnStatement(p)
         [] type = "use" -> ParseUseStatement(p)
         [] type = "try" -> ParseTryStatement(p)
         [] type = "throw" -> ParseThrowStatement(p)
         [] type = "pass" -> Return(p, PassStatement)
         [] type = "repeat" -> ParseRepeatStatement(p)
         [] type = "enum" -> ParseEnumStatement(p)
         [] type = "struct" -> ParseStructStatement(p)
         [] type \in {"ILLEGAL", "else", "INDENT"} -> Error(p)
         [] type \in {"NEWLINE", "EOF", "DEDENT"} -> Return(p, None)
         [] OTHER -> ParseExpressionOrAssignStatement(p)

\* One round of the loops over statements: p and the statements gathered so far.
\* A statement that failed is skipped to the end of its line.
ParseRound(p, statements) ==
    LET Gathered(q) ==
            [p |-> Advance(IF q.ok THEN q ELSE Synchronize(q)),
             statements |-> IF q.ok /\ ~IsNone(q.node) THEN Append(statements, q.node) ELSE statements]
    IN IF CurIs(p, {"NEWLINE"}) THEN [p |-> Advance(p), statements |-> statements]
       ELSE Gathered(Parse("statement", p, Lowest))
RoundsEnd(p, stop) == ~p.ok \/ Cur(p).type \in stop \/ p.errors >= MaxErrors

\* The statements up to one of the types in stop.
ParseStatements(p, statements, stop) ==
    IF RoundsEnd(p, stop) THEN Return(p, statements)
    ELSE LET round == ParseRound(p, statements) IN ParseStatements(round.p, round.statements, stop)

Parse(what, p, precedence) ==
    CASE what = "expression" -> ParseExpression(p, precedence)
      [] what = "block" -> ParseBlockStatement(p)
      [] what = "statement" -> ParseStatement(p)
      [] what = "function" -> ParseFunctionLiteral(p)
=============================================================================
