------------------------------- MODULE Notation -------------------------------
(***************************************************************************)
(* How a syntax tree is written, from the language's description: operators *)
(* bind as in Python (README.md, the table of operators), and a block is    *)
(* indented below the line that opens it.  Parentheses stand only where an  *)
(* operand binds less tightly than its place asks.  What the parser reads   *)
(* back is compared with the tree that was written.                        *)
(***************************************************************************)
EXTENDS Syntax
LOCAL INSTANCE Integers
LOCAL INSTANCE Sequences
LOCAL INSTANCE SequencesExt
LOCAL INSTANCE TLC

\* The operators, loosest first.
Ladder == <<{"if"}, {"??"}, {"or"}, {"and", "not"}, {"==", "!="}, {"<", ">", "<=", ">=", "in", "is"},
            {".."}, {"|"}, {"^"}, {"&"}, {"<<", ">>"}, {"+", "-"}, {"*", "/", "//", "%"}, {"sign"},
            {"**"}, {"part"}>>
Rung(op) == CHOOSE i \in DOMAIN Ladder : op \in Ladder[i]
Tightest == Len(Ladder) + 1

Binds(e) ==
    CASE e.k \in {"conditional", "function"} -> Rung("if")
      [] e.k = "infix" -> Rung(e.op)
      [] e.k = "prefix" -> IF e.op = "not" THEN Rung("not") ELSE Rung("sign")
      [] e.k \in {"call", "index", "slice", "member"} -> Rung("part")
      [] OTHER -> Tightest

Commas(texts) ==
    FoldLeft(LAMBDA all, i : all \o (IF i = 1 THEN "" ELSE ", ") \o texts[i], "",
             [i \in 1..Len(texts) |-> i])

RECURSIVE Text(_)
\* An expression where one that binds at least as tightly as this rung may stand.
InPlace(e, rung) == IF Binds(e) >= rung THEN Text(e) ELSE "(" \o Text(e) \o ")"
Loose(e) == InPlace(e, Rung("if"))
Several(es) == Commas([i \in 1..Len(es) |-> Loose(es[i])])

Parameters(fn) ==
    Commas([i \in 1..Len(fn.parameters) |->
        fn.parameters[i] \o (IF IsNone(fn.defaults[i]) THEN "" ELSE " = " \o Loose(fn.defaults[i]))
            \o (IF fn.variadic /\ i = Len(fn.parameters) THEN "..." ELSE "")])

Text(e) ==
    CASE e.k = "identifier" -> e.name
      [] e.k \in {"integer"} -> ToString(e.value)
      [] e.k = "string" -> "\"" \o e.value \o "\""
      [] e.k = "boolean" -> IF e.value THEN "true" ELSE "false"
      [] e.k = "null" -> "null"
      [] e.k = "interpolated" ->
            "\"" \o FoldLeft(LAMBDA all, part : all \o (IF part.k = "string" THEN part.value
                                                        ELSE "{" \o Loose(part) \o "}"), "", e.parts) \o "\""
      [] e.k = "list" -> "[" \o Several(e.elements) \o "]"
      [] e.k = "tuple" -> "(" \o Several(e.elements) \o (IF Len(e.elements) = 1 THEN ",)" ELSE ")")
      [] e.k = "map" -> "{" \o Commas([i \in 1..Len(e.pairs) |->
                                          Loose(e.pairs[i][1]) \o ": " \o Loose(e.pairs[i][2])]) \o "}"
      [] e.k = "index" -> InPlace(e.object, Rung("part")) \o "[" \o Loose(e.index) \o "]"
      [] e.k = "slice" -> InPlace(e.object, Rung("part")) \o "["
                              \o (IF IsNone(e.index) THEN "" ELSE Loose(e.index)) \o ":"
                              \o (IF IsNone(e.indexEnd) THEN "" ELSE Loose(e.indexEnd)) \o "]"
      [] e.k = "member" -> InPlace(e.object, Rung("part")) \o (IF e.safe THEN "?." ELSE ".") \o e.property
      [] e.k = "call" -> InPlace(e.function, Rung("part")) \o "(" \o Several(e.arguments) \o ")"
      [] e.k = "conditional" ->
            InPlace(e.thenExpr, Rung("if") + 1) \o " if " \o InPlace(e.condition, Rung("if") + 1)
                \o " else " \o Loose(e.elseExpr)
      [] e.k = "prefix" -> IF e.op = "not" THEN "not " \o InPlace(e.right, Rung("not") + 1)
                           ELSE e.op \o InPlace(e.right, Rung("sign") + 1)
      [] e.k = "infix" ->
            LET rung == Rung(e.op)
                right == e.op = "**"        \* which alone associates to the right
            IN InPlace(e.left, IF right THEN rung + 1 ELSE rung) \o " " \o e.op \o " "
                   \o InPlace(e.right, IF right THEN rung ELSE rung + 1)
      [] e.k = "function" -> "fn(" \o Parameters(e) \o ") -> " \o Loose(e.body.statements[1].returnValue)

-----------------------------------------------------------------------------
RECURSIVE Written(_, _)
\* The lines of a block, indented by margin.
Lines(statements, margin) == FoldLeft(LAMBDA all, s : all \o Written(s, margin), "", statements)
Block(head, block, margin) == margin \o head \o ":\n" \o Lines(block.statements, margin \o "  ")

Written(s, margin) ==
    LET Line(text) == margin \o text \o "\n"
    IN CASE s.k = "set" -> Line((IF s.isConst THEN "const " ELSE "set ") \o Commas(s.names) \o " = " \o Several(s.values))
         [] s.k = "assign" -> Line(Text(s.target) \o " " \o s.op \o " " \o Loose(s.value))
         [] s.k = "say" -> Line("say " \o Several(s.values))
         [] s.k = "throw" -> Line("throw " \o Loose(s.value))
         [] s.k = "pass" -> Line("pass")
         [] s.k = "break" -> Line("break")
         [] s.k = "continue" -> Line("continue")
         [] s.k = "return" -> Line("return " \o Loose(s.returnValue))
         [] s.k = "while" -> Block((IF s.untilForm THEN "until " ELSE "while ") \o Loose(s.condition), s.body, margin)
         [] s.k = "for" -> Block("for " \o Commas(s.variables) \o " in " \o Loose(s.iterable), s.body, margin)
         [] s.k = "repeat" -> Block("repeat " \o Loose(s.count), s.body, margin)
         [] s.k = "if" -> Block("if " \o Loose(s.condition), s.consequence, margin)
                              \o (IF IsNone(s.alternative) THEN "" ELSE Block("else", s.alternative, margin))
         [] s.k = "try" -> Block("try", s.tryBlock, margin)
                               \o (IF IsNone(s.catchBlock) THEN "" ELSE Block("catch " \o s.catchName, s.catchBlock, margin))
                               \o (IF IsNone(s.finallyBlock) THEN "" ELSE Block("finally", s.finallyBlock, margin))
         [] s.k = "expression" ->
               IF s.expression.k = "function" /\ s.expression.name # ""
               THEN Block("fn " \o s.expression.name \o "(" \o Parameters(s.expression) \o ")", s.expression.body, margin)
               ELSE Line(Loose(s.expression))
=============================================================================
