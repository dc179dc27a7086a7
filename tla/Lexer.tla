-------------------------------- MODULE Lexer --------------------------------
(***************************************************************************)
(* src/lexer/lexer.hpp: characters to tokens.  The lexer's fields are the   *)
(* record l: the source, the position in it, the stack of indentations, the *)
(* queue of tokens that were found together, whether a line starts here and *)
(* the depth of open brackets, inside which the layout does not count.  A   *)
(* token is [type, text]; operators and keywords are their own type.  Lines *)
(* and columns are left out, and so are imaginary numbers.                  *)
(***************************************************************************)
LOCAL INSTANCE Integers
LOCAL INSTANCE Sequences
LOCAL INSTANCE SequencesExt
LOCAL INSTANCE FiniteSetsExt

Keywords ==
    {"set", "say", "if", "else", "match", "use", "as", "try", "catch", "throw", "const",
     "pass", "repeat", "until", "is", "struct", "enum", "this", "new", "finally", "yield",
     "while", "for", "in", "break", "continue", "fn", "return", "and", "or", "not",
     "true", "false", "null"}

Operators ==
    {"=", "==", "!=", "+", "+=", "-", "->", "-=", "*", "**", "*=", "/", "//=", "//", "/=",
     "%", "%=", "&", "&=", "|", "|=", "^", "^=", "~", "<<=", "<<", "<=", "<", ">>=", ">>",
     ">=", ">", ":", "...", "..", ".", "??=", "??", "?.", ",", "(", ")", "[", "]", "{", "}"}

Token(type, text) == [type |-> type, text |-> text]
Symbol(type) == Token(type, type)
Illegal == Token("ILLEGAL", "!")
Dedent == Token("DEDENT", "")
EndOfFile == Token("EOF", "")

\* The part of a text from i to j, as far as it goes.
Part(s, i, j) == IF i > Len(s) THEN "" ELSE SubSeq(s, i, IF j < Len(s) THEN j ELSE Len(s))
CharAt(s, i) == Part(s, i, i)
Characters(s) == {CharAt(s, i) : i \in 1..Len(s)}
Digits == Characters("0123456789")
HexDigits == Digits \cup Characters("abcdefABCDEF")
Letters == Characters("abcdefghijklmnopqrstuvwxyzABCDEFGHIJKLMNOPQRSTUVWXYZ_")
Blanks == {" ", "\t"}

\* The character k after the current one; "" at the end.
Ch(l, k) == CharAt(l.src, l.at + k)
Ahead(l, text) == Part(l.src, l.at, l.at + Len(text) - 1) = text

\* The first position from i on whose character is not one of chars.
RECURSIVE Skip(_, _, _)
Skip(s, i, chars) ==
    IF i <= Len(s) /\ CharAt(s, i) \in chars THEN Skip(s, i + 1, chars) ELSE i
\* The first one from i on that is, or the end.
RECURSIVE Reach(_, _, _)
Reach(s, i, chars) ==
    IF i <= Len(s) /\ CharAt(s, i) \notin chars THEN Reach(s, i + 1, chars) ELSE i

RECURSIVE AfterBlockComment(_, _)
AfterBlockComment(s, i) ==
    IF i > Len(s) THEN i
    ELSE IF Part(s, i, i + 2) = "###" THEN i + 3
    ELSE AfterBlockComment(s, i + 1)

\* The position of the fence that closes a string, or of the end of the line or
\* of the source.  A quote inside the braces of an interpolation does not close.
RECURSIVE StringEnd(_, _, _, _, _)
StringEnd(s, i, fence, braces, quoted) ==
    LET c == CharAt(s, i)
    IN CASE c = "" \/ (c = "\n" /\ fence = "\"") -> i
         [] c = "\\" -> IF i = Len(s) THEN i + 1 ELSE StringEnd(s, i + 2, fence, braces, quoted)
         [] c # "" /\ quoted -> StringEnd(s, i + 1, fence, braces, c # "\"")
         [] c = "{" /\ ~quoted -> StringEnd(s, i + 1, fence, braces + 1, FALSE)
         [] c = "}" /\ ~quoted -> StringEnd(s, i + 1, fence, IF braces > 0 THEN braces - 1 ELSE 0, FALSE)
         [] c = "\"" /\ ~quoted ->
               IF braces > 0 THEN StringEnd(s, i + 1, fence, braces, TRUE)
               ELSE IF Part(s, i, i + Len(fence) - 1) = fence THEN i
               ELSE StringEnd(s, i + 1, fence, braces, FALSE)
         [] OTHER -> StringEnd(s, i + 1, fence, braces, FALSE)

Without(s, c) ==
    FoldLeft(LAMBDA kept, i : IF CharAt(s, i) = c THEN kept ELSE kept \o CharAt(s, i),
             "", [i \in 1..Len(s) |-> i])

RECURSIVE NumberEnd(_, _)
NumberEnd(s, i) ==
    IF CharAt(s, i) \in Digits \cup {"_"} \/ (CharAt(s, i) = "." /\ CharAt(s, i + 1) \in Digits)
    THEN NumberEnd(s, i + 1) ELSE i

\* Where the exponent that may start at i ends; i without one.
ExponentEnd(s, i) ==
    LET sign == IF CharAt(s, i + 1) \in {"+", "-"} THEN 1 ELSE 0
    IN IF CharAt(s, i) \in {"e", "E"} /\ CharAt(s, i + 1 + sign) \in Digits
       THEN Skip(s, i + 1 + sign, Digits \cup {"_"}) ELSE i

Found(l, token, next) == [l EXCEPT !.tok = token, !.at = next]

ReadNumber(l) ==
    LET s == l.src
        Text(end) == Without(Part(s, l.at, end - 1), "_")
        based == CharAt(s, l.at) = "0" /\ Ch(l, 1) \in {"x", "X", "b", "B"}
        digits == IF Ch(l, 1) \in {"x", "X"} THEN HexDigits ELSE {"0", "1"}
        basedEnd == Skip(s, l.at + 2, digits \cup {"_"})
        whole == NumberEnd(s, l.at)
        end == ExponentEnd(s, whole)
        dots == Cardinality({i \in l.at..(whole - 1) : CharAt(s, i) = "."})
    IN IF based
       THEN Found(l, IF Len(Text(basedEnd)) = 2 \/ CharAt(s, basedEnd) \in Digits \cup Letters
                    THEN Illegal ELSE Token("int", Text(basedEnd)), basedEnd)
       ELSE Found(l, IF dots > 1 THEN Illegal
                    ELSE Token(IF dots = 1 \/ end > whole THEN "float" ELSE "int", Text(end)), end)

ReadString(l, fence) ==
    LET from == l.at + Len(fence)
        end == StringEnd(l.src, from, fence, 0, FALSE)
        c == CharAt(l.src, end)
    IN IF c = "\"" THEN Found(l, Token("string", Part(l.src, from, end - 1)), end + Len(fence))
       ELSE [Found(l, Illegal, IF c = "\n" THEN end + 1 ELSE end) EXCEPT !.fresh = (c = "\n")]

ReadIdentifier(l) ==
    LET end == Skip(l.src, l.at, Letters \cup Digits)
        text == Part(l.src, l.at, end - 1)
    IN Found(l, IF text \in Keywords THEN Symbol(text) ELSE Token("identifier", text), end)

\* The longest operator here; brackets open and close the part without layout.
ReadOperator(l) ==
    LET Text(n) == Part(l.src, l.at, l.at + n - 1)
        text == CASE Text(3) \in Operators -> Text(3)
                  [] Text(2) \in Operators -> Text(2)
                  [] OTHER -> Text(1)
        depth == CASE text \in {"(", "[", "{"} -> l.depth + 1
                   [] text \in {")", "]", "}"} /\ l.depth > 0 -> l.depth - 1
                   [] OTHER -> l.depth
    IN IF Text(2) \in {"&&", "||"} THEN Found(l, Illegal, l.at + 2)
       ELSE IF text \notin Operators THEN Found(l, Illegal, l.at + 1)
       ELSE [Found(l, Symbol(text), l.at + Len(text)) EXCEPT !.depth = depth]

\* The open blocks end with the source.
AtEnd(l) ==
    [l EXCEPT !.queue = @ \o [i \in 1..(Len(l.indents) - 1) |-> Dedent] \o <<EndOfFile>>,
              !.indents = <<0>>]

\* The blocks that a line with this many blanks in front leaves.
\* mutant: a line closes one block, however many it leaves.
DedentOnce(l, blanks) ==
    [l EXCEPT !.indents = SelectSeq(@, LAMBDA n : n <= blanks), !.queue = <<Dedent>>]
DedentTo(l, blanks) ==
    LET kept == SelectSeq(l.indents, LAMBDA n : n <= blanks)
        queue == [i \in 1..(Len(l.indents) - Len(kept)) |-> Dedent]
    IN [l EXCEPT !.indents = kept,
                 !.queue = IF Last(kept) = blanks THEN queue ELSE <<Illegal>> \o queue]

RECURSIVE NextToken(_)

\* The first characters of a line: blank lines and comments do not count, the
\* others open a block, close some, or go on with the one they are in.
StartLine(l) ==
    LET first == Skip(l.src, l.at, Blanks)
        blanks == FoldLeft(LAMBDA n, i : n + (IF CharAt(l.src, i) = " " THEN 1 ELSE 4),
                           0, [i \in 1..(first - l.at) |-> l.at + i - 1])
        c == CharAt(l.src, first)
        here == [l EXCEPT !.at = first, !.fresh = FALSE]
        eol == Reach(l.src, first, {"\n"})
    IN CASE Ahead(here, "###") ->
               NextToken([here EXCEPT !.at = AfterBlockComment(l.src, first + 3), !.fresh = TRUE])
         [] c \in {"\n", "#"} -> NextToken([here EXCEPT !.at = IF eol <= Len(l.src) THEN eol + 1 ELSE eol,
                                                        !.fresh = (eol <= Len(l.src))])
         [] c = "" -> NextToken(AtEnd(here))
         [] blanks > Last(l.indents) ->
               NextToken([here EXCEPT !.indents = Append(@, blanks), !.queue = <<Token("INDENT", "")>>])
         [] blanks < Last(l.indents) -> NextToken(DedentTo(here, blanks))
         [] OTHER -> NextToken(here)

\* The rest of a line.
InLine(l) ==
    LET start == Skip(l.src, l.at, Blanks)
        comment == CharAt(l.src, start) = "#"
        here == [l EXCEPT !.at = IF comment THEN Reach(l.src, start, {"\n"}) ELSE start,
                          !.fresh = FALSE]
        c == Ch(here, 0)
    IN CASE Part(l.src, start, start + 2) = "###" ->
               NextToken([here EXCEPT !.at = AfterBlockComment(l.src, start + 3)])
         [] c = "" -> NextToken(AtEnd(here))
         [] c = "\n" /\ l.depth > 0 -> NextToken([here EXCEPT !.at = @ + 1])
         [] c = "\n" -> [Found(here, Token("NEWLINE", ""), here.at + 1) EXCEPT !.fresh = TRUE]
         [] c = "\"" -> ReadString(here, IF Ahead(here, "\"\"\"") THEN "\"\"\"" ELSE "\"")
         [] c \in Letters -> ReadIdentifier(here)
         [] c \in Digits -> ReadNumber(here)
         [] OTHER -> ReadOperator(here)

NextToken(l) ==
    IF l.queue # <<>> THEN [l EXCEPT !.tok = Head(l.queue), !.queue = Tail(@)]
    ELSE IF l.fresh /\ l.depth = 0 THEN StartLine(l)
    ELSE InLine(l)

NewLexer(src) == [src |-> src, at |-> 1, indents |-> <<0>>, queue |-> <<>>, fresh |-> TRUE,
                  depth |-> 0, tok |-> EndOfFile]

RECURSIVE TokensFrom(_, _)
TokensFrom(l, tokens) ==
    IF l.tok = EndOfFile THEN Append(tokens, EndOfFile)
    ELSE TokensFrom(NextToken(l), Append(tokens, l.tok))

Tokens(src) == TokensFrom(NextToken(NewLexer(src)), <<>>)
=============================================================================
