------------------------------- MODULE Values -------------------------------
(***************************************************************************)
(* The values of the language and the operators on them: the binary        *)
(* operators of src/vm/runtime.hpp (the path every operand pair can take)   *)
(* and the shortcuts src/vm/vm.hpp takes for numbers, equality, truth, the  *)
(* displayed form, indexing, member access and the assignments to them.     *)
(*                                                                         *)
(* A value is a tuple that starts with its type.  Numbers, booleans, null   *)
(* and strings are immediate; a list, tuple, map, set, range, struct or     *)
(* function is a reference into a heap h, a sequence of objects.  A float   *)
(* is a fraction <<n, d>> in lowest terms, with d = 0 for the infinities    *)
(* and, when n = 0 too, NaN: rounding is left out of the arithmetic, and    *)
(* kept where an integer becomes a double.                                  *)
(***************************************************************************)
EXTENDS Words
LOCAL INSTANCE Integers
LOCAL INSTANCE Sequences
LOCAL INSTANCE SequencesExt
LOCAL INSTANCE TLC
LOCAL INSTANCE Bitwise

CONSTANTS
    Precision,  \* bits of a double's fraction (53)
    FloatMax,   \* the largest finite double
    RepeatMax,  \* the longest string repetition (1000000)
    RenderMax   \* the deepest comparison or display (MAX_RENDER_DEPTH)

Nil == <<"null">>
Bool(b) == <<"bool", b>>
Integer(n) == <<"int", n>>
Float(x) == <<"float", x>>
Str(s) == <<"string", s>>
Err(message) == <<"error", message, Nil>>

TypeName(v) == v[1]
IsErr(v) == v[1] = "error"
IsInt(v) == v[1] = "int"
IsFloat(v) == v[1] = "float"
IsNumber(v) == IsInt(v) \/ IsFloat(v)

-----------------------------------------------------------------------------
(* Doubles *)

RECURSIVE Gcd(_, _)
Gcd(a, b) == IF b = 0 THEN a ELSE Gcd(b, a % b)

NaN == <<0, 0>>
IsNaN(x) == x = NaN
Fraction(n, d) ==
    IF d = 0 THEN <<Signum(n), 0>>
    ELSE LET s == Signum(d)
             g == Gcd(Magnitude(n), Magnitude(d))
         IN IF Magnitude(n) > FloatMax * Magnitude(d) THEN <<Signum(n) * s, 0>>
            ELSE <<(s * n) \div g, (s * d) \div g>>

\* An integer that needs more bits than a double's fraction loses the rest,
\* to the nearest even.
Rounded(n) ==
    LET m == Magnitude(n)
        u == IF m < 2^Precision THEN 1
             ELSE 2^(CHOOSE k \in 1..(2 * Width) : m \div 2^k < 2^Precision
                                              /\ m \div 2^(k - 1) >= 2^Precision)
        q == m \div u
        r == m % u
        up == 2 * r > u \/ (2 * r = u /\ q % 2 = 1)
    IN Signum(n) * u * (IF up THEN q + 1 ELSE q)

Double(v) == IF IsInt(v) THEN <<Rounded(v[2]), 1>> ELSE v[2]

FAdd(x, y) ==
    IF x[2] = 0 /\ y[2] = 0 THEN IF x = y THEN x ELSE NaN
    ELSE IF x[2] = 0 THEN x ELSE IF y[2] = 0 THEN y
    ELSE Fraction(x[1] * y[2] + y[1] * x[2], x[2] * y[2])
FNeg(x) == <<-x[1], x[2]>>
FMul(x, y) == Fraction(x[1] * y[1], x[2] * y[2])
FDiv(x, y) == Fraction(x[1] * y[2] * Signum(y[1]), x[2] * Magnitude(y[1]))
FFloor(x) == IF x[2] = 0 THEN x ELSE <<x[1] \div x[2], 1>>
FLess(x, y) ==
    /\ ~IsNaN(x) /\ ~IsNaN(y)
    /\ IF x[2] = 0 \/ y[2] = 0
       THEN (IF x[2] = 0 THEN 2 * x[1] ELSE 0) < (IF y[2] = 0 THEN 2 * y[1] ELSE 0)
       ELSE x[1] * y[2] < y[1] * x[2]
FEqual(x, y) == ~IsNaN(x) /\ x = y
FIsZero(x) == x[1] = 0 /\ x[2] # 0
FMod(x, y) ==
    IF x[2] = 0 \/ IsNaN(y) THEN NaN
    ELSE IF y[2] = 0 THEN IF x[1] * y[1] >= 0 THEN x ELSE y
    ELSE FAdd(x, FNeg(FMul(y, FFloor(FDiv(x, y)))))

RECURSIVE FPower(_, _)
FPower(x, k) == IF k = 0 THEN <<1, 1>> ELSE FMul(x, FPower(x, k - 1))
\* std::pow at the integral exponents, which are the only ones modelled.
Pow(x, k) == LET p == FPower(x, Magnitude(k))
             IN IF k >= 0 THEN p ELSE IF p[1] = 0 THEN <<1, 0>> ELSE FDiv(<<1, 1>>, p)

-----------------------------------------------------------------------------
(* Operators on numbers *)

Compare(op, less, equal, greater) ==
    CASE op = "<"  -> less
      [] op = ">"  -> greater
      [] op = "<=" -> less \/ equal
      [] op = ">=" -> greater \/ equal

Comparisons == {"<", ">", "<=", ">="}

\* Bit operations on the two's-complement words.
Word(n) == n % 2^Width
BitAnd(l, r) == Wrap(Word(l) & Word(r))
BitOr(l, r) == Wrap(Word(l) | Word(r))
BitXor(l, r) == Wrap(Word(l) ^^ Word(r))

\* Through the double, so inexact above 2^Precision; an integral result of a
\* natural exponent stays an integer while it fits.
IntPower(l, r) ==
    LET p == Pow(<<Rounded(l), 1>>, r)
    IN IF r >= 0 /\ p[2] = 1 /\ Magnitude(p[1]) < 2^(Width - 1)
       THEN Integer(Rounded(p[1])) ELSE Float(p)

IntOp(op, l, r) ==
    CASE op = "+" -> Integer(Wrap(l + r))
      [] op = "-" -> Integer(Wrap(l - r))
      [] op = "*" -> Integer(Wrap(l * r))
      [] op = "/" -> IF r = 0 THEN Err("division by zero")
                     ELSE Float(FDiv(<<Rounded(l), 1>>, <<Rounded(r), 1>>))
      [] op = "//" -> IF r = 0 THEN Err("division by zero") ELSE Integer(FloorDiv(l, r))
      [] op = "%" -> IF r = 0 THEN Err("modulo by zero") ELSE Integer(FloorMod(l, r))
      [] op = "**" -> IntPower(l, r)
      [] op = "&" -> Integer(BitAnd(l, r))
      [] op = "|" -> Integer(BitOr(l, r))
      [] op = "^" -> Integer(BitXor(l, r))
      [] op \in {"<<", ">>"} ->
            IF r < 0 \/ r >= Width THEN Err("shift amount out of range")
            ELSE Integer(IF op = "<<" THEN Wrap(l * 2^r) ELSE l \div 2^r)
      [] op \in Comparisons -> Bool(Compare(op, l < r, l = r, l > r))

FloatOps == {"+", "-", "*", "/", "//", "%", "**"} \cup Comparisons

FloatOp(op, x, y) ==
    CASE op = "+" -> Float(FAdd(x, y))
      [] op = "-" -> Float(FAdd(x, FNeg(y)))
      [] op = "*" -> Float(FMul(x, y))
      [] op = "/" -> IF FIsZero(y) THEN Err("division by zero") ELSE Float(FDiv(x, y))
      [] op = "//" -> IF FIsZero(y) THEN Err("division by zero") ELSE Float(FFloor(FDiv(x, y)))
      [] op = "%" -> IF FIsZero(y) THEN Err("modulo by zero") ELSE Float(FMod(x, y))
      [] op = "**" -> Float(Pow(x, y[1]))
      [] op \in Comparisons -> Bool(Compare(op, FLess(x, y), FEqual(x, y), FLess(y, x)))

-----------------------------------------------------------------------------
(* Objects.  An operation that may allocate returns the heap with its value. *)

Has(v, types) == v[1] \in types
Object(h, v) == h[v[2]]
Plain(h, v) == [heap |-> h, value |-> v]
New(h, object) == [heap |-> Append(h, object), value |-> <<object.type, Len(h) + 1>>]
Store(h, v, object) == [h EXCEPT ![v[2]] = object]

ListObject(elems) == [type |-> "list", elems |-> elems]
TupleObject(elems) == [type |-> "tuple", elems |-> elems]
MapObject(entries) == [type |-> "map", entries |-> entries, frozen |-> FALSE, module |-> ""]
SetObject(entries) == [type |-> "set", entries |-> entries]
RangeObject(from, to, step) == [type |-> "range", from |-> from, to |-> to, step |-> step]

\* Keys are strings, integers and booleans, and differ when their types do.
IsValidMapKey(key) == Has(key, {"string", "int", "bool"})
Position(entries, key) == SelectInSeq(entries, LAMBDA e : e[1] = key)
Lookup(entries, key) == IF Position(entries, key) = 0 THEN <<"absent">>
                        ELSE entries[Position(entries, key)][2]
Put(entries, key, val) ==
    IF ~IsValidMapKey(key) THEN entries
    ELSE IF Position(entries, key) = 0 THEN Append(entries, <<key, val>>)
    ELSE [entries EXCEPT ![Position(entries, key)][2] = val]
PutAll(entries, more) == FoldLeft(LAMBDA all, e : Put(all, e[1], e[2]), entries, more)

Truthy(h, v) ==
    CASE v[1] = "null" -> FALSE
      [] v[1] = "bool" -> v[2]
      [] v[1] = "int" -> v[2] # 0
      [] v[1] = "float" -> ~FIsZero(v[2])
      [] v[1] = "string" -> v[2] # ""
      [] v[1] = "list" -> Object(h, v).elems # <<>>
      [] v[1] = "map" -> Object(h, v).entries # <<>>
      [] v[1] = "range" -> RangeLength(Object(h, v)) > 0
      [] OTHER -> TRUE

\* Two values reached directly compare integers exactly; inside a map they are
\* objects, and objects compare through doubles.
RECURSIVE Equal(_, _, _, _, _)
Equal(h, a, b, depth, boxed) ==
    IF IsInt(a) /\ IsInt(b) /\ ~boxed THEN a = b
    ELSE IF IsNumber(a) /\ IsNumber(b) THEN FEqual(Double(a), Double(b))
    ELSE IF ~Has(a, {"list", "tuple", "map", "set", "range", "struct"}) THEN a = b
    ELSE /\ depth < RenderMax
         /\ a[1] = b[1]
         /\ LET x == Object(h, a)
                y == Object(h, b)
                Same(s, t, inside) == /\ Len(s) = Len(t)
                                      /\ \A i \in 1..Len(s) : Equal(h, s[i], t[i], depth + 1, inside)
            IN CASE Has(a, {"list", "tuple"}) -> Same(x.elems, y.elems, FALSE)
                 [] Has(a, {"map"}) ->
                       /\ Len(x.entries) = Len(y.entries)
                       /\ \A i \in 1..Len(x.entries) :
                              LET other == Lookup(y.entries, x.entries[i][1])
                              IN other # <<"absent">>
                                 /\ Equal(h, x.entries[i][2], other, depth + 1, TRUE)
                 [] Has(a, {"set"}) ->
                       /\ Len(x.entries) = Len(y.entries)
                       /\ \A i \in 1..Len(x.entries) : Position(y.entries, x.entries[i][1]) # 0
                 [] Has(a, {"range"}) -> x = y
                 [] Has(a, {"struct"}) -> x.shape = y.shape /\ Same(x.slots, y.slots, FALSE)

Same(h, a, b) == Equal(h, a, b, 0, FALSE)

-----------------------------------------------------------------------------
(* Display *)

FloatText(x) ==
    IF IsNaN(x) THEN "nan"
    ELSE IF x[2] = 0 THEN IF x[1] > 0 THEN "inf" ELSE "-inf"
    ELSE IF x[2] = 1 THEN ToString(x[1]) \o ".0"
    ELSE ToString(x[1]) \o "/" \o ToString(x[2])

Join(texts, separator) ==
    FoldLeft(LAMBDA text, i : text \o (IF i = 1 THEN "" ELSE separator) \o texts[i],
             "", [i \in 1..Len(texts) |-> i])

RECURSIVE Render(_, _, _, _)
Render(h, v, depth, quoted) ==
    LET Inner(w) == IF depth >= RenderMax THEN "..." ELSE Render(h, w, depth + 1, TRUE)
        Each(seq) == Join([i \in 1..Len(seq) |-> Inner(seq[i])], ", ")
        Keys(entries) == [i \in 1..Len(entries) |-> entries[i][1]]
    IN CASE v[1] = "null" -> "null"
         [] v[1] = "bool" -> IF v[2] THEN "true" ELSE "false"
         [] v[1] = "int" -> ToString(v[2])
         [] v[1] = "float" -> FloatText(v[2])
         [] v[1] = "string" -> IF quoted THEN "'" \o v[2] \o "'" ELSE v[2]
         [] v[1] = "list" -> "[" \o Each(Object(h, v).elems) \o "]"
         [] v[1] = "tuple" -> "(" \o Each(Object(h, v).elems)
                               \o (IF Len(Object(h, v).elems) = 1 THEN ",)" ELSE ")")
         [] v[1] = "set" -> "Set{" \o Each(Keys(Object(h, v).entries)) \o "}"
         [] v[1] = "map" ->
               IF Object(h, v).module # "" THEN "<module " \o Object(h, v).module \o ">"
               ELSE LET entries == Object(h, v).entries
                    IN "{" \o Join([i \in 1..Len(entries) |->
                                     Inner(entries[i][1]) \o ": " \o Inner(entries[i][2])], ", ")
                           \o "}"
         [] v[1] = "range" -> LET r == Object(h, v)
                              IN "range(" \o ToString(r.from) \o ", " \o ToString(r.to)
                                  \o (IF r.step = 1 THEN "" ELSE ", " \o ToString(r.step)) \o ")"
         [] v[1] = "struct" ->
               LET shape == h[Object(h, v).shape]
                   slots == Object(h, v).slots
               IN "{__type__: " \o shape.name
                      \o Join([i \in 1..Len(slots) |->
                                ", " \o shape.fields[i] \o ": " \o Inner(slots[i])], "") \o "}"
         [] v[1] = "fn" -> "fn"
         [] OTHER -> v[1]

Inspect(h, v) == Render(h, v, 0, FALSE)

-----------------------------------------------------------------------------
(* Operators on every pair of values *)

Alphabet == " !()+,-./0123456789:ABCDEFGHIJKLMNOPQRSTUVWXYZ[]_abcdefghijklmnopqrstuvwxyz{}"
At(s, i) == SubSeq(s, i, i)
Rank(c) == CHOOSE i \in 1..Len(Alphabet) : At(Alphabet, i) = c
StringLess(l, r) ==
    \E i \in 0..Len(l) :
        /\ i < Len(r)
        /\ SubSeq(l, 1, i) = SubSeq(r, 1, i)
        /\ i < Len(l) => Rank(At(l, i + 1)) < Rank(At(r, i + 1))
Occurs(needle, text) ==
    \E i \in 1..(Len(text) - Len(needle) + 1) : SubSeq(text, i, i + Len(needle) - 1) = needle

SetAlgebra(op, a, b) ==
    CASE op = "|" -> PutAll(PutAll(<<>>, a), b)
      [] op = "&" -> SelectSeq(a, LAMBDA e : Position(b, e[1]) # 0)
      [] op = "-" -> SelectSeq(a, LAMBDA e : Position(b, e[1]) = 0)

Membership(h, a, b) ==
    CASE Has(b, {"list", "tuple"}) -> Bool(\E i \in 1..Len(Object(h, b).elems) :
                                               Same(h, Object(h, b).elems[i], a))
      [] Has(b, {"string"}) -> IF ~Has(a, {"string"}) THEN Err("only a string is searched in a string")
                               ELSE Bool(Occurs(a[2], b[2]))
      [] Has(b, {"map", "set"}) -> Bool(Position(Object(h, b).entries, a) # 0)
      [] Has(b, {"range"}) ->
            LET r == Object(h, b)
            IN Bool(/\ IsInt(a)
                    /\ IF r.step > 0
                       THEN a[2] >= r.from /\ a[2] < r.to /\ (a[2] - r.from) % r.step = 0
                       ELSE a[2] <= r.from /\ a[2] > r.to /\ (r.from - a[2]) % (-r.step) = 0)
      [] OTHER -> Err("in expects a list, map, string or range on the right")

StringOp(op, l, r) ==
    CASE op = "+" -> Str(l \o r)
      [] op \in Comparisons -> Bool(Compare(op, StringLess(l, r), l = r, StringLess(r, l)))
      [] OTHER -> Err("unsupported operator on strings")

Repeated(s, count) ==
    IF count > RepeatMax THEN Err("string repetition limit exceeded")
    ELSE Str(FoldLeft(LAMBDA text, i : text \o s, "", [i \in 1..count |-> i]))

\* The operators as the runtime computes them for boxed operands.
Infix(h, op, a, b) ==
    CASE op \in {"==", "!="} -> Plain(h, Bool(Equal(h, a, b, 0, TRUE) = (op = "==")))
      [] Has(a, {"set"}) /\ Has(b, {"set"}) /\ op \in {"|", "&", "-"} ->
            New(h, SetObject(SetAlgebra(op, Object(h, a).entries, Object(h, b).entries)))
      [] op = "in" -> Plain(h, Membership(h, a, b))
      [] Has(a, {"string"}) /\ Has(b, {"string"}) -> Plain(h, StringOp(op, a[2], b[2]))
      [] Has(a, {"string"}) /\ IsInt(b) /\ op = "*" -> Plain(h, Repeated(a[2], b[2]))
      [] IsInt(a) /\ Has(b, {"string"}) /\ op = "*" -> Plain(h, Repeated(b[2], a[2]))
      [] Has(a, {"list"}) /\ Has(b, {"list"}) ->
            IF op = "+" THEN New(h, ListObject(Object(h, a).elems \o Object(h, b).elems))
            ELSE Plain(h, Err("unsupported operator on lists"))
      [] IsInt(a) /\ IsInt(b) -> Plain(h, IntOp(op, a[2], b[2]))
      [] IsNumber(a) /\ IsNumber(b) /\ op \in FloatOps -> Plain(h, FloatOp(op, Double(a), Double(b)))
      [] OTHER -> Plain(h, Err("unsupported operation"))

Negate(v) == CASE IsInt(v) -> Integer(Wrap(-v[2]))
               [] IsFloat(v) -> Float(FNeg(v[2]))
               [] OTHER -> Err("unary '-' only works on numbers")
BitNot(v) == IF IsInt(v) THEN Integer(-v[2] - 1) ELSE Err("'~' only works on integers")

-----------------------------------------------------------------------------
(* Elements, fields and slices *)

\* The slot of a field, 0 without one.
FieldSlot(shape, prop) == SelectLastInSeq(shape.fields, LAMBDA f : f = prop)
MethodOf(shape, prop) == SelectLastInSeq(shape.methods, LAMBDA m : m[1] = prop)

Member(h, v, prop) ==
    CASE Has(v, {"struct"}) ->
            LET shape == h[Object(h, v).shape]
            IN IF FieldSlot(shape, prop) # 0 THEN Object(h, v).slots[FieldSlot(shape, prop)]
               ELSE IF MethodOf(shape, prop) # 0 THEN shape.methods[MethodOf(shape, prop)][2]
               ELSE IF prop = "__type__" THEN Str(shape.name)
               ELSE Err("struct has no field")
      [] Has(v, {"map"}) ->
            LET val == Lookup(Object(h, v).entries, Str(prop))
            IN IF val # <<"absent">> THEN val
               ELSE Err(IF Object(h, v).module # "" THEN "module has no member" ELSE "key not in map")
      [] OTHER -> Err("'.' access expects a map or module")

Element(seq, idx) ==
    IF ~IsInt(idx) THEN Err("index must be an integer")
    ELSE IF FromEnd(idx[2], Len(seq)) = 0 THEN Err("index out of range")
    ELSE seq[FromEnd(idx[2], Len(seq))]

Index(h, v, idx) ==
    CASE Has(v, {"list", "tuple"}) -> Element(Object(h, v).elems, idx)
      [] Has(v, {"string"}) -> Element([i \in 1..Len(v[2]) |-> Str(At(v[2], i))], idx)
      [] Has(v, {"map"}) ->
            IF ~IsValidMapKey(idx) THEN Err("map keys must be string, int or bool")
            ELSE LET val == Lookup(Object(h, v).entries, idx)
                 IN IF val = <<"absent">> THEN Err("key not in map") ELSE val
      [] Has(v, {"struct"}) -> IF Has(idx, {"string"}) THEN Member(h, v, idx[2])
                               ELSE Err("struct fields are accessed by name")
      [] OTHER -> Err("indexing only works on list, map and string")

\* An assignment returns the heap with null, or the heap unchanged with the error.
SetField(h, v, prop, val) ==
    LET slot == FieldSlot(h[Object(h, v).shape], prop)
    IN IF slot = 0 THEN Plain(h, Err("struct has no field"))
       ELSE Plain([h EXCEPT ![v[2]].slots[slot] = val], Nil)

SetEntry(h, v, key, val) ==
    IF Object(h, v).frozen THEN Plain(h, Err("module cannot be modified"))
    ELSE IF ~IsValidMapKey(key) THEN Plain(h, Err("map keys must be string, int or bool"))
    ELSE Plain([h EXCEPT ![v[2]].entries = Put(@, key, val)], Nil)

SetMember(h, v, prop, val) ==
    CASE Has(v, {"struct"}) -> SetField(h, v, prop, val)
      [] Has(v, {"map"}) -> SetEntry(h, v, Str(prop), val)
      [] OTHER -> Plain(h, Err("member assignment only works on maps"))

SetIndex(h, v, idx, val) ==
    CASE Has(v, {"list"}) ->
            LET at == Element(Object(h, v).elems, idx)
            IN IF IsErr(at) THEN Plain(h, at)
               ELSE Plain([h EXCEPT ![v[2]].elems[FromEnd(idx[2], Len(Object(h, v).elems))] = val], Nil)
      [] Has(v, {"map"}) -> SetEntry(h, v, idx, val)
      [] Has(v, {"struct"}) -> IF Has(idx, {"string"}) THEN SetField(h, v, idx[2], val)
                               ELSE Plain(h, Err("struct fields are accessed by name"))
      [] OTHER -> Plain(h, Err("indexed assignment only works on list and map"))

\* A bound of a slice: from the end when negative, and clamped.
Slice(h, v, from, to) ==
    LET Bound(b, n, default) == IF IsInt(b) THEN Norm(b[2], n) ELSE default
        Part(seq) == SubSeq(seq, Bound(from, Len(seq), 0) + 1, Bound(to, Len(seq), Len(seq)))
    IN CASE ~Has(from, {"null", "int"}) \/ ~Has(to, {"null", "int"}) ->
               Plain(h, Err("slice bounds must be integers"))
         [] Has(v, {"list"}) -> New(h, ListObject(Part(Object(h, v).elems)))
         [] Has(v, {"string"}) -> Plain(h, Str(Part(v[2])))
         [] OTHER -> Plain(h, Err("slicing only works on list and string"))
=============================================================================
