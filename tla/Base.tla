--------------------------------- MODULE Base ---------------------------------
(***************************************************************************)
(* src/modules/base.hpp: the builtin functions every program starts with.   *)
(* A builtin takes the heap and its arguments and returns the heap with the *)
(* result, which is an error when the arguments are not ones it takes.      *)
(* Those that call a function back are in Machine.  Bytes and complex       *)
(* numbers are left out, and so are random numbers, the clock and the       *)
(* console.                                                                *)
(***************************************************************************)
EXTENDS Values
LOCAL INSTANCE Integers
LOCAL INSTANCE Sequences
LOCAL INSTANCE SequencesExt
LOCAL INSTANCE FiniteSetsExt
LOCAL INSTANCE Lexer

Elems(h, v) == Object(h, v).elems
Entries(h, v) == Object(h, v).entries
KeysOf(entries) == [i \in 1..Len(entries) |-> entries[i][1]]
NewList(h, elems) == New(h, ListObject(elems))
\* A list of new two-element lists.
NewPairs(h, pairs) ==
    NewList(h \o [i \in 1..Len(pairs) |-> ListObject(pairs[i])],
            [i \in 1..Len(pairs) |-> <<"list", Len(h) + i>>])
Rejected(h) == Plain(h, Err("argument"))

LengthOf(h, x) ==
    CASE Has(x, {"string"}) -> Plain(h, Integer(Len(x[2])))
      [] Has(x, {"list", "tuple"}) -> Plain(h, Integer(Len(Elems(h, x))))
      [] Has(x, {"map", "set"}) -> Plain(h, Integer(Len(Entries(h, x))))
      [] Has(x, {"struct"}) -> Plain(h, Integer(Len(Object(h, x).slots)))
      [] Has(x, {"range"}) -> Plain(h, Integer(RangeLength(Object(h, x))))
      [] OTHER -> Rejected(h)

\* Decimal text, blanks and a sign in front; a point makes a float.
ToNumber(h, x) ==
    LET s == x[2]
        sign == Skip(s, 1, Blanks)
        first == IF CharAt(s, sign) \in {"+", "-"} THEN sign + 1 ELSE sign
        negative == CharAt(s, sign) = "-"
        point == Skip(s, first, Digits)
        end == IF CharAt(s, point) = "." THEN Skip(s, point + 1, Digits) ELSE point
        text == Part(s, first, point - 1) \o Part(s, point + 1, end - 1)
        n == FoldLeft(LAMBDA sum, i : sum * 10 + Rank(CharAt(text, i)) - Rank("0"), 0,
                      [i \in 1..Len(text) |-> i])
        value == IF negative THEN -n ELSE n
    IN CASE IsNumber(x) -> Plain(h, x)
         [] ~Has(x, {"string"}) \/ text = "" \/ end <= Len(s) -> Rejected(h)
         [] end > point -> Plain(h, Float(Fraction(value, 10^(end - point - 1))))
         [] OTHER -> Plain(h, IF value \in IntMin..IntMax THEN Integer(value) ELSE Err("argument"))

SetOf(h, elems) ==
    IF \E i \in 1..Len(elems) : ~IsValidMapKey(elems[i]) THEN Rejected(h)
    ELSE New(h, SetObject(FoldLeft(LAMBDA all, e : Put(all, e, Bool(TRUE)), <<>>, elems)))

AddTo(h, set, x) ==
    IF ~Has(set, {"set"}) \/ ~IsValidMapKey(x) THEN Rejected(h)
    ELSE Plain([h EXCEPT ![set[2]].entries = Put(@, x, Bool(TRUE))], set)

MakeError(h, kind, message) ==
    IF ~Has(kind, {"string"}) \/ ~Has(message, {"string"}) THEN Rejected(h)
    ELSE New(h, MapObject(<< <<Str("kind"), kind>>, <<Str("msg"), message>> >>))

PushTo(h, list, x) ==
    IF ~Has(list, {"list"}) THEN Rejected(h)
    ELSE Plain([h EXCEPT ![list[2]].elems = Append(@, x)], list)

PopFrom(h, list) ==
    IF ~Has(list, {"list"}) \/ Elems(h, list) = <<>> THEN Rejected(h)
    ELSE Plain([h EXCEPT ![list[2]].elems = Front(@)], Last(Elems(h, list)))

RemoveFrom(h, x, key) ==
    LET at == FromEnd(key[2], Len(Elems(h, x)))
        position == Position(Entries(h, x), key)
    IN CASE Has(x, {"list"}) /\ IsInt(key) /\ at # 0 ->
               Plain([h EXCEPT ![x[2]].elems = RemoveAt(@, at)], Elems(h, x)[at])
         [] Has(x, {"list"}) -> Rejected(h)
         [] Has(x, {"map"}) /\ Object(h, x).frozen -> Plain(h, Err("module cannot be modified"))
         [] Has(x, {"map", "set"}) ->
               IF position = 0 THEN Plain(h, Nil)
               ELSE Plain([h EXCEPT ![x[2]].entries = RemoveAt(@, position)],
                          IF Has(x, {"set"}) THEN key ELSE Entries(h, x)[position][2])
         [] OTHER -> Rejected(h)

Keys(h, x) ==
    CASE Has(x, {"struct"}) ->
            NewList(h, [i \in 1..Len(Object(h, x).slots) |-> Str(h[Object(h, x).shape].fields[i])])
      [] Has(x, {"map"}) -> NewList(h, KeysOf(Entries(h, x)))
      [] OTHER -> Rejected(h)

ValuesOf(h, x) ==
    CASE Has(x, {"struct"}) -> NewList(h, Object(h, x).slots)
      [] Has(x, {"set"}) -> NewList(h, KeysOf(Entries(h, x)))
      [] Has(x, {"map"}) -> NewList(h, [i \in 1..Len(Entries(h, x)) |-> Entries(h, x)[i][2]])
      [] OTHER -> Rejected(h)

HasKey(h, x, key) ==
    CASE Has(x, {"struct"}) ->
            Plain(h, Bool(Has(key, {"string"}) /\ FieldSlot(h[Object(h, x).shape], key[2]) # 0))
      [] Has(x, {"map", "set"}) -> Plain(h, Bool(Position(Entries(h, x), key) # 0))
      [] OTHER -> Rejected(h)

RangeOf(h, a) ==
    LET step == IF Len(a) = 3 THEN a[3][2] ELSE 1
    IN IF (\E i \in 1..Len(a) : ~IsInt(a[i])) \/ step = 0 THEN Rejected(h)
       ELSE IF Len(a) = 1 THEN New(h, RangeObject(0, a[1][2], 1))
       ELSE New(h, RangeObject(a[1][2], a[2][2], step))

\* The magnitude of IntMin does not exist: the build's negation wraps.
Absolute(h, x) ==
    CASE IsInt(x) -> Plain(h, Integer(Wrap(Magnitude(x[2]))))
      [] IsFloat(x) -> Plain(h, Float(<<Magnitude(x[2][1]), x[2][2]>>))
      [] OTHER -> Rejected(h)

\* Two integers compare exactly, a float with anything through doubles.
NumberLess(a, b) ==
    IF IsInt(a) /\ IsInt(b) THEN a[2] < b[2] ELSE FLess(Double(a), Double(b))

Extreme(h, a, wantMin) ==
    LET items == IF Len(a) = 1 THEN Elems(h, a[1]) ELSE a
        Better(x, y) == IF wantMin THEN NumberLess(x, y) ELSE NumberLess(y, x)
    IN IF (Len(a) = 1 /\ ~Has(a[1], {"list"})) \/ items = <<>>
          \/ (\E i \in 1..Len(items) : ~IsNumber(items[i]))
       THEN Rejected(h)
       ELSE Plain(h, FoldLeft(LAMBDA best, x : IF Better(x, best) THEN x ELSE best,
                              items[1], items))

Floor(x) == FFloor(x)[1]
Ceiling(x) == -FFloor(FNeg(x))[1]
\* std::round: halves away from zero.
NearestInt(x) == LET half == <<1, 2>>
                 IN IF x[1] < 0 THEN Ceiling(FAdd(x, FNeg(half))) ELSE Floor(FAdd(x, half))
IntRound(h, x, way) ==
    CASE ~IsNumber(x) -> Rejected(h)
      [] way = "floor" -> Plain(h, Integer(Floor(Double(x))))
      [] way = "ceil" -> Plain(h, Integer(Ceiling(Double(x))))
      [] way = "round" -> Plain(h, Integer(NearestInt(Double(x))))

Power(h, x, y) ==
    CASE ~IsNumber(x) \/ ~IsNumber(y) -> Rejected(h)
      [] IsInt(x) /\ IsInt(y) -> Plain(h, IntPower(x[2], y[2]))
      [] OTHER -> Plain(h, FloatOp("**", Double(x), Double(y)))

ContainsIn(h, x, needle) ==
    IF Has(x, {"string", "list", "tuple", "map", "set"})
    THEN Plain(h, Membership(h, needle, x)) ELSE Rejected(h)

Find(h, x, needle) ==
    LET Matches(n, Test(_)) == {i \in 1..n : Test(i)}
        First(found) == Integer(IF found = {} THEN -1 ELSE Min(found) - 1)
    IN CASE Has(x, {"string"}) /\ Has(needle, {"string"}) ->
               Plain(h, First(Matches(Len(x[2]) - Len(needle[2]) + 1,
                                      LAMBDA i : SubSeq(x[2], i, i + Len(needle[2]) - 1) = needle[2])))
         [] Has(x, {"list", "tuple"}) ->
               Plain(h, First(Matches(Len(Elems(h, x)), LAMBDA i : Same(h, Elems(h, x)[i], needle))))
         [] OTHER -> Rejected(h)

SliceOf(h, a) ==
    IF (\E i \in 2..Len(a) : ~IsInt(a[i])) \/ ~Has(a[1], {"string", "list"}) THEN Rejected(h)
    ELSE Slice(h, a[1], a[2], IF Len(a) = 3 THEN a[3] ELSE Nil)

ReverseOf(h, x) ==
    CASE Has(x, {"list"}) -> Plain([h EXCEPT ![x[2]].elems = Reverse(@)], x)
      [] Has(x, {"string"}) ->
            Plain(h, Str(FoldLeft(LAMBDA s, i : At(x[2], i) \o s, "", [i \in 1..Len(x[2]) |-> i])))
      [] OTHER -> Rejected(h)

\* The elements in order, equal ones as they were.
StableSort(seq, Less(_, _)) ==
    FoldLeft(LAMBDA sorted, x :
                 LET after == Cardinality({i \in 1..Len(sorted) : ~Less(x, sorted[i])})
                 IN InsertAt(sorted, after + 1, x),
             <<>>, seq)

AllNumbers(seq) == \A i \in 1..Len(seq) : IsNumber(seq[i])
AllStrings(seq) == \A i \in 1..Len(seq) : Has(seq[i], {"string"})

Sort(seq) ==
    IF AllNumbers(seq) THEN StableSort(seq, LAMBDA a, b : FLess(Double(a), Double(b)))
    ELSE StableSort(seq, LAMBDA a, b : StringLess(a[2], b[2]))
Sortable(seq) == AllNumbers(seq) \/ AllStrings(seq)

SortInPlace(h, x) ==
    IF ~Has(x, {"list"}) \/ ~Sortable(Elems(h, x)) THEN Rejected(h)
    ELSE Plain([h EXCEPT ![x[2]].elems = Sort(@)], x)
Sorted(h, x) ==
    IF ~Has(x, {"list"}) \/ ~Sortable(Elems(h, x)) THEN Rejected(h)
    ELSE NewList(h, Sort(Elems(h, x)))

\* The total runs in a double beside the integer one, which counts when every
\* element is an integer.
Sum(h, x) ==
    LET seq == Elems(h, x)
    IN IF ~Has(x, {"list", "tuple"}) \/ ~AllNumbers(seq) THEN Rejected(h)
       ELSE IF \A i \in 1..Len(seq) : IsInt(seq[i])
       THEN Plain(h, Integer(FoldLeft(LAMBDA t, v : Wrap(t + v[2]), 0, seq)))
       ELSE Plain(h, Float(FoldLeft(LAMBDA t, v : FAdd(t, Double(v)), <<0, 1>>, seq)))

Check(h, a) == Plain(h, IF Truthy(h, a[1]) THEN Nil ELSE Err("check failed"))

\* A new container with the same elements.
Copy(h, x) ==
    CASE Has(x, {"list", "struct"}) -> New(h, Object(h, x))
      [] Has(x, {"map"}) -> New(h, MapObject(Entries(h, x)))
      [] OTHER -> Plain(h, x)

CloneMax == 100

\* New containers all the way down, one per occurrence.
RECURSIVE DeepClone(_, _, _), DeepCloneAll(_, _, _)
DeepCloneAll(h, seq, depth) ==
    FoldLeft(LAMBDA r, x : LET c == DeepClone(r.heap, x, depth)
                           IN [heap |-> c.heap, value |-> Append(r.value, c.value)],
             [heap |-> h, value |-> <<>>], seq)
DeepClone(h, v, depth) ==
    LET Inner(seq) == DeepCloneAll(h, seq, depth + 1)
        entries == Entries(h, v)
        Failed(c) == SelectSeq(c.value, IsErr)
        Built(c, object) == IF Failed(c) # <<>> THEN Plain(c.heap, Failed(c)[1]) ELSE New(c.heap, object)
    IN CASE depth > CloneMax -> Rejected(h)
         [] Has(v, {"list"}) -> LET c == Inner(Elems(h, v)) IN Built(c, ListObject(c.value))
         [] Has(v, {"map"}) ->
               LET c == Inner([i \in 1..Len(entries) |-> entries[i][2]])
               IN Built(c, MapObject([i \in 1..Len(c.value) |-> <<entries[i][1], c.value[i]>>]))
         [] Has(v, {"set"}) -> New(h, SetObject(entries))
         [] Has(v, {"struct"}) ->
               LET c == Inner(Object(h, v).slots) IN Built(c, [Object(h, v) EXCEPT !.slots = c.value])
         [] OTHER -> Plain(h, v)

Insert(h, list, index, x) ==
    LET n == Len(Elems(h, list))
        at == IF index[2] < 0 THEN index[2] + n ELSE index[2]
    IN IF ~Has(list, {"list"}) \/ ~IsInt(index) \/ at \notin 0..n THEN Rejected(h)
       ELSE Plain([h EXCEPT ![list[2]].elems = InsertAt(@, at + 1, x)], list)

Clear(h, x) ==
    CASE Has(x, {"list"}) -> Plain([h EXCEPT ![x[2]].elems = <<>>], x)
      [] Has(x, {"map"}) -> IF Object(h, x).frozen THEN Plain(h, Err("module cannot be modified"))
                            ELSE Plain([h EXCEPT ![x[2]].entries = <<>>], x)
      [] OTHER -> Rejected(h)

Merge(h, x, y) ==
    IF ~Has(x, {"map"}) \/ ~Has(y, {"map"}) THEN Rejected(h)
    ELSE New(h, MapObject(PutAll(Entries(h, x), Entries(h, y))))

Enumerate(h, x) ==
    IF ~Has(x, {"list"}) THEN Rejected(h)
    ELSE NewPairs(h, [i \in 1..Len(Elems(h, x)) |-> <<Integer(i - 1), Elems(h, x)[i]>>])

ZipOf(h, x, y) ==
    IF ~Has(x, {"list"}) \/ ~Has(y, {"list"}) THEN Rejected(h)
    ELSE LET n == Min({Len(Elems(h, x)), Len(Elems(h, y))})
         IN NewPairs(h, [i \in 1..n |-> <<Elems(h, x)[i], Elems(h, y)[i]>>])

Every(h, x) == IF ~Has(x, {"list"}) THEN Rejected(h)
               ELSE Plain(h, Bool(\A i \in 1..Len(Elems(h, x)) : Truthy(h, Elems(h, x)[i])))
Some(h, x) == IF ~Has(x, {"list"}) THEN Rejected(h)
              ELSE Plain(h, Bool(\E i \in 1..Len(Elems(h, x)) : Truthy(h, Elems(h, x)[i])))

EndOf(h, x, atEnd) ==
    IF ~Has(x, {"list", "tuple"}) \/ Elems(h, x) = <<>> THEN Rejected(h)
    ELSE Plain(h, Elems(h, x)[IF atEnd THEN Len(Elems(h, x)) ELSE 1])

Flat(h, x) ==
    IF ~Has(x, {"list"}) THEN Rejected(h)
    ELSE NewList(h, FlattenSeq([i \in 1..Len(Elems(h, x)) |->
                                  LET e == Elems(h, x)[i]
                                  IN IF Has(e, {"list"}) THEN Elems(h, e) ELSE <<e>>]))

Unique(h, x) ==
    IF ~Has(x, {"list"}) THEN Rejected(h)
    ELSE NewList(h, FoldLeft(LAMBDA seen, e :
                                 IF \E i \in 1..Len(seen) : Same(h, seen[i], e) THEN seen
                                 ELSE Append(seen, e),
                             <<>>, Elems(h, x)))

Get(h, a) ==
    LET default == IF Len(a) = 3 THEN a[3] ELSE Nil
        slot == FieldSlot(h[Object(h, a[1]).shape], a[2][2])
        val == Lookup(Entries(h, a[1]), a[2])
    IN CASE Has(a[1], {"struct"}) /\ Has(a[2], {"string"}) ->
               Plain(h, IF slot = 0 THEN default ELSE Object(h, a[1]).slots[slot])
         [] Has(a[1], {"map"}) -> Plain(h, IF val = <<"absent">> THEN default ELSE val)
         [] OTHER -> Rejected(h)

EntriesOf(h, x) == IF ~Has(x, {"map"}) THEN Rejected(h) ELSE NewPairs(h, Entries(h, x))

ToMap(h, x) ==
    LET pairs == Elems(h, x)
        IsPair(p) == Has(p, {"list"}) /\ Len(Elems(h, p)) = 2 /\ IsValidMapKey(Elems(h, p)[1])
    IN IF ~Has(x, {"list"}) \/ (\E i \in 1..Len(pairs) : ~IsPair(pairs[i])) THEN Rejected(h)
       ELSE New(h, MapObject(FoldLeft(LAMBDA m, p : Put(m, Elems(h, p)[1], Elems(h, p)[2]), <<>>, pairs)))

\* -1 below, 0 equal, 1 above; 2 when the two do not compare.
Order(a, b) ==
    LET Sign(less, greater) == IF less THEN -1 ELSE IF greater THEN 1 ELSE 0
    IN CASE IsNumber(a) /\ IsNumber(b) -> Sign(FLess(Double(a), Double(b)), FLess(Double(b), Double(a)))
         [] Has(a, {"string"}) /\ Has(b, {"string"}) -> Sign(StringLess(a[2], b[2]), StringLess(b[2], a[2]))
         [] OTHER -> 2

RECURSIVE SearchBetween(_, _, _, _)
SearchBetween(seq, x, lo, hi) ==
    LET mid == (lo + hi) \div 2
        c == Order(seq[mid + 1], x)
    IN IF lo > hi THEN Integer(-1)
       ELSE CASE c = 2 -> Err("argument")
              [] c = 0 -> Integer(mid)
              [] c < 0 -> SearchBetween(seq, x, mid + 1, hi)
              [] c > 0 -> SearchBetween(seq, x, lo, mid - 1)

BinarySearch(h, x, needle) ==
    IF ~Has(x, {"list"}) THEN Rejected(h)
    ELSE Plain(h, SearchBetween(Elems(h, x), needle, 0, Len(Elems(h, x)) - 1))

-----------------------------------------------------------------------------
\* The numbers of arguments a builtin takes.
Arity ==
    [len |-> {1}, text |-> {1}, num |-> {1}, Set |-> {0, 1}, add |-> {2}, error |-> {2}, kind |-> {1},
     push |-> {2}, pop |-> {1}, remove |-> {2}, keys |-> {1}, values |-> {1}, has |-> {2},
     range |-> 1..3, abs |-> {1}, min |-> 1..9, max |-> 1..9, floor |-> {1}, ceil |-> {1},
     round |-> {1}, pow |-> {2}, contains |-> {2}, find |-> {2}, slice |-> {2, 3}, reverse |-> {1},
     sort |-> {1}, sum |-> {1}, check |-> {1, 2}, copy |-> {1}, clone |-> {1}, insert |-> {3},
     clear |-> {1}, merge |-> {2}, enumerate |-> {1}, zip |-> {2}, all |-> {1}, any |-> {1},
     sorted |-> {1}, first |-> {1}, last |-> {1}, flat |-> {1}, unique |-> {1}, get |-> {2, 3},
     entries |-> {1}, to_map |-> {1}, binary_search |-> {2}]

\* The builtins that call the function that is their second argument.
Callers == {"each", "filter", "transform", "reduce", "sort_by", "min_by", "max_by", "group_by"}

Apply(h, name, a) ==
    CASE Len(a) \notin Arity[name] -> Rejected(h)
      [] name = "len" -> LengthOf(h, a[1])
      [] name = "text" -> Plain(h, Str(Inspect(h, a[1])))
      [] name = "num" -> ToNumber(h, a[1])
      [] name = "Set" -> IF a = <<>> THEN SetOf(h, <<>>)
                         ELSE IF Has(a[1], {"list", "tuple"}) THEN SetOf(h, Elems(h, a[1])) ELSE Rejected(h)
      [] name = "add" -> AddTo(h, a[1], a[2])
      [] name = "error" -> MakeError(h, a[1], a[2])
      [] name = "kind" -> Plain(h, Str(TypeName(a[1])))
      [] name = "push" -> PushTo(h, a[1], a[2])
      [] name = "pop" -> PopFrom(h, a[1])
      [] name = "remove" -> RemoveFrom(h, a[1], a[2])
      [] name = "keys" -> Keys(h, a[1])
      [] name = "values" -> ValuesOf(h, a[1])
      [] name = "has" -> HasKey(h, a[1], a[2])
      [] name = "range" -> RangeOf(h, a)
      [] name = "abs" -> Absolute(h, a[1])
      [] name = "min" -> Extreme(h, a, TRUE)
      [] name = "max" -> Extreme(h, a, FALSE)
      [] name \in {"floor", "ceil", "round"} -> IntRound(h, a[1], name)
      [] name = "pow" -> Power(h, a[1], a[2])
      [] name = "contains" -> ContainsIn(h, a[1], a[2])
      [] name = "find" -> Find(h, a[1], a[2])
      [] name = "slice" -> SliceOf(h, a)
      [] name = "reverse" -> ReverseOf(h, a[1])
      [] name = "sort" -> SortInPlace(h, a[1])
      [] name = "sum" -> Sum(h, a[1])
      [] name = "check" -> Check(h, a)
      [] name = "copy" -> Copy(h, a[1])
      [] name = "clone" -> DeepClone(h, a[1], 0)
      [] name = "insert" -> Insert(h, a[1], a[2], a[3])
      [] name = "clear" -> Clear(h, a[1])
      [] name = "merge" -> Merge(h, a[1], a[2])
      [] name = "enumerate" -> Enumerate(h, a[1])
      [] name = "zip" -> ZipOf(h, a[1], a[2])
      [] name = "all" -> Every(h, a[1])
      [] name = "any" -> Some(h, a[1])
      [] name = "sorted" -> Sorted(h, a[1])
      [] name \in {"first", "last"} -> EndOf(h, a[1], name = "last")
      [] name = "flat" -> Flat(h, a[1])
      [] name = "unique" -> Unique(h, a[1])
      [] name = "get" -> Get(h, a)
      [] name = "entries" -> EntriesOf(h, a[1])
      [] name = "to_map" -> ToMap(h, a[1])
      [] name = "binary_search" -> BinarySearch(h, a[1], a[2])
=============================================================================
