------------------------------- MODULE Syntax -------------------------------
(***************************************************************************)
(* The syntax trees of src/ast/ast.hpp: one constructor for each node class.*)
(* A node is a record whose k names its class; an absent child is None.     *)
(* The token a node keeps for its line and column is left out, and complex  *)
(* literals are.                                                            *)
(***************************************************************************)
None == [k |-> "none"]
IsNone(node) == node.k = "none"

\* Expressions
Identifier(name) == [k |-> "identifier", name |-> name]
IntegerLiteral(value) == [k |-> "integer", value |-> value]
FloatLiteral(value) == [k |-> "float", value |-> value]
StringLiteral(value) == [k |-> "string", value |-> value]
BooleanLiteral(value) == [k |-> "boolean", value |-> value]
NullLiteral == [k |-> "null"]
InterpolatedString(parts) == [k |-> "interpolated", parts |-> parts]
ListLiteral(elements) == [k |-> "list", elements |-> elements]
TupleLiteral(elements) == [k |-> "tuple", elements |-> elements]
MapLiteral(pairs) == [k |-> "map", pairs |-> pairs]
IndexExpression(object, index) == [k |-> "index", object |-> object, index |-> index]
SliceExpression(object, index, indexEnd) ==
    [k |-> "slice", object |-> object, index |-> index, indexEnd |-> indexEnd]
MemberExpression(object, property, safe) ==
    [k |-> "member", object |-> object, property |-> property, safe |-> safe]
ConditionalExpression(thenExpr, condition, elseExpr) ==
    [k |-> "conditional", thenExpr |-> thenExpr, condition |-> condition, elseExpr |-> elseExpr]
PrefixExpression(op, right) == [k |-> "prefix", op |-> op, right |-> right]
InfixExpression(left, op, right) == [k |-> "infix", left |-> left, op |-> op, right |-> right]
YieldExpression(value) == [k |-> "yield", value |-> value]
CallExpression(function, arguments) ==
    [k |-> "call", function |-> function, arguments |-> arguments]
\* An anonymous function has the name ""; defaults holds None for a parameter without one.
FunctionLiteral(name, parameters, defaults, variadic, body) ==
    [k |-> "function", name |-> name, parameters |-> parameters, defaults |-> defaults,
     variadic |-> variadic, body |-> body]

\* Statements
BlockStatement(statements) == [k |-> "block", statements |-> statements]
SetStatement(isConst, names, values) ==
    [k |-> "set", isConst |-> isConst, names |-> names, values |-> values]
AssignStatement(target, op, value) == [k |-> "assign", target |-> target, op |-> op, value |-> value]
UseStatement(target, isFile, alias, names) ==
    [k |-> "use", target |-> target, isFile |-> isFile, alias |-> alias, names |-> names]
SayStatement(values) == [k |-> "say", values |-> values]
TryStatement(tryBlock, catchName, catchBlock, finallyBlock) ==
    [k |-> "try", tryBlock |-> tryBlock, catchName |-> catchName,
     catchBlock |-> catchBlock, finallyBlock |-> finallyBlock]
ThrowStatement(value) == [k |-> "throw", value |-> value]
PassStatement == [k |-> "pass"]
RepeatStatement(count, body) == [k |-> "repeat", count |-> count, body |-> body]
EnumStatement(name, members) == [k |-> "enum", name |-> name, members |-> members]
IfStatement(condition, consequence, alternative) ==
    [k |-> "if", condition |-> condition, consequence |-> consequence, alternative |-> alternative]
\* A case without patterns is the wildcard.
MatchCase(patterns, body) == [patterns |-> patterns, body |-> body]
MatchStatement(subject, cases) == [k |-> "match", subject |-> subject, cases |-> cases]
WhileStatement(condition, untilForm, body) ==
    [k |-> "while", condition |-> condition, untilForm |-> untilForm, body |-> body]
ForStatement(variables, iterable, body) ==
    [k |-> "for", variables |-> variables, iterable |-> iterable, body |-> body]
BreakStatement == [k |-> "break"]
ContinueStatement == [k |-> "continue"]
ReturnStatement(returnValue) == [k |-> "return", returnValue |-> returnValue]
StructStatement(name, fields, fieldDefaults, methods) ==
    [k |-> "struct", name |-> name, fields |-> fields, fieldDefaults |-> fieldDefaults,
     methods |-> methods]
ExpressionStatement(expression) == [k |-> "expression", expression |-> expression]
=============================================================================
