------------------------------- MODULE Language -------------------------------
(***************************************************************************)
(* What the front end and the machine owe a program: the tree that was      *)
(* written is the tree that is read, its code is well formed, and running   *)
(* the code does what the tree means.  read keeps the trees that were       *)
(* compiled, by file; a session has one for each entry.  beat turns with    *)
(* every step: fairness is stated of it, since a step of the program is the *)
(* only thing that turns it.                                                *)
(***************************************************************************)
EXTENDS Machine
LOCAL INSTANCE Integers
LOCAL INSTANCE Sequences
LOCAL INSTANCE SequencesExt
LOCAL INSTANCE FiniteSets
LOCAL INSTANCE TLC

Reference == INSTANCE Meaning WITH DeepestCall <- MaxFrames

VARIABLES read, beat
allVars == <<vars, read, beat>>

LanguageInit == Init /\ read = <<>> /\ beat = FALSE
Work ==
    /\ Next
    /\ read' = IF M.stage # "tokens" \/ machines'[Me].stage # "tree" THEN read
               ELSE LET old == IF M.path \in DOMAIN read THEN read[M.path] ELSE <<>>
                    IN (M.path :> Append(old, machines'[Me].parts)) @@ read
    /\ beat' = ~beat
Finished == outcome # "running" /\ UNCHANGED allVars
LanguageNext == Work \/ Finished

\* The thread that runs the program is never taken off it for ever.
Beats == outcome = "running" /\ beat' = ~beat
LanguageSpec == LanguageInit /\ [][LanguageNext]_allVars /\ WF_beat(Beats)

-----------------------------------------------------------------------------
(* What is well formed *)

IsValue(v) ==
    \/ v[1] \in {"null", "bool", "int", "float", "string", "builtin", "error"}
    \/ v[1] = "map" /\ v[2] \in DOMAIN heap /\ heap[v[2]].type \in {"map", "module"}
    \/ v[1] \in {"list", "tuple", "set", "range", "struct", "fn", "iter", "shape"}
       /\ v[2] \in DOMAIN heap /\ heap[v[2]].type = v[1]
IsMachine(m) ==
    /\ m.stage \in {"text", "tokens", "tree", "run", "ended", "idle"}
    /\ \A v \in Range(m.stack) : IsValue(v)
    /\ \A i \in DOMAIN m.frames :
          LET proto == protos[heap[m.frames[i].fn[2]].proto]
          IN /\ m.frames[i].base + proto.locals <= Len(m.stack)
             /\ m.frames[i].ip \in 1..Len(proto.code)
             /\ i > 1 => m.frames[i].base > m.frames[i - 1].base
    /\ \A h \in Range(m.handlers) : h.frames \in 1..Len(m.frames) /\ h.height <= Len(m.stack)
    /\ m.open \subseteq {id \in DOMAIN cells : cells[id].open}

\* The values on the stacks are values, each frame has its function and its
\* locals on the stack of its machine and an instruction to go on with, and no
\* handler is left of a frame that is gone (the frames and handlers of vm.hpp).
TypeOK ==
    /\ active # <<>> /\ Range(active) \subseteq DOMAIN machines
    /\ \A m \in Range(machines) : m.stage = "run" /\ m.pending = Nil => IsMachine(m)
    /\ outcome \in {"running", "done", "failed", "rejected", "undefined"}

-----------------------------------------------------------------------------
(* The front end *)

Tokens1 == M.work.toks
Opens == {"(", "[", "{"}
Closes == {")", "]", "}"}
\* The blocks of the layout nest and all of them are closed at the end of the
\* file, and inside brackets there is no layout: a token that ends a line or
\* opens a block never stands between an opening bracket and its closing one
\* (nextToken and the indent stack of lexer.hpp).
LayoutNests ==
    outcome = "running" /\ M.stage = "tokens" /\ M.work.at = 1 =>
        LET Count(kinds, n) == Cardinality({i \in 1..n : Tokens1[i].type \in kinds})
            Inside(n) == Count(Opens, n) > Count(Closes, n)
        IN /\ \A n \in 1..Len(Tokens1) :
                 /\ Count({"DEDENT"}, n) <= Count({"INDENT"}, n)
                 /\ Inside(n) => Tokens1[n].type \notin {"INDENT", "DEDENT", "NEWLINE"}
           /\ Count({"DEDENT"}, Len(Tokens1)) = Count({"INDENT"}, Len(Tokens1))

\* A program that is written down, with brackets only where the operators need
\* them, is read back as the same tree: the precedences and the associativity
\* of parser.hpp are those of the ladder, and every statement ends where its
\* text does.
ParserRecoversTheProgram ==
    outcome = "running" /\ MainPath \in DOMAIN read /\ program.tree # <<>> =>
        read[MainPath] = <<program.tree>>

\* The operands an instruction takes and those it leaves.
Effect(ins) ==
    LET op == ins[1]
    IN CASE op \in {"CONST", "NIL", "GET_LOCAL", "GET_GLOBAL", "GET_UPVALUE", "LGET_IMM", "CLOSURE", "STRUCT_MAKE"} -> <<0, 1>>
         [] op = "LGET2" -> <<0, 2>>
         [] op \in {"POP", "SET_LOCAL", "SET_GLOBAL", "SET_UPVALUE", "DEFINE_GLOBAL", "JUMP_IF_FALSE",
                    "CMP_I_JF", "THROW", "RETURN"} -> <<1, 0>>
         [] op \in {"IMM", "NEGATE", "NOT", "BIT_NOT", "MEMBER_GET", "MEMBER_GET_SAFE", "FOR_SETUP", "FOR_NEXT",
                    "YIELD", "AND_KEEP", "OR_KEEP", "COALESCE"} -> <<1, 1>>
         [] op \in {"DUP", "MEMBER_GET_KEEP"} -> <<1, 2>>
         [] op \in {"BINARY", "ADD_INPLACE", "RANGE_NEW", "IS_TYPE", "INDEX_GET", "STRUCT_BIND"} -> <<2, 1>>
         [] op \in {"CMP_JF", "MEMBER_SET"} -> <<2, 0>>
         [] op = "INDEX_GET_KEEP" -> <<2, 3>>
         [] op = "INDEX_SET" -> <<3, 0>>
         [] op = "SLICE" -> <<3, 1>>
         [] op \in {"LIST", "TUPLE", "INTERP"} -> <<ins[2], 1>>
         [] op = "MAP" -> <<2 * ins[2], 1>>
         [] op = "SAY" -> <<ins[2], 0>>
         [] op = "CALL" -> <<ins[2] + 1, 1>>
         [] op = "CALL_METHOD" -> <<ins[2] + 2, 1>>
         [] op = "STRUCT_SHAPE" -> <<Len(ins[4]), 1>>
         [] op = "UNPACK" -> <<1, ins[2]>>
         [] OTHER -> <<0, 0>>

\* Where control can go from an instruction, with the operands and handlers there.
Onward(code, s) ==
    LET ins == code[s.pc]
        next == [s EXCEPT !.pc = @ + 1, !.depth = @ - Effect(ins)[1] + Effect(ins)[2]]
        there == [next EXCEPT !.pc = Last(ins)]
    IN CASE ins[1] \in {"RETURN", "HALT", "THROW", "RUNTIME_ERROR"} -> {}
         [] ins[1] \in {"JUMP", "LOOP"} -> {there}
         [] ins[1] \in {"JUMP_IF_FALSE", "CMP_JF", "CMP_I_JF", "FOR_NEXT", "ARG_DEFAULT"} -> {next, there}
         [] ins[1] \in {"AND_KEEP", "OR_KEEP", "COALESCE"} -> {[next EXCEPT !.depth = @ - 1], there}
         [] ins[1] = "TRY_PUSH" -> {[next EXCEPT !.tries = @ + 1], [there EXCEPT !.depth = @ + 1]}
         [] ins[1] = "TRY_POP" -> {[next EXCEPT !.tries = @ - 1]}
         [] OTHER -> {next}
RECURSIVE Paths(_, _, _)
Paths(code, all, new) ==
    LET found == UNION {Onward(code, s) : s \in new} \ all
    IN IF found = {} \/ (\E s \in found : s.depth < 0 \/ s.tries < 0 \/ s.depth > Len(code)) THEN all \cup found
       ELSE Paths(code, all \cup found, found)

\* On every path through the code of a function an instruction finds the same
\* number of operands and of handlers, enough operands for it, and the function
\* is left with no handler of its own, the script with an empty stack: break,
\* continue, return and the jumps of and, or, ?? and match all leave what the
\* code after them counts on (the emitters of compiler.hpp).
CodeIsBalanced ==
    Ready /\ Len(M.frames) = 1 /\ Frame.ip = 1 =>
        \A code \in {protos[i].code : i \in DOMAIN protos} :
            LET start == {[pc |-> 1, depth |-> 0, tries |-> 0]}
                all == Paths(code, start, start)
            IN /\ Cardinality({s.pc : s \in all}) = Cardinality(all)
               /\ \A s \in all : s.depth >= Effect(code[s.pc])[1] /\ s.tries >= 0
               /\ \A s \in all : code[s.pc][1] = "HALT" => s.depth = 0 /\ s.tries = 0
               /\ \A s \in all : code[s.pc][1] = "RETURN" => s.tries = 0

\* Every local, upvalue and function an instruction names is one the function
\* has, and a closure takes as many cells as the code of its function expects:
\* the pass that collects the locals and the code that resolves names agree
\* (collectLocals, resolveUpvalue and compileFunction of compiler.hpp).
SlotsExist ==
    Ready /\ Len(M.frames) = 1 /\ Frame.ip = 1 =>
        \A proto \in Range(protos) : \A ins \in Range(proto.code) :
            LET Locals(slots) == slots \subseteq 1..proto.locals
            IN CASE ins[1] \in {"GET_LOCAL", "SET_LOCAL", "CLOSE_UPVALUE"} -> Locals({ins[2]})
                 [] ins[1] = "LGET_IMM" -> Locals({ins[3]})
                 [] ins[1] = "LGET2" -> Locals({ins[2], ins[3]})
                 [] ins[1] = "FOR_NEXT" -> Locals(Range(ins[2]))
                 [] ins[1] \in {"GET_UPVALUE", "SET_UPVALUE"} -> ins[2] \in 1..proto.upvals
                 [] ins[1] = "CLOSURE" ->
                       /\ ins[2] \in DOMAIN protos /\ protos[ins[2]].upvals = Len(ins[3])
                       /\ \A up \in Range(ins[3]) : IF up[1] THEN Locals({up[2]}) ELSE up[2] \in 1..proto.upvals
                 [] OTHER -> TRUE

-----------------------------------------------------------------------------
(* The program *)

\* A program that ends has said and done what its tree means, evaluated with
\* scopes and without instructions, slots, caches, handlers or machine code:
\* the compiler and the machine, the fused instructions, the caches and the
\* compiled functions of integers change nothing a program can see.
RunsAsItMeans ==
    outcome # "running" =>
        [output |-> output, outcome |-> outcome] =
            Reference!Meaning(read, DOMAIN Files, MainPath, Session # <<>>)

\* While code runs, an open cell is the only one for its place, and the place
\* holds a local of a function that has not returned: no error, break or return
\* takes a frame away and leaves a cell that still names a place in it
\* (openUpvalues_, closeUpvalues and tryHandle of vm.hpp).
OpenCellsAreLocals ==
    Ready =>
        /\ \A id \in M.open : \E f \in Range(M.frames) :
              cells[id].place \in f.base..(f.base + protos[heap[f.fn[2]].proto].locals)
        /\ \A id, other \in M.open : cells[id].place = cells[other].place => id = other

\* What a member access answers is what a search of the object would find: a
\* cached entry is used only for an object that has the member there, however
\* many shapes and maps pass one place of the program and however they grow
\* (the inline caches of MEMBER_GET in vm.hpp).
CachesAreTransparent ==
    [][Op("MEMBER_GET") /\ Len(machines'[Me].frames) = Len(M.frames) /\ ~IsErr(Member(heap, Operand(0), Arg(1)))
          => Last(machines'[Me].stack) = Member(heap, Operand(0), Arg(1))]_allVars

\* Floor division rounds down and the remainder has the sign of the divisor,
\* for every pair of integers the machine divides: the quotient of the least
\* integer by -1, which does not exist, is the least integer (FLOOR_DIV and MOD
\* of vm.hpp, which work with a division that truncates and traps there).
DivisionFloors ==
    [][Op("BINARY") /\ Arg(1) \in {"//", "%"} /\ IsInt(Operand(0)) /\ IsInt(Operand(1)) /\ Operand(0)[2] # 0
          => LET a == Operand(1)[2]
                 b == Operand(0)[2]
                 x == Last(machines'[Me].stack)[2]
                 rest == IF Arg(1) = "%" THEN x ELSE a - x * b
             IN IF Arg(1) = "//" /\ a = IntMin /\ b = -1 THEN x = IntMin
                ELSE rest * Signum(b) \in 0..(Magnitude(b) - 1) /\ (a - rest) % Magnitude(b) = 0]_allVars

\* A file is run once: no two machines are at work on the same module, and none
\* is made for a module that is loaded (loadFileModule, moduleCache and
\* loadingStack of vm.hpp).
ModulesRunOnce ==
    \A i, j \in DOMAIN machines :
        machines[i].path = machines[j].path /\ i < j =>
            i \notin ToSet(active) /\ machines[i].pending # Nil

\* Every program of the instance ends: each try ends with its block, an error in
\* a catch leaves it, a module that uses itself is refused, a session comes to
\* its last line (the loops of the programs are finite).
Terminates == <>(outcome # "running")
=============================================================================
