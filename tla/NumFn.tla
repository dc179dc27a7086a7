------------------------------- MODULE NumFn -------------------------------
(***************************************************************************)
(* src/jit/compile_fn.hpp: a function of integers that calls no other       *)
(* function but itself becomes machine code.  Its instructions keep their   *)
(* order; what the translation adds is where each one finds its operands.   *)
(* Six registers hold the parameters, the depth of the calls and then the   *)
(* operands, so an instruction in front of which there are d operands works *)
(* on the registers around operand d.  The number d is found by one pass    *)
(* over the code in the order it is written.                                *)
(***************************************************************************)
EXTENDS Values
LOCAL INSTANCE Integers
LOCAL INSTANCE Sequences
LOCAL INSTANCE SequencesExt

CONSTANT MaxFrames      \* NUMFN_MAX_DEPTH, the deepest nesting of calls

Registers == 6
Supported(ins) ==
    \/ ins[1] \in {"GET_LOCAL", "POP", "DUP", "LGET2", "LGET_IMM", "ADD_INPLACE", "CMP_JF", "CMP_I_JF",
                   "GET_GLOBAL", "CALL", "JUMP", "RETURN"}
    \/ ins[1] = "IMM" /\ ~(ins[2] = "%" /\ ins[3] = 0)
    \/ ins[1] = "CONST" /\ IsInt(ins[2])
    \/ ins[1] = "BINARY" /\ ins[2] \in {"+", "-", "*", "&", "|", "^"}

Target(ins) == ins[Len(ins)]
\* The instructions that control reaches from the entry.
Follows(code, pc) ==
    CASE code[pc][1] = "RETURN" -> {}
      [] code[pc][1] = "JUMP" -> {Target(code[pc])}
      [] code[pc][1] \in {"CMP_JF", "CMP_I_JF"} -> {pc + 1, Target(code[pc])}
      [] OTHER -> {pc + 1}
RECURSIVE Reached(_, _)
Reached(code, pcs) ==
    LET more == pcs \cup UNION {Follows(code, pc) : pc \in pcs}
    IN IF more = pcs THEN pcs ELSE Reached(code, more)

\* What is known of the operands: whether each is a function taken from a global.
Operate(orig, ins) ==
    LET Less(n) == SubSeq(orig, 1, Len(orig) - n)
    IN CASE ins[1] \in {"GET_LOCAL", "CONST", "LGET_IMM"} -> Append(orig, FALSE)
         [] ins[1] = "GET_GLOBAL" -> Append(orig, TRUE)
         [] ins[1] = "DUP" -> Append(orig, Last(orig))
         [] ins[1] = "LGET2" -> orig \o <<FALSE, FALSE>>
         [] ins[1] \in {"POP", "CMP_I_JF", "RETURN"} -> Less(1)
         [] ins[1] \in {"BINARY", "ADD_INPLACE"} -> Append(Less(2), FALSE)
         [] ins[1] = "CMP_JF" -> Less(2)
         [] ins[1] = "CALL" -> Append(Less(ins[2] + 1), FALSE)
         [] OTHER -> orig

\* The operands in front of each instruction and after the last.
Fronts(code, reached) ==
    FoldLeft(LAMBDA all, pc : Append(all, IF pc \in reached THEN Operate(Last(all), code[pc]) ELSE Last(all)),
             <<<<>>>>, [pc \in 1..Len(code) |-> pc])

\* The translation, <<>> for a function that keeps being interpreted.  selves are
\* the instructions that load a global which holds the function itself.
CompileNumericFn(proto, selves) ==
    LET code == proto.code
        reached == Reached(code, {1})
        front == Fronts(code, reached)
        OwnCall(pc) ==
            LET callee == Len(front[pc]) - proto.params
            IN code[pc][2] = proto.params /\ callee \in DOMAIN front[pc] /\ front[pc][callee]
        accepted ==
            /\ ~proto.variadic /\ proto.upvals = 0
            /\ proto.params \in 1..4 /\ proto.locals = proto.params
            /\ \A pc \in reached : Supported(code[pc])
            /\ \A pc \in reached : code[pc][1] = "GET_GLOBAL" => pc \in selves
            /\ \A pc \in reached : code[pc][1] = "CALL" => OwnCall(pc)
            /\ \A pc \in 1..Len(front) : proto.params + 1 + Len(front[pc]) <= Registers
    IN IF accepted THEN <<[code |-> code, params |-> proto.params,
                           depth |-> [pc \in reached |-> Len(front[pc])]]>> ELSE <<>>

-----------------------------------------------------------------------------
(* The machine code at work.  A call keeps the registers of its caller and   *)
(* starts with them, parameters and depth apart.  A call that nests too deep *)
(* sets the flag g_numAbort and returns 0; nothing reads the flag before the *)
(* outermost call has returned.                                              *)

\* The registers after an instruction that falls through, d operands before it.
Execute(f, ins, regs, d) ==
    LET base == f.params + 1
        Top(i) == regs[base + d - i]
        Into(place, val) == [regs EXCEPT ![base + place] = val]
    IN CASE ins[1] = "GET_LOCAL" -> Into(d + 1, regs[ins[2]])
         [] ins[1] = "CONST" -> Into(d + 1, ins[2][2])
         [] ins[1] = "DUP" -> Into(d + 1, Top(0))
         [] ins[1] = "LGET2" -> [regs EXCEPT ![base + d + 1] = regs[ins[2]], ![base + d + 2] = regs[ins[3]]]
         [] ins[1] = "LGET_IMM" -> Into(d + 1, IntOp(ins[2], regs[ins[3]], ins[4])[2])
         [] ins[1] = "IMM" -> Into(d, IntOp(ins[2], Top(0), ins[3])[2])
         [] ins[1] = "BINARY" -> Into(d - 1, IntOp(ins[2], Top(1), Top(0))[2])
         [] ins[1] = "ADD_INPLACE" -> Into(d - 1, IntOp("+", Top(1), Top(0))[2])
         [] OTHER -> regs

Holds(l, op, r) == CASE op = "==" -> l = r
                     [] op = "!=" -> l # r
                     [] OTHER -> Compare(op, l < r, l = r, l > r)

RECURSIVE Native(_, _, _, _)
\* From pc on: the result and the flag.
Native(f, pc, regs, aborted) ==
    LET ins == f.code[pc]
        d == f.depth[pc]
        base == f.params + 1
        Top(i) == regs[base + d - i]
        Branch(taken) == Native(f, IF taken THEN pc + 1 ELSE Target(ins), regs, aborted)
        arguments == [i \in 1..f.params |-> Top(f.params - i)]
        inner == IF regs[base] + 1 >= MaxFrames THEN [result |-> 0, aborted |-> TRUE]
                 ELSE Native(f, 1, [i \in 1..Registers |->
                                       IF i <= f.params THEN arguments[i]
                                       ELSE IF i = base THEN regs[base] + 1 ELSE regs[i]], aborted)
    IN CASE ins[1] = "RETURN" -> [result |-> Top(0), aborted |-> aborted]
         [] ins[1] = "JUMP" -> Native(f, Target(ins), regs, aborted)
         [] ins[1] = "CMP_JF" -> Branch(Holds(Top(1), ins[2], Top(0)))
         [] ins[1] = "CMP_I_JF" -> Branch(Holds(Top(0), ins[2], ins[3]))
         [] ins[1] = "CALL" -> Native(f, pc + 1, [regs EXCEPT ![base + d - f.params] = inner.result], inner.aborted)
         [] OTHER -> Native(f, pc + 1, Execute(f, ins, regs, d), aborted)

\* A call from the interpreter, with depth frames below it and junk in the registers.
CallNumFn(f, arguments, depth, junk) ==
    IF depth >= MaxFrames THEN [result |-> 0, aborted |-> TRUE]
    ELSE Native(f, 1, [i \in 1..Registers |-> IF i <= f.params THEN arguments[i]
                                              ELSE IF i = f.params + 1 THEN depth ELSE junk], FALSE)
=============================================================================
