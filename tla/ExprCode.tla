------------------------------ MODULE ExprCode ------------------------------
(***************************************************************************)
(* Code for expressions: put_tac of gen.c, the registers it asks for, and  *)
(* a machine that executes what it emits.  Registers hold terms instead of *)
(* numbers, so that running the code of an expression gives back the tree  *)
(* the code computes.                                                      *)
(*                                                                         *)
(* The generator's state s is                                              *)
(*   regArr      LocalRegOccup: what each register was taken for, -1 free  *)
(*   notCleared  the global RegIsNotCleared                                *)
(*   code        the instructions emitted                                  *)
(*   fault       the first thing that stopped it                           *)
(*   lost        the entries one of whose operands was in a register they  *)
(*               freed                                                     *)
(* RegIsOccupied is never set: no caller asks for a register globally.     *)
(* Floating point, which moves all of this to other registers, is left out.*)
(***************************************************************************)
EXTENDS ExprTac

CONSTANT SymbolCount        \* ids in the symbol table

REG_COUNT == 32
Registers == 0 .. REG_COUNT - 1
rax == 0
rdx == 3
AllFree == [r \in Registers |-> -1]
NoFault == "none"

\* Operands of instructions.
Reg(r)  == [o |-> "reg", r |-> r]
Imm(a)  == [o |-> "imm", a |-> a]
Mem(id) == [o |-> "mem", id |-> id]     \* the symbol's slot
NoOperand == [o |-> "none"]

Put(s, op, src, dst) == [s EXCEPT !.code = Append(@, [op |-> op, src |-> src, dst |-> dst])]
Fail(s, why) == IF s.fault = NoFault THEN [s EXCEPT !.fault = why] ELSE s
Ok(s) == s.fault = NoFault

isOccupied(s, r) == s.regArr[r] # -1

\* OccupyReg: %rsp and %rbp are not to be had.
FreeRegs(s) == { r \in Registers \ {6, 7} : ~isOccupied(s, r) }
FirstFree(s) == FirstOf(FreeRegs(s))

\* requestReg(tempVar): the register is marked with the "index" of the text,
\* whatever text it is.
Taken(r, index, s) ==
    [r |-> r, s |-> IF index <= REG_COUNT THEN [s EXCEPT !.regArr[r] = index]
                                          ELSE Fail(s, "assert index")]
requestReg(index, s) == Taken(FirstFree(s), index, s)

\* postfix_GetIndex("%rax"), read as decimal digits.
RegisterName == -391

-----------------------------------------------------------------------------
\* "free registers": only register 0 is looked at (the break is outside the
\* if), and what is released is the register numbered like the temporary.
FreeAtLastUse(num, arr, s) ==    \* mutant
    IF s.regArr[rax] \in 0 .. Len(arr) - 1 /\ LiveInterval(arr, s.regArr[rax])[2] <= num
      THEN [s EXCEPT !.regArr[s.regArr[rax]] = -1, !.notCleared[s.regArr[rax]] = FALSE]
      ELSE s
FreeRegisters(num, arr, s) ==
    IF s.regArr[rax] \in 0 .. Len(arr) - 1 /\ LiveInterval(arr, s.regArr[rax])[2] < num
      THEN [s EXCEPT !.regArr[s.regArr[rax]] = -1, !.notCleared[s.regArr[rax]] = FALSE]
      ELSE s

At(str, s)    == [str |-> str, s |-> s]
Stopped(s)    == At(NoOperand, s)
Swap(reg, s)  == Put(s, "xchg", Reg(rax), reg)
Release(r, s) == [s EXCEPT !.regArr[r] = -1]

\* handle_one_arg_op: mul and div, for a left operand in %rax only.
Work(op, src, reg, s) == Put(Swap(reg, Put(s, "mov", src, reg)), op, reg, NoOperand)
OneArg(op, src, dst, req) ==
    IF isOccupied(req.s, rax) /\ dst # Reg(rax)
      THEN At(dst, Fail(req.s, "assert rax"))
      ELSE At(dst, Release(req.r,
             IF isOccupied(req.s, rdx)
               THEN Put(Work(op, src, Reg(req.r), Put(req.s, "push", Reg(rdx), NoOperand)),
                        "pop", NoOperand, Reg(rdx))
               ELSE Work(op, src, Reg(req.r), req.s)))

OneArgOp(op, src, dst, s) == OneArg(op, src, dst, requestReg(RegisterName, s))

\* handle_cmp_op: args[0] names the register for the result.
ClearAlways(s, r) == TRUE       \* mutant
MustClear(s, r) == s.notCleared[r]
Cleared(r, s) == IF MustClear(s, r) THEN Put(s, "xor", Reg(r), Reg(r)) ELSE s
Marked(r, s)  == [s EXCEPT !.notCleared[r] = TRUE]

Compare(op, req) ==
    At(Reg(req.r), Swap(Reg(req.r), Put(Swap(Reg(req.r), Marked(req.r, Cleared(req.r, req.s))),
                                        op, NoOperand, Reg(rax))))
CmpOp(op, index, dst, compared) ==
    IF isOccupied(compared, rax)
      THEN Compare(op, requestReg(index, compared))
      ELSE At(dst, Put(Put(compared, op, NoOperand, Reg(rax)), "mov", Reg(rax), dst))

Operate(e, src, dst, s) ==
    CASE e.operator = "null"        -> At(dst, s)
      [] e.operator = "-"           -> At(dst, Fail(s, "malformed"))
      [] e.operator \in {"*", "/"}  -> OneArgOp(e.operator, src, dst, s)
      [] e.operator \in Comparisons ->
            CmpOp(e.operator, postfix_GetIndex(e.arg1), dst, Put(s, "cmp", src, dst))
      [] e.operator \in {"+", "AND", "OR"} -> At(dst, Put(s, e.operator, src, dst))

\* Two operands that are not temporaries: the left one is loaded first.
Load(e, src, left, req) ==
    IF Ok(req.s) THEN Operate(e, src, Reg(req.r), Put(Marked(req.r, req.s), "mov", left, Reg(req.r)))
                 ELSE Stopped(req.s)

OnlyRightIsTemp(e) == isTempVar(e.arg1) /\ ~isTempVar(e.arg2)

Combine(e, right, left, s) ==
    CASE ~isTempVar(e.arg1) /\ ~isTempVar(e.arg2) ->
            Load(e, right, left, requestReg(postfix_GetIndex(e.arg2), s))
      [] isTempVar(e.arg1) \/ isTempVar(e.arg2) ->
            IF OnlyRightIsTemp(e) THEN Operate(e, left, right, s) ELSE Operate(e, right, left, s)

\* Entries whose own operand is released are noted.
Noted(num, strs, before, after) ==
    IF \E r \in Registers : after.regArr[r] # before.regArr[r] /\ Reg(r) \in strs
      THEN [after EXCEPT !.lost = @ \union {num}] ELSE after

\* put_tac(num): the operands, right one first, then the operation.  A
\* temporary is looked up by its text among the results up to entry num.
Maker(atom, num, arr) ==
    LastOf({ j \in 0 .. num : Chars(arr[j + 1].result) = Chars(atom) } \union {-1})
Symbol(id, s) == At(Mem(id), IF id \in 0 .. SymbolCount - 1 THEN s ELSE Fail(s, "no symbol"))

RECURSIVE put_tac(_, _, _)
Temporary(j, num, arr, s) == CASE j = -1  -> Stopped(Fail(s, "no operand"))
                               [] j = num -> Stopped(Fail(s, "endless"))
                               [] OTHER   -> put_tac(j, arr, s)

Arg(atom, num, arr, s) ==
    CASE ~Ok(s)                       -> Stopped(s)
      [] Ok(s) /\ isTempVar(atom)     -> Temporary(Maker(atom, num, arr), num, arr, s)
      [] Ok(s) /\ isSymbolVar(atom)   -> Symbol(postfix_GetIndex(atom), s)
      [] Ok(s) /\ isFloatVar(atom)    -> Stopped(Fail(s, "no float"))
      [] OTHER                        -> At(Imm(atom), s)

WithBoth(num, arr, right, left) ==
    IF ~Ok(left.s) THEN Stopped(left.s)
    ELSE Combine(arr[num + 1], right.str, left.str,
                 Noted(num, {left.str, right.str}, left.s, FreeRegisters(num, arr, left.s)))
WithRight(num, arr, right) ==
    WithBoth(num, arr, right, Arg(arr[num + 1].arg2, num, arr, right.s))

put_tac(num, arr, s) == WithRight(num, arr, Arg(arr[num + 1].arg1, num, arr, s))

\* eval_arith_exp: a fresh LocalRegOccup, the global flags as they were.
eval_arith_exp(arr, notCleared) ==
    put_tac(Len(arr) - 1, arr, [regArr |-> AllFree, notCleared |-> notCleared,
                                code |-> <<>>, lost |-> {}, fault |-> NoFault])

-----------------------------------------------------------------------------
(* The machine.  A slot holds 32 bits and is read with 64: the upper half  *)
(* is a neighbour's value, which sums and products of the lower halves do  *)
(* not notice but comparisons and quotients do.                            *)

Wide(id) == [tag |-> "wide", id |-> id]

TermOf(atom) == CASE atom.a = "number" -> IntExp(atom.v)
                  [] atom.a = "complement" -> UnaryExp("~", IntExp(atom.v))
                  [] OTHER -> NullExp

Machine == [reg |-> [r \in Registers |-> NullExp], l |-> NullExp, r |-> NullExp,
            stack |-> <<>>]

Read(m, operand) == CASE operand.o = "reg" -> m.reg[operand.r]
                      [] operand.o = "imm" -> TermOf(operand.a)
                      [] operand.o = "mem" -> Wide(operand.id)

Execute(m, ins) ==
    CASE ins.op = "mov"  -> [m EXCEPT !.reg[ins.dst.r] = Read(m, ins.src)]
      [] ins.op = "xchg" -> [m EXCEPT !.reg[ins.src.r] = m.reg[ins.dst.r],
                                      !.reg[ins.dst.r] = m.reg[ins.src.r]]
      [] ins.op \in {"+", "AND", "OR"} ->
            [m EXCEPT !.reg[ins.dst.r] = BinaryExp(@, ins.op, Read(m, ins.src))]
      [] ins.op = "*" -> [m EXCEPT !.reg[rax] = BinaryExp(@, "*", m.reg[ins.src.r]),
                                   !.reg[rdx] = NullExp]
      \* div: %rdx:%rax by the operand, %rdx being what it happens to be
      [] ins.op = "/" -> [m EXCEPT !.reg[rax] = NullExp, !.reg[rdx] = NullExp]
      [] ins.op = "cmp" -> [m EXCEPT !.l = Read(m, ins.dst), !.r = Read(m, ins.src)]
      \* xor clears the register and leaves the flags of "equal"
      [] ins.op = "xor" -> [m EXCEPT !.reg[ins.dst.r] = IntExp(0), !.l = NullExp, !.r = NullExp]
      [] ins.op \in Comparisons -> [m EXCEPT !.reg[rax] = BinaryExp(m.l, ins.op, m.r)]
      [] ins.op = "push" -> [m EXCEPT !.stack = Append(@, m.reg[ins.src.r])]
      [] ins.op = "pop"  -> [m EXCEPT !.reg[ins.dst.r] = m.stack[Len(m.stack)],
                                      !.stack = SubSeq(@, 1, Len(@) - 1)]

RECURSIVE Run(_, _)
Run(m, code) == IF code = <<>> THEN m ELSE Run(Execute(m, Head(code)), Tail(code))

\* The same value: operands of a commutative operator may have changed sides.
Commutative == {"+", "*", "AND", "OR", "=", "<>"}

Exact(term) == \A u \in Subtrees(term) : u.tag # "wide"

RECURSIVE Same(_, _)
Same(term, t) ==
    CASE term.tag = "wide" -> t = SymbolExp(term.id)
      [] term.tag = "binary" ->
            /\ t.tag = "binary" /\ t.op = term.op
            /\ term.op \in Comparisons => Exact(term.l) /\ Exact(term.r)
            /\ \/ Same(term.l, t.l) /\ Same(term.r, t.r)
               \/ term.op \in Commutative /\ Same(term.l, t.r) /\ Same(term.r, t.l)
      [] term.tag \in {"int", "unary"} -> term = t
      [] OTHER -> FALSE
=============================================================================
