----------------------------- MODULE Expressions -----------------------------
(***************************************************************************)
(* The expressions of a program on their way through the compiler: all are *)
(* parsed (parse_arith_expression), in the order of the file, then code is *)
(* generated for each (eval_arith_exp).  What one expression leaves behind *)
(* for the next is ParenthesisLvl in the parser and RegIsNotCleared in the *)
(* generator.                                                              *)
(***************************************************************************)
EXTENDS ExprCode

CONSTANTS Programs,     \* sequences of expressions, each a sequence of tokens
          Samples       \* trees whose texts are among the expressions

VARIABLES
    exps,               \* the program
    ParenthesisLvl,
    read,               \* per expression parsed: tree, code and tokens consumed
    warned,             \* expressions met with "non-closed parethesis"
    RegIsNotCleared,
    made,               \* per expression generated: the code and its result's place
    pc, fault

vars == <<exps, ParenthesisLvl, read, warned, RegIsNotCleared, made, pc, fault>>

Init ==
    /\ exps \in Programs
    /\ ParenthesisLvl = 0 /\ read = <<>> /\ warned = {}
    /\ RegIsNotCleared = [r \in Registers |-> FALSE] /\ made = <<>>
    /\ pc = "parse" /\ fault = NoFault

\* parse_arith_expression: the tree, its three-address code, the intervals.
Parsing == pc = "parse" /\ Len(read) < Len(exps)
Result  == iter_parse_exp(Cursor(exps[Len(read) + 1], ParenthesisLvl), -1)

Keep(tree, tac, p) ==
    /\ read' = Append(read, [tree |-> tree, tac |-> tac, tokInd |-> p.tokInd])
    /\ ParenthesisLvl' = p.lvl

ParseExpression ==
    /\ Parsing
    /\ \E result \in {Result} :
          /\ ~NullRead(result.exp) /\ ~LiveOverflow(ASTtoTAC(result.exp))
          /\ Keep(result.exp, ASTtoTAC(result.exp), result.p)
    /\ warned' = IF ParenthesisLvl # 0 THEN warned \union {Len(read) + 1} ELSE warned
    /\ UNCHANGED <<exps, RegIsNotCleared, made, pc, fault>>

ParseFails(why) ==
    /\ pc' = "fault" /\ fault' = why
    /\ UNCHANGED <<exps, ParenthesisLvl, read, warned, RegIsNotCleared, made>>

OperandMissing == Parsing /\ NullRead(Result.exp) /\ ParseFails("no leaf")
IntervalOutside ==
    /\ Parsing
    /\ \E tree \in {Result.exp} : ~NullRead(tree) /\ LiveOverflow(ASTtoTAC(tree))
    /\ ParseFails("interval")

ParseDone ==
    /\ pc = "parse" /\ Len(read) = Len(exps)
    /\ pc' = "generate"
    /\ UNCHANGED <<exps, ParenthesisLvl, read, warned, RegIsNotCleared, made, fault>>

Generating == pc = "generate" /\ Len(made) < Len(exps)
Generated  == eval_arith_exp(read[Len(made) + 1].tac, RegIsNotCleared)

Generate ==
    /\ Generating
    /\ \E at \in {Generated} :
          /\ Ok(at.s)
          /\ made' = Append(made, [code |-> at.s.code, str |-> at.str, lost |-> at.s.lost])
          /\ RegIsNotCleared' = at.s.notCleared
    /\ UNCHANGED <<exps, ParenthesisLvl, read, warned, pc, fault>>

GenerateFails ==
    /\ Generating
    /\ \E at \in {Generated} : ~Ok(at.s) /\ fault' = at.s.fault
    /\ pc' = "fault"
    /\ UNCHANGED <<exps, ParenthesisLvl, read, warned, RegIsNotCleared, made>>

GenerateDone ==
    /\ pc = "generate" /\ Len(made) = Len(exps)
    /\ pc' = "done"
    /\ UNCHANGED <<exps, ParenthesisLvl, read, warned, RegIsNotCleared, made, fault>>

Exited == pc \in {"done", "fault"} /\ UNCHANGED vars

Next == \/ ParseExpression \/ OperandMissing \/ IntervalOutside \/ ParseDone
        \/ Generate \/ GenerateFails \/ GenerateDone \/ Exited

Spec == Init /\ [][Next]_vars
-----------------------------------------------------------------------------
(* Properties.                                                             *)

Value(k) == Run(Machine, made[k].code).reg[made[k].str.r]
ComputesTree(k) == Same(Value(k), read[k].tree)

ParseFaults == {"no leaf", "interval"}
CodeFaults  == {"assert index", "assert rax", "malformed", "no operand", "endless",
                "no symbol", "no float"}

TypeOK ==
    /\ ParenthesisLvl \in Int
    /\ Len(made) <= Len(read) /\ Len(read) <= Len(exps) /\ warned \subseteq DOMAIN read
    /\ \A k \in DOMAIN read :
          /\ read[k].tokInd \in 1 .. Len(exps[k])
          /\ Len(read[k].tac) \in 1 .. LIVE_INTER_LEN
    /\ RegIsNotCleared \in [Registers -> BOOLEAN]
    /\ \A k \in DOMAIN made : made[k].str \in { Reg(r) : r \in Registers \ {6, 7} }
    /\ pc \in {"parse", "generate", "done", "fault"}
    /\ fault \in {NoFault} \union ParseFaults \union CodeFaults
    /\ (fault = NoFault) = (pc # "fault")

\* What iter_parse_exp has consumed is what its tree says, operand for operand
\* and operator for operator in the order of the line: through the recursion,
\* the early return at a parenthesis and the shared cursor nothing is lost,
\* doubled or turned round.  Only a sign without an operand, which is let
\* through, drops the token in the operand's place.
Complete(tree) == NullExp \notin Subtrees(tree)

WrittenOrder ==
    \A k \in DOMAIN read : Complete(read[k].tree) =>
        InOrder(read[k].tree) = Plain(SubSeq(exps[k], 1, read[k].tokInd))

\* A parenthesis left open or closed too often is held against every later
\* expression until the balance is restored, and against no other.
OpenAfter(k) ==
    LET Opened[m \in 0 .. k] ==
            IF m = 0 THEN 0
            ELSE LET text == SubSeq(exps[m], 1, read[m].tokInd)
                 IN  Opened[m - 1] + Count(text, Word("(")) - Count(text, Word(")"))
    IN  Opened[k]

UnbalancedWarns ==
    \A k \in DOMAIN read : (\A m \in 1 .. k - 1 : Complete(read[m].tree)) =>
        (k \in warned <=> OpenAfter(k - 1) # 0)

\* A tree written with parentheses around its compound right operands is read
\* back as it was, unless an operator follows a closing parenthesis: that one
\* is taken into the parentheses.
RECURSIVE TreeText(_)
TreeText(t) ==
    CASE t.tag = "int"    -> <<IntToken(t.v)>>
      [] t.tag = "binary" ->
            TreeText(t.l) \o <<Word(t.op)>> \o
            IF t.r.tag = "binary" THEN <<Word("(")>> \o TreeText(t.r) \o <<Word(")")>>
                                  ELSE TreeText(t.r)

OperatorAfterGroup(t) ==
    \E u \in Subtrees(t) : u.tag = "binary" /\ u.l.tag = "binary" /\ u.l.r.tag = "binary"

SampleTexts == { <<TreeText(t), t>> : t \in Samples }

GroupsKept ==
    \A k \in DOMAIN read : \A sample \in SampleTexts :
        exps[k] = sample[1] => (read[k].tree = sample[2] <=> ~OperatorAfterGroup(sample[2]))

\* The domain on which sums and products of small constants come out right,
\* and it is exact: no product with two or more operators below it (freeing
\* takes the register of its left operand), and, where both operands of an
\* operator are compound, no product at that operator or in its left operand
\* (the right one, evaluated first, keeps %rax).
RECURSIVE OperatorCount(_)
OperatorCount(t) == IF t.tag = "binary" THEN 1 + OperatorCount(t.l) + OperatorCount(t.r) ELSE 0

SmallConstant(t) == t.tag = "int" /\ t.v \in 0 .. 255
Over(t, ops) == \A u \in Subtrees(t) : IF u.tag = "binary" THEN u.op \in ops ELSE SmallConstant(u)
Products(t)  == { u \in Binaries(t) : u.op = "*" }
TwoGroups(t) == { u \in Binaries(t) : u.l.tag = "binary" /\ u.r.tag = "binary" }

NoProductStuck(t) == \A u \in TwoGroups(t) : u.op # "*" /\ Products(u.l) = {}
NoProductLate(t)  == \A u \in Products(t) : OperatorCount(u) <= 2

SumsAndProducts ==
    \A k \in DOMAIN made : Over(read[k].tree, {"+", "*"}) =>
        /\ NoProductStuck(read[k].tree)
        /\ ComputesTree(k) <=> NoProductLate(read[k].tree)

\* A comparison of small constants is right if no expression before it in the
\* program was a comparison or needed a second register, and its outcome is
\* "equal" otherwise.
IsComparison(t) == /\ t.tag = "binary" /\ t.op \in Comparisons
                   /\ SmallConstant(t.l) /\ SmallConstant(t.r)

FirstComparison ==
    \A k \in DOMAIN made : IsComparison(read[k].tree) =>
        (ComputesTree(k) <=>
            \A m \in 1 .. k - 1 :
                \A u \in Binaries(read[m].tree) : u.op \notin Comparisons /\ u \notin TwoGroups(u))

\* Each failure has its cause in the text of the expression, and each cause
\* is one the text shows: a missing operand, a constant above 255 or a sign
\* where the bytes of a number are taken for a name or an index, a product or
\* quotient whose left operand is not in %rax, a minus.  The state is well
\* formed throughout, each tree no longer in code than the array of intervals.
LooksLikeName(atom) ==
    atom.a # "name" /\ (isTempVar(atom) \/ isSymbolVar(atom) \/ isFloatVar(atom))

OperandExpected(exp, q) ==
    /\ q = 1 \/ isBINEXP(exp[q - 1]) \/ isUNARY(exp[q - 1]) \/ exp[q - 1] = Word("(")
    /\ q = Len(exp) + 1 \/ (exp[q].t = "word" /\ ~isVAR(exp[q]) /\ exp[q] # Word("("))

FaultsExplained ==
    LET exp  == exps[Len(read) + 1]
        tree == read[Len(made) + 1].tree
        args == UNION { {e.arg1, e.arg2} : e \in { read[Len(made) + 1].tac[i] :
                                          i \in DOMAIN read[Len(made) + 1].tac } }
        Operator(ops) == \E u \in Binaries(tree) : u.op \in ops
        LongNumber    == \E atom \in args : atom.a # "name" /\ Len(Chars(atom)) > 1
    IN  /\ TypeOK
        /\ CASE fault \in {NoFault, "interval"} -> TRUE
             [] fault = "no leaf" -> \E q \in 1 .. Len(exp) + 1 : OperandExpected(exp, q)
             [] fault = "assert index" -> LongNumber \/ SymbolCount > REG_COUNT
             [] fault = "assert rax" ->
                   /\ Operator({"*", "/"})
                   /\ TwoGroups(tree) # {} \/ Operator(Comparisons) \/ LongNumber
             [] fault = "malformed" -> Operator({"-"})
             [] OTHER -> \E atom \in args : LooksLikeName(atom)

-----------------------------------------------------------------------------
(* What comments, asserts and tests of the code say, and it does not do.   *)

\* gen.c, put_tac: a register is freed when its temporary is "not being used".
FreedIsUnused == \A k \in DOMAIN made : made[k].lost = {}

\* gen.c, requestReg: assert(tempind <= REG_COUNT).
IndexAssertHolds == fault # "assert index"

\* test.sh, first test: LET A = 5 + 5*8 makes A 45.
ProductsFirst ==
    \A k \in DOMAIN read :
        Count(exps[k], Word("(")) = 0 => read[k].tree = UsualReading(exps[k])
=============================================================================
