---------------------------- MODULE MCExpressions ----------------------------
(* Instances of Expressions: texts written from trees, and all short texts. *)
EXTENDS Expressions

MCgetId(w) == CASE w = "A" -> 0 [] w = "B" -> 1 [] OTHER -> 2

\* Trees of n operators, and the same with their constants told apart.
RECURSIVE Shapes(_, _)
Shapes(n, ops) ==
    IF n = 0 THEN {IntExp(0)}
    ELSE UNION { { BinaryExp(l, op, r) : l \in Shapes(k, ops), op \in ops,
                                         r \in Shapes(n - 1 - k, ops) } : k \in 0 .. n - 1 }

RECURSIVE Numbered(_, _)
Numbered(t, from) ==
    IF t.tag = "int" THEN IntExp(from)
    ELSE BinaryExp(Numbered(t.l, from), t.op, Numbered(t.r, from + OperatorCount(t.l) + 1))

Trees(n, ops) == { Numbered(t, 1) : t \in Shapes(n, ops) }

\* Every operation in parentheses: whatever is written is read back.
RECURSIVE FullText(_)
FullText(t) ==
    IF t.tag = "int" THEN <<IntToken(t.v)>>
    ELSE <<Word("(")>> \o FullText(t.l) \o <<Word(t.op)>> \o FullText(t.r) \o <<Word(")")>>

SumsOfProducts == UNION { Trees(n, {"+", "*"}) : n \in 0 .. 4 }

Small == UNION { Trees(n, {"+", "*", "=", "<"}) : n \in 0 .. 2 }
CodePrograms ==
    { <<FullText(t)>> : t \in SumsOfProducts } \union
    { <<TreeText(t)>> : t \in SumsOfProducts } \union
    { <<TreeText(t), TreeText(u)>> : t \in Small, u \in Trees(1, {"+", "=", "<"}) }

Tokens == {IntToken(1), Word("A"), Word("+"), Word("*"), Word("-"), Word("("), Word(")")}
Texts(n, tokens) == UNION { [1 .. m -> tokens] : m \in 0 .. n }

\* Constants whose bytes read "0t", "0s", "0f", "99t", an index of -1 and one
\* above 32, and a sum of more operands than there are intervals.
OddConstants == {29744, 29488, 26160, 7616825, 303, 383}
Factors      == { IntToken(v) : v \in OddConstants \union {1} } \union {Word("A")}
Chains == { <<x, Word(op), y, Word(o), z>> : x, y, z \in Factors, op, o \in {"+", "*", "=", "><", "-"} }
LongSum == [k \in 1 .. 33 |-> IF k % 2 = 1 THEN IntToken(1) ELSE Word("+")]

TokenPrograms == { <<s>> : s \in Texts(5, Tokens) \union Chains \union {<<x>> : x \in Factors}
                                   \union {LongSum} }

Brackets == {IntToken(1), Word("+"), Word("("), Word(")")}
BalancePrograms == { <<s, t, <<IntToken(1)>> >> : s \in Texts(3, Brackets), t \in Texts(3, Brackets) }

\* 5 + 5*8, the expression of the first test, and the shortest ones on which
\* a comment or an assert of the code fails: 383 and (1+2+3)*4.
I(v) == IntToken(v)
TestPrograms ==
    { << <<I(5), Word("+"), I(5), Word("*"), I(8)>> >>,
      << <<I(383)>> >>,
      << <<I(1), Word("+"), I(2), Word("+"), I(3), Word("*"), I(4)>> >> }

AllPrograms == CodePrograms \union TokenPrograms \union BalancePrograms
=============================================================================
