------------------------------- MODULE ExprTac -------------------------------
(***************************************************************************)
(* Three-address code: ASTtoTAC, FillTac and FillLiveArr of parse.c.       *)
(*                                                                         *)
(* An operand is an Atom, a union of a number and the text of a name: "3t" *)
(* is temporary 3, "3s" symbol 3.  Nothing tells which of the two an Atom  *)
(* holds except its bytes, and a number has bytes too.  So an Atom is here *)
(* what it is in memory, as far as strlen goes (Chars), beside the value   *)
(* it was made from.                                                       *)
(***************************************************************************)
EXTENDS ExprTree

CONSTANT HeapPointer    \* the lower half of the address of a tree node
ASSUME HeapPointerAssumption == HeapPointer \in 1 .. 2147483647

LIVE_INTER_LEN == 15

Number(v)     == [a |-> "number", v |-> v]          \* .i = v, v in 0 .. 2^31 - 1
Complement(v) == [a |-> "complement", v |-> v]      \* .i = UINT_MAX - v
Name(k, c)    == [a |-> "name", k |-> k, c |-> c]   \* .c = "<k><c>"
Temp(k)       == Name(k, "t")

ByteOf(v, b) == (v \div 256^b) % 256

Code(c) == CASE c = "t" -> 116 [] c = "s" -> 115 [] c = "f" -> 102
Digits(k) == IF k < 10 THEN <<48 + k>> ELSE <<48 + (k \div 10), 48 + (k % 10)>>

FirstOf(S) == CHOOSE x \in S : \A y \in S : x <= y
LastOf(S)  == CHOOSE x \in S : \A y \in S : y <= x

\* The bytes of a little-endian number up to the first zero byte.
UpToZero(bytes) ==
    SubSeq(bytes, 1, FirstOf({ b \in DOMAIN bytes : bytes[b] = 0 } \union {Len(bytes) + 1}) - 1)

Chars(atom) ==
    CASE atom.a = "number"     -> UpToZero([b \in 1 .. 4 |-> ByteOf(atom.v, b - 1)])
      [] atom.a = "complement" -> UpToZero([b \in 1 .. 4 |-> 255 - ByteOf(atom.v, b - 1)])
      [] atom.a = "name"       -> Append(Digits(atom.k), Code(atom.c))

isNUM(byte) == byte \in 48 .. 57

\* getLastChar: the text ends in c and starts with a digit.
TextEndsIn(text, c) == Len(text) > 0 /\ text[Len(text)] = Code(c) /\ isNUM(text[1])
EndsIn(atom, c)     == TextEndsIn(Chars(atom), c)

isTempVar(atom)   == EndsIn(atom, "t")
isSymbolVar(atom) == EndsIn(atom, "s")
isFloatVar(atom)  == EndsIn(atom, "f")

\* postfix_GetIndex: the decimal number in front of the last character, each
\* (signed) character taken for a digit.
Signed(byte) == IF byte < 128 THEN byte ELSE byte - 256

RECURSIVE p_atoi(_)
p_atoi(text) == IF text = <<>> THEN 0
                ELSE 10 * p_atoi(SubSeq(text, 1, Len(text) - 1)) + Signed(text[Len(text)]) - 48

TextIndex(text) == IF text = <<>> THEN 0 ELSE p_atoi(SubSeq(text, 1, Len(text) - 1))
postfix_GetIndex(atom) == TextIndex(Chars(atom))

-----------------------------------------------------------------------------
\* oper.intExp of a node: of a unary one that is half of the pointer to its
\* operand, which is NULL when parse_leaf found none.
IntCell(t) == CASE t.tag = "int"    -> t.v
                [] t.tag = "symbol" -> t.id
                [] t.tag = "unary"  -> IF t.x = NullExp THEN 0 ELSE HeapPointer

Operand(t) == IF t.tag = "symbol" THEN Name(t.id, "s") ELSE Number(IntCell(t))

\* What ASTtoTAC and FillTac read through a NULL.
NullRead(t) ==
    \/ t = NullExp
    \/ t.tag = "unary" /\ t.op = "-" /\ t.x = NullExp
    \/ \E u \in Binaries(t) : NullExp \in {u.l, u.r}

\* FillTac: post-order; arg1 is the right operand, arg2 the left one.
RECURSIVE FillTac(_, _)
FillTac(t, arr) ==
    LET lefts  == IF t.l.tag = "binary" THEN FillTac(t.l, arr) ELSE arr
        rights == IF t.r.tag = "binary" THEN FillTac(t.r, lefts) ELSE lefts
        left   == IF t.l.tag = "binary" THEN Temp(Len(lefts) - 1) ELSE Operand(t.l)
        right  == IF t.r.tag = "binary" THEN Temp(Len(rights) - 1) ELSE Operand(t.r)
    IN  Append(rights, [operator |-> t.op, arg1 |-> right, arg2 |-> left,
                        result |-> Temp(Len(rights))])

\* One operand alone.  A minus is applied as UINT_MAX - oper.intExp.
Single(t) == IF t.tag = "unary" /\ t.op = "-" THEN Complement(IntCell(t.x)) ELSE Operand(t)

\* ASTtoTAC; entries are numbered from 0 in the code, from 1 here.
ASTtoTAC(t) ==
    IF t.tag = "binary" THEN FillTac(t, <<>>)
    ELSE << [operator |-> "null", arg1 |-> Number(0), arg2 |-> Single(t),
             result |-> Number(0)] >>

\* FillLiveArr: LiveInterval[k], from the first to the last entry that
\* mentions the temporary k as its result or as an operand.
Mentions(arr, k) ==
    { i \in 0 .. Len(arr) - 1 :
        \E atom \in {arr[i + 1].result, arr[i + 1].arg1, arr[i + 1].arg2} :
            isTempVar(atom) /\ postfix_GetIndex(atom) = k }

Span(entries) == IF entries = {} THEN <<-1, -1>> ELSE <<FirstOf(entries), LastOf(entries)>>
LiveInterval(arr, k) == Span(Mentions(arr, k))

\* An index outside LiveInterval is written all the same.
LiveOverflow(arr) ==
    \E i \in DOMAIN arr : \E atom \in {arr[i].result, arr[i].arg1, arr[i].arg2} :
        isTempVar(atom) /\ postfix_GetIndex(atom) \notin 0 .. LIVE_INTER_LEN - 1
=============================================================================
