------------------------------ MODULE ExprTree ------------------------------
(***************************************************************************)
(* The expression parser of parse.c: iter_parse_exp and                    *)
(* recursive_parse_exp, from the tokens of a line to a binary tree.        *)
(*                                                                         *)
(* A token is an integer constant or a word; words are operators,          *)
(* parentheses, names and keywords, and the empty word that fills the      *)
(* cells after the last token.  Every name is in the symbol table when its *)
(* leaf is made: parse_VarExp adds it if it is new.  The operators here    *)
(* thread the state the C functions share: the token cursor tokInd and the *)
(* global ParenthesisLvl, which no line resets.  Strings and floating      *)
(* point constants in an expression are left out.                          *)
(***************************************************************************)
EXTENDS Integers, Sequences

CONSTANT getId(_)       \* the symbol id of a name (SymbolTable)

IntToken(v) == [t |-> "int", v |-> v]
Word(w)     == [t |-> "word", w |-> w]

UnaryOps == {"+", "-"}
Comparisons == {"=", "<>", "><", "<", ">", "<=", ">="}
isUNARY(token)  == token.t = "word" /\ token.w \in UnaryOps
isBINEXP(token) == /\ token.t = "word"
                   /\ token.w \in {"+", "-", "*", "/", "AND", "OR"} \union Comparisons
Letters == {"A", "B", "C", "D", "E", "F", "G", "H", "I", "J", "K", "L", "M", "N", "O", "P", "Q",
            "R", "S", "T", "U", "V", "W", "X", "Y", "Z"}
isVAR(token)    == token.t = "word" /\ token.w # "" /\ SubSeq(token.w, 1, 1) \in Letters

\* enum operator, in its order.
get_op(w) == CASE w = "+" -> 0   [] w = "-" -> 1   [] w = "*" -> 2   [] w = "/" -> 3
               [] w = "<" -> 4   [] w = ">" -> 5   [] w = "<=" -> 6  [] w = ">=" -> 7
               [] w = "=" -> 8   [] w \in {"<>", "><"} -> 9  [] w = "AND" -> 11 [] w = "OR" -> 12

\* Every operator is <= op_or, so the first test of the ladder always holds.
get_predecense(w) ==
    LET op == get_op(w) IN
    IF op <= get_op("OR") THEN 1
    ELSE IF op <= get_op("AND") THEN 2
    ELSE IF op \in get_op("<") .. get_op("<>") THEN 3
    ELSE IF op = get_op("+") THEN 4
    ELSE IF op \in {get_op("*"), get_op("/")} THEN 5
    ELSE 0

\* Is the new precedence not above the one being parsed?  -1 is the top level.
compare_strictly(new, prec) == new # -1 /\ prec # -1 /\ new < prec      \* mutant
compare_prec(new, prec) == new # -1 /\ prec # -1 /\ new <= prec

IntExp(v)           == [tag |-> "int", v |-> v]
SymbolExp(id)       == [tag |-> "symbol", id |-> id]
UnaryExp(op, x)     == [tag |-> "unary", op |-> op, x |-> x]
BinaryFlipped(l, op, r) == [tag |-> "binary", op |-> op, l |-> r, r |-> l]  \* mutant
BinaryExp(l, op, r) == [tag |-> "binary", op |-> op, l |-> l, r |-> r]
NullExp             == [tag |-> "null"]

-----------------------------------------------------------------------------
(* The cursor p: the line's tokens, tokInd, ParenthesisLvl, and whether an *)
(* error was reported (exit_code, or a message, for this line).            *)

Cursor(toks, lvl) == [toks |-> toks, tokInd |-> 0, lvl |-> lvl, err |-> FALSE]

StopsOneEarly(p) ==             \* mutant
    IF p.tokInd < Len(p.toks) - 1 THEN p.toks[p.tokInd + 1] ELSE Word("")
cur_token(p) == IF p.tokInd < Len(p.toks) THEN p.toks[p.tokInd + 1] ELSE Word("")
Error(p) == [p EXCEPT !.err = TRUE]
get_next_token(p) == IF p.tokInd < Len(p.toks) THEN [p EXCEPT !.tokInd = @ + 1] ELSE Error(p)

Open(p)  == get_next_token([p EXCEPT !.lvl = @ + 1])
CloseUnlessOuter(p) == get_next_token([p EXCEPT !.lvl = IF @ > 1 THEN @ - 1 ELSE @]) \* mutant
Close(p) == get_next_token([p EXCEPT !.lvl = @ - 1, !.err = @ \/ p.lvl = 0])

Parsed(exp, p) == [exp |-> exp, p |-> p]

\* parse_leaf leaves the cursor on the leaf; of anything else it makes NULL.
RECURSIVE parse_leaf(_)
parse_leaf(p) ==
    LET token   == cur_token(p)
        operand == parse_leaf(get_next_token(p))
    IN  CASE isUNARY(token)    -> Parsed(UnaryExp(token.w, operand.exp), operand.p)
          [] token.t = "int"   -> Parsed(IntExp(token.v), p)
          [] isVAR(token)      -> Parsed(SymbolExp(getId(token.w)), p)
          [] OTHER             -> Parsed(NullExp, Error(p))

\* iter_parse_exp, and with Extend the loop around recursive_parse_exp: a
\* closing parenthesis ends the innermost loop, whichever operand it is in.
RECURSIVE iter_parse_exp(_, _), Extend(_, _, _)
iter_parse_exp(p, min_prec) ==
    LET group == iter_parse_exp(Open(p), 0)
        leaf  == parse_leaf(p)
    IN  IF cur_token(p) = Word("(")
          THEN Extend(group.exp, group.p, min_prec)
          ELSE Extend(leaf.exp, get_next_token(leaf.p), min_prec)

Extend(left, p, min_prec) ==
    LET op    == cur_token(p)
        right == iter_parse_exp(get_next_token(p), get_predecense(op.w))
    IN  CASE op = Word(")") -> Parsed(left, Close(p))
          [] isBINEXP(op) /\ ~compare_prec(get_predecense(op.w), min_prec) ->
                Extend(BinaryExp(left, op.w, right.exp), right.p, min_prec)
          [] OTHER -> Parsed(left, p)

-----------------------------------------------------------------------------
(* Trees: what is asked of them.                                           *)

\* The tree and all trees in it.
RECURSIVE Subtrees(_)
Subtrees(t) == {t} \union CASE t.tag = "unary"  -> Subtrees(t.x)
                            [] t.tag = "binary" -> Subtrees(t.l) \union Subtrees(t.r)
                            [] OTHER            -> {}

Binaries(t) == { u \in Subtrees(t) : u.tag = "binary" }

\* The tokens of a tree in the order it is read, without parentheses.
SymbolToken(id) == [t |-> "symbol", id |-> id]

RECURSIVE InOrder(_)
InOrder(t) == CASE t.tag = "unary"  -> <<Word(t.op)>> \o InOrder(t.x)
                [] t.tag = "binary" -> InOrder(t.l) \o <<Word(t.op)>> \o InOrder(t.r)
                [] t.tag = "int"    -> <<IntToken(t.v)>>
                [] t.tag = "symbol" -> <<SymbolToken(t.id)>>
                [] OTHER            -> <<>>

\* The same of a text: names as symbols, parentheses dropped.
Plain(toks) ==
    LET kept == SelectSeq(toks, LAMBDA token : token \notin {Word("("), Word(")")})
    IN  [k \in DOMAIN kept |-> IF isVAR(kept[k]) /\ ~isBINEXP(kept[k])
                                 THEN SymbolToken(getId(kept[k].w)) ELSE kept[k]]

Count(toks, token) == Len(SelectSeq(toks, LAMBDA x : x = token))

\* The usual reading of a text without parentheses: of the operators that
\* bind least the last one is the root.
Binding(w) == CASE w = "OR" -> 1 [] w = "AND" -> 2 [] w \in Comparisons -> 3
                [] w \in {"+", "-"} -> 4 [] w \in {"*", "/"} -> 5

RECURSIVE UsualReading(_)
UsualReading(toks) ==
    LET ops  == { k \in DOMAIN toks : isBINEXP(toks[k]) }
        root == CHOOSE k \in ops : \A m \in ops :
                   \/ Binding(toks[k].w) < Binding(toks[m].w)
                   \/ Binding(toks[k].w) = Binding(toks[m].w) /\ m <= k
    IN  IF ops = {} THEN parse_leaf(Cursor(toks, 0)).exp
        ELSE BinaryExp(UsualReading(SubSeq(toks, 1, root - 1)), toks[root].w,
                       UsualReading(SubSeq(toks, root + 1, Len(toks))))
=============================================================================
