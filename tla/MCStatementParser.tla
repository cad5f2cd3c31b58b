------------------------- MODULE MCStatementParser -------------------------
(* Lines for StatementParser: texts of statements, and any short lines. *)
EXTENDS StatementParser

MCgetId(w) == w

A      == Word("A")
Simple == {Assign(A, IntExp(1)), OneExp("PRINT", BinaryExp(SymbolExp("A"), "+", IntExp(2))),
           OneExp("PRINT", String), OneName("INPUT", A), OneName("NEXT", A), OneWord("CLS"),
           OneWord("END"), OneExp("WHILE", SymbolExp("A")), Jump("GOTO", 5), Jump("GOSUB", 6),
           For(Assign(A, IntExp(1)), IntExp(2), NullExp),
           For(Assign(A, IntExp(1)), IntExp(2), IntExp(3)),
           Assign(Word("DNE"), IntExp(1)), Assign(A, SymbolExp("A"))}
Few    == {OneExp("PRINT", IntExp(3)), OneExp("PRINT", String), OneName("INPUT", A),
           OneWord("CLS"), Jump("GOTO", 5)}

\* IFs of the statements given.  An ELSE after an IF that has none would be
\* that IF's own.
RECURSIVE OpenEnded(_)
OpenEnded(s) == s.op = "if" /\ (s.else = NullNode \/ OpenEnded(s.else))
IfsOf(stmts) == { If(IntExp(1), t, NullNode) : t \in stmts } \union
                { If(IntExp(1), t, e) : t \in { u \in stmts : ~OpenEnded(u) }, e \in stmts }

\* The text of a line; a name in an expression is a word again.
AsWord(token) == IF token.t = "symbol" THEN Word(token.id) ELSE token
Saying(s) == LET text == Text(LineNumber(10, s))
             IN  [toks |-> [k \in DOMAIN text |-> AsWord(text[k])], says |-> LineNumber(10, s)]
WithLet(v) == [toks |-> <<IntToken(10), Word("LET"), v, Word("="), IntToken(1)>>,
               says |-> LineNumber(10, Assign(v, IntExp(1)))]

\* Names with the sums of the keywords, some of others, and none.
Names == { Word(w) : w \in {"TEL", "TNIRP", "TUPNI", "DNE", "FI", "AN", "ROF", "TXEN", "ELIHW", "DNEW",
                            "MER", "BUSOG", "OTOG", "NRUTER", "SLC", "CED", "CNI", "BM", "A", "ENDE"} }
Named(v) == {Assign(v, IntExp(1)), OneExp("PRINT", SymbolExp(v.w)), OneName("INPUT", v),
             For(Assign(v, IntExp(1)), SymbolExp(v.w), NullExp)}

\* Any line over some tokens.
Any(toks) == [toks |-> toks, says |-> NullNode]
Sequences(words, ints, most) ==
    UNION { [1 .. m -> { Word(w) : w \in words } \union { IntToken(k) : k \in ints }] :
            m \in 0 .. most }
If1 == <<Word("IF"), IntToken(1)>>

MCPrograms == <<
    { <<Saying(s)>> : s \in Simple \union IfsOf(Simple) \union IfsOf(Few \union IfsOf(Few)) },
    { <<WithLet(v)>> : v \in Names },
    UNION { { <<Saying(s)>> : s \in Named(v) \union IfsOf(Named(v)) } : v \in Names },
    { <<Saying(s), Saying(t)>> : s \in Simple, t \in Simple },
    { <<Any(s)>> : s \in Sequences({"A", "PRINT", "WHILE", "IF", "THEN", "+", "(", ")"}, {7}, 4) },
    { <<Any(s)>> : s \in Sequences({"A", "=", "LET", "FOR", "TO", "STEP"}, {7}, 4) },
    { <<Any(s)>> : s \in Sequences({"A", "GOTO", "GOSUB", "INPUT", "END", "NEXT", "WEND"}, {7}, 4) },
    { <<Any(s)>> : s \in Sequences({"DNE", "AN", "ROF", "TEL", "=", "THEN", "ELSE"}, {7, 1029}, 4) },
    { <<Any(If1 \o <<Word("THEN")>> \o s)>> :
        s \in Sequences({"CED", "MER", "ELSE", "BUSOG", "TEL", "="}, {7, 1029}, 4) },
    { <<Any(If1 \o s)>> : s \in Sequences({"THEN", "ELSE", "CLS", "PRINT", "GOTO"}, {7}, 5) },
    { <<Any(<<Word("FOR"), A, Word("=")>> \o s)>> :
        s \in Sequences({"TO", "STEP", "+", "("}, {7}, 5) },
    { <<Any(s), Any(t)>> : s \in Sequences({"PRINT", "(", "GOTO"}, {7}, 3),
                           t \in Sequences({"PRINT", ")", "IF", "THEN"}, {7}, 3) } >>
=============================================================================
