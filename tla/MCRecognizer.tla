---------------------------- MODULE MCRecognizer ----------------------------
(* Texts for Recognizer. *)
EXTENDS Recognizer

Chars(s) == [k \in 1 .. Len(s) |-> SubSeq(s, k, k)]
Sequences(elements, most) == UNION { [1 .. m -> elements] : m \in 0 .. most }

Row(c, n) == [k \in 1 .. n |-> c]

\* All tokens of the lexer of up to three or four characters, by one character
\* of each kind a pattern tells apart, and long ones; numbers with signs and
\* exponents, other texts with signs of the patterns, and strings of signs.
Tokens == Sequences({"5", "."}, 4) \union Sequences({"A", "E"}, 4)
          \union Sequences({"+", "-", "*", "/"}, 3) \union Sequences({"?", ";"}, 3)
          \union { <<"(">>, <<")">> }
Long == { Row(c, n) : c \in {"5", "A", "+", "*", "?", "."}, n \in 5 .. 19 }
        \union { <<"\"">> \o Row(c, n) \o <<"\"">> : c \in {"5", "A", "+", "."}, n \in 1 .. 17 }
        \union { Row("5", m) \o <<".">> \o Row("5", n) : m \in 1 .. 14, n \in 0 .. 3 }
MCTexts == Tokens \union Long \union Sequences({"5", ".", "+", "E"}, 3)
           \union Sequences({"A", "z", "5", "-", "*", "(", "?"}, 2)
           \union { Chars(s) : s \in {"5.5E5", "5.5E+5", "+55.5E55", "-5.55", "A1", "5.5E", "\"A\"",
                                      "\"", "\"\"\"", "\"*.*\"", "()", "|", "]", "9]*"} }
           \union { <<"\"">> \o t \o <<"\"">> : t \in Sequences({"(", "*"}, 5) }
           \union { Chars("\"**************\""), Chars("\"A(B)C(D)\"") }
=============================================================================
