----------------------------- MODULE MCRuntime -----------------------------
(* Small programs for Runtime: a word of seven bits, eighths, a digitspace  *)
(* of six bytes and a stringspace of four.                                  *)
EXTENDS Runtime

PrintOf(v) == [op |-> "print", v |-> v]
FloatOf(x) == [op |-> "float", v |-> x]
Ask        == [op |-> "input", v |-> 0]
Sequences(elements, most) == UNION { [1 .. m -> elements] : m \in 0 .. most }
Script(calls, file, terminal) == [calls |-> calls, file |-> file, terminal |-> terminal]

\* Zero, one to two digits, the negative numbers -64 and -1; and .125, .5,
\* 1.0, 1.125, 63.125, 100.5, whose whole part has the sign bit set, and
\* 132.5, whose whole part needs an eighth bit.
Integers7 == { PrintOf(v) : v \in {0, 5, 42, 64, 127} }
Floats    == { FloatOf(x) : x \in {1, 4, 8, 9, 505, 804, 1060} }
Printed   == { Script(c, <<>>, TRUE) : c \in Sequences(Integers7 \union Floats, 3) }

\* "-", "7", "x" and the newline, in every order.
Text == {Minus, 55, 120, Newline}
Asked == { Script(<<Ask, Ask, Ask>>, f, t) : f \in Sequences(Text, 4), t \in BOOLEAN }
\* Three digits overflow the word, four fill the buffer, five do not fit.
LongLines == { Script(<<Ask, Ask, Ask>>, [i \in 1 .. n |-> 55] \o tail, t) :
                n \in 3 .. 6, tail \in {<<>>, <<Newline, 56, Newline>>}, t \in BOOLEAN }
\* What PRINT and INPUT do to each other.
Mixed == { Script(c, f, TRUE) : c \in Sequences({Ask, FloatOf(0), FloatOf(505), PrintOf(127)}, 4),
                                f \in {<<55, 53, 56>>, <<55, 53, Newline, 52, Newline>>} }

MCScripts == Printed \union Asked \union LongLines \union Mixed
=============================================================================
