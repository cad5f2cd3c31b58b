------------------------------ MODULE MCLexer ------------------------------
(* Small files for Lexer: tokens of up to three characters, four a line.  *)
EXTENDS Lexer

MCUpper(c) == IF c = "a" THEN "A" ELSE c
Sequences(elements, most) == UNION { [1 .. m -> elements] : m \in 0 .. most }

\* Every kind of character, in short files; what strings, lines and arrays
\* depend on, in longer ones.
MCFiles == Sequences({"a", "+", "1", "(", ";", "#", "\"", " ", "nl", "nul"}, 4)
           \union Sequences({"a", "\"", " ", "nl"}, 6)
           \union Sequences({"a", "1", "(", " "}, 6)
           \union Sequences({"a", " ", "nl", "#"}, 5)
=============================================================================
