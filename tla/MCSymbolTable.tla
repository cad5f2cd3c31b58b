--------------------------- MODULE MCSymbolTable ---------------------------
(* Small programs for SymbolTable, with hash values that collide the way    *)
(* the sums of character codes do: the strings of neighbouring ids are in   *)
(* neighbouring buckets, every other string meets an older one, and I is    *)
(* where the first string is (hash("I") = hash("str0") = 9 modulo 64).      *)
EXTENDS SymbolTable

MCNames == {"A", "B", "C", "I"}
MCStrName(id) == <<"str0", "str1", "str2", "str3", "str4", "str5">>[id + 1]
MCHash(name) == CASE name = "A" -> 0
                  [] name \in {"I", "str0", "str2", "str4"} -> 1
                  [] name \in {"str1", "str3", "str5"} -> 2
                  [] name = "B" -> 3
                  [] name = "C" -> 4

St(op, name, size) == [op |-> op, name |-> name, size |-> size]

AllStatements ==
    {St("use", "A", 1), St("use", "I", 1), St("bump", "A", 1), St("bump", "I", 1),
     St("string", "A", 1), St("string", "A", 2),
     St("for", "A", 2), St("end", "A", 1)}

StringStatements == {St("use", "A", 1), St("use", "I", 1), St("string", "A", 1)}

Sequences(statements, most) == UNION { [1 .. m -> statements] : m \in 0 .. most }

\* A table filled to its last id, no two symbols in one bucket.
FullTable == <<St("use", "A", 1), St("use", "B", 1), St("use", "C", 1),
               St("string", "A", 1), St("string", "A", 1)>>

MCPrograms == Sequences(AllStatements, 4) \union Sequences(StringStatements, 5)
                                          \union {[k \in 1 .. 6 |-> St("string", "A", 1)]}
                                          \union {FullTable}
=============================================================================
