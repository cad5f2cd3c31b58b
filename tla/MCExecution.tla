----------------------------- MODULE MCExecution -----------------------------
(* Short programs for Execution.                                           *)
EXTENDS Execution

St(op, v)       == [op |-> op, v |-> v]
One(op)         == [op |-> op]
To(op, k)       == [op |-> op, to |-> k]
For(v, f, u, c) == [op |-> "for", v |-> v, from |-> f, upto |-> u, cells |-> c]
If(t, e)        == [op |-> "if", then |-> t, else |-> e]

\* Programs end with END and a subroutine, to whose first line 0 is resolved.
RECURSIVE Resolved(_, _)
Resolved(s, k) == CASE s.op \in {"goto", "gosub"} /\ s.to = 0 -> To(s.op, k)
                    [] s.op = "if" -> If(Resolved(s.then, k), Resolved(s.else, k))
                    [] OTHER -> s
WithTail(s, tail) ==
    LET text == s \o <<One("end")>> \o tail
    IN  [k \in DOMAIN text |-> Resolved(text[k], Len(s) + 2)]

Sequences(statements, most) == UNION { [1 .. m -> statements] : m \in 0 .. most }

\* Of most kinds.
PrintIt == One("print")
Return  == One("return")
ForI    == For("I", 1, 2, 2)
Sundry  == {St("let", "A"), St("show", "A"), St("input", "A"), St("bump", "A"), PrintIt, ForI,
            St("next", "I"), One("while"), One("wend"), To("gosub", 0), To("goto", 0),
            If(To("gosub", 0), NoStmt), If(St("next", "I"), NoStmt), One("end"), Return}

\* Loops of two variables, one of them assigned and printed; WHILE loops; IF
\* in IF (the THEN part before an ELSE ends in a name or a string, or the
\* parser skips the ELSE; an IF there has its own ELSE, or takes this one).
Loops   == {ForI, For("J", 2, 1, 3), St("next", "I"), St("next", "J"), St("let", "I"),
            St("show", "I")}
Whiles  == {One("while"), One("wend"), One("rem"), If(One("wend"), NoStmt)}
InThen  == {PrintIt, St("input", "A"), If(PrintIt, St("bump", "A"))}
NoElse  == {If(To("gosub", 0), NoStmt), If(One("wend"), NoStmt)}
Nests   == { If(a, b) : a \in InThen, b \in InThen \union NoElse } \union
           { If(a, NoStmt) : a \in InThen \union NoElse }

\* Work on a variable that has its slot, and ways round the LET that makes it.
Work    == {ForI, St("next", "I"), St("show", "A"), St("input", "A"), St("bump", "A"),
            To("gosub", 0), If(St("bump", "A"), To("gosub", 0))}
Detours == {St("let", "A"), One("while"), One("wend"), To("gosub", 0),
            If(To("gosub", 1), NoStmt), Return}

MCPrograms ==
    { WithTail(s, <<St("input", "A"), Return>>) : s \in Sequences(Sundry, 3) } \union
    { WithTail(s, <<PrintIt, Return>>) :
        s \in Sequences(Loops, 4) \union Sequences(Whiles, 5) \union Sequences(Nests, 2) } \union
    { WithTail(<<St("let", "A")>> \o s, tail) :
        s \in Sequences(Work, 3), tail \in {<<St("input", "A"), St("show", "A"), Return>>,
                                            <<If(To("gosub", 0), NoStmt), St("next", "I"), Return>>} } \union
    { WithTail(s, <<St("input", "A"), Return>>) : s \in Sequences(Detours, 4) } \union
    { WithTail(s, <<If(St("let", "A"), NoStmt), St("show", "A"), Return>>) :
        s \in Sequences(Detours, 2) } \union
    Sequences(Whiles, 2)
=============================================================================
