------------------------------- MODULE Listing -------------------------------
(***************************************************************************)
(* What the driver promises, without its arrays, stack and searches: the   *)
(* lines of the program are put in line-number order, then each target of  *)
(* a GOTO or GOSUB gets one line marked as its label, and the program is   *)
(* emitted.  A program that is not well formed may fail at any point.      *)
(* The order of lines with equal numbers and the line marked among them    *)
(* are left open, as the code's unstable sort leaves them.                 *)
(***************************************************************************)
EXTENDS Programs

CONSTANT Sources

VARIABLES source, order, marked, phase

listVars == <<source, order, marked, phase>>

\* o is an arrangement of all the lines of src, by line number.
SortedOrder(src, o) ==
    /\ DOMAIN o = DOMAIN src
    /\ \A k \in DOMAIN src : \E a \in DOMAIN o : o[a] = k
    /\ \A a, b \in DOMAIN o : a < b => src[o[a]].num <= src[o[b]].num

Init ==
    /\ source \in Sources
    /\ order = <<>> /\ marked = {} /\ phase = "loading"

Arrange ==
    /\ phase = "loading"
    /\ SortedOrder(source, order') /\ phase' = "linking"
    /\ UNCHANGED <<source, marked>>

\* One target resolved: a line with that number, marked unless it already is
\* or another line has been marked for the same number.
MarkTarget(t) ==
    /\ phase = "linking"
    /\ ~ \E m \in marked : source[m].num = t
    /\ \E k \in DOMAIN source : source[k].num = t /\ marked' = marked \union {k}
    /\ UNCHANGED <<source, order, phase>>

Complete ==
    /\ phase = "linking"
    /\ \A t \in Targets(source) : \E m \in marked : source[m].num = t
    /\ phase' = "complete"
    /\ UNCHANGED <<source, order, marked>>

\* A failed compilation delivers no order.
Fail ==
    /\ phase # "failed" /\ ~WellFormed(source)
    /\ phase' = "failed" /\ order' = <<>>
    /\ UNCHANGED <<source, marked>>

Next == Arrange \/ (\E t \in Targets(source) : MarkTarget(t)) \/ Complete \/ Fail

Spec == Init /\ [][Next]_listVars
=============================================================================
