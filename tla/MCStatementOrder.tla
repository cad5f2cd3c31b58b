-------------------------- MODULE MCStatementOrder --------------------------
(* Small programs for StatementOrder. *)
EXTENDS StatementOrder

Plain(num) == [num |-> num, numbered |-> TRUE, kind |-> "stmt", gotos |-> <<>>]
Jump(num, t) == [Plain(num) EXCEPT !.gotos = <<t>>]
Fork(num, t, u) == [Plain(num) EXCEPT !.gotos = <<t, u>>]
Files(lines, most) == UNION { [1 .. m -> lines] : m \in 0 .. most }

\* Line numbers with repetitions, jumps forward, backward, to a repeated
\* number and to none, a bare number, an unnumbered PRINT (key op_print = 0)
\* and a line without tokens.
MixedLines ==
    { Plain(10), Plain(20), Plain(30),
      Jump(10, 30), Jump(20, 10), Jump(30, 40), Jump(40, 20),
      [Plain(20) EXCEPT !.kind = "bare"],
      [Plain(0) EXCEPT !.numbered = FALSE],
      [Plain(0) EXCEPT !.numbered = FALSE, !.kind = "null"] }

\* Those of them that matter to the search, for longer programs.
SearchLines ==
    { Plain(10), Plain(30), Jump(20, 10), Jump(30, 40),
      [Plain(20) EXCEPT !.kind = "bare"],
      [Plain(0) EXCEPT !.numbered = FALSE] }

\* A line with two targets (IF c THEN GOTO 10 ELSE GOTO 20) and its targets.
ForkLines == { Plain(10), Plain(20), Fork(30, 10, 20), Jump(20, 30) }

\* Programs that fill the array, overrun it, and overrun the stack.
LimitFiles == { [k \in 1 .. 6 |-> Plain(k)], [k \in 1 .. 7 |-> Plain(k)],
                [k \in 1 .. 5 |-> Fork(k, 1, 2)] }

\* Every arrangement of line numbers, for the sort.
SortFiles == Files({ Plain(num) : num \in 1 .. 5 }, 5)

AllFiles == Files(MixedLines, 3) \union Files(SearchLines, 4) \union Files(ForkLines, 4)
            \union SortFiles \union LimitFiles
=============================================================================
