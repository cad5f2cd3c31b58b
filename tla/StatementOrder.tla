--------------------------- MODULE StatementOrder ---------------------------
(***************************************************************************)
(* The driver of the compiler between the parser and the code generator:   *)
(* main() collects the parsed lines in statements[], sorts them by line    *)
(* number with sortAST, resolves the pushed GOTO targets with              *)
(* bsearch_statements, and start() walks the array and emits labels and    *)
(* statements.  One action is one loop iteration or call of the code; the  *)
(* two quicksort recursions become a stack of segments still to sort.      *)
(*                                                                         *)
(* Pointers are indices into source, 0 standing for NULL.  An access       *)
(* outside an array, a dereference of NULL and a failed assert end the     *)
(* process: pc = "fault", and fault says which.                            *)
(***************************************************************************)
EXTENDS Programs

CONSTANT Sources        \* the programs considered, each in Seq(Line)

ASSUME SourcesAssumption == Sources \subseteq Seq(Line)

VARIABLES
    source,         \* the input file, line by line
    statements,     \* statements[0 .. Capacity-1]
    n,              \* main's i: the number of statements stored
    goto_s,         \* the stack of GOTO/GOSUB targets, top last
    pending,        \* sortAST calls not yet made, next one first
    seg,            \* left and right of the sortAST call under way
    i, j,           \* the scan cursors of sortAST, then of bsearch_statements
    pivot,          \* pivot of the sortAST call under way
    target,         \* tar_numline of the bsearch_statements call under way
    labelled,       \* the nodes whose isGotoLabel is true
    pos,            \* start's i
    text,           \* what start has emitted
    pc, fault

sortVars == <<pending, seg, pivot>>
emitVars == <<pos, text>>
vars == <<source, statements, n, goto_s, pending, seg, i, j, pivot, target,
          labelled, pos, text, pc, fault>>

Null == 0
NoFault == "none"
Causes == {"overflow", "null statement", "not a numbered line", "missing target",
           "bare line number"}

Key(a) == IF statements[a] = Null THEN 0 ELSE source[statements[a]].num

\* C's integer division rounds towards zero: sortAST(arr, 0, -1) reads arr[0].
Half(x) == IF x < 0 THEN -((-x) \div 2) ELSE x \div 2

Init ==
    /\ source \in Sources
    /\ statements = [a \in 0 .. Capacity - 1 |-> Null]
    /\ n = 0 /\ goto_s = <<>>
    /\ pending = <<>> /\ seg = [l |-> 0, r |-> 0] /\ pivot = 0
    /\ i = 0 /\ j = 0 /\ target = 0 /\ labelled = {}
    /\ pos = 0 /\ text = <<>>
    /\ pc = "read" /\ fault = NoFault

Fault(why) ==
    /\ pc' = "fault" /\ fault' = why
    /\ UNCHANGED <<source, statements, n, goto_s, pending, seg, i, j, pivot, target,
                   labelled, pos, text>>

-----------------------------------------------------------------------------
(* main: the loop that reads and parses the lines.                         *)

\* push_s(goto_s, ...), once per GOTO and GOSUB of the line.
Pushed(k) == goto_s \o source[k].gotos

\* statements[i] = parse_AST(); i++.  Parsing pushes the line's targets.
ReadLine ==
    /\ pc = "read" /\ n < Len(source) /\ n < Capacity
    /\ Len(goto_s) + Len(source[n + 1].gotos) <= GotoCap
    /\ goto_s' = Pushed(n + 1)
    /\ statements' = [statements EXCEPT
                        ![n] = IF source[n + 1].kind = "null" THEN Null ELSE n + 1]
    /\ n' = n + 1
    /\ UNCHANGED <<source, sortVars, i, j, target, labelled, emitVars, pc, fault>>

\* Neither the array nor (on the push that fills it) the stack grows in time.
ReadOverflow ==
    /\ pc = "read" /\ n < Len(source)
    /\ \/ Len(goto_s) + Len(source[n + 1].gotos) > GotoCap
       \/ n >= Capacity
    /\ Fault("overflow")

\* LineToTokens reports the end of the file: main calls sortAST(statements, 0, i-1).
EndOfFile ==
    /\ pc = "read" /\ n = Len(source)
    /\ pending' = <<[l |-> 0, r |-> n - 1]>>
    /\ pc' = "call"
    /\ UNCHANGED <<source, statements, n, goto_s, seg, i, j, pivot, target,
                   labelled, emitVars, fault>>

-----------------------------------------------------------------------------
(* sortAST.                                                                *)

Middle(s) == Half(s.l + s.r)

\* Entering a call: the cursors and the pivot.
Partition ==
    /\ pc = "call" /\ pending # <<>>
    /\ statements[Middle(Head(pending))] # Null
    /\ seg' = Head(pending) /\ pending' = Tail(pending)
    /\ i' = Head(pending).l /\ j' = Head(pending).r
    /\ pivot' = Key(Middle(Head(pending)))
    /\ pc' = "scanI"
    /\ UNCHANGED <<source, statements, n, goto_s, target, labelled, emitVars, fault>>

PivotIsNull ==
    /\ pc = "call" /\ pending # <<>>
    /\ statements[Middle(Head(pending))] = Null
    /\ Fault("null statement")

NotAbovePivot(a) == Key(a) <= pivot     \* mutant
BelowPivot(a) == Key(a) < pivot

\* while (arr[i] < pivot && i < right) i++
ScanI ==
    /\ pc = "scanI" /\ statements[i] # Null
    /\ IF BelowPivot(i) /\ i < seg.r
         THEN i' = i + 1 /\ pc' = "scanI"
         ELSE i' = i /\ pc' = "scanJ"
    /\ UNCHANGED <<source, statements, n, goto_s, sortVars, j, target, labelled,
                   emitVars, fault>>

\* while (arr[j] > pivot && j > left) j--
ScanJ ==
    /\ pc = "scanJ" /\ statements[j] # Null
    /\ IF Key(j) > pivot /\ j > seg.l
         THEN j' = j - 1 /\ pc' = "scanJ"
         ELSE j' = j /\ pc' = "swap"
    /\ UNCHANGED <<source, statements, n, goto_s, sortVars, i, target, labelled,
                   emitVars, fault>>

ScanNull ==
    /\ \/ pc = "scanI" /\ statements[i] = Null
       \/ pc = "scanJ" /\ statements[j] = Null
    /\ Fault("null statement")

SwappedCells == [statements EXCEPT ![i] = statements[j], ![j] = statements[i]]

\* if (i <= j) swap, i++, j--; then the test of the do-while loop.
Swap ==
    /\ pc = "swap" /\ i <= j
    /\ statements' = SwappedCells
    /\ i' = i + 1 /\ j' = j - 1
    /\ pc' = IF i + 1 <= j - 1 THEN "scanI" ELSE "split"
    /\ UNCHANGED <<source, n, goto_s, sortVars, target, labelled, emitVars, fault>>

Crossed ==
    /\ pc = "swap" /\ i > j
    /\ pc' = "split"
    /\ UNCHANGED <<source, statements, n, goto_s, sortVars, i, j, target, labelled,
                   emitVars, fault>>

NoRightCall == <<>>         \* mutant
RightCall == IF i < seg.r THEN <<[l |-> i, r |-> seg.r]>> ELSE <<>>
LeftCall == IF j > seg.l THEN <<[l |-> seg.l, r |-> j]>> ELSE <<>>

\* if (i < right) sortAST(arr, i, right); if (j > left) sortAST(arr, left, j);
Split ==
    /\ pc = "split"
    /\ pending' = RightCall \o LeftCall \o pending
    /\ pc' = "call"
    /\ UNCHANGED <<source, statements, n, goto_s, seg, i, j, pivot, target, labelled,
                   emitVars, fault>>

Sorted ==
    /\ pc = "call" /\ pending = <<>>
    /\ pc' = "link"
    /\ UNCHANGED <<source, statements, n, goto_s, sortVars, i, j, target, labelled,
                   emitVars, fault>>

-----------------------------------------------------------------------------
(* main: while (!stack_is_empty(goto_s)); bsearch_statements.              *)

stack_is_empty == goto_s = <<>>

LastCellButOne == n - 2         \* mutant
LastCell == n - 1

\* pop_s may give memory back by realloc, through a pointer its caller does not
\* see; the cells still in use stay where they are, and nothing is pushed any
\* more.
PopGoto ==
    /\ pc = "link" /\ ~stack_is_empty
    /\ target' = goto_s[Len(goto_s)]
    /\ goto_s' = SubSeq(goto_s, 1, Len(goto_s) - 1)
    /\ i' = 0 /\ j' = LastCell
    /\ pc' = "search"
    /\ UNCHANGED <<source, statements, n, sortVars, labelled, emitVars, fault>>

KeepMid(mid) == mid             \* mutant
BelowMid(mid) == mid - 1

SkipOne(mid) == mid + 2         \* mutant
AboveMid(mid) == mid + 1

LabelLowest(mid) == statements[i]       \* mutant
Found(mid) == statements[mid]

\* One iteration: the three ifs after mid = (i + j) / 2.
Probe ==
    /\ pc = "search" /\ i <= j
    /\ LET mid  == (i + j) \div 2
           node == statements[mid]
       IN /\ node # Null /\ source[node].numbered
          /\ i' = IF target > source[node].num THEN AboveMid(mid) ELSE i
          /\ j' = IF target < source[node].num THEN BelowMid(mid) ELSE j
          /\ IF target = source[node].num
               THEN labelled' = labelled \union {Found(mid)} /\ pc' = "link"
               ELSE UNCHANGED <<labelled, pc>>
    /\ UNCHANGED <<source, statements, n, goto_s, sortVars, target, emitVars, fault>>

\* assert(stmts[mid]->tag == tag_numline)
ProbeAsserts ==
    /\ pc = "search" /\ i <= j
    /\ LET node == statements[(i + j) \div 2]
       IN node = Null \/ ~source[node].numbered
    /\ Fault("not a numbered line")

\* bsearch_statements returns NULL and main dereferences it.
TargetMissing ==
    /\ pc = "search" /\ i > j
    /\ Fault("missing target")

Linked ==
    /\ pc = "link" /\ stack_is_empty
    /\ pc' = "emit"
    /\ UNCHANGED <<source, statements, n, goto_s, sortVars, i, j, target, labelled,
                   emitVars, fault>>

-----------------------------------------------------------------------------
(* start: while (statements[i]).                                           *)

LabelText(node) == IF node \in labelled
                     THEN <<[op |-> "label", num |-> source[node].num]>>
                     ELSE <<>>

StmtText(node) == <<[op |-> "stmt", node |-> node]>>

StatementFirst(node) == StmtText(node) \o LabelText(node)      \* mutant
LineText(node) == LabelText(node) \o StmtText(node)

Emit ==
    /\ pc = "emit" /\ pos < Capacity
    /\ statements[pos] # Null
    /\ source[statements[pos]].kind = "stmt"
    /\ text' = text \o LineText(statements[pos])
    /\ pos' = pos + 1
    /\ UNCHANGED <<source, statements, n, goto_s, sortVars, i, j, target, labelled,
                   pc, fault>>

\* handle_statements(NULL) for a bare line number.
EmitBare ==
    /\ pc = "emit" /\ pos < Capacity
    /\ statements[pos] # Null
    /\ source[statements[pos]].kind # "stmt"
    /\ Fault("bare line number")

\* The loop needs a NULL after the last statement to stop.
EmitOverflow ==
    /\ pc = "emit" /\ pos >= Capacity
    /\ Fault("overflow")

Finish ==
    /\ pc = "emit" /\ pos < Capacity
    /\ statements[pos] = Null
    /\ pc' = "done"
    /\ UNCHANGED <<source, statements, n, goto_s, sortVars, i, j, target, labelled,
                   emitVars, fault>>

-----------------------------------------------------------------------------
Read == ReadLine \/ ReadOverflow \/ EndOfFile
Sort == \/ Partition \/ PivotIsNull \/ ScanI \/ ScanJ \/ ScanNull
        \/ Swap \/ Crossed \/ Split \/ Sorted
Link == PopGoto \/ Probe \/ ProbeAsserts \/ TargetMissing \/ Linked
EmitAll == Emit \/ EmitBare \/ EmitOverflow \/ Finish

\* The process has exited; it takes no more steps.
Exited == pc \in {"done", "fault"} /\ UNCHANGED vars

Next == Read \/ Sort \/ Link \/ EmitAll \/ Exited

Spec == Init /\ [][Next]_vars
FairSpec == Spec /\ WF_vars(Next)
-----------------------------------------------------------------------------
(* Properties.                                                             *)

Segment == [l : Int, r : Int]
Loops == {"scanI", "scanJ", "swap", "split"}

TypeOK ==
    /\ source \in Sources
    /\ n \in 0 .. Len(source) /\ n <= Capacity
    /\ statements \in [0 .. Capacity - 1 -> 0 .. n]
    /\ goto_s \in Seq(Targets(source)) /\ Len(goto_s) <= n * MaxGotos
    /\ pending \in Seq(Segment) /\ seg \in Segment
    /\ i \in Int /\ j \in Int /\ pivot \in Int /\ target \in Int
    /\ labelled \subseteq 1 .. n
    /\ pos \in 0 .. n
    /\ pc \in {"read", "call", "link", "search", "emit", "done", "fault"} \union Loops
    /\ fault \in {NoFault} \union Causes /\ (fault = NoFault <=> pc # "fault")

\* From the first bsearch_statements on, the statements are in line-number
\* order: every partition of the quicksort, on any input, put each line on
\* the right side of its pivot, and no recursive call was forgotten.
SortedByNumber ==
    pc \in {"link", "search", "emit", "done"} =>
        \A a, b \in 0 .. n - 1 : a < b => Key(a) <= Key(b)

\* At every moment, in the middle of a partition too, each line read so far
\* is in exactly one cell of statements[]: the swaps lose and double nothing.
EveryLineOnce ==
    /\ \A k \in 1 .. n : source[k].kind # "null" =>
           \E a \in 0 .. n - 1 : statements[a] = k
    /\ \A a, b \in 0 .. n - 1 :
           a # b /\ statements[a] # Null => statements[a] # statements[b]

\* The text start emits is the program in line-number order, each line once.
\* Each target of a jump has one label, also when line numbers repeat and when
\* several jumps name the same line, and every label is that of a target and
\* directly before a line with its number: the assembler meets one definition
\* of each label goto<N> that is used, and no other.
TextIsTheProgram ==
    LET stmts == { q \in DOMAIN text : text[q].op = "stmt" }
        labels == DOMAIN text \ stmts
    IN /\ \A p, q \in stmts : p < q =>
              /\ source[text[p].node].num <= source[text[q].node].num
              /\ text[p].node # text[q].node
       /\ pc = "done" =>
              /\ \A p \in labels : /\ text[p].num \in Targets(source)
                                    /\ p + 1 \in stmts /\ source[text[p + 1].node].num = text[p].num
              /\ \A k \in 1 .. n : \E q \in stmts : text[q].node = k
              /\ \A t \in Targets(source) :
                    \E p \in labels : /\ text[p].num = t
                                      /\ \A q \in labels : text[q].num = t => q = p

\* Each way the process can die is traced to the defect of the program that
\* causes it; in particular a well-formed program never dies here.
FaultsExplained ==
    /\ fault = "overflow" => \/ Len(source) >= Capacity
                             \/ Len(source) * MaxGotos > GotoCap
    /\ fault = "null statement" =>
           Len(source) = 0 \/ \E k \in DOMAIN source : source[k].kind = "null"
    /\ fault = "not a numbered line" => \E k \in DOMAIN source : ~source[k].numbered
    /\ fault = "missing target" =>
           \E t \in Targets(source) : ~HasLine(source, t)
    /\ fault = "bare line number" => \E k \in DOMAIN source : source[k].kind = "bare"

-----------------------------------------------------------------------------
(* The inductive invariant: why the sort, the searches and the walk work.  *)

\* Where the lines are: a cell past the n lines read is NULL, and so is a
\* cell before only on account of a line parse_AST returned NULL for.
CellsInv ==
    /\ pc \notin {"read", "fault"} => n = Len(source)
    /\ \A a \in n .. Capacity - 1 : statements[a] = Null
    /\ \A a \in 0 .. n - 1 :
           IF statements[a] = Null THEN \E k \in 1 .. n : source[k].kind = "null"
                                   ELSE source[statements[a]].kind # "null"
    /\ EveryLineOnce

\* Cells a <= b both lie in the segment s, whose inner order is still open.
Within(s, a, b) == s.l <= a /\ b <= s.r

Unsorted(a, b) ==
    \/ \E p \in DOMAIN pending : Within(pending[p], a, b)
    \/ pc \in Loops /\ Within(seg, a, b)

\* The calls still to make are for disjoint segments, the leftmost last.
PendingInv ==
    /\ \A p \in DOMAIN pending :
           0 <= pending[p].l /\ pending[p].l <= pending[p].r /\ pending[p].r < n
    /\ \A p, q \in DOMAIN pending : p < q => pending[q].r < pending[p].l

\* What a partition has established: the cells it has passed are on the right
\* side of the pivot, and each scan has a cell ahead of it that will stop it.
PassedInv ==
    /\ \A a \in seg.l .. i - 1 : Key(a) <= pivot
    /\ \A b \in j + 1 .. seg.r : Key(b) >= pivot

ScanInv ==
    /\ i \in seg.l .. seg.r /\ j \in seg.l .. seg.r
    /\ \E a \in i .. seg.r : Key(a) >= pivot
    /\ \E b \in seg.l .. j : Key(b) <= pivot
    /\ pc \in {"scanJ", "swap"} => Key(i) >= pivot
    /\ pc = "swap" => Key(j) <= pivot

SortInv ==
    /\ pc = "call" /\ n = 0 => pending = <<[l |-> 0, r |-> -1]>>
    /\ (pc = "call" /\ n > 0) \/ pc \in Loops =>
           /\ n > 0 /\ PendingInv
           /\ \A a, b \in 0 .. n - 1 : a < b => Key(a) <= Key(b) \/ Unsorted(a, b)
    /\ pc \in Loops =>
           /\ 0 <= seg.l /\ seg.l <= seg.r /\ seg.r < n
           /\ \A p \in DOMAIN pending : pending[p].r < seg.l
           /\ PassedInv
    /\ pc \in {"scanI", "scanJ", "swap"} => ScanInv
    /\ pc = "split" => seg.l <= i /\ j <= seg.r /\ j < i

\* A line with the target's number can only be where the search still looks.
SearchInv ==
    pc = "search" =>
        /\ 0 <= i /\ j < n /\ target \in Targets(source)
        /\ \A a \in 0 .. n - 1 : Key(a) = target => i <= a /\ a <= j

IInv == /\ TypeOK /\ CellsInv /\ SortInv /\ SearchInv
        /\ SortedByNumber /\ FaultsExplained
-----------------------------------------------------------------------------
\* A program inside the limits the driver assumes is compiled to the end.
WellFormedNeverFaults == WellFormed(source) => pc # "fault"

\* The scans, the recursion and the binary searches all end.
Halts == <>(pc \in {"done", "fault"})

\* The array, the quicksort and the searches implement the promise of Listing.
ListingPhase == CASE pc = "fault" -> "failed"
                  [] pc = "done" -> "complete"
                  [] pc \in {"link", "search", "emit"} -> "linking"
                  [] OTHER -> "loading"

Promise == INSTANCE Listing WITH
    order  <- IF ListingPhase \in {"linking", "complete"}
                THEN [a \in 1 .. n |-> statements[a - 1]] ELSE <<>>,
    marked <- labelled,
    phase  <- ListingPhase

ImplementsListing == Promise!Spec
=============================================================================
