------------------------ MODULE StatementOrder_proofs ------------------------
(* Proofs about StatementOrder, for every capacity and every set of programs. *)
EXTENDS StatementOrder, SequenceTheorems, TLAPS

\* A source line is a record of Line, and so its key is an integer.
LEMMA SourceLines ==
    ASSUME TypeOK
    PROVE  /\ source \in Seq(Line) /\ Len(source) \in Nat
           /\ DOMAIN source = 1 .. Len(source)
           /\ \A k \in DOMAIN source :
                 /\ source[k] \in Line /\ source[k].num \in Int
                 /\ source[k].kind \in Kinds /\ source[k].numbered \in BOOLEAN
                 /\ source[k].gotos \in Seq(Int)
                 /\ Len(source[k].gotos) \in Nat
                 /\ Len(source[k].gotos) <= MaxGotos
                 /\ source[k].kind = "null" => ~source[k].numbered
<1>1. source \in Seq(Line)
  BY SourcesAssumption DEF TypeOK
<1>2. Len(source) \in Nat /\ DOMAIN source = 1 .. Len(source)
  BY <1>1
<1>3. \A k \in DOMAIN source : source[k] \in Line
  BY <1>1
<1> QED
  BY <1>1, <1>2, <1>3 DEF Line

LEMMA KeyType ==
    ASSUME TypeOK, NEW a \in 0 .. Capacity - 1
    PROVE  /\ Key(a) \in Int
           /\ statements[a] \in 0 .. n
           /\ statements[a] # Null => /\ statements[a] \in DOMAIN source
                                      /\ Key(a) = source[statements[a]].num
BY SourceLines, CapacityAssumption DEF TypeOK, Key, Null

\* The numbers a line pushes are targets of the program.
LEMMA PushedTargets ==
    ASSUME TypeOK, NEW k \in DOMAIN source
    PROVE  source[k].gotos \in Seq(Targets(source))
<1>1. source[k].gotos \in Seq(Int)
  BY SourceLines
<1>2. \A g \in DOMAIN source[k].gotos : source[k].gotos[g] \in Targets(source)
  BY DEF Targets
<1> QED
  BY <1>1, <1>2

\* The initial states satisfy the invariant.
LEMMA InitInvariant == Init => IInv
<1> SUFFICES ASSUME Init PROVE IInv
  OBVIOUS
<1> USE CapacityAssumption, MaxGotosAssumption
<1>1. TypeOK
  <2>1. source \in Seq(Line) /\ Len(source) \in Nat
    BY SourcesAssumption DEF Init
  <2> QED
    BY <2>1 DEF Init, TypeOK, Segment, Loops, NoFault, Null
<1>2. CellsInv
  BY DEF Init, CellsInv, EveryLineOnce, Null
<1>3. SortInv /\ SearchInv /\ SortedByNumber
  BY DEF Init, SortInv, SearchInv, SortedByNumber, Loops
<1>4. FaultsExplained
  BY DEF Init, FaultsExplained, NoFault
<1> QED
  BY <1>1, <1>2, <1>3, <1>4 DEF IInv

\* A fault with a cause keeps the invariant: it changes pc and fault alone.
LEMMA FaultInvariant ==
    ASSUME IInv, pc' = "fault", fault' \in Causes, FaultsExplained',
           UNCHANGED <<source, statements, n, goto_s, pending, seg, i, j, pivot, target,
                       labelled, pos, text>>
    PROVE  IInv'
<1> USE DEF IInv
<1>1. TypeOK'
  BY DEF TypeOK, Loops, NoFault, Causes
<1>2. CellsInv'
  BY DEF CellsInv, EveryLineOnce
<1>3. SortInv' /\ SearchInv' /\ SortedByNumber'
  BY DEF SortInv, SearchInv, SortedByNumber, Loops
<1> QED
  BY <1>1, <1>2, <1>3
-----------------------------------------------------------------------------
\* Reading a line keeps the invariant: the line goes to the first free cell.
LEMMA ReadLineInvariant ==
    ASSUME IInv, ReadLine
    PROVE  IInv'
<1> USE DEF IInv
<1> DEFINE k == n + 1
<1>1. /\ n \in Nat /\ k \in DOMAIN source /\ Len(source) \in Nat
      /\ n < Capacity /\ n < Len(source) /\ n' = n + 1
      /\ source' = source /\ pc' = pc /\ pc = "read"
  BY SourceLines DEF TypeOK, ReadLine, Pushed
<1>2. goto_s' \in Seq(Targets(source)) /\ Len(goto_s') = Len(goto_s) + Len(source[k].gotos)
  <2>1. source[k].gotos \in Seq(Targets(source))
    BY <1>1, PushedTargets
  <2> QED
    BY <2>1, <1>1 DEF TypeOK, ReadLine, Pushed
<1>3. Len(goto_s') <= n' * MaxGotos
  <2>1. Len(goto_s) <= n * MaxGotos /\ Len(source[k].gotos) <= MaxGotos
    BY <1>1, SourceLines DEF TypeOK
  <2>2. (n + 1) * MaxGotos = n * MaxGotos + MaxGotos
    BY <1>1, MaxGotosAssumption
  <2>3. Len(goto_s) \in Nat /\ Len(source[k].gotos) \in Nat /\ n * MaxGotos \in Nat
    BY <1>1, SourceLines, MaxGotosAssumption DEF TypeOK
  <2> QED
    BY <1>1, <1>2, <2>1, <2>2, <2>3, MaxGotosAssumption
<1>4. TypeOK'
  <2>1. statements' \in [0 .. Capacity - 1 -> 0 .. n + 1]
    BY <1>1, CapacityAssumption DEF TypeOK, ReadLine, Pushed, Null
  <2> QED
    BY <1>1, <1>2, <1>3, <2>1, CapacityAssumption, SMTT(20)
       DEF TypeOK, ReadLine, Pushed, sortVars, emitVars, Segment, Loops
<1>5. \A a \in 0 .. Capacity - 1 :
          statements'[a] = IF a = n THEN (IF source[k].kind = "null" THEN Null ELSE k)
                                    ELSE statements[a]
  BY <1>1 DEF TypeOK, ReadLine, Pushed
<1>6. CellsInv'
  <2>1. \A a \in n' .. Capacity - 1 : statements'[a] = Null
    BY <1>1, <1>5 DEF CellsInv, TypeOK
  <2>2. \A a \in 0 .. n' - 1 :
            IF statements'[a] = Null THEN \E m \in 1 .. n' : source[m].kind = "null"
                                     ELSE source[statements'[a]].kind # "null"
    <3> SUFFICES ASSUME NEW a \in 0 .. n
                 PROVE  IF statements'[a] = Null
                          THEN \E m \in 1 .. n' : source[m].kind = "null"
                          ELSE source[statements'[a]].kind # "null"
      BY <1>1
    <3>1. CASE a = n
      BY <1>1, <1>5, <3>1, CapacityAssumption DEF Null
    <3>2. CASE a # n
      BY <1>1, <1>5, <3>2, CapacityAssumption DEF CellsInv
    <3> QED
      BY <3>1, <3>2
  <2>3. EveryLineOnce'
    <3>1. ASSUME NEW m \in 1 .. n', source[m].kind # "null"
          PROVE  \E a \in 0 .. n' - 1 : statements'[a] = m
      <4>1. CASE m = n + 1
        BY <1>1, <1>5, <3>1, <4>1, CapacityAssumption
      <4>2. CASE m # n + 1
        BY <1>1, <1>5, <3>1, <4>2, CapacityAssumption DEF CellsInv, EveryLineOnce
      <4> QED
        BY <4>1, <4>2
    <3>2. ASSUME NEW a \in 0 .. n' - 1, NEW b \in 0 .. n' - 1, a # b, statements'[a] # Null
          PROVE  statements'[a] # statements'[b]
      <4>1. statements[a] \in 0 .. n /\ statements[b] \in 0 .. n
        BY <1>1, CapacityAssumption DEF TypeOK
      <4> QED
        BY <1>1, <1>5, <3>2, <4>1, CapacityAssumption, SMTT(20) DEF CellsInv, EveryLineOnce, Null
    <3> QED
      BY <1>1, <3>1, <3>2 DEF EveryLineOnce
  <2> QED
    BY <1>1, <2>1, <2>2, <2>3 DEF CellsInv
<1>7. SortInv' /\ SearchInv' /\ SortedByNumber'
  BY <1>1 DEF SortInv, SearchInv, SortedByNumber, Loops
<1>8. FaultsExplained'
  BY DEF FaultsExplained, ReadLine, Pushed
<1> QED
  BY <1>4, <1>6, <1>7, <1>8

\* Only a program too long for the arrays overflows them while it is read.
LEMMA ReadOverflowInvariant ==
    ASSUME IInv, ReadOverflow
    PROVE  IInv'
<1> USE DEF IInv
<1>1. Fault("overflow") /\ n < Len(source) /\ Len(source) \in Nat /\ n \in Nat
  BY SourceLines DEF ReadOverflow, TypeOK
<1>2. Len(source) >= Capacity \/ Len(source) * MaxGotos > GotoCap
  <2>1. CASE n >= Capacity
    BY <1>1, <2>1, CapacityAssumption
  <2>2. CASE Len(goto_s) + Len(source[n + 1].gotos) > GotoCap
    <3>1. n + 1 \in DOMAIN source
      BY <1>1, SourceLines
    <3>2. Len(goto_s) <= n * MaxGotos /\ Len(source[n + 1].gotos) <= MaxGotos
      BY <3>1, SourceLines DEF TypeOK
    <3>3. Len(goto_s) \in Nat /\ Len(source[n + 1].gotos) \in Nat
      BY <3>1, SourceLines DEF TypeOK
    <3>4. PICK d \in Nat : Len(source) = (n + 1) + d
      <4>1. Len(source) - (n + 1) \in Nat /\ Len(source) = (n + 1) + (Len(source) - (n + 1))
        BY <1>1
      <4> QED
        BY <4>1
    <3>5. Len(source) * MaxGotos = n * MaxGotos + MaxGotos + d * MaxGotos
      BY <1>1, <3>4, MaxGotosAssumption
    <3>6. n * MaxGotos \in Nat /\ d * MaxGotos \in Nat
      BY <1>1, <3>4, MaxGotosAssumption
    <3> QED
      BY <2>2, <3>2, <3>3, <3>5, <3>6, MaxGotosAssumption, GotoCapAssumption
  <2> QED
    BY <2>1, <2>2 DEF ReadOverflow
<1>3. FaultsExplained'
  BY <1>1, <1>2 DEF Fault, FaultsExplained
<1> QED
  BY <1>1, <1>3, FaultInvariant DEF Fault, NoFault, Causes

\* At the end of the file one call is pending, for all the cells in use.
LEMMA EndOfFileInvariant ==
    ASSUME IInv, EndOfFile
    PROVE  IInv'
<1> USE DEF IInv
<1>1. n \in Nat /\ n = Len(source) /\ pc' = "call" /\ pending' = <<[l |-> 0, r |-> n - 1]>>
  BY DEF TypeOK, EndOfFile
<1>2. UNCHANGED <<source, statements, n, goto_s, seg, i, j, pivot, target,
                  labelled, emitVars, fault>>
  BY DEF EndOfFile
<1>3. TypeOK'
  <2>1. pending' \in Seq(Segment)
    <3>1. [l |-> 0, r |-> n - 1] \in Segment
      BY <1>1 DEF Segment
    <3> QED
      BY <1>1, <3>1
  <2> QED
    BY <1>1, <1>2, <2>1 DEF TypeOK, EndOfFile, emitVars, NoFault
<1>4. CellsInv'
  BY <1>1, <1>2 DEF CellsInv, EveryLineOnce, EndOfFile
<1>5. SortInv'
  <2>1. DOMAIN pending' = {1} /\ pending'[1] = [l |-> 0, r |-> n - 1]
    BY <1>1
  <2>2. n > 0 => PendingInv'
    BY <1>1, <1>2, <2>1 DEF PendingInv
  <2>3. \A a, b \in 0 .. n - 1 : Unsorted(a, b)'
    BY <1>1, <2>1 DEF Unsorted, Within
  <2> QED
    BY <1>1, <1>2, <2>2, <2>3 DEF SortInv, Loops
<1>6. SearchInv' /\ SortedByNumber'
  BY <1>1 DEF SearchInv, SortedByNumber
<1>7. FaultsExplained'
  BY <1>2 DEF FaultsExplained
<1> QED
  BY <1>3, <1>4, <1>5, <1>6, <1>7
-----------------------------------------------------------------------------
(* The sort. *)

\* Rounding down and rounding towards zero agree on the middle of a segment.
LEMMA MiddleWithin ==
    ASSUME NEW s \in Segment, 0 <= s.l, s.l <= s.r
    PROVE  Middle(s) \in s.l .. s.r
<1>1. s.l \in Int /\ s.r \in Int
  BY DEF Segment
<1> QED
  BY <1>1 DEF Middle, Half

\* The segment of the call about to start, once a line has been read.
LEMMA HeadSegment ==
    ASSUME IInv, pc = "call", pending # <<>>, n > 0
    PROVE  /\ Head(pending) = pending[1] /\ 1 \in DOMAIN pending
           /\ Head(pending) \in Segment
           /\ 0 <= Head(pending).l /\ Head(pending).l <= Head(pending).r
           /\ Head(pending).r < n
           /\ Middle(Head(pending)) \in Head(pending).l .. Head(pending).r
<1>1. pending \in Seq(Segment) /\ PendingInv
  BY DEF IInv, TypeOK, SortInv
<1>2. Head(pending) = pending[1] /\ 1 \in DOMAIN pending /\ Head(pending) \in Segment
  BY <1>1
<1>3. 0 <= Head(pending).l /\ Head(pending).l <= Head(pending).r /\ Head(pending).r < n
  BY <1>1, <1>2 DEF PendingInv
<1> QED
  BY <1>2, <1>3, MiddleWithin

\* With nothing read, arr[0] is NULL and the first call already fails.
LEMMA EmptyCall ==
    ASSUME IInv, pc = "call", n = 0
    PROVE  pending # <<>> /\ statements[Middle(Head(pending))] = Null
<1>1. pending = <<[l |-> 0, r |-> -1]>>
  BY DEF IInv, SortInv
<1>2. Middle(Head(pending)) = 0
  BY <1>1 DEF Middle, Half
<1>3. statements[0] \in 0 .. n
  BY CapacityAssumption DEF IInv, TypeOK
<1> QED
  BY <1>1, <1>2, <1>3 DEF Null

\* A NULL before cell n comes from a line without tokens.
LEMMA NullCell ==
    ASSUME IInv, NEW a \in 0 .. n - 1, statements[a] = Null, n = Len(source)
    PROVE  \E k \in DOMAIN source : source[k].kind = "null"
<1>1. \E k \in 1 .. n : source[k].kind = "null"
  BY DEF IInv, CellsInv
<1> QED
  BY <1>1, SourceLines DEF IInv

\* Entering a call moves one segment from pending to seg: every pair of cells
\* that was still open stays so.
LEMMA PartitionInvariant ==
    ASSUME IInv, Partition
    PROVE  IInv'
<1> USE DEF IInv
<1> DEFINE s == Head(pending)
<1>1. /\ pc = "call" /\ pending # <<>> /\ pc' = "scanI"
      /\ seg' = s /\ pending' = Tail(pending)
      /\ i' = s.l /\ j' = s.r /\ pivot' = Key(Middle(s))
      /\ UNCHANGED <<source, statements, n, goto_s, target, labelled, pos, text, fault>>
  BY DEF Partition, emitVars
<1>2. n \in Nat /\ n > 0 /\ n <= Capacity /\ PendingInv /\ pending \in Seq(Segment)
  BY <1>1, EmptyCall, SourceLines DEF Partition, TypeOK, SortInv
<1>3. /\ s = pending[1] /\ 1 \in DOMAIN pending /\ s \in Segment
      /\ s.l \in Int /\ s.r \in Int /\ 0 <= s.l /\ s.l <= s.r /\ s.r < n
      /\ Middle(s) \in s.l .. s.r
  BY <1>1, <1>2, HeadSegment DEF Segment
<1>4. Key(Middle(s)) \in Int /\ \A a \in 0 .. Capacity - 1 : Key(a)' = Key(a)
  BY <1>1, <1>2, <1>3, KeyType, CapacityAssumption DEF Key
<1>5. /\ \A p \in DOMAIN pending' : /\ p + 1 \in DOMAIN pending
                                    /\ p \in Nat /\ 1 <= p /\ pending'[p] = pending[p + 1]
      /\ \A p \in DOMAIN pending : p # 1 => p - 1 \in DOMAIN pending'
                                            /\ pending[p] = pending'[p - 1]
  BY <1>1, <1>2
<1>6. TypeOK'
  BY <1>1, <1>2, <1>3, <1>4 DEF TypeOK, Loops, NoFault
<1>7. CellsInv'
  BY <1>1 DEF CellsInv, EveryLineOnce
<1>8. PendingInv'
  <2>1. /\ \A p \in DOMAIN pending :
              0 <= pending[p].l /\ pending[p].l <= pending[p].r /\ pending[p].r < n
        /\ \A p, q \in DOMAIN pending : p < q => pending[q].r < pending[p].l
    BY <1>2 DEF PendingInv
  <2>2. \A p \in DOMAIN pending' :
              0 <= pending'[p].l /\ pending'[p].l <= pending'[p].r /\ pending'[p].r < n
    BY <1>5, <2>1
  <2>3. ASSUME NEW p \in DOMAIN pending', NEW q \in DOMAIN pending', p < q
        PROVE  pending'[q].r < pending'[p].l
    <3>1. p + 1 < q + 1
      BY <1>5, <2>3
    <3> QED
      BY <1>5, <2>1, <3>1
  <2> QED
    BY <1>1, <2>2, <2>3 DEF PendingInv
<1>9. \A p \in DOMAIN pending' : pending'[p].r < s.l
  <2> TAKE p \in DOMAIN pending'
  <2>1. p + 1 \in DOMAIN pending /\ 1 < p + 1 /\ pending'[p] = pending[p + 1]
    BY <1>5
  <2> QED
    BY <2>1, <1>2, <1>3 DEF PendingInv
<1>10. \A a, b \in 0 .. n' - 1 : a < b => Key(a)' <= Key(b)' \/ Unsorted(a, b)'
  <2> SUFFICES ASSUME NEW a \in 0 .. n - 1, NEW b \in 0 .. n - 1, a < b
               PROVE  Key(a)' <= Key(b)' \/ Unsorted(a, b)'
    BY <1>1
  <2>1. CASE Key(a) <= Key(b)
    BY <2>1, <1>2, <1>4, CapacityAssumption
  <2>2. ASSUME NEW p \in DOMAIN pending, Within(pending[p], a, b)
        PROVE  Unsorted(a, b)'
    <3>1. CASE p = 1
      BY <1>1, <1>3, <2>2, <3>1 DEF Unsorted, Within, Loops
    <3>2. CASE p # 1
      <4>1. p - 1 \in DOMAIN pending' /\ pending[p] = pending'[p - 1]
        BY <1>5, <3>2
      <4> QED
        BY <2>2, <4>1 DEF Unsorted, Within
    <3> QED
      BY <3>1, <3>2
  <2> QED
    BY <2>1, <2>2, <1>1, <1>2 DEF SortInv, Unsorted, Loops
<1>11. PassedInv' /\ ScanInv'
  <2>1. PICK m \in Int : m = Middle(s)
    BY <1>3
  <2>5. m \in seg'.l .. seg'.r /\ Key(m)' = pivot' /\ pivot' \in Int
    BY <1>1, <1>2, <1>3, <1>4, <2>1, CapacityAssumption
  <2>2. PassedInv'
    BY <1>1, <1>3 DEF PassedInv
  <2>3. \E a \in i' .. seg'.r : Key(a)' >= pivot'
    BY <1>1, <1>3, <2>5
  <2>4. \E b \in seg'.l .. j' : Key(b)' <= pivot'
    BY <1>1, <1>3, <2>5
  <2> QED
    BY <1>1, <1>3, <2>2, <2>3, <2>4 DEF ScanInv
<1>12. SortInv'
  BY <1>1, <1>2, <1>3, <1>8, <1>9, <1>10, <1>11 DEF SortInv, Loops
<1>13. SearchInv' /\ SortedByNumber' /\ FaultsExplained'
  BY <1>1 DEF SearchInv, SortedByNumber, FaultsExplained
<1> QED
  BY <1>6, <1>7, <1>12, <1>13

\* A NULL pivot: nothing was read, or a line had no tokens.
LEMMA PivotIsNullInvariant ==
    ASSUME IInv, PivotIsNull
    PROVE  IInv'
<1> USE DEF IInv
<1>1. pc = "call" /\ pending # <<>> /\ statements[Middle(Head(pending))] = Null
  BY DEF PivotIsNull
<1>2. n \in Nat /\ n = Len(source)
  BY <1>1 DEF TypeOK, CellsInv
<1>3. Len(source) = 0 \/ \E k \in DOMAIN source : source[k].kind = "null"
  <2>1. CASE n > 0
    <3>1. Middle(Head(pending)) \in 0 .. n - 1
      BY <1>1, <1>2, <2>1, HeadSegment DEF Segment
    <3> QED
      BY <1>1, <1>2, <3>1, NullCell
  <2> QED
    BY <1>2, <2>1
<1>4. FaultsExplained'
  BY <1>3 DEF PivotIsNull, Fault, FaultsExplained
<1> QED
  BY <1>4, FaultInvariant DEF PivotIsNull, Fault, NoFault, Causes
\* What a state inside a sortAST call looks like, and how Key behaves there.
LEMMA InLoop ==
    ASSUME IInv, pc \in Loops
    PROVE  /\ n \in Nat /\ n > 0 /\ n <= Capacity /\ n = Len(source)
           /\ seg.l \in Int /\ seg.r \in Int /\ i \in Int /\ j \in Int /\ pivot \in Int
           /\ 0 <= seg.l /\ seg.l <= seg.r /\ seg.r < n
           /\ PendingInv /\ PassedInv
           /\ \A a \in 0 .. n - 1 : Key(a) \in Int /\ a \in 0 .. Capacity - 1
<1>1. n \in Nat /\ n <= Capacity /\ n = Len(source)
  BY SourceLines DEF IInv, TypeOK, CellsInv, Loops
<1>2. \A a \in 0 .. n - 1 : Key(a) \in Int /\ a \in 0 .. Capacity - 1
  BY <1>1, KeyType, CapacityAssumption DEF IInv
<1>3. n > 0 /\ 0 <= seg.l /\ seg.l <= seg.r /\ seg.r < n /\ PendingInv /\ PassedInv
  BY DEF IInv, SortInv
<1> QED
  BY <1>1, <1>2, <1>3 DEF IInv, TypeOK, Segment

\* The first scan stops at the latest at a cell not below the pivot, and
\* there is one in the rest of the segment.
LEMMA ScanIInvariant ==
    ASSUME IInv, ScanI
    PROVE  IInv'
<1> USE DEF IInv
<1>1. /\ pc = "scanI" /\ pc \in Loops /\ ScanInv
      /\ UNCHANGED <<source, statements, n, goto_s, pending, seg, pivot, j, target,
                     labelled, pos, text, fault>>
  BY DEF ScanI, BelowPivot, SortInv, Loops, sortVars, emitVars
<1>2. pc' \in {"scanI", "scanJ"} /\ i' \in {i, i + 1}
  BY DEF ScanI, BelowPivot
<1>3. TypeOK'
  BY <1>1, <1>2 DEF TypeOK, Loops, NoFault
<1>4. CellsInv'
  BY <1>1, <1>2 DEF CellsInv, EveryLineOnce
<1>5. \A a, b : /\ Key(a)' = Key(a)
                /\ Unsorted(a, b)' <=> Unsorted(a, b)
  BY <1>1, <1>2 DEF Key, Unsorted, Loops
<1>6. PassedInv' /\ ScanInv'
  <2>1. CASE Key(i) < pivot /\ i < seg.r
    <3>1. i' = i + 1 /\ pc' = "scanI"
      BY <2>1 DEF ScanI, BelowPivot
    <3>2. PassedInv'
      BY <1>1, <1>5, <2>1, <3>1, InLoop DEF PassedInv, ScanInv
    <3>3. \E a \in i + 1 .. seg.r : Key(a) >= pivot
      <4>1. PICK a \in i .. seg.r : Key(a) >= pivot
        BY <1>1 DEF ScanInv
      <4>2. a # i
        BY <1>1, <2>1, <4>1, InLoop DEF ScanInv
      <4> QED
        BY <1>1, <4>1, <4>2, InLoop
    <3> QED
      BY <1>1, <1>5, <2>1, <3>1, <3>2, <3>3, InLoop DEF ScanInv
  <2>2. CASE ~(Key(i) < pivot /\ i < seg.r)
    <3>1. i' = i /\ pc' = "scanJ"
      BY <2>2 DEF ScanI, BelowPivot
    <3>2. Key(i) >= pivot
      BY <1>1, <2>2, InLoop DEF ScanInv
    <3> QED
      BY <1>1, <1>5, <3>1, <3>2, InLoop DEF PassedInv, ScanInv
  <2> QED
    BY <2>1, <2>2
<1>7. SortInv'
  BY <1>1, <1>2, <1>5, <1>6 DEF SortInv, PendingInv, Loops
<1>8. SearchInv' /\ SortedByNumber' /\ FaultsExplained'
  BY <1>1, <1>2 DEF SearchInv, SortedByNumber, FaultsExplained
<1> QED
  BY <1>3, <1>4, <1>7, <1>8

\* The second scan, likewise.
LEMMA ScanJInvariant ==
    ASSUME IInv, ScanJ
    PROVE  IInv'
<1> USE DEF IInv
<1>1. /\ pc = "scanJ" /\ pc \in Loops /\ ScanInv
      /\ UNCHANGED <<source, statements, n, goto_s, pending, seg, pivot, i, target,
                     labelled, pos, text, fault>>
  BY DEF ScanJ, SortInv, Loops, sortVars, emitVars
<1>2. pc' \in {"scanJ", "swap"} /\ j' \in {j, j - 1}
  BY DEF ScanJ
<1>3. TypeOK'
  BY <1>1, <1>2 DEF TypeOK, Loops, NoFault
<1>4. CellsInv'
  BY <1>1, <1>2 DEF CellsInv, EveryLineOnce
<1>5. \A a, b : /\ Key(a)' = Key(a)
                /\ Unsorted(a, b)' <=> Unsorted(a, b)
  BY <1>1, <1>2 DEF Key, Unsorted, Loops
<1>6. PassedInv' /\ ScanInv'
  <2>1. CASE Key(j) > pivot /\ j > seg.l
    <3>1. j' = j - 1 /\ pc' = "scanJ"
      BY <2>1 DEF ScanJ
    <3> QED
      BY <1>1, <1>5, <2>1, <3>1, InLoop, SMTT(20) DEF PassedInv, ScanInv
  <2>2. CASE ~(Key(j) > pivot /\ j > seg.l)
    <3>1. j' = j /\ pc' = "swap"
      BY <2>2 DEF ScanJ
    <3>2. Key(j) <= pivot
      BY <1>1, <2>2, InLoop DEF ScanInv
    <3> QED
      BY <1>1, <1>5, <3>1, <3>2, InLoop DEF PassedInv, ScanInv
  <2> QED
    BY <2>1, <2>2
<1>7. SortInv'
  BY <1>1, <1>2, <1>5, <1>6 DEF SortInv, PendingInv, Loops
<1>8. SearchInv' /\ SortedByNumber' /\ FaultsExplained'
  BY <1>1, <1>2 DEF SearchInv, SortedByNumber, FaultsExplained
<1> QED
  BY <1>3, <1>4, <1>7, <1>8

LEMMA ScanNullInvariant ==
    ASSUME IInv, ScanNull
    PROVE  IInv'
<1> USE DEF IInv
<1>1. PICK a \in 0 .. n - 1 : statements[a] = Null
  <2>1. ScanInv /\ pc \in Loops
    BY DEF ScanNull, SortInv, Loops
  <2>2. i \in 0 .. n - 1 /\ j \in 0 .. n - 1
    BY <2>1, InLoop DEF ScanInv
  <2> QED
    BY <2>2 DEF ScanNull
<1>2. n = Len(source)
  BY DEF ScanNull, CellsInv
<1>3. FaultsExplained'
  BY <1>1, <1>2, NullCell DEF ScanNull, Fault, FaultsExplained
<1> QED
  BY <1>3, FaultInvariant DEF ScanNull, Fault, NoFault, Causes
\* How the swap changes the cells: two cells of the segment trade places.
LEMMA SwapEffect ==
    ASSUME IInv, Swap
    PROVE  /\ i \in seg.l .. seg.r /\ j \in seg.l .. seg.r /\ i <= j
           /\ statements' \in [0 .. Capacity - 1 -> 0 .. n]
           /\ \A a \in 0 .. Capacity - 1 :
                 /\ statements'[a] = IF a = i THEN statements[j]
                                     ELSE IF a = j THEN statements[i] ELSE statements[a]
                 /\ Key(a)' = IF a = i THEN Key(j) ELSE IF a = j THEN Key(i) ELSE Key(a)
<1>1. ScanInv /\ pc \in Loops /\ i <= j
  BY DEF IInv, SortInv, Swap, SwappedCells, Loops
<1>2. i \in 0 .. Capacity - 1 /\ j \in 0 .. Capacity - 1
  BY <1>1, InLoop DEF ScanInv
<1>3. statements \in [0 .. Capacity - 1 -> 0 .. n]
  BY DEF IInv, TypeOK
<1>4. statements' = [statements EXCEPT ![i] = statements[j], ![j] = statements[i]]
  BY DEF Swap, SwappedCells
<1>5. \A a \in 0 .. Capacity - 1 :
          statements'[a] = IF a = i THEN statements[j]
                           ELSE IF a = j THEN statements[i] ELSE statements[a]
  BY <1>2, <1>3, <1>4
<1>6. statements' \in [0 .. Capacity - 1 -> 0 .. n]
  BY <1>2, <1>3, <1>4
<1>7. \A a \in 0 .. Capacity - 1 :
          Key(a)' = IF a = i THEN Key(j) ELSE IF a = j THEN Key(i) ELSE Key(a)
  <2> TAKE a \in 0 .. Capacity - 1
  <2>1. source' = source
    BY DEF Swap, SwappedCells
  <2>2. CASE a = i
    BY <1>5, <2>1, <2>2 DEF Key
  <2>3. CASE a # i /\ a = j
    BY <1>5, <2>1, <2>3 DEF Key
  <2>4. CASE a # i /\ a # j
    BY <1>5, <2>1, <2>4 DEF Key
  <2> QED
    BY <2>2, <2>3, <2>4
<1> QED
  BY <1>1, <1>5, <1>6, <1>7 DEF ScanInv

\* The swap loses and doubles no line, and pairs of cells not both in the
\* segment keep their order, because a cell outside is on one side of all of it.
LEMMA SwapInvariant ==
    ASSUME IInv, Swap
    PROVE  IInv'
<1> USE DEF IInv
<1>1. /\ pc = "swap" /\ pc \in Loops /\ ScanInv /\ i <= j
      /\ i' = i + 1 /\ j' = j - 1
      /\ pc' = IF i + 1 <= j - 1 THEN "scanI" ELSE "split"
      /\ UNCHANGED <<source, n, goto_s, pending, seg, pivot, target,
                     labelled, pos, text, fault>>
  BY DEF Swap, SwappedCells, SortInv, Loops, sortVars, emitVars
<1>2. pc' \in Loops
  BY <1>1 DEF Loops
<1> DEFINE L == seg.l
           R == seg.r
<1>3. /\ n \in Nat /\ n > 0 /\ n <= Capacity /\ i \in Int /\ j \in Int /\ pivot \in Int
      /\ L \in Int /\ R \in Int /\ 0 <= L /\ L <= i /\ i <= j /\ j <= R /\ R < n
      /\ \A a \in 0 .. n - 1 : Key(a) \in Int /\ a \in 0 .. Capacity - 1
  BY <1>1, InLoop, SwapEffect
<1>4. \A a \in 0 .. n - 1 :
          /\ statements'[a] = IF a = i THEN statements[j]
                              ELSE IF a = j THEN statements[i] ELSE statements[a]
          /\ Key(a)' = IF a = i THEN Key(j) ELSE IF a = j THEN Key(i) ELSE Key(a)
  BY <1>3, SwapEffect
<1>5. TypeOK'
  BY <1>1, <1>3, SwapEffect DEF TypeOK, Loops, NoFault
<1>6. CellsInv'
  <2>1. \A a \in n .. Capacity - 1 : statements'[a] = Null
    BY <1>3, SwapEffect DEF CellsInv
  <2>2. \A a \in 0 .. n - 1 :
            IF statements'[a] = Null THEN \E k \in 1 .. n : source[k].kind = "null"
                                     ELSE source[statements'[a]].kind # "null"
    BY <1>3, <1>4 DEF CellsInv
  <2>3. ASSUME NEW k \in 1 .. n, source[k].kind # "null"
        PROVE  \E a \in 0 .. n - 1 : statements'[a] = k
    <3>1. PICK a \in 0 .. n - 1 : statements[a] = k
      BY <2>3 DEF CellsInv, EveryLineOnce
    <3>2. PICK b \in 0 .. n - 1 : b = IF a = i THEN j ELSE IF a = j THEN i ELSE a
      BY <1>3
    <3> QED
      BY <1>3, <1>4, <3>1, <3>2
  <2>4. ASSUME NEW a \in 0 .. n - 1, NEW b \in 0 .. n - 1, a # b, statements'[a] # Null
        PROVE  statements'[a] # statements'[b]
    <3>1. i \in 0 .. n - 1 /\ j \in 0 .. n - 1
      BY <1>3
    <3> QED
      BY <1>4, <2>4, <3>1 DEF CellsInv, EveryLineOnce
  <2> QED
    BY <1>1, <1>2, <2>1, <2>2, <2>3, <2>4 DEF CellsInv, EveryLineOnce, Loops
<1>7. \A a, b : Unsorted(a, b)' <=> Unsorted(a, b)
  BY <1>1, <1>2 DEF Unsorted
<1>8. \A a, b \in 0 .. n - 1 : a < b => Key(a)' <= Key(b)' \/ Unsorted(a, b)
  <2> SUFFICES ASSUME NEW a \in 0 .. n - 1, NEW b \in 0 .. n - 1, a < b, ~Unsorted(a, b)
               PROVE  Key(a)' <= Key(b)'
    OBVIOUS
  \* Not both a and b are inside the segment.
  <2>1. a < L \/ R < b
    BY <1>1, <1>3 DEF Unsorted, Within
  <2>2. \A c, d \in 0 .. n - 1 : c < d /\ ~Unsorted(c, d) => Key(c) <= Key(d)
    BY <1>1 DEF SortInv
  <2>3. ASSUME NEW c \in L .. R
        PROVE  /\ a < L /\ b \in L .. R => Key(a) <= Key(c)
               /\ R < b /\ a \in L .. R => Key(c) <= Key(b)
    <3>3. \A p \in DOMAIN pending : /\ pending[p].l \in Int /\ pending[p].r \in Int
                                    /\ pending[p].r < L
      <4>1. pending \in Seq(Segment)
        BY DEF TypeOK
      <4>2. \A p \in DOMAIN pending : pending[p] \in Segment
        BY <4>1
      <4>3. \A p \in DOMAIN pending : pending[p].r < L
        BY <1>1 DEF SortInv
      <4> QED
        BY <4>2, <4>3 DEF Segment
    <3>1. ASSUME a < L, b \in L .. R
          PROVE  ~Unsorted(a, c)
      BY <1>1, <1>3, <2>3, <3>1, <3>3 DEF Unsorted, Within
    <3>2. ASSUME R < b, a \in L .. R
          PROVE  ~Unsorted(c, b)
      BY <1>1, <1>3, <2>3, <3>2, <3>3 DEF Unsorted, Within
    <3> QED
      BY <1>3, <2>2, <2>3, <3>1, <3>2
  <2>4. CASE a < L /\ b \in L .. R
    BY <1>3, <1>4, <2>3, <2>4
  <2>5. CASE R < b /\ a \in L .. R
    BY <1>3, <1>4, <2>3, <2>5
  <2>6. CASE a \notin L .. R /\ b \notin L .. R
    BY <1>3, <1>4, <2>2, <2>6
  <2> QED
    BY <1>3, <2>1, <2>4, <2>5, <2>6
<1>9. PassedInv'
  <2>1. Key(j) <= pivot /\ Key(i) >= pivot /\ PassedInv
    BY <1>1, InLoop DEF ScanInv
  <2>2. ASSUME NEW a \in L .. i
        PROVE  Key(a)' <= pivot
    <3>1. a \in 0 .. n - 1 /\ (a # i => a # j /\ a \in L .. i - 1)
      BY <1>3
    <3> QED
      BY <1>4, <2>1, <3>1 DEF PassedInv
  <2>3. ASSUME NEW b \in j .. R
        PROVE  Key(b)' >= pivot
    <3>1. b \in 0 .. n - 1 /\ (b # j => b # i /\ b \in j + 1 .. R) /\ (b = i => i = j)
      BY <1>3
    <3> QED
      BY <1>4, <2>1, <3>1 DEF PassedInv
  <2> QED
    BY <1>1, <1>3, <2>2, <2>3 DEF PassedInv
<1>10. pc' = "scanI" => ScanInv'
  <2> SUFFICES ASSUME pc' = "scanI" PROVE ScanInv'
    OBVIOUS
  <2>1. i + 1 <= j - 1
    BY <1>1
  <2>2. Key(i) >= pivot /\ Key(j) <= pivot
    BY <1>1 DEF ScanInv
  <2>3. PICK a \in 0 .. n - 1, b \in 0 .. n - 1 : a = j /\ b = i
    BY <1>3
  <2>4. Key(a)' >= pivot' /\ Key(b)' <= pivot'
    BY <1>1, <1>3, <1>4, <2>2, <2>3
  <2> QED
    BY <1>1, <1>3, <2>1, <2>3, <2>4 DEF ScanInv
<1>11. SortInv'
  BY <1>1, <1>2, <1>3, <1>7, <1>8, <1>9, <1>10 DEF SortInv, PendingInv, Loops
<1>12. SearchInv' /\ SortedByNumber' /\ FaultsExplained'
  BY <1>1, <1>2 DEF SearchInv, SortedByNumber, FaultsExplained, Loops
<1> QED
  BY <1>5, <1>6, <1>11, <1>12
\* When the cursors have crossed, nothing but the control moves.
LEMMA CrossedInvariant ==
    ASSUME IInv, Crossed
    PROVE  IInv'
<1> USE DEF IInv
<1>1. /\ pc = "swap" /\ pc \in Loops /\ ScanInv /\ i > j /\ pc' = "split"
      /\ UNCHANGED <<source, statements, n, goto_s, pending, seg, pivot, i, j, target,
                     labelled, pos, text, fault>>
  BY DEF Crossed, SortInv, Loops, sortVars, emitVars
<1>2. TypeOK'
  BY <1>1 DEF TypeOK, Loops, NoFault
<1>3. CellsInv'
  BY <1>1 DEF CellsInv, EveryLineOnce
<1>4. \A a, b : /\ Key(a)' = Key(a)
                /\ Unsorted(a, b)' <=> Unsorted(a, b)
  BY <1>1 DEF Key, Unsorted, Loops
<1>5. seg.l <= i /\ j <= seg.r /\ j < i
  BY <1>1, InLoop DEF ScanInv
<1>6. SortInv'
  BY <1>1, <1>4, <1>5 DEF SortInv, PendingInv, PassedInv, Loops
<1>7. SearchInv' /\ SortedByNumber' /\ FaultsExplained'
  BY <1>1 DEF SearchInv, SortedByNumber, FaultsExplained
<1> QED
  BY <1>2, <1>3, <1>6, <1>7

\* Pushing a sequence in front of another one shifts the latter.
LEMMA PushedInFront ==
    ASSUME NEW S, NEW u \in Seq(S), NEW v \in Seq(S)
    PROVE  /\ u \o v \in Seq(S) /\ Len(u \o v) = Len(u) + Len(v)
           /\ DOMAIN (u \o v) = 1 .. Len(u) + Len(v)
           /\ \A p \in 1 .. Len(u) + Len(v) :
                 p > Len(u) => p - Len(u) \in DOMAIN v /\ (u \o v)[p] = v[p - Len(u)]
           /\ \A p \in DOMAIN v :
                 p + Len(u) \in 1 .. Len(u) + Len(v) /\ (u \o v)[p + Len(u)] = v[p]
OBVIOUS

\* The two recursive calls cover every pair of the segment that the partition
\* has not put in order.
LEMMA SplitInvariant ==
    ASSUME IInv, Split
    PROVE  IInv'
<1> USE DEF IInv
<1> DEFINE L == seg.l
           R == seg.r
           right == IF i < R THEN <<[l |-> i, r |-> R]>> ELSE <<>>
           left == IF j > L THEN <<[l |-> L, r |-> j]>> ELSE <<>>
<1>1. /\ pc = "split" /\ pc \in Loops /\ pc' = "call" /\ pending' = right \o left \o pending
      /\ UNCHANGED <<source, statements, n, goto_s, seg, pivot, i, j, target,
                     labelled, pos, text, fault>>
  BY DEF Split, RightCall, LeftCall, Loops, emitVars
<1>2. /\ n \in Nat /\ n > 0 /\ n <= Capacity /\ i \in Int /\ j \in Int /\ pivot \in Int
      /\ L \in Int /\ R \in Int /\ 0 <= L /\ L <= R /\ R < n /\ PassedInv /\ PendingInv
      /\ \A a \in 0 .. n - 1 : Key(a) \in Int
  BY <1>1, InLoop
<1>3. L <= i /\ j <= R /\ j < i /\ \A p \in DOMAIN pending : pending[p].r < L
  BY <1>1 DEF SortInv
<1>4. /\ pending \in Seq(Segment) /\ Len(pending) \in Nat
      /\ DOMAIN pending = 1 .. Len(pending)
      /\ \A p \in DOMAIN pending : /\ pending[p] \in Segment
                                   /\ pending[p].l \in Int /\ pending[p].r \in Int
  <2>1. pending \in Seq(Segment)
    BY DEF TypeOK
  <2>2. \A p \in DOMAIN pending : pending[p] \in Segment
    BY <2>1
  <2> QED
    BY <2>1, <2>2 DEF Segment
<1> DEFINE d == Len(right) + Len(left)
<1>5. /\ d \in 0 .. 2 /\ Len(pending') = d + Len(pending)
      /\ pending' \in Seq(Segment) /\ DOMAIN pending' = 1 .. Len(pending')
      /\ \A p \in 1 .. Len(pending') : p > d => /\ p - d \in DOMAIN pending
                                                /\ pending'[p] = pending[p - d]
      /\ \A p \in DOMAIN pending : /\ p + d \in DOMAIN pending'
                                   /\ pending'[p + d] = pending[p]
  <2>1. [l |-> i, r |-> R] \in Segment /\ [l |-> L, r |-> j] \in Segment
    BY <1>2 DEF Segment
  <2>2. right \in Seq(Segment) /\ Len(right) \in 0 .. 1
    BY <2>1
  <2>3. left \in Seq(Segment) /\ Len(left) \in 0 .. 1
    BY <2>1
  <2> HIDE DEF right, left
  <2>4. right \o left \in Seq(Segment) /\ Len(right \o left) = d
    BY <2>2, <2>3
  <2>5. \A x, y \in 0 .. 1 : x + y \in 0 .. 2
    OBVIOUS
  <2>6. d \in 0 .. 2
    BY <2>2, <2>3, <2>5
  <2>7. pending' = (right \o left) \o pending
    BY <1>1
  <2> DEFINE u == right \o left
  <2>8. u \in Seq(Segment) /\ Len(u) = d /\ pending' = u \o pending
    BY <2>4, <2>7
  <2> HIDE DEF u, d
  <2>9. /\ pending' \in Seq(Segment) /\ Len(pending') = d + Len(pending)
        /\ DOMAIN pending' = 1 .. d + Len(pending)
        /\ \A p \in 1 .. d + Len(pending) :
              p > d => p - d \in DOMAIN pending /\ pending'[p] = pending[p - d]
        /\ \A p \in DOMAIN pending :
              p + d \in 1 .. d + Len(pending) /\ pending'[p + d] = pending[p]
    <3> DEFINE v == pending
    <3>1. u \in Seq(Segment) /\ v \in Seq(Segment)
      BY <1>4, <2>8
    <3> HIDE DEF v
    <3>2. /\ u \o v \in Seq(Segment) /\ Len(u \o v) = Len(u) + Len(v)
          /\ DOMAIN (u \o v) = 1 .. Len(u) + Len(v)
          /\ \A p \in 1 .. Len(u) + Len(v) :
                p > Len(u) => p - Len(u) \in DOMAIN v /\ (u \o v)[p] = v[p - Len(u)]
          /\ \A p \in DOMAIN v :
                p + Len(u) \in 1 .. Len(u) + Len(v) /\ (u \o v)[p + Len(u)] = v[p]
      BY <3>1, PushedInFront
    <3> QED
      BY <2>8, <3>2 DEF v
  <2> QED
    BY <2>6, <2>9
<1>6. /\ i < R => 1 \in DOMAIN pending' /\ pending'[1] = [l |-> i, r |-> R]
      /\ j > L => /\ IF i < R THEN 2 \in DOMAIN pending' ELSE 1 \in DOMAIN pending'
                  /\ pending'[IF i < R THEN 2 ELSE 1] = [l |-> L, r |-> j]
      /\ d = (IF i < R THEN 1 ELSE 0) + (IF j > L THEN 1 ELSE 0)
  BY <1>1, <1>4
<1>7. TypeOK'
  BY <1>1, <1>5 DEF TypeOK, Loops, NoFault
<1>8. CellsInv'
  BY <1>1 DEF CellsInv, EveryLineOnce, Loops
<1>9. PendingInv'
  <2>1. \A p \in DOMAIN pending' :
            0 <= pending'[p].l /\ pending'[p].l <= pending'[p].r /\ pending'[p].r < n'
    <3> SUFFICES ASSUME NEW p \in DOMAIN pending'
                 PROVE  /\ 0 <= pending'[p].l /\ pending'[p].l <= pending'[p].r
                        /\ pending'[p].r < n
      BY <1>1
    <3>1. CASE p > d
      BY <1>2, <1>4, <1>5, <3>1 DEF PendingInv
    <3>2. CASE p <= d
      <4>1. p = 1 \/ p = 2
        BY <1>5, <3>2
      <4> QED
        BY <1>2, <1>3, <1>6, <3>2, <4>1
    <3> QED
      BY <1>5, <3>1, <3>2
  <2>2. \A p, q \in DOMAIN pending' : p < q => pending'[q].r < pending'[p].l
    <3> SUFFICES ASSUME NEW p \in DOMAIN pending', NEW q \in DOMAIN pending', p < q
                 PROVE  pending'[q].r < pending'[p].l
      OBVIOUS
    <3>1. CASE p > d
      <4>1. p \in 1 .. Len(pending') /\ q \in 1 .. Len(pending') /\ q > d
        BY <1>4, <1>5, <3>1
      <4>2. /\ p - d \in DOMAIN pending /\ pending'[p] = pending[p - d]
            /\ q - d \in DOMAIN pending /\ pending'[q] = pending[q - d]
        BY <1>5, <3>1, <4>1
      <4>3. p - d < q - d
        BY <1>4, <1>5, <4>1
      <4> QED
        BY <1>2, <4>2, <4>3 DEF PendingInv
    <3>2. CASE p <= d /\ q > d
      <4>1. pending'[q].r < L
        BY <1>3, <1>5, <3>2
      <4>2. L <= pending'[p].l /\ pending'[p].l \in Int
        <5>1. p = 1 \/ p = 2
          BY <1>5, <3>2
        <5> QED
          BY <1>2, <1>3, <1>6, <3>2, <5>1
      <4>3. pending'[q].r \in Int
        BY <1>4, <1>5, <3>2
      <4> QED
        BY <1>2, <4>1, <4>2, <4>3
    <3>3. CASE q <= d
      <4>1. p = 1 /\ q = 2 /\ d = 2
        BY <1>5, <3>3
      <4> QED
        BY <1>2, <1>3, <1>6, <4>1
    <3> QED
      BY <1>5, <3>1, <3>2, <3>3
  <2> QED
    BY <2>1, <2>2 DEF PendingInv
<1>10. \A a, b \in 0 .. n' - 1 : a < b => Key(a)' <= Key(b)' \/ Unsorted(a, b)'
  <2> SUFFICES ASSUME NEW a \in 0 .. n - 1, NEW b \in 0 .. n - 1, a < b
               PROVE  Key(a) <= Key(b) \/ Unsorted(a, b)'
    BY <1>1 DEF Key
  <2>1. CASE Key(a) <= Key(b)
    BY <2>1
  <2>2. ASSUME NEW p \in DOMAIN pending, Within(pending[p], a, b)
        PROVE  Unsorted(a, b)'
    BY <1>5, <2>2 DEF Unsorted, Within
  <2>3. CASE Within(seg, a, b)
    <3>1. CASE b <= j
      BY <1>2, <1>6, <2>3, <3>1 DEF Unsorted, Within
    <3>2. CASE a >= i
      BY <1>2, <1>6, <2>3, <3>2 DEF Unsorted, Within
    <3>3. CASE a < i /\ j < b
      <4>1. Key(a) <= pivot
        BY <1>2, <2>3, <3>3 DEF PassedInv, Within
      <4>2. pivot <= Key(b)
        BY <1>2, <2>3, <3>3 DEF PassedInv, Within
      <4> QED
        BY <1>2, <4>1, <4>2
    <3> QED
      BY <1>2, <3>1, <3>2, <3>3
  <2> QED
    BY <1>1, <2>1, <2>2, <2>3 DEF SortInv, Unsorted
<1>11. SortInv'
  BY <1>1, <1>2, <1>9, <1>10 DEF SortInv, Loops
<1>12. SearchInv' /\ SortedByNumber' /\ FaultsExplained'
  BY <1>1 DEF SearchInv, SortedByNumber, FaultsExplained
<1> QED
  BY <1>7, <1>8, <1>11, <1>12

\* With no call pending, no pair of cells is out of order.
LEMMA SortedInvariant ==
    ASSUME IInv, Sorted
    PROVE  IInv'
<1> USE DEF IInv
<1>1. /\ pc = "call" /\ pending = <<>> /\ pc' = "link"
      /\ UNCHANGED <<source, statements, n, goto_s, pending, seg, pivot, i, j, target,
                     labelled, pos, text, fault>>
  BY DEF Sorted, sortVars, emitVars
<1>2. n > 0 /\ \A a, b : ~Unsorted(a, b)
  BY <1>1, EmptyCall DEF Unsorted, Loops, TypeOK
<1>3. TypeOK'
  BY <1>1 DEF TypeOK, Loops, NoFault
<1>4. CellsInv'
  BY <1>1 DEF CellsInv, EveryLineOnce
<1>5. SortedByNumber'
  BY <1>1, <1>2 DEF SortedByNumber, SortInv, Key
<1>6. SortInv' /\ SearchInv' /\ FaultsExplained'
  BY <1>1 DEF SortInv, SearchInv, FaultsExplained, Loops
<1> QED
  BY <1>3, <1>4, <1>5, <1>6
-----------------------------------------------------------------------------
(* The jumps and the walk of start. *)

\* Once the sort is over every step leaves the cells, the lines and the
\* counter alone; what remains to show is what it does change.
LEMMA AfterSort ==
    ASSUME IInv, pc \in {"link", "search", "emit"},
           pc' \in {"link", "search", "emit", "done"},
           TypeOK', SearchInv', UNCHANGED <<source, statements, n, fault>>
    PROVE  IInv'
<1> USE DEF IInv
<1>1. CellsInv'
  BY DEF CellsInv, EveryLineOnce
<1>2. SortedByNumber'
  BY DEF SortedByNumber, Key
<1>3. SortInv' /\ FaultsExplained'
  BY DEF SortInv, FaultsExplained, Loops
<1> QED
  BY <1>1, <1>2, <1>3

LEMMA AllButLast ==
    ASSUME NEW S, NEW q \in Seq(S), q # <<>>
    PROVE  /\ q[Len(q)] \in S
           /\ SubSeq(q, 1, Len(q) - 1) \in Seq(S)
           /\ Len(SubSeq(q, 1, Len(q) - 1)) = Len(q) - 1
<1>1. Len(q) \in Nat /\ Len(q) >= 1 /\ Len(q) \in DOMAIN q
  OBVIOUS
<1>2. q[Len(q)] \in S
  BY <1>1
<1>3. \A k \in 1 .. Len(q) - 1 : q[k] \in S
  BY <1>1
<1>4. PICK m \in Nat : m = Len(q) - 1
  BY <1>1
<1>5. /\ SubSeq(q, 1, m) \in Seq(S)
      /\ Len(SubSeq(q, 1, m)) = IF 1 <= m THEN m - 1 + 1 ELSE 0
  BY <1>3, <1>4, SubSeqProperties
<1>6. Len(SubSeq(q, 1, m)) = m
  BY <1>4, <1>5
<1> QED
  BY <1>2, <1>4, <1>5, <1>6

\* A search starts on all the lines.
LEMMA PopGotoInvariant ==
    ASSUME IInv, PopGoto
    PROVE  IInv'
<1> USE DEF IInv
<1>1. /\ pc = "link" /\ pc' = "search" /\ goto_s # <<>>
      /\ target' = goto_s[Len(goto_s)] /\ goto_s' = SubSeq(goto_s, 1, Len(goto_s) - 1)
      /\ i' = 0 /\ j' = n - 1
      /\ UNCHANGED <<source, statements, n, pending, seg, pivot, labelled, pos, text, fault>>
  BY DEF PopGoto, LastCell, stack_is_empty, sortVars, emitVars
<1>2. n \in Nat /\ Len(source) \in Nat /\ goto_s \in Seq(Targets(source))
  BY SourceLines DEF TypeOK
<1>3. target' \in Targets(source) /\ goto_s' \in Seq(Targets(source))
      /\ Len(goto_s') = Len(goto_s) - 1
  BY <1>1, <1>2, AllButLast
<1>4. Targets(source) \subseteq Int
  BY SourceLines DEF Targets
<1>5. TypeOK'
  <2>1. n * MaxGotos \in Nat /\ Len(goto_s) \in Nat
    BY <1>2, MaxGotosAssumption
  <2> QED
    BY <1>1, <1>2, <1>3, <1>4, <2>1 DEF TypeOK, Loops, NoFault
<1>6. SearchInv'
  BY <1>1, <1>2, <1>3 DEF SearchInv
<1> QED
  BY <1>1, <1>5, <1>6, AfterSort

\* The middle of a search is a cell of a line read.
LEMMA ProbedCell ==
    ASSUME IInv, pc = "search", i <= j
    PROVE  /\ (i + j) \div 2 \in i .. j /\ (i + j) \div 2 \in 0 .. n - 1
           /\ i \in Nat /\ j \in Nat /\ n \in Nat /\ n <= Capacity /\ n = Len(source)
           /\ 0 <= i /\ j < n
<1>1. i \in Int /\ j \in Int /\ n \in Nat /\ n <= Capacity /\ n = Len(source)
  BY SourceLines DEF IInv, TypeOK, CellsInv
<1>2. 0 <= i /\ j < n
  BY DEF IInv, SearchInv
<1> QED
  BY <1>1, <1>2

\* Halving keeps every line with the target's number between i and j, because
\* the lines are sorted.
LEMMA ProbeInvariant ==
    ASSUME IInv, Probe
    PROVE  IInv'
<1> USE DEF IInv
<1>1. /\ pc = "search" /\ i <= j
      /\ UNCHANGED <<source, statements, n, goto_s, pending, seg, pivot, target, pos, text, fault>>
  BY DEF Probe, AboveMid, BelowMid, Found, sortVars, emitVars
<1>2. PICK mid \in 0 .. n - 1 :
        /\ mid = (i + j) \div 2
        /\ i <= mid /\ mid <= j
        /\ statements[mid] # Null
  <2>1. statements[(i + j) \div 2] # Null
    BY DEF Probe, AboveMid, BelowMid, Found
  <2> QED
    BY <1>1, <2>1, ProbedCell
<1>3. /\ i \in Nat /\ j \in Nat /\ n \in Nat /\ n <= Capacity /\ 0 <= i /\ j < n
      /\ target \in Int
  BY <1>1, ProbedCell DEF TypeOK
<1>4. /\ statements[mid] \in 1 .. n /\ Key(mid) = source[statements[mid]].num
      /\ \A a \in 0 .. n - 1 : Key(a) \in Int
  BY <1>2, <1>3, KeyType, CapacityAssumption DEF Null
<1>5. /\ i' = IF target > Key(mid) THEN mid + 1 ELSE i
      /\ j' = IF target < Key(mid) THEN mid - 1 ELSE j
      /\ labelled' = IF target = Key(mid) THEN labelled \union {statements[mid]} ELSE labelled
      /\ pc' = IF target = Key(mid) THEN "link" ELSE "search"
  BY <1>1, <1>2, <1>4 DEF Probe, AboveMid, BelowMid, Found
<1>6. TypeOK'
  <2>1. labelled' \subseteq 1 .. n
    BY <1>4, <1>5 DEF TypeOK
  <2>3. i' \in Int /\ j' \in Int
    BY <1>2, <1>3, <1>5
  <2>2. pc' \in {"link", "search"} /\ fault = NoFault
    BY <1>1, <1>5 DEF TypeOK
  <2> QED
    BY <1>1, <2>1, <2>2, <2>3 DEF TypeOK
<1>7. SearchInv'
  <2> SUFFICES ASSUME target # Key(mid)
               PROVE  /\ 0 <= i' /\ j' < n
                      /\ \A a \in 0 .. n - 1 : Key(a) = target => i' <= a /\ a <= j'
    BY <1>1, <1>5 DEF SearchInv, Key
  <2>1. \A a, b \in 0 .. n - 1 : a < b => Key(a) <= Key(b)
    BY <1>1 DEF SortedByNumber
  <2>2. \A a \in 0 .. n - 1 : Key(a) = target => i <= a /\ a <= j
    BY <1>1 DEF SearchInv
  <2>3. ASSUME NEW a \in 0 .. n - 1, Key(a) = target
        PROVE  i' <= a /\ a <= j'
    <3>1. CASE target > Key(mid)
      <4>1. ~(a < mid) /\ a # mid
        BY <1>4, <2>1, <2>3, <3>1
      <4> QED
        BY <1>3, <1>4, <1>5, <2>2, <2>3, <3>1, <4>1
    <3>2. CASE target < Key(mid)
      <4>1. ~(mid < a) /\ a # mid
        BY <1>4, <2>1, <2>3, <3>2
      <4> QED
        BY <1>3, <1>4, <1>5, <2>2, <2>3, <3>2, <4>1
    <3> QED
      BY <1>3, <1>4, <3>1, <3>2
  <2>4. 0 <= i' /\ j' < n
    BY <1>2, <1>3, <1>5
  <2> QED
    BY <2>3, <2>4
<1> QED
  BY <1>1, <1>5, <1>6, <1>7, AfterSort

\* The assertion of bsearch_statements fails on unnumbered lines only.
LEMMA ProbeAssertsInvariant ==
    ASSUME IInv, ProbeAsserts
    PROVE  IInv'
<1> USE DEF IInv
<1>1. PICK mid \in 0 .. n - 1 : statements[mid] = Null \/ ~source[statements[mid]].numbered
  BY ProbedCell DEF ProbeAsserts
<1>2. n \in Nat /\ n = Len(source) /\ n <= Capacity
  BY SourceLines DEF ProbeAsserts, TypeOK, CellsInv
<1>3. \E k \in DOMAIN source : ~source[k].numbered
  <2>1. CASE statements[mid] = Null
    BY <1>2, <2>1, NullCell, SourceLines
  <2>2. CASE statements[mid] # Null
    BY <1>1, <1>2, <2>2, KeyType, CapacityAssumption
  <2> QED
    BY <2>1, <2>2
<1>4. FaultsExplained'
  BY <1>3 DEF ProbeAsserts, Fault, FaultsExplained
<1> QED
  BY <1>4, FaultInvariant DEF ProbeAsserts, Fault, NoFault, Causes

\* An empty search means that no line has the number.
LEMMA TargetMissingInvariant ==
    ASSUME IInv, TargetMissing
    PROVE  IInv'
<1> USE DEF IInv
<1>1. /\ n \in Nat /\ n = Len(source) /\ n <= Capacity /\ i > j
      /\ i \in Int /\ j \in Int /\ pc = "search"
  BY SourceLines DEF TargetMissing, TypeOK, CellsInv
<1>2. target \in Targets(source) /\ \A a \in 0 .. n - 1 : Key(a) # target
  BY <1>1 DEF SearchInv
<1>3. ~HasLine(source, target)
  <2> SUFFICES ASSUME NEW k \in DOMAIN source, source[k].kind # "null", source[k].num = target
               PROVE  FALSE
    BY DEF HasLine
  <2>1. k \in 1 .. n
    BY <1>1, SourceLines
  <2>2. PICK a \in 0 .. n - 1 : statements[a] = k
    BY <2>1 DEF CellsInv, EveryLineOnce
  <2> QED
    BY <1>1, <1>2, <2>1, <2>2 DEF Key, Null
<1>4. FaultsExplained'
  BY <1>2, <1>3 DEF TargetMissing, Fault, FaultsExplained
<1> QED
  BY <1>4, FaultInvariant DEF TargetMissing, Fault, NoFault, Causes

LEMMA LinkedInvariant ==
    ASSUME IInv, Linked
    PROVE  IInv'
<1> USE DEF IInv
<1>1. /\ pc = "link" /\ pc' = "emit"
      /\ UNCHANGED <<source, statements, n, goto_s, pending, seg, pivot, i, j, target,
                     labelled, pos, text, fault>>
  BY DEF Linked, sortVars, emitVars
<1>2. TypeOK' /\ SearchInv'
  BY <1>1 DEF TypeOK, SearchInv, Loops, NoFault
<1> QED
  BY <1>1, <1>2, AfterSort

\* start advances over the cells of lines only.
LEMMA EmitInvariant ==
    ASSUME IInv, Emit
    PROVE  IInv'
<1> USE DEF IInv
<1>1. /\ pc = "emit" /\ pc' = "emit" /\ pos < Capacity /\ statements[pos] # Null
      /\ pos' = pos + 1
      /\ UNCHANGED <<source, statements, n, goto_s, pending, seg, pivot, i, j, target,
                     labelled, fault>>
  BY DEF Emit, sortVars
<1>2. pos + 1 \in 0 .. n
  BY <1>1, SourceLines, CapacityAssumption DEF TypeOK, CellsInv
<1>3. TypeOK' /\ SearchInv'
  BY <1>1, <1>2 DEF TypeOK, SearchInv
<1> QED
  BY <1>1, <1>3, AfterSort

LEMMA FinishInvariant ==
    ASSUME IInv, Finish
    PROVE  IInv'
<1> USE DEF IInv
<1>1. /\ pc = "emit" /\ pc' = "done"
      /\ UNCHANGED <<source, statements, n, goto_s, pending, seg, pivot, i, j, target,
                     labelled, pos, text, fault>>
  BY DEF Finish, sortVars, emitVars
<1>2. TypeOK' /\ SearchInv'
  BY <1>1 DEF TypeOK, SearchInv, Loops, NoFault
<1> QED
  BY <1>1, <1>2, AfterSort

LEMMA EmitFaultsInvariant ==
    ASSUME IInv, EmitBare \/ EmitOverflow
    PROVE  IInv'
<1> USE DEF IInv
<1>1. /\ pc = "emit" /\ n = Len(source) /\ n \in Nat /\ n <= Capacity /\ pos \in 0 .. n
  BY SourceLines DEF EmitBare, EmitOverflow, TypeOK, CellsInv
<1>2. CASE EmitBare
  <2>1. \E k \in DOMAIN source : source[k].kind = "bare"
    <3>1. pos \in 0 .. Capacity - 1 /\ statements[pos] # Null /\ source[statements[pos]].kind # "stmt"
      <4>1. pos < Capacity /\ statements[pos] # Null /\ source[statements[pos]].kind # "stmt"
        BY <1>2 DEF EmitBare
      <4>2. pos \in 0 .. Capacity - 1
        BY <1>1, <4>1, CapacityAssumption
      <4> QED
        BY <4>1, <4>2
    <3>2. statements[pos] \in DOMAIN source
      BY <3>1, KeyType
    <3>3. source[statements[pos]].kind # "null"
      BY <1>1, <3>1, CapacityAssumption DEF CellsInv
    <3>4. source[statements[pos]].kind \in {"stmt", "bare", "null"}
      BY <3>2, SourceLines DEF Kinds
    <3> QED
      BY <3>1, <3>2, <3>3, <3>4
  <2>2. FaultsExplained'
    BY <1>2, <2>1 DEF EmitBare, Fault, FaultsExplained
  <2> QED
    BY <1>2, <2>2, FaultInvariant DEF EmitBare, Fault, NoFault, Causes
<1>3. CASE EmitOverflow
  <2>1. Len(source) >= Capacity
    BY <1>1, <1>3, CapacityAssumption DEF EmitOverflow
  <2>2. FaultsExplained'
    BY <1>3, <2>1 DEF EmitOverflow, Fault, FaultsExplained
  <2> QED
    BY <1>3, <2>2, FaultInvariant DEF EmitOverflow, Fault, NoFault, Causes
<1> QED
  BY <1>2, <1>3

LEMMA StutterInvariant ==
    ASSUME IInv, UNCHANGED vars
    PROVE  IInv'
<1> USE DEF IInv
<1>1. UNCHANGED <<source, statements, n, goto_s, pending, seg, i, j, pivot, target,
                  labelled, pos, text, pc, fault>>
  BY DEF vars
<1>2. TypeOK'
  BY <1>1 DEF TypeOK
<1>3. CellsInv'
  BY <1>1 DEF CellsInv, EveryLineOnce
<1>4. \A a, b : Key(a)' = Key(a) /\ (Unsorted(a, b)' <=> Unsorted(a, b))
  BY <1>1 DEF Key, Unsorted
<1>5. SortInv'
  BY <1>1, <1>4 DEF SortInv, PendingInv, PassedInv, ScanInv
<1>6. SearchInv' /\ SortedByNumber' /\ FaultsExplained'
  BY <1>1, <1>4 DEF SearchInv, SortedByNumber, FaultsExplained
<1> QED
  BY <1>2, <1>3, <1>5, <1>6

\* Every step keeps the invariant.
LEMMA NextInvariant ==
    ASSUME IInv, [Next]_vars
    PROVE  IInv'
<1>1. CASE Read
  BY <1>1, ReadLineInvariant, ReadOverflowInvariant, EndOfFileInvariant DEF Read
<1>2. CASE Sort
  BY <1>2, PartitionInvariant, PivotIsNullInvariant, ScanIInvariant, ScanJInvariant,
     ScanNullInvariant, SwapInvariant, CrossedInvariant, SplitInvariant, SortedInvariant
     DEF Sort
<1>3. CASE Link
  BY <1>3, PopGotoInvariant, ProbeInvariant, ProbeAssertsInvariant,
     TargetMissingInvariant, LinkedInvariant DEF Link
<1>4. CASE EmitAll
  BY <1>4, EmitInvariant, EmitFaultsInvariant, FinishInvariant DEF EmitAll
<1>5. CASE Exited \/ UNCHANGED vars
  BY <1>5, StutterInvariant DEF Exited
<1> QED
  BY <1>1, <1>2, <1>3, <1>4, <1>5 DEF Next

\* Each cause of a fault is a way not to be well-formed.
LEMMA WellFormedNoFault ==
    ASSUME IInv
    PROVE  WellFormedNeverFaults
<1> SUFFICES ASSUME WellFormed(source), pc = "fault" PROVE FALSE
  BY DEF WellFormedNeverFaults
<1>1. FaultsExplained /\ fault \in Causes
  BY DEF IInv, TypeOK
<1>2. Len(source) >= 1 /\ Len(source) < Capacity /\ Len(source) * MaxGotos <= GotoCap
  BY CapacityAssumption DEF WellFormed
<1>3. \A k \in DOMAIN source : source[k].kind = "stmt" /\ source[k].numbered
  BY DEF WellFormed
<1>4. Len(source) \in Nat /\ ~(Len(source) >= Capacity) /\ ~(Len(source) * MaxGotos > GotoCap)
  BY <1>2, SourceLines, CapacityAssumption, MaxGotosAssumption, GotoCapAssumption DEF IInv
<1>5. \A t \in Targets(source) : HasLine(source, t)
  BY DEF WellFormed
<1>6. fault # "overflow"
  BY <1>1, <1>4 DEF FaultsExplained
<1>7. fault # "null statement" /\ fault # "bare line number"
  <2>1. Len(source) # 0
    BY <1>2
  <2>2. \A k \in DOMAIN source : source[k].kind # "null" /\ source[k].kind # "bare"
    BY <1>3
  <2> QED
    BY <1>1, <2>1, <2>2 DEF FaultsExplained
<1>8. fault # "not a numbered line" /\ fault # "missing target"
  BY <1>1, <1>3, <1>5 DEF FaultsExplained
<1> QED
  BY <1>1, <1>6, <1>7, <1>8 DEF Causes

-----------------------------------------------------------------------------
(* The theorems. *)

\* The conjunction IInv is inductive and so holds throughout every run.
THEOREM Invariant == Spec => []IInv
BY InitInvariant, NextInvariant, PTL DEF Spec

\* Every variable keeps its type; in particular no array access of the sort,
\* of the searches or of start is out of bounds unless it ends in a fault.
THEOREM TypeCorrect == Spec => []TypeOK
<1>1. IInv => TypeOK
  BY DEF IInv
<1> QED
  BY <1>1, Invariant, PTL

\* sortAST sorts: for every program, of any length, the lines are in
\* line-number order when the first jump is resolved, and stay so.
THEOREM SortCorrect == Spec => []SortedByNumber
<1>1. IInv => SortedByNumber
  BY DEF IInv
<1> QED
  BY <1>1, Invariant, PTL

\* The sort permutes: no line of the program is ever lost or doubled.
THEOREM NothingLost == Spec => []EveryLineOnce
<1>1. IInv => EveryLineOnce
  BY DEF IInv, CellsInv
<1> QED
  BY <1>1, Invariant, PTL

\* Whatever the program, each fault has the cause in it that it stands for.
THEOREM FaultCauses == Spec => []FaultsExplained
<1>1. IInv => FaultsExplained
  BY DEF IInv
<1> QED
  BY <1>1, Invariant, PTL

\* A well-formed program never makes the driver fault.
THEOREM WellFormedRuns == Spec => []WellFormedNeverFaults
BY WellFormedNoFault, Invariant, PTL
=============================================================================
