---------------------- MODULE StatementOrder_refinement ----------------------
(***************************************************************************)
(* Beyond the order of the lines: no line is left out of the listing, each *)
(* target of a jump is given one label however often it is searched, the   *)
(* emitted text is the program, and the driver implements Listing.         *)
(***************************************************************************)
EXTENDS StatementOrder_proofs

\* Every cell of a line that has no tokens is met by a scan or as a pivot,
\* which ends the process: the sort is over only if there was none.
FilledInv ==
    /\ pc \in {"call"} \union Loops =>
           \A a \in 0 .. n - 1 : statements[a] # Null \/ Unsorted(a, a)
    /\ pc \in Loops => /\ \A a \in seg.l .. i - 1 : statements[a] # Null
                       /\ \A b \in j + 1 .. seg.r : statements[b] # Null
    /\ pc \in {"scanJ", "swap"} => statements[i] # Null
    /\ pc = "swap" => statements[j] # Null
    /\ pc \in {"link", "search", "emit", "done"} => \A a \in 0 .. n - 1 : statements[a] # Null
    /\ (\E k \in 1 .. n : source[k].kind = "null") => \E a \in 0 .. n - 1 : statements[a] = Null

\* A target is still on the stack, under search, or some line is marked for it.
Waiting(t) == \E x \in DOMAIN goto_s : goto_s[x] = t
Marked(t) == \E m \in labelled : source[m].num = t

TargetsInv ==
    /\ pc = "read" => \A k \in 1 .. n : \A g \in DOMAIN source[k].gotos : Waiting(source[k].gotos[g])
    /\ pc \notin {"read", "fault"} =>
          \A t \in Targets(source) :
              \/ Waiting(t) /\ pc \notin {"emit", "done"}
              \/ Marked(t)
              \/ pc = "search" /\ t = target
    /\ pc \in {"read", "call"} \union Loops => labelled = {}

\* The segments a search for t looks at: from s it goes on to Narrowed(t, s)
\* while it misses.  It gets from s to u if every set of segments that has s
\* and is closed under such steps has u.
Mid(s) == (s.l + s.r) \div 2
Whole == [l |-> 0, r |-> n - 1]
Misses(t, s) == s.l <= s.r /\ Key(Mid(s)) # t
Hits(t, s) == s.l <= s.r /\ Key(Mid(s)) = t
Narrowed(t, s) == [l |-> IF t > Key(Mid(s)) THEN AboveMid(Mid(s)) ELSE s.l,
                   r |-> IF t < Key(Mid(s)) THEN BelowMid(Mid(s)) ELSE s.r]
Closed(t, C) == \A s \in C : Misses(t, s) => Narrowed(t, s) \in C
LeadsTo(t, s, u) == \A C \in SUBSET Segment : s \in C /\ Closed(t, C) => u \in C

\* The search for t finds the line m.
Finds(t, m) ==
    \E s \in Segment : /\ LeadsTo(t, Whole, s) /\ Hits(t, s)
                       /\ Mid(s) \in 0 .. n - 1 /\ statements[Mid(s)] = m

\* A marked line is where the search for its number ends.
MarksInv ==
    /\ pc = "search" => LeadsTo(target, Whole, [l |-> i, r |-> j])
    /\ pc \in {"link", "search", "emit", "done"} =>
          \A m \in labelled : Finds(source[m].num, m)

\* Nor is any line marked but for a target.
NamedInv == \A m \in labelled : source[m].num \in Targets(source)

\* The text is that of the first pos cells: where[a] is the place of the
\* statement of cell a, and before it is its label if it has one.
LabelOf(a) == [op |-> "label", num |-> Key(a)]
Written(where) ==
    /\ \A a \in 0 .. pos - 1 : text[where[a]] = [op |-> "stmt", node |-> statements[a]]
    /\ \A a \in 0 .. pos - 1 : statements[a] \in labelled =>
          where[a] - 1 \in DOMAIN text /\ text[where[a] - 1] = LabelOf(a)
    /\ \A a, b \in 0 .. pos - 1 : a < b => where[a] < where[b]
    /\ \A q \in DOMAIN text : \E a \in 0 .. pos - 1 :
          \/ q = where[a]
          \/ q + 1 = where[a] /\ statements[a] \in labelled /\ text[q] = LabelOf(a)

Emitted == [op : {"label"}, num : Int] \union [op : {"stmt"}, node : 1 .. n]

TextInv ==
    /\ text \in Seq(Emitted)
    /\ \E where \in [0 .. pos - 1 -> DOMAIN text] : Written(where)
    /\ pos = 0 \/ pc \in {"emit", "done", "fault"}
    /\ pc = "done" => pos = n
    /\ \A a, b \in 0 .. pos - 1 : a < b => Key(a) <= Key(b)
    /\ \A a \in 0 .. pos - 1 : statements[a] # Null

ListingInv == IInv /\ FilledInv /\ TargetsInv /\ MarksInv /\ NamedInv /\ TextInv

-----------------------------------------------------------------------------
(* No line is left out.                                                    *)

\* Steps that leave the lines and the cells alone, as all but ReadLine and
\* Swap do, need only say how they move the cursors.
LEMMA FilledKept ==
    ASSUME FilledInv, UNCHANGED <<source, statements, n>>,
           pc' \in {"call"} \union Loops =>
               \A a \in 0 .. n - 1 : statements[a] # Null \/ Unsorted(a, a)',
           pc' \in Loops => /\ \A a \in seg'.l .. i' - 1 : statements[a] # Null
                            /\ \A b \in j' + 1 .. seg'.r : statements[b] # Null,
           pc' \in {"scanJ", "swap"} => statements[i'] # Null,
           pc' = "swap" => statements[j'] # Null,
           pc' \in {"link", "search", "emit", "done"} => \A a \in 0 .. n - 1 : statements[a] # Null
    PROVE  FilledInv'
  BY DEF FilledInv

LEMMA FilledRead ==
    ASSUME IInv, FilledInv, Read
    PROVE  FilledInv'
<1>1. CASE ReadLine
  <2>1. /\ n \in Nat /\ n < Capacity /\ n' = n + 1 /\ source' = source /\ pc' = "read"
        /\ \A a \in 0 .. n - 1 : statements'[a] = statements[a]
        /\ source[n + 1].kind = "null" => statements'[n] = Null
    BY <1>1, CapacityAssumption, SourceLines DEF IInv, TypeOK, ReadLine, Pushed
  <2>2. (\E k \in 1 .. n' : source'[k].kind = "null") => \E a \in 0 .. n' - 1 : statements'[a] = Null
    <3> SUFFICES ASSUME NEW k \in 1 .. n + 1, source[k].kind = "null"
                 PROVE  \E a \in 0 .. n : statements'[a] = Null
      BY <2>1
    <3>1. CASE k = n + 1
      BY <2>1, <3>1
    <3>2. CASE k \in 1 .. n
      <4>1. PICK a \in 0 .. n - 1 : statements[a] = Null
        BY <3>2 DEF FilledInv
      <4> QED
        BY <2>1, <4>1
    <3> QED
      BY <2>1, <3>1, <3>2
  <2> QED
    BY <2>1, <2>2 DEF FilledInv, Loops
<1>2. CASE ReadOverflow
  BY <1>2, FilledKept DEF ReadOverflow, Fault, Loops
<1>3. CASE EndOfFile
  <2>1. n \in Nat /\ pc' = "call" /\ pending' = <<[l |-> 0, r |-> n - 1]>>
    BY <1>3 DEF EndOfFile, IInv, TypeOK
  <2>2. \A a \in 0 .. n - 1 : Unsorted(a, a)'
    <3>1. DOMAIN pending' = {1} /\ pending'[1] = [l |-> 0, r |-> n - 1]
      BY <2>1
    <3> QED
      BY <2>1, <3>1 DEF Unsorted, Within
  <2> QED
    BY <1>3, <2>1, <2>2, FilledKept DEF EndOfFile, Loops
<1> QED
  BY <1>1, <1>2, <1>3 DEF Read

\* The recursive calls of a partition leave those already pending in place.
LEMMA SplitKeepsPending ==
    ASSUME IInv, Split, NEW p \in DOMAIN pending
    PROVE  \E q \in DOMAIN pending' : pending'[q] = pending[p]
<1>1. /\ i \in Int /\ j \in Int /\ seg \in Segment /\ pending \in Seq(Segment)
  BY DEF IInv, TypeOK
<1>2. RightCall \in Seq(Segment) /\ LeftCall \in Seq(Segment)
  <2>1. [l |-> i, r |-> seg.r] \in Segment /\ [l |-> seg.l, r |-> j] \in Segment
    BY <1>1 DEF Segment
  <2> QED
    BY <2>1 DEF RightCall, LeftCall
<1> DEFINE u == RightCall \o LeftCall
<1>3. u \in Seq(Segment) /\ pending' = u \o pending
  <2>1. pending' = (RightCall \o LeftCall) \o pending
    BY <1>1, <1>2 DEF Split
  <2> QED
    BY <1>2, <2>1
<1> HIDE DEF u
<1>4. DOMAIN (u \o pending) = 1 .. Len(u) + Len(pending)
      /\ p + Len(u) \in 1 .. Len(u) + Len(pending) /\ (u \o pending)[p + Len(u)] = pending[p]
  BY <1>1, <1>3, PushedInFront
<1> QED
  BY <1>3, <1>4

LEMMA FilledSort ==
    ASSUME IInv, FilledInv, Sort
    PROVE  FilledInv'
<1> USE DEF IInv
<1>1. CASE Partition
  <2> DEFINE s == Head(pending)
  <2>1. /\ pc = "call" /\ pending # <<>> /\ pc' = "scanI" /\ seg' = s /\ pending' = Tail(pending)
        /\ i' = s.l /\ j' = s.r /\ source' = source /\ statements' = statements /\ n' = n
    BY <1>1 DEF Partition
  <2>2. n \in Nat /\ n > 0 /\ pending \in Seq(Segment)
    BY <1>1, <2>1, EmptyCall, SourceLines DEF Partition, TypeOK
  <2>3. s = pending[1] /\ s \in Segment
    BY <2>1, <2>2
  <2>4. ASSUME NEW a \in 0 .. n - 1, Unsorted(a, a) PROVE Unsorted(a, a)'
    <3>1. PICK p \in DOMAIN pending : Within(pending[p], a, a)
      BY <2>1, <2>4 DEF Unsorted, Loops
    <3>2. CASE p = 1
      BY <2>1, <2>3, <3>1, <3>2 DEF Unsorted, Within, Loops
    <3>3. CASE p # 1
      <4>1. p - 1 \in DOMAIN pending' /\ pending[p] = pending'[p - 1]
        BY <2>1, <2>2, <3>1, <3>3
      <4> QED
        BY <3>1, <4>1 DEF Unsorted, Within
    <3> QED
      BY <3>2, <3>3
  <2>5. \A a \in 0 .. n - 1 : statements[a] # Null \/ Unsorted(a, a)'
    BY <2>1, <2>4 DEF FilledInv
  <2>6. seg'.l .. i' - 1 = {} /\ j' + 1 .. seg'.r = {}
    BY <2>1, <2>3 DEF Segment
  <2> QED
    BY <2>1, <2>5, <2>6, FilledKept DEF Loops
<1>2. CASE PivotIsNull \/ ScanNull
  BY <1>2, FilledKept DEF PivotIsNull, ScanNull, Fault, Loops
<1>3. CASE ScanI
  <2>1. /\ pc = "scanI" /\ statements[i] # Null
        /\ \/ i' = i + 1 /\ pc' = "scanI"
           \/ i' = i /\ pc' = "scanJ"
        /\ UNCHANGED <<source, statements, n, seg, pending, j>>
    BY <1>3 DEF ScanI, BelowPivot, sortVars
  <2>2. \A a : Unsorted(a, a)' <=> Unsorted(a, a)
    BY <2>1 DEF Unsorted, Loops
  <2>3. i \in Int /\ seg.l \in Int
    BY DEF TypeOK, Segment
  <2>4. \A a \in seg.l .. i' - 1 : statements[a] # Null
    BY <2>1, <2>3 DEF FilledInv, Loops
  <2> QED
    BY <2>1, <2>2, <2>4, FilledKept DEF FilledInv, Loops
<1>4. CASE ScanJ
  <2>1. /\ pc = "scanJ" /\ statements[j] # Null
        /\ \/ j' = j - 1 /\ pc' = "scanJ"
           \/ j' = j /\ pc' = "swap"
        /\ UNCHANGED <<source, statements, n, seg, pending, i>>
    BY <1>4 DEF ScanJ, sortVars
  <2>2. \A a : Unsorted(a, a)' <=> Unsorted(a, a)
    BY <2>1 DEF Unsorted, Loops
  <2>3. j \in Int /\ seg.r \in Int
    BY DEF TypeOK, Segment
  <2>4. \A b \in j' + 1 .. seg.r : statements[b] # Null
    BY <2>1, <2>3 DEF FilledInv, Loops
  <2> QED
    BY <2>1, <2>2, <2>4, FilledKept DEF FilledInv, Loops
<1>5. CASE Swap
  <2>1. /\ pc = "swap" /\ i' = i + 1 /\ j' = j - 1 /\ pc' \in {"scanI", "split"}
        /\ UNCHANGED <<source, n, seg, pending>>
    BY <1>5 DEF Swap, sortVars
  <2>2. /\ i \in seg.l .. seg.r /\ j \in seg.l .. seg.r /\ i <= j
        /\ \A a \in 0 .. Capacity - 1 :
              statements'[a] = IF a = i THEN statements[j] ELSE IF a = j THEN statements[i] ELSE statements[a]
    BY <1>5, SwapEffect
  <2>3. /\ n \in Nat /\ n <= Capacity /\ Capacity \in Nat /\ seg.l \in Int /\ seg.r \in Int
        /\ 0 <= seg.l /\ seg.r < n /\ i \in Int /\ j \in Int
    BY <2>1, InLoop, CapacityAssumption DEF Loops
  <2>4. statements[i] # Null /\ statements[j] # Null
    BY <2>1 DEF FilledInv
  <2>5. ASSUME NEW a \in 0 .. n - 1 PROVE statements'[a] = Null <=> statements[a] = Null
    BY <2>2, <2>3, <2>4
  <2>6. \A a : Unsorted(a, a)' <=> Unsorted(a, a)
    BY <2>1 DEF Unsorted, Loops
  <2>7. \A a \in 0 .. n - 1 : statements'[a] # Null \/ Unsorted(a, a)'
    BY <2>1, <2>5, <2>6 DEF FilledInv, Loops
  <2>8. ASSUME NEW a \in seg.l .. i PROVE statements'[a] # Null
    <3>1. a \in 0 .. n - 1 /\ (a = i \/ a \in seg.l .. i - 1)
      BY <2>2, <2>3
    <3> QED
      BY <2>1, <2>4, <2>5, <3>1 DEF FilledInv, Loops
  <2>9. ASSUME NEW b \in j .. seg.r PROVE statements'[b] # Null
    <3>1. b \in 0 .. n - 1 /\ (b = j \/ b \in j + 1 .. seg.r)
      BY <2>2, <2>3
    <3> QED
      BY <2>1, <2>4, <2>5, <3>1 DEF FilledInv, Loops
  <2>10. i' - 1 = i /\ j' + 1 = j
    BY <2>1, <2>3
  <2>11. (\E k \in 1 .. n : source[k].kind = "null") => \E a \in 0 .. n - 1 : statements'[a] = Null
    BY <2>5 DEF FilledInv
  <2> QED
    BY <2>1, <2>7, <2>8, <2>9, <2>10, <2>11 DEF FilledInv, Loops
<1>6. CASE Crossed
  <2>1. pc = "swap" /\ pc' = "split" /\ UNCHANGED <<source, statements, n, seg, pending, i, j>>
    BY <1>6 DEF Crossed, sortVars
  <2>2. \A a : Unsorted(a, a)' <=> Unsorted(a, a)
    BY <2>1 DEF Unsorted, Loops
  <2> QED
    BY <2>1, <2>2, FilledKept DEF FilledInv, Loops
<1>7. CASE Split
  <2>1. pc = "split" /\ pc' = "call" /\ UNCHANGED <<source, statements, n, seg, i, j>>
    BY <1>7 DEF Split
  <2>2. /\ i \in Int /\ j \in Int /\ seg.l \in Int /\ seg.r \in Int
        /\ seg.l <= i /\ j <= seg.r /\ j < i
    BY <2>1, InLoop DEF SortInv, Loops
  <2>3. ASSUME NEW a \in 0 .. n - 1, Unsorted(a, a), statements[a] = Null PROVE Unsorted(a, a)'
    <3>1. CASE Within(seg, a, a)
      <4>1. a \in seg.l .. i - 1 \/ a \in j + 1 .. seg.r
        BY <2>2, <3>1 DEF Within
      <4> QED
        BY <2>1, <2>3, <4>1 DEF FilledInv, Loops
    <3>2. CASE \E p \in DOMAIN pending : Within(pending[p], a, a)
      <4>1. PICK p \in DOMAIN pending : Within(pending[p], a, a)
        BY <3>2
      <4>2. PICK q \in DOMAIN pending' : pending'[q] = pending[p]
        BY <1>7, SplitKeepsPending
      <4> QED
        BY <4>1, <4>2 DEF Unsorted, Within
    <3> QED
      BY <2>3, <3>1, <3>2 DEF Unsorted
  <2>4. \A a \in 0 .. n - 1 : statements[a] # Null \/ Unsorted(a, a)'
    BY <2>1, <2>3 DEF FilledInv, Loops
  <2> QED
    BY <2>1, <2>4, FilledKept DEF Loops
<1>8. CASE Sorted
  <2>1. pc = "call" /\ pending = <<>> /\ pc' = "link" /\ UNCHANGED <<source, statements, n>>
    BY <1>8 DEF Sorted
  <2>2. \A a : ~Unsorted(a, a)
    BY <2>1 DEF Unsorted, Loops
  <2> QED
    BY <2>1, <2>2, FilledKept DEF FilledInv, Loops
<1> QED
  BY <1>1, <1>2, <1>3, <1>4, <1>5, <1>6, <1>7, <1>8 DEF Sort

LEMMA FilledStep ==
    ASSUME IInv, FilledInv, [Next]_vars
    PROVE  FilledInv'
<1>1. CASE Link \/ EmitAll
  <2>1. /\ pc \in {"link", "search", "emit"} /\ pc' \in {"link", "search", "emit", "done", "fault"}
        /\ UNCHANGED <<source, statements, n>>
    <3>1. CASE Probe
      BY <3>1 DEF Probe
    <3> QED
      BY <1>1, <3>1 DEF Link, PopGoto, ProbeAsserts, TargetMissing, Linked, EmitAll, Emit,
                        EmitBare, EmitOverflow, Finish, Fault
  <2> QED
    BY <2>1, FilledKept DEF FilledInv, Loops
<1>2. CASE UNCHANGED vars
  <2>1. UNCHANGED <<source, statements, n, pending, seg, i, j, pc>>
    BY <1>2 DEF vars
  <2>2. \A a : Unsorted(a, a)' <=> Unsorted(a, a)
    BY <2>1 DEF Unsorted
  <2> QED
    BY <2>1, <2>2, FilledKept DEF FilledInv
<1> QED
  BY <1>1, <1>2, FilledRead, FilledSort DEF Next, Exited
-----------------------------------------------------------------------------
(* Each search for a number ends at the same line.                         *)

LEMMA LeadsToItself ==
    ASSUME NEW t, NEW s
    PROVE  LeadsTo(t, s, s)
  BY DEF LeadsTo

LEMMA LeadsOn ==
    ASSUME NEW t, NEW s, NEW u, LeadsTo(t, s, u), Misses(t, u)
    PROVE  LeadsTo(t, s, Narrowed(t, u))
  BY DEF LeadsTo, Closed

\* A search that goes on does not end where it is.
LEMMA LeadsBack ==
    ASSUME NEW t, NEW s \in Segment, NEW u, LeadsTo(t, s, u), Misses(t, s), Hits(t, u)
    PROVE  LeadsTo(t, Narrowed(t, s), u)
<1> SUFFICES ASSUME NEW C \in SUBSET Segment, Narrowed(t, s) \in C, Closed(t, C)
             PROVE  u \in C
  BY DEF LeadsTo
<1>1. C \union {s} \in SUBSET Segment /\ Closed(t, C \union {s})
  BY DEF Closed
<1>2. u \in C \union {s}
  BY <1>1 DEF LeadsTo
<1>3. u # s
  BY DEF Misses, Hits
<1> QED
  BY <1>2, <1>3

LEMMA SameHit ==
    ASSUME NEW t, NEW s \in Segment, NEW u \in Segment, NEW v \in Segment,
           LeadsTo(t, s, u), LeadsTo(t, s, v), Hits(t, u), Hits(t, v)
    PROVE  u = v
<1> DEFINE C == { x \in Segment : LeadsTo(t, x, v) }
<1>1. s \in C
  OBVIOUS
<1>2. Closed(t, C)
  <2> SUFFICES ASSUME NEW x \in C, Misses(t, x)
               PROVE  Narrowed(t, x) \in C
    BY DEF Closed
  <2>1. LeadsTo(t, Narrowed(t, x), v)
    BY LeadsBack
  <2>2. Narrowed(t, x) \in Segment
    BY DEF Segment, Narrowed, Mid, AboveMid, BelowMid
  <2> QED
    BY <2>1, <2>2
<1>3. u \in C
  BY <1>1, <1>2 DEF LeadsTo
<1>4. Closed(t, {u}) /\ {u} \in SUBSET Segment
  BY DEF Closed, Hits, Misses
<1> QED
  BY <1>3, <1>4 DEF LeadsTo

LEMMA FindsOnce ==
    ASSUME NEW t, NEW m, NEW k, n \in Nat, Finds(t, m), Finds(t, k)
    PROVE  m = k
<1>1. PICK u \in Segment : LeadsTo(t, Whole, u) /\ Hits(t, u) /\ statements[Mid(u)] = m
  BY DEF Finds
<1>2. PICK v \in Segment : LeadsTo(t, Whole, v) /\ Hits(t, v) /\ statements[Mid(v)] = k
  BY DEF Finds
<1>3. Whole \in Segment
  BY DEF Whole, Segment
<1>4. u = v
  BY <1>1, <1>2, <1>3, SameHit
<1> QED
  BY <1>1, <1>2, <1>4

\* What a search finds depends on the lines and the cells only.
LEMMA FindsKept ==
    ASSUME UNCHANGED <<source, statements, n>>
    PROVE  /\ Whole' = Whole
           /\ \A t, s, u : LeadsTo(t, s, u)' <=> LeadsTo(t, s, u)
           /\ \A t, m : Finds(t, m)' <=> Finds(t, m)
<1>1. \A a : Key(a)' = Key(a)
  BY DEF Key
<1>2. Whole' = Whole
  BY DEF Whole
<1>3. \A t, s : /\ Misses(t, s)' <=> Misses(t, s)
                /\ Hits(t, s)' <=> Hits(t, s)
                /\ Narrowed(t, s)' = Narrowed(t, s)
  BY <1>1 DEF Misses, Hits, Narrowed, Mid, AboveMid, BelowMid
<1>4. \A t, C : Closed(t, C)' <=> Closed(t, C)
  BY <1>3 DEF Closed
<1>5. \A t, s, u : LeadsTo(t, s, u)' <=> LeadsTo(t, s, u)
  BY <1>4 DEF LeadsTo
<1>6. \A t, m : Finds(t, m)' <=> Finds(t, m)
  BY <1>2, <1>3, <1>5 DEF Finds, Mid
<1> QED
  BY <1>2, <1>5, <1>6

\* A step after the sort that marks nothing only has to say where it searches.
LEMMA MarksKept ==
    ASSUME MarksInv, UNCHANGED <<source, statements, n, labelled>>,
           pc \in {"link", "search", "emit", "done"},
           pc' = "search" => LeadsTo(target', Whole, [l |-> i', r |-> j'])
    PROVE  MarksInv'
  BY FindsKept DEF MarksInv

\* One iteration of the search in the terms of the segment it looks at.
LEMMA ProbeStep ==
    ASSUME IInv, Probe, NEW s \in Segment, s = [l |-> i, r |-> j]
    PROVE  /\ Mid(s) \in 0 .. n - 1 /\ statements[Mid(s)] \in DOMAIN source
           /\ Key(Mid(s)) = source[statements[Mid(s)]].num
           /\ s.l <= s.r
           /\ target = Key(Mid(s)) =>
                 pc' = "link" /\ labelled' = labelled \union {statements[Mid(s)]}
           /\ target # Key(Mid(s)) =>
                 pc' = "search" /\ labelled' = labelled
           /\ [l |-> i', r |-> j'] = Narrowed(target, s)
           /\ UNCHANGED <<source, statements, n, goto_s, target, pos, text>>
<1>1. pc = "search" /\ i <= j /\ UNCHANGED <<source, statements, n, goto_s, target, pos, text>>
  BY DEF Probe, AboveMid, BelowMid, Found, sortVars, emitVars
<1>2. s.l = i /\ s.r = j
  OBVIOUS
<1>3. Mid(s) = (i + j) \div 2
  BY <1>2 DEF Mid
<1>4. Mid(s) \in 0 .. n - 1 /\ n <= Capacity /\ n \in Nat
  BY <1>1, <1>3, ProbedCell
<1>5. PICK m : m = Mid(s)
  OBVIOUS
<1>6. statements[m] # Null
  BY <1>3, <1>5 DEF Probe, AboveMid, BelowMid, Found
<1>7. statements[m] \in DOMAIN source /\ Key(m) = source[statements[m]].num
  BY <1>4, <1>5, <1>6, KeyType, CapacityAssumption DEF IInv
<1>8. /\ i' = IF target > Key(m) THEN m + 1 ELSE i
      /\ j' = IF target < Key(m) THEN m - 1 ELSE j
      /\ target = Key(m) => pc' = "link" /\ labelled' = labelled \union {statements[m]}
      /\ target # Key(m) => pc' = "search" /\ labelled' = labelled
  BY <1>1, <1>3, <1>5, <1>7 DEF Probe, AboveMid, BelowMid, Found
<1>9. [l |-> i', r |-> j'] = Narrowed(target, s)
  BY <1>2, <1>5, <1>8 DEF Narrowed, AboveMid, BelowMid
<1> QED
  BY <1>1, <1>2, <1>4, <1>5, <1>7, <1>8, <1>9

LEMMA MarksStep ==
    ASSUME IInv, TargetsInv, MarksInv, [Next]_vars
    PROVE  MarksInv'
<1>1. CASE Read \/ Sort
  <2>1. pc \in {"read", "call"} \union Loops /\ pc' # "search"
    BY <1>1 DEF Read, ReadLine, ReadOverflow, EndOfFile, Sort, Partition, PivotIsNull, ScanI,
                ScanJ, ScanNull, Swap, Crossed, Split, Sorted, Fault, Loops, Pushed, BelowPivot
  <2>2. labelled' = labelled
    BY <1>1 DEF Read, ReadLine, ReadOverflow, EndOfFile, Sort, Partition, PivotIsNull, ScanI,
                ScanJ, ScanNull, Swap, Crossed, Split, Sorted, Fault
  <2>3. labelled = {}
    BY <2>1 DEF TargetsInv
  <2> QED
    BY <2>1, <2>2, <2>3 DEF MarksInv
<1>2. CASE PopGoto
  <2>1. /\ pc = "link" /\ i' = 0 /\ j' = n - 1
        /\ UNCHANGED <<source, statements, n, labelled>>
    BY <1>2 DEF PopGoto, LastCell
  <2>2. LeadsTo(target', Whole, [l |-> i', r |-> j'])
    BY <2>1, LeadsToItself DEF Whole
  <2> QED
    BY <2>1, <2>2, MarksKept
<1>3. CASE Probe
  <2>1. PICK s \in Segment : s = [l |-> i, r |-> j]
    BY DEF IInv, TypeOK, Segment
  <2>2. PICK t : t = target
    OBVIOUS
  <2>3. LeadsTo(t, Whole, s) /\ pc = "search"
    BY <1>3, <2>1, <2>2 DEF MarksInv, Probe
  <2>4. CASE t = Key(Mid(s))
    <3>1. PICK m : m = statements[Mid(s)]
      OBVIOUS
    <3>2. source[m].num = t /\ Hits(t, s) /\ Mid(s) \in 0 .. n - 1
      BY <1>3, <2>1, <2>4, <3>1, ProbeStep DEF Hits
    <3>3. Finds(t, m)
      BY <2>3, <3>1, <3>2 DEF Finds
    <3>4. pc' = "link" /\ labelled' = labelled \union {m} /\ UNCHANGED <<source, statements, n>>
      BY <1>3, <2>1, <2>2, <2>4, <3>1, ProbeStep
    <3>5. \A k \in labelled' : Finds(source[k].num, k)
      BY <2>3, <3>2, <3>3, <3>4 DEF MarksInv
    <3>6. (\A k \in labelled : Finds(source[k].num, k))'
      BY <3>4, <3>5, FindsKept
    <3> QED
      BY <3>4, <3>6 DEF MarksInv
  <2>5. CASE t # Key(Mid(s))
    <3>1. Misses(t, s)
      BY <1>3, <2>1, <2>5, ProbeStep DEF Misses
    <3>2. LeadsTo(t, Whole, Narrowed(t, s))
      BY <2>3, <3>1, LeadsOn
    <3>3. /\ labelled' = labelled /\ target' = t /\ UNCHANGED <<source, statements, n>>
          /\ [l |-> i', r |-> j'] = Narrowed(t, s)
      BY <1>3, <2>1, <2>2, <2>5, ProbeStep
    <3>4. LeadsTo(target', Whole, [l |-> i', r |-> j'])
      BY <3>2, <3>3
    <3> QED
      BY <2>3, <3>3, <3>4, MarksKept
  <2> QED
    BY <2>4, <2>5
<1>4. CASE ProbeAsserts \/ TargetMissing \/ Linked \/ EmitAll
  <2>1. /\ pc \in {"link", "search", "emit"} /\ pc' # "search"
        /\ UNCHANGED <<source, statements, n, labelled>>
    BY <1>4 DEF ProbeAsserts, TargetMissing, Linked, EmitAll, Emit, EmitBare, EmitOverflow,
                Finish, Fault
  <2> QED
    BY <2>1, MarksKept
<1>5. CASE UNCHANGED vars
  <2>1. UNCHANGED <<source, statements, n, labelled, pc, i, j, target>>
    BY <1>5 DEF vars
  <2> QED
    BY <2>1, FindsKept DEF MarksInv
<1> QED
  BY <1>1, <1>2, <1>3, <1>4, <1>5 DEF Next, Link, Exited
LEMMA NamedStep ==
    ASSUME IInv, NamedInv, [Next]_vars
    PROVE  NamedInv'
<1>1. CASE Probe
  <2>1. PICK s \in Segment : s = [l |-> i, r |-> j]
    BY DEF IInv, TypeOK, Segment
  <2>2. target \in Targets(source)
    BY <1>1 DEF Probe, IInv, SearchInv
  <2>3. source' = source /\ \A m \in labelled' : m \in labelled \/ source[m].num = target
    BY <1>1, <2>1, ProbeStep
  <2> QED
    BY <2>2, <2>3 DEF NamedInv
<1>2. ASSUME UNCHANGED <<source, labelled>>
      PROVE  NamedInv'
  BY <1>2 DEF NamedInv
<1>3. CASE Read \/ Sort \/ PopGoto \/ ProbeAsserts \/ TargetMissing \/ Linked
  <2>1. UNCHANGED <<source, labelled>>
    BY <1>3 DEF Read, ReadLine, ReadOverflow, EndOfFile, Sort, Partition, PivotIsNull, ScanI,
                ScanJ, ScanNull, Swap, Crossed, Split, Sorted, PopGoto, ProbeAsserts,
                TargetMissing, Linked, Fault
  <2> QED
    BY <1>2, <2>1
<1>4. CASE EmitAll \/ UNCHANGED vars
  BY <1>2, <1>4 DEF EmitAll, Emit, EmitBare, EmitOverflow, Finish, Fault, vars
<1> QED
  BY <1>1, <1>3, <1>4 DEF Next, Link, Exited

-----------------------------------------------------------------------------
(* Each target is on the stack, under search, or marked.                   *)

LEMMA TargetsRead ==
    ASSUME IInv, TargetsInv, ReadLine
    PROVE  TargetsInv'
<1>1. /\ n \in Nat /\ n + 1 \in DOMAIN source /\ n' = n + 1 /\ pc = "read" /\ pc' = "read"
      /\ UNCHANGED <<source, labelled>>
  BY SourceLines DEF IInv, TypeOK, ReadLine, Pushed
<1>2. PICK u : u = source[n + 1].gotos
  OBVIOUS
<1>3. goto_s \in Seq(Targets(source)) /\ u \in Seq(Targets(source)) /\ goto_s' = goto_s \o u
  BY <1>1, <1>2, PushedTargets DEF IInv, TypeOK, ReadLine, Pushed
<1>4. \A x \in DOMAIN goto_s : x \in DOMAIN goto_s' /\ goto_s'[x] = goto_s[x]
  BY <1>3
<1>5. \A g \in DOMAIN u : Len(goto_s) + g \in DOMAIN goto_s' /\ goto_s'[Len(goto_s) + g] = u[g]
  BY <1>3
<1>6. ASSUME NEW k \in 1 .. n + 1, NEW g \in DOMAIN source[k].gotos
      PROVE  \E x \in DOMAIN goto_s' : goto_s'[x] = source[k].gotos[g]
  <2>1. CASE k = n + 1
    BY <1>2, <1>5, <2>1
  <2>2. CASE k \in 1 .. n
    <3>1. PICK x \in DOMAIN goto_s : goto_s[x] = source[k].gotos[g]
      BY <1>1, <2>2 DEF TargetsInv, Waiting
    <3> QED
      BY <1>4, <3>1
  <2> QED
    BY <1>1, <2>1, <2>2
<1>7. (\A k \in 1 .. n : \A g \in DOMAIN source[k].gotos : Waiting(source[k].gotos[g]))'
  BY <1>1, <1>6 DEF Waiting
<1> QED
  BY <1>1, <1>7 DEF TargetsInv

\* At the end of the file every target is on the stack.
LEMMA AllWaiting ==
    ASSUME IInv, TargetsInv, pc = "read", n = Len(source), NEW t \in Targets(source)
    PROVE  Waiting(t)
<1>1. PICK k \in DOMAIN source : \E g \in DOMAIN source[k].gotos : source[k].gotos[g] = t
  BY DEF Targets
<1>2. k \in 1 .. n
  BY SourceLines DEF IInv
<1> QED
  BY <1>1, <1>2 DEF TargetsInv

\* Reading done, a step that moves no target between stack, search and marks.
LEMMA TargetsKept ==
    ASSUME TargetsInv, UNCHANGED <<source, goto_s, labelled>>,
           pc \notin {"read", "fault"}, pc' # "read",
           pc' \in {"call"} \union Loops => pc \in {"call"} \union Loops,
           \A t \in Targets(source) :
              /\ Waiting(t) /\ pc' # "fault" => pc' \notin {"emit", "done"} \/ Marked(t)
              /\ pc = "search" /\ t = target /\ pc' # "fault" => pc' = "search" /\ target' = target
    PROVE  TargetsInv'
<1>1. Targets(source)' = Targets(source)
  OBVIOUS
<1>2. \A t : (Waiting(t)' <=> Waiting(t)) /\ (Marked(t)' <=> Marked(t))
  BY DEF Waiting, Marked
<1>3. ASSUME NEW t \in Targets(source), pc' # "fault"
      PROVE  \/ Waiting(t) /\ pc' \notin {"emit", "done"}
             \/ Marked(t)
             \/ pc' = "search" /\ t = target'
  BY <1>3 DEF TargetsInv
<1>4. \A t \in Targets(source)' : pc' \notin {"read", "fault"} =>
             \/ Waiting(t)' /\ pc' \notin {"emit", "done"}
             \/ Marked(t)'
             \/ pc' = "search" /\ t = target'
  BY <1>1, <1>2, <1>3
<1>5. (pc \notin {"read", "fault"} =>
          \A t \in Targets(source) :
              \/ Waiting(t) /\ pc \notin {"emit", "done"}
              \/ Marked(t)
              \/ pc = "search" /\ t = target)'
  BY <1>4
<1>6. pc' \in {"call"} \union Loops => labelled' = {}
  BY DEF TargetsInv
<1> QED
  BY <1>5, <1>6 DEF TargetsInv

LEMMA TargetsStep ==
    ASSUME IInv, TargetsInv, [Next]_vars
    PROVE  TargetsInv'
<1>1. CASE pc' = "fault"
  BY <1>1 DEF TargetsInv, Loops
<1>2. CASE EndOfFile
  <2>1. /\ pc = "read" /\ pc' = "call" /\ n = Len(source)
        /\ UNCHANGED <<source, goto_s, labelled>>
    BY <1>2 DEF EndOfFile
  <2>2. \A t \in Targets(source) : Waiting(t)
    BY <2>1, AllWaiting
  <2>3. (\A t \in Targets(source) : Waiting(t))'
    BY <2>1, <2>2 DEF Waiting
  <2> QED
    BY <2>1, <2>3 DEF TargetsInv
<1>3. CASE Sort /\ pc' # "fault"
  <2>1. /\ pc \in {"call"} \union Loops /\ pc' \in {"call", "link"} \union Loops
        /\ UNCHANGED <<source, goto_s, labelled>>
    BY <1>3 DEF Sort, Partition, PivotIsNull, ScanI, ScanJ, ScanNull, Swap, Crossed, Split,
                Sorted, Fault, Loops, BelowPivot
  <2> QED
    BY <2>1, TargetsKept DEF Loops
<1>4. CASE PopGoto
  <2>1. /\ pc = "link" /\ pc' = "search" /\ goto_s # <<>> /\ target' = goto_s[Len(goto_s)]
        /\ goto_s' = SubSeq(goto_s, 1, Len(goto_s) - 1)
        /\ UNCHANGED <<source, labelled>>
    BY <1>4 DEF PopGoto, stack_is_empty
  <2>2. goto_s \in Seq(Targets(source))
    BY DEF IInv, TypeOK
  <2>3. ASSUME NEW x \in DOMAIN goto_s, x # Len(goto_s)
        PROVE  x \in DOMAIN goto_s' /\ goto_s'[x] = goto_s[x]
    BY <2>1, <2>2, <2>3
  <2>4. \A t : Waiting(t) => Waiting(t)' \/ t = target'
    BY <2>1, <2>3 DEF Waiting
  <2>5. \A t : Marked(t) => Marked(t)'
    BY <2>1 DEF Marked
  <2>6. Targets(source)' = Targets(source)
    BY <2>1
  <2>7. \A t \in Targets(source)' : Waiting(t)' \/ Marked(t)' \/ t = target'
    BY <2>1, <2>4, <2>5, <2>6 DEF TargetsInv
  <2>8. (\A t \in Targets(source) : Waiting(t) \/ Marked(t) \/ t = target)'
    BY <2>7
  <2> QED
    BY <2>1, <2>8 DEF TargetsInv, Loops
<1>5. CASE Probe
  <2>1. PICK s \in Segment : s = [l |-> i, r |-> j]
    BY DEF IInv, TypeOK, Segment
  <2>2. PICK m : m = statements[Mid(s)]
    OBVIOUS
  <2>3. /\ UNCHANGED <<source, goto_s, target>>
        /\ target = Key(Mid(s)) => pc' = "link" /\ labelled' = labelled \union {m}
                                   /\ source[m].num = target
        /\ target # Key(Mid(s)) => pc' = "search" /\ labelled' = labelled
    BY <1>5, <2>1, <2>2, ProbeStep
  <2>4. pc = "search"
    BY <1>5 DEF Probe
  <2>5. CASE target = Key(Mid(s))
    <3>1. \A t : (Waiting(t) => Waiting(t)') /\ (Marked(t) => Marked(t)')
      BY <2>3, <2>5 DEF Waiting, Marked
    <3>2. \A t : t = target => Marked(t)'
      BY <2>3, <2>5 DEF Marked
    <3>3. Targets(source)' = Targets(source)
      BY <2>3
    <3>4. \A t \in Targets(source)' : Waiting(t)' \/ Marked(t)'
      BY <2>4, <3>1, <3>2, <3>3 DEF TargetsInv
    <3>5. (\A t \in Targets(source) : Waiting(t) \/ Marked(t))'
      BY <3>4
    <3> QED
      BY <2>3, <2>5, <3>5 DEF TargetsInv, Loops
  <2>6. CASE target # Key(Mid(s))
    BY <2>3, <2>4, <2>6, TargetsKept DEF Loops
  <2> QED
    BY <2>5, <2>6
<1>6. CASE Linked
  <2>1. /\ pc = "link" /\ pc' = "emit" /\ goto_s = <<>>
        /\ UNCHANGED <<source, goto_s, labelled>>
    BY <1>6 DEF Linked, stack_is_empty
  <2>2. \A t : ~Waiting(t)
    BY <2>1 DEF Waiting
  <2> QED
    BY <2>1, <2>2, TargetsKept DEF Loops
<1>7. CASE Emit \/ Finish
  <2>1. /\ pc = "emit" /\ pc' \in {"emit", "done"}
        /\ UNCHANGED <<source, goto_s, labelled>>
    BY <1>7 DEF Emit, Finish
  <2>2. \A t \in Targets(source) : Marked(t)
    BY <2>1 DEF TargetsInv
  <2> QED
    BY <2>1, <2>2, TargetsKept DEF Loops
<1>8. CASE UNCHANGED vars
  <2>1. UNCHANGED <<source, n, goto_s, labelled, target, pc>>
    BY <1>8 DEF vars
  <2>2. \A t : (Waiting(t)' <=> Waiting(t)) /\ (Marked(t)' <=> Marked(t))
    BY <2>1 DEF Waiting, Marked
  <2> QED
    BY <2>1, <2>2 DEF TargetsInv
<1>9. ReadOverflow \/ ProbeAsserts \/ TargetMissing \/ EmitBare \/ EmitOverflow => pc' = "fault"
  BY DEF ReadOverflow, ProbeAsserts, TargetMissing, EmitBare, EmitOverflow, Fault
<1> QED
  BY <1>1, <1>2, <1>3, <1>4, <1>5, <1>6, <1>7, <1>8, <1>9, TargetsRead
     DEF Next, Read, Link, EmitAll, Exited
-----------------------------------------------------------------------------
(* The text.                                                               *)

\* What Emit appends: the statement last, before it the label if there is one.
LEMMA EmitText ==
    ASSUME IInv, text \in Seq(Emitted), Emit
    PROVE  /\ text' \in Seq(Emitted) /\ Len(text) \in Nat /\ Len(text') \in Nat
           /\ Len(text) < Len(text') /\ DOMAIN text = 1 .. Len(text) /\ DOMAIN text' = 1 .. Len(text')
           /\ \A q \in DOMAIN text : text'[q] = text[q]
           /\ text'[Len(text')] = [op |-> "stmt", node |-> statements[pos]]
           /\ statements[pos] \in labelled =>
                 Len(text') - 1 > Len(text) /\ text'[Len(text') - 1] = LabelOf(pos)
           /\ \A q \in DOMAIN text' : Len(text) < q /\ q # Len(text') =>
                 q + 1 = Len(text') /\ statements[pos] \in labelled /\ text'[q] = LabelOf(pos)
<1>1. pos \in 0 .. n - 1 /\ statements[pos] \in 1 .. n /\ Key(pos) = source[statements[pos]].num
      /\ Key(pos) \in Int
  <2>1. pc = "emit" /\ pos < Capacity /\ statements[pos] # Null
    BY DEF Emit
  <2>2. pos \in Nat /\ n \in Nat /\ n <= Capacity /\ pos \in 0 .. Capacity - 1
    BY <2>1, SourceLines, CapacityAssumption DEF IInv, TypeOK
  <2>3. pos < n
    BY <2>1, <2>2, CapacityAssumption DEF IInv, CellsInv
  <2> QED
    BY <2>1, <2>2, <2>3, KeyType DEF IInv, Null
<1>2. PICK lab \in Emitted : lab = LabelOf(pos)
  BY <1>1 DEF LabelOf, Emitted
<1>3. PICK stm \in Emitted : stm = [op |-> "stmt", node |-> statements[pos]]
  BY <1>1 DEF Emitted
<1>4. text' = text \o LineText(statements[pos])
  BY DEF Emit
<1>5. CASE statements[pos] \in labelled
  <2>1. text' = text \o (<<lab>> \o <<stm>>)
    BY <1>1, <1>2, <1>3, <1>4, <1>5 DEF LineText, LabelText, StmtText, LabelOf
  <2>2. PICK u \in Seq(Emitted) : u = <<lab>> \o <<stm>> /\ Len(u) = 2 /\ u[1] = lab /\ u[2] = stm
    <3>1. /\ <<lab>> \in Seq(Emitted) /\ Len(<<lab>>) = 1 /\ <<lab>>[1] = lab
          /\ <<stm>> \in Seq(Emitted) /\ Len(<<stm>>) = 1 /\ <<stm>>[1] = stm
      OBVIOUS
    <3>2. PICK p \in Seq(Emitted), q \in Seq(Emitted) : p = <<lab>> /\ q = <<stm>>
      BY <3>1
    <3>3. p \o q \in Seq(Emitted) /\ Len(p \o q) = 2 /\ (p \o q)[1] = p[1] /\ (p \o q)[2] = q[1]
      BY <3>1, <3>2
    <3> QED
      BY <3>1, <3>2, <3>3
  <2>3. text' = text \o u
    BY <2>1, <2>2
  <2>4. /\ text' \in Seq(Emitted) /\ Len(text') = Len(text) + 2
        /\ \A q \in DOMAIN text : text'[q] = text[q]
        /\ text'[Len(text) + 1] = lab /\ text'[Len(text) + 2] = stm
    BY <2>2, <2>3
  <2> QED
    BY <1>2, <1>3, <1>5, <2>4
<1>6. CASE statements[pos] \notin labelled
  <2>1. text' = text \o (<<>> \o <<stm>>)
    BY <1>3, <1>4, <1>6 DEF LineText, LabelText, StmtText
  <2>2. <<>> \o <<stm>> = <<stm>>
    OBVIOUS
  <2>3. text' = text \o <<stm>>
    BY <2>1, <2>2
  <2>4. /\ text' \in Seq(Emitted) /\ Len(text') = Len(text) + 1
        /\ \A q \in DOMAIN text : text'[q] = text[q]
        /\ text'[Len(text) + 1] = stm
    BY <2>3
  <2> QED
    BY <1>3, <1>6, <2>4
<1> QED
  BY <1>5, <1>6

LEMMA WrittenOn ==
    ASSUME IInv, TextInv, Emit
    PROVE  \E where \in [0 .. pos' - 1 -> DOMAIN text'] : Written(where)'
<1>1. PICK w \in [0 .. pos - 1 -> DOMAIN text] : Written(w)
  BY DEF TextInv
<1>2. pos \in Nat /\ pos' = pos + 1 /\ UNCHANGED <<source, statements, n, labelled>>
  BY SourceLines DEF Emit, IInv, TypeOK
<1>3. text \in Seq(Emitted)
  BY SMTT(30) DEF TextInv
<1>4. PICK z \in Nat : z = Len(text')
  BY <1>3, EmitText
<1>5. PICK y \in Nat : y = Len(text) /\ y < z /\ DOMAIN text = 1 .. y /\ DOMAIN text' = 1 .. z
  BY <1>3, <1>4, EmitText
<1>6. \A a \in 0 .. pos - 1 : w[a] \in 1 .. y
  BY <1>1, <1>5
<1>7. PICK v \in [0 .. pos' - 1 -> DOMAIN text'] :
         v[pos] = z /\ \A a \in 0 .. pos - 1 : v[a] = w[a] /\ w[a] \in 1 .. y
  <2> DEFINE e == [a \in 0 .. pos |-> IF a = pos THEN z ELSE w[a]]
  <2>1. e \in [0 .. pos' - 1 -> DOMAIN text']
    BY <1>2, <1>5, <1>6
  <2>2. e[pos] = z /\ \A a \in 0 .. pos - 1 : e[a] = w[a] /\ w[a] \in 1 .. y
    BY <1>2, <1>6
  <2> HIDE DEF e
  <2> QED
    BY <2>1, <2>2
<1>8. \A q \in 1 .. y : text'[q] = text[q]
  BY <1>3, <1>5, EmitText
<1>9. \A a : LabelOf(a)' = LabelOf(a)
  BY <1>2 DEF LabelOf, Key
<1>10. \A a \in 0 .. pos : text'[v[a]] = [op |-> "stmt", node |-> statements[a]]
  <2>1. text'[z] = [op |-> "stmt", node |-> statements[pos]]
    BY <1>3, <1>4, EmitText
  <2>2. \A a \in 0 .. pos - 1 : text'[v[a]] = [op |-> "stmt", node |-> statements[a]]
    BY <1>1, <1>6, <1>7, <1>8 DEF Written
  <2>3. \A a \in 0 .. pos : a = pos \/ a \in 0 .. pos - 1
    BY <1>2
  <2> QED
    BY <1>6, <1>7, <2>1, <2>2, <2>3
<1>11. \A a \in 0 .. pos : statements[a] \in labelled =>
          v[a] - 1 \in 1 .. z /\ text'[v[a] - 1] = LabelOf(a)
  <2>1. statements[pos] \in labelled => z - 1 > y /\ text'[z - 1] = LabelOf(pos)
    BY <1>3, <1>4, <1>5, EmitText
  <2>2. ASSUME NEW a \in 0 .. pos - 1, statements[a] \in labelled
        PROVE  v[a] - 1 \in 1 .. z /\ text'[v[a] - 1] = LabelOf(a)
    <3>1. w[a] - 1 \in 1 .. y /\ text[w[a] - 1] = LabelOf(a)
      BY <1>1, <1>5, <2>2 DEF Written
    <3>2. w[a] - 1 \in 1 .. z
      BY <1>5, <1>6, <1>7, <3>1
    <3>3. text'[w[a] - 1] = text[w[a] - 1]
      BY <1>8, <3>1
    <3> QED
      BY <1>6, <1>7, <3>1, <3>2, <3>3
  <2>3. \A a \in 0 .. pos : a = pos \/ a \in 0 .. pos - 1
    BY <1>2
  <2>4. z - 1 > y => z - 1 \in 1 .. z
    BY <1>5
  <2> QED
    BY <1>6, <1>7, <2>1, <2>2, <2>3, <2>4
<1>12. \A a, b \in 0 .. pos : a < b => v[a] < v[b]
  <2> SUFFICES ASSUME NEW a \in 0 .. pos, NEW b \in 0 .. pos, a < b
               PROVE  v[a] < v[b]
    OBVIOUS
  <2>1. \A c, d \in 0 .. pos - 1 : c < d => w[c] < w[d]
    BY <1>1 DEF Written
  <2> QED
    <3>1. CASE b = pos
      BY <1>2, <1>5, <1>7, <3>1
    <3>2. CASE b # pos
      <4>1. a \in 0 .. pos - 1 /\ b \in 0 .. pos - 1
        BY <1>2, <3>2
      <4> QED
        BY <1>7, <2>1, <4>1
    <3> QED
      BY <3>1, <3>2
<1>13. \A q \in 1 .. z : \E a \in 0 .. pos :
          \/ q = v[a]
          \/ q + 1 = v[a] /\ statements[a] \in labelled /\ text'[q] = LabelOf(a)
  <2> SUFFICES ASSUME NEW q \in 1 .. z
               PROVE  \E a \in 0 .. pos :
                          \/ q = v[a]
                          \/ q + 1 = v[a] /\ statements[a] \in labelled /\ text'[q] = LabelOf(a)
    OBVIOUS
  <2>1. CASE q \in 1 .. y
    <3>1. PICK a \in 0 .. pos - 1 :
             \/ q = w[a]
             \/ q + 1 = w[a] /\ statements[a] \in labelled /\ text[q] = LabelOf(a)
      BY <1>1, <1>5, <2>1 DEF Written
    <3>2. v[a] = w[a] /\ text'[q] = text[q] /\ a \in 0 .. pos
      BY <1>2, <1>6, <1>7, <1>8, <2>1
    <3> QED
      BY <3>1, <3>2
  <2>2. CASE y < q /\ q # z
    <3>1. q + 1 = z /\ statements[pos] \in labelled /\ text'[q] = LabelOf(pos)
      BY <1>3, <1>4, <1>5, <2>2, EmitText
    <3>2. pos \in 0 .. pos
      BY <1>2
    <3> QED
      BY <1>6, <1>7, <3>1, <3>2
  <2>3. CASE q = z
    BY <1>2, <1>6, <1>7, <2>3
  <2> QED
    BY <1>5, <2>1, <2>2, <2>3
<1>14. pos' - 1 = pos
  BY <1>2
<1>15. Written(v)'
  BY <1>2, <1>5, <1>9, <1>10, <1>11, <1>12, <1>13, <1>14, Zenon DEF Written
<1> QED
  BY <1>7, <1>15

\* A step that emits nothing, before the walk of start or in it.
LEMMA TextKept ==
    ASSUME IInv, TextInv, UNCHANGED <<text, pos>>, n' \in Nat, n <= n',
           pos = 0 \/ UNCHANGED <<source, statements, labelled>>,
           pos = 0 \/ pc' \in {"emit", "done", "fault"},
           pc' = "done" => pos = n'
    PROVE  TextInv'
<1>1. n \in Nat /\ pos \in Nat
  BY SourceLines DEF IInv, TypeOK
<1>2. text' \in Seq(Emitted)'
  <2>1. Emitted \subseteq Emitted'
    BY <1>1 DEF Emitted
  <2>2. PICK S, T : S = Emitted /\ T = Emitted' /\ S \subseteq T
    BY <2>1
  <2>3. text \in Seq(T)
    BY <2>2 DEF TextInv
  <2>4. Seq(Emitted)' = Seq(T)
    BY <2>2
  <2> QED
    BY <2>3, <2>4
<1>3. \A a \in 0 .. pos - 1 : /\ statements'[a] = statements[a] /\ Key(a)' = Key(a)
                              /\ LabelOf(a)' = LabelOf(a)
                              /\ statements[a] \in labelled <=> statements'[a] \in labelled'
  BY <1>1 DEF Key, LabelOf
<1>4. \E w \in [0 .. pos' - 1 -> DOMAIN text'] : Written(w)'
  <2>1. PICK w \in [0 .. pos - 1 -> DOMAIN text] : Written(w)
    BY DEF TextInv
  <2>2. Written(w)'
    <3>1. \A a \in 0 .. pos - 1 : text[w[a]] = [op |-> "stmt", node |-> statements'[a]]
      BY <1>3, <2>1 DEF Written
    <3>2. \A a \in 0 .. pos - 1 : statements'[a] \in labelled' =>
              w[a] - 1 \in DOMAIN text /\ text[w[a] - 1] = LabelOf(a)'
      BY <1>3, <2>1, Zenon DEF Written
    <3>3. \A a, b \in 0 .. pos - 1 : a < b => w[a] < w[b]
      BY <2>1 DEF Written
    <3>4. \A q \in DOMAIN text : \E a \in 0 .. pos - 1 :
              \/ q = w[a]
              \/ q + 1 = w[a] /\ statements'[a] \in labelled' /\ text[q] = LabelOf(a)'
      <4> TAKE q \in DOMAIN text
      <4>1. PICK a \in 0 .. pos - 1 :
               \/ q = w[a]
               \/ q + 1 = w[a] /\ statements[a] \in labelled /\ text[q] = LabelOf(a)
        BY <2>1, Zenon DEF Written
      <4> QED
        BY <1>3, <4>1, Zenon
    <3> QED
      BY <3>1, <3>2, <3>3, <3>4, Zenon DEF Written
  <2> QED
    BY <2>1, <2>2
<1>5. \A a, b \in 0 .. pos - 1 : a < b => Key(a)' <= Key(b)'
  BY <1>3, Zenon DEF TextInv
<1>6. \A a \in 0 .. pos - 1 : statements'[a] # Null
  BY <1>3, Zenon DEF TextInv
<1> QED
  BY <1>2, <1>4, <1>5, <1>6, Zenon DEF TextInv

LEMMA TextStep ==
    ASSUME IInv, FilledInv, TextInv, [Next]_vars
    PROVE  TextInv'
<1>1. n \in Nat /\ n <= Capacity /\ pos \in 0 .. n
  BY SourceLines DEF IInv, TypeOK
<1>2. CASE Read \/ Sort \/ Link
  <2>1. pc \notin {"emit", "done", "fault"} /\ pc' # "done" /\ UNCHANGED <<text, pos>>
    <3>1. CASE Probe
      BY <3>1 DEF Probe, AboveMid, BelowMid, Found, emitVars
    <3> QED
      BY <1>2, <3>1 DEF Read, ReadLine, ReadOverflow, EndOfFile, Sort, Partition, PivotIsNull,
                  ScanI, ScanJ, ScanNull, Swap, Crossed, Split, Sorted, Link, PopGoto,
                  ProbeAsserts, TargetMissing, Linked, Fault, Loops, emitVars, Pushed, BelowPivot
  <2>2. n' = n + 1 \/ n' = n
    BY <1>2 DEF Read, ReadLine, ReadOverflow, EndOfFile, Sort, Partition, PivotIsNull,
                ScanI, ScanJ, ScanNull, Swap, Crossed, Split, Sorted, Link, PopGoto,
                Probe, ProbeAsserts, TargetMissing, Linked, Fault
  <2>3. pos = 0 /\ n' \in Nat /\ n <= n'
    BY <1>1, <2>1, <2>2 DEF TextInv
  <2> QED
    BY <2>1, <2>3, TextKept
<1>3. CASE Emit
  <2>1. /\ pc = "emit" /\ pc' = "emit" /\ pos' = pos + 1 /\ statements[pos] # Null
        /\ pos < Capacity /\ UNCHANGED <<source, statements, n, labelled>>
    BY <1>3 DEF Emit
  <2>2. pos < n
    BY <1>1, <2>1, CapacityAssumption DEF IInv, CellsInv
  <2>3. text' \in Seq(Emitted)'
    <3>1. text' \in Seq(Emitted)
      BY <1>3, EmitText DEF TextInv
    <3> QED
      BY <2>1, <3>1 DEF Emitted
  <2>4. \E w \in [0 .. pos' - 1 -> DOMAIN text'] : Written(w)'
    BY <1>3, WrittenOn
  <2>5. pos' - 1 = pos /\ \A a \in 0 .. pos : a \in 0 .. n - 1 /\ (a = pos \/ a \in 0 .. pos - 1)
    BY <1>1, <2>1, <2>2
  <2>6. \A a, b \in 0 .. pos' - 1 : a < b => Key(a)' <= Key(b)'
    BY <2>1, <2>5 DEF IInv, SortedByNumber, Key
  <2>7. \A a \in 0 .. pos' - 1 : statements'[a] # Null
    BY <2>1, <2>5 DEF TextInv
  <2>8. pc' # "done" /\ pc' \in {"emit", "done", "fault"}
    BY <2>1
  <2> QED
    BY <2>3, <2>4, <2>6, <2>7, <2>8, Zenon DEF TextInv
<1>4. CASE EmitBare \/ EmitOverflow
  <2>1. pc' = "fault" /\ UNCHANGED <<source, statements, n, labelled, pos, text>>
    BY <1>4 DEF EmitBare, EmitOverflow, Fault
  <2> QED
    BY <1>1, <2>1, TextKept
<1>5. CASE Finish
  <2>1. /\ pc = "emit" /\ pc' = "done" /\ statements[pos] = Null
        /\ UNCHANGED <<source, statements, n, labelled, pos, text>>
    BY <1>5 DEF Finish, emitVars
  <2>2. pos = n
    BY <1>1, <2>1 DEF FilledInv
  <2> QED
    BY <1>1, <2>1, <2>2, TextKept
<1>6. CASE UNCHANGED vars
  <2>1. UNCHANGED <<source, statements, n, labelled, pos, text, pc>>
    BY <1>6 DEF vars
  <2>2. (pos = 0 \/ pc' \in {"emit", "done", "fault"}) /\ (pc' = "done" => pos = n)
    BY <2>1 DEF TextInv
  <2> QED
    BY <1>1, <2>1, <2>2, TextKept
<1> QED
  BY <1>2, <1>3, <1>4, <1>5, <1>6 DEF Next, EmitAll, Exited

-----------------------------------------------------------------------------
(* The theorems.                                                           *)

LEMMA InitListing == Init => ListingInv
<1> SUFFICES ASSUME Init PROVE ListingInv
  OBVIOUS
<1>1. FilledInv /\ TargetsInv /\ MarksInv /\ NamedInv
  BY DEF Init, FilledInv, TargetsInv, MarksInv, NamedInv, Loops
<1>2. TextInv
  <2>1. text = <<>> /\ pos = 0 /\ pc = "read"
    BY DEF Init
  <2>2. text \in Seq(Emitted) /\ DOMAIN text = {}
    BY <2>1
  <2>3. \A a : a \notin 0 .. pos - 1
    BY <2>1
  <2>4. \E w \in [0 .. pos - 1 -> DOMAIN text] : Written(w)
    <3> DEFINE w == [a \in 0 .. pos - 1 |-> a]
    <3>1. w \in [0 .. pos - 1 -> DOMAIN text]
      BY <2>3
    <3>2. Written(w)
      BY <2>2, <2>3 DEF Written
    <3> QED
      BY <3>1, <3>2
  <2> QED
    BY <2>1, <2>2, <2>3, <2>4 DEF TextInv
<1> QED
  BY <1>1, <1>2, InitInvariant DEF ListingInv

LEMMA NextListing ==
    ASSUME ListingInv, [Next]_vars
    PROVE  ListingInv'
<1>1. IInv'
  BY NextInvariant DEF ListingInv
<1> QED
  BY <1>1, FilledStep, TargetsStep, MarksStep, NamedStep, TextStep DEF ListingInv

\* What the driver knows at every step: the order IInv keeps, that no line is
\* left out, where each target stands, which line is marked for it, and what
\* the text holds so far.
THEOREM ListingInvariant == Spec => []ListingInv
BY InitListing, NextListing, PTL DEF Spec

\* A cell the walk has passed holds a line, whose number is the cell's key.
LEMMA PassedCell ==
    ASSUME ListingInv, NEW a \in 0 .. pos - 1
    PROVE  /\ a \in 0 .. n - 1 /\ statements[a] \in 1 .. n
           /\ source[statements[a]].num = Key(a) /\ Key(a) \in Int
<1>1. n \in Nat /\ n <= Capacity /\ pos \in 0 .. n
  BY SourceLines DEF ListingInv, IInv, TypeOK
<1>2. a \in 0 .. n - 1 /\ a \in 0 .. Capacity - 1
  BY <1>1, CapacityAssumption
<1>3. statements[a] # Null
  BY DEF ListingInv, TextInv
<1>4. statements[a] \in 0 .. n
  BY <1>2, KeyType DEF ListingInv, IInv
<1> QED
  BY <1>1, <1>2, <1>3, <1>4, KeyType DEF ListingInv, IInv, Null

\* The places of the text, sorted by what is at them.
LEMMA TextPlaces ==
    ASSUME ListingInv, NEW w \in [0 .. pos - 1 -> DOMAIN text], Written(w)
    PROVE  /\ \A a \in 0 .. pos - 1 :
                 w[a] \in Nat /\ text[w[a]].op = "stmt" /\ text[w[a]].node = statements[a]
           /\ \A q \in DOMAIN text :
                 \/ text[q].op = "stmt" /\ \E a \in 0 .. pos - 1 : q = w[a]
                 \/ /\ text[q].op # "stmt" /\ q \in Nat
                    /\ \E a \in 0 .. pos - 1 : /\ q + 1 = w[a] /\ statements[a] \in labelled
                                               /\ text[q].num = source[statements[a]].num
           /\ \A a \in 0 .. pos - 1 : statements[a] \in labelled =>
                 /\ w[a] - 1 \in DOMAIN text /\ text[w[a] - 1].op # "stmt"
                 /\ text[w[a] - 1].num = source[statements[a]].num
<1>1. DOMAIN text \subseteq Nat
  BY DEF ListingInv, TextInv
<1>2. \A a \in 0 .. pos - 1 : /\ LabelOf(a).op # "stmt"
                              /\ LabelOf(a).num = source[statements[a]].num
  BY PassedCell DEF LabelOf
<1>3. \A a \in 0 .. pos - 1 :
         w[a] \in Nat /\ text[w[a]].op = "stmt" /\ text[w[a]].node = statements[a]
  <2> TAKE a \in 0 .. pos - 1
  <2>1. text[w[a]] = [op |-> "stmt", node |-> statements[a]]
    BY DEF Written
  <2>2. w[a] \in DOMAIN text
    OBVIOUS
  <2> QED
    BY <1>1, <2>1, <2>2
<1>4. ASSUME NEW q \in DOMAIN text
      PROVE  \/ text[q].op = "stmt" /\ \E a \in 0 .. pos - 1 : q = w[a]
             \/ /\ text[q].op # "stmt" /\ q \in Nat
                /\ \E a \in 0 .. pos - 1 : /\ q + 1 = w[a] /\ statements[a] \in labelled
                                           /\ text[q].num = source[statements[a]].num
  <2>1. PICK a \in 0 .. pos - 1 :
           \/ q = w[a]
           \/ q + 1 = w[a] /\ statements[a] \in labelled /\ text[q] = LabelOf(a)
    BY DEF Written
  <2>2. CASE q = w[a]
    BY <1>3, <2>2
  <2>3. CASE q + 1 = w[a] /\ statements[a] \in labelled /\ text[q] = LabelOf(a)
    <3>1. text[q].op # "stmt" /\ text[q].num = source[statements[a]].num
      BY <1>2, <2>3
    <3>2. q \in Nat
      BY <1>1
    <3> QED
      BY <2>3, <3>1, <3>2, Zenon
  <2> QED
    BY <2>1, <2>2, <2>3
<1>5. ASSUME NEW a \in 0 .. pos - 1, statements[a] \in labelled
      PROVE  /\ w[a] - 1 \in DOMAIN text /\ text[w[a] - 1].op # "stmt"
             /\ text[w[a] - 1].num = source[statements[a]].num
  <2>1. w[a] - 1 \in DOMAIN text /\ text[w[a] - 1] = LabelOf(a)
    BY <1>5 DEF Written
  <2> QED
    BY <1>2, <2>1
<1> QED
  BY <1>3, <1>4, <1>5

\* Two marked lines never have the same number.
LEMMA MarkedOnce ==
    ASSUME ListingInv, pc \in {"link", "search", "emit", "done"},
           NEW m \in labelled, NEW k \in labelled, source[m].num = source[k].num
    PROVE  m = k
<1>1. Finds(source[m].num, m) /\ Finds(source[m].num, k) /\ n \in Nat
  <2>1. Finds(source[m].num, m) /\ Finds(source[k].num, k)
    BY DEF ListingInv, MarksInv
  <2>2. n \in Nat
    BY SourceLines DEF ListingInv, IInv, TypeOK
  <2> QED
    BY <2>1, <2>2
<1>2. PICK t : t = source[m].num
  OBVIOUS
<1> QED
  BY <1>1, <1>2, FindsOnce

\* At the end every line has been read, kept and emitted.
LEMMA AllEmitted ==
    ASSUME ListingInv, pc = "done", NEW k \in 1 .. n
    PROVE  \E a \in 0 .. pos - 1 : statements[a] = k
<1>1. pos = n /\ \A a \in 0 .. n - 1 : statements[a] # Null
  BY DEF ListingInv, TextInv
<1>2. source[k].kind # "null"
  BY <1>1 DEF ListingInv, FilledInv
<1> QED
  BY <1>1, <1>2 DEF ListingInv, IInv, CellsInv, EveryLineOnce

LEMMA ListingText ==
    ASSUME ListingInv
    PROVE  TextIsTheProgram
<1> DEFINE stmts == { q \in DOMAIN text : text[q].op = "stmt" }
           labels == DOMAIN text \ stmts
<1>1. PICK w \in [0 .. pos - 1 -> DOMAIN text] : Written(w)
  BY DEF ListingInv, TextInv
<1>2. \A a, b \in 0 .. n - 1 : a # b /\ statements[a] # Null => statements[a] # statements[b]
  BY DEF ListingInv, IInv, CellsInv, EveryLineOnce
<1>3. \A q \in stmts : \E a \in 0 .. pos - 1 : q = w[a] /\ text[q].node = statements[a]
  <2> TAKE q \in stmts
  <2>1. q \in DOMAIN text /\ text[q].op = "stmt"
    OBVIOUS
  <2>2. PICK a \in 0 .. pos - 1 : q = w[a]
    BY <1>1, <2>1, TextPlaces
  <2>3. text[w[a]].node = statements[a]
    BY <1>1, TextPlaces
  <2> QED
    BY <2>2, <2>3
<1>4. \A q \in labels : /\ q \in Nat
                        /\ \E a \in 0 .. pos - 1 : /\ q + 1 = w[a] /\ statements[a] \in labelled
                                                   /\ text[q].num = source[statements[a]].num
  BY <1>1, TextPlaces
<1>5. \A a \in 0 .. pos - 1 : w[a] \in stmts /\ w[a] \in Nat /\ text[w[a]].node = statements[a]
  BY <1>1, TextPlaces
<1>6. \A a \in 0 .. pos - 1 : statements[a] \in labelled =>
         w[a] - 1 \in labels /\ text[w[a] - 1].num = source[statements[a]].num
  BY <1>1, TextPlaces
<1> HIDE DEF stmts, labels
<1>7. ASSUME NEW p \in stmts, NEW q \in stmts, p < q
      PROVE  /\ source[text[p].node].num <= source[text[q].node].num
             /\ text[p].node # text[q].node
  <2>1. PICK a \in 0 .. pos - 1 : p = w[a] /\ text[p].node = statements[a]
    BY <1>3
  <2>2. PICK b \in 0 .. pos - 1 : q = w[b] /\ text[q].node = statements[b]
    BY <1>3
  <2>3. a < b
    <3>1. b < a => w[b] < w[a]
      BY <1>1 DEF Written
    <3>2. w[a] \in Nat /\ w[b] \in Nat /\ w[a] < w[b]
      BY <1>5, <1>7, <2>1, <2>2
    <3>3. a \in Int /\ b \in Int /\ a # b
      BY <3>2
    <3> QED
      BY <3>1, <3>2, <3>3
  <2>4. Key(a) <= Key(b)
    BY <2>3 DEF ListingInv, TextInv
  <2>5. a \in 0 .. n - 1 /\ b \in 0 .. n - 1 /\ statements[a] # Null /\ a # b
    BY <2>3, PassedCell DEF Null
  <2>6. Key(a) = source[statements[a]].num /\ Key(b) = source[statements[b]].num
    BY PassedCell
  <2> QED
    BY <1>2, <2>1, <2>2, <2>4, <2>5, <2>6
<1>8. ASSUME pc = "done", NEW p \in labels
      PROVE  /\ text[p].num \in Targets(source)
             /\ p + 1 \in stmts /\ source[text[p + 1].node].num = text[p].num
  BY <1>4, <1>5 DEF ListingInv, NamedInv
<1>9. ASSUME pc = "done", NEW k \in 1 .. n
      PROVE  \E q \in stmts : text[q].node = k
  BY <1>5, <1>9, AllEmitted
<1>10. ASSUME pc = "done", NEW t \in Targets(source)
       PROVE  \E p \in labels : /\ text[p].num = t
                                /\ \A q \in labels : text[q].num = t => q = p
  <2>1. PICK m \in labelled : source[m].num = t
    BY <1>10 DEF ListingInv, TargetsInv, Marked
  <2>2. m \in 1 .. n
    BY DEF ListingInv, IInv, TypeOK
  <2>3. PICK a \in 0 .. pos - 1 : statements[a] = m
    BY <1>10, <2>2, AllEmitted
  <2>4. w[a] - 1 \in labels /\ text[w[a] - 1].num = t
    BY <1>6, <2>1, <2>3
  <2>5. ASSUME NEW q \in labels, text[q].num = t PROVE q = w[a] - 1
    <3>1. PICK b \in 0 .. pos - 1 : /\ q + 1 = w[b] /\ statements[b] \in labelled
                                    /\ text[q].num = source[statements[b]].num
      BY <1>4
    <3>2. statements[b] = m
      BY <1>10, <2>1, <2>5, <3>1, MarkedOnce
    <3>3. a \in 0 .. n - 1 /\ b \in 0 .. n - 1 /\ statements[a] # Null
      BY PassedCell DEF Null
    <3>4. a = b
      BY <1>2, <2>3, <3>2, <3>3
    <3>5. q \in Nat /\ w[a] \in Nat
      BY <1>4, <1>5
    <3> QED
      BY <3>1, <3>4, <3>5
  <2> QED
    BY <2>4, <2>5
<1> QED
  BY <1>7, <1>8, <1>9, <1>10, Zenon DEF TextIsTheProgram, stmts, labels

\* What start emits is the program: whatever its length, the number of its
\* jumps and the repetitions among its line numbers, the finished text has
\* every line once, in line-number order, and one label for each target and
\* for nothing else, directly before the line the search found.
THEOREM TextIsRight == Spec => []TextIsTheProgram
BY ListingInvariant, ListingText, PTL

-----------------------------------------------------------------------------
(* The refinement: the phase, the order and the marks of Listing.          *)

Order == IF ListingPhase \in {"linking", "complete"}
           THEN [a \in 1 .. n |-> statements[a - 1]] ELSE <<>>

\* Instantiating Listing leaves the program's own vocabulary as it is.
LEMMA SameWords ==
    /\ Promise!Targets(source) = Targets(source)
    /\ Promise!WellFormed(source) <=> WellFormed(source)
    /\ Promise!listVars = <<source, Order, labelled, ListingPhase>>
BY DEF Promise!Targets, Targets, Promise!WellFormed, WellFormed, Promise!HasLine, HasLine,
       Promise!listVars, Order

\* A step that shows nothing: same phase, same marks, and the same cells if
\* the order is on show.
LEMMA Hidden ==
    ASSUME UNCHANGED <<source, labelled>>, ListingPhase' = ListingPhase,
           ListingPhase \in {"linking", "complete"} => UNCHANGED <<statements, n>>
    PROVE  UNCHANGED Promise!listVars
<1>1. Order' = Order
  BY DEF Order
<1> QED
  BY <1>1, SameWords DEF Order, Promise!listVars

\* The sorted cells are an order of the lines of the program.
LEMMA CellsAreAnOrder ==
    ASSUME IInv, FilledInv, pc \in {"link", "search", "emit", "done"}
    PROVE  Promise!SortedOrder(source, [a \in 1 .. n |-> statements[a - 1]])
<1> DEFINE o == [a \in 1 .. n |-> statements[a - 1]]
<1>1. n \in Nat /\ n <= Capacity /\ n = Len(source) /\ DOMAIN source = 1 .. n
  BY SourceLines DEF IInv, TypeOK, CellsInv
<1>2. \A a \in 1 .. n : a - 1 \in 0 .. n - 1 /\ a - 1 \in 0 .. Capacity - 1 /\ o[a] = statements[a - 1]
  BY <1>1, CapacityAssumption
<1>3. DOMAIN o = 1 .. n
  OBVIOUS
<1> HIDE DEF o
<1>4. \A a \in 0 .. n - 1 : statements[a] # Null
  BY DEF FilledInv
<1>5. ASSUME NEW k \in 1 .. n PROVE \E a \in 1 .. n : o[a] = k
  <2>1. source[k].kind # "null"
    BY <1>4 DEF FilledInv
  <2>2. PICK a \in 0 .. n - 1 : statements[a] = k
    BY <2>1 DEF IInv, CellsInv, EveryLineOnce
  <2>3. a + 1 \in 1 .. n /\ (a + 1) - 1 = a
    BY <1>1
  <2>4. o[a + 1] = k
    BY <1>2, <2>2, <2>3
  <2> QED
    BY <2>3, <2>4
<1>6. ASSUME NEW a \in 1 .. n, NEW b \in 1 .. n, a < b
      PROVE  source[o[a]].num <= source[o[b]].num
  <2>1. a - 1 \in 0 .. n - 1 /\ b - 1 \in 0 .. n - 1 /\ a - 1 < b - 1
    BY <1>1, <1>6
  <2>2. Key(a - 1) <= Key(b - 1)
    BY <2>1 DEF IInv, SortedByNumber
  <2>3. Key(a - 1) = source[statements[a - 1]].num /\ Key(b - 1) = source[statements[b - 1]].num
    BY <1>2, <1>4, <2>1 DEF Key
  <2> QED
    BY <1>2, <2>2, <2>3
<1> QED
  BY <1>1, <1>3, <1>5, <1>6 DEF Promise!SortedOrder, o

\* What Listing sees of the invariant.
ListingFacts ==
    /\ pc \in {"link", "search", "emit", "done"} =>
          /\ Promise!SortedOrder(source, [a \in 1 .. n |-> statements[a - 1]])
          /\ \A m, k \in labelled : source[m].num = source[k].num => m = k
    /\ WellFormedNeverFaults

LEMMA ListingShown == ListingInv => ListingFacts
  BY CellsAreAnOrder, MarkedOnce, WellFormedNoFault DEF ListingInv, ListingFacts

LEMMA SortedArranges ==
    ASSUME ListingFacts', Sorted
    PROVE  Promise!Arrange
<1>1. pc = "call" /\ pc' = "link" /\ UNCHANGED <<source, labelled>>
  BY DEF Sorted
<1>2. ListingPhase = "loading" /\ ListingPhase' = "linking"
  BY <1>1 DEF ListingPhase
<1>3. Promise!SortedOrder(source, [a \in 1 .. n |-> statements[a - 1]])'
  BY <1>1 DEF ListingFacts
<1>4. Order' = [a \in 1 .. n |-> statements[a - 1]]'
  BY <1>2 DEF Order
<1>5. Promise!SortedOrder(source, Order')
  BY <1>1, <1>3, <1>4
<1> QED
  BY <1>1, <1>2, <1>5 DEF Promise!Arrange, Order

\* A probe that meets the target marks a line for it, unless the same search
\* was made before: then it marks the line it marked the first time.
LEMMA ProbeMarks ==
    ASSUME ListingInv, ListingFacts', Probe
    PROVE  \/ \E t \in Promise!Targets(source) : Promise!MarkTarget(t)
           \/ UNCHANGED Promise!listVars
<1>1. PICK s \in Segment : s = [l |-> i, r |-> j]
  BY DEF ListingInv, IInv, TypeOK, Segment
<1>2. PICK m : m = statements[Mid(s)]
  OBVIOUS
<1>3. /\ UNCHANGED <<source, statements, n, target>>
      /\ m \in DOMAIN source
      /\ target = Key(Mid(s)) => pc' = "link" /\ labelled' = labelled \union {m}
                                 /\ source[m].num = target
      /\ target # Key(Mid(s)) => pc' = "search" /\ labelled' = labelled
  BY <1>1, <1>2, ProbeStep DEF ListingInv
<1>4. pc = "search"
  BY DEF Probe
<1>5. ListingPhase = "linking" /\ ListingPhase' = "linking"
  BY <1>3, <1>4 DEF ListingPhase
<1>6. target \in Targets(source)
  BY <1>4 DEF ListingInv, IInv, SearchInv
<1>7. Order' = Order
  BY <1>3, <1>5 DEF Order
<1>8. CASE labelled' = labelled
  BY <1>3, <1>5, <1>8, Hidden
<1>9. CASE labelled' # labelled
  <2>1. labelled' = labelled \union {m} /\ source[m].num = target /\ m \notin labelled /\ pc' = "link"
    BY <1>3, <1>9
  <2>2. ASSUME NEW k \in labelled, source[k].num = target PROVE FALSE
    <3>1. k \in labelled' /\ m \in labelled' /\ source'[k].num = source'[m].num
      BY <1>3, <2>1, <2>2
    <3>2. k = m
      BY <2>1, <3>1 DEF ListingFacts
    <3> QED
      BY <2>1, <3>2
  <2>3. Promise!MarkTarget(target)
    BY <1>3, <1>5, <1>7, <2>1, <2>2 DEF Promise!MarkTarget, Order
  <2> QED
    BY <1>6, <2>3, SameWords
<1> QED
  BY <1>8, <1>9

LEMMA FinishCompletes ==
    ASSUME ListingInv, Finish
    PROVE  Promise!Complete
<1>1. pc = "emit" /\ pc' = "done" /\ UNCHANGED <<source, labelled, statements, n>>
  BY DEF Finish
<1>2. ListingPhase = "linking" /\ ListingPhase' = "complete"
  BY <1>1 DEF ListingPhase
<1>3. Order' = Order
  BY <1>1, <1>2 DEF Order
<1>4. \A t \in Targets(source) : \E m \in labelled : source[m].num = t
  BY <1>1 DEF ListingInv, TargetsInv, Marked
<1> QED
  BY <1>1, <1>2, <1>3, <1>4, SameWords DEF Promise!Complete, Order

LEMMA FaultFails ==
    ASSUME ListingFacts', pc # "fault", pc' = "fault", UNCHANGED <<source, labelled>>
    PROVE  Promise!Fail
<1>1. ListingPhase # "failed" /\ ListingPhase' = "failed"
  BY DEF ListingPhase
<1>2. Order' = <<>>
  BY <1>1 DEF Order
<1>3. ~WellFormed(source)
  <2>1. WellFormedNeverFaults'
    BY DEF ListingFacts
  <2>2. WellFormed(source)' <=> WellFormed(source)
    BY DEF WellFormed, Targets, HasLine
  <2> QED
    BY <2>1, <2>2 DEF WellFormedNeverFaults
<1> QED
  BY <1>1, <1>2, <1>3, SameWords DEF Promise!Fail, Order

\* Every step of the driver is a step of Listing, or hidden from it.
LEMMA StepRefines ==
    ASSUME ListingInv, ListingFacts', [Next]_vars
    PROVE  [Promise!Next]_(Promise!listVars)
<1>1. CASE pc' = "fault" /\ pc # "fault"
  <2>1. UNCHANGED <<source, labelled>>
    <3>1. CASE Probe
      BY <1>1, <3>1 DEF Probe
    <3>2. CASE UNCHANGED vars
      BY <3>2 DEF vars
    <3> QED
      BY <1>1, <3>1, <3>2
         DEF Next, Exited, Read, ReadLine, ReadOverflow, EndOfFile, Sort, Partition,
             PivotIsNull, ScanI, ScanJ, ScanNull, Swap, Crossed, Split, Sorted, Link, PopGoto,
             ProbeAsserts, TargetMissing, Linked, EmitAll, Emit, EmitBare, EmitOverflow,
             Finish, Fault
  <2> QED
    BY <1>1, <2>1, FaultFails DEF Promise!Next
<1>2. CASE UNCHANGED vars
  <2>1. UNCHANGED <<source, labelled, pc, statements, n>>
    BY <1>2 DEF vars
  <2> QED
    BY <2>1, Hidden DEF ListingPhase
<1>3. CASE Sorted
  BY <1>3, SortedArranges DEF Promise!Next
<1>4. CASE Probe
  BY <1>4, ProbeMarks DEF Promise!Next
<1>5. CASE Finish
  BY <1>5, FinishCompletes DEF Promise!Next
<1>6. CASE PopGoto \/ Linked \/ Emit
  <2>1. /\ pc \in {"link", "emit"} /\ pc' \in {"search", "emit"}
        /\ UNCHANGED <<source, labelled, statements, n>>
    BY <1>6 DEF PopGoto, Linked, Emit
  <2>2. ListingPhase' = ListingPhase
    BY <2>1 DEF ListingPhase
  <2> QED
    BY <2>1, <2>2, Hidden
<1>7. CASE /\ pc' # "fault"
           /\ \/ ReadLine \/ EndOfFile \/ Partition \/ ScanI \/ ScanJ \/ Swap \/ Crossed
              \/ Split
  <2>1. /\ pc \in {"read", "call"} \union Loops /\ pc' \in {"read", "call"} \union Loops
        /\ UNCHANGED <<source, labelled>>
    BY <1>7 DEF ReadLine, EndOfFile, Partition, ScanI, ScanJ, Swap, Crossed, Split, Loops,
                Pushed, BelowPivot
  <2>2. ListingPhase' = ListingPhase /\ ListingPhase = "loading"
    BY <2>1 DEF ListingPhase, Loops
  <2> QED
    BY <2>1, <2>2, Hidden
<1>8. ReadLine \/ EndOfFile \/ Partition \/ ScanI \/ ScanJ \/ Swap \/ Crossed \/ Split
        => pc' # "fault"
  BY DEF ReadLine, EndOfFile, Partition, ScanI, ScanJ, Swap, Crossed, Split, Pushed
<1>9. ReadOverflow \/ PivotIsNull \/ ScanNull \/ ProbeAsserts \/ TargetMissing \/ EmitBare
        \/ EmitOverflow => pc' = "fault" /\ pc # "fault"
  BY DEF ReadOverflow, PivotIsNull, ScanNull, ProbeAsserts, TargetMissing, EmitBare,
         EmitOverflow, Fault
<1> QED
  BY <1>1, <1>2, <1>3, <1>4, <1>5, <1>6, <1>7, <1>8, <1>9
     DEF Next, Exited, Read, Sort, Link, EmitAll

\* The array, the quicksort and the binary searches together do what Listing
\* says in one line each: the lines are put in order in one step, each target
\* is marked once, and nothing is delivered that is not complete.
THEOREM Refinement == Spec => ImplementsListing
<1>1. Init => Promise!Init
  <2> SUFFICES ASSUME Init PROVE Promise!Init
    OBVIOUS
  <2>1. ListingPhase = "loading"
    BY DEF Init, ListingPhase
  <2> QED
    BY <2>1 DEF Init, Promise!Init
<1>2. ListingInv /\ ListingFacts' /\ [Next]_vars => [Promise!Next]_(Promise!listVars)
  BY StepRefines
<1> QED
  BY <1>1, <1>2, ListingInvariant, ListingShown, PTL DEF Spec, ImplementsListing, Promise!Spec
=============================================================================
