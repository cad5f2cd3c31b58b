--------------------------- MODULE Execution_proofs ---------------------------
(* Proofs about Statements and Execution, for every set of programs.       *)
EXTENDS Execution, FiniteSetTheorems, SequenceTheorems, Induction, TLAPS

-----------------------------------------------------------------------------
(* The text of a program.                                                  *)

\* The recursion that defines Text, as a condition on f.
Joins(f, p, n) == f = [k \in 0 .. n |-> IF k = 0 THEN <<>> ELSE f[k - 1] \o Leaves(p[k])]

LEMMA JoinsSteps ==
    ASSUME NEW f, NEW p, NEW n \in Nat, Joins(f, p, n)
    PROVE  /\ f[0] = <<>>
           /\ \A k \in 0 .. n : k + 1 <= n => f[k + 1] = f[k] \o Leaves(p[k + 1])
<1>1. \A k \in 0 .. n : f[k] = IF k = 0 THEN <<>> ELSE f[k - 1] \o Leaves(p[k])
  BY DEF Joins
<1>2. ASSUME NEW k \in 0 .. n, k + 1 <= n
      PROVE  f[k + 1] = f[k] \o Leaves(p[k + 1])
  <2>1. k + 1 \in 0 .. n /\ k + 1 # 0 /\ (k + 1) - 1 = k
    BY <1>2
  <2>2. f[k + 1] = f[(k + 1) - 1] \o Leaves(p[k + 1])
    BY <1>1, <2>1, Zenon
  <2> QED
    BY <2>1, <2>2, Zenon
<1>3. f[0] = <<>>
  <2>1. 0 \in 0 .. n
    OBVIOUS
  <2> QED
    BY <1>1, <2>1, Zenon
<1> QED
  BY <1>2, <1>3, Zenon

\* Such an f exists ...
LEMMA JoinsExist ==
    ASSUME NEW p, NEW n \in Nat
    PROVE  \E f : Joins(f, p, n)
<1> DEFINE N == { m \in Nat : \E f : Joins(f, p, m) }
<1>1. 0 \in N
  <2>1. PICK f : f = [k \in 0 .. 0 |-> <<>>]
    OBVIOUS
  <2>2. Joins(f, p, 0)
    BY <2>1 DEF Joins
  <2> QED
    BY <2>2
<1>2. ASSUME NEW m \in N
      PROVE  m + 1 \in N
  <2>1. PICK f : Joins(f, p, m)
    BY <1>2
  <2>2. PICK g : g = [k \in 0 .. m + 1 |-> IF k <= m THEN f[k] ELSE f[m] \o Leaves(p[k])]
    OBVIOUS
  <2>3. ASSUME NEW k \in 0 .. m + 1
        PROVE  g[k] = IF k = 0 THEN <<>> ELSE g[k - 1] \o Leaves(p[k])
    <3>1. CASE k = 0
      BY <2>1, <2>2, <3>1, JoinsSteps
    <3>2. CASE k # 0 /\ k <= m
      <4>1. k \in 0 .. m /\ k - 1 \in 0 .. m /\ (k - 1) + 1 = k
        BY <3>2
      <4>2. f[k] = IF k = 0 THEN <<>> ELSE f[k - 1] \o Leaves(p[k])
        BY <2>1, <4>1, Zenon DEF Joins
      <4>3. g[k] = f[k] /\ g[k - 1] = f[k - 1]
        BY <2>2, <3>2, <4>1
      <4> QED
        BY <4>2, <4>3, Zenon
    <3>3. CASE k = m + 1
      <4>1. k \in 0 .. m + 1 /\ k - 1 = m /\ m \in 0 .. m + 1 /\ ~(k <= m)
        BY <3>3
      <4>2. g[k] = f[m] \o Leaves(p[k]) /\ g[m] = f[m]
        BY <2>2, <4>1
      <4>3. k # 0
        BY <3>3
      <4> QED
        BY <4>1, <4>2, <4>3, Zenon
    <3> QED
      BY <3>1, <3>2, <3>3
  <2>4. Joins(g, p, m + 1)
    BY <2>2, <2>3 DEF Joins
  <2> QED
    BY <2>4
<1> HIDE DEF N
<1>3. N = Nat
  BY <1>1, <1>2, InductiveSet DEF N
<1> QED
  BY <1>3 DEF N

\* ... and Text is its last value.
LEMMA TextJoins ==
    ASSUME NEW p \in Seq(Statement)
    PROVE  \E f : Joins(f, p, Len(p)) /\ Text(p) = f[Len(p)]
<1>1. PICK g : Joins(g, p, Len(p))
  BY JoinsExist
<1> DEFINE f == CHOOSE f : f = [k \in 0 .. Len(p) |-> IF k = 0 THEN <<>> ELSE f[k - 1] \o Leaves(p[k])]
<1>2. Joins(f, p, Len(p))
  BY <1>1 DEF Joins
<1>3. Text(p) = f[Len(p)]
  BY DEF Text
<1> QED
  BY <1>2, <1>3

\* The text of the first lines is the value of f at their number.
LEMMA TextOfPrefix ==
    ASSUME NEW p \in Seq(Statement), NEW f, Joins(f, p, Len(p)), NEW m \in 0 .. Len(p)
    PROVE  Text(SubSeq(p, 1, m)) = f[m]
<1>1. PICK q : q = SubSeq(p, 1, m)
  OBVIOUS
<1>2. q \in Seq(Statement) /\ Len(q) = m /\ \A k \in 1 .. m : q[k] = p[k]
  BY <1>1
<1>3. PICK g : Joins(g, q, m) /\ Text(q) = g[m]
  BY <1>2, TextJoins
<1> DEFINE N == { k \in Nat : k <= m => g[k] = f[k] }
<1>4. Len(p) \in Nat /\ m \in Nat /\ m <= Len(p)
  OBVIOUS
<1>5. /\ f[0] = <<>> /\ \A k \in 0 .. Len(p) : k + 1 <= Len(p) => f[k + 1] = f[k] \o Leaves(p[k + 1])
      /\ g[0] = <<>> /\ \A k \in 0 .. m : k + 1 <= m => g[k + 1] = g[k] \o Leaves(q[k + 1])
  <2>1. f[0] = <<>> /\ \A k \in 0 .. Len(p) : k + 1 <= Len(p) => f[k + 1] = f[k] \o Leaves(p[k + 1])
    BY <1>4, JoinsSteps, Zenon
  <2>2. g[0] = <<>> /\ \A k \in 0 .. m : k + 1 <= m => g[k + 1] = g[k] \o Leaves(q[k + 1])
    BY <1>3, <1>4, JoinsSteps, Zenon
  <2> QED
    BY <2>1, <2>2, Zenon
<1>6. ASSUME NEW k \in N
      PROVE  k + 1 \in N
  <2> SUFFICES ASSUME k + 1 <= m PROVE g[k + 1] = f[k + 1]
    OBVIOUS
  <2>1. k \in 0 .. m /\ k \in 0 .. Len(p) /\ k + 1 <= Len(p) /\ q[k + 1] = p[k + 1] /\ g[k] = f[k]
    BY <1>2, <1>4
  <2> QED
    BY <1>5, <2>1, Zenon
<1>7. 0 \in N
  BY <1>5
<1> HIDE DEF N
<1>8. N \in SUBSET Nat
  BY DEF N
<1>9. N = Nat
  BY <1>6, <1>7, <1>8, InductiveSet, Zenon
<1>10. g[m] = f[m]
  BY <1>4, <1>9 DEF N
<1> QED
  BY <1>1, <1>3, <1>10, Zenon

LEMMA TextGrows ==
    ASSUME NEW p \in Seq(Statement), NEW m \in 0 .. Len(p), m < Len(p)
    PROVE  Text(SubSeq(p, 1, m + 1)) = Text(SubSeq(p, 1, m)) \o Leaves(p[m + 1])
<1>0. Len(p) \in Nat
  OBVIOUS
<1>1. PICK f : Joins(f, p, Len(p))
  BY <1>0, JoinsExist
<1>2. Len(p) \in Nat /\ m + 1 \in 0 .. Len(p) /\ m + 1 <= Len(p)
  OBVIOUS
<1>3. f[m + 1] = f[m] \o Leaves(p[m + 1])
  BY <1>1, <1>2, JoinsSteps, Zenon
<1>4. Text(SubSeq(p, 1, m)) = f[m]
  BY <1>1, TextOfPrefix
<1>5. Text(SubSeq(p, 1, m + 1)) = f[m + 1]
  BY <1>1, <1>2, TextOfPrefix
<1> QED
  BY <1>3, <1>4, <1>5

LEMMA TextStarts ==
    ASSUME NEW p \in Seq(Statement)
    PROVE  Text(SubSeq(p, 1, 0)) = <<>>
<1>0. Len(p) \in Nat
  OBVIOUS
<1>1. PICK f : Joins(f, p, Len(p))
  BY <1>0, JoinsExist
<1>2. 0 \in 0 .. Len(p)
  OBVIOUS
<1>3. f[0] = <<>>
  BY <1>0, <1>1, JoinsSteps, Zenon
<1> QED
  BY <1>1, <1>2, <1>3, TextOfPrefix

-----------------------------------------------------------------------------
(* What a text consists of: statements that are no IFs, and absent parts.  *)

Leaf == Plain \union {NoStmt}

LEMMA TwoOfThem ==
    ASSUME NEW T, NEW x \in T, NEW y \in T
    PROVE  <<x>> \o <<y>> = <<x, y>> /\ <<x, y>> \in Seq(T)
<1>0. <<x>> \in Seq(T) /\ <<y>> \in Seq(T) /\ <<x, y>> \in Seq(T)
  OBVIOUS
<1>1. PICK a \in Seq(T) : a = <<x>>
  BY <1>0
<1>2. PICK b \in Seq(T) : b = <<y>>
  BY <1>0
<1>3. PICK c \in Seq(T) : c = <<x, y>>
  BY <1>0
<1>4. Len(a) = 1 /\ Len(b) = 1 /\ Len(c) = 2 /\ a[1] = x /\ b[1] = y /\ c[1] = x /\ c[2] = y
  BY <1>1, <1>2, <1>3
<1>5. PICK d \in Seq(T) : d = a \o b /\ Len(d) = 2 /\ d[1] = x /\ d[2] = y
  <2>1. PICK d \in Seq(T) : d = a \o b
    BY ConcatProperties
  <2>2. /\ Len(d) = Len(a) + Len(b)
        /\ \A k \in 1 .. Len(a) + Len(b) : d[k] = IF k <= Len(a) THEN a[k] ELSE b[k - Len(a)]
    BY <2>1, ConcatProperties, Zenon
  <2>3. Len(d) = 2 /\ d[1] = x /\ d[2] = y
    BY <1>4, <2>2
  <2> QED
    BY <2>1, <2>3
<1>6. Len(c) = Len(d) /\ \A k \in 1 .. Len(c) : c[k] = d[k]
  BY <1>4, <1>5
<1>7. c = d
  BY <1>6, SeqEqual, Zenon
<1> QED
  BY <1>1, <1>2, <1>3, <1>5, <1>7, Zenon

\* Three sequences may be joined from either end.
Regroups(a, b, c) == (a \o b) \o c = a \o (b \o c)

LEMMA Associates ==
    ASSUME NEW T, NEW a \in Seq(T), NEW b \in Seq(T), NEW c \in Seq(T)
    PROVE  Regroups(a, b, c)
<1>1. a \o b \in Seq(T) /\ b \o c \in Seq(T)
  OBVIOUS
<1>2. PICK x, y : x = a \o b /\ y = b \o c
  OBVIOUS
<1>3. /\ Len(x) = Len(a) + Len(b) /\ Len(y) = Len(b) + Len(c) /\ x \in Seq(T) /\ y \in Seq(T)
      /\ \A k \in 1 .. Len(a) : x[k] = a[k]
      /\ \A k \in 1 .. Len(b) : x[k + Len(a)] = b[k] /\ y[k] = b[k]
      /\ \A k \in 1 .. Len(c) : y[k + Len(b)] = c[k]
  BY <1>1, <1>2
<1>4. PICK l, r : l = x \o c /\ r = a \o y
  OBVIOUS
<1>5. l \in Seq(T) /\ Len(l) = Len(x) + Len(c)
      /\ \A k \in 1 .. Len(x) + Len(c) : l[k] = IF k <= Len(x) THEN x[k] ELSE c[k - Len(x)]
  BY <1>3, <1>4, ConcatProperties, Zenon
<1>6. r \in Seq(T) /\ Len(r) = Len(a) + Len(y)
      /\ \A k \in 1 .. Len(a) + Len(y) : r[k] = IF k <= Len(a) THEN a[k] ELSE y[k - Len(a)]
  <2>1. a \in Seq(T) /\ y \in Seq(T)
    BY <1>3
  <2> QED
    BY <1>4, <2>1, ConcatProperties, Zenon
<1>7. Len(a) \in Nat /\ Len(b) \in Nat /\ Len(c) \in Nat
  OBVIOUS
<1>8. Len(l) = Len(r)
  BY <1>3, <1>5, <1>6, <1>7
<1>9. ASSUME NEW k \in 1 .. Len(l)
      PROVE  l[k] = r[k]
  <2>1. CASE k <= Len(a)
    <3>1. k \in 1 .. Len(a) /\ k <= Len(x) /\ k \in 1 .. Len(x) + Len(c)
      BY <1>3, <1>5, <1>7, <2>1
    <3>2. l[k] = x[k] /\ x[k] = a[k]
      BY <1>3, <1>5, <3>1
    <3>3. r[k] = a[k]
      BY <1>6, <1>8, <2>1
    <3> QED
      BY <3>2, <3>3
  <2>2. CASE Len(a) < k /\ k <= Len(x)
    <3>1. k - Len(a) \in 1 .. Len(b) /\ (k - Len(a)) + Len(a) = k
      BY <1>3, <1>5, <1>7, <2>2
    <3>2. x[k] = b[k - Len(a)] /\ y[k - Len(a)] = b[k - Len(a)]
      BY <1>3, <3>1
    <3> QED
      BY <1>3, <1>5, <1>6, <1>7, <2>2, <3>2
  <2>3. CASE k > Len(x)
    <3>1. k - Len(x) \in 1 .. Len(c) /\ (k - Len(x)) + Len(b) = k - Len(a)
      BY <1>3, <1>5, <1>7, <2>3
    <3>2. y[k - Len(a)] = c[k - Len(x)]
      BY <1>3, <3>1
    <3> QED
      BY <1>3, <1>5, <1>6, <1>7, <2>3, <3>2
  <2> QED
    BY <1>3, <1>5, <1>7, <2>1, <2>2, <2>3
<1>10. l = r
  BY <1>5, <1>6, <1>8, <1>9, SeqEqual, Zenon
<1> QED
  BY <1>2, <1>4, <1>10, Zenon DEF Regroups

LEMMA PlainIsNoIf == \A s \in Leaf : s.op # "if"
BY DEF Leaf, Plain, NoStmt

LEMMA IfParts ==
    \A T : \A s \in IfOf(T) : s.op = "if" /\ s.then \in T /\ s.else \in T \union {NoStmt}
BY DEF IfOf

LEMMA LeafLeaves == \A s \in Leaf : Leaves(s) = <<s>> /\ Parts(s) = <<s>>
BY PlainIsNoIf DEF Leaves, Parts

\* A part of an IF of a line.
Part == Inner \union {NoStmt}

LEMMA PartParts ==
    \A s \in Part : \/ s \in Leaf
                    \/ s \in IfOf(Plain) /\ Parts(s) = <<s.then, s.else>>
BY IfParts DEF Part, Inner, Leaf, Parts

LEMMA PartLeaves ==
    ASSUME NEW s \in Part
    PROVE  Leaves(s) \in Seq(Leaf) /\ Parts(s) = Leaves(s)
<1>1. CASE s \in Leaf
  <2>1. Leaves(s) = <<s>> /\ Parts(s) = <<s>>
    BY <1>1, LeafLeaves
  <2>2. <<s>> \in Seq(Leaf)
    BY <1>1
  <2> QED
    BY <2>1, <2>2, Zenon
<1>2. CASE s \in IfOf(Plain) /\ Parts(s) = <<s.then, s.else>>
  <2>1. s.op = "if" /\ s.then \in Leaf /\ s.else \in Leaf
    BY <1>2, IfParts DEF Leaf
  <2>2. PICK x, y : x = s.then /\ y = s.else
    OBVIOUS
  <2>3. Parts(x) = <<x>> /\ Parts(y) = <<y>> /\ x \in Leaf /\ y \in Leaf
    BY <2>1, <2>2, LeafLeaves
  <2>4. Leaves(s) = <<x>> \o <<y>>
    BY <2>1, <2>2, <2>3, Zenon DEF Leaves
  <2>5. <<x>> \o <<y>> = <<x, y>> /\ <<x, y>> \in Seq(Leaf)
    BY <2>3, TwoOfThem, Zenon
  <2> QED
    BY <1>2, <2>2, <2>4, <2>5
<1> QED
  BY <1>1, <1>2, PartParts

\* The text of an IF is that of its parts.
LEMMA IfLeaves ==
    ASSUME NEW s \in IfOf(Inner)
    PROVE  /\ s.then \in Part /\ s.else \in Part
           /\ Leaves(s) = Leaves(s.then) \o Leaves(s.else)
<1>1. s.op = "if" /\ s.then \in Part /\ s.else \in Part
  BY IfParts DEF Part
<1> QED
  BY <1>1, PartLeaves, Zenon DEF Leaves

-----------------------------------------------------------------------------
(* What stops the compiler at a statement depends on the text before it.   *)

LEMMA LeavesJoined ==
    ASSUME NEW D \in Seq(Leaf), NEW E \in Seq(Leaf)
    PROVE  /\ D \o E \in Seq(Leaf) /\ Len(D \o E) = Len(D) + Len(E)
           /\ \A k \in 1 .. Len(D) + Len(E) : (D \o E)[k] = IF k <= Len(D) THEN D[k] ELSE E[k - Len(D)]
BY ConcatProperties, Zenon

LEMMA Joined ==
    ASSUME NEW D \in Seq(Leaf), NEW E \in Seq(Leaf)
    PROVE  /\ D \o E \in Seq(Leaf)
           /\ DOMAIN D = 1 .. Len(D) /\ DOMAIN (D \o E) = 1 .. Len(D) + Len(E)
           /\ Len(D) \in Nat /\ Len(E) \in Nat /\ Len(D \o E) = Len(D) + Len(E)
           /\ \A k \in 1 .. Len(D) : (D \o E)[k] = D[k]
           /\ \A k \in 1 .. Len(E) : (D \o E)[Len(D) + k] = E[k]
OBVIOUS

LEMMA BeforeJoined ==
    ASSUME NEW D \in Seq(Leaf), NEW E \in Seq(Leaf), NEW ops, NEW k \in 1 .. Len(D) + 1
    PROVE  Before(D \o E, k, ops) = { m \in Positions(D, ops) : m < k }
<1>1. PICK T : T = D \o E
  OBVIOUS
<1>2. /\ DOMAIN D = 1 .. Len(D) /\ DOMAIN T = 1 .. Len(D) + Len(E)
      /\ Len(D) \in Nat /\ Len(E) \in Nat
      /\ \A m \in 1 .. Len(D) : T[m] = D[m]
  BY <1>1, Joined
<1>3. \A m : m \in DOMAIN T /\ m < k <=> m \in DOMAIN D /\ m < k
  BY <1>2
<1>4. Before(T, k, ops) = { m \in Positions(D, ops) : m < k }
  BY <1>2, <1>3 DEF Before, Positions
<1> QED
  BY <1>1, <1>4, Zenon

LEMMA EarlierStops ==
    ASSUME NEW D \in Seq(Leaf), NEW E \in Seq(Leaf), NEW why, NEW k \in DOMAIN D
    PROVE  StopsAt(why, D \o E, k) <=> StopsAt(why, D, k)
<1>1. PICK T : T = D \o E
  OBVIOUS
<1>2. k \in 1 .. Len(D) + 1 /\ T[k] = D[k]
  BY <1>1, Joined
<1>3. ASSUME NEW ops
      PROVE  Before(T, k, ops) = Before(D, k, ops)
  <2>1. Before(D \o E, k, ops) = { m \in Positions(D, ops) : m < k }
    BY <1>2, BeforeJoined
  <2> QED
    BY <1>1, <2>1, Zenon DEF Before
<1>4. \A ops : \A m \in Before(D, k, ops) : T[m] = D[m]
  BY <1>1, Joined DEF Before, Positions
<1>5. AfterWhile(T, k) <=> AfterWhile(D, k)
  BY <1>3 DEF AfterWhile
<1>6. Mentioned(T, k) <=> Mentioned(D, k)
  BY <1>2, <1>3, <1>4, Zenon DEF Mentioned
<1>7. StopsAt(why, T, k) <=> StopsAt(why, D, k)
  BY <1>2, <1>3, <1>5, <1>6, Zenon DEF StopsAt
<1> QED
  BY <1>1, <1>7, Zenon

\* A WHILE is open in D if no WEND follows it.
Open(D)    == \E m \in Positions(D, {"while"}) : Positions(D, {"wend"}) \subseteq 1 .. m
Knows(D, v) == \E m \in Positions(D, {"let", "input", "show"}) : D[m].v = v

\* What stops the compiler at a statement that follows D.
StopsNext(why, D, s) ==
    \/ why = "no while" /\ s.op = "wend" /\ ~Open(D)
    \/ why = "stack overflow" /\ s.op = "while" /\ Cardinality(Positions(D, {"wend"})) = WhileSize
    \/ /\ why = "frame" /\ Cardinality(Positions(D, {"end"})) > 1
       /\ \/ s.op = "for"
          \/ s.op \in {"let", "input", "show"} /\ ~Knows(D, s.v)

LEMMA NextStops ==
    ASSUME NEW D \in Seq(Leaf), NEW E \in Seq(Leaf), Len(E) > 0, NEW why
    PROVE  StopsAt(why, D \o E, Len(D) + 1) <=> StopsNext(why, D, E[1])
<1>1. PICK T, k : T = D \o E /\ k = Len(D) + 1
  OBVIOUS
<1>2. k \in 1 .. Len(D) + 1 /\ T[k] = E[1]
  BY <1>1, Joined
<1>3. ASSUME NEW ops
      PROVE  Before(T, k, ops) = Positions(D, ops)
  <2>1. Before(T, k, ops) = { m \in Positions(D, ops) : m < k }
    <3>1. Before(D \o E, k, ops) = { m \in Positions(D, ops) : m < k }
      BY <1>2, BeforeJoined
    <3> QED
      BY <1>1, <3>1, Zenon
  <2>2. \A m \in Positions(D, ops) : m < k
    BY <1>1 DEF Positions
  <2> QED
    BY <2>1, <2>2
<1>4. \A ops : \A m \in Positions(D, ops) : T[m] = D[m]
  BY <1>1, Joined DEF Positions
<1>5. AfterWhile(T, k) <=> Open(D)
  BY <1>3, Zenon DEF AfterWhile, Open
<1>6. Mentioned(T, k) <=> Knows(D, E[1].v)
  <2>1. Before(T, k, {"let", "input", "show"}) = Positions(D, {"let", "input", "show"})
    BY <1>3
  <2>2. T[k].v = E[1].v
    BY <1>2
  <2> QED
    BY <2>1, <2>2, <1>4, Zenon DEF Mentioned, Knows
<1>7. StopsAt(why, T, k) <=> StopsNext(why, D, E[1])
  BY <1>2, <1>3, <1>5, <1>6 DEF StopsAt, StopsNext
<1> QED
  BY <1>1, <1>7, Zenon

\* F is D and one more statement.
OneMore(F, D, s) == F = D \o <<s>>

LEMMA Appended ==
    ASSUME NEW D \in Seq(Leaf), NEW s \in Leaf, NEW F, OneMore(F, D, s)
    PROVE  /\ F \in Seq(Leaf) /\ Len(D) \in Nat /\ Len(F) = Len(D) + 1
           /\ DOMAIN D = 1 .. Len(D) /\ DOMAIN F = 1 .. Len(D) + 1
           /\ \A k \in 1 .. Len(D) : F[k] = D[k]
           /\ F[Len(D) + 1] = s
<1>1. PICK E \in Seq(Leaf) : E = <<s>> /\ Len(E) = 1 /\ E[1] = s
  <2>1. <<s>> \in Seq(Leaf) /\ Len(<<s>>) = 1 /\ <<s>>[1] = s
    OBVIOUS
  <2> QED
    BY <2>1
<1>2. F = D \o E
  BY <1>1 DEF OneMore
<1> QED
  BY <1>1, <1>2, Joined

LEMMA AppendedPositions ==
    ASSUME NEW D \in Seq(Leaf), NEW s \in Leaf, NEW F, OneMore(F, D, s)
    PROVE  \A ops : /\ s.op \in ops => Positions(F, ops) = Positions(D, ops) \union {Len(D) + 1}
                    /\ s.op \notin ops => Positions(F, ops) = Positions(D, ops)
                    /\ Positions(D, ops) \subseteq 1 .. Len(D)
<1>1. /\ Len(D) \in Nat
      /\ DOMAIN D = 1 .. Len(D) /\ DOMAIN F = 1 .. Len(D) + 1
      /\ \A k \in 1 .. Len(D) : F[k] = D[k]
      /\ F[Len(D) + 1] = s
  BY Appended
<1> SUFFICES ASSUME NEW ops
             PROVE  /\ s.op \in ops => Positions(F, ops) = Positions(D, ops) \union {Len(D) + 1}
                    /\ s.op \notin ops => Positions(F, ops) = Positions(D, ops)
                    /\ Positions(D, ops) \subseteq 1 .. Len(D)
  OBVIOUS
<1>2. \A k : k \in 1 .. Len(D) + 1 <=> k \in 1 .. Len(D) \/ k = Len(D) + 1
  BY <1>1
<1>3. Positions(D, ops) = { k \in 1 .. Len(D) : D[k].op \in ops }
  BY <1>1 DEF Positions
<1>4. Positions(F, ops) = { k \in 1 .. Len(D) + 1 : F[k].op \in ops }
  BY <1>1 DEF Positions
<1>5. \A k : k \in Positions(F, ops) <=> k \in Positions(D, ops) \/ (k = Len(D) + 1 /\ s.op \in ops)
  BY <1>1, <1>2, <1>3, <1>4
<1> QED
  BY <1>3, <1>5

LEMMA PositionsFinite ==
    ASSUME NEW D \in Seq(Leaf), NEW ops
    PROVE  IsFiniteSet(Positions(D, ops)) /\ Cardinality(Positions(D, ops)) \in Nat
<1>1. Len(D) \in Nat /\ DOMAIN D = 1 .. Len(D)
  OBVIOUS
<1>2. IsFiniteSet(1 .. Len(D))
  BY <1>1, FS_Interval
<1>3. Positions(D, ops) \subseteq 1 .. Len(D)
  BY <1>1 DEF Positions
<1> QED
  BY <1>2, <1>3, FS_Subset, FS_CardinalityType

LEMMA AppendedCount ==
    ASSUME NEW D \in Seq(Leaf), NEW s \in Leaf, NEW F, OneMore(F, D, s), NEW ops
    PROVE  /\ s.op \in ops => Cardinality(Positions(F, ops)) = Cardinality(Positions(D, ops)) + 1
           /\ s.op \notin ops => Cardinality(Positions(F, ops)) = Cardinality(Positions(D, ops))
<1>0. /\ s.op \in ops => Positions(F, ops) = Positions(D, ops) \union {Len(D) + 1}
      /\ s.op \notin ops => Positions(F, ops) = Positions(D, ops)
      /\ Positions(D, ops) \subseteq 1 .. Len(D)
  BY AppendedPositions, Zenon
<1>1. IsFiniteSet(Positions(D, ops))
  BY PositionsFinite
<1>2. CASE s.op \in ops
  <2>1. Positions(F, ops) = Positions(D, ops) \union {Len(D) + 1}
    BY <1>0, <1>2, Zenon
  <2>2. Len(D) + 1 \notin Positions(D, ops)
    <3>1. Positions(D, ops) \subseteq 1 .. Len(D)
      BY <1>0, Zenon
    <3>2. Len(D) \in Nat
      OBVIOUS
    <3> QED
      BY <3>1, <3>2
  <2> QED
    BY <1>1, <1>2, <2>1, <2>2, FS_AddElement
<1>3. CASE s.op \notin ops
  <2>1. Positions(F, ops) = Positions(D, ops)
    BY <1>0, <1>3, Zenon
  <2> QED
    BY <1>3, <2>1
<1> QED
  BY <1>2, <1>3

LEMMA AppendedOpen ==
    ASSUME NEW D \in Seq(Leaf), NEW s \in Leaf, NEW F, OneMore(F, D, s)
    PROVE  /\ s.op = "while" => Open(F)
           /\ s.op = "wend" => ~Open(F)
           /\ s.op \notin {"while", "wend"} => (Open(F) <=> Open(D))
<1>1. \A ops : /\ s.op \in ops => Positions(F, ops) = Positions(D, ops) \union {Len(D) + 1}
               /\ s.op \notin ops => Positions(F, ops) = Positions(D, ops)
               /\ Positions(D, ops) \subseteq 1 .. Len(D)
  BY AppendedPositions, Zenon
<1>2. Len(D) \in Nat
  OBVIOUS
<1>3. CASE s.op = "while"
  <2>1. Positions(F, {"wend"}) \subseteq 1 .. Len(D) + 1
    BY <1>1, <1>2, <1>3
  <2>2. Len(D) + 1 \in Positions(F, {"while"})
    BY <1>1, <1>3
  <2> QED
    BY <1>3, <2>1, <2>2 DEF Open
<1>4. CASE s.op = "wend"
  <2>1. Len(D) + 1 \in Positions(F, {"wend"})
    BY <1>1, <1>4
  <2>2. Positions(F, {"while"}) \subseteq 1 .. Len(D)
    BY <1>1, <1>4
  <2>3. \A m \in 1 .. Len(D) : ~(Len(D) + 1 \in 1 .. m)
    BY <1>2
  <2>4. ~Open(F)
    BY <2>1, <2>2, <2>3 DEF Open
  <2> QED
    BY <1>4, <2>4
<1>5. CASE s.op \notin {"while", "wend"}
  BY <1>1, <1>5 DEF Open
<1> QED
  BY <1>3, <1>4, <1>5

LEMMA AppendedKnows ==
    ASSUME NEW D \in Seq(Leaf), NEW s \in Leaf, NEW F, OneMore(F, D, s), NEW v
    PROVE  Knows(F, v) <=> Knows(D, v) \/ (s.op \in {"let", "input", "show"} /\ s.v = v)
<1>1. PICK ops : ops = {"let", "input", "show"}
  OBVIOUS
<1>0. /\ s.op \in ops => Positions(F, ops) = Positions(D, ops) \union {Len(D) + 1}
      /\ s.op \notin ops => Positions(F, ops) = Positions(D, ops)
      /\ Positions(D, ops) \subseteq 1 .. Len(D)
  BY AppendedPositions, Zenon
<1>2. \A k : k \in Positions(F, ops) <=> k \in Positions(D, ops) \/ (k = Len(D) + 1 /\ s.op \in ops)
  BY <1>0
<1>3. \A k \in Positions(D, ops) : F[k] = D[k]
  BY AppendedPositions, Appended
<1>4. F[Len(D) + 1] = s
  BY Appended
<1>5. (\E k \in Positions(F, ops) : F[k].v = v) <=>
      (\E k \in Positions(D, ops) : D[k].v = v) \/ (s.op \in ops /\ s.v = v)
  BY <1>2, <1>3, <1>4
<1> QED
  BY <1>1, <1>5, Zenon DEF Knows

LEMMA AppendedStops ==
    ASSUME NEW D \in Seq(Leaf), NEW s \in Leaf, NEW F, OneMore(F, D, s), NEW why
    PROVE  Stops(why, F) <=> Stops(why, D) \/ StopsNext(why, D, s)
<1>1. PICK E \in Seq(Leaf) : E = <<s>> /\ Len(E) > 0 /\ E[1] = s
  <2>1. <<s>> \in Seq(Leaf) /\ Len(<<s>>) > 0 /\ <<s>>[1] = s
    OBVIOUS
  <2> QED
    BY <2>1
<1>2. StopsAt(why, D \o E, Len(D) + 1) <=> StopsNext(why, D, E[1])
  BY <1>1, NextStops
<1>3. \A k \in DOMAIN D : StopsAt(why, D \o E, k) <=> StopsAt(why, D, k)
  BY EarlierStops
<1>4. D \o E = F /\ E[1] = s
  BY <1>1 DEF OneMore
<1>5. \A k : k \in DOMAIN F <=> k \in DOMAIN D \/ k = Len(D) + 1
  BY Appended
<1> QED
  BY <1>2, <1>3, <1>4, <1>5, Zenon DEF Stops

-----------------------------------------------------------------------------
(* The statements that the work on a line has still to come to.            *)

Items == [do : {"stmt", "else", "end"}, s : Statement, path : Seq(BOOLEAN)]

Owed(item) == IF item.do = "stmt" THEN Leaves(item.s)
              ELSE IF item.do = "else" THEN Leaves(item.s.else) ELSE <<>>
OwedAt(w, k) == IF k <= Len(w) THEN Owed(w[k]) ELSE <<>>
Left(w)      == OwedAt(w, 1) \o (OwedAt(w, 2) \o OwedAt(w, 3))

\* An item with n others below it is n IFs deep.
Kind(n) == IF n = 0 THEN Statement ELSE IF n = 1 THEN Inner ELSE Plain
ItemAt(item, n) == item.s \in Kind(n) /\ (item.do = "stmt" \/ item.s.op = "if")
Nested(w) == /\ w \in Seq(Items) /\ Len(w) <= 3
             /\ \A k \in 1 .. Len(w) : ItemAt(w[k], Len(w) - k)

LEMMA StatementKinds ==
    /\ Plain \subseteq Inner /\ Inner \subseteq Statement /\ Plain \subseteq Leaf
    /\ \A s \in Statement : s.op # "if" => s \in Plain
    /\ \A s \in Inner : s.op = "if" => s \in IfOf(Plain)
    /\ \A s \in Statement : s.op = "if" => s \in IfOf(Inner)
<1>1. Plain \subseteq Inner /\ Plain \subseteq Leaf /\ Plain \subseteq Statement
  BY DEF Inner, Leaf, Statement
<1>2. IfOf(Plain) \subseteq IfOf(Inner)
  BY <1>1 DEF IfOf
<1>3. \A T : \A s \in IfOf(T) : s.op = "if"
  BY IfParts
<1>4. \A s \in Plain : s.op # "if"
  BY <1>1, PlainIsNoIf
<1> QED
  BY <1>1, <1>2, <1>3, <1>4 DEF Inner, Statement

LEMMA StatementLeaves == \A s \in Statement : Leaves(s) \in Seq(Leaf)
<1> SUFFICES ASSUME NEW s \in Statement PROVE Leaves(s) \in Seq(Leaf)
  OBVIOUS
<1>1. CASE s \in Plain
  <2>1. s \in Part
    BY <1>1, StatementKinds DEF Part
  <2> QED
    BY <2>1, PartLeaves
<1>2. CASE s \in IfOf(Inner)
  <2>1. /\ Leaves(s) = Leaves(s.then) \o Leaves(s.else)
        /\ Leaves(s.then) \in Seq(Leaf) /\ Leaves(s.else) \in Seq(Leaf)
    BY <1>2, IfLeaves, PartLeaves
  <2>2. PICK a, b : a = Leaves(s.then) /\ b = Leaves(s.else)
    OBVIOUS
  <2>3. a \o b \in Seq(Leaf)
    BY <2>1, <2>2
  <2> QED
    BY <2>1, <2>2, <2>3
<1> QED
  BY <1>1, <1>2 DEF Statement

LEMMA KindsAreStatements ==
    ASSUME NEW n \in Nat
    PROVE  Kind(n) \subseteq Statement
BY StatementKinds DEF Kind

LEMMA OwedLeaves ==
    ASSUME NEW item, NEW n \in Nat, ItemAt(item, n)
    PROVE  Owed(item) \in Seq(Leaf)
<1>1. item.s \in Statement
  BY KindsAreStatements DEF ItemAt
<1>2. CASE item.do = "stmt"
  BY <1>1, <1>2, StatementLeaves DEF Owed
<1>3. CASE item.do = "else"
  <2>1. item.s \in IfOf(Inner)
    BY <1>1, <1>3, StatementKinds DEF ItemAt
  <2>2. Leaves(item.s.else) \in Seq(Leaf)
    BY <2>1, IfLeaves, PartLeaves
  <2> QED
    BY <1>3, <2>2 DEF Owed
<1>4. CASE item.do \notin {"stmt", "else"}
  <2>1. Owed(item) = <<>>
    BY <1>4 DEF Owed
  <2> QED
    BY <2>1
<1> QED
  BY <1>2, <1>3, <1>4

LEMMA NestedTail ==
    ASSUME NEW w, Nested(w), w # <<>>
    PROVE  /\ Nested(Tail(w)) /\ Len(Tail(w)) = Len(w) - 1 /\ Len(w) \in 1 .. 3
           /\ \A k \in 1 .. Len(Tail(w)) : Tail(w)[k] = w[k + 1]
           /\ w[1] \in Items /\ ItemAt(w[1], Len(w) - 1)
<1>1. w \in Seq(Items) /\ Len(w) \in 1 .. 3 /\ \A k \in 1 .. Len(w) : ItemAt(w[k], Len(w) - k)
  <2>1. w \in Seq(Items) /\ Len(w) <= 3 /\ \A k \in 1 .. Len(w) : ItemAt(w[k], Len(w) - k)
    BY Zenon DEF Nested
  <2>2. Len(w) \in Nat \ {0}
    BY <2>1, EmptySeq, Zenon
  <2>3. Len(w) \in 1 .. 3
    <3>1. Len(w) <= 3
      BY <2>1, Zenon
    <3>2. \A n \in Nat \ {0} : n <= 3 => n \in 1 .. 3
      OBVIOUS
    <3> QED
      BY <2>2, <3>1, <3>2, Zenon
  <2> QED
    BY <2>1, <2>3, Zenon
<1>2. PICK t \in Seq(Items) : t = Tail(w) /\ Len(t) = Len(w) - 1 /\ \A k \in 1 .. Len(t) : t[k] = w[k + 1]
  <2>1. Tail(w) \in Seq(Items) /\ Len(Tail(w)) = Len(w) - 1 /\ \A k \in 1 .. Len(Tail(w)) : Tail(w)[k] = w[k + 1]
    BY <1>1
  <2> QED
    BY <2>1, Zenon
<1>3. ASSUME NEW k \in 1 .. Len(t)
      PROVE  ItemAt(t[k], Len(t) - k)
  <2>1. k + 1 \in 1 .. Len(w) /\ Len(w) - (k + 1) = Len(t) - k
    BY <1>1, <1>2
  <2>2. ItemAt(w[k + 1], Len(w) - (k + 1))
    BY <1>1, <2>1, Zenon
  <2> QED
    BY <1>2, <2>1, <2>2, Zenon
<1>4. w[1] \in Items /\ ItemAt(w[1], Len(w) - 1)
  BY <1>1
<1>5. Nested(t)
  BY <1>1, <1>2, <1>3 DEF Nested
<1> QED
  BY <1>1, <1>2, <1>4, <1>5

LEMMA LeftType ==
    ASSUME NEW w, Nested(w)
    PROVE  Left(w) \in Seq(Leaf) /\ \A k \in Nat \ {0} : OwedAt(w, k) \in Seq(Leaf)
<1>1. Len(w) \in Nat /\ \A k \in 1 .. Len(w) : ItemAt(w[k], Len(w) - k)
  BY DEF Nested
<1>2. ASSUME NEW k \in Nat \ {0}
      PROVE  OwedAt(w, k) \in Seq(Leaf)
  <2>1. CASE k <= Len(w)
    <3>1. ItemAt(w[k], Len(w) - k) /\ Len(w) - k \in Nat
      BY <1>1, <2>1
    <3> QED
      BY <2>1, <3>1, OwedLeaves DEF OwedAt
  <2>2. CASE ~(k <= Len(w))
    BY <2>2 DEF OwedAt
  <2> QED
    BY <2>1, <2>2
<1>3. PICK a, b, c : a = OwedAt(w, 1) /\ b = OwedAt(w, 2) /\ c = OwedAt(w, 3)
  OBVIOUS
<1>4. a \in Seq(Leaf) /\ b \in Seq(Leaf) /\ c \in Seq(Leaf)
  BY <1>2, <1>3
<1>5. a \o (b \o c) \in Seq(Leaf)
  BY <1>4
<1>6. Left(w) = a \o (b \o c)
  BY <1>3 DEF Left
<1> QED
  BY <1>2, <1>5, <1>6

LEMMA LeftSplits ==
    ASSUME NEW w, Nested(w), w # <<>>
    PROVE  /\ Left(w) = Owed(w[1]) \o Left(Tail(w))
           /\ Owed(w[1]) \in Seq(Leaf) /\ Left(Tail(w)) \in Seq(Leaf)
<1>1. PICK t : t = Tail(w)
  OBVIOUS
<1>2. /\ Nested(t) /\ Len(t) = Len(w) - 1 /\ Len(w) \in 1 .. 3
      /\ \A k \in 1 .. Len(t) : t[k] = w[k + 1]
  BY <1>1, NestedTail, Zenon
<1>3. \A k \in Nat \ {0} : OwedAt(w, k) \in Seq(Leaf)
  BY LeftType
<1>4. OwedAt(w, 1) = Owed(w[1])
  BY <1>2 DEF OwedAt
<1>5. OwedAt(t, 1) = OwedAt(w, 2) /\ OwedAt(t, 2) = OwedAt(w, 3) /\ OwedAt(t, 3) = <<>>
  BY <1>2 DEF OwedAt
<1>6. PICK a, b, c : a = OwedAt(w, 1) /\ b = OwedAt(w, 2) /\ c = OwedAt(w, 3)
  OBVIOUS
<1>7. a \in Seq(Leaf) /\ b \in Seq(Leaf) /\ c \in Seq(Leaf)
  BY <1>3, <1>6
<1>8. Left(w) = a \o (b \o c)
  BY <1>6 DEF Left
<1>9. Left(t) = b \o (c \o <<>>)
  BY <1>5, <1>6 DEF Left
<1>10. c \o <<>> = c
  BY <1>7, ConcatEmptySeq, Zenon
<1>11. Left(t) = b \o c /\ Left(t) \in Seq(Leaf)
  BY <1>2, <1>9, <1>10, LeftType
<1> QED
  BY <1>1, <1>4, <1>6, <1>7, <1>8, <1>11, Zenon

LEMMA ItemsJoined ==
    ASSUME NEW a \in Seq(Items), NEW w \in Seq(Items)
    PROVE  /\ a \o w \in Seq(Items) /\ Len(a \o w) = Len(a) + Len(w)
           /\ \A k \in 1 .. Len(a) + Len(w) : (a \o w)[k] = IF k <= Len(a) THEN a[k] ELSE w[k - Len(a)]
BY ConcatProperties, Zenon

LEMMA NestedPushed ==
    ASSUME NEW w, Nested(w), Len(w) <= 2, NEW item \in Items, ItemAt(item, Len(w))
    PROVE  Nested(<<item>> \o w)
<1>1. w \in Seq(Items) /\ Len(w) \in 0 .. 2 /\ \A k \in 1 .. Len(w) : ItemAt(w[k], Len(w) - k)
  <2>1. w \in Seq(Items) /\ \A k \in 1 .. Len(w) : ItemAt(w[k], Len(w) - k)
    BY Zenon DEF Nested
  <2>2. w \in Seq(Items)
    BY <2>1
  <2>3. Len(w) \in 0 .. 2
    <3>1. \A n \in Nat : n <= 2 => n \in 0 .. 2
      OBVIOUS
    <3>2. Len(w) \in Nat
      BY <2>2, LenProperties, Zenon
    <3> QED
      BY <3>1, <3>2, Zenon
  <2> QED
    BY <2>1, <2>3, Zenon
<1>2. PICK a \in Seq(Items) : a = <<item>> /\ Len(a) = 1 /\ a[1] = item
  <2>1. <<item>> \in Seq(Items) /\ Len(<<item>>) = 1 /\ <<item>>[1] = item
    OBVIOUS
  <2> QED
    BY <2>1
<1>3. PICK u \in Seq(Items) : /\ u = a \o w /\ Len(u) = Len(w) + 1 /\ u[1] = item
                              /\ \A k \in 1 .. Len(w) : u[k + 1] = w[k]
  <2>1. a \o w \in Seq(Items)
    BY <1>1, <1>2
  <2>2. /\ Len(a \o w) = Len(a) + Len(w)
        /\ \A k \in 1 .. Len(a) + Len(w) : (a \o w)[k] = IF k <= Len(a) THEN a[k] ELSE w[k - Len(a)]
    BY <1>1, ItemsJoined, Zenon
  <2>3. (a \o w)[1] = item /\ \A k \in 1 .. Len(w) : (a \o w)[k + 1] = w[k]
    BY <1>1, <1>2, <2>2
  <2>4. Len(a \o w) = Len(w) + 1
    BY <1>1, <1>2, <2>2
  <2> QED
    BY <1>2, <2>1, <2>3, <2>4, Zenon
<1>4. ASSUME NEW k \in 1 .. Len(u)
      PROVE  ItemAt(u[k], Len(u) - k)
  <2>1. CASE k = 1
    <3>1. Len(u) - k = Len(w) /\ u[k] = item
      BY <1>1, <1>3, <2>1
    <3> QED
      BY <3>1
  <2>2. CASE k # 1
    <3>1. k - 1 \in 1 .. Len(w) /\ Len(u) - k = Len(w) - (k - 1) /\ (k - 1) + 1 = k
      BY <1>1, <1>3, <2>2
    <3>2. u[(k - 1) + 1] = w[k - 1]
      BY <1>3, <3>1, Zenon
    <3>3. ItemAt(w[k - 1], Len(w) - (k - 1))
      BY <1>1, <3>1, Zenon
    <3> QED
      BY <3>1, <3>2, <3>3, Zenon
  <2> QED
    BY <2>1, <2>2
<1>5. Len(u) <= 3
  BY <1>1, <1>3
<1>6. Nested(u)
  BY <1>3, <1>4, <1>5 DEF Nested
<1> QED
  BY <1>2, <1>3, <1>6

LEMMA LeftPushed ==
    ASSUME NEW w, Nested(w), Len(w) <= 2, NEW item \in Items, ItemAt(item, Len(w))
    PROVE  Left(<<item>> \o w) = Owed(item) \o Left(w)
<1>1. w \in Seq(Items)
  BY DEF Nested
<1>2. PICK u : u = <<item>> \o w
  OBVIOUS
<1>3. u # <<>> /\ u[1] = item /\ Tail(u) = w
  <2>1. PICK a \in Seq(Items) : a = <<item>> /\ Len(a) = 1 /\ a[1] = item
    <3>1. <<item>> \in Seq(Items) /\ Len(<<item>>) = 1 /\ <<item>>[1] = item
      OBVIOUS
    <3> QED
      BY <3>1
  <2>2. /\ a \o w \in Seq(Items) /\ Len(a \o w) = Len(a) + Len(w)
        /\ \A k \in 1 .. Len(a) + Len(w) : (a \o w)[k] = IF k <= Len(a) THEN a[k] ELSE w[k - Len(a)]
    BY <1>1, ItemsJoined, Zenon
  <2>3. Len(w) \in Nat
    BY <1>1
  <2>4. u \in Seq(Items) /\ Len(u) = Len(w) + 1 /\ u[1] = item /\ \A k \in 1 .. Len(w) : u[k + 1] = w[k]
    BY <1>2, <2>1, <2>2, <2>3
  <2>5. u # <<>>
    BY <2>3, <2>4
  <2>6. Tail(u) \in Seq(Items) /\ Len(Tail(u)) = Len(w) /\ \A k \in 1 .. Len(w) : Tail(u)[k] = w[k]
    BY <2>3, <2>4, <2>5
  <2>7. Tail(u) = w
    BY <1>1, <2>6, SeqEqual, Zenon
  <2> QED
    BY <2>4, <2>5, <2>7
<1>4. Nested(u)
  BY <1>2, NestedPushed
<1>5. Left(u) = Owed(u[1]) \o Left(Tail(u))
  BY <1>3, <1>4, LeftSplits
<1> QED
  BY <1>2, <1>3, <1>5, Zenon

-----------------------------------------------------------------------------
(* The tables of the generator and the text it has handled.                *)

Handled(D) ==
    /\ ends = Cardinality(Positions(D, {"end"}))
    /\ whileInt = Cardinality(Positions(D, {"wend"})) /\ whileInt <= WhileSize
    /\ used \in Nat /\ slot \in [Vars -> Nat]
    /\ \A v \in Vars : slot[v] # 0 <=> Knows(D, v)
    /\ whileId \in Nat /\ whileArr \in [0 .. WhileSize - 1 -> Int]
    /\ \A k \in 0 .. WhileSize - 1 : k > whileInt => whileArr[k] = NoKey
    /\ Pending <=> Open(D)
    /\ \A why \in CompileFaults : ~Stops(why, D)

\* While code is generated, the text begun is what has been handled and what
\* the work on the line owes; afterwards only the reason for a stop is kept.
GenInv ==
    /\ prog \in Programs /\ at \in 0 .. Len(prog)
    /\ pc = "generate" => /\ fault = NoFault /\ Nested(work)
                          /\ \E D \in Seq(Leaf) : D \o Left(work) = TextRead /\ Handled(D)
    /\ pc = "fault" /\ fault \in CompileFaults => Stops(fault, TextRead)

LEMMA ProgIsSeq == GenInv => prog \in Seq(Statement) /\ Len(prog) \in Nat
<1> SUFFICES ASSUME GenInv PROVE prog \in Seq(Statement) /\ Len(prog) \in Nat
  OBVIOUS
<1>1. prog \in Seq(Statement)
  BY ProgramsAssumption, Zenon DEF GenInv
<1> QED
  BY <1>1

\* The next statement, F the text with it.
Taking(D, F) ==
    /\ D \in Seq(Leaf) /\ F \in Seq(Leaf) /\ S \in Leaf /\ S \in Plain
    /\ Handled(D) /\ OneMore(F, D, S)
    /\ Nested(Tail(work)) /\ F \o Left(Tail(work)) = TextRead
    /\ \E E \in Seq(Leaf) : TextRead = D \o E /\ Len(E) > 0 /\ E[1] = S

LEMMA Taken ==
    ASSUME GenInv, pc = "generate", work # <<>>, Now.do = "stmt", S.op # "if"
    PROVE  \E D, F : Taking(D, F)
<1>1. Nested(work)
  BY DEF GenInv
<1>2. PICK D \in Seq(Leaf) : D \o Left(work) = TextRead /\ Handled(D)
  BY DEF GenInv
<1>3. PICK s : s = S
  OBVIOUS
<1>4. s \in Plain /\ s \in Leaf /\ Nested(Tail(work))
  <2>1. ItemAt(Now, Len(work) - 1) /\ Len(work) \in 1 .. 3 /\ Nested(Tail(work))
    BY <1>1, NestedTail, Zenon DEF Now
  <2>2. Len(work) - 1 \in Nat
    BY <2>1
  <2>3. S \in Statement
    BY <2>1, <2>2, KindsAreStatements, Zenon DEF ItemAt, S
  <2> QED
    BY <1>3, <2>1, <2>3, StatementKinds
<1>5. PICK L : L = Left(Tail(work))
  OBVIOUS
<1>6. L \in Seq(Leaf) /\ Left(work) = Leaves(s) \o L
  BY <1>1, <1>3, <1>5, LeftSplits, Zenon DEF Now, S, Owed
<1>7. PICK one \in Seq(Leaf) : one = <<s>> /\ Len(one) = 1 /\ one[1] = s
  <2>1. <<s>> \in Seq(Leaf) /\ Len(<<s>>) = 1 /\ <<s>>[1] = s
    BY <1>4
  <2> QED
    BY <2>1
<1>8. Left(work) = one \o L
  BY <1>4, <1>6, <1>7, LeafLeaves, Zenon
<1>9. PICK F : F = D \o one
  OBVIOUS
<1>10. F \in Seq(Leaf) /\ F \o L = D \o (one \o L)
  <2>1. (D \o one) \o L = D \o (one \o L)
    <3>1. Regroups(D, one, L)
      BY <1>6, <1>7, Associates, Zenon
    <3> QED
      BY <3>1, Zenon DEF Regroups
  <2>2. D \o one \in Seq(Leaf)
    BY LeavesJoined, Zenon
  <2> QED
    BY <1>9, <2>1, <2>2, Zenon
<1>11. PICK E \in Seq(Leaf) : E = one \o L /\ Len(E) > 0 /\ E[1] = s
  <2>1. /\ one \o L \in Seq(Leaf) /\ Len(one \o L) = Len(one) + Len(L)
        /\ \A k \in 1 .. Len(one) + Len(L) : (one \o L)[k] = IF k <= Len(one) THEN one[k] ELSE L[k - Len(one)]
    BY <1>6, LeavesJoined, Zenon
  <2>2. Len(L) \in Nat
    BY <1>6
  <2>3. Len(one \o L) > 0 /\ (one \o L)[1] = s
    BY <1>7, <2>1, <2>2
  <2> QED
    BY <2>1, <2>3
<1>12. OneMore(F, D, s)
  BY <1>7, <1>9, Zenon DEF OneMore
<1>13. F \o L = TextRead /\ D \o E = TextRead
  BY <1>2, <1>8, <1>10, <1>11, Zenon
<1> QED
  BY <1>2, <1>3, <1>4, <1>5, <1>10, <1>11, <1>12, <1>13, Zenon DEF Taking

\* Nothing in F stops the compiler if the guard of the statement holds.
LEMMA GoesOn ==
    ASSUME NEW D, NEW F, Taking(D, F),
           S.op = "wend" => Pending,
           S.op = "while" => whileInt < WhileSize,
           S.op = "for" => Framed,
           S.op \in {"let", "input", "show"} => slot[S.v] # 0 \/ Framed
    PROVE  \A why \in CompileFaults : ~Stops(why, F)
<1>1. PICK s \in Leaf : s = S
  BY DEF Taking
<1>2. D \in Seq(Leaf) /\ OneMore(F, D, s) /\ s \in Plain
  BY <1>1, Zenon DEF Taking
<1>3. /\ ends = Cardinality(Positions(D, {"end"})) /\ whileInt = Cardinality(Positions(D, {"wend"}))
      /\ \A v \in Vars : slot[v] # 0 <=> Knows(D, v)
      /\ Pending <=> Open(D)
      /\ \A why \in CompileFaults : ~Stops(why, D)
  BY Zenon DEF Taking, Handled
<1>4. Cardinality(Positions(D, {"end"})) \in Nat /\ Cardinality(Positions(D, {"wend"})) \in Nat
  BY <1>2, PositionsFinite
<1> SUFFICES ASSUME NEW why \in CompileFaults, Stops(why, F) PROVE FALSE
  OBVIOUS
<1>5. StopsNext(why, D, s)
  BY <1>2, <1>3, AppendedStops, Zenon
<1>6. CASE why = "no while" /\ s.op = "wend" /\ ~Open(D)
  BY <1>1, <1>3, <1>6
<1>7. CASE why = "stack overflow" /\ s.op = "while" /\ Cardinality(Positions(D, {"wend"})) = WhileSize
  <2>1. whileInt = WhileSize /\ whileInt < WhileSize
    BY <1>1, <1>3, <1>7, Zenon
  <2>2. \A n \in Nat : ~(n < n)
    OBVIOUS
  <2> QED
    BY <2>1, <2>2, SizesAssumption
<1>8. CASE /\ why = "frame" /\ Cardinality(Positions(D, {"end"})) > 1
           /\ \/ s.op = "for"
              \/ s.op \in {"let", "input", "show"} /\ ~Knows(D, s.v)
  <2>1. ~Framed
    BY <1>3, <1>4, <1>8 DEF Framed
  <2>2. s.op \in {"let", "input", "show"} /\ ~Knows(D, s.v)
    BY <1>1, <1>8, <2>1
  <2>3. s.v \in Vars
    BY <1>2, <2>2 DEF Plain
  <2> QED
    BY <1>1, <1>3, <2>1, <2>2, <2>3, Zenon
<1> QED
  BY <1>5, <1>6, <1>7, <1>8, Zenon DEF StopsNext

\* The work goes on below the statement.
LEMMA TakenKept ==
    ASSUME GenInv, pc = "generate", NEW D, NEW F, Taking(D, F),
           Done, UNCHANGED <<prog, at, pc, fault>>, Handled(F)'
    PROVE  GenInv'
<1>1. prog' \in Programs /\ at' \in 0 .. Len(prog') /\ fault' = NoFault /\ pc' = "generate"
  BY DEF GenInv
<1>2. work' = Tail(work) /\ TextRead' = TextRead
  BY DEF Done, TextRead
<1>3. Nested(work') /\ F \in Seq(Leaf) /\ F \o Left(work') = TextRead'
  BY <1>2, Zenon DEF Taking
<1>4. \E G \in Seq(Leaf) : G \o Left(work') = TextRead' /\ Handled(G)'
  BY <1>3
<1>5. ~(pc' = "fault" /\ fault' \in CompileFaults)
  BY <1>1
<1> QED
  BY <1>1, <1>3, <1>4, <1>5, Zenon DEF GenInv

-----------------------------------------------------------------------------
(* The statements one by one: the tables then are those of F.              *)

\* The facts of F that follow from those of D, whatever the statement does.
LEMMA TakenFacts ==
    ASSUME NEW D, NEW F, Taking(D, F)
    PROVE  /\ Cardinality(Positions(D, {"end"})) \in Nat /\ Cardinality(Positions(D, {"wend"})) \in Nat
           /\ \A ops : /\ S.op \in ops => Cardinality(Positions(F, ops)) = Cardinality(Positions(D, ops)) + 1
                       /\ S.op \notin ops => Cardinality(Positions(F, ops)) = Cardinality(Positions(D, ops))
           /\ \A v : Knows(F, v) <=> Knows(D, v) \/ (S.op \in {"let", "input", "show"} /\ S.v = v)
           /\ S.op = "while" => Open(F)
           /\ S.op = "wend" => ~Open(F)
           /\ S.op \notin {"while", "wend"} => (Open(F) <=> Open(D))
<1>1. D \in Seq(Leaf) /\ S \in Leaf /\ OneMore(F, D, S)
  BY Zenon DEF Taking
<1>2. Cardinality(Positions(D, {"end"})) \in Nat /\ Cardinality(Positions(D, {"wend"})) \in Nat
  BY <1>1, PositionsFinite
<1>3. \A ops : /\ S.op \in ops => Cardinality(Positions(F, ops)) = Cardinality(Positions(D, ops)) + 1
               /\ S.op \notin ops => Cardinality(Positions(F, ops)) = Cardinality(Positions(D, ops))
  BY <1>1, AppendedCount, Zenon
<1>4. \A v : Knows(F, v) <=> Knows(D, v) \/ (S.op \in {"let", "input", "show"} /\ S.v = v)
  BY <1>1, AppendedKnows, Zenon
<1>5. /\ S.op = "while" => Open(F)
      /\ S.op = "wend" => ~Open(F)
      /\ S.op \notin {"while", "wend"} => (Open(F) <=> Open(D))
  BY <1>1, AppendedOpen, Zenon
<1> QED
  BY <1>2, <1>3, <1>4, <1>5, Zenon

LEMMA PlainlyHandled ==
    ASSUME NEW D, NEW F, Taking(D, F), NEW op, NEW instrs, Plainly(op, instrs),
           op \in {"print", "rem", "goto", "gosub", "return", "next", "bump"}
    PROVE  Handled(F)'
<1>1. S.op = op /\ UNCHANGED tables
  BY Zenon DEF Plainly, Generating
<1>2. /\ S.op \notin {"end"} /\ S.op \notin {"wend"} /\ S.op \notin {"while", "wend"}
      /\ S.op \notin {"let", "input", "show"} /\ S.op # "while" /\ S.op # "for"
  BY <1>1
<1>3. /\ Cardinality(Positions(F, {"end"})) = Cardinality(Positions(D, {"end"}))
      /\ Cardinality(Positions(F, {"wend"})) = Cardinality(Positions(D, {"wend"}))
      /\ \A v : Knows(F, v) <=> Knows(D, v)
      /\ Open(F) <=> Open(D)
  BY <1>2, TakenFacts, Zenon
<1>4. \A why \in CompileFaults : ~Stops(why, F)
  BY <1>2, GoesOn, Zenon
<1>5. /\ ends' = ends /\ whileInt' = whileInt /\ used' = used /\ slot' = slot
      /\ whileId' = whileId /\ whileArr' = whileArr
  BY <1>1 DEF tables
<1>6. Pending' <=> Pending
  BY <1>5 DEF Pending
<1>7. Handled(D)
  BY Zenon DEF Taking
<1> QED
  BY <1>3, <1>4, <1>5, <1>6, <1>7, Zenon DEF Handled

LEMMA SlottedHandled ==
    ASSUME NEW D, NEW F, Taking(D, F), NEW op, NEW instrs, Slotted(op, instrs),
           op \in {"let", "input", "show"}
    PROVE  Handled(F)'
<1>1. /\ S.op = op /\ (slot[S.v] # 0 \/ Framed)
      /\ slot' = [slot EXCEPT ![S.v] = SlotOf(S.v)]
      /\ used' = IF slot[S.v] # 0 THEN used ELSE used + 1
      /\ ends' = ends /\ whileInt' = whileInt /\ whileId' = whileId /\ whileArr' = whileArr
  BY Zenon DEF Slotted, Generating
<1>2. /\ S.op \notin {"end"} /\ S.op \notin {"wend"} /\ S.op \notin {"while", "wend"}
      /\ S.op \in {"let", "input", "show"} /\ S.op # "while" /\ S.op # "for"
  BY <1>1
<1>3. /\ Cardinality(Positions(F, {"end"})) = Cardinality(Positions(D, {"end"}))
      /\ Cardinality(Positions(F, {"wend"})) = Cardinality(Positions(D, {"wend"}))
      /\ \A v : Knows(F, v) <=> Knows(D, v) \/ S.v = v
      /\ Open(F) <=> Open(D)
  BY <1>2, TakenFacts, Zenon
<1>4. \A why \in CompileFaults : ~Stops(why, F)
  BY <1>1, <1>2, GoesOn, Zenon
<1>5. Pending' <=> Pending
  BY <1>1 DEF Pending
<1>6. /\ Handled(D)
      /\ used \in Nat /\ slot \in [Vars -> Nat] /\ \A v \in Vars : slot[v] # 0 <=> Knows(D, v)
  BY Zenon DEF Taking, Handled
<1>7. S.v \in Vars
  BY <1>2 DEF Taking, Plain
<1>8. SlotOf(S.v) \in Nat \ {0} /\ used' \in Nat
  BY <1>1, <1>6, <1>7 DEF SlotOf
<1>9. slot' \in [Vars -> Nat] /\ \A v \in Vars : slot'[v] = IF v = S.v THEN SlotOf(S.v) ELSE slot[v]
  BY <1>1, <1>6, <1>8
<1>10. \A v \in Vars : slot'[v] # 0 <=> Knows(F, v)
  BY <1>3, <1>6, <1>8, <1>9
<1> QED
  BY <1>1, <1>3, <1>4, <1>5, <1>6, <1>8, <1>9, <1>10, Zenon DEF Handled

LEMMA ForHandled ==
    ASSUME NEW D, NEW F, Taking(D, F), GenFor
    PROVE  Handled(F)'
<1>1. /\ S.op = "for" /\ Framed /\ used' = used + S.cells
      /\ ends' = ends /\ whileInt' = whileInt /\ slot' = slot
      /\ whileId' = whileId /\ whileArr' = whileArr
  BY Zenon DEF GenFor, Generating
<1>2. /\ S.op \notin {"end"} /\ S.op \notin {"wend"} /\ S.op \notin {"while", "wend"}
      /\ S.op \notin {"let", "input", "show"} /\ S.op # "while"
  BY <1>1
<1>3. /\ Cardinality(Positions(F, {"end"})) = Cardinality(Positions(D, {"end"}))
      /\ Cardinality(Positions(F, {"wend"})) = Cardinality(Positions(D, {"wend"}))
      /\ \A v : Knows(F, v) <=> Knows(D, v)
      /\ Open(F) <=> Open(D)
  <2>1. \A ops : S.op \notin ops => Cardinality(Positions(F, ops)) = Cardinality(Positions(D, ops))
    BY TakenFacts, Zenon
  <2>2. \A v : Knows(F, v) <=> Knows(D, v) \/ (S.op \in {"let", "input", "show"} /\ S.v = v)
    BY TakenFacts, Zenon
  <2>3. S.op \notin {"while", "wend"} => (Open(F) <=> Open(D))
    BY TakenFacts, Zenon
  <2> QED
    BY <1>2, <2>1, <2>2, <2>3, Zenon
<1>4. \A why \in CompileFaults : ~Stops(why, F)
  BY <1>1, <1>2, GoesOn, Zenon
<1>5. Pending' <=> Pending
  BY <1>1 DEF Pending
<1>6. Handled(D)
  BY Zenon DEF Taking
<1>7. S.cells \in Nat
  BY <1>1 DEF Taking, Plain
<1>8. used' \in Nat
  BY <1>1, <1>6, <1>7 DEF Handled
<1> QED
  BY <1>1, <1>3, <1>4, <1>5, <1>6, <1>8, Zenon DEF Handled

LEMMA EndHandled ==
    ASSUME NEW D, NEW F, Taking(D, F), GenEnd
    PROVE  Handled(F)'
<1>1. /\ S.op = "end" /\ ends' = ends + 1
      /\ whileInt' = whileInt /\ slot' = slot /\ used' = used
      /\ whileId' = whileId /\ whileArr' = whileArr
  BY Zenon DEF GenEnd, Generating
<1>2. /\ S.op \in {"end"} /\ S.op \notin {"wend"} /\ S.op \notin {"while", "wend"}
      /\ S.op \notin {"let", "input", "show"} /\ S.op # "while" /\ S.op # "for"
  BY <1>1
<1>3. /\ Cardinality(Positions(F, {"end"})) = Cardinality(Positions(D, {"end"})) + 1
      /\ Cardinality(Positions(F, {"wend"})) = Cardinality(Positions(D, {"wend"}))
      /\ \A v : Knows(F, v) <=> Knows(D, v)
      /\ Open(F) <=> Open(D)
  BY <1>2, TakenFacts, Zenon
<1>4. \A why \in CompileFaults : ~Stops(why, F)
  BY <1>1, <1>2, GoesOn, Zenon
<1>5. Pending' <=> Pending
  BY <1>1 DEF Pending
<1>6. Handled(D)
  BY Zenon DEF Taking
<1>7. ends' = Cardinality(Positions(F, {"end"}))
  BY <1>1, <1>3, <1>6, Zenon DEF Handled
<1> QED
  BY <1>1, <1>3, <1>4, <1>5, <1>6, <1>7, Zenon DEF Handled

LEMMA WhileHandled ==
    ASSUME NEW D, NEW F, Taking(D, F), GenWhile
    PROVE  Handled(F)'
<1>1. /\ S.op = "while" /\ whileInt < WhileSize
      /\ whileArr' = [whileArr EXCEPT ![whileInt] = whileId] /\ whileId' = whileId + 1
      /\ ends' = ends /\ whileInt' = whileInt /\ slot' = slot /\ used' = used
  BY Zenon DEF GenWhile, Generating
<1>2. /\ S.op \notin {"end"} /\ S.op \notin {"wend"}
      /\ S.op \notin {"let", "input", "show"} /\ S.op # "for"
  BY <1>1
<1>3. /\ Cardinality(Positions(F, {"end"})) = Cardinality(Positions(D, {"end"}))
      /\ Cardinality(Positions(F, {"wend"})) = Cardinality(Positions(D, {"wend"}))
      /\ Cardinality(Positions(D, {"wend"})) \in Nat
      /\ \A v : Knows(F, v) <=> Knows(D, v)
      /\ Open(F)
  <2>1. \A ops : S.op \notin ops => Cardinality(Positions(F, ops)) = Cardinality(Positions(D, ops))
    BY TakenFacts, Zenon
  <2>2. \A v : Knows(F, v) <=> Knows(D, v) \/ (S.op \in {"let", "input", "show"} /\ S.v = v)
    BY TakenFacts, Zenon
  <2>3. (S.op = "while" => Open(F)) /\ Cardinality(Positions(D, {"wend"})) \in Nat
    BY TakenFacts, Zenon
  <2> QED
    BY <1>1, <1>2, <2>1, <2>2, <2>3, Zenon
<1>4. \A why \in CompileFaults : ~Stops(why, F)
  BY <1>1, <1>2, GoesOn, Zenon
<1>5. /\ Handled(D)
      /\ whileInt = Cardinality(Positions(D, {"wend"}))
      /\ whileId \in Nat /\ whileArr \in [0 .. WhileSize - 1 -> Int]
      /\ \A k \in 0 .. WhileSize - 1 : k > whileInt => whileArr[k] = NoKey
  BY Zenon DEF Taking, Handled
<1>6. whileInt \in Nat /\ whileInt \in 0 .. WhileSize - 1
  <2>1. whileInt \in Nat
    BY <1>3, <1>5, Zenon
  <2> QED
    BY <1>1, <2>1, SizesAssumption
<1>7. /\ whileId' \in Nat /\ whileArr' \in [0 .. WhileSize - 1 -> Int]
      /\ \A k \in 0 .. WhileSize - 1 : k > whileInt' => whileArr'[k] = NoKey
      /\ whileArr'[whileInt'] = whileId /\ whileId # NoKey
  BY <1>1, <1>5, <1>6 DEF NoKey
<1>8. Pending'
  BY <1>1, <1>7 DEF Pending
<1>9. Pending' <=> Open(F)
  BY <1>3, <1>8
<1> QED
  BY <1>1, <1>3, <1>4, <1>5, <1>7, <1>9, Zenon DEF Handled

LEMMA WendHandled ==
    ASSUME NEW D, NEW F, Taking(D, F), GenWend
    PROVE  Handled(F)'
<1>1. /\ S.op = "wend" /\ Pending /\ whileInt' = NextCell(whileInt)
      /\ whileArr' = whileArr /\ whileId' = whileId
      /\ ends' = ends /\ slot' = slot /\ used' = used
  BY Zenon DEF GenWend, Generating
<1>2. /\ S.op \notin {"end"} /\ S.op \in {"wend"}
      /\ S.op \notin {"let", "input", "show"} /\ S.op # "for" /\ S.op # "while"
  BY <1>1
<1>3. /\ Cardinality(Positions(F, {"end"})) = Cardinality(Positions(D, {"end"}))
      /\ Cardinality(Positions(F, {"wend"})) = Cardinality(Positions(D, {"wend"})) + 1
      /\ Cardinality(Positions(D, {"wend"})) \in Nat
      /\ \A v : Knows(F, v) <=> Knows(D, v)
      /\ ~Open(F)
  BY <1>1, <1>2, TakenFacts, Zenon
<1>4. \A why \in CompileFaults : ~Stops(why, F)
  BY <1>1, <1>2, GoesOn, Zenon
<1>5. /\ Handled(D)
      /\ whileInt = Cardinality(Positions(D, {"wend"}))
      /\ \A k \in 0 .. WhileSize - 1 : k > whileInt => whileArr[k] = NoKey
  BY Zenon DEF Taking, Handled
<1>6. whileInt \in Nat
  BY <1>3, <1>5, Zenon
<1>7. whileInt' = whileInt + 1 /\ whileInt' = Cardinality(Positions(F, {"wend"}))
  BY <1>1, <1>3, <1>5, Zenon DEF NextCell
<1>8. whileInt' <= WhileSize
  BY <1>1, <1>6, <1>7, SizesAssumption DEF Pending
<1>9. ~Pending'
  <2>1. whileInt' < WhileSize => whileInt' \in 0 .. WhileSize - 1 /\ whileInt' > whileInt
    BY <1>6, <1>7, SizesAssumption
  <2> QED
    BY <1>1, <1>5, <2>1 DEF Pending
<1>10. \A k \in 0 .. WhileSize - 1 : k > whileInt' => whileArr'[k] = NoKey
  <2>1. \A k \in 0 .. WhileSize - 1 : k > whileInt' => k > whileInt
    BY <1>6, <1>7, SizesAssumption
  <2> QED
    BY <1>1, <1>5, <2>1, Zenon
<1>11. Pending' <=> Open(F)
  BY <1>3, <1>9
<1> QED
  BY <1>1, <1>3, <1>4, <1>5, <1>7, <1>8, <1>10, <1>11, Zenon DEF Handled

-----------------------------------------------------------------------------
(* What is done of an IF leaves the tables alone.                          *)

LEMMA NothingLeft == Nested(<<>>) /\ Left(<<>>) = <<>>
<1>1. <<>> \in Seq(Items) /\ Len(<<>>) = 0
  OBVIOUS
<1>2. Nested(<<>>)
  BY <1>1 DEF Nested
<1>3. \A k \in {1, 2, 3} : OwedAt(<<>>, k) = <<>>
  BY <1>1 DEF OwedAt
<1>4. <<>> \o (<<>> \o <<>>) = <<>>
  <2>1. <<>> \in Seq(Items)
    OBVIOUS
  <2>2. <<>> \o <<>> = <<>>
    BY <2>1, ConcatEmptySeq, Zenon
  <2> QED
    BY <2>2, Zenon
<1>5. Left(<<>>) = <<>>
  BY <1>3, <1>4 DEF Left
<1> QED
  BY <1>2, <1>5

LEMMA SameHandled ==
    ASSUME NEW D, Handled(D),
           UNCHANGED <<slot, used, ends, whileArr, whileInt, whileId>>
    PROVE  Handled(D)'
<1>1. /\ ends' = ends /\ whileInt' = whileInt /\ used' = used /\ slot' = slot
      /\ whileId' = whileId /\ whileArr' = whileArr
  OBVIOUS
<1>2. Pending' <=> Pending
  BY <1>1 DEF Pending
<1> QED
  BY <1>1, <1>2, Zenon DEF Handled

\* An absent part is handled by passing it over.
LEMMA AbsentHandled ==
    ASSUME NEW D \in Seq(Leaf), Handled(D), NEW F, OneMore(F, D, NoStmt)
    PROVE  Handled(F)
<1>1. PICK s \in Leaf : s = NoStmt /\ s.op = "none"
  BY DEF Leaf, NoStmt
<1>2. OneMore(F, D, s)
  BY <1>1, Zenon
<1>3. /\ s.op \notin {"end"} /\ s.op \notin {"wend"} /\ s.op \notin {"while", "wend"}
      /\ s.op \notin {"let", "input", "show"} /\ s.op # "while" /\ s.op # "for" /\ s.op # "wend"
  BY <1>1
<1>4. /\ Cardinality(Positions(F, {"end"})) = Cardinality(Positions(D, {"end"}))
      /\ Cardinality(Positions(F, {"wend"})) = Cardinality(Positions(D, {"wend"}))
  <2>1. \A ops : /\ s.op \in ops => Cardinality(Positions(F, ops)) = Cardinality(Positions(D, ops)) + 1
                 /\ s.op \notin ops => Cardinality(Positions(F, ops)) = Cardinality(Positions(D, ops))
    BY <1>2, AppendedCount, Zenon
  <2> QED
    BY <1>3, <2>1, Zenon
<1>5. \A v : Knows(F, v) <=> Knows(D, v)
  BY <1>2, <1>3, AppendedKnows, Zenon
<1>6. Open(F) <=> Open(D)
  BY <1>2, <1>3, AppendedOpen, Zenon
<1>7. \A why : ~StopsNext(why, D, s)
  BY <1>3, Zenon DEF StopsNext
<1>8. \A why : Stops(why, F) <=> Stops(why, D)
  BY <1>2, <1>7, AppendedStops, Zenon
<1> QED
  BY <1>4, <1>5, <1>6, <1>8, Zenon DEF Handled

\* The IF at hand: its parts, and the work below it.
LEMMA AtAnIf ==
    ASSUME Nested(work), work # <<>>, S.op = "if"
    PROVE  /\ S \in IfOf(Inner) /\ S \in Statement /\ Now \in Items
           /\ Nested(Tail(work)) /\ Len(Tail(work)) \in 0 .. 1
           /\ S \in Kind(Len(Tail(work)))
           /\ S.then \in Kind(Len(Tail(work)) + 1)
           /\ S.else = NoStmt \/ S.else \in Kind(Len(Tail(work)) + 1)
<1>1. PICK s, n : s = S /\ n = Len(Tail(work))
  OBVIOUS
<1>2. /\ ItemAt(Now, Len(work) - 1) /\ Len(work) \in 1 .. 3 /\ Nested(Tail(work)) /\ Now \in Items
      /\ n = Len(work) - 1
  BY <1>1, NestedTail, Zenon DEF Now
<1>3. n \in 0 .. 2 /\ s \in Kind(n) /\ s.op = "if"
  <2>1. n \in 0 .. 2
    BY <1>2
  <2> QED
    BY <1>1, <1>2, <2>1, Zenon DEF ItemAt, S
<1>4. s \in Statement
  BY <1>3, KindsAreStatements
<1>5. s \in IfOf(Inner)
  BY <1>3, <1>4, StatementKinds
<1>6. CASE n = 0
  <2>1. Kind(n) = Statement /\ Kind(n + 1) = Inner
    BY <1>6 DEF Kind
  <2>2. s.then \in Inner /\ (s.else = NoStmt \/ s.else \in Inner)
    BY <1>5, IfParts
  <2>3. n \in 0 .. 1
    BY <1>6
  <2> QED
    BY <1>1, <1>2, <1>3, <1>4, <1>5, <2>1, <2>2, <2>3, Zenon
<1>7. CASE n = 1
  <2>1. Kind(n) = Inner /\ Kind(n + 1) = Plain
    BY <1>7 DEF Kind
  <2>2. s \in IfOf(Plain)
    BY <1>3, <2>1, StatementKinds
  <2>3. s.then \in Plain /\ (s.else = NoStmt \/ s.else \in Plain)
    BY <2>2, IfParts
  <2>4. n \in 0 .. 1
    BY <1>7
  <2> QED
    BY <1>1, <1>2, <1>3, <1>4, <1>5, <2>1, <2>3, <2>4, Zenon
<1>8. CASE n = 2
  <2>1. s \in Plain
    BY <1>3, <1>8 DEF Kind
  <2> QED
    BY <1>3, <2>1, StatementKinds, PlainIsNoIf
<1> QED
  BY <1>3, <1>6, <1>7, <1>8

\* Two items on top of the work: what they owe, and that they nest.
LEMMA TwoPushed ==
    ASSUME NEW t, Nested(t), Len(t) <= 1, NEW a \in Items, NEW b \in Items,
           ItemAt(b, Len(t)), ItemAt(a, Len(t) + 1)
    PROVE  /\ <<a, b>> \o t = <<a>> \o (<<b>> \o t)
           /\ Nested(<<a>> \o (<<b>> \o t))
           /\ Left(<<a>> \o (<<b>> \o t)) = Owed(a) \o (Owed(b) \o Left(t))
<1>1. t \in Seq(Items) /\ Len(t) \in Nat
  <2>1. t \in Seq(Items)
    BY Zenon DEF Nested
  <2> QED
    BY <2>1
<1>2. PICK one \in Seq(Items), two \in Seq(Items) :
          one = <<a>> /\ two = <<b>> /\ Len(one) = 1 /\ Len(two) = 1
  <2>1. /\ <<a>> \in Seq(Items) /\ Len(<<a>>) = 1
        /\ <<b>> \in Seq(Items) /\ Len(<<b>>) = 1
    OBVIOUS
  <2> QED
    BY <2>1
<1>3. one \o two = <<a, b>>
  BY <1>2, TwoOfThem, Zenon
<1>4. (one \o two) \o t = one \o (two \o t)
  <2>1. Regroups(one, two, t)
    BY <1>1, <1>2, Associates, Zenon
  <2> QED
    BY <2>1, Zenon DEF Regroups
<1>5. PICK u : u = <<b>> \o t
  OBVIOUS
<1>6. Len(t) <= 2
  BY <1>1
<1>7. Nested(u) /\ Left(u) = Owed(b) \o Left(t)
  BY <1>5, <1>6, NestedPushed, LeftPushed
<1>8. Len(u) = Len(t) + 1 /\ Len(u) <= 2
  <2>1. u = two \o t
    BY <1>2, <1>5
  <2>2. Len(u) = Len(two) + Len(t)
    BY <1>1, <1>2, <2>1, ConcatProperties, Zenon
  <2> QED
    BY <1>1, <1>2, <2>2
<1>9. Nested(<<a>> \o u) /\ Left(<<a>> \o u) = Owed(a) \o Left(u)
  BY <1>7, <1>8, NestedPushed, LeftPushed
<1> QED
  BY <1>2, <1>3, <1>4, <1>5, <1>7, <1>9, Zenon

LEMMA IfWork ==
    ASSUME GenInv, pc = "generate", GenIf
    PROVE  Nested(work') /\ Left(work') = Left(work)
<1>1. /\ work # <<>> /\ Now.do = "stmt" /\ S.op = "if"
      /\ work' = <<Item("stmt", S.then, Append(Now.path, TRUE)), Item("else", S, Now.path)>> \o Tail(work)
      /\ UNCHANGED <<prog, at, tables, pc, fault>>
  BY Zenon DEF GenIf, Generating
<1>2. Nested(work)
  BY Zenon DEF GenInv
<1>4. PICK s, t, n : s = S /\ t = Tail(work) /\ n = Len(t)
  OBVIOUS
<1>5. /\ s \in IfOf(Inner) /\ s \in Statement /\ Now \in Items
      /\ Nested(t) /\ n \in 0 .. 1 /\ s \in Kind(n) /\ s.then \in Kind(n + 1) /\ s.op = "if"
  BY <1>1, <1>2, <1>4, AtAnIf, Zenon
<1>6. PICK a, b : a = Item("stmt", s.then, Append(Now.path, TRUE)) /\ b = Item("else", s, Now.path)
  OBVIOUS
<1>7. a \in Items /\ b \in Items /\ ItemAt(b, n) /\ ItemAt(a, n + 1)
  <2>1. s.then \in Statement
    <3>1. n + 1 \in Nat
      BY <1>5
    <3> QED
      BY <1>5, <3>1, KindsAreStatements
  <2>2. Now.path \in Seq(BOOLEAN)
    BY <1>5 DEF Items
  <2>3. Append(Now.path, TRUE) \in Seq(BOOLEAN)
    BY <2>2
  <2> QED
    BY <1>5, <1>6, <2>1, <2>2, <2>3 DEF Items, Item, ItemAt
<1>8. n <= 1
  BY <1>5
<1>9. /\ <<a, b>> \o t = <<a>> \o (<<b>> \o t) /\ Nested(<<a>> \o (<<b>> \o t))
      /\ Left(<<a>> \o (<<b>> \o t)) = Owed(a) \o (Owed(b) \o Left(t))
  BY <1>4, <1>5, <1>7, <1>8, TwoPushed, Zenon
<1>10. work' = <<a, b>> \o t
  BY <1>1, <1>4, <1>6, Zenon
<1>11. Nested(work') /\ Left(work') = Owed(a) \o (Owed(b) \o Left(t))
  BY <1>9, <1>10, Zenon
<1>12. Owed(a) = Leaves(s.then) /\ Owed(b) = Leaves(s.else)
  BY <1>6 DEF Owed, Item
<1>13. Left(work) = (Leaves(s.then) \o Leaves(s.else)) \o Left(t)
  <2>1. Left(work) = Owed(Now) \o Left(t)
    BY <1>1, <1>2, <1>4, LeftSplits, Zenon DEF Now
  <2>2. Owed(Now) = Leaves(s)
    BY <1>1, <1>4 DEF Owed, S
  <2>3. Leaves(s) = Leaves(s.then) \o Leaves(s.else)
    BY <1>5, IfLeaves
  <2> QED
    BY <2>1, <2>2, <2>3, Zenon
<1>14. PICK x, y, z : x = Leaves(s.then) /\ y = Leaves(s.else) /\ z = Left(t)
  OBVIOUS
<1>15. x \in Seq(Leaf) /\ y \in Seq(Leaf) /\ z \in Seq(Leaf)
  <2>1. s.then \in Part /\ s.else \in Part
    BY <1>5, IfLeaves
  <2>2. z \in Seq(Leaf)
    BY <1>5, <1>14, LeftType, Zenon
  <2> QED
    BY <1>14, <2>1, <2>2, PartLeaves
<1>16. (x \o y) \o z = x \o (y \o z)
  <2>1. Regroups(x, y, z)
    BY <1>15, Associates, Zenon
  <2> QED
    BY <2>1, Zenon DEF Regroups
<1>17. Left(work') = Left(work)
  BY <1>11, <1>12, <1>13, <1>14, <1>16, Zenon
<1> QED
  BY <1>11, <1>17, Zenon

\* What GenIf, GenElse, GenEndIf and the end of a step of them have in common:
\* the tables stay, and G is handled with what work' still owes.
LEMMA WorkKept ==
    ASSUME GenInv, pc = "generate", NEW G \in Seq(Leaf), Handled(G),
           Nested(work'), G \o Left(work') = TextRead,
           UNCHANGED <<prog, at, pc, fault, slot, used, ends, whileArr, whileInt, whileId>>
    PROVE  GenInv'
<1>1. prog' = prog /\ at' = at /\ pc' = pc /\ fault' = fault /\ TextRead' = TextRead
  BY DEF TextRead
<1>2. Handled(G)'
  BY SameHandled, Zenon
<1>3. \E H \in Seq(Leaf) : H \o Left(work') = TextRead' /\ Handled(H)'
  BY <1>1, <1>2, Zenon
<1>4. /\ pc' = "generate" /\ ~(pc' = "fault") /\ fault' = NoFault
      /\ prog' \in Programs /\ at' \in 0 .. Len(prog')
  BY <1>1 DEF GenInv
<1> QED
  BY <1>3, <1>4, Zenon DEF GenInv

LEMMA IfKept ==
    ASSUME GenInv, pc = "generate", GenIf
    PROVE  GenInv'
<1>1. UNCHANGED <<prog, at, pc, fault, slot, used, ends, whileArr, whileInt, whileId>>
  BY DEF GenIf, tables
<1>2. PICK D \in Seq(Leaf) : D \o Left(work) = TextRead /\ Handled(D)
  BY Zenon DEF GenInv
<1>3. Nested(work') /\ D \o Left(work') = TextRead
  BY <1>2, IfWork, Zenon
<1> QED
  BY <1>1, <1>2, <1>3, WorkKept

\* An ELSE part that is missing is passed over at once.
LEMMA ElseWork ==
    ASSUME GenInv, pc = "generate", GenElse, NEW D \in Seq(Leaf), D \o Left(work) = TextRead
    PROVE  /\ Nested(work')
           /\ \E G \in Seq(Leaf) : /\ G \o Left(work') = TextRead
                                  /\ (G = D \/ OneMore(G, D, NoStmt))
<1>1. /\ work # <<>> /\ Now.do = "else"
      /\ work' = (IF S.else = NoStmt THEN <<>> ELSE <<Item("stmt", S.else, Append(Now.path, FALSE))>>)
                 \o <<Item("end", S, Now.path)>> \o Tail(work)
      /\ UNCHANGED <<prog, at, tables, pc, fault>>
  BY Zenon DEF GenElse
<1>2. Nested(work)
  BY Zenon DEF GenInv
<1>3. D \in Seq(Leaf) /\ D \o Left(work) = TextRead
  OBVIOUS
<1>4. PICK s, t, n : s = S /\ t = Tail(work) /\ n = Len(t)
  OBVIOUS
<1>5. s.op = "if"
  <2>1. ItemAt(Now, Len(work) - 1)
    BY <1>1, <1>2, NestedTail, Zenon DEF Now
  <2>2. Now.s.op = "if"
    BY <1>1, <2>1 DEF ItemAt
  <2> QED
    BY <1>4, <2>2 DEF S
<1>6. /\ s \in IfOf(Inner) /\ s \in Statement /\ Now \in Items
      /\ Nested(t) /\ n \in 0 .. 1 /\ s \in Kind(n) /\ (s.else = NoStmt \/ s.else \in Kind(n + 1))
  BY <1>1, <1>2, <1>4, <1>5, AtAnIf, Zenon
<1>7. PICK a, b : a = Item("stmt", s.else, Append(Now.path, FALSE)) /\ b = Item("end", s, Now.path)
  OBVIOUS
<1>8. Now.path \in Seq(BOOLEAN)
  BY <1>6 DEF Items
<1>9. b \in Items /\ ItemAt(b, n) /\ Owed(b) = <<>>
  BY <1>5, <1>6, <1>7, <1>8 DEF Items, Item, ItemAt, Owed
<1>10. n <= 1 /\ n <= 2 /\ n + 1 \in Nat
  BY <1>6
<1>11. t \in Seq(Items) /\ Left(t) \in Seq(Leaf)
  BY <1>6, LeftType, Zenon DEF Nested
<1>12. Left(work) = Leaves(s.else) \o Left(t)
  <2>1. Left(work) = Owed(Now) \o Left(t)
    BY <1>1, <1>2, <1>4, LeftSplits, Zenon DEF Now
  <2>2. Owed(Now) = Leaves(s.else)
    BY <1>1, <1>4 DEF Owed, S
  <2> QED
    BY <2>1, <2>2, Zenon
<1>13. <<>> \o Left(t) = Left(t)
  BY <1>11, ConcatEmptySeq, Zenon
<1>14. PICK two \in Seq(Items) : two = <<b>>
  <2>1. <<b>> \in Seq(Items)
    BY <1>9
  <2> QED
    BY <2>1
<1>16. CASE s.else = NoStmt
  <2>1. work' = (<<>> \o two) \o t
    BY <1>1, <1>4, <1>7, <1>14, <1>16, Zenon
  <2>2. <<>> \o two = two
    BY ConcatEmptySeq, Zenon
  <2>3. work' = <<b>> \o t
    BY <1>14, <2>1, <2>2, Zenon
  <2>4. Nested(work') /\ Left(work') = Left(t)
    <3>1. Nested(<<b>> \o t) /\ Left(<<b>> \o t) = Owed(b) \o Left(t)
      BY <1>4, <1>6, <1>9, <1>10, NestedPushed, LeftPushed, Zenon
    <3> QED
      BY <1>9, <1>13, <2>3, <3>1, Zenon
  <2>5. PICK one \in Seq(Leaf) : one = <<NoStmt>>
    <3>1. NoStmt \in Leaf
      BY DEF Leaf
    <3>2. <<NoStmt>> \in Seq(Leaf)
      BY <3>1
    <3> QED
      BY <3>2
  <2>6. PICK F : F = D \o one
    OBVIOUS
  <2>7. F \in Seq(Leaf)
    BY <2>6, ConcatProperties, Zenon
  <2>8. OneMore(F, D, NoStmt)
    BY <2>5, <2>6, Zenon DEF OneMore
  <2>10. Leaves(s.else) = one
    <3>1. NoStmt \in Leaf
      BY DEF Leaf
    <3> QED
      BY <1>16, <2>5, <3>1, LeafLeaves, Zenon
  <2>11. (D \o one) \o Left(t) = D \o (one \o Left(t))
    <3>1. Regroups(D, one, Left(t))
      BY <1>11, Associates, Zenon
    <3> QED
      BY <3>1, Zenon DEF Regroups
  <2>12. F \o Left(work') = TextRead
    BY <1>3, <1>12, <2>4, <2>6, <2>10, <2>11, Zenon
  <2> QED
    BY <2>4, <2>7, <2>8, <2>12, Zenon
<1>17. CASE s.else # NoStmt
  <2>1. s.else \in Kind(n + 1) /\ s.else \in Statement
    BY <1>6, <1>10, <1>17, KindsAreStatements
  <2>2. a \in Items /\ ItemAt(a, n + 1) /\ Owed(a) = Leaves(s.else)
    <3>1. Append(Now.path, FALSE) \in Seq(BOOLEAN)
      BY <1>8
    <3> QED
      BY <1>7, <2>1, <3>1 DEF Items, Item, ItemAt, Owed
  <2>3. PICK one \in Seq(Items) : one = <<a>>
    <3>1. <<a>> \in Seq(Items)
      BY <2>2
    <3> QED
      BY <3>1
  <2>4. work' = (one \o two) \o t
    BY <1>1, <1>4, <1>7, <1>14, <1>17, <2>3, Zenon
  <2>5. (one \o two) \o t = one \o (two \o t)
    <3>1. Regroups(one, two, t)
      BY <1>11, Associates, Zenon
    <3> QED
      BY <3>1, Zenon DEF Regroups
  <2>6. /\ Nested(<<a>> \o (<<b>> \o t))
        /\ Left(<<a>> \o (<<b>> \o t)) = Owed(a) \o (Owed(b) \o Left(t))
    BY <1>4, <1>6, <1>9, <1>10, <2>2, TwoPushed, Zenon
  <2>7. Nested(work') /\ Left(work') = Left(work)
    BY <1>9, <1>12, <1>13, <1>14, <2>2, <2>3, <2>4, <2>5, <2>6, Zenon
  <2>8. D \o Left(work') = TextRead
    BY <1>3, <2>7, Zenon
  <2> QED
    BY <1>3, <2>7, <2>8, Zenon
<1> QED
  BY <1>16, <1>17

LEMMA ElseKept ==
    ASSUME GenInv, pc = "generate", GenElse
    PROVE  GenInv'
<1>1. UNCHANGED <<prog, at, pc, fault, slot, used, ends, whileArr, whileInt, whileId>>
  BY DEF GenElse, tables
<1>2. PICK D \in Seq(Leaf) : D \o Left(work) = TextRead /\ Handled(D)
  BY Zenon DEF GenInv
<1>3. Nested(work')
  BY <1>2, ElseWork, Zenon
<1>4. PICK G \in Seq(Leaf) : G \o Left(work') = TextRead /\ (G = D \/ OneMore(G, D, NoStmt))
  BY <1>2, ElseWork, Zenon
<1>5. Handled(G)
  BY <1>2, <1>4, AbsentHandled, Zenon
<1> QED
  BY <1>1, <1>3, <1>4, <1>5, WorkKept

LEMMA EndIfWork ==
    ASSUME GenInv, pc = "generate", GenEndIf
    PROVE  Nested(work') /\ Left(work') = Left(work)
<1>1. work # <<>> /\ Now.do = "end" /\ work' = Tail(work)
  BY Zenon DEF GenEndIf, Done
<1>2. Nested(work)
  BY Zenon DEF GenInv
<1>3. Nested(Tail(work))
  BY <1>1, <1>2, NestedTail, Zenon
<1>4. Left(work) = Owed(Now) \o Left(Tail(work)) /\ Left(Tail(work)) \in Seq(Leaf)
  BY <1>1, <1>2, LeftSplits, Zenon DEF Now
<1>5. Owed(Now) = <<>>
  BY <1>1 DEF Owed
<1>6. Left(work) = Left(Tail(work))
  BY <1>4, <1>5, ConcatEmptySeq, Zenon
<1> QED
  BY <1>1, <1>3, <1>6, Zenon

LEMMA EndIfKept ==
    ASSUME GenInv, pc = "generate", GenEndIf
    PROVE  GenInv'
<1>1. UNCHANGED <<prog, at, pc, fault, slot, used, ends, whileArr, whileInt, whileId>>
  BY DEF GenEndIf
<1>2. PICK D \in Seq(Leaf) : D \o Left(work) = TextRead /\ Handled(D)
  BY Zenon DEF GenInv
<1>3. Nested(work') /\ D \o Left(work') = TextRead
  BY <1>2, EndIfWork, Zenon
<1> QED
  BY <1>1, <1>2, <1>3, WorkKept

\* A new line owes its whole statement.
LEMMA LineWork ==
    ASSUME GenInv, Line, NEW D \in Seq(Leaf), D \o Left(work) = TextRead
    PROVE  /\ Nested(work') /\ D \o Left(work') = TextRead'
           /\ at + 1 \in 1 .. Len(prog) /\ prog[at + 1] \in Statement
<1>1. /\ pc = "generate" /\ work = <<>> /\ at < Len(prog) /\ at' = at + 1
      /\ work' = <<Item("stmt", prog[at + 1], <<>>)>>
      /\ UNCHANGED <<prog, tables, pc, fault>>
  BY Zenon DEF Line
<1>2. prog \in Seq(Statement) /\ Len(prog) \in Nat
  BY ProgIsSeq
<1>3. at \in 0 .. Len(prog)
  BY <1>1, Zenon DEF GenInv
<1>4. D \o Left(work) = TextRead
  OBVIOUS
<1>5. D = TextRead
  <2>1. D \o <<>> = D
    BY ConcatEmptySeq, Zenon
  <2> QED
    BY <1>1, <1>4, <2>1, NothingLeft, Zenon
<1>6. PICK s, a : s = prog[at + 1] /\ a = Item("stmt", s, <<>>)
  OBVIOUS
<1>7. s \in Statement /\ at + 1 \in 1 .. Len(prog)
  <2>1. at + 1 \in 1 .. Len(prog)
    BY <1>1, <1>2, <1>3
  <2> QED
    BY <1>2, <1>6, <2>1, ElementOfSeq, Zenon
<1>8. a \in Items /\ ItemAt(a, 0) /\ Owed(a) = Leaves(s)
  <2>1. <<>> \in Seq(BOOLEAN) /\ Kind(0) = Statement
    BY DEF Kind
  <2> QED
    BY <1>6, <1>7, <2>1 DEF Items, Item, ItemAt, Owed
<1>9. Nested(work') /\ Left(work') = Leaves(s)
  <2>1. PICK one \in Seq(Items) : one = <<a>>
    <3>1. <<a>> \in Seq(Items)
      BY <1>8
    <3> QED
      BY <3>1
  <2>2. one \o <<>> = one
    BY ConcatEmptySeq, Zenon
  <2>3. PICK none : none = <<>>
    OBVIOUS
  <2>4. Nested(none) /\ Len(none) = 0 /\ Left(none) = <<>>
    BY <2>3, NothingLeft
  <2>5. Len(none) <= 2 /\ ItemAt(a, Len(none))
    BY <1>8, <2>4
  <2>6. Nested(<<a>> \o none) /\ Left(<<a>> \o none) = Owed(a) \o Left(none)
    BY <1>8, <2>4, <2>5, NestedPushed, LeftPushed
  <2>7. Leaves(s) \o <<>> = Leaves(s)
    <3>1. Leaves(s) \in Seq(Leaf)
      BY <1>7, StatementLeaves
    <3> QED
      BY <3>1, ConcatEmptySeq, Zenon
  <2>8. work' = one
    BY <1>1, <1>6, <2>1, Zenon
  <2> QED
    BY <1>8, <2>1, <2>2, <2>3, <2>4, <2>6, <2>7, <2>8, Zenon
<1>10. TextRead' = TextRead \o Leaves(s)
  <2>1. Text(SubSeq(prog, 1, at + 1)) = Text(SubSeq(prog, 1, at)) \o Leaves(prog[at + 1])
    BY <1>1, <1>2, <1>3, TextGrows
  <2>2. prog' = prog /\ at' = at + 1
    BY <1>1
  <2> QED
    BY <1>6, <2>1, <2>2, Zenon DEF TextRead
<1>11. D \o Left(work') = TextRead'
  BY <1>5, <1>9, <1>10, Zenon
<1> QED
  BY <1>6, <1>7, <1>9, <1>11, Zenon

LEMMA LineKept ==
    ASSUME GenInv, Line
    PROVE  GenInv'
<1>1. /\ pc = "generate" /\ at' = at + 1
      /\ UNCHANGED <<prog, tables, pc, fault>>
  BY Zenon DEF Line
<1>2. PICK D \in Seq(Leaf) : D \o Left(work) = TextRead /\ Handled(D)
  BY <1>1, Zenon DEF GenInv
<1>3. /\ Nested(work') /\ D \o Left(work') = TextRead'
      /\ at + 1 \in 1 .. Len(prog)
  BY <1>2, LineWork, Zenon
<1>4. Handled(D)'
  BY <1>1, <1>2, SameHandled, Zenon DEF tables
<1>5. \E G \in Seq(Leaf) : G \o Left(work') = TextRead' /\ Handled(G)'
  BY <1>3, <1>4
<1>6. prog \in Programs /\ Len(prog) \in Nat /\ fault = NoFault
  BY <1>1, ProgIsSeq, Zenon DEF GenInv
<1>7. /\ pc' = "generate" /\ ~(pc' = "fault") /\ fault' = NoFault
      /\ prog' \in Programs /\ at' \in 0 .. Len(prog')
  BY <1>1, <1>3, <1>6
<1> QED
  BY <1>3, <1>5, <1>7, Zenon DEF GenInv

\* Each stop of the compiler has its reason in the text begun.
LEMMA StopKept ==
    ASSUME GenInv, pc = "generate", NEW D, NEW F, Taking(D, F),
           NEW why \in CompileFaults, GenFault(why), StopsNext(why, D, S)
    PROVE  GenInv'
<1>1. pc' = "fault" /\ fault' = why /\ prog' = prog /\ at' = at
  BY DEF GenFault, genVars
<1>2. PICK s : s = S
  OBVIOUS
<1>3. PICK E \in Seq(Leaf) : TextRead = D \o E /\ Len(E) > 0 /\ E[1] = s
  BY <1>2, Zenon DEF Taking
<1>4. D \in Seq(Leaf)
  BY Zenon DEF Taking
<1>5. StopsAt(why, D \o E, Len(D) + 1)
  BY <1>2, <1>3, <1>4, NextStops, Zenon
<1>6. Len(D) + 1 \in DOMAIN (D \o E)
  BY <1>3, <1>4, Joined
<1>7. Stops(why, TextRead)
  BY <1>3, <1>5, <1>6, Zenon DEF Stops
<1>8. TextRead' = TextRead
  BY <1>1 DEF TextRead
<1>9. pc' # "generate" /\ prog' \in Programs /\ at' \in 0 .. Len(prog')
  BY <1>1 DEF GenInv
<1>10. Stops(fault', TextRead')
  BY <1>1, <1>7, <1>8, Zenon
<1> QED
  BY <1>9, <1>10, Zenon DEF GenInv

LEMMA PlainlyKept ==
    ASSUME GenInv, NEW op, NEW instrs, Plainly(op, instrs),
           op \in {"print", "rem", "goto", "gosub", "return", "next", "bump"}
    PROVE  GenInv'
<1>1. /\ pc = "generate" /\ work # <<>> /\ Now.do = "stmt" /\ S.op = op
      /\ Done /\ UNCHANGED <<prog, at, pc, fault>>
  BY Zenon DEF Plainly, Generating
<1>2. S.op # "if"
  BY <1>1
<1>3. PICK D, F : Taking(D, F)
  BY <1>1, <1>2, Taken, Zenon
<1>4. Handled(F)'
  BY <1>3, PlainlyHandled
<1> QED
  BY <1>1, <1>3, <1>4, TakenKept

LEMMA SlottedKept ==
    ASSUME GenInv, NEW op, NEW instrs, Slotted(op, instrs), op \in {"let", "input", "show"}
    PROVE  GenInv'
<1>1. /\ pc = "generate" /\ work # <<>> /\ Now.do = "stmt" /\ S.op = op
      /\ Done /\ UNCHANGED <<prog, at, pc, fault>>
  BY Zenon DEF Slotted, Generating
<1>2. S.op # "if"
  BY <1>1
<1>3. PICK D, F : Taking(D, F)
  BY <1>1, <1>2, Taken, Zenon
<1>4. Handled(F)'
  BY <1>3, SlottedHandled
<1> QED
  BY <1>1, <1>3, <1>4, TakenKept

\* The other statements that change a table.
LEMMA TablesKept ==
    ASSUME GenInv, GenFor \/ GenWhile \/ GenWend \/ GenEnd
    PROVE  GenInv'
<1>1. /\ pc = "generate" /\ work # <<>> /\ Now.do = "stmt" /\ S.op \in {"for", "while", "wend", "end"}
      /\ Done /\ UNCHANGED <<prog, at, pc, fault>>
  BY Zenon DEF GenFor, GenWhile, GenWend, GenEnd, Generating
<1>2. S.op # "if"
  BY <1>1
<1>3. PICK D, F : Taking(D, F)
  BY <1>1, <1>2, Taken, Zenon
<1>4. Handled(F)'
  BY <1>3, ForHandled, WhileHandled, WendHandled, EndHandled, Zenon
<1> QED
  BY <1>1, <1>3, <1>4, TakenKept

LEMMA StopsKept ==
    ASSUME GenInv, FrameLost \/ WhileOverflow \/ WendAlone
    PROVE  GenInv'
<1>1. /\ pc = "generate" /\ work # <<>> /\ Now.do = "stmt"
      /\ S.op \in {"let", "input", "show", "for", "while", "wend"}
  BY Zenon DEF FrameLost, WhileOverflow, WendAlone, Generating
<1>2. S.op # "if"
  BY <1>1
<1>3. PICK D, F : Taking(D, F)
  BY <1>1, <1>2, Taken, Zenon
<1>4. /\ D \in Seq(Leaf)
      /\ ends = Cardinality(Positions(D, {"end"}))
      /\ whileInt = Cardinality(Positions(D, {"wend"})) /\ whileInt <= WhileSize
      /\ \A v \in Vars : slot[v] # 0 <=> Knows(D, v)
      /\ Pending <=> Open(D)
  BY <1>3, Zenon DEF Taking, Handled
<1>5. Cardinality(Positions(D, {"end"})) \in Nat /\ Cardinality(Positions(D, {"wend"})) \in Nat
  BY <1>4, PositionsFinite
<1>6. CASE FrameLost
  <2>1. /\ S.op = "for" \/ (S.op \in {"let", "input", "show"} /\ slot[S.v] = 0)
        /\ ~Framed /\ GenFault("frame")
    BY <1>6, Zenon DEF FrameLost, Generating
  <2>2. Cardinality(Positions(D, {"end"})) > 1
    BY <1>4, <1>5, <2>1 DEF Framed
  <2>3. S.op = "for" \/ (S.op \in {"let", "input", "show"} /\ ~Knows(D, S.v))
    <3>1. S.op \in {"let", "input", "show"} => S.v \in Vars
      BY <1>3 DEF Taking, Plain
    <3> QED
      BY <1>4, <2>1, <3>1
  <2>4. StopsNext("frame", D, S)
    BY <2>2, <2>3, Zenon DEF StopsNext
  <2>5. "frame" \in CompileFaults
    BY DEF CompileFaults
  <2> QED
    BY <1>1, <1>3, <2>1, <2>4, <2>5, StopKept
<1>7. CASE WhileOverflow
  <2>1. S.op = "while" /\ whileInt >= WhileSize /\ GenFault("stack overflow")
    BY <1>7, Zenon DEF WhileOverflow, Generating
  <2>2. Cardinality(Positions(D, {"wend"})) = WhileSize
    <3>1. \A m, n \in Nat : m <= n /\ m >= n => m = n
      OBVIOUS
    <3>2. whileInt \in Nat /\ WhileSize \in Nat
      BY <1>4, <1>5, SizesAssumption
    <3> QED
      BY <1>4, <2>1, <3>1, <3>2, Zenon
  <2>3. StopsNext("stack overflow", D, S)
    BY <2>1, <2>2, Zenon DEF StopsNext
  <2>4. "stack overflow" \in CompileFaults
    BY DEF CompileFaults
  <2> QED
    BY <1>1, <1>3, <2>1, <2>3, <2>4, StopKept
<1>8. CASE WendAlone
  <2>1. S.op = "wend" /\ ~Pending /\ GenFault("no while")
    BY <1>8, Zenon DEF WendAlone, Generating
  <2>2. StopsNext("no while", D, S)
    BY <1>4, <2>1, Zenon DEF StopsNext
  <2>3. "no while" \in CompileFaults
    BY DEF CompileFaults
  <2> QED
    BY <1>1, <1>3, <2>1, <2>2, <2>3, StopKept
<1> QED
  BY <1>6, <1>7, <1>8

\* The machine and its end: the compiler's state stays, and a fault of the
\* machine is none of the compiler's.
LEMMA RunKept ==
    ASSUME GenInv, prog' = prog, at' = at, pc' # "generate",
           \/ pc' = "fault" /\ fault' \in {"return", "no end"}
           \/ pc' # "fault"
           \/ pc' = pc /\ fault' = fault
    PROVE  GenInv'
<1>1. TextRead' = TextRead
  BY DEF TextRead
<1>2. prog' \in Programs /\ at' \in 0 .. Len(prog')
  BY DEF GenInv
<1>3. pc' = "fault" /\ fault' \in CompileFaults => Stops(fault', TextRead')
  <2>1. CASE pc' = "fault" /\ fault' \in {"return", "no end"}
    BY <2>1 DEF CompileFaults
  <2>2. CASE pc' = pc /\ fault' = fault
    BY <1>1, <2>2, Zenon DEF GenInv
  <2> QED
    BY <2>1, <2>2
<1> QED
  BY <1>2, <1>3, Zenon DEF GenInv

LEMMA GenerateKept ==
    ASSUME GenInv, Generate
    PROVE  GenInv'
<1>1. CASE Line
  BY <1>1, LineKept
<1>2. CASE GenPrint
  BY <1>2, PlainlyKept DEF GenPrint
<1>3. CASE GenRem
  BY <1>3, PlainlyKept DEF GenRem
<1>4. CASE GenGoto
  BY <1>4, PlainlyKept DEF GenGoto
<1>5. CASE GenGosub
  BY <1>5, PlainlyKept DEF GenGosub
<1>6. CASE GenReturn
  BY <1>6, PlainlyKept DEF GenReturn
<1>7. CASE GenBump
  BY <1>7, PlainlyKept DEF GenBump
<1>8. CASE GenNext
  BY <1>8, PlainlyKept DEF GenNext
<1>9. CASE GenLet
  BY <1>9, SlottedKept DEF GenLet
<1>10. CASE GenInput
  BY <1>10, SlottedKept DEF GenInput
<1>11. CASE GenShow
  BY <1>11, SlottedKept DEF GenShow
<1>12. CASE GenFor \/ GenWhile \/ GenWend \/ GenEnd
  BY <1>12, TablesKept
<1>13. CASE GenIf
  <2>1. pc = "generate"
    BY <1>13, Zenon DEF GenIf, Generating
  <2> QED
    BY <1>13, <2>1, IfKept
<1>14. CASE GenElse
  <2>1. pc = "generate"
    BY <1>14, Zenon DEF GenElse
  <2> QED
    BY <1>14, <2>1, ElseKept
<1>15. CASE GenEndIf
  <2>1. pc = "generate"
    BY <1>15, Zenon DEF GenEndIf
  <2> QED
    BY <1>15, <2>1, EndIfKept
<1>16. CASE FrameLost \/ WhileOverflow \/ WendAlone
  BY <1>16, StopsKept
<1>17. CASE Assemble
  <2>1. /\ prog' = prog /\ at' = at /\ pc' \in {"run", "rejected"}
    BY <1>17 DEF Assemble, genVars
  <2> QED
    BY <2>1, RunKept
<1> QED
  BY <1>1, <1>2, <1>3, <1>4, <1>5, <1>6, <1>7, <1>8, <1>9, <1>10, <1>11, <1>12, <1>13, <1>14,
     <1>15, <1>16, <1>17, Zenon DEF Generate

LEMMA MachineKept ==
    ASSUME GenInv, Run
    PROVE  GenInv'
<1>1. prog' = prog /\ at' = at /\ pc = "run"
  <2>1. CASE RunLabel
    BY <2>1 DEF RunLabel, Running, Compiled, genVars
  <2>2. CASE RunJump
    BY <2>2 DEF RunJump, Running, Compiled, genVars
  <2>3. CASE RunWhile
    BY <2>3 DEF RunWhile, Running, Compiled, genVars
  <2>4. CASE RunTest
    BY <2>4 DEF RunTest, Running, Compiled, genVars
  <2>5. CASE RunSub
    BY <2>5 DEF RunSub, Running, Compiled, genVars
  <2>6. CASE RunStore
    BY <2>6 DEF RunStore, Running, Compiled, genVars
  <2>7. CASE RunBump
    BY <2>7 DEF RunBump, Running, Compiled, genVars
  <2>8. CASE RunLoad
    BY <2>8 DEF RunLoad, Running, Compiled, genVars
  <2>9. CASE RunFor
    BY <2>9 DEF RunFor, Running, Compiled, genVars
  <2>10. CASE RunIncr
    BY <2>10 DEF RunIncr, Running, Compiled, genVars
  <2>11. CASE RunLoop
    BY <2>11 DEF RunLoop, Running, Compiled, genVars
  <2>12. CASE RunLib
    BY <2>12 DEF RunLib, Running, Compiled, genVars
  <2>13. CASE RunCall
    BY <2>13 DEF RunCall, Running, Compiled, genVars
  <2>14. CASE RunRet
    BY <2>14 DEF RunRet, Running, Compiled, genVars
  <2>15. CASE RunAstray
    BY <2>15 DEF RunAstray, Running, RunFault, genVars
  <2>16. CASE RunExit
    BY <2>16 DEF RunExit, Running, genVars
  <2>17. CASE RanOff
    BY <2>17 DEF RanOff, RunFault, genVars
  <2> QED
    BY <2>1, <2>2, <2>3, <2>4, <2>5, <2>6, <2>7, <2>8, <2>9, <2>10, <2>11, <2>12, <2>13, <2>14,
       <2>15, <2>16, <2>17, Zenon DEF Run
<1>2. \/ pc' = "fault" /\ fault' \in {"return", "no end"}
      \/ pc' = "exited"
      \/ pc' = pc /\ fault' = fault
  <2>1. CASE RunAstray
    BY <2>1 DEF RunAstray, RunFault
  <2>2. CASE RanOff
    BY <2>2 DEF RanOff, RunFault
  <2>3. CASE RunExit
    BY <2>3 DEF RunExit
  <2>4. CASE UNCHANGED Compiled
    BY <2>4 DEF Compiled
  <2> QED
    BY <2>1, <2>2, <2>3, <2>4, Zenon
    DEF Run, RunLabel, RunJump, RunWhile, RunTest, RunSub, RunStore, RunBump, RunLoad, RunFor,
        RunIncr, RunLoop, RunLib, RunCall, RunRet, Compiled
<1>3. pc' # "generate"
  BY <1>1, <1>2
<1> QED
  BY <1>1, <1>2, <1>3, RunKept

-----------------------------------------------------------------------------
(* The invariant, and CompileStops from it.                                *)

LEMMA GenInvStarts == Init => GenInv
<1> SUFFICES ASSUME Init PROVE GenInv
  OBVIOUS
<1>1. /\ prog \in Programs /\ at = 0 /\ work = <<>>
      /\ slot = [v \in Vars |-> 0] /\ used = 0 /\ ends = 0
      /\ whileArr = [k \in 0 .. WhileSize - 1 |-> NoKey] /\ whileInt = 0 /\ whileId = 0
      /\ pc = "generate" /\ fault = NoFault
  BY Zenon DEF Init, GenInit
<1>2. prog \in Seq(Statement)
  BY <1>1, ProgramsAssumption, Zenon
<1>3. TextRead = <<>>
  BY <1>1, <1>2, TextStarts, Zenon DEF TextRead
<1>4. PICK D \in Seq(Leaf) : D = <<>> /\ DOMAIN D = {}
  <2>1. <<>> \in Seq(Leaf) /\ DOMAIN <<>> = {}
    OBVIOUS
  <2> QED
    BY <2>1
<1>5. D \o Left(work) = TextRead
  <2>1. D \o <<>> = D
    BY ConcatEmptySeq, Zenon
  <2> QED
    BY <1>1, <1>3, <1>4, <2>1, NothingLeft, Zenon
<1>6. \A ops : Positions(D, ops) = {}
  BY <1>4 DEF Positions
<1>7. Handled(D)
  <2>1. Cardinality({}) = 0
    BY FS_EmptySet
  <2>2. Cardinality(Positions(D, {"end"})) = 0 /\ Cardinality(Positions(D, {"wend"})) = 0
    BY <1>6, <2>1
  <2>3. \A v : ~Knows(D, v)
    BY <1>6 DEF Knows
  <2>4. ~Open(D)
    BY <1>6 DEF Open
  <2>5. \A why : ~Stops(why, D)
    BY <1>4 DEF Stops
  <2>6. /\ whileArr \in [0 .. WhileSize - 1 -> Int]
        /\ \A k \in 0 .. WhileSize - 1 : k > whileInt => whileArr[k] = NoKey
    BY <1>1 DEF NoKey
  <2>7. ~Pending
    BY <1>1, SizesAssumption DEF Pending
  <2>8. used \in Nat /\ whileId \in Nat /\ slot \in [Vars -> Nat] /\ \A v \in Vars : slot[v] = 0
    BY <1>1
  <2>9. whileInt <= WhileSize
    BY <1>1, SizesAssumption
  <2> QED
    BY <1>1, <2>2, <2>3, <2>4, <2>5, <2>6, <2>7, <2>8, <2>9, Zenon DEF Handled
<1>8. Nested(work)
  BY <1>1, NothingLeft
<1>9. at \in 0 .. Len(prog)
  BY <1>1, <1>2
<1>10. pc # "fault"
  BY <1>1
<1>11. \E G \in Seq(Leaf) : G \o Left(work) = TextRead /\ Handled(G)
  BY <1>5, <1>7
<1> QED
  BY <1>1, <1>8, <1>9, <1>10, <1>11, Zenon DEF GenInv

LEMMA GenInvStep == GenInv /\ [Next]_vars => GenInv'
<1> SUFFICES ASSUME GenInv, [Next]_vars PROVE GenInv'
  OBVIOUS
<1>1. CASE Generate
  BY <1>1, GenerateKept
<1>2. CASE Run
  BY <1>2, MachineKept
<1>3. CASE UNCHANGED vars
  <2>1. UNCHANGED <<prog, at, work, pc, fault, slot, used, ends, whileArr, whileInt, whileId>>
    BY <1>3 DEF vars, genVars, tables
  <2>2. CASE pc = "generate"
    <3>1. PICK D \in Seq(Leaf) : D \o Left(work) = TextRead /\ Handled(D) /\ Nested(work)
      BY <2>2, Zenon DEF GenInv
    <3>2. Nested(work') /\ D \o Left(work') = TextRead
      BY <2>1, <3>1
    <3> QED
      BY <2>1, <2>2, <3>1, <3>2, WorkKept
  <2>3. CASE pc # "generate"
    <3>1. prog' = prog /\ at' = at /\ pc' = pc /\ fault' = fault
      BY <2>1
    <3> QED
      BY <2>3, <3>1, RunKept
  <2> QED
    BY <2>2, <2>3
<1> QED
  BY <1>1, <1>2, <1>3, Zenon DEF Next, Bounded, Exited

LEMMA GenInvStops == GenInv => CompileStops
<1> SUFFICES ASSUME GenInv PROVE CompileStops
  OBVIOUS
<1>1. ASSUME pc = "generate", work = <<>>
      PROVE  \A why \in CompileFaults : ~Stops(why, TextRead)
  <2>1. PICK D \in Seq(Leaf) : D \o Left(work) = TextRead /\ Handled(D)
    BY <1>1, Zenon DEF GenInv
  <2>2. D \o <<>> = D
    BY ConcatEmptySeq, Zenon
  <2>3. D = TextRead
    BY <1>1, <2>1, <2>2, NothingLeft, Zenon
  <2> QED
    BY <2>1, <2>3, Zenon DEF Handled
<1> QED
  BY <1>1, Zenon DEF GenInv, CompileStops

\* In every program, the compiler stops at a statement for just one of the
\* three reasons that its text gives, and never lets such a statement pass:
\* the frames, the cells of whileArr and the slots it keeps count what the
\* text says they count.
THEOREM StopsAreExplained == Spec => []CompileStops
<1>1. Spec => []GenInv
  <2>1. Init => GenInv
    BY GenInvStarts
  <2>2. GenInv /\ [Next]_vars => GenInv'
    BY GenInvStep
  <2> QED
    BY <2>1, <2>2, PTL DEF Spec
<1>2. GenInv => CompileStops
  BY GenInvStops
<1> QED
  BY <1>1, <1>2, PTL

-----------------------------------------------------------------------------
(* The labels in the code and the jumps to them.                           *)

Marks(ins, x) == ins.i = "label" /\ ins.x = x
Names(ins, x) == \/ ins.i \in {"jmp", "skip", "jl", "jge", "call"} /\ ins.x = x
                 \/ ins.i = "loop" /\ ins.x.to = x
Count(c, x)   == Cardinality({ k \in DOMAIN c : Marks(c[k], x) })
NamedIn(c, x) == \E k \in DOMAIN c : Names(c[k], x)
Listed(c)     == c \in Seq({ c[k] : k \in DOMAIN c })

Numbered   == {"goto", "while_iter", "while_cmp", ".false", ".end"}
LabelNames == (Numbered \X Nat) \union ({"for_iter", "for_cmp"} \X Vars)
KnownNames(c) == \A k \in DOMAIN c : \A x : Marks(c[k], x) \/ Names(c[k], x) => x \in LabelNames

\* A line that a jump names has its label as soon as it is begun.
LinesMarked ==
    \A k \in Nat : /\ Count(code, <<"goto", k>>) = IF k \in 1 .. at /\ k \in Targets(prog) THEN 1 ELSE 0
                   /\ NamedIn(code, <<"goto", k>>) => k \in Targets(prog)

\* A FOR makes the one label of its variable and a NEXT the other, and each
\* jumps to the label of the other.
Of(D, op, v) == { k \in Positions(D, {op}) : D[k].v = v }
LoopsMarked(D) ==
    \A v \in Vars : /\ Count(code, <<"for_iter", v>>) = Cardinality(Of(D, "for", v))
                    /\ Count(code, <<"for_cmp", v>>) = Cardinality(Of(D, "next", v))
                    /\ NamedIn(code, <<"for_cmp", v>>) <=> Of(D, "for", v) # {}
                    /\ NamedIn(code, <<"for_iter", v>>) <=> Of(D, "next", v) # {}

\* A WHILE has its number in a cell, that of the loops closed is below
\* whileInt; a number is lost if another WHILE came before a WEND.
Cells        == 0 .. WhileSize - 1
Closed(i)    == \E c \in Cells : c < whileInt /\ whileArr[c] = i
LostIn(D)    == \E k, l \in Positions(D, {"while"}) :
                    k < l /\ \A m \in Positions(D, {"wend"}) : m < k \/ l < m
WhilesMarked(D) ==
    /\ \A i \in Nat : /\ Count(code, <<"while_iter", i>>) = IF i < whileId THEN 1 ELSE 0
                      /\ Count(code, <<"while_cmp", i>>) = IF Closed(i) THEN 1 ELSE 0
                      /\ NamedIn(code, <<"while_cmp", i>>) <=> i < whileId
                      /\ NamedIn(code, <<"while_iter", i>>) => i < whileId
    /\ \A c \in Cells : /\ whileArr[c] \in NoKey .. whileId - 1
                        /\ c < whileInt => whileArr[c] # NoKey
    /\ \A c, d \in Cells : c # d /\ whileArr[c] # NoKey => whileArr[c] # whileArr[d]
    /\ LostIn(D) <=> \E i \in 0 .. whileId - 1 : \A c \in Cells : c <= whileInt => whileArr[c] # i

\* An IF whose ELSE part is an IF.
ElseIf(s) == s.op = "if" /\ s.else.op = "if"
Ended(w)  == \E l \in DOMAIN w : w[l].do = "end"
\* Such an IF is still to be met, or the second of its two ELSE parts.
Coming(w) == \/ \E k \in DOMAIN w : w[k].do # "end" /\ ElseIf(w[k].s)
             \/ \E k, l \in DOMAIN w : k < l /\ w[l].do = "end" /\ w[k].do # "end" /\ w[k].s.op = "if"

\* As long as no second ELSE part was met within a first, each number below
\* if_ind has its two labels, and if_ind one just if an ELSE part is under way.
IfsMarked ==
    /\ \A n \in Nat :
          /\ Count(code, <<".false", n>>) = IF n < if_ind \/ (n = if_ind /\ Ended(work)) THEN 1 ELSE 0
          /\ Count(code, <<".end", n>>) = IF n < if_ind THEN 1 ELSE 0
          /\ NamedIn(code, <<".false", n>>) \/ NamedIn(code, <<".end", n>>) =>
                n < if_ind \/ (n = if_ind /\ \E k \in DOMAIN work : work[k].do # "stmt")
    /\ \A k \in 2 .. Len(work) : work[k].do # "stmt"
    /\ \A k, l \in DOMAIN work : work[k].do = "end" /\ work[l].do = "end" => k = l
    /\ \A k \in 1 .. at - 1 : ~ElseIf(prog[k])
    /\ at > 0 => (ElseIf(prog[at]) <=> Coming(work))
Doubled ==
    /\ \E n \in Nat : Count(code, <<".false", n>>) > 1
    /\ \E k \in 1 .. at : ElseIf(prog[k])

Coded(D) ==
    /\ Listed(code) /\ KnownNames(code) /\ if_ind \in Nat /\ (work # <<>> => at # 0)
    /\ LinesMarked /\ LoopsMarked(D) /\ WhilesMarked(D)
    /\ (IfsMarked \/ Doubled)

LabelInv ==
    /\ pc = "generate" => \E D \in Seq(Leaf) : D \o Left(work) = TextRead /\ Coded(D)
    /\ LabelsExplained

-----------------------------------------------------------------------------
(* What instructions appended to the code add to the labels and jumps.     *)

LEMMA ItsOwnRange ==
    ASSUME NEW T, NEW c \in Seq(T)
    PROVE  Listed(c) /\ Len(c) \in Nat /\ DOMAIN c = 1 .. Len(c)
<1>1. Len(c) \in Nat /\ DOMAIN c = 1 .. Len(c) /\ c \in [1 .. Len(c) -> T]
  BY LenProperties
<1>2. PICK R : R = { c[k] : k \in DOMAIN c }
  OBVIOUS
<1>3. c \in [1 .. Len(c) -> R]
  BY <1>1, <1>2
<1>4. c \in Seq(R)
  BY <1>1, <1>3, SeqDef
<1> QED
  BY <1>1, <1>2, <1>4, Zenon DEF Listed

LEMMA ListedIsSeq ==
    ASSUME NEW c, Listed(c)
    PROVE  Len(c) \in Nat /\ DOMAIN c = 1 .. Len(c)
<1>1. PICK R : c \in Seq(R)
  BY Zenon DEF Listed
<1> QED
  BY <1>1, ItsOwnRange, Zenon

LEMMA JoinedCode ==
    ASSUME NEW c, Listed(c), NEW T, NEW E \in Seq(T), NEW j, j = c \o E
    PROVE  /\ Listed(j) /\ Len(c) \in Nat /\ Len(E) \in Nat
           /\ DOMAIN c = 1 .. Len(c) /\ DOMAIN E = 1 .. Len(E)
           /\ DOMAIN j = 1 .. Len(c) + Len(E)
           /\ \A k \in 1 .. Len(c) : j[k] = c[k]
           /\ \A k \in 1 .. Len(E) : j[Len(c) + k] = E[k]
<1>1. PICK R : c \in Seq(R)
  BY Zenon DEF Listed
<1>2. PICK U : U = R \union T
  OBVIOUS
<1>3. c \in Seq(U) /\ E \in Seq(U)
  BY <1>1, <1>2, SeqMonotonic
<1>4. Len(c) \in Nat /\ DOMAIN c = 1 .. Len(c) /\ Len(E) \in Nat /\ DOMAIN E = 1 .. Len(E)
  BY <1>3, LenProperties
<1>6. /\ j \in Seq(U) /\ Len(j) = Len(c) + Len(E)
      /\ \A k \in 1 .. Len(c) + Len(E) : j[k] = IF k <= Len(c) THEN c[k] ELSE E[k - Len(c)]
  BY <1>3, ConcatProperties, Zenon
<1>7. Listed(j) /\ DOMAIN j = 1 .. Len(c) + Len(E)
  BY <1>6, ItsOwnRange
<1>8. \A k \in 1 .. Len(c) : j[k] = c[k]
  BY <1>4, <1>6
<1>9. \A k \in 1 .. Len(E) : j[Len(c) + k] = E[k]
  <2> SUFFICES ASSUME NEW k \in 1 .. Len(E) PROVE j[Len(c) + k] = E[k]
    OBVIOUS
  <2>1. Len(c) + k \in 1 .. Len(c) + Len(E) /\ ~(Len(c) + k <= Len(c)) /\ (Len(c) + k) - Len(c) = k
    BY <1>4
  <2> QED
    BY <1>6, <2>1
<1> QED
  BY <1>4, <1>7, <1>8, <1>9, Zenon

LEMMA MarksFinite ==
    ASSUME NEW c, Listed(c), NEW x
    PROVE  IsFiniteSet({ k \in DOMAIN c : Marks(c[k], x) }) /\ Count(c, x) \in Nat
<1>1. Len(c) \in Nat /\ DOMAIN c = 1 .. Len(c)
  BY ListedIsSeq
<1>2. IsFiniteSet(1 .. Len(c))
  BY <1>1, FS_Interval
<1>3. PICK M : M = { k \in DOMAIN c : Marks(c[k], x) }
  OBVIOUS
<1>4. M \subseteq 1 .. Len(c)
  BY <1>1, <1>3
<1>5. IsFiniteSet(M) /\ Cardinality(M) \in Nat
  BY <1>2, <1>4, FS_Subset, FS_CardinalityType
<1> QED
  BY <1>3, <1>5, Zenon DEF Count

LEMMA NoneMarked ==
    ASSUME NEW c, Listed(c), NEW T, NEW E \in Seq(T), \A k \in DOMAIN E : E[k].i # "label", NEW x
    PROVE  Count(c \o E, x) = Count(c, x)
<1>1. PICK j : j = c \o E
  OBVIOUS
<1>2. /\ Len(c) \in Nat /\ Len(E) \in Nat /\ DOMAIN c = 1 .. Len(c) /\ DOMAIN E = 1 .. Len(E)
      /\ DOMAIN j = 1 .. Len(c) + Len(E)
      /\ \A k \in 1 .. Len(c) : j[k] = c[k]
      /\ \A k \in 1 .. Len(E) : j[Len(c) + k] = E[k]
  BY <1>1, JoinedCode
<1>3. ASSUME NEW k
      PROVE  k \in DOMAIN j /\ Marks(j[k], x) <=> k \in DOMAIN c /\ Marks(c[k], x)
  <2>1. CASE k \in 1 .. Len(c)
    BY <1>2, <2>1
  <2>2. CASE k \in 1 .. Len(c) + Len(E) /\ k \notin 1 .. Len(c)
    <3>1. k - Len(c) \in 1 .. Len(E) /\ Len(c) + (k - Len(c)) = k
      BY <1>2, <2>2
    <3>2. j[k].i # "label"
      BY <1>2, <3>1
    <3> QED
      BY <1>2, <2>2, <3>2 DEF Marks
  <2>3. CASE k \notin 1 .. Len(c) + Len(E)
    BY <1>2, <2>3
  <2> QED
    BY <2>1, <2>2, <2>3
<1>4. { k \in DOMAIN j : Marks(j[k], x) } = { k \in DOMAIN c : Marks(c[k], x) }
  BY <1>3, Zenon
<1> QED
  BY <1>1, <1>4, Zenon DEF Count

LEMMA OneMarked ==
    ASSUME NEW c, Listed(c), NEW T, NEW E \in Seq(T), NEW e \in DOMAIN E, E[e].i = "label",
           \A k \in DOMAIN E : k # e => E[k].i # "label", NEW x
    PROVE  /\ E[e].x = x => Count(c \o E, x) = Count(c, x) + 1
           /\ E[e].x # x => Count(c \o E, x) = Count(c, x)
<1>1. PICK j : j = c \o E
  OBVIOUS
<1>2. /\ Len(c) \in Nat /\ Len(E) \in Nat /\ DOMAIN c = 1 .. Len(c) /\ DOMAIN E = 1 .. Len(E)
      /\ DOMAIN j = 1 .. Len(c) + Len(E)
      /\ \A k \in 1 .. Len(c) : j[k] = c[k]
      /\ \A k \in 1 .. Len(E) : j[Len(c) + k] = E[k]
  BY <1>1, JoinedCode
<1>3. ASSUME NEW k
      PROVE  k \in DOMAIN j /\ Marks(j[k], x) <=> \/ k \in DOMAIN c /\ Marks(c[k], x)
                                                  \/ k = Len(c) + e /\ E[e].x = x
  <2>1. CASE k \in 1 .. Len(c)
    BY <1>2, <2>1
  <2>2. CASE k \in 1 .. Len(c) + Len(E) /\ k \notin 1 .. Len(c)
    <3>1. k - Len(c) \in 1 .. Len(E) /\ Len(c) + (k - Len(c)) = k
      BY <1>2, <2>2
    <3>2. j[k] = E[k - Len(c)]
      BY <1>2, <3>1
    <3>3. k - Len(c) = e <=> k = Len(c) + e
      BY <1>2, <3>1
    <3> QED
      BY <1>2, <2>2, <3>1, <3>2, <3>3 DEF Marks
  <2>3. CASE k \notin 1 .. Len(c) + Len(E)
    BY <1>2, <2>3
  <2> QED
    BY <2>1, <2>2, <2>3
<1>4. PICK M, N : M = { k \in DOMAIN c : Marks(c[k], x) } /\ N = { k \in DOMAIN j : Marks(j[k], x) }
  OBVIOUS
<1>5. IsFiniteSet(M) /\ Len(c) + e \notin M
  <2>1. IsFiniteSet(M)
    BY <1>4, MarksFinite, Zenon
  <2>2. Len(c) + e \notin DOMAIN c
    BY <1>2
  <2>3. M \subseteq DOMAIN c
    BY <1>4
  <2> QED
    BY <2>1, <2>2, <2>3, Zenon
<1>6. CASE E[e].x = x
  <2>1. N = M \union {Len(c) + e}
    BY <1>3, <1>4, <1>6
  <2>2. Cardinality(N) = Cardinality(M) + 1
    BY <1>5, <2>1, FS_AddElement
  <2> QED
    BY <1>1, <1>4, <1>6, <2>2, Zenon DEF Count
<1>7. CASE E[e].x # x
  <2>1. N = M
    BY <1>3, <1>4, <1>7
  <2> QED
    BY <1>1, <1>4, <1>7, <2>1, Zenon DEF Count
<1> QED
  BY <1>6, <1>7

LEMMA NamedJoined ==
    ASSUME NEW c, Listed(c), NEW T, NEW E \in Seq(T), NEW x
    PROVE  NamedIn(c \o E, x) <=> NamedIn(c, x) \/ NamedIn(E, x)
<1>1. PICK j : j = c \o E
  OBVIOUS
<1>2. /\ Len(c) \in Nat /\ Len(E) \in Nat /\ DOMAIN c = 1 .. Len(c) /\ DOMAIN E = 1 .. Len(E)
      /\ DOMAIN j = 1 .. Len(c) + Len(E)
      /\ \A k \in 1 .. Len(c) : j[k] = c[k]
      /\ \A k \in 1 .. Len(E) : j[Len(c) + k] = E[k]
  BY <1>1, JoinedCode
<1>3. ASSUME NEW k \in DOMAIN j, Names(j[k], x)
      PROVE  NamedIn(c, x) \/ NamedIn(E, x)
  <2>1. CASE k \in 1 .. Len(c)
    BY <1>2, <1>3, <2>1 DEF NamedIn
  <2>2. CASE k \notin 1 .. Len(c)
    <3>1. k - Len(c) \in 1 .. Len(E) /\ Len(c) + (k - Len(c)) = k
      BY <1>2, <2>2
    <3>2. Names(E[k - Len(c)], x)
      BY <1>2, <1>3, <3>1
    <3> QED
      BY <1>2, <3>1, <3>2, Zenon DEF NamedIn
  <2> QED
    BY <2>1, <2>2
<1>4. ASSUME NEW k \in DOMAIN c, Names(c[k], x)
      PROVE  NamedIn(j, x)
  <2>1. k \in DOMAIN j /\ j[k] = c[k]
    BY <1>2
  <2> QED
    BY <1>4, <2>1, Zenon DEF NamedIn
<1>5. ASSUME NEW k \in DOMAIN E, Names(E[k], x)
      PROVE  NamedIn(j, x)
  <2>1. Len(c) + k \in DOMAIN j /\ j[Len(c) + k] = E[k]
    BY <1>2
  <2> QED
    BY <1>5, <2>1, Zenon DEF NamedIn
<1> QED
  BY <1>1, <1>3, <1>4, <1>5, Zenon DEF NamedIn

\* A step adds the labels Y, none of them twice, and jumps to the labels Z.
Adds(Y, Z) ==
    /\ Listed(code') /\ KnownNames(code')
    /\ \A x : /\ x \in Y => Count(code', x) = Count(code, x) + 1
              /\ x \notin Y => Count(code', x) = Count(code, x)
              /\ NamedIn(code', x) <=> NamedIn(code, x) \/ x \in Z

LEMMA OneLabelMore ==
    ASSUME Listed(code), NEW T, NEW E \in Seq(T), code' = code \o E,
           NEW e \in DOMAIN E, E[e].i = "label", \A k \in DOMAIN E : k # e => E[k].i # "label"
    PROVE  \A x : /\ E[e].x = x => Count(code', x) = Count(code, x) + 1
                  /\ E[e].x # x => Count(code', x) = Count(code, x)
<1>1. \A x : /\ E[e].x = x => Count(code \o E, x) = Count(code, x) + 1
             /\ E[e].x # x => Count(code \o E, x) = Count(code, x)
  BY OneMarked, Zenon
<1> QED
  BY <1>1, Zenon

LEMMA Adding ==
    ASSUME Listed(code), KnownNames(code), NEW T, NEW E \in Seq(T), Emit(E),
           NEW Y \in SUBSET LabelNames, NEW Z \in SUBSET LabelNames,
           \/ Y = {} /\ \A k \in DOMAIN E : E[k].i # "label"
           \/ \E e \in DOMAIN E : /\ E[e].i = "label" /\ Y = {E[e].x}
                                  /\ \A k \in DOMAIN E : k # e => E[k].i # "label",
           \A x : NamedIn(E, x) <=> x \in Z
    PROVE  Adds(Y, Z)
<1>1. code' = code \o E /\ Listed(code')
  BY JoinedCode, Zenon DEF Emit
<1>2. \A x : NamedIn(code', x) <=> NamedIn(code, x) \/ x \in Z
  BY <1>1, NamedJoined, Zenon
<1>3. \A x : /\ x \in Y => Count(code', x) = Count(code, x) + 1
             /\ x \notin Y => Count(code', x) = Count(code, x)
  <2>1. CASE Y = {} /\ \A k \in DOMAIN E : E[k].i # "label"
    BY <1>1, <2>1, NoneMarked, Zenon
  <2>2. ASSUME NEW e \in DOMAIN E, E[e].i = "label", Y = {E[e].x},
               \A k \in DOMAIN E : k # e => E[k].i # "label"
        PROVE  \A x : /\ x \in Y => Count(code', x) = Count(code, x) + 1
                      /\ x \notin Y => Count(code', x) = Count(code, x)
    <3>1. \A x : /\ E[e].x = x => Count(code', x) = Count(code, x) + 1
                 /\ E[e].x # x => Count(code', x) = Count(code, x)
      BY <1>1, <2>2, OneLabelMore, Zenon
    <3> QED
      BY <2>2, <3>1
  <2> QED
    BY <2>1, <2>2
<1>4. KnownNames(code')
  <2> SUFFICES ASSUME NEW k \in DOMAIN code', NEW x, Marks(code'[k], x) \/ Names(code'[k], x)
               PROVE  x \in LabelNames
    BY DEF KnownNames
  <2>1. /\ Len(code) \in Nat /\ Len(E) \in Nat /\ DOMAIN code = 1 .. Len(code) /\ DOMAIN E = 1 .. Len(E)
        /\ DOMAIN code' = 1 .. Len(code) + Len(E)
        /\ \A m \in 1 .. Len(code) : code'[m] = code[m]
        /\ \A m \in 1 .. Len(E) : code'[Len(code) + m] = E[m]
    BY <1>1, JoinedCode
  <2>2. CASE k \in 1 .. Len(code)
    BY <2>1, <2>2 DEF KnownNames
  <2>3. CASE k \notin 1 .. Len(code)
    <3>1. PICK m \in DOMAIN E : code'[k] = E[m]
      <4>1. k - Len(code) \in 1 .. Len(E) /\ Len(code) + (k - Len(code)) = k
        BY <2>1, <2>3
      <4> QED
        BY <2>1, <4>1
    <3>2. CASE Names(E[m], x)
      BY <3>2 DEF NamedIn
    <3>3. CASE Marks(E[m], x)
      BY <3>3 DEF Marks
    <3> QED
      BY <3>1, <3>2, <3>3
  <2> QED
    BY <2>2, <2>3
<1> QED
  BY <1>1, <1>2, <1>3, <1>4 DEF Adds

-----------------------------------------------------------------------------
(* The text: its statements are those of the program, and one more of them *)
(* changes what is said of FOR, NEXT and WHILE only if it is one.          *)

LEMMA SamePrefix ==
    ASSUME NEW D \in Seq(Leaf), NEW E \in Seq(Leaf), NEW D2 \in Seq(Leaf), NEW E2 \in Seq(Leaf),
           D \o E = D2 \o E2, Len(E) = Len(E2)
    PROVE  D = D2
<1>1. /\ Len(D) \in Nat /\ Len(E) \in Nat /\ Len(D \o E) = Len(D) + Len(E)
      /\ \A k \in 1 .. Len(D) : (D \o E)[k] = D[k]
  BY Joined, Zenon
<1>2. /\ Len(D2) \in Nat /\ Len(E2) \in Nat /\ Len(D2 \o E2) = Len(D2) + Len(E2)
      /\ \A k \in 1 .. Len(D2) : (D2 \o E2)[k] = D2[k]
  BY Joined, Zenon
<1>3. PICK T : T = D \o E /\ T = D2 \o E2
  BY Zenon
<1>4. /\ Len(T) = Len(D) + Len(E) /\ \A k \in 1 .. Len(D) : T[k] = D[k]
      /\ Len(T) = Len(D2) + Len(E2) /\ \A k \in 1 .. Len(D2) : T[k] = D2[k]
  BY <1>1, <1>2, <1>3, Zenon
<1>5. Len(D) = Len(D2)
  BY <1>1, <1>2, <1>4
<1>6. \A k \in 1 .. Len(D) : D[k] = D2[k]
  BY <1>4, <1>5, Zenon
<1> QED
  BY <1>5, <1>6, SeqEqual, Zenon

\* The lines begun are the start of the program's text.
LEMMA TextReadFirst ==
    ASSUME NEW p \in Seq(Statement), NEW m \in 0 .. Len(p)
    PROVE  \E G \in Seq(Leaf) : /\ Text(SubSeq(p, 1, m)) \in Seq(Leaf)
                                /\ Text(p) = Text(SubSeq(p, 1, m)) \o G
<1>0. Len(p) \in Nat
  OBVIOUS
<1>1. PICK f : Joins(f, p, Len(p)) /\ Text(p) = f[Len(p)]
  BY TextJoins
<1>2. /\ f[0] = <<>>
      /\ \A k \in 0 .. Len(p) : k + 1 <= Len(p) => f[k + 1] = f[k] \o Leaves(p[k + 1])
  BY <1>0, <1>1, JoinsSteps
<1>3. \A k \in 0 .. Len(p) : k + 1 <= Len(p) => Leaves(p[k + 1]) \in Seq(Leaf)
  <2> SUFFICES ASSUME NEW k \in 0 .. Len(p), k + 1 <= Len(p) PROVE Leaves(p[k + 1]) \in Seq(Leaf)
    OBVIOUS
  <2>1. k + 1 \in 1 .. Len(p)
    BY <1>0
  <2> QED
    BY <2>1, ElementOfSeq, StatementLeaves, Zenon
<1> DEFINE N == { k \in Nat : k <= Len(p) => f[k] \in Seq(Leaf) }
<1>4. 0 \in N
  <2>1. <<>> \in Seq(Leaf)
    OBVIOUS
  <2> QED
    BY <1>2, <2>1
<1>5. ASSUME NEW k \in N
      PROVE  k + 1 \in N
  <2> SUFFICES ASSUME k + 1 <= Len(p) PROVE f[k + 1] \in Seq(Leaf)
    OBVIOUS
  <2>1. k \in 0 .. Len(p) /\ f[k] \in Seq(Leaf)
    BY <1>0
  <2> QED
    BY <1>2, <1>3, <2>1, LeavesJoined, Zenon
<1> HIDE DEF N
<1>6. N = Nat
  <2>1. N \in SUBSET Nat
    BY DEF N
  <2> QED
    BY <1>4, <1>5, <2>1, InductiveSet, Zenon
<1>7. \A k \in 0 .. Len(p) : f[k] \in Seq(Leaf)
  BY <1>0, <1>6 DEF N
<1> DEFINE Longer(n) == n <= Len(p) => \E G \in Seq(Leaf) : f[n] = f[m] \o G
           M         == { k \in Nat : Longer(m + k) }
<1>8. 0 \in M
  <2>1. <<>> \in Seq(Leaf) /\ f[m] \in Seq(Leaf) /\ m + 0 = m
    BY <1>7
  <2>2. f[m] \o <<>> = f[m]
    BY <2>1, ConcatEmptySeq, Zenon
  <2>3. \E G \in Seq(Leaf) : f[m + 0] = f[m] \o G
    BY <2>1, <2>2, Zenon
  <2>4. Longer(m + 0)
    BY <2>3
  <2> HIDE DEF Longer
  <2> QED
    BY <2>4
<1>9. ASSUME NEW k \in M
      PROVE  k + 1 \in M
  <2>0. Longer(m + k) /\ k + 1 \in Nat
    <3> HIDE DEF Longer
    <3> QED
      OBVIOUS
  <2> SUFFICES ASSUME m + (k + 1) <= Len(p) PROVE \E G \in Seq(Leaf) : f[m + (k + 1)] = f[m] \o G
    <3>1. Longer(m + (k + 1)) => k + 1 \in M
      <4> HIDE DEF Longer
      <4> QED
        BY <2>0
    <3> QED
      BY <3>1
  <2>1. m + k \in 0 .. Len(p) /\ m + (k + 1) = (m + k) + 1 /\ (m + k) + 1 <= Len(p) /\ m + k <= Len(p)
    BY <1>0
  <2>2. PICK G \in Seq(Leaf) : f[m + k] = f[m] \o G
    BY <2>0, <2>1, Zenon
  <2>3. PICK H \in Seq(Leaf) : f[(m + k) + 1] = f[m + k] \o H
    <3>1. PICK n : n = m + k /\ n \in 0 .. Len(p) /\ n + 1 <= Len(p)
      BY <2>1
    <3>2. f[n + 1] = f[n] \o Leaves(p[n + 1]) /\ Leaves(p[n + 1]) \in Seq(Leaf)
      BY <1>2, <1>3, <3>1, Zenon
    <3> QED
      BY <3>1, <3>2, Zenon
  <2>4. f[m] \in Seq(Leaf)
    BY <1>7
  <2>5. PICK a \in Seq(Leaf) : a = f[m]
    BY <2>4
  <2>6. (a \o G) \o H = a \o (G \o H)
    <3>1. Regroups(a, G, H)
      BY Associates, Zenon
    <3> QED
      BY <3>1, Zenon DEF Regroups
  <2>7. G \o H \in Seq(Leaf)
    BY ConcatProperties, Zenon
  <2> QED
    BY <2>1, <2>2, <2>3, <2>5, <2>6, <2>7, Zenon
<1> HIDE DEF M
<1>10. M = Nat
  <2>1. M \in SUBSET Nat
    BY DEF M
  <2> QED
    BY <1>8, <1>9, <2>1, InductiveSet, Zenon
<1>11. Len(p) - m \in Nat /\ m + (Len(p) - m) = Len(p)
  BY <1>0
<1>12. \E G \in Seq(Leaf) : f[Len(p)] = f[m] \o G
  <2>1. Len(p) - m \in M
    BY <1>10, <1>11
  <2>2. Longer(Len(p))
    <3> HIDE DEF Longer
    <3> QED
      BY <1>11, <2>1 DEF M
  <2>3. Len(p) <= Len(p)
    BY <1>0
  <2> QED
    BY <2>2, <2>3, Zenon
<1>13. Text(SubSeq(p, 1, m)) = f[m]
  BY <1>1, TextOfPrefix
<1> QED
  BY <1>1, <1>7, <1>12, <1>13, Zenon

\* A jump met goes to a line of the program.
LEMMA JumpsToLine ==
    ASSUME GenInv, NEW D, NEW F, Taking(D, F), S.op \in {"goto", "gosub"}
    PROVE  S.to \in Targets(prog) /\ S.to \in Nat
<1>1. prog \in Seq(Statement) /\ Len(prog) \in Nat /\ at \in 0 .. Len(prog)
  BY ProgIsSeq, Zenon DEF GenInv
<1>2. PICK s : s = S
  OBVIOUS
<1>3. PICK E \in Seq(Leaf) : TextRead = D \o E /\ Len(E) > 0 /\ E[1] = s
  BY <1>2, Zenon DEF Taking
<1>4. D \in Seq(Leaf) /\ s \in Plain
  BY <1>2, Zenon DEF Taking
<1>5. PICK T : T = TextRead
  OBVIOUS
<1>6. PICK G \in Seq(Leaf) : T \in Seq(Leaf) /\ Text(prog) = T \o G
  BY <1>1, <1>5, TextReadFirst, Zenon DEF TextRead
<1>7. PICK k : k = Len(D) + 1
  OBVIOUS
<1>8. k \in 1 .. Len(T) /\ T[k] = s
  <2>1. T = D \o E
    BY <1>3, <1>5
  <2> QED
    BY <1>3, <1>4, <1>7, <2>1, Joined
<1>9. PICK U : U = T \o G
  OBVIOUS
<1>10. k \in DOMAIN U /\ U[k] = s
  BY <1>6, <1>8, <1>9, Joined
<1>11. U[k].op \in {"goto", "gosub"} /\ U = Text(prog)
  BY <1>2, <1>6, <1>9, <1>10
<1>12. U[k].to \in Targets(prog)
  BY <1>10, <1>11, Zenon DEF Targets
<1>13. s.to \in Nat
  BY <1>2, <1>4 DEF Plain
<1> QED
  BY <1>2, <1>10, <1>12, <1>13, Zenon

\* D is the same in what GenInv and what LabelInv say of it.
LEMMA TakenCoded ==
    ASSUME GenInv, LabelInv, pc = "generate", work # <<>>, Now.do = "stmt", S.op # "if"
    PROVE  \E D, F : Taking(D, F) /\ Coded(D)
<1>1. PICK D, F : Taking(D, F)
  BY Taken, Zenon
<1>2. PICK C \in Seq(Leaf) : C \o Left(work) = TextRead /\ Coded(C)
  BY Zenon DEF LabelInv
<1>3. PICK s : s = S
  OBVIOUS
<1>4. /\ D \in Seq(Leaf) /\ F \in Seq(Leaf) /\ s \in Leaf /\ OneMore(F, D, s)
      /\ Nested(Tail(work)) /\ F \o Left(Tail(work)) = TextRead
  BY <1>1, <1>3, Zenon DEF Taking
<1>5. PICK one \in Seq(Leaf) : one = <<s>>
  <2>1. <<s>> \in Seq(Leaf)
    BY <1>4
  <2> QED
    BY <2>1
<1>6. PICK L \in Seq(Leaf) : L = Left(Tail(work))
  BY <1>4, LeftType, Zenon
<1>7. Left(work) = one \o L
  <2>1. Left(work) = Owed(Now) \o L
    BY <1>6, LeftSplits, Zenon DEF Now, GenInv
  <2>2. Owed(Now) = Leaves(s)
    BY <1>3 DEF Owed, S
  <2> QED
    BY <1>4, <1>5, <2>1, <2>2, LeafLeaves, Zenon
<1>8. F = D \o one
  BY <1>4, <1>5, Zenon DEF OneMore
<1>9. (D \o one) \o L = D \o (one \o L)
  <2>1. Regroups(D, one, L)
    BY <1>4, Associates, Zenon
  <2> QED
    BY <2>1, Zenon DEF Regroups
<1>10. PICK E \in Seq(Leaf) : E = one \o L
  <2>1. one \o L \in Seq(Leaf)
    BY ConcatProperties, Zenon
  <2> QED
    BY <2>1
<1>11. D \o E = C \o E
  BY <1>2, <1>4, <1>6, <1>7, <1>8, <1>9, <1>10, Zenon
<1>12. D = C
  BY <1>4, <1>11, SamePrefix, Zenon
<1> QED
  BY <1>1, <1>2, <1>12, Zenon

\* What one more statement changes of the loops in a text.
AppendsOf(F, D, s, op, v) ==
    /\ ~(s.op = op /\ s.v = v) => Of(F, op, v) = Of(D, op, v)
    /\ s.op = op /\ s.v = v => Of(F, op, v) = Of(D, op, v) \union {Len(D) + 1}
    /\ IsFiniteSet(Of(D, op, v)) /\ Len(D) + 1 \notin Of(D, op, v)

LEMMA AppendedOf ==
    ASSUME NEW D \in Seq(Leaf), NEW s \in Leaf, NEW F, OneMore(F, D, s), NEW op, NEW v
    PROVE  AppendsOf(F, D, s, op, v)
<1>1. /\ s.op = op => Positions(F, {op}) = Positions(D, {op}) \union {Len(D) + 1}
      /\ s.op # op => Positions(F, {op}) = Positions(D, {op})
      /\ Positions(D, {op}) \subseteq 1 .. Len(D)
  <2>1. \A ops : /\ s.op \in ops => Positions(F, ops) = Positions(D, ops) \union {Len(D) + 1}
                 /\ s.op \notin ops => Positions(F, ops) = Positions(D, ops)
                 /\ Positions(D, ops) \subseteq 1 .. Len(D)
    BY AppendedPositions, Zenon
  <2>2. s.op \in {op} <=> s.op = op
    OBVIOUS
  <2> QED
    BY <2>1, <2>2, Zenon
<1>2. /\ Len(D) \in Nat /\ F[Len(D) + 1] = s
      /\ \A k \in 1 .. Len(D) : F[k] = D[k]
  BY Appended
<1>3. \A k \in Positions(D, {op}) : F[k] = D[k]
  BY <1>1, <1>2
<1>4. ~(s.op = op /\ s.v = v) => Of(F, op, v) = Of(D, op, v)
  BY <1>1, <1>2, <1>3 DEF Of
<1>5. s.op = op /\ s.v = v => Of(F, op, v) = Of(D, op, v) \union {Len(D) + 1}
  BY <1>1, <1>2, <1>3 DEF Of
<1>6. Of(D, op, v) \subseteq Positions(D, {op}) /\ IsFiniteSet(Positions(D, {op}))
  BY PositionsFinite DEF Of
<1>7. Len(D) + 1 \notin 1 .. Len(D)
  BY <1>2
<1>8. IsFiniteSet(Of(D, op, v))
  BY <1>6, FS_Subset, Zenon
<1>9. Len(D) + 1 \notin Of(D, op, v)
  BY <1>1, <1>6, <1>7, Zenon
<1> QED
  BY <1>4, <1>5, <1>8, <1>9, Zenon DEF AppendsOf

LEMMA AppendedLost ==
    ASSUME NEW D \in Seq(Leaf), NEW s \in Leaf, NEW F, OneMore(F, D, s)
    PROVE  /\ s.op # "while" => (LostIn(F) <=> LostIn(D))
           /\ s.op = "while" => (LostIn(F) <=> LostIn(D) \/ Open(D))
<1>1. \A ops : /\ s.op \in ops => Positions(F, ops) = Positions(D, ops) \union {Len(D) + 1}
               /\ s.op \notin ops => Positions(F, ops) = Positions(D, ops)
               /\ Positions(D, ops) \subseteq 1 .. Len(D)
  BY AppendedPositions, Zenon
<1>2. Len(D) \in Nat
  OBVIOUS
<1>3. PICK W, N : W = Positions(D, {"while"}) /\ N = Positions(D, {"wend"})
  OBVIOUS
<1>4. W \subseteq 1 .. Len(D) /\ N \subseteq 1 .. Len(D)
  BY <1>1, <1>3, Zenon
<1>5. PICK V, Y : V = Positions(F, {"while"}) /\ Y = Positions(F, {"wend"})
  OBVIOUS
<1>6. LostIn(D) <=> \E k, l \in W : k < l /\ \A m \in N : m < k \/ l < m
  BY <1>3, Zenon DEF LostIn
<1>7. LostIn(F) <=> \E k, l \in V : k < l /\ \A m \in Y : m < k \/ l < m
  BY <1>5, Zenon DEF LostIn
<1>8. CASE s.op \notin {"while", "wend"}
  <2>1. V = W /\ Y = N
    BY <1>1, <1>3, <1>5, <1>8
  <2> QED
    BY <1>6, <1>7, <1>8, <2>1
<1>9. CASE s.op = "wend"
  <2>1. V = W /\ Y = N \union {Len(D) + 1}
    BY <1>1, <1>3, <1>5, <1>9
  <2>2. \A l \in W : l < Len(D) + 1
    BY <1>2, <1>4
  <2> QED
    BY <1>6, <1>7, <1>9, <2>1, <2>2
<1>10. CASE s.op = "while"
  <2>1. V = W \union {Len(D) + 1} /\ Y = N
    BY <1>1, <1>3, <1>5, <1>10
  <2>2. Open(D) <=> \E m \in W : N \subseteq 1 .. m
    BY <1>3, Zenon DEF Open
  <2>3. ASSUME Open(D)
        PROVE  LostIn(F)
    <3>1. PICK k \in W : N \subseteq 1 .. k
      BY <2>2, <2>3
    <3>2. k \in 1 .. Len(D) /\ k < Len(D) + 1
      BY <1>2, <1>4
    <3>3. k \notin N
      BY <1>3 DEF Positions
    <3>4. \A m \in N : m < k
      BY <3>1, <3>2, <3>3
    <3> QED
      BY <1>7, <2>1, <3>2, <3>4, Zenon
  <2>4. ASSUME LostIn(D)
        PROVE  LostIn(F)
    BY <1>6, <1>7, <2>1, <2>4
  <2>5. ASSUME LostIn(F), ~LostIn(D)
        PROVE  Open(D)
    <3>1. PICK k \in V, l \in V : k < l /\ \A m \in Y : m < k \/ l < m
      BY <1>7, <2>5
    <3>2. CASE l \in W
      <4>1. k \in W
        BY <1>2, <1>4, <2>1, <3>1, <3>2
      <4> QED
        BY <1>6, <2>1, <2>5, <3>1, <3>2, <4>1, Zenon
    <3>3. CASE l = Len(D) + 1
      <4>1. k \in W
        BY <1>2, <2>1, <3>1, <3>3
      <4>2. \A m \in N : m \in 1 .. k
        BY <1>2, <1>4, <2>1, <3>1, <3>3, <4>1
      <4> QED
        BY <2>2, <4>1, <4>2
    <3> QED
      BY <2>1, <3>2, <3>3
  <2> QED
    BY <1>10, <2>3, <2>4, <2>5
<1> QED
  BY <1>8, <1>9, <1>10

\* Every WHILE is closed just if none is open at the end and none was lost.
LEMMA ClosedLoops ==
    ASSUME NEW t \in Seq(Leaf)
    PROVE  WhilesClosed(t) <=> ~LostIn(t) /\ ~Open(t)
<1>1. PICK W, N : W = Positions(t, {"while"}) /\ N = Positions(t, {"wend"})
  OBVIOUS
<1>2. W \subseteq Nat \ {0} /\ N \subseteq Nat \ {0} /\ \A k \in W : k \notin N
  <2>1. DOMAIN t = 1 .. Len(t) /\ Len(t) \in Nat
    OBVIOUS
  <2> QED
    BY <1>1, <2>1 DEF Positions
<1>3. WhilesClosed(t) <=> \A k \in W : \E m \in N : m > k /\ { l \in W : l < m } \subseteq 1 .. k
  BY <1>1, Zenon DEF WhilesClosed, Before
<1>4. LostIn(t) <=> \E k, l \in W : k < l /\ \A m \in N : m < k \/ l < m
  BY <1>1, Zenon DEF LostIn
<1>5. Open(t) <=> \E m \in W : N \subseteq 1 .. m
  BY <1>1, Zenon DEF Open
<1>6. ASSUME WhilesClosed(t), LostIn(t)
      PROVE  FALSE
  <2>1. PICK k \in W, l \in W : k < l /\ \A m \in N : m < k \/ l < m
    BY <1>4, <1>6
  <2>2. PICK m \in N : m > k /\ { j \in W : j < m } \subseteq 1 .. k
    BY <1>3, <1>6
  <2>3. l < m
    BY <1>2, <2>1, <2>2
  <2>4. l \in 1 .. k
    BY <2>2, <2>3
  <2> QED
    BY <1>2, <2>1, <2>4
<1>7. ASSUME WhilesClosed(t), Open(t)
      PROVE  FALSE
  <2>1. PICK k \in W : N \subseteq 1 .. k
    BY <1>5, <1>7
  <2>2. PICK m \in N : m > k
    BY <1>3, <1>7
  <2> QED
    BY <1>2, <2>1, <2>2
<1>8. ASSUME ~LostIn(t), ~Open(t), NEW k \in W
      PROVE  \E m \in N : m > k /\ { l \in W : l < m } \subseteq 1 .. k
  <2>1. PICK Y : Y = { m \in N : m > k }
    OBVIOUS
  <2>2. Y \in SUBSET Nat /\ Y # {}
    <3>1. ~(N \subseteq 1 .. k)
      BY <1>5, <1>8
    <3>2. PICK m \in N : m \notin 1 .. k
      BY <3>1
    <3>3. m > k
      BY <1>2, <3>2
    <3> QED
      BY <1>2, <2>1, <3>3
  <2>3. PICK m \in Y : \A n \in Y : m <= n
    BY <2>2, LeastNumber, Zenon
  <2>4. ASSUME NEW l \in W, l < m, l \notin 1 .. k
        PROVE  FALSE
    <3>1. k < l
      BY <1>2, <2>4
    <3>2. PICK n \in N : ~(n < k) /\ ~(l < n)
      BY <1>4, <1>8, <3>1
    <3>3. n # k /\ n \in Nat /\ k \in Nat /\ l \in Nat /\ m \in Nat
      BY <1>2, <2>2
    <3>4. n \in Y
      BY <2>1, <3>2, <3>3
    <3> QED
      BY <2>3, <2>4, <3>2, <3>3, <3>4
  <2> QED
    BY <2>1, <2>3, <2>4
<1> QED
  BY <1>3, <1>6, <1>7, <1>8

-----------------------------------------------------------------------------
(* The assembler: all labels differ just if each is there at most once.    *)

LEMMA CountsOf ==
    ASSUME NEW c, Listed(c), NEW x
    PROVE  /\ Count(c, x) \in Nat
           /\ Count(c, x) # 0 <=> \E k \in DOMAIN c : Marks(c[k], x)
           /\ Count(c, x) <= 1 <=> \A k, l \in DOMAIN c : Marks(c[k], x) /\ Marks(c[l], x) => k = l
<1>1. PICK M : M = { k \in DOMAIN c : Marks(c[k], x) }
  OBVIOUS
<1>2. IsFiniteSet(M) /\ Count(c, x) = Cardinality(M) /\ Count(c, x) \in Nat
  BY <1>1, MarksFinite, Zenon DEF Count
<1>3. Count(c, x) # 0 <=> M # {}
  BY <1>2, FS_EmptySet
<1>4. ASSUME \A k, l \in M : k = l
      PROVE  Count(c, x) <= 1
  <2>1. CASE M = {}
    BY <1>2, <1>3, <2>1
  <2>2. ASSUME NEW k \in M
        PROVE  Count(c, x) <= 1
    <3>1. M = {k}
      BY <1>4
    <3>2. Cardinality(M) = 1
      BY <3>1, FS_Singleton
    <3> QED
      BY <1>2, <3>2
  <2> QED
    BY <2>1, <2>2
<1>5. ASSUME Count(c, x) <= 1, NEW k \in M, NEW l \in M
      PROVE  k = l
  <2>1. Cardinality(M) = 1
    BY <1>2, <1>3, <1>5
  <2>2. PICK y : M = {y}
    BY <1>2, <2>1, FS_Singleton
  <2> QED
    BY <1>5, <2>2
<1> QED
  BY <1>1, <1>2, <1>3, <1>4, <1>5

LEMMA AssemblesIf ==
    ASSUME Listed(code)
    PROVE  Assembles <=> \A x : Count(code, x) <= 1 /\ (NamedIn(code, x) => Count(code, x) # 0)
<1>1. Len(code) \in Nat /\ DOMAIN code = 1 .. Len(code)
  BY ListedIsSeq
<1>2. IsFiniteSet(Labels)
  <2>1. IsFiniteSet(1 .. Len(code))
    BY <1>1, FS_Interval
  <2>2. Labels \subseteq 1 .. Len(code)
    BY <1>1 DEF Labels
  <2> QED
    BY <2>1, <2>2, FS_Subset, Zenon
<1>3. PICK f : f = [k \in Labels |-> code[k].x]
  OBVIOUS
<1>4. f \in Surjection(Labels, Defined)
  <2>1. f \in [Labels -> Defined]
    BY <1>3 DEF Defined
  <2>2. \A y \in Defined : \E k \in Labels : f[k] = y
    BY <1>3 DEF Defined
  <2> QED
    BY <2>1, <2>2 DEF Surjection
<1>5. Cardinality(Labels) = Cardinality(Defined) <=> f \in Injection(Labels, Defined)
  BY <1>2, <1>4, FS_Surjection
<1>6. f \in Injection(Labels, Defined) <=> \A k, l \in Labels : code[k].x = code[l].x => k = l
  <2>1. f \in [Labels -> Defined] /\ \A k \in Labels : f[k] = code[k].x
    BY <1>3, <1>4 DEF Surjection
  <2> QED
    BY <2>1 DEF Injection, IsInjective
<1>7. (\A k, l \in Labels : code[k].x = code[l].x => k = l) <=>
      \A x : \A k, l \in DOMAIN code : Marks(code[k], x) /\ Marks(code[l], x) => k = l
  BY Zenon DEF Labels, Marks
<1>8. \A x : Count(code, x) <= 1 <=>
             \A k, l \in DOMAIN code : Marks(code[k], x) /\ Marks(code[l], x) => k = l
  BY CountsOf, Zenon
<1>9. \A x : x \in Defined <=> Count(code, x) # 0
  <2>1. \A x : x \in Defined <=> \E k \in DOMAIN code : Marks(code[k], x)
    BY DEF Defined, Labels, Marks
  <2>2. \A x : Count(code, x) # 0 <=> \E k \in DOMAIN code : Marks(code[k], x)
    BY CountsOf, Zenon
  <2> QED
    BY <2>1, <2>2, Zenon
<1>10. \A x : x \in Named <=> NamedIn(code, x)
  <2>1. \A ins : ins \in CodeOf({"jmp", "skip", "jl", "jge", "call"}) <=>
                 \E m \in DOMAIN code : code[m].i \in {"jmp", "skip", "jl", "jge", "call"} /\ code[m] = ins
    BY DEF CodeOf
  <2>2. \A ins : ins \in CodeOf({"loop"}) <=> \E m \in DOMAIN code : code[m].i = "loop" /\ code[m] = ins
    BY DEF CodeOf
  <2>3. ASSUME NEW x, NEW m \in DOMAIN code, Names(code[m], x)
        PROVE  x \in Named
    BY <2>1, <2>2, <2>3 DEF Names, Named
  <2>4. ASSUME NEW x \in Named
        PROVE  \E m \in DOMAIN code : Names(code[m], x)
    BY <2>1, <2>2, <2>4 DEF Names, Named
  <2> QED
    BY <2>3, <2>4, Zenon DEF NamedIn
<1>11. Named \subseteq Defined <=> \A x : NamedIn(code, x) => Count(code, x) # 0
  BY <1>9, <1>10, Zenon
<1> QED
  BY <1>5, <1>6, <1>7, <1>8, <1>11, Zenon DEF Assembles

\* A label that is there at most once, and is there if it is jumped to.
Right(x) == Count(code, x) <= 1 /\ (NamedIn(code, x) => Count(code, x) # 0)

LEMMA RightNames ==
    ASSUME Listed(code), KnownNames(code)
    PROVE  Assembles <=> \A x \in LabelNames : Right(x)
<1>1. ASSUME NEW x, x \notin LabelNames
      PROVE  Right(x)
  <2>1. ~NamedIn(code, x)
    BY <1>1, Zenon DEF NamedIn, KnownNames
  <2>2. ~(\E k \in DOMAIN code : Marks(code[k], x))
    BY <1>1, Zenon DEF KnownNames
  <2>3. Count(code, x) = 0
    BY <2>2, CountsOf, Zenon
  <2>4. Count(code, x) <= 1
    BY <2>3
  <2> QED
    BY <2>1, <2>4, Zenon DEF Right
<1> QED
  BY <1>1, AssemblesIf, Zenon DEF Right

\* When the last line is done, every line that a jump names has its label.
LEMMA LinesRight ==
    ASSUME LinesMarked, prog \in Programs, at = Len(prog)
    PROVE  \A k \in Nat : Right(<<"goto", k>>)
<1> SUFFICES ASSUME NEW k \in Nat PROVE Right(<<"goto", k>>)
  OBVIOUS
<1>1. PICK x : x = <<"goto", k>>
  OBVIOUS
<1>2. /\ Count(code, x) = IF k \in 1 .. at /\ k \in Targets(prog) THEN 1 ELSE 0
      /\ NamedIn(code, x) => k \in Targets(prog)
  BY <1>1, Zenon DEF LinesMarked
<1>3. prog \in Seq(Statement) /\ Targets(prog) \subseteq DOMAIN prog
  BY ProgramsAssumption
<1>4. k \in Targets(prog) => k \in 1 .. at
  BY <1>3
<1> QED
  BY <1>1, <1>2, <1>4 DEF Right

LEMMA LoopsRight ==
    ASSUME NEW D \in Seq(Leaf), LoopsMarked(D)
    PROVE  LoopsPaired(D) <=> \A v \in Vars : Right(<<"for_iter", v>>) /\ Right(<<"for_cmp", v>>)
<1>1. ASSUME NEW v \in Vars
      PROVE  Right(<<"for_iter", v>>) /\ Right(<<"for_cmp", v>>) <=>
             /\ Cardinality(Of(D, "for", v)) = Cardinality(Of(D, "next", v))
             /\ Cardinality(Of(D, "for", v)) <= 1
  <2>1. PICK x, y : x = <<"for_iter", v>> /\ y = <<"for_cmp", v>>
    OBVIOUS
  <2>2. PICK N, Y : N = Of(D, "for", v) /\ Y = Of(D, "next", v)
    OBVIOUS
  <2>3. /\ Count(code, x) = Cardinality(N) /\ Count(code, y) = Cardinality(Y)
        /\ NamedIn(code, y) <=> N # {}
        /\ NamedIn(code, x) <=> Y # {}
    BY <2>1, <2>2, Zenon DEF LoopsMarked
  <2>4. IsFiniteSet(N) /\ IsFiniteSet(Y)
    <3>1. N \subseteq Positions(D, {"for"}) /\ Y \subseteq Positions(D, {"next"})
      BY <2>2 DEF Of
    <3> QED
      BY <3>1, PositionsFinite, FS_Subset
  <2>5. /\ Cardinality(N) \in Nat /\ Cardinality(Y) \in Nat
        /\ N # {} <=> Cardinality(N) # 0
        /\ Y # {} <=> Cardinality(Y) # 0
    BY <2>4, FS_EmptySet, FS_CardinalityType
  <2>6. Right(x) /\ Right(y) <=> Cardinality(N) = Cardinality(Y) /\ Cardinality(N) <= 1
    BY <2>3, <2>5 DEF Right
  <2> QED
    BY <2>1, <2>2, <2>6, Zenon
<1>2. \A v : /\ Of(D, "for", v) = { k \in Positions(D, {"for"}) : D[k].v = v }
             /\ Of(D, "next", v) = { k \in Positions(D, {"next"}) : D[k].v = v }
  BY DEF Of
<1>3. LoopsPaired(D) <=> \A v \in Vars :
          /\ Cardinality(Of(D, "for", v)) = Cardinality(Of(D, "next", v))
          /\ Cardinality(Of(D, "for", v)) <= 1
  BY <1>2 DEF LoopsPaired
<1> QED
  BY <1>1, <1>3, Zenon

\* What Handled says of the cells, as the proofs about loops need it.
CellsKept(D) ==
    /\ whileInt \in Nat /\ whileInt <= WhileSize /\ whileId \in Nat
    /\ \A k \in Cells : k > whileInt => whileArr[k] = NoKey
    /\ Open(D) <=> whileInt \in Cells /\ whileArr[whileInt] # NoKey

LEMMA HandledCells ==
    ASSUME NEW D \in Seq(Leaf), Handled(D)
    PROVE  CellsKept(D) /\ whileArr \in [Cells -> Int]
<1>1. /\ whileInt = Cardinality(Positions(D, {"wend"})) /\ whileInt <= WhileSize
      /\ whileId \in Nat /\ whileArr \in [Cells -> Int]
      /\ \A k \in Cells : k > whileInt => whileArr[k] = NoKey
      /\ Pending <=> Open(D)
  BY Zenon DEF Handled, Cells
<1>2. whileInt \in Nat
  BY <1>1, PositionsFinite
<1>3. Pending <=> whileInt \in Cells /\ whileArr[whileInt] # NoKey
  BY <1>2, SizesAssumption DEF Pending, Cells
<1> QED
  BY <1>1, <1>2, <1>3, Zenon DEF CellsKept

LEMMA WhilesRight ==
    ASSUME NEW D \in Seq(Leaf), WhilesMarked(D), CellsKept(D)
    PROVE  WhilesClosed(D) <=> \A i \in Nat : Right(<<"while_iter", i>>) /\ Right(<<"while_cmp", i>>)
<1>1. \A i \in Nat : /\ Count(code, <<"while_iter", i>>) = IF i < whileId THEN 1 ELSE 0
                     /\ Count(code, <<"while_cmp", i>>) = IF Closed(i) THEN 1 ELSE 0
                     /\ NamedIn(code, <<"while_cmp", i>>) <=> i < whileId
                     /\ NamedIn(code, <<"while_iter", i>>) => i < whileId
  BY Zenon DEF WhilesMarked
<1>2. ASSUME NEW i \in Nat
      PROVE  Right(<<"while_iter", i>>) /\ Right(<<"while_cmp", i>>) <=> (i < whileId => Closed(i))
  <2>1. PICK x, y : x = <<"while_iter", i>> /\ y = <<"while_cmp", i>>
    OBVIOUS
  <2>2. /\ Count(code, x) = IF i < whileId THEN 1 ELSE 0
        /\ Count(code, y) = IF Closed(i) THEN 1 ELSE 0
        /\ NamedIn(code, y) <=> i < whileId
        /\ NamedIn(code, x) => i < whileId
    BY <1>1, <2>1, Zenon
  <2>3. Right(x) /\ Right(y) <=> (i < whileId => Closed(i))
    BY <2>2 DEF Right
  <2> QED
    BY <2>1, <2>3, Zenon
<1>3. /\ \A c \in Cells : /\ whileArr[c] \in NoKey .. whileId - 1
                          /\ c < whileInt => whileArr[c] # NoKey
      /\ \A c, d \in Cells : c # d /\ whileArr[c] # NoKey => whileArr[c] # whileArr[d]
      /\ LostIn(D) <=> \E i \in 0 .. whileId - 1 : \A c \in Cells : c <= whileInt => whileArr[c] # i
  BY Zenon DEF WhilesMarked
<1>4. /\ whileInt \in Nat /\ whileId \in Nat
      /\ Open(D) <=> whileInt \in Cells /\ whileArr[whileInt] # NoKey
  BY Zenon DEF CellsKept
<1>5. Cells \subseteq Int
  BY SizesAssumption DEF Cells
<1>6. ASSUME \A i \in Nat : i < whileId => Closed(i)
      PROVE  ~LostIn(D) /\ ~Open(D)
  <2>1. ASSUME LostIn(D)
        PROVE  FALSE
    <3>1. PICK i \in 0 .. whileId - 1 : \A c \in Cells : c <= whileInt => whileArr[c] # i
      BY <1>3, <2>1
    <3>2. i \in Nat /\ i < whileId
      BY <1>4
    <3>3. PICK c \in Cells : c < whileInt /\ whileArr[c] = i
      BY <1>6, <3>2, Zenon DEF Closed
    <3>4. c <= whileInt
      BY <1>4, <1>5, <3>3
    <3> QED
      BY <3>1, <3>3, <3>4
  <2>2. ASSUME Open(D)
        PROVE  FALSE
    <3>1. whileInt \in Cells /\ whileArr[whileInt] # NoKey /\ whileArr[whileInt] \in NoKey .. whileId - 1
      BY <1>3, <1>4, <2>2
    <3>2. whileArr[whileInt] \in Nat /\ whileArr[whileInt] < whileId
      BY <1>4, <3>1 DEF NoKey
    <3>3. PICK c \in Cells : c < whileInt /\ whileArr[c] = whileArr[whileInt]
      BY <1>6, <3>2, Zenon DEF Closed
    <3>4. c # whileInt
      BY <1>4, <1>5, <3>3
    <3> QED
      BY <1>3, <3>1, <3>3, <3>4, Zenon
  <2> QED
    BY <2>1, <2>2
<1>7. ASSUME ~LostIn(D), ~Open(D), NEW i \in Nat, i < whileId
      PROVE  Closed(i)
  <2>1. i \in 0 .. whileId - 1
    BY <1>4, <1>7
  <2>2. PICK c \in Cells : c <= whileInt /\ whileArr[c] = i
    BY <1>3, <1>7, <2>1
  <2>3. c # whileInt
    BY <1>4, <1>7, <2>2 DEF NoKey
  <2>4. c < whileInt
    BY <1>4, <1>5, <2>2, <2>3
  <2> QED
    BY <2>2, <2>4 DEF Closed
<1> QED
  BY <1>2, <1>6, <1>7, ClosedLoops, Zenon

\* Only the ELSE part of an IF that is itself no part of one can be an IF.
LEMMA NoInnerElseIf == \A s \in Part : ~ElseIf(s)
<1>1. \A s \in Leaf : ~ElseIf(s)
  BY PlainIsNoIf, Zenon DEF ElseIf
<1>2. \A s \in IfOf(Plain) : ~ElseIf(s)
  <2>1. \A s \in IfOf(Plain) : s.else \in Leaf
    BY IfParts DEF Leaf
  <2> QED
    BY <2>1, PlainIsNoIf, Zenon DEF ElseIf
<1> QED
  BY <1>1, <1>2, PartParts, Zenon

LEMMA NoElseIfs ==
    ASSUME NEW p \in Seq(Statement)
    PROVE  NoElseIf(p) <=> \A k \in DOMAIN p : ~ElseIf(p[k])
<1>1. ASSUME NEW k \in DOMAIN p, p[k].op = "if"
      PROVE  p[k].then.op = "if" => p[k].then.else.op # "if"
  <2>1. p[k] \in IfOf(Inner)
    BY <1>1, StatementKinds
  <2>2. p[k].then \in Part
    BY <2>1, IfLeaves
  <2> QED
    BY <2>2, NoInnerElseIf, Zenon DEF ElseIf
<1> QED
  BY <1>1, Zenon DEF NoElseIf, ElseIf

LEMMA IfsRight ==
    ASSUME prog \in Seq(Statement), at = Len(prog), work = <<>>, if_ind \in Nat, Listed(code),
           IfsMarked \/ Doubled
    PROVE  NoElseIf(prog) <=> \A n \in Nat : Right(<<".false", n>>) /\ Right(<<".end", n>>)
<1>1. Len(prog) \in Nat /\ DOMAIN prog = 1 .. Len(prog)
  OBVIOUS
<1>2. CASE IfsMarked
  <2>1. DOMAIN work = {}
    BY DEF IfsMarked
  <2>2. ~Ended(work) /\ ~Coming(work) /\ ~(\E k \in DOMAIN work : work[k].do # "stmt")
    BY <2>1 DEF Ended, Coming
  <2>3. /\ \A n \in Nat :
            /\ Count(code, <<".false", n>>) = IF n < if_ind \/ (n = if_ind /\ Ended(work)) THEN 1 ELSE 0
            /\ Count(code, <<".end", n>>) = IF n < if_ind THEN 1 ELSE 0
            /\ NamedIn(code, <<".false", n>>) \/ NamedIn(code, <<".end", n>>) =>
                  n < if_ind \/ (n = if_ind /\ \E k \in DOMAIN work : work[k].do # "stmt")
        /\ \A k \in 1 .. at - 1 : ~ElseIf(prog[k])
        /\ at > 0 => (ElseIf(prog[at]) <=> Coming(work))
    BY <1>2, Zenon DEF IfsMarked
  <2>4. \A k \in DOMAIN prog : ~ElseIf(prog[k])
    BY <1>1, <2>2, <2>3
  <2>5. ASSUME NEW n \in Nat
        PROVE  Right(<<".false", n>>) /\ Right(<<".end", n>>)
    <3>1. PICK x, y : x = <<".false", n>> /\ y = <<".end", n>>
      OBVIOUS
    <3>2. /\ Count(code, x) = IF n < if_ind THEN 1 ELSE 0
          /\ Count(code, y) = IF n < if_ind THEN 1 ELSE 0
          /\ NamedIn(code, x) \/ NamedIn(code, y) => n < if_ind
      BY <2>2, <2>3, <3>1, Zenon
    <3>3. Right(x) /\ Right(y)
      BY <3>2 DEF Right
    <3> QED
      BY <3>1, <3>3
  <2> QED
    BY <2>4, <2>5, NoElseIfs, Zenon
<1>3. CASE Doubled
  <2>1. PICK n \in Nat : Count(code, <<".false", n>>) > 1
    BY <1>3 DEF Doubled
  <2>2. PICK k \in 1 .. at : ElseIf(prog[k])
    BY <1>3 DEF Doubled
  <2>3. ~NoElseIf(prog)
    BY <1>1, <2>2, NoElseIfs
  <2>4. PICK x : x = <<".false", n>>
    OBVIOUS
  <2>5. ASSUME Right(x)
        PROVE  FALSE
    <3>1. Count(code, x) > 1 /\ Count(code, x) <= 1
      BY <2>1, <2>4, <2>5, Zenon DEF Right
    <3>2. Listed(code) => Count(code, x) \in Nat
      BY CountsOf, Zenon
    <3> QED
      BY <3>1, <3>2
  <2> QED
    BY <2>3, <2>4, <2>5
<1> QED
  BY <1>2, <1>3

\* The end of the generation: the code can be assembled just if it should.
LEMMA AssemblesMatched ==
    ASSUME GenInv, LabelInv, pc = "generate", work = <<>>, at = Len(prog)
    PROVE  Assembles <=> Matched(prog)
<1>1. prog \in Programs /\ prog \in Seq(Statement) /\ Len(prog) \in Nat
  BY ProgIsSeq, Zenon DEF GenInv
<1>2. PICK D \in Seq(Leaf) : D \o Left(work) = TextRead /\ Handled(D)
  BY Zenon DEF GenInv
<1>3. PICK C \in Seq(Leaf) : C \o Left(work) = TextRead /\ Coded(C)
  BY Zenon DEF LabelInv
<1>4. D = Text(prog) /\ C = Text(prog)
  <2>1. SubSeq(prog, 1, Len(prog)) = prog
    <3>1. PICK q : q = SubSeq(prog, 1, Len(prog))
      OBVIOUS
    <3>2. q \in Seq(Statement) /\ Len(q) = Len(prog) /\ \A k \in 1 .. Len(prog) : q[k] = prog[k]
      BY <1>1, <3>1
    <3>3. q = prog
      BY <1>1, <3>2, SeqEqual, Zenon
    <3> QED
      BY <3>1, <3>3
  <2>2. TextRead = Text(prog)
    BY <2>1, Zenon DEF TextRead
  <2>3. D \o <<>> = D /\ C \o <<>> = C
    BY ConcatEmptySeq, Zenon
  <2> QED
    BY <1>2, <1>3, <2>2, <2>3, NothingLeft, Zenon
<1>5. /\ Listed(code) /\ KnownNames(code) /\ if_ind \in Nat
      /\ LinesMarked /\ LoopsMarked(D) /\ WhilesMarked(D) /\ (IfsMarked \/ Doubled)
  BY <1>3, <1>4, Zenon DEF Coded
<1>6. CellsKept(D)
  BY <1>2, HandledCells, Zenon
<1>7. Matched(prog) <=> /\ \A v \in Vars : Right(<<"for_iter", v>>) /\ Right(<<"for_cmp", v>>)
                        /\ \A i \in Nat : Right(<<"while_iter", i>>) /\ Right(<<"while_cmp", i>>)
                        /\ \A n \in Nat : Right(<<".false", n>>) /\ Right(<<".end", n>>)
  <2>1. LoopsPaired(D) <=> \A v \in Vars : Right(<<"for_iter", v>>) /\ Right(<<"for_cmp", v>>)
    BY <1>5, LoopsRight, Zenon
  <2>2. WhilesClosed(D) <=> \A i \in Nat : Right(<<"while_iter", i>>) /\ Right(<<"while_cmp", i>>)
    BY <1>5, <1>6, WhilesRight, Zenon
  <2>3. NoElseIf(prog) <=> \A n \in Nat : Right(<<".false", n>>) /\ Right(<<".end", n>>)
    BY <1>1, <1>5, IfsRight, Zenon
  <2> QED
    BY <1>4, <2>1, <2>2, <2>3, Zenon DEF Matched
<1>8. \A k \in Nat : Right(<<"goto", k>>)
  BY <1>1, <1>5, LinesRight, Zenon
<1>9. (\A x \in LabelNames : Right(x)) <=>
          /\ \A k \in Nat : Right(<<"goto", k>>)
          /\ \A v \in Vars : Right(<<"for_iter", v>>) /\ Right(<<"for_cmp", v>>)
          /\ \A i \in Nat : Right(<<"while_iter", i>>) /\ Right(<<"while_cmp", i>>)
          /\ \A n \in Nat : Right(<<".false", n>>) /\ Right(<<".end", n>>)
  <2>1. \A x : x \in LabelNames <=>
               \/ \E k \in Nat : \/ x = <<"goto", k>> \/ x = <<"while_iter", k>> \/ x = <<"while_cmp", k>>
                                 \/ x = <<".false", k>> \/ x = <<".end", k>>
               \/ \E v \in Vars : x = <<"for_iter", v>> \/ x = <<"for_cmp", v>>
    BY DEF LabelNames, Numbered
  <2>2. /\ \A k \in Nat : /\ <<"goto", k>> \in LabelNames /\ <<"while_iter", k>> \in LabelNames
                           /\ <<"while_cmp", k>> \in LabelNames /\ <<".false", k>> \in LabelNames
                           /\ <<".end", k>> \in LabelNames
        /\ \A v \in Vars : <<"for_iter", v>> \in LabelNames /\ <<"for_cmp", v>> \in LabelNames
    BY <2>1
  <2>3. ASSUME NEW k \in Nat, Right(<<"goto", k>>),
               Right(<<"while_iter", k>>) /\ Right(<<"while_cmp", k>>),
               Right(<<".false", k>>) /\ Right(<<".end", k>>), NEW x,
               \/ x = <<"goto", k>> \/ x = <<"while_iter", k>> \/ x = <<"while_cmp", k>>
               \/ x = <<".false", k>> \/ x = <<".end", k>>
        PROVE  Right(x)
    BY <2>3, Zenon
  <2>4. ASSUME NEW v \in Vars, Right(<<"for_iter", v>>) /\ Right(<<"for_cmp", v>>), NEW x,
               x = <<"for_iter", v>> \/ x = <<"for_cmp", v>>
        PROVE  Right(x)
    BY <2>4, Zenon
  <2> QED
    BY <2>1, <2>2, <2>3, <2>4, Zenon
<1> QED
  BY <1>5, <1>7, <1>8, <1>9, RightNames, Zenon

-----------------------------------------------------------------------------
(* A step that adds no label and no jump of a kind keeps what is said of   *)
(* that kind.                                                              *)

Same(x) == Count(code', x) = Count(code, x) /\ (NamedIn(code', x) <=> NamedIn(code, x))

LEMMA AddsSame ==
    ASSUME NEW Y, NEW Z, Adds(Y, Z)
    PROVE  /\ \A x : x \notin Y /\ x \notin Z => Same(x)
           /\ Listed(code') /\ KnownNames(code')
BY Zenon DEF Adds, Same

LEMMA LinesKept ==
    ASSUME LinesMarked, UNCHANGED <<prog, at>>, \A k \in Nat : Same(<<"goto", k>>)
    PROVE  LinesMarked'
<1>1. prog' = prog /\ at' = at
  OBVIOUS
<1> QED
  BY <1>1, Zenon DEF LinesMarked, Same

LEMMA LoopsKept ==
    ASSUME NEW D, LoopsMarked(D), NEW F,
           \A v \in Vars : Of(F, "for", v) = Of(D, "for", v) /\ Of(F, "next", v) = Of(D, "next", v),
           \A v \in Vars : Same(<<"for_iter", v>>) /\ Same(<<"for_cmp", v>>)
    PROVE  LoopsMarked(F)'
BY Zenon DEF LoopsMarked, Same

LEMMA WhilesKept ==
    ASSUME NEW D, WhilesMarked(D), NEW F, LostIn(F) <=> LostIn(D),
           UNCHANGED <<whileArr, whileInt, whileId>>,
           \A i \in Nat : Same(<<"while_iter", i>>) /\ Same(<<"while_cmp", i>>)
    PROVE  WhilesMarked(F)'
<1>1. whileArr' = whileArr /\ whileInt' = whileInt /\ whileId' = whileId
  OBVIOUS
<1>2. \A i : Closed(i)' <=> Closed(i)
  BY <1>1, Zenon DEF Closed
<1>3. \A i \in Nat : /\ Count(code', <<"while_iter", i>>) = IF i < whileId THEN 1 ELSE 0
                     /\ Count(code', <<"while_cmp", i>>) = IF Closed(i) THEN 1 ELSE 0
                     /\ NamedIn(code', <<"while_cmp", i>>) <=> i < whileId
                     /\ NamedIn(code', <<"while_iter", i>>) => i < whileId
  BY Zenon DEF WhilesMarked, Same
<1>4. \A i \in Nat : /\ Count(code', <<"while_iter", i>>) = IF i < whileId' THEN 1 ELSE 0
                     /\ Count(code', <<"while_cmp", i>>) = IF Closed(i)' THEN 1 ELSE 0
                     /\ NamedIn(code', <<"while_cmp", i>>) <=> i < whileId'
                     /\ NamedIn(code', <<"while_iter", i>>) => i < whileId'
  BY <1>1, <1>2, <1>3
<1>5. /\ \A c \in Cells : /\ whileArr'[c] \in NoKey .. whileId' - 1
                          /\ c < whileInt' => whileArr'[c] # NoKey
      /\ \A c, d \in Cells : c # d /\ whileArr'[c] # NoKey => whileArr'[c] # whileArr'[d]
      /\ LostIn(F) <=> \E i \in 0 .. whileId' - 1 : \A c \in Cells : c <= whileInt' => whileArr'[c] # i
  BY <1>1, Zenon DEF WhilesMarked
<1> QED
  BY <1>4, <1>5, Zenon DEF WhilesMarked

LEMMA DoubledKept ==
    ASSUME Doubled, prog' = prog, at \in Nat, at' \in {at, at + 1}, Listed(code), Listed(code'),
           \A n \in Nat : Count(code', <<".false", n>>) \in {Count(code, <<".false", n>>),
                                                             Count(code, <<".false", n>>) + 1}
    PROVE  Doubled'
<1>1. PICK n \in Nat : Count(code, <<".false", n>>) > 1
  BY DEF Doubled
<1>2. PICK k \in 1 .. at : ElseIf(prog[k])
  BY DEF Doubled
<1>3. PICK x : x = <<".false", n>>
  OBVIOUS
<1>4. Count(code, x) \in Nat /\ Count(code, x) > 1 /\ Count(code', x) \in {Count(code, x), Count(code, x) + 1}
  BY <1>1, <1>3, CountsOf, Zenon
<1>5. Count(code', x) > 1
  BY <1>4
<1>6. k \in 1 .. at' /\ ElseIf(prog'[k])
  <2>1. k \in 1 .. at'
    BY <1>2
  <2> QED
    BY <1>2, <2>1, Zenon
<1> QED
  BY <1>3, <1>5, <1>6, Zenon DEF Doubled

\* The first item of the work taken away: the others move up.
LEMMA WorkTail ==
    ASSUME Nested(work), work # <<>>, work' = Tail(work)
    PROVE  /\ Len(work) \in Nat /\ Len(work) >= 1 /\ DOMAIN work = 1 .. Len(work)
           /\ Len(work') = Len(work) - 1 /\ DOMAIN work' = 1 .. Len(work) - 1
           /\ \A k \in 1 .. Len(work) - 1 : work'[k] = work[k + 1]
<1>1. /\ Nested(work') /\ Len(work') = Len(work) - 1 /\ Len(work) \in 1 .. 3
      /\ \A k \in 1 .. Len(work') : work'[k] = work[k + 1]
  BY NestedTail, Zenon
<1>2. work \in Seq(Items) /\ work' \in Seq(Items)
  BY <1>1, Zenon DEF Nested
<1>3. DOMAIN work = 1 .. Len(work) /\ DOMAIN work' = 1 .. Len(work')
  BY <1>2, LenProperties
<1> QED
  BY <1>1, <1>3

\* A statement that is no IF comes first: what is left of the line's IFs stays.
LEMMA IfsKept ==
    ASSUME IfsMarked, Nested(work), work # <<>>, Now.do = "stmt", S.op # "if",
           work' = Tail(work), UNCHANGED <<prog, at, if_ind>>,
           \A n \in Nat : Same(<<".false", n>>) /\ Same(<<".end", n>>)
    PROVE  IfsMarked'
<1>1. prog' = prog /\ at' = at /\ if_ind' = if_ind
  OBVIOUS
<1>2. /\ Len(work) \in Nat /\ Len(work) >= 1 /\ DOMAIN work = 1 .. Len(work)
      /\ Len(work') = Len(work) - 1 /\ DOMAIN work' = 1 .. Len(work) - 1
      /\ \A k \in 1 .. Len(work) - 1 : work'[k] = work[k + 1]
  BY WorkTail
<1>3. work[1].do = "stmt" /\ work[1].s.op # "if"
  BY DEF Now, S
<1>4. \A k \in DOMAIN work' : k + 1 \in DOMAIN work /\ work'[k] = work[k + 1]
  BY <1>2
<1>5. \A k \in DOMAIN work : k = 1 \/ (k - 1 \in DOMAIN work' /\ work'[k - 1] = work[k])
  BY <1>2
<1>6. Ended(work') <=> Ended(work)
  BY <1>3, <1>4, <1>5 DEF Ended
<1>7. (\E k \in DOMAIN work' : work'[k].do # "stmt") <=> (\E k \in DOMAIN work : work[k].do # "stmt")
  <2>1. ASSUME NEW k \in DOMAIN work', work'[k].do # "stmt"
        PROVE  \E j \in DOMAIN work : work[j].do # "stmt"
    BY <1>4, <2>1, Zenon
  <2>2. ASSUME NEW k \in DOMAIN work, work[k].do # "stmt"
        PROVE  \E j \in DOMAIN work' : work'[j].do # "stmt"
    <3>1. k # 1
      BY <1>3, <2>2, Zenon
    <3> QED
      BY <1>5, <2>2, <3>1, Zenon
  <2> QED
    BY <2>1, <2>2, Zenon
<1>8. Coming(work') <=> Coming(work)
  <2>1. (\E k \in DOMAIN work' : work'[k].do # "end" /\ ElseIf(work'[k].s)) <=>
        (\E k \in DOMAIN work : work[k].do # "end" /\ ElseIf(work[k].s))
    <3>1. ~ElseIf(work[1].s)
      BY <1>3, Zenon DEF ElseIf
    <3> QED
      BY <1>4, <1>5, <3>1
  <2>2. (\E k, l \in DOMAIN work' : k < l /\ work'[l].do = "end" /\ work'[k].do # "end" /\ work'[k].s.op = "if") <=>
        (\E k, l \in DOMAIN work : k < l /\ work[l].do = "end" /\ work[k].do # "end" /\ work[k].s.op = "if")
    <3>1. ASSUME NEW k \in DOMAIN work', NEW l \in DOMAIN work', k < l, work'[l].do = "end",
                 work'[k].do # "end", work'[k].s.op = "if"
          PROVE  \E m, n \in DOMAIN work : m < n /\ work[n].do = "end" /\ work[m].do # "end" /\ work[m].s.op = "if"
      <4>1. k + 1 \in DOMAIN work /\ l + 1 \in DOMAIN work /\ k + 1 < l + 1
        BY <1>2, <3>1
      <4>2. work'[k] = work[k + 1] /\ work'[l] = work[l + 1]
        BY <1>4
      <4> QED
        BY <3>1, <4>1, <4>2, Zenon
    <3>2. ASSUME NEW k \in DOMAIN work, NEW l \in DOMAIN work, k < l, work[l].do = "end",
                 work[k].do # "end", work[k].s.op = "if"
          PROVE  \E m, n \in DOMAIN work' : m < n /\ work'[n].do = "end" /\ work'[m].do # "end" /\ work'[m].s.op = "if"
      <4>1. k # 1 /\ l # 1
        BY <1>2, <1>3, <3>2
      <4>2. k - 1 \in DOMAIN work' /\ l - 1 \in DOMAIN work' /\ k - 1 < l - 1
        BY <1>2, <3>2, <4>1
      <4>3. work'[k - 1] = work[k] /\ work'[l - 1] = work[l]
        BY <1>5, <4>1
      <4> QED
        BY <3>2, <4>2, <4>3, Zenon
    <3> QED
      BY <3>1, <3>2, Zenon
  <2> QED
    BY <2>1, <2>2, Zenon DEF Coming
<1>9. \A n \in Nat :
          /\ Count(code', <<".false", n>>) = IF n < if_ind' \/ (n = if_ind' /\ Ended(work')) THEN 1 ELSE 0
          /\ Count(code', <<".end", n>>) = IF n < if_ind' THEN 1 ELSE 0
          /\ NamedIn(code', <<".false", n>>) \/ NamedIn(code', <<".end", n>>) =>
                n < if_ind' \/ (n = if_ind' /\ \E k \in DOMAIN work' : work'[k].do # "stmt")
  <2>1. \A n \in Nat :
            /\ Count(code, <<".false", n>>) = IF n < if_ind \/ (n = if_ind /\ Ended(work)) THEN 1 ELSE 0
            /\ Count(code, <<".end", n>>) = IF n < if_ind THEN 1 ELSE 0
            /\ NamedIn(code, <<".false", n>>) \/ NamedIn(code, <<".end", n>>) =>
                  n < if_ind \/ (n = if_ind /\ \E k \in DOMAIN work : work[k].do # "stmt")
    BY Zenon DEF IfsMarked
  <2>2. \A n \in Nat : /\ Count(code', <<".false", n>>) = Count(code, <<".false", n>>)
                       /\ Count(code', <<".end", n>>) = Count(code, <<".end", n>>)
                       /\ NamedIn(code', <<".false", n>>) <=> NamedIn(code, <<".false", n>>)
                       /\ NamedIn(code', <<".end", n>>) <=> NamedIn(code, <<".end", n>>)
    BY Zenon DEF Same
  <2> QED
    BY <1>1, <1>6, <1>7, <2>1, <2>2
<1>10. \A k \in 2 .. Len(work') : work'[k].do # "stmt"
  <2> SUFFICES ASSUME NEW k \in 2 .. Len(work') PROVE work'[k].do # "stmt"
    OBVIOUS
  <2>1. k + 1 \in 2 .. Len(work) /\ work'[k] = work[k + 1]
    BY <1>2
  <2> QED
    BY <2>1 DEF IfsMarked
<1>11. \A k, l \in DOMAIN work' : work'[k].do = "end" /\ work'[l].do = "end" => k = l
  <2> SUFFICES ASSUME NEW k \in DOMAIN work', NEW l \in DOMAIN work', work'[k].do = "end", work'[l].do = "end"
               PROVE  k = l
    OBVIOUS
  <2>1. k + 1 = l + 1
    BY <1>4 DEF IfsMarked
  <2> QED
    BY <1>2, <2>1
<1>12. /\ \A k \in 1 .. at' - 1 : ~ElseIf(prog'[k])
       /\ at' > 0 => (ElseIf(prog'[at']) <=> Coming(work'))
  BY <1>1, <1>8, Zenon DEF IfsMarked
<1> QED
  BY <1>9, <1>10, <1>11, <1>12, Zenon DEF IfsMarked

-----------------------------------------------------------------------------
(* What each kind of statement adds.                                       *)

Jumps == {"jmp", "skip", "jl", "jge", "call", "loop"}

LEMMA AddsNothing ==
    ASSUME Listed(code), KnownNames(code), NEW T, NEW E \in Seq(T), Emit(E),
           \A k \in DOMAIN E : E[k].i # "label" /\ E[k].i \notin Jumps
    PROVE  Adds({}, {})
<1>1. \A x : ~NamedIn(E, x)
  BY DEF NamedIn, Names, Jumps
<1>2. {} \in SUBSET LabelNames /\ \A x : NamedIn(E, x) <=> x \in {}
  BY <1>1
<1> QED
  BY <1>2, Adding, Zenon

LEMMA AddsBoth ==
    ASSUME Listed(code), KnownNames(code), NEW T, NEW E \in Seq(T), Emit(E),
           NEW y \in LabelNames, NEW z \in LabelNames, NEW e \in DOMAIN E, NEW j \in DOMAIN E,
           E[e].i = "label", E[e].x = y, \A k \in DOMAIN E : k # e => E[k].i # "label",
           \A x : Names(E[j], x) <=> x = z, \A k \in DOMAIN E : k # j => E[k].i \notin Jumps
    PROVE  Adds({y}, {z})
<1>1. \A k \in DOMAIN E : \A x : k # j => ~Names(E[k], x)
  BY DEF Names, Jumps
<1>2. \A x : NamedIn(E, x) <=> x \in {z}
  BY <1>1 DEF NamedIn
<1> QED
  BY <1>2, Adding

LEMMA AddsJump ==
    ASSUME Listed(code), KnownNames(code), NEW a, Emit(<<a>>),
           a.i \in {"jmp", "skip", "jl", "jge", "call"}, NEW z \in LabelNames, a.x = z
    PROVE  Adds({}, {z})
<1>1. PICK E \in Seq({a}) : E = <<a>> /\ DOMAIN E = {1} /\ E[1] = a
  <2>1. <<a>> \in Seq({a}) /\ DOMAIN <<a>> = {1} /\ <<a>>[1] = a
    OBVIOUS
  <2> QED
    BY <2>1
<1>2. \A k \in DOMAIN E : E[k].i # "label"
  BY <1>1
<1>3. \A x : NamedIn(E, x) <=> x \in {z}
  BY <1>1 DEF NamedIn, Names
<1> QED
  BY <1>1, <1>2, <1>3, Adding

LEMMA AddsLabel ==
    ASSUME Listed(code), KnownNames(code), NEW a, Emit(<<a>>),
           a.i = "label", NEW y \in LabelNames, a.x = y
    PROVE  Adds({y}, {})
<1>1. PICK E \in Seq({a}) : E = <<a>> /\ DOMAIN E = {1} /\ E[1] = a
  <2>1. <<a>> \in Seq({a}) /\ DOMAIN <<a>> = {1} /\ <<a>>[1] = a
    OBVIOUS
  <2> QED
    BY <2>1
<1>2. \E e \in DOMAIN E : /\ E[e].i = "label" /\ {y} = {E[e].x}
                          /\ \A k \in DOMAIN E : k # e => E[k].i # "label"
  BY <1>1
<1>3. /\ \A x : NamedIn(E, x) <=> x \in {}
      /\ {} \in SUBSET LabelNames /\ {y} \in SUBSET LabelNames
  BY <1>1 DEF NamedIn, Names
<1>4. Emit(E)
  BY <1>1, Zenon
<1> QED
  BY <1>2, <1>3, <1>4, Adding, Zenon

LEMMA LabelTypes ==
    /\ \A n \in Nat : /\ <<"goto", n>> \in LabelNames
                      /\ <<"while_iter", n>> \in LabelNames /\ <<"while_cmp", n>> \in LabelNames
                      /\ <<".false", n>> \in LabelNames /\ <<".end", n>> \in LabelNames
    /\ \A v \in Vars : <<"for_iter", v>> \in LabelNames /\ <<"for_cmp", v>> \in LabelNames
BY DEF LabelNames, Numbered

LEMMA InsParts == \A op, x : Ins(op, x).i = op /\ Ins(op, x).x = x
BY DEF Ins

\* FOR makes one label and names the other of its variable, NEXT vice versa.
LEMMA ForAdds ==
    ASSUME Listed(code), KnownNames(code), GenFor, S.v \in Vars
    PROVE  Adds({<<"for_iter", S.v>>}, {<<"for_cmp", S.v>>})
<1>1. PICK y, z : y = <<"for_iter", S.v>> /\ z = <<"for_cmp", S.v>>
  OBVIOUS
<1>2. y \in LabelNames /\ z \in LabelNames
  BY <1>1, LabelTypes, Zenon
<1>3. PICK a, b, c, d : /\ a = Ins("sub", S.cells) /\ b = Ins("for", [slot |-> used + 1, s |-> S])
                        /\ c = Ins("jmp", z) /\ d = Label(y)
  OBVIOUS
<1>4. a.i = "sub" /\ b.i = "for" /\ c.i = "jmp" /\ c.x = z /\ d.i = "label" /\ d.x = y
  BY <1>3, InsParts, Zenon DEF Label
<1>5. Emit(<<a, b, c, d>>)
  BY <1>1, <1>3, Zenon DEF GenFor
<1>6. PICK E \in Seq({a, b, c, d}) : /\ E = <<a, b, c, d>> /\ DOMAIN E = {1, 2, 3, 4}
                                     /\ E[1] = a /\ E[2] = b /\ E[3] = c /\ E[4] = d
  <2>1. /\ <<a, b, c, d>> \in Seq({a, b, c, d}) /\ DOMAIN <<a, b, c, d>> = {1, 2, 3, 4}
        /\ <<a, b, c, d>>[1] = a /\ <<a, b, c, d>>[2] = b /\ <<a, b, c, d>>[3] = c /\ <<a, b, c, d>>[4] = d
    OBVIOUS
  <2> QED
    BY <2>1
<1>7. /\ 4 \in DOMAIN E /\ 3 \in DOMAIN E /\ E[4].i = "label" /\ E[4].x = y
      /\ \A k \in DOMAIN E : k # 4 => E[k].i # "label"
      /\ \A k \in DOMAIN E : k # 3 => E[k].i \notin Jumps
      /\ \A x : Names(E[3], x) <=> x = z
  BY <1>4, <1>6 DEF Jumps, Names
<1>8. Emit(E)
  BY <1>5, <1>6, Zenon
<1>9. Adds({y}, {z})
  BY <1>2, <1>7, <1>8, AddsBoth, Zenon
<1> QED
  BY <1>1, <1>9, Zenon

LEMMA NextAdds ==
    ASSUME Listed(code), KnownNames(code), GenNext, S.v \in Vars
    PROVE  Adds({<<"for_cmp", S.v>>}, {<<"for_iter", S.v>>})
<1>1. PICK y, z : y = <<"for_cmp", S.v>> /\ z = <<"for_iter", S.v>>
  OBVIOUS
<1>2. y \in LabelNames /\ z \in LabelNames
  BY <1>1, LabelTypes, Zenon
<1>3. PICK a, b, c, r : /\ a = Ins("incr", [slot |-> counterAddr, v |-> S.v]) /\ b = Label(y)
                        /\ r = [slot |-> counterAddr, v |-> S.v, to |-> z] /\ c = Ins("loop", r)
  OBVIOUS
<1>4. a.i = "incr" /\ b.i = "label" /\ b.x = y /\ c.i = "loop" /\ c.x = r
  BY <1>3, InsParts, Zenon DEF Label
<1>5. Emit(<<a, b, c>>)
  BY <1>1, <1>3, Zenon DEF GenNext, Plainly
<1>6. PICK E \in Seq({a, b, c}) : /\ E = <<a, b, c>> /\ DOMAIN E = {1, 2, 3}
                                  /\ E[1] = a /\ E[2] = b /\ E[3] = c
  <2>1. /\ <<a, b, c>> \in Seq({a, b, c}) /\ DOMAIN <<a, b, c>> = {1, 2, 3}
        /\ <<a, b, c>>[1] = a /\ <<a, b, c>>[2] = b /\ <<a, b, c>>[3] = c
    OBVIOUS
  <2> QED
    BY <2>1
<1>7. r.to = z
  BY <1>3
<1>8. /\ 2 \in DOMAIN E /\ 3 \in DOMAIN E /\ E[2].i = "label" /\ E[2].x = y
      /\ \A k \in DOMAIN E : k # 2 => E[k].i # "label"
      /\ \A k \in DOMAIN E : k # 3 => E[k].i \notin Jumps
      /\ \A x : Names(E[3], x) <=> x = z
  BY <1>4, <1>6, <1>7 DEF Jumps, Names
<1>9. Emit(E)
  BY <1>5, <1>6, Zenon
<1>10. Adds({y}, {z})
  BY <1>2, <1>8, <1>9, AddsBoth, Zenon
<1> QED
  BY <1>1, <1>10, Zenon

\* A label and a jump to another, in either order.
LEMMA PairAdds ==
    ASSUME Listed(code), KnownNames(code), NEW y \in LabelNames, NEW z \in LabelNames,
           NEW op \in {"jmp", "skip", "jge"},
           \/ Emit(<<Ins(op, z), Label(y)>>)
           \/ Emit(<<Label(y), Ins(op, z)>>)
    PROVE  Adds({y}, {z})
<1>1. PICK a, b : a = Ins(op, z) /\ b = Label(y)
  OBVIOUS
<1>2. a.i = op /\ a.x = z /\ b.i = "label" /\ b.x = y
  BY <1>1, InsParts, Zenon DEF Label
<1>3. \A c, d : <<c, d>> \in Seq({c, d}) /\ DOMAIN <<c, d>> = {1, 2} /\ <<c, d>>[1] = c /\ <<c, d>>[2] = d
  OBVIOUS
<1>4. CASE Emit(<<a, b>>)
  <2>1. PICK E \in Seq({a, b}) : E = <<a, b>> /\ DOMAIN E = {1, 2} /\ E[1] = a /\ E[2] = b
    <3>1. <<a, b>> \in Seq({a, b}) /\ DOMAIN <<a, b>> = {1, 2} /\ <<a, b>>[1] = a /\ <<a, b>>[2] = b
      BY <1>3, Zenon
    <3> QED
      BY <3>1, Zenon
  <2>2. /\ 2 \in DOMAIN E /\ 1 \in DOMAIN E /\ E[2].i = "label" /\ E[2].x = y
        /\ \A k \in DOMAIN E : k # 2 => E[k].i # "label"
        /\ \A k \in DOMAIN E : k # 1 => E[k].i \notin Jumps
        /\ \A x : Names(E[1], x) <=> x = z
    BY <1>2, <2>1 DEF Jumps, Names
  <2>3. Emit(E)
    BY <1>4, <2>1, Zenon
  <2> QED
    BY <2>2, <2>3, AddsBoth, Zenon
<1>5. CASE Emit(<<b, a>>)
  <2>1. PICK E \in Seq({b, a}) : E = <<b, a>> /\ DOMAIN E = {1, 2} /\ E[1] = b /\ E[2] = a
    BY <1>3
  <2>2. /\ 2 \in DOMAIN E /\ 1 \in DOMAIN E /\ E[1].i = "label" /\ E[1].x = y
        /\ \A k \in DOMAIN E : k # 1 => E[k].i # "label"
        /\ \A k \in DOMAIN E : k # 2 => E[k].i \notin Jumps
        /\ \A x : Names(E[2], x) <=> x = z
    BY <1>2, <2>1 DEF Jumps, Names
  <2>3. Emit(E)
    BY <1>5, <2>1, Zenon
  <2> QED
    BY <2>2, <2>3, AddsBoth, Zenon
<1> QED
  BY <1>1, <1>4, <1>5, Zenon

\* The statements that make no label and no jump.
Quiet == \/ GenPrint \/ GenRem \/ GenReturn \/ GenBump \/ GenLet \/ GenInput \/ GenShow \/ GenEnd

LEMMA QuietAdds ==
    ASSUME Listed(code), KnownNames(code), Quiet
    PROVE  Adds({}, {})
<1>1. ASSUME NEW a, a.i # "label", a.i \notin Jumps, Emit(<<a>>)
      PROVE  Adds({}, {})
  <2>1. PICK E \in Seq({a}) : E = <<a>> /\ DOMAIN E = {1} /\ E[1] = a
    <3>1. <<a>> \in Seq({a}) /\ DOMAIN <<a>> = {1} /\ <<a>>[1] = a
      OBVIOUS
    <3> QED
      BY <3>1
  <2> QED
    BY <1>1, <2>1, AddsNothing
<1>2. ASSUME NEW a, NEW b, a.i # "label", a.i \notin Jumps, b.i # "label", b.i \notin Jumps, Emit(<<a, b>>)
      PROVE  Adds({}, {})
  <2>1. PICK E \in Seq({a, b}) : E = <<a, b>> /\ DOMAIN E = {1, 2} /\ E[1] = a /\ E[2] = b
    <3>1. <<a, b>> \in Seq({a, b}) /\ DOMAIN <<a, b>> = {1, 2} /\ <<a, b>>[1] = a /\ <<a, b>>[2] = b
      OBVIOUS
    <3> QED
      BY <3>1
  <2> QED
    BY <1>2, <2>1, AddsNothing
<1>3. Emit(<<>>) => Adds({}, {})
  <2>1. PICK E \in Seq({0}) : E = <<>> /\ DOMAIN E = {}
    <3>1. <<>> \in Seq({0}) /\ DOMAIN <<>> = {}
      OBVIOUS
    <3> QED
      BY <3>1
  <2> QED
    BY <2>1, AddsNothing
<1>4. \A op \in {"lib", "ret", "bump", "sub", "store", "load", "exit"} : op # "label" /\ op \notin Jumps
  BY DEF Jumps
<1>5. \A op \in {"lib", "ret", "bump", "sub", "store", "load", "exit"} : \A x :
          Ins(op, x).i # "label" /\ Ins(op, x).i \notin Jumps
  BY <1>4, InsParts, Zenon
<1>6. CASE GenPrint \/ GenRem \/ GenReturn \/ GenBump \/ GenEnd
  <2>1. \/ Emit(<<>>)
        \/ \E op \in {"lib", "ret", "bump", "exit"} : \E x : Emit(<<Ins(op, x)>>)
    BY <1>6 DEF GenPrint, GenRem, GenReturn, GenBump, GenEnd, Plainly
  <2>2. ASSUME NEW op \in {"lib", "ret", "bump", "exit"}, NEW x, Emit(<<Ins(op, x)>>)
        PROVE  Adds({}, {})
    <3>1. PICK a : a = Ins(op, x)
      OBVIOUS
    <3>2. a.i # "label" /\ a.i \notin Jumps /\ Emit(<<a>>)
      BY <1>5, <2>2, <3>1
    <3> QED
      BY <1>1, <3>2
  <2> QED
    BY <1>3, <2>1, <2>2
<1>7. CASE GenLet \/ GenInput \/ GenShow
  <2>1. \E op, op2 \in {"lib", "sub", "store", "load"} : \E x, x2 : Emit(<<Ins(op, x), Ins(op2, x2)>>)
    BY <1>7 DEF GenLet, GenInput, GenShow, LetCode, InputCode, Slotted
  <2>2. PICK op \in {"lib", "sub", "store", "load"}, op2 \in {"lib", "sub", "store", "load"} :
            \E x, x2 : Emit(<<Ins(op, x), Ins(op2, x2)>>)
    BY <2>1
  <2>3. PICK x, x2 : Emit(<<Ins(op, x), Ins(op2, x2)>>)
    BY <2>2
  <2>4. PICK a, b : a = Ins(op, x) /\ b = Ins(op2, x2)
    OBVIOUS
  <2>5. a.i # "label" /\ a.i \notin Jumps /\ b.i # "label" /\ b.i \notin Jumps /\ Emit(<<a, b>>)
    BY <1>5, <2>3, <2>4
  <2> QED
    BY <1>2, <2>5
<1> QED
  BY <1>6, <1>7, Zenon DEF Quiet

-----------------------------------------------------------------------------
(* The statements that are no IFs keep what the invariant says of the code.*)

LEMMA CodedKept ==
    ASSUME NEW D, NEW F, Coded(D), Nested(work), work # <<>>, Now.do = "stmt", S.op # "if", Done,
           at \in Nat, UNCHANGED <<prog, at, if_ind>>, Listed(code'), KnownNames(code'),
           LinesMarked', LoopsMarked(F)', WhilesMarked(F)',
           \A n \in Nat : Same(<<".false", n>>) /\ Same(<<".end", n>>)
    PROVE  Coded(F)'
<1>1. work' = Tail(work) /\ prog' = prog /\ at' = at /\ if_ind' = if_ind
  BY DEF Done
<1>2. Listed(code) /\ if_ind' \in Nat /\ (work' # <<>> => at' # 0) /\ (IfsMarked \/ Doubled)
  BY <1>1, Zenon DEF Coded
<1>3. IfsMarked' \/ Doubled'
  <2>1. CASE IfsMarked
    BY <1>1, <2>1, IfsKept
  <2>2. CASE Doubled
    <3>1. \A n \in Nat : Count(code', <<".false", n>>) \in {Count(code, <<".false", n>>),
                                                            Count(code, <<".false", n>>) + 1}
      BY DEF Same
    <3>2. at' \in {at, at + 1}
      BY <1>1
    <3> QED
      BY <1>1, <1>2, <2>2, <3>1, <3>2, DoubledKept, Zenon
  <2> QED
    BY <1>2, <2>1, <2>2
<1> QED
  BY <1>2, <1>3, Zenon DEF Coded

\* What the lemmas below start from.
Ready(D, F) ==
    /\ GenInv /\ Taking(D, F) /\ Coded(D) /\ Nested(work) /\ work # <<>> /\ Now.do = "stmt"

LEMMA ReadyFacts ==
    ASSUME NEW D, NEW F, Ready(D, F)
    PROVE  /\ Nested(work) /\ work # <<>> /\ Now.do = "stmt" /\ at \in Nat
           /\ Listed(code) /\ KnownNames(code) /\ if_ind \in Nat
           /\ LinesMarked /\ LoopsMarked(D) /\ WhilesMarked(D) /\ CellsKept(D)
           /\ whileArr \in [Cells -> Int]
           /\ D \in Seq(Leaf) /\ S \in Leaf /\ S \in Plain /\ OneMore(F, D, S)
<1>1. at \in Nat
  <2>1. Len(prog) \in Nat /\ at \in 0 .. Len(prog)
    BY ProgIsSeq, Zenon DEF Ready, GenInv
  <2> QED
    BY <2>1
<1>2. D \in Seq(Leaf) /\ Handled(D)
  BY Zenon DEF Ready, Taking
<1> QED
  BY <1>1, <1>2, HandledCells, Zenon DEF Ready, Coded, Taking

LEMMA ReadyLoops ==
    ASSUME NEW D, NEW F, Ready(D, F), NEW op, NEW v
    PROVE  /\ ~(S.op = op /\ S.v = v) => Of(F, op, v) = Of(D, op, v)
           /\ S.op = op /\ S.v = v => Of(F, op, v) = Of(D, op, v) \union {Len(D) + 1}
           /\ IsFiniteSet(Of(D, op, v)) /\ Len(D) + 1 \notin Of(D, op, v)
<1>1. D \in Seq(Leaf) /\ S \in Leaf /\ OneMore(F, D, S)
  BY ReadyFacts, Zenon
<1>2. AppendsOf(F, D, S, op, v)
  BY <1>1, AppendedOf, Zenon
<1> QED
  BY <1>2, Zenon DEF AppendsOf

\* A statement other than FOR and NEXT leaves the loops of the text alone.
LEMMA LoopsAlone ==
    ASSUME NEW D, NEW F, Ready(D, F), S.op \notin {"for", "next"},
           \A v \in Vars : Same(<<"for_iter", v>>) /\ Same(<<"for_cmp", v>>)
    PROVE  LoopsMarked(F)'
<1>1. LoopsMarked(D) /\ D \in Seq(Leaf) /\ S \in Leaf /\ OneMore(F, D, S)
  BY ReadyFacts, Zenon
<1>2. S.op # "for" /\ S.op # "next"
  OBVIOUS
<1>3. \A v : Of(F, "for", v) = Of(D, "for", v) /\ Of(F, "next", v) = Of(D, "next", v)
  BY <1>2, ReadyLoops
<1> QED
  BY <1>1, <1>3, LoopsKept

LEMMA WhilesAlone ==
    ASSUME NEW D, NEW F, Ready(D, F), S.op # "while",
           UNCHANGED <<whileArr, whileInt, whileId>>,
           \A i \in Nat : Same(<<"while_iter", i>>) /\ Same(<<"while_cmp", i>>)
    PROVE  WhilesMarked(F)'
<1>1. WhilesMarked(D) /\ D \in Seq(Leaf) /\ S \in Leaf /\ OneMore(F, D, S)
  BY ReadyFacts, Zenon
<1>2. LostIn(F) <=> LostIn(D)
  BY <1>1, AppendedLost, Zenon
<1> QED
  BY <1>1, <1>2, WhilesKept

LEMMA QuietCoded ==
    ASSUME NEW D, NEW F, Ready(D, F), Quiet
    PROVE  Coded(F)'
<1>1. /\ S.op \in {"print", "rem", "return", "bump", "let", "input", "show", "end"} /\ Done
      /\ UNCHANGED <<prog, at, if_ind, whileArr, whileInt, whileId>>
  <2>1. CASE GenPrint \/ GenRem \/ GenReturn \/ GenBump
    BY <2>1 DEF GenPrint, GenRem, GenReturn, GenBump, Plainly, Generating, tables
  <2>2. CASE GenLet \/ GenInput \/ GenShow
    BY <2>2 DEF GenLet, GenInput, GenShow, Slotted, Generating
  <2>3. CASE GenEnd
    BY <2>3 DEF GenEnd, Generating
  <2> QED
    BY <2>1, <2>2, <2>3, Zenon DEF Quiet
<1>2. Coded(D)
  BY Zenon DEF Ready
<1>3. Adds({}, {})
  BY ReadyFacts, QuietAdds, Zenon
<1>4. (\A x : Same(x)) /\ Listed(code') /\ KnownNames(code')
  BY <1>3, AddsSame
<1>5. S.op # "if" /\ S.op # "while" /\ S.op \notin {"for", "next"}
  BY <1>1
<1>6. prog' = prog /\ at' = at
  BY <1>1
<1>7. LinesMarked'
  BY <1>4, <1>6, ReadyFacts, LinesKept
<1>8. LoopsMarked(F)'
  BY <1>4, <1>5, LoopsAlone
<1>9. WhilesMarked(F)'
  BY <1>1, <1>4, <1>5, WhilesAlone
<1>10. /\ Nested(work) /\ work # <<>> /\ Now.do = "stmt" /\ at \in Nat
       /\ UNCHANGED <<prog, at, if_ind>> /\ Done
  BY <1>1, ReadyFacts
<1>11. \A n \in Nat : Same(<<".false", n>>) /\ Same(<<".end", n>>)
  BY <1>4, Zenon
<1> QED
  BY <1>2, <1>4, <1>5, <1>7, <1>8, <1>9, <1>10, <1>11, CodedKept, Zenon

LEMMA JumpCoded ==
    ASSUME NEW D, NEW F, Ready(D, F), GenGoto \/ GenGosub
    PROVE  Coded(F)'
<1>1. /\ S.op \in {"goto", "gosub"} /\ Done
      /\ UNCHANGED <<prog, at, if_ind, whileArr, whileInt, whileId>>
      /\ \E op \in {"jmp", "call"} : Emit(<<Ins(op, <<"goto", S.to>>)>>)
  BY DEF GenGoto, GenGosub, Plainly, Generating, tables
<1>2. Coded(D)
  BY Zenon DEF Ready
<1>3. S.to \in Targets(prog) /\ S.to \in Nat
  BY <1>1, JumpsToLine, Zenon DEF Ready
<1>4. PICK z : z = <<"goto", S.to>>
  OBVIOUS
<1>5. z \in LabelNames
  BY <1>3, <1>4, LabelTypes, Zenon
<1>6. PICK op \in {"jmp", "call"} : Emit(<<Ins(op, z)>>)
  BY <1>1, <1>4
<1>7. PICK a : a = Ins(op, z)
  OBVIOUS
<1>8. a.i \in {"jmp", "skip", "jl", "jge", "call"} /\ a.x = z /\ Emit(<<a>>)
  BY <1>6, <1>7, InsParts
<1>9. Adds({}, {z})
  BY <1>5, <1>8, ReadyFacts, AddsJump
<1>10. (\A x : x # z => Same(x)) /\ Listed(code') /\ KnownNames(code')
  BY <1>9, AddsSame
<1>11. /\ Count(code', z) = Count(code, z)
  BY <1>9 DEF Adds
<1>12. /\ \A v : Same(<<"for_iter", v>>) /\ Same(<<"for_cmp", v>>)
       /\ \A i : Same(<<"while_iter", i>>) /\ Same(<<"while_cmp", i>>)
       /\ \A n : Same(<<".false", n>>) /\ Same(<<".end", n>>)
       /\ \A k : k # S.to => Same(<<"goto", k>>)
  <2>1. /\ \A v : <<"for_iter", v>> # z /\ <<"for_cmp", v>> # z
        /\ \A i : <<"while_iter", i>> # z /\ <<"while_cmp", i>> # z
        /\ \A n : <<".false", n>> # z /\ <<".end", n>> # z
        /\ \A k : k # S.to => <<"goto", k>> # z
    BY <1>4
  <2> QED
    BY <1>10, <2>1, Zenon
<1>13. S.op # "if" /\ S.op # "while" /\ S.op \notin {"for", "next"}
  BY <1>1
<1>14. LinesMarked'
  <2>1. prog' = prog /\ at' = at
    BY <1>1
  <2>2. LinesMarked
    BY ReadyFacts, Zenon
  <2>3. ASSUME NEW k \in Nat
        PROVE  /\ Count(code', <<"goto", k>>) = Count(code, <<"goto", k>>)
               /\ NamedIn(code', <<"goto", k>>) => NamedIn(code, <<"goto", k>>) \/ k \in Targets(prog)
    <3>1. CASE k = S.to
      BY <1>3, <1>4, <1>11, <3>1, Zenon
    <3>2. CASE k # S.to
      BY <1>12, <3>2, Zenon DEF Same
    <3> QED
      BY <3>1, <3>2
  <2> QED
    BY <2>1, <2>2, <2>3, Zenon DEF LinesMarked
<1>15. LoopsMarked(F)'
  BY <1>12, <1>13, LoopsAlone
<1>16. WhilesMarked(F)'
  BY <1>1, <1>12, <1>13, WhilesAlone
<1>17. /\ Nested(work) /\ work # <<>> /\ Now.do = "stmt" /\ at \in Nat
       /\ UNCHANGED <<prog, at, if_ind>> /\ Done
  BY <1>1, ReadyFacts
<1> QED
  BY <1>2, <1>10, <1>12, <1>13, <1>14, <1>15, <1>16, <1>17, CodedKept, Zenon

\* FOR and NEXT: one label of the variable is made, the other is named.
LEMMA LoopCoded ==
    ASSUME NEW D, NEW F, Ready(D, F), GenFor \/ GenNext
    PROVE  Coded(F)'
<1>1. /\ S.op \in {"for", "next"} /\ Done
      /\ UNCHANGED <<prog, at, if_ind, whileArr, whileInt, whileId>>
      /\ GenFor => S.op = "for"
      /\ GenNext => S.op = "next"
  BY DEF GenFor, GenNext, Plainly, Generating, tables
<1>2. S.v \in Vars
  BY <1>1, ReadyFacts DEF Plain
<1>3. PICK v : v = S.v /\ v \in Vars
  BY <1>2
<1>4. PICK y, z : y = <<"for_iter", v>> /\ z = <<"for_cmp", v>>
  OBVIOUS
<1>5. \/ S.op = "for" /\ Adds({y}, {z})
      \/ S.op = "next" /\ Adds({z}, {y})
  <2>1. GenFor => Adds({y}, {z})
    BY <1>2, <1>3, <1>4, ReadyFacts, ForAdds, Zenon
  <2>2. GenNext => Adds({z}, {y})
    BY <1>2, <1>3, <1>4, ReadyFacts, NextAdds, Zenon
  <2> QED
    BY <1>1, <2>1, <2>2, Zenon
<1>6. (\A x : x # y /\ x # z => Same(x)) /\ Listed(code') /\ KnownNames(code')
  BY <1>5, AddsSame
<1>7. /\ \A k : Same(<<"goto", k>>)
      /\ \A i : Same(<<"while_iter", i>>) /\ Same(<<"while_cmp", i>>)
      /\ \A n : Same(<<".false", n>>) /\ Same(<<".end", n>>)
      /\ \A u : u # v => Same(<<"for_iter", u>>) /\ Same(<<"for_cmp", u>>)
  <2>1. /\ \A k : <<"goto", k>> # y /\ <<"goto", k>> # z
        /\ \A i : <<"while_iter", i>> # y /\ <<"while_cmp", i>> # y /\ <<"while_iter", i>> # z /\ <<"while_cmp", i>> # z
        /\ \A n : <<".false", n>> # y /\ <<".end", n>> # y /\ <<".false", n>> # z /\ <<".end", n>> # z
        /\ \A u : u # v => /\ <<"for_iter", u>> # y /\ <<"for_iter", u>> # z
                           /\ <<"for_cmp", u>> # y /\ <<"for_cmp", u>> # z
        /\ y # z
    BY <1>4
  <2> QED
    BY <1>6, <2>1, Zenon
<1>8. y # z
  BY <1>4
<1>9. D \in Seq(Leaf) /\ S \in Leaf /\ OneMore(F, D, S) /\ LoopsMarked(D) /\ LinesMarked
  BY ReadyFacts, Zenon
<1>10. LoopsMarked(F)'
  <2> SUFFICES ASSUME NEW u \in Vars
               PROVE  /\ Count(code', <<"for_iter", u>>) = Cardinality(Of(F, "for", u))
                      /\ Count(code', <<"for_cmp", u>>) = Cardinality(Of(F, "next", u))
                      /\ NamedIn(code', <<"for_cmp", u>>) <=> Of(F, "for", u) # {}
                      /\ NamedIn(code', <<"for_iter", u>>) <=> Of(F, "next", u) # {}
    BY DEF LoopsMarked
  <2>1. /\ Count(code, <<"for_iter", u>>) = Cardinality(Of(D, "for", u))
        /\ Count(code, <<"for_cmp", u>>) = Cardinality(Of(D, "next", u))
        /\ NamedIn(code, <<"for_cmp", u>>) <=> Of(D, "for", u) # {}
        /\ NamedIn(code, <<"for_iter", u>>) <=> Of(D, "next", u) # {}
    BY <1>9, Zenon DEF LoopsMarked
  <2>2. CASE u # v
    <3>1. Of(F, "for", u) = Of(D, "for", u) /\ Of(F, "next", u) = Of(D, "next", u)
      BY <1>3, <2>2, ReadyLoops
    <3> QED
      BY <1>7, <2>1, <2>2, <3>1, Zenon DEF Same
  <2>3. CASE u = v /\ S.op = "for" /\ Adds({y}, {z})
    <3>1. /\ Of(F, "for", v) = Of(D, "for", v) \union {Len(D) + 1}
          /\ IsFiniteSet(Of(D, "for", v)) /\ Len(D) + 1 \notin Of(D, "for", v)
      BY <1>3, <2>3, ReadyLoops
    <3>2. Of(F, "next", v) = Of(D, "next", v)
      <4>1. S.op # "next"
        BY <2>3
      <4> QED
        BY <4>1, ReadyLoops
    <3>3. Cardinality(Of(F, "for", v)) = Cardinality(Of(D, "for", v)) + 1
      BY <3>1, FS_AddElement
    <3>4. Of(F, "for", v) # {}
      BY <3>1
    <3>5. /\ Count(code', y) = Count(code, y) + 1 /\ Count(code', z) = Count(code, z)
          /\ NamedIn(code', z) /\ (NamedIn(code', y) <=> NamedIn(code, y))
      BY <1>8, <2>3 DEF Adds
    <3>6. u = v
      BY <2>3
    <3> QED
      BY <1>4, <2>1, <3>2, <3>3, <3>4, <3>5, <3>6, Zenon
  <2>4. CASE u = v /\ S.op = "next" /\ Adds({z}, {y})
    <3>1. /\ Of(F, "next", v) = Of(D, "next", v) \union {Len(D) + 1}
          /\ IsFiniteSet(Of(D, "next", v)) /\ Len(D) + 1 \notin Of(D, "next", v)
      BY <1>3, <2>4, ReadyLoops
    <3>2. Of(F, "for", v) = Of(D, "for", v)
      <4>1. S.op # "for"
        BY <2>4
      <4> QED
        BY <4>1, ReadyLoops
    <3>3. Cardinality(Of(F, "next", v)) = Cardinality(Of(D, "next", v)) + 1
      BY <3>1, FS_AddElement
    <3>4. Of(F, "next", v) # {}
      BY <3>1
    <3>5. /\ Count(code', z) = Count(code, z) + 1 /\ Count(code', y) = Count(code, y)
          /\ NamedIn(code', y) /\ (NamedIn(code', z) <=> NamedIn(code, z))
      BY <1>8, <2>4 DEF Adds
    <3>6. u = v
      BY <2>4
    <3> QED
      BY <1>4, <2>1, <3>2, <3>3, <3>4, <3>5, <3>6, Zenon
  <2> QED
    BY <1>5, <2>2, <2>3, <2>4
<1>11. Coded(D) /\ S.op # "if" /\ S.op # "while"
  BY <1>1, Zenon DEF Ready
<1>12. LinesMarked'
  BY <1>1, <1>7, <1>9, LinesKept
<1>13. WhilesMarked(F)'
  BY <1>1, <1>7, <1>11, WhilesAlone
<1>14. /\ Nested(work) /\ work # <<>> /\ Now.do = "stmt" /\ at \in Nat
       /\ UNCHANGED <<prog, at, if_ind>> /\ Done
  BY <1>1, ReadyFacts
<1> QED
  BY <1>6, <1>7, <1>10, <1>11, <1>12, <1>13, <1>14, CodedKept, Zenon

\* WHILE and WEND and the cells with the numbers of the loops.
LEMMA WhileCoded ==
    ASSUME NEW D, NEW F, Ready(D, F), GenWhile
    PROVE  Coded(F)'
<1>1. /\ S.op = "while" /\ Done /\ UNCHANGED <<prog, at, if_ind>>
      /\ whileInt < WhileSize /\ whileInt' = whileInt
      /\ whileArr' = [whileArr EXCEPT ![whileInt] = whileId] /\ whileId' = whileId + 1
      /\ Emit(<<Ins("jmp", <<"while_cmp", whileId>>), Label(<<"while_iter", whileId>>)>>)
  BY Zenon DEF GenWhile, Generating
<1>2. /\ Listed(code) /\ KnownNames(code) /\ LinesMarked /\ WhilesMarked(D) /\ CellsKept(D)
      /\ whileArr \in [Cells -> Int] /\ D \in Seq(Leaf) /\ S \in Leaf /\ OneMore(F, D, S)
  BY ReadyFacts, Zenon
<1>3. /\ whileInt \in Nat /\ whileInt \in Cells /\ whileId \in Nat /\ Cells \subseteq Nat
      /\ \A k \in Cells : k > whileInt => whileArr[k] = NoKey
      /\ Open(D) <=> whileArr[whileInt] # NoKey
  <2>1. whileInt \in Nat /\ whileId \in Nat
    BY <1>2, Zenon DEF CellsKept
  <2>2. whileInt \in Cells /\ Cells \subseteq Nat
    BY <1>1, <2>1, SizesAssumption DEF Cells
  <2> QED
    BY <1>2, <2>1, <2>2, Zenon DEF CellsKept
<1>4. PICK y, z, n : y = <<"while_iter", n>> /\ z = <<"while_cmp", n>> /\ n = whileId
  OBVIOUS
<1>5. Adds({y}, {z})
  <2>1. y \in LabelNames /\ z \in LabelNames
    BY <1>3, <1>4, LabelTypes, Zenon
  <2>2. Emit(<<Ins("jmp", z), Label(y)>>)
    BY <1>1, <1>4, Zenon
  <2>3. "jmp" \in {"jmp", "skip", "jge"}
    OBVIOUS
  <2> QED
    BY <1>2, <2>1, <2>2, <2>3, PairAdds, Zenon
<1>6. (\A x : x # y /\ x # z => Same(x)) /\ Listed(code') /\ KnownNames(code')
  BY <1>5, AddsSame
<1>7. /\ y # z
      /\ \A k : Same(<<"goto", k>>)
      /\ \A v : Same(<<"for_iter", v>>) /\ Same(<<"for_cmp", v>>)
      /\ \A m : Same(<<".false", m>>) /\ Same(<<".end", m>>)
      /\ \A i : i # n => Same(<<"while_iter", i>>) /\ Same(<<"while_cmp", i>>)
  <2>1. /\ \A k : <<"goto", k>> # y /\ <<"goto", k>> # z
        /\ \A v : <<"for_iter", v>> # y /\ <<"for_cmp", v>> # y /\ <<"for_iter", v>> # z /\ <<"for_cmp", v>> # z
        /\ \A m : <<".false", m>> # y /\ <<".end", m>> # y /\ <<".false", m>> # z /\ <<".end", m>> # z
        /\ \A i : i # n => /\ <<"while_iter", i>> # y /\ <<"while_iter", i>> # z
                           /\ <<"while_cmp", i>> # y /\ <<"while_cmp", i>> # z
        /\ y # z
    BY <1>4
  <2> QED
    BY <1>6, <2>1, Zenon
<1>8. /\ Count(code', y) = Count(code, y) + 1 /\ Count(code', z) = Count(code, z)
      /\ NamedIn(code', z) /\ (NamedIn(code', y) <=> NamedIn(code, y))
  BY <1>5, <1>7 DEF Adds
<1>9. /\ \A i \in Nat : /\ Count(code, <<"while_iter", i>>) = IF i < whileId THEN 1 ELSE 0
                        /\ Count(code, <<"while_cmp", i>>) = IF Closed(i) THEN 1 ELSE 0
                        /\ NamedIn(code, <<"while_cmp", i>>) <=> i < whileId
                        /\ NamedIn(code, <<"while_iter", i>>) => i < whileId
      /\ \A c \in Cells : /\ whileArr[c] \in NoKey .. whileId - 1
                          /\ c < whileInt => whileArr[c] # NoKey
      /\ \A c, d \in Cells : c # d /\ whileArr[c] # NoKey => whileArr[c] # whileArr[d]
      /\ LostIn(D) <=> \E i \in 0 .. whileId - 1 : \A c \in Cells : c <= whileInt => whileArr[c] # i
  BY <1>2, Zenon DEF WhilesMarked
<1>10. /\ whileArr'[whileInt] = whileId
       /\ \A c \in Cells : c # whileInt => whileArr'[c] = whileArr[c]
  BY <1>1, <1>2, <1>3
<1>11. \A i : Closed(i)' <=> Closed(i)
  <2>1. \A c \in Cells : c < whileInt => whileArr'[c] = whileArr[c]
    BY <1>3, <1>10
  <2> QED
    BY <1>1, <2>1, Zenon DEF Closed
<1>12. ~Closed(n)
  BY <1>3, <1>4, <1>9 DEF Closed, NoKey
<1>13. \A i \in Nat : /\ Count(code', <<"while_iter", i>>) = IF i < whileId' THEN 1 ELSE 0
                      /\ Count(code', <<"while_cmp", i>>) = IF Closed(i)' THEN 1 ELSE 0
                      /\ NamedIn(code', <<"while_cmp", i>>) <=> i < whileId'
                      /\ NamedIn(code', <<"while_iter", i>>) => i < whileId'
  <2> SUFFICES ASSUME NEW i \in Nat
               PROVE  /\ Count(code', <<"while_iter", i>>) = IF i < whileId' THEN 1 ELSE 0
                      /\ Count(code', <<"while_cmp", i>>) = IF Closed(i)' THEN 1 ELSE 0
                      /\ NamedIn(code', <<"while_cmp", i>>) <=> i < whileId'
                      /\ NamedIn(code', <<"while_iter", i>>) => i < whileId'
    OBVIOUS
  <2>1. CASE i # n
    <3>1. i < whileId' <=> i < whileId
      BY <1>1, <1>3, <1>4, <2>1
    <3>2. Same(<<"while_iter", i>>) /\ Same(<<"while_cmp", i>>)
      BY <1>7, <2>1, Zenon
    <3> QED
      BY <1>9, <1>11, <3>1, <3>2, Zenon DEF Same
  <2>2. CASE i = n
    <3>1. i < whileId' /\ ~(i < whileId) /\ n \in Nat /\ ~(n < whileId)
      BY <1>1, <1>3, <1>4, <2>2
    <3>2. Count(code, y) = 0 /\ Count(code, z) = 0 /\ ~NamedIn(code, y)
      BY <1>4, <1>9, <1>12, <3>1, Zenon
    <3>3. Count(code', y) = 1 /\ Count(code', z) = 0 /\ NamedIn(code', z) /\ ~NamedIn(code', y)
      BY <1>8, <3>2
    <3>4. ~Closed(i)'
      BY <1>11, <1>12, <2>2
    <3> QED
      BY <1>4, <2>2, <3>1, <3>3, <3>4, Zenon
  <2> QED
    BY <2>1, <2>2
<1>14. /\ \A c \in Cells : /\ whileArr'[c] \in NoKey .. whileId' - 1
                           /\ c < whileInt' => whileArr'[c] # NoKey
       /\ \A c, d \in Cells : c # d /\ whileArr'[c] # NoKey => whileArr'[c] # whileArr'[d]
  <2>1. \A c \in Cells : /\ whileArr'[c] \in NoKey .. whileId' - 1
                         /\ c < whileInt' => whileArr'[c] # NoKey
    BY <1>1, <1>3, <1>9, <1>10 DEF NoKey
  <2>2. \A c \in Cells : whileArr[c] # whileId
    BY <1>3, <1>9 DEF NoKey
  <2>3. ASSUME NEW c \in Cells, NEW d \in Cells, c # d, whileArr'[c] # NoKey
        PROVE  whileArr'[c] # whileArr'[d]
    <3>1. CASE c = whileInt
      BY <1>10, <2>2, <2>3, <3>1
    <3>2. CASE d = whileInt
      BY <1>10, <2>2, <2>3, <3>2
    <3>3. CASE c # whileInt /\ d # whileInt
      BY <1>9, <1>10, <2>3, <3>3, Zenon
    <3> QED
      BY <3>1, <3>2, <3>3
  <2> QED
    BY <2>1, <2>3
<1>15. LostIn(F) <=> \E i \in 0 .. whileId' - 1 : \A c \in Cells : c <= whileInt' => whileArr'[c] # i
  <2>1. LostIn(F) <=> LostIn(D) \/ Open(D)
    BY <1>1, <1>2, AppendedLost, Zenon
  <2>2. ASSUME LostIn(D)
        PROVE  \E i \in 0 .. whileId' - 1 : \A c \in Cells : c <= whileInt' => whileArr'[c] # i
    <3>1. PICK i \in 0 .. whileId - 1 : \A c \in Cells : c <= whileInt => whileArr[c] # i
      BY <1>9, <2>2
    <3>2. i \in 0 .. whileId' - 1 /\ i # whileId
      BY <1>1, <1>3
    <3>3. \A c \in Cells : c <= whileInt' => whileArr'[c] # i
      BY <1>1, <1>10, <3>1, <3>2
    <3> QED
      BY <3>2, <3>3
  <2>3. ASSUME Open(D)
        PROVE  \E i \in 0 .. whileId' - 1 : \A c \in Cells : c <= whileInt' => whileArr'[c] # i
    <3>1. PICK i : i = whileArr[whileInt]
      OBVIOUS
    <3>2. i \in 0 .. whileId - 1 /\ i \in 0 .. whileId' - 1 /\ i # whileId /\ i # NoKey
      BY <1>1, <1>3, <1>9, <2>3, <3>1 DEF NoKey
    <3>3. \A c \in Cells : c # whileInt => whileArr[c] # i
      BY <1>3, <1>9, <3>1, <3>2
    <3>4. \A c \in Cells : c <= whileInt' => whileArr'[c] # i
      BY <1>10, <3>2, <3>3
    <3> QED
      BY <3>2, <3>4
  <2>4. ASSUME NEW i \in 0 .. whileId' - 1, \A c \in Cells : c <= whileInt' => whileArr'[c] # i, ~Open(D)
        PROVE  LostIn(D)
    <3>1. i # whileId
      BY <1>1, <1>3, <1>10, <2>4
    <3>2. i \in 0 .. whileId - 1 /\ i # NoKey
      BY <1>1, <1>3, <3>1 DEF NoKey
    <3>3. whileArr[whileInt] = NoKey
      BY <1>3, <2>4
    <3>4. \A c \in Cells : c <= whileInt => whileArr[c] # i
      BY <1>1, <1>10, <2>4, <3>2, <3>3
    <3> QED
      BY <1>9, <3>2, <3>4, Zenon
  <2> QED
    BY <2>1, <2>2, <2>3, <2>4
<1>16. WhilesMarked(F)'
  BY <1>13, <1>14, <1>15, Zenon DEF WhilesMarked
<1>17. S.op # "if" /\ S.op \notin {"for", "next"}
  BY <1>1
<1>18. LinesMarked'
  BY <1>1, <1>2, <1>7, LinesKept
<1>19. LoopsMarked(F)'
  BY <1>7, <1>17, LoopsAlone
<1>20. /\ Nested(work) /\ work # <<>> /\ Now.do = "stmt" /\ at \in Nat /\ Coded(D)
  BY ReadyFacts, Zenon DEF Ready
<1> QED
  BY <1>1, <1>6, <1>7, <1>16, <1>17, <1>18, <1>19, <1>20, CodedKept, Zenon

LEMMA WendCoded ==
    ASSUME NEW D, NEW F, Ready(D, F), GenWend
    PROVE  Coded(F)'
<1>1. /\ S.op = "wend" /\ Done /\ UNCHANGED <<prog, at, if_ind>>
      /\ Pending /\ whileInt' = whileInt + 1 /\ whileArr' = whileArr /\ whileId' = whileId
      /\ Emit(<<Label(<<"while_cmp", whileArr[whileInt]>>), Ins("jge", <<"while_iter", whileArr[whileInt]>>)>>)
  BY Zenon DEF GenWend, Generating, NextCell
<1>2. /\ Listed(code) /\ KnownNames(code) /\ LinesMarked /\ WhilesMarked(D) /\ CellsKept(D)
      /\ whileArr \in [Cells -> Int] /\ D \in Seq(Leaf) /\ S \in Leaf /\ OneMore(F, D, S)
  BY ReadyFacts, Zenon
<1>3. /\ whileInt \in Nat /\ whileInt \in Cells /\ whileId \in Nat /\ Cells \subseteq Nat
      /\ \A k \in Cells : k > whileInt => whileArr[k] = NoKey
      /\ whileArr[whileInt] # NoKey
  <2>1. whileInt \in Nat /\ whileId \in Nat
    BY <1>2, Zenon DEF CellsKept
  <2>2. whileInt \in Cells /\ Cells \subseteq Nat /\ whileArr[whileInt] # NoKey
    BY <1>1, <2>1, SizesAssumption DEF Cells, Pending
  <2> QED
    BY <1>2, <2>1, <2>2, Zenon DEF CellsKept
<1>4. /\ \A i \in Nat : /\ Count(code, <<"while_iter", i>>) = IF i < whileId THEN 1 ELSE 0
                        /\ Count(code, <<"while_cmp", i>>) = IF Closed(i) THEN 1 ELSE 0
                        /\ NamedIn(code, <<"while_cmp", i>>) <=> i < whileId
                        /\ NamedIn(code, <<"while_iter", i>>) => i < whileId
      /\ \A c \in Cells : /\ whileArr[c] \in NoKey .. whileId - 1
                          /\ c < whileInt => whileArr[c] # NoKey
      /\ \A c, d \in Cells : c # d /\ whileArr[c] # NoKey => whileArr[c] # whileArr[d]
      /\ LostIn(D) <=> \E i \in 0 .. whileId - 1 : \A c \in Cells : c <= whileInt => whileArr[c] # i
  BY <1>2, Zenon DEF WhilesMarked
<1>5. PICK y, z, n : y = <<"while_cmp", n>> /\ z = <<"while_iter", n>> /\ n = whileArr[whileInt]
  OBVIOUS
<1>6. n \in Nat /\ n < whileId
  BY <1>3, <1>4, <1>5 DEF NoKey
<1>7. Adds({y}, {z})
  <2>1. y \in LabelNames /\ z \in LabelNames
    BY <1>5, <1>6, LabelTypes, Zenon
  <2>2. Emit(<<Label(y), Ins("jge", z)>>)
    BY <1>1, <1>5, Zenon
  <2>3. "jge" \in {"jmp", "skip", "jge"}
    OBVIOUS
  <2> QED
    BY <1>2, <2>1, <2>2, <2>3, PairAdds, Zenon
<1>8. (\A x : x # y /\ x # z => Same(x)) /\ Listed(code') /\ KnownNames(code')
  BY <1>7, AddsSame
<1>9. /\ y # z
      /\ \A k : Same(<<"goto", k>>)
      /\ \A v : Same(<<"for_iter", v>>) /\ Same(<<"for_cmp", v>>)
      /\ \A m : Same(<<".false", m>>) /\ Same(<<".end", m>>)
      /\ \A i : i # n => Same(<<"while_iter", i>>) /\ Same(<<"while_cmp", i>>)
  <2>1. /\ \A k : <<"goto", k>> # y /\ <<"goto", k>> # z
        /\ \A v : <<"for_iter", v>> # y /\ <<"for_cmp", v>> # y /\ <<"for_iter", v>> # z /\ <<"for_cmp", v>> # z
        /\ \A m : <<".false", m>> # y /\ <<".end", m>> # y /\ <<".false", m>> # z /\ <<".end", m>> # z
        /\ \A i : i # n => /\ <<"while_iter", i>> # y /\ <<"while_iter", i>> # z
                           /\ <<"while_cmp", i>> # y /\ <<"while_cmp", i>> # z
        /\ y # z
    BY <1>5
  <2> QED
    BY <1>8, <2>1, Zenon
<1>10. /\ Count(code', y) = Count(code, y) + 1 /\ Count(code', z) = Count(code, z)
       /\ NamedIn(code', z) /\ (NamedIn(code', y) <=> NamedIn(code, y))
  BY <1>7, <1>9 DEF Adds
<1>11. \A i : Closed(i)' <=> Closed(i) \/ i = n
  <2>1. \A c \in Cells : c < whileInt' <=> c < whileInt \/ c = whileInt
    BY <1>1, <1>3
  <2> QED
    BY <1>1, <1>3, <1>5, <2>1, Zenon DEF Closed
<1>12. ~Closed(n)
  <2>1. \A c \in Cells : c < whileInt => c # whileInt
    BY <1>3
  <2> QED
    BY <1>3, <1>4, <1>5, <2>1, Zenon DEF Closed
<1>13. \A i \in Nat : /\ Count(code', <<"while_iter", i>>) = IF i < whileId' THEN 1 ELSE 0
                      /\ Count(code', <<"while_cmp", i>>) = IF Closed(i)' THEN 1 ELSE 0
                      /\ NamedIn(code', <<"while_cmp", i>>) <=> i < whileId'
                      /\ NamedIn(code', <<"while_iter", i>>) => i < whileId'
  <2> SUFFICES ASSUME NEW i \in Nat
               PROVE  /\ Count(code', <<"while_iter", i>>) = IF i < whileId' THEN 1 ELSE 0
                      /\ Count(code', <<"while_cmp", i>>) = IF Closed(i)' THEN 1 ELSE 0
                      /\ NamedIn(code', <<"while_cmp", i>>) <=> i < whileId'
                      /\ NamedIn(code', <<"while_iter", i>>) => i < whileId'
    OBVIOUS
  <2>0. i < whileId' <=> i < whileId
    BY <1>1
  <2>1. CASE i # n
    <3>1. Closed(i)' <=> Closed(i)
      BY <1>11, <2>1, Zenon
    <3>2. Same(<<"while_iter", i>>) /\ Same(<<"while_cmp", i>>)
      BY <1>9, <2>1, Zenon
    <3> QED
      BY <1>4, <2>0, <3>1, <3>2, Zenon DEF Same
  <2>2. CASE i = n
    <3>1. Count(code, y) = 0 /\ Count(code, z) = 1 /\ (NamedIn(code, y) <=> i < whileId)
      BY <1>4, <1>5, <1>6, <1>12, <2>2, Zenon
    <3>2. Count(code', y) = 1 /\ Count(code', z) = 1 /\ NamedIn(code', z) /\ (NamedIn(code', y) <=> i < whileId)
      BY <1>10, <3>1
    <3>3. Closed(i)'
      BY <1>11, <2>2, Zenon
    <3> QED
      BY <1>5, <1>6, <2>0, <2>2, <3>2, <3>3, Zenon
  <2> QED
    BY <2>1, <2>2
<1>14. /\ \A c \in Cells : /\ whileArr'[c] \in NoKey .. whileId' - 1
                           /\ c < whileInt' => whileArr'[c] # NoKey
       /\ \A c, d \in Cells : c # d /\ whileArr'[c] # NoKey => whileArr'[c] # whileArr'[d]
  <2>1. \A c \in Cells : c < whileInt' => c < whileInt \/ c = whileInt
    BY <1>1, <1>3
  <2> QED
    BY <1>1, <1>3, <1>4, <2>1, Zenon
<1>15. LostIn(F) <=> \E i \in 0 .. whileId' - 1 : \A c \in Cells : c <= whileInt' => whileArr'[c] # i
  <2>1. LostIn(F) <=> LostIn(D)
    <3>1. S.op # "while"
      BY <1>1
    <3> QED
      BY <1>2, <3>1, AppendedLost, Zenon
  <2>2. \A c \in Cells : c <= whileInt' <=> c <= whileInt \/ c = whileInt + 1
    BY <1>1, <1>3
  <2>3. \A c \in Cells : c = whileInt + 1 => whileArr[c] = NoKey
    BY <1>3
  <2>4. \A i \in 0 .. whileId - 1 : i # NoKey
    BY DEF NoKey
  <2> QED
    BY <1>1, <1>4, <2>1, <2>2, <2>3, <2>4
<1>16. WhilesMarked(F)'
  BY <1>13, <1>14, <1>15, Zenon DEF WhilesMarked
<1>17. S.op # "if" /\ S.op \notin {"for", "next"}
  BY <1>1
<1>18. LinesMarked'
  BY <1>1, <1>2, <1>9, LinesKept
<1>19. LoopsMarked(F)'
  BY <1>9, <1>17, LoopsAlone
<1>20. /\ Nested(work) /\ work # <<>> /\ Now.do = "stmt" /\ at \in Nat /\ Coded(D)
  BY ReadyFacts, Zenon DEF Ready
<1> QED
  BY <1>1, <1>8, <1>9, <1>16, <1>17, <1>18, <1>19, <1>20, CodedKept, Zenon

-----------------------------------------------------------------------------
(* The parts of an IF, and a new line.                                     *)

IfNames == {".false", ".end"} \X Nat

\* What an IF adds leaves the lines and the loops alone; a missing ELSE part
\* is no statement that counts.
LEMMA OthersKept ==
    ASSUME NEW D \in Seq(Leaf), NEW G, G = D \/ OneMore(G, D, NoStmt), Coded(D),
           NEW Y \in SUBSET IfNames, NEW Z \in SUBSET IfNames, Adds(Y, Z),
           UNCHANGED <<prog, at, whileArr, whileInt, whileId>>
    PROVE  /\ Listed(code') /\ KnownNames(code')
           /\ LinesMarked' /\ LoopsMarked(G)' /\ WhilesMarked(G)'
<1>1. (\A x : x \notin Y /\ x \notin Z => Same(x)) /\ Listed(code') /\ KnownNames(code')
  BY AddsSame
<1>2. /\ \A k : Same(<<"goto", k>>)
      /\ \A v : Same(<<"for_iter", v>>) /\ Same(<<"for_cmp", v>>)
      /\ \A i : Same(<<"while_iter", i>>) /\ Same(<<"while_cmp", i>>)
  <2>1. /\ \A k : <<"goto", k>> \notin IfNames
        /\ \A v : <<"for_iter", v>> \notin IfNames /\ <<"for_cmp", v>> \notin IfNames
        /\ \A i : <<"while_iter", i>> \notin IfNames /\ <<"while_cmp", i>> \notin IfNames
    BY DEF IfNames
  <2>2. \A x : x \notin IfNames => Same(x)
    BY <1>1
  <2> QED
    BY <2>1, <2>2, Zenon
<1>3. LinesMarked /\ LoopsMarked(D) /\ WhilesMarked(D)
  BY Zenon DEF Coded
<1>4. prog' = prog /\ at' = at /\ whileArr' = whileArr /\ whileInt' = whileInt /\ whileId' = whileId
  OBVIOUS
<1>5. NoStmt \in Leaf /\ NoStmt.op = "none"
  BY DEF Leaf, NoStmt
<1>6. \A v : Of(G, "for", v) = Of(D, "for", v) /\ Of(G, "next", v) = Of(D, "next", v)
  <2>1. CASE G = D
    BY <2>1
  <2>2. CASE OneMore(G, D, NoStmt)
    <3>1. \A op, v : AppendsOf(G, D, NoStmt, op, v)
      BY <1>5, <2>2, AppendedOf, Zenon
    <3>2. NoStmt.op # "for" /\ NoStmt.op # "next"
      BY <1>5
    <3> QED
      BY <3>1, <3>2, Zenon DEF AppendsOf
  <2> QED
    BY <2>1, <2>2
<1>7. LostIn(G) <=> LostIn(D)
  <2>1. NoStmt.op # "while"
    BY <1>5
  <2> QED
    BY <1>5, <2>1, AppendedLost, Zenon
<1>8. LinesMarked'
  BY <1>2, <1>3, <1>4, LinesKept
<1>9. LoopsMarked(G)'
  BY <1>2, <1>3, <1>6, LoopsKept
<1>10. WhilesMarked(G)'
  BY <1>2, <1>3, <1>4, <1>7, WhilesKept
<1> QED
  BY <1>1, <1>8, <1>9, <1>10

JoinsUp(c, E, j) ==
    /\ Listed(j) /\ DOMAIN j = 1 .. Len(c) + Len(E)
    /\ \A k \in 1 .. Len(c) : j[k] = c[k]
    /\ \A k \in 1 .. Len(E) : j[Len(c) + k] = E[k]

LEMMA JoinedUp ==
    ASSUME NEW c, Listed(c), NEW T, NEW E \in Seq(T), NEW j, j = c \o E
    PROVE  JoinsUp(c, E, j)
<1>1. /\ DOMAIN j = 1 .. Len(c) + Len(E)
      /\ \A k \in 1 .. Len(c) : j[k] = c[k]
      /\ \A k \in 1 .. Len(E) : j[Len(c) + k] = E[k]
  BY JoinedCode
<1>2. Listed(j)
  BY JoinedCode, Zenon
<1> QED
  BY <1>1, <1>2, Zenon DEF JoinsUp

\* Items put in the place of the first one.
LEMMA TwoFirst ==
    ASSUME Nested(work), work # <<>>, NEW a, NEW b, work' = <<a, b>> \o Tail(work)
    PROVE  /\ Len(work) \in 1 .. 3 /\ DOMAIN work = 1 .. Len(work) /\ DOMAIN work' = 1 .. Len(work) + 1
           /\ Len(work') = Len(work) + 1 /\ work'[1] = a /\ work'[2] = b
           /\ \A k \in 2 .. Len(work) : work'[k + 1] = work[k]
<1>1. PICK t : t = Tail(work)
  OBVIOUS
<1>2. /\ t \in Seq(Items) /\ Len(t) = Len(work) - 1 /\ Len(work) \in 1 .. 3
      /\ \A k \in 1 .. Len(t) : t[k] = work[k + 1]
  BY <1>1, NestedTail, Zenon DEF Nested
<1>3. work \in Seq(Items)
  BY Zenon DEF Nested
<1>4. PICK c \in Seq({a, b}) : c = <<a, b>> /\ Len(c) = 2 /\ c[1] = a /\ c[2] = b
  <2>1. /\ <<a, b>> \in Seq({a, b}) /\ Len(<<a, b>>) = 2
        /\ <<a, b>>[1] = a /\ <<a, b>>[2] = b
    OBVIOUS
  <2> QED
    BY <2>1
<1>5. PICK j : j = c \o t
  OBVIOUS
<1>6. work' = j
  BY <1>1, <1>4, <1>5, Zenon
<1>7. Listed(c)
  BY <1>4, ItsOwnRange, Zenon
<1>8. /\ Listed(j) /\ DOMAIN j = 1 .. Len(c) + Len(t)
      /\ \A k \in 1 .. Len(c) : j[k] = c[k]
      /\ \A k \in 1 .. Len(t) : j[Len(c) + k] = t[k]
  <2>1. t \in Seq(Items)
    BY <1>2
  <2>2. JoinsUp(c, t, j)
    BY <1>5, <1>7, <2>1, JoinedUp, Zenon
  <2> QED
    BY <2>2, Zenon DEF JoinsUp
<1>9. Len(j) \in Nat /\ DOMAIN j = 1 .. Len(j)
  BY <1>8, ListedIsSeq, Zenon
<1>10. DOMAIN j = 1 .. Len(work) + 1 /\ Len(j) = Len(work) + 1
  BY <1>2, <1>4, <1>8, <1>9
<1>11. j[1] = a /\ j[2] = b
  BY <1>4, <1>8
<1>12. \A k \in 2 .. Len(work) : j[k + 1] = work[k]
  <2> SUFFICES ASSUME NEW k \in 2 .. Len(work) PROVE j[k + 1] = work[k]
    OBVIOUS
  <2>1. k - 1 \in 1 .. Len(t) /\ Len(c) + (k - 1) = k + 1 /\ (k - 1) + 1 = k
    BY <1>2, <1>4
  <2>2. j[Len(c) + (k - 1)] = t[k - 1] /\ t[k - 1] = work[(k - 1) + 1]
    BY <1>2, <1>8, <2>1, Zenon
  <2> QED
    BY <2>1, <2>2
<1>13. DOMAIN work = 1 .. Len(work)
  BY <1>3, LenProperties, Zenon
<1> QED
  BY <1>2, <1>6, <1>10, <1>11, <1>12, <1>13, Zenon

LEMMA OneFirst ==
    ASSUME Nested(work), work # <<>>, NEW b, work' = <<b>> \o Tail(work)
    PROVE  /\ Len(work) \in 1 .. 3 /\ DOMAIN work = 1 .. Len(work) /\ DOMAIN work' = 1 .. Len(work)
           /\ Len(work') = Len(work) /\ work'[1] = b
           /\ \A k \in 2 .. Len(work) : work'[k] = work[k]
<1>1. PICK t : t = Tail(work)
  OBVIOUS
<1>2. /\ t \in Seq(Items) /\ Len(t) = Len(work) - 1 /\ Len(work) \in 1 .. 3
      /\ \A k \in 1 .. Len(t) : t[k] = work[k + 1]
  BY <1>1, NestedTail, Zenon DEF Nested
<1>3. work \in Seq(Items)
  BY Zenon DEF Nested
<1>4. PICK c \in Seq({b}) : c = <<b>> /\ Len(c) = 1 /\ c[1] = b
  <2>1. <<b>> \in Seq({b}) /\ Len(<<b>>) = 1 /\ <<b>>[1] = b
    OBVIOUS
  <2> QED
    BY <2>1
<1>5. PICK j : j = c \o t
  OBVIOUS
<1>6. work' = j
  BY <1>1, <1>4, <1>5, Zenon
<1>7. Listed(c)
  BY <1>4, ItsOwnRange, Zenon
<1>8. /\ Listed(j) /\ DOMAIN j = 1 .. Len(c) + Len(t)
      /\ \A k \in 1 .. Len(c) : j[k] = c[k]
      /\ \A k \in 1 .. Len(t) : j[Len(c) + k] = t[k]
  <2>1. t \in Seq(Items)
    BY <1>2
  <2>2. JoinsUp(c, t, j)
    BY <1>5, <1>7, <2>1, JoinedUp, Zenon
  <2> QED
    BY <2>2, Zenon DEF JoinsUp
<1>9. Len(j) \in Nat /\ DOMAIN j = 1 .. Len(j)
  BY <1>8, ListedIsSeq, Zenon
<1>10. DOMAIN j = 1 .. Len(work) /\ Len(j) = Len(work)
  BY <1>2, <1>4, <1>8, <1>9
<1>11. j[1] = b
  BY <1>4, <1>8
<1>12. \A k \in 2 .. Len(work) : j[k] = work[k]
  <2> SUFFICES ASSUME NEW k \in 2 .. Len(work) PROVE j[k] = work[k]
    OBVIOUS
  <2>1. k - 1 \in 1 .. Len(t) /\ Len(c) + (k - 1) = k /\ (k - 1) + 1 = k
    BY <1>2, <1>4
  <2>2. j[Len(c) + (k - 1)] = t[k - 1] /\ t[k - 1] = work[(k - 1) + 1]
    BY <1>2, <1>8, <2>1, Zenon
  <2> QED
    BY <2>1, <2>2
<1>13. DOMAIN work = 1 .. Len(work)
  BY <1>3, LenProperties, Zenon
<1> QED
  BY <1>2, <1>6, <1>10, <1>11, <1>12, <1>13, Zenon

\* The conditions on the IFs, one by one, as the proofs below use them.
IfsCounted(c, n0, ended, open) ==
    \A n \in Nat :
        /\ Count(c, <<".false", n>>) = IF n < n0 \/ (n = n0 /\ ended) THEN 1 ELSE 0
        /\ Count(c, <<".end", n>>) = IF n < n0 THEN 1 ELSE 0
        /\ NamedIn(c, <<".false", n>>) \/ NamedIn(c, <<".end", n>>) => n < n0 \/ (n = n0 /\ open)
Unended(w) == \E k \in DOMAIN w : w[k].do # "stmt"
OneEnd(w)  == \A k, l \in DOMAIN w : w[k].do = "end" /\ w[l].do = "end" => k = l
IfsMet     == /\ \A k \in 1 .. at - 1 : ~ElseIf(prog[k])
              /\ at > 0 => (ElseIf(prog[at]) <=> Coming(work))

LEMMA IfsParts ==
    IfsMarked <=> /\ IfsCounted(code, if_ind, Ended(work), Unended(work))
                  /\ \A k \in 2 .. Len(work) : work[k].do # "stmt"
                  /\ OneEnd(work) /\ IfsMet
BY Zenon DEF IfsMarked, IfsCounted, Unended, OneEnd, IfsMet

LEMMA IfsPartsNext ==
    IfsMarked' <=> /\ IfsCounted(code', if_ind', Ended(work'), Unended(work'))
                   /\ \A k \in 2 .. Len(work') : work'[k].do # "stmt"
                   /\ OneEnd(work') /\ IfsMet'
BY Zenon DEF IfsMarked, IfsCounted, Unended, OneEnd, IfsMet

\* The THEN part before the ELSE part.
LEMMA IfComing ==
    ASSUME Nested(work), work # <<>>, Now.do = "stmt", S.op = "if", NEW a, NEW b,
           work' = <<a, b>> \o Tail(work), a.do = "stmt", ~ElseIf(a.s), b.do = "else", b.s = S
    PROVE  /\ Ended(work') <=> Ended(work)
           /\ Coming(work') <=> Coming(work)
           /\ OneEnd(work) => OneEnd(work')
           /\ (\A k \in 2 .. Len(work) : work[k].do # "stmt") =>
              (\A k \in 2 .. Len(work') : work'[k].do # "stmt")
           /\ Unended(work')
<1>1. /\ Len(work) \in 1 .. 3 /\ DOMAIN work = 1 .. Len(work) /\ DOMAIN work' = 1 .. Len(work) + 1
      /\ Len(work') = Len(work) + 1 /\ work'[1] = a /\ work'[2] = b
      /\ \A k \in 2 .. Len(work) : work'[k + 1] = work[k]
  BY TwoFirst
<1>2. work[1].do = "stmt" /\ work[1].s = S
  BY DEF Now, S
\* Each item of the work has moved up, the IF as its ELSE part.
<1>3. \A k \in DOMAIN work : /\ k + 1 \in DOMAIN work' /\ work'[k + 1].s = work[k].s
                             /\ work'[k + 1].do = "end" <=> work[k].do = "end"
  <2> SUFFICES ASSUME NEW k \in DOMAIN work
               PROVE  /\ k + 1 \in DOMAIN work' /\ work'[k + 1].s = work[k].s
                      /\ work'[k + 1].do = "end" <=> work[k].do = "end"
    OBVIOUS
  <2>1. CASE k = 1
    BY <1>1, <1>2, <2>1
  <2>2. CASE k # 1
    <3>1. k \in 2 .. Len(work) /\ k + 1 \in DOMAIN work'
      BY <1>1, <2>2
    <3>2. work'[k + 1] = work[k]
      BY <1>1, <3>1, Zenon
    <3> QED
      BY <3>1, <3>2
  <2> QED
    BY <2>1, <2>2
<1>4. \A k \in DOMAIN work' : k = 1 \/ (k - 1 \in DOMAIN work /\ (k - 1) + 1 = k)
  BY <1>1
<1>5. 1 \in DOMAIN work' /\ work'[1].do = "stmt" /\ work'[1].do # "end" /\ ~ElseIf(work'[1].s)
  BY <1>1
<1>6. Ended(work') <=> Ended(work)
  <2>1. ASSUME NEW k \in DOMAIN work', work'[k].do = "end"
        PROVE  Ended(work)
    <3>1. k - 1 \in DOMAIN work /\ (k - 1) + 1 = k
      BY <1>4, <1>5, <2>1, Zenon
    <3>2. work[k - 1].do = "end"
      BY <1>3, <2>1, <3>1, Zenon
    <3> QED
      BY <3>1, <3>2, Zenon DEF Ended
  <2>2. ASSUME NEW k \in DOMAIN work, work[k].do = "end"
        PROVE  Ended(work')
    <3>1. k + 1 \in DOMAIN work' /\ work'[k + 1].do = "end"
      BY <1>3, <2>2, Zenon
    <3> QED
      BY <3>1, Zenon DEF Ended
  <2> QED
    BY <2>1, <2>2, Zenon DEF Ended
<1>7. OneEnd(work) => OneEnd(work')
  <2> SUFFICES ASSUME OneEnd(work), NEW k \in DOMAIN work', NEW l \in DOMAIN work',
                      work'[k].do = "end", work'[l].do = "end"
               PROVE  k = l
    BY Zenon DEF OneEnd
  <2>1. /\ k - 1 \in DOMAIN work /\ (k - 1) + 1 = k
        /\ l - 1 \in DOMAIN work /\ (l - 1) + 1 = l
    BY <1>4, <1>5
  <2>2. work[k - 1].do = "end" /\ work[l - 1].do = "end"
    BY <1>3, <2>1, Zenon
  <2>3. k - 1 = l - 1
    BY <2>1, <2>2, Zenon DEF OneEnd
  <2> QED
    BY <2>1, <2>3
<1>8. (\A k \in 2 .. Len(work) : work[k].do # "stmt") => (\A k \in 2 .. Len(work') : work'[k].do # "stmt")
  <2> SUFFICES ASSUME \A k \in 2 .. Len(work) : work[k].do # "stmt", NEW k \in 2 .. Len(work')
               PROVE  work'[k].do # "stmt"
    OBVIOUS
  <2>1. CASE k = 2
    BY <1>1, <2>1
  <2>2. CASE k # 2
    <3>1. k - 1 \in 2 .. Len(work) /\ (k - 1) + 1 = k
      BY <1>1, <2>2
    <3> QED
      BY <1>1, <3>1
  <2> QED
    BY <2>1, <2>2
<1>9. Unended(work')
  <2>1. 2 \in DOMAIN work' /\ work'[2].do # "stmt"
    BY <1>1
  <2> QED
    BY <2>1, Zenon DEF Unended
<1>10. Coming(work) => Coming(work')
  <2>1. ASSUME NEW k \in DOMAIN work, work[k].do # "end", ElseIf(work[k].s)
        PROVE  Coming(work')
    <3>1. k + 1 \in DOMAIN work' /\ work'[k + 1].do # "end" /\ ElseIf(work'[k + 1].s)
      BY <1>3, <2>1, Zenon
    <3> QED
      BY <3>1, Zenon DEF Coming
  <2>2. ASSUME NEW k \in DOMAIN work, NEW l \in DOMAIN work, k < l,
               work[l].do = "end", work[k].do # "end", work[k].s.op = "if"
        PROVE  Coming(work')
    <3>1. /\ k + 1 \in DOMAIN work' /\ work'[k + 1].do # "end" /\ work'[k + 1].s.op = "if"
          /\ l + 1 \in DOMAIN work' /\ work'[l + 1].do = "end"
      BY <1>3, <2>2, Zenon
    <3>2. k + 1 < l + 1
      BY <1>1, <2>2
    <3> QED
      BY <3>1, <3>2, Zenon DEF Coming
  <2> QED
    BY <2>1, <2>2, Zenon DEF Coming
<1>11. Coming(work') => Coming(work)
  <2>1. ASSUME NEW k \in DOMAIN work', work'[k].do # "end", ElseIf(work'[k].s)
        PROVE  Coming(work)
    <3>1. k # 1
      BY <1>5, <2>1
    <3>2. k - 1 \in DOMAIN work /\ (k - 1) + 1 = k
      BY <1>4, <3>1
    <3>3. work[k - 1].do # "end" /\ ElseIf(work[k - 1].s)
      BY <1>3, <2>1, <3>2, Zenon
    <3> QED
      BY <3>2, <3>3, Zenon DEF Coming
  <2>2. ASSUME NEW k \in DOMAIN work', NEW l \in DOMAIN work', k < l,
               work'[l].do = "end", work'[k].do # "end", work'[k].s.op = "if"
        PROVE  Coming(work)
    <3>1. l - 1 \in DOMAIN work /\ (l - 1) + 1 = l
      BY <1>4, <1>5, <2>2
    <3>2. work[l - 1].do = "end"
      BY <1>3, <2>2, <3>1, Zenon
    <3>3. CASE k = 1
      <4>1. l - 1 # 1
        BY <1>2, <3>2
      <4>2. 1 \in DOMAIN work /\ 1 < l - 1
        BY <1>1, <3>1, <4>1
      <4>3. work[1].do # "end" /\ work[1].s.op = "if"
        BY <1>2
      <4> QED
        BY <3>1, <3>2, <4>2, <4>3, Zenon DEF Coming
    <3>4. CASE k # 1
      <4>1. k - 1 \in DOMAIN work /\ (k - 1) + 1 = k
        BY <1>4, <3>4
      <4>2. work[k - 1].do # "end" /\ work[k - 1].s.op = "if"
        BY <1>3, <2>2, <4>1, Zenon
      <4>3. k - 1 < l - 1
        BY <1>1, <2>2
      <4> QED
        BY <3>1, <3>2, <4>1, <4>2, <4>3, Zenon DEF Coming
    <3> QED
      BY <3>3, <3>4
  <2> QED
    BY <2>1, <2>2, Zenon DEF Coming
<1> QED
  BY <1>6, <1>7, <1>8, <1>9, <1>10, <1>11, Zenon

LEMMA IfCoded ==
    ASSUME GenInv, NEW D \in Seq(Leaf), D \o Left(work) = TextRead, Coded(D), GenIf
    PROVE  \E G \in Seq(Leaf) : G \o Left(work') = TextRead' /\ Coded(G)'
<1>1. /\ pc = "generate" /\ work # <<>> /\ Now.do = "stmt" /\ S.op = "if"
      /\ Emit(<<Ins("jl", <<".false", if_ind>>)>>)
      /\ work' = <<Item("stmt", S.then, Append(Now.path, TRUE)), Item("else", S, Now.path)>> \o Tail(work)
      /\ UNCHANGED <<prog, at, whileArr, whileInt, whileId>> /\ if_ind' = if_ind
  BY DEF GenIf, Generating, tables
<1>2. Nested(work) /\ Listed(code) /\ KnownNames(code) /\ if_ind \in Nat /\ at # 0 /\ at \in Nat
  <2>1. Len(prog) \in Nat /\ at \in 0 .. Len(prog)
    BY ProgIsSeq, Zenon DEF GenInv
  <2>2. at \in Nat
    BY <2>1
  <2> QED
    BY <1>1, <2>2, Zenon DEF GenInv, Coded
<1>3. PICK a, b : a = Item("stmt", S.then, Append(Now.path, TRUE)) /\ b = Item("else", S, Now.path)
  OBVIOUS
<1>4. a.do = "stmt" /\ a.s = S.then /\ b.do = "else" /\ b.s = S /\ work' = <<a, b>> \o Tail(work)
  BY <1>1, <1>3 DEF Item
<1>5. ~ElseIf(S.then)
  <2>1. S \in IfOf(Inner)
    BY <1>1, <1>2, AtAnIf, Zenon
  <2>2. S.then \in Part
    BY <2>1, IfLeaves
  <2> QED
    BY <2>2, NoInnerElseIf, Zenon
<1>6. /\ Ended(work') <=> Ended(work)
      /\ Coming(work') <=> Coming(work)
      /\ OneEnd(work) => OneEnd(work')
      /\ (\A k \in 2 .. Len(work) : work[k].do # "stmt") => (\A k \in 2 .. Len(work') : work'[k].do # "stmt")
      /\ Unended(work')
  BY <1>1, <1>2, <1>4, <1>5, IfComing
<1>7. PICK z : z = <<".false", if_ind>>
  OBVIOUS
<1>8. z \in LabelNames /\ z \in IfNames
  <2>1. z \in IfNames
    BY <1>2, <1>7 DEF IfNames
  <2> QED
    BY <1>2, <1>7, <2>1, LabelTypes, Zenon
<1>9. Adds({}, {z})
  <2>1. PICK i : i = Ins("jl", z)
    OBVIOUS
  <2>2. i.i \in {"jmp", "skip", "jl", "jge", "call"} /\ i.x = z /\ Emit(<<i>>)
    BY <1>1, <1>7, <2>1, InsParts
  <2> QED
    BY <1>2, <1>8, <2>2, AddsJump
<1>10. (\A x : x # z => Same(x)) /\ Count(code', z) = Count(code, z) /\ NamedIn(code', z)
  <2>1. \A x : x # z => Same(x)
    BY <1>9, AddsSame
  <2> QED
    BY <1>9, <2>1 DEF Adds
<1>11. /\ Listed(code') /\ KnownNames(code')
       /\ LinesMarked' /\ LoopsMarked(D)' /\ WhilesMarked(D)'
  <2>1. {z} \in SUBSET IfNames /\ {} \in SUBSET IfNames
    BY <1>8
  <2> QED
    BY <1>1, <1>9, <2>1, OthersKept
<1>12. \A n \in Nat : /\ Count(code', <<".false", n>>) = Count(code, <<".false", n>>)
                      /\ Count(code', <<".end", n>>) = Count(code, <<".end", n>>)
                      /\ NamedIn(code', <<".end", n>>) <=> NamedIn(code, <<".end", n>>)
                      /\ n # if_ind => (NamedIn(code', <<".false", n>>) <=> NamedIn(code, <<".false", n>>))
  <2>1. \A n \in Nat : <<".end", n>> # z /\ (n # if_ind => <<".false", n>> # z) /\ (n = if_ind => <<".false", n>> = z)
    BY <1>7
  <2> QED
    BY <1>10, <2>1 DEF Same
<1>13. IfsMarked' \/ Doubled'
  <2>1. CASE IfsMarked
    <3>1. /\ IfsCounted(code, if_ind, Ended(work), Unended(work))
          /\ \A k \in 2 .. Len(work) : work[k].do # "stmt"
          /\ OneEnd(work) /\ IfsMet
      BY <2>1, IfsParts, Zenon
    <3>2. IfsCounted(code', if_ind', Ended(work'), Unended(work'))
      BY <1>1, <1>2, <1>6, <1>12, <3>1 DEF IfsCounted
    <3>3. IfsMet'
      BY <1>1, <1>6, <3>1 DEF IfsMet
    <3> QED
      BY <1>6, <3>1, <3>2, <3>3, IfsPartsNext, Zenon
  <2>2. CASE Doubled
    <3>1. \A n \in Nat : Count(code', <<".false", n>>) \in {Count(code, <<".false", n>>),
                                                            Count(code, <<".false", n>>) + 1}
      BY <1>12
    <3>2. at' \in {at, at + 1} /\ prog' = prog
      BY <1>1
    <3> QED
      BY <1>2, <1>11, <2>2, <3>1, <3>2, DoubledKept, Zenon
  <2>3. IfsMarked \/ Doubled
    BY Zenon DEF Coded
  <2> QED
    BY <2>1, <2>2, <2>3
<1>14. if_ind' \in Nat /\ (work' # <<>> => at' # 0)
  BY <1>1, <1>2
<1>15. Coded(D)'
  BY <1>11, <1>13, <1>14, Zenon DEF Coded
<1>16. Left(work') = Left(work) /\ TextRead' = TextRead
  BY <1>1, IfWork DEF TextRead
<1> QED
  BY <1>15, <1>16

\* What the ELSE part of an IF puts before the items below it: the end of the
\* IF and, if there is one, the statement.
LEMMA ElseItems ==
    ASSUME Nested(work), work # <<>>, Now.do = "else", GenElse
    PROVE  \E b : /\ b.do = "end"
                  /\ \/ S.else = NoStmt /\ work' = <<b>> \o Tail(work)
                     \/ \E a : a.do = "stmt" /\ a.s = S.else /\ work' = <<a, b>> \o Tail(work)
<1>1. work' = (IF S.else = NoStmt THEN <<>> ELSE <<Item("stmt", S.else, Append(Now.path, FALSE))>>)
              \o <<Item("end", S, Now.path)>> \o Tail(work)
  BY Zenon DEF GenElse
<1>2. PICK a, b : a = Item("stmt", S.else, Append(Now.path, FALSE)) /\ b = Item("end", S, Now.path)
  OBVIOUS
<1>3. a.do = "stmt" /\ a.s = S.else /\ b.do = "end"
  BY <1>2 DEF Item
<1>4. CASE S.else = NoStmt
  <2>1. work' = (<<>> \o <<b>>) \o Tail(work)
    BY <1>1, <1>2, <1>4, Zenon
  <2>2. <<>> \o <<b>> = <<b>>
    <3>1. <<b>> \in Seq({b})
      OBVIOUS
    <3> QED
      BY <3>1, ConcatEmptySeq, Zenon
  <2>3. work' = <<b>> \o Tail(work)
    BY <2>1, <2>2, Zenon
  <2> QED
    BY <1>3, <1>4, <2>3, Zenon
<1>5. CASE S.else # NoStmt
  <2>1. work' = (<<a>> \o <<b>>) \o Tail(work)
    BY <1>1, <1>2, <1>5, Zenon
  <2>2. <<a>> \o <<b>> = <<a, b>>
    <3>1. a \in {a, b} /\ b \in {a, b}
      OBVIOUS
    <3> QED
      BY <3>1, TwoOfThem, Zenon
  <2>3. work' = <<a, b>> \o Tail(work)
    BY <2>1, <2>2, Zenon
  <2> QED
    BY <1>3, <2>3, Zenon
<1> QED
  BY <1>4, <1>5

\* The first ELSE part of a line under way.
LEMMA ElseComing ==
    ASSUME Nested(work), work # <<>>, Now.do = "else", S.op = "if", ~ElseIf(S.else), GenElse,
           ~Ended(work), \A k \in 2 .. Len(work) : work[k].do # "stmt"
    PROVE  /\ Ended(work')
           /\ Coming(work') <=> Coming(work)
           /\ OneEnd(work')
           /\ \A k \in 2 .. Len(work') : work'[k].do # "stmt"
           /\ Unended(work')
<1>1. PICK b : /\ b.do = "end"
               /\ \/ S.else = NoStmt /\ work' = <<b>> \o Tail(work)
                  \/ \E a : a.do = "stmt" /\ a.s = S.else /\ work' = <<a, b>> \o Tail(work)
  BY ElseItems, Zenon
<1>2. work[1].do = "else" /\ work[1].s = S
  BY DEF Now, S
<1>3. \A k \in DOMAIN work : work[k].do # "end"
  BY Zenon DEF Ended
<1>4. CASE S.else = NoStmt /\ work' = <<b>> \o Tail(work)
  <2>1. /\ Len(work) \in 1 .. 3 /\ DOMAIN work = 1 .. Len(work) /\ DOMAIN work' = 1 .. Len(work)
        /\ Len(work') = Len(work) /\ work'[1] = b
        /\ \A k \in 2 .. Len(work) : work'[k] = work[k]
    BY <1>4, OneFirst
  <2>2. /\ \A k \in DOMAIN work' : k \in DOMAIN work /\ (k = 1 \/ work'[k] = work[k])
        /\ \A k \in DOMAIN work : k \in DOMAIN work' /\ (k = 1 \/ work'[k] = work[k])
        /\ 1 \in DOMAIN work'
    BY <2>1
  <2>3. Ended(work') /\ OneEnd(work') /\ Unended(work')
    <3>1. \A k \in DOMAIN work' : work'[k].do = "end" => k = 1
      BY <1>3, <2>2
    <3>2. work'[1].do = "end"
      BY <1>1, <2>1
    <3>3. "end" # "stmt"
      OBVIOUS
    <3> QED
      BY <2>2, <3>1, <3>2, <3>3, Zenon DEF Ended, OneEnd, Unended
  <2>4. Coming(work') <=> Coming(work)
    <3>1. ~ElseIf(S)
      BY <1>4 DEF ElseIf, NoStmt
    <3>2. Coming(work) <=> \E k \in DOMAIN work : k # 1 /\ ElseIf(work[k].s)
      BY <1>2, <1>3, <3>1, Zenon DEF Coming
    <3>3. Coming(work') <=> \E k \in DOMAIN work' : k # 1 /\ ElseIf(work'[k].s)
      <4>1. ~\E k, l \in DOMAIN work' : k < l /\ work'[l].do = "end" /\ work'[k].do # "end" /\ work'[k].s.op = "if"
        <5>1. \A l \in DOMAIN work' : work'[l].do = "end" => l = 1
          BY <1>3, <2>2
        <5>2. \A k \in DOMAIN work' : ~(k < 1)
          BY <2>1
        <5> QED
          BY <5>1, <5>2
      <4>2. \A k \in DOMAIN work' : work'[k].do # "end" <=> k # 1
        BY <1>1, <1>3, <2>1, <2>2
      <4> QED
        BY <4>1, <4>2, Zenon DEF Coming
    <3> QED
      BY <2>2, <3>2, <3>3, Zenon
  <2>5. \A k \in 2 .. Len(work') : work'[k].do # "stmt"
    BY <2>1
  <2> QED
    BY <2>3, <2>4, <2>5, Zenon
<1>5. CASE \E a : a.do = "stmt" /\ a.s = S.else /\ work' = <<a, b>> \o Tail(work)
  <2>0. PICK a : a.do = "stmt" /\ a.s = S.else /\ work' = <<a, b>> \o Tail(work)
    BY <1>5
  <2>1. /\ Len(work) \in 1 .. 3 /\ DOMAIN work = 1 .. Len(work) /\ DOMAIN work' = 1 .. Len(work) + 1
        /\ Len(work') = Len(work) + 1 /\ work'[1] = a /\ work'[2] = b
        /\ \A k \in 2 .. Len(work) : work'[k + 1] = work[k]
    BY <2>0, TwoFirst
  <2>2. \A k \in DOMAIN work' : \/ k = 1 \/ k = 2
                                \/ k - 1 \in DOMAIN work /\ work'[k] = work[k - 1]
    <3> SUFFICES ASSUME NEW k \in DOMAIN work', k # 1, k # 2
                 PROVE  k - 1 \in DOMAIN work /\ work'[k] = work[k - 1]
      OBVIOUS
    <3>1. k - 1 \in 2 .. Len(work) /\ (k - 1) + 1 = k
      BY <2>1
    <3>2. work'[(k - 1) + 1] = work[k - 1]
      BY <2>1, <3>1, Zenon
    <3> QED
      BY <2>1, <3>1, <3>2
  <2>3. 1 \in DOMAIN work' /\ 2 \in DOMAIN work' /\ 1 \in DOMAIN work
    BY <2>1
  <2>4. \A k \in DOMAIN work' : work'[k].do = "end" <=> k = 2
    <3>1. work'[1].do = "stmt" /\ work'[2].do = "end"
      BY <1>1, <2>0, <2>1
    <3> QED
      BY <1>3, <2>2, <3>1
  <2>5. Ended(work') /\ OneEnd(work') /\ Unended(work')
    <3>1. "end" # "stmt"
      OBVIOUS
    <3> QED
      BY <2>3, <2>4, <3>1, Zenon DEF Ended, OneEnd, Unended
  <2>6. \A k \in 2 .. Len(work') : work'[k].do # "stmt"
    <3> SUFFICES ASSUME NEW k \in 2 .. Len(work') PROVE work'[k].do # "stmt"
      OBVIOUS
    <3>1. CASE k = 2
      BY <1>1, <2>1, <3>1
    <3>2. CASE k # 2
      <4>1. k - 1 \in 2 .. Len(work) /\ k \in DOMAIN work' /\ k # 1
        BY <2>1, <3>2
      <4>2. work'[k] = work[k - 1]
        BY <2>2, <3>2, <4>1, Zenon
      <4> QED
        BY <4>1, <4>2
    <3> QED
      BY <3>1, <3>2
  <2>7. Coming(work) => Coming(work')
    <3>1. SUFFICES ASSUME NEW k \in DOMAIN work, ElseIf(work[k].s) PROVE Coming(work')
      BY <1>3, Zenon DEF Coming
    <3>2. CASE k = 1
      <4>1. S.else.op = "if"
        BY <1>2, <3>1, <3>2 DEF ElseIf
      <4>2. work'[1].do # "end" /\ work'[1].s.op = "if" /\ 1 < 2 /\ work'[2].do = "end"
        <5>1. work'[1] = a /\ work'[2] = b
          BY <2>1, Zenon
        <5> QED
          BY <1>1, <2>0, <4>1, <5>1
      <4> QED
        BY <2>3, <4>2, Zenon DEF Coming
    <3>3. CASE k # 1
      <4>1. k \in 2 .. Len(work) /\ k + 1 \in DOMAIN work' /\ k + 1 # 2
        BY <2>1, <3>3
      <4>2. work'[k + 1] = work[k]
        BY <2>1, <4>1, Zenon
      <4>3. work'[k + 1].do # "end" /\ ElseIf(work'[k + 1].s)
        BY <1>3, <3>1, <4>2, Zenon
      <4> QED
        BY <4>1, <4>3, Zenon DEF Coming
    <3> QED
      BY <3>2, <3>3
  <2>8. Coming(work') => Coming(work)
    <3>1. ASSUME NEW k \in DOMAIN work', work'[k].do # "end", ElseIf(work'[k].s)
          PROVE  Coming(work)
      <4>1. k # 2 /\ k # 1
        <5>1. ~ElseIf(work'[1].s)
          BY <2>0, <2>1, Zenon
        <5> QED
          BY <2>4, <3>1, <5>1
      <4>2. k - 1 \in DOMAIN work /\ work'[k] = work[k - 1]
        BY <2>2, <4>1, Zenon
      <4>3. ElseIf(work[k - 1].s) /\ work[k - 1].do # "end"
        BY <3>1, <4>2, Zenon
      <4> QED
        BY <4>2, <4>3, Zenon DEF Coming
    <3>2. ASSUME NEW k \in DOMAIN work', NEW l \in DOMAIN work', k < l,
                 work'[l].do = "end", work'[k].do # "end", work'[k].s.op = "if"
          PROVE  Coming(work)
      <4>1. l = 2
        BY <2>4, <3>2, Zenon
      <4>2. k = 1
        BY <2>1, <3>2, <4>1
      <4>3. S.else.op = "if"
        BY <2>0, <2>1, <3>2, <4>2
      <4>4. ElseIf(work[1].s) /\ work[1].do # "end"
        BY <1>2, <4>3 DEF ElseIf
      <4> QED
        BY <2>3, <4>4, Zenon DEF Coming
    <3> QED
      BY <3>1, <3>2, Zenon DEF Coming
  <2> QED
    BY <2>5, <2>6, <2>7, <2>8, Zenon
<1> QED
  BY <1>1, <1>4, <1>5, Zenon

LEMMA ElseCoded ==
    ASSUME GenInv, NEW D \in Seq(Leaf), D \o Left(work) = TextRead, Coded(D), GenElse
    PROVE  \E G \in Seq(Leaf) : G \o Left(work') = TextRead' /\ Coded(G)'
<1>1. /\ pc = "generate" /\ work # <<>> /\ Now.do = "else"
      /\ Emit(<<Ins("skip", <<".end", if_ind>>), Label(<<".false", if_ind>>)>>)
      /\ UNCHANGED <<prog, at, whileArr, whileInt, whileId>> /\ if_ind' = if_ind
  BY DEF GenElse, ElseCode, tables
<1>2. Nested(work) /\ Listed(code) /\ KnownNames(code) /\ if_ind \in Nat /\ at # 0 /\ at \in Nat
  <2>1. Len(prog) \in Nat /\ at \in 0 .. Len(prog)
    BY ProgIsSeq, Zenon DEF GenInv
  <2>2. at \in Nat
    BY <2>1
  <2> QED
    BY <1>1, <2>2, Zenon DEF GenInv, Coded
<1>3. S.op = "if" /\ ~ElseIf(S.else)
  <2>1. ItemAt(Now, Len(work) - 1)
    BY <1>1, <1>2, NestedTail, Zenon DEF Now
  <2>2. Now.s.op = "if"
    BY <1>1, <2>1 DEF ItemAt
  <2>3. S.op = "if"
    BY <2>2 DEF S
  <2>4. S \in IfOf(Inner)
    BY <1>1, <1>2, <2>3, AtAnIf, Zenon
  <2>5. S.else \in Part
    BY <2>4, IfLeaves
  <2> QED
    BY <2>3, <2>5, NoInnerElseIf, Zenon
<1>4. /\ Nested(work')
      /\ \E G \in Seq(Leaf) : G \o Left(work') = TextRead /\ (G = D \/ OneMore(G, D, NoStmt))
  BY <1>1, ElseWork, Zenon
<1>5. PICK G \in Seq(Leaf) : G \o Left(work') = TextRead /\ (G = D \/ OneMore(G, D, NoStmt))
  BY <1>4
<1>6. PICK y, z : y = <<".false", if_ind>> /\ z = <<".end", if_ind>>
  OBVIOUS
<1>7. y \in LabelNames /\ z \in LabelNames /\ y \in IfNames /\ z \in IfNames
  <2>1. y \in IfNames /\ z \in IfNames
    BY <1>2, <1>6 DEF IfNames
  <2> QED
    BY <1>2, <1>6, <2>1, LabelTypes, Zenon
<1>8. Adds({y}, {z})
  <2>1. Emit(<<Ins("skip", z), Label(y)>>)
    BY <1>1, <1>6, Zenon
  <2>2. "skip" \in {"jmp", "skip", "jge"}
    OBVIOUS
  <2> QED
    BY <1>2, <1>7, <2>1, <2>2, PairAdds, Zenon
<1>9. /\ \A x : x # y /\ x # z => Same(x)
      /\ y # z /\ Count(code', y) = Count(code, y) + 1 /\ Count(code', z) = Count(code, z)
      /\ NamedIn(code', z) /\ (NamedIn(code', y) <=> NamedIn(code, y))
  <2>1. \A x : x # y /\ x # z => Same(x)
    BY <1>8, AddsSame
  <2>2. y # z
    BY <1>6
  <2> QED
    BY <1>8, <2>1, <2>2 DEF Adds
<1>10. /\ Listed(code') /\ KnownNames(code')
       /\ LinesMarked' /\ LoopsMarked(G)' /\ WhilesMarked(G)'
  <2>1. {y} \in SUBSET IfNames /\ {z} \in SUBSET IfNames
    BY <1>7
  <2> QED
    BY <1>1, <1>5, <1>8, <2>1, OthersKept
<1>11. \A n \in Nat :
          /\ n = if_ind => Count(code', <<".false", n>>) = Count(code, <<".false", n>>) + 1
          /\ n # if_ind => Count(code', <<".false", n>>) = Count(code, <<".false", n>>)
          /\ Count(code', <<".end", n>>) = Count(code, <<".end", n>>)
          /\ NamedIn(code', <<".false", n>>) <=> NamedIn(code, <<".false", n>>)
          /\ n # if_ind => (NamedIn(code', <<".end", n>>) <=> NamedIn(code, <<".end", n>>))
  <2>1. \A n \in Nat : /\ <<".end", n>> # y /\ <<".false", n>> # z
                       /\ n # if_ind => <<".false", n>> # y /\ <<".end", n>> # z
                       /\ n = if_ind => <<".false", n>> = y /\ <<".end", n>> = z
    BY <1>6
  <2> QED
    BY <1>9, <2>1 DEF Same
<1>12. IfsMarked' \/ Doubled'
  <2>1. CASE IfsMarked /\ ~Ended(work)
    <3>1. /\ IfsCounted(code, if_ind, Ended(work), Unended(work))
          /\ \A k \in 2 .. Len(work) : work[k].do # "stmt"
          /\ OneEnd(work) /\ IfsMet
      BY <2>1, IfsParts, Zenon
    <3>2. /\ Ended(work')
          /\ Coming(work') <=> Coming(work)
          /\ OneEnd(work')
          /\ \A k \in 2 .. Len(work') : work'[k].do # "stmt"
          /\ Unended(work')
      BY <1>1, <1>2, <1>3, <2>1, <3>1, ElseComing
    <3>3. IfsCounted(code', if_ind', Ended(work'), Unended(work'))
      <4> SUFFICES ASSUME NEW n \in Nat
                   PROVE  /\ Count(code', <<".false", n>>) = IF n < if_ind' \/ (n = if_ind' /\ Ended(work')) THEN 1 ELSE 0
                          /\ Count(code', <<".end", n>>) = IF n < if_ind' THEN 1 ELSE 0
                          /\ NamedIn(code', <<".false", n>>) \/ NamedIn(code', <<".end", n>>) =>
                                n < if_ind' \/ (n = if_ind' /\ Unended(work'))
        BY Zenon DEF IfsCounted
      <4>1. /\ Count(code, <<".false", n>>) = IF n < if_ind \/ (n = if_ind /\ Ended(work)) THEN 1 ELSE 0
            /\ Count(code, <<".end", n>>) = IF n < if_ind THEN 1 ELSE 0
            /\ NamedIn(code, <<".false", n>>) \/ NamedIn(code, <<".end", n>>) =>
                  n < if_ind \/ (n = if_ind /\ Unended(work))
        BY <3>1, Zenon DEF IfsCounted
      <4>2. CASE n < if_ind
        BY <1>1, <1>2, <1>11, <2>1, <3>2, <4>1, <4>2
      <4>3. CASE n = if_ind
        BY <1>1, <1>2, <1>11, <2>1, <3>2, <4>1, <4>3
      <4>4. CASE n > if_ind
        BY <1>1, <1>2, <1>11, <2>1, <3>2, <4>1, <4>4
      <4> QED
        BY <1>2, <4>2, <4>3, <4>4
    <3>4. IfsMet'
      BY <1>1, <3>1, <3>2 DEF IfsMet
    <3> QED
      BY <3>2, <3>3, <3>4, IfsPartsNext, Zenon
  <2>2. CASE IfsMarked /\ Ended(work)
    <3>1. /\ IfsCounted(code, if_ind, Ended(work), Unended(work)) /\ IfsMet
      BY <2>2, IfsParts, Zenon
    <3>2. work \in Seq(Items) /\ DOMAIN work = 1 .. Len(work) /\ Len(work) \in Nat
      BY <1>2, LenProperties, Zenon DEF Nested
    <3>3. work[1].do = "else" /\ work[1].s.op = "if"
      BY <1>1, <1>3, Zenon DEF Now, S
    <3>4. PICK l \in DOMAIN work : work[l].do = "end"
      BY <2>2, Zenon DEF Ended
    <3>5. 1 \in DOMAIN work /\ 1 < l /\ work[1].do # "end"
      <4>1. l # 1
        BY <3>3, <3>4
      <4> QED
        BY <3>2, <3>3, <3>4, <4>1
    <3>6. Coming(work)
      BY <3>3, <3>4, <3>5, Zenon DEF Coming
    <3>7. ElseIf(prog[at]) /\ at \in 1 .. at
      <4>1. at > 0
        BY <1>2
      <4> QED
        BY <1>2, <3>1, <3>6, <4>1 DEF IfsMet
    <3>8. Count(code, y) = 1
      BY <1>2, <1>6, <2>2, <3>1 DEF IfsCounted
    <3>9. Count(code', y) > 1
      BY <1>9, <3>8
    <3>10. prog' = prog /\ at' = at
      BY <1>1
    <3> QED
      BY <1>2, <1>6, <3>7, <3>9, <3>10, Zenon DEF Doubled
  <2>3. CASE Doubled
    <3>1. \A n \in Nat : Count(code', <<".false", n>>) \in {Count(code, <<".false", n>>),
                                                            Count(code, <<".false", n>>) + 1}
      BY <1>11
    <3>2. at' \in {at, at + 1} /\ prog' = prog
      BY <1>1
    <3> QED
      BY <1>2, <1>10, <2>3, <3>1, <3>2, DoubledKept, Zenon
  <2>4. IfsMarked \/ Doubled
    BY Zenon DEF Coded
  <2> QED
    BY <2>1, <2>2, <2>3, <2>4
<1>13. if_ind' \in Nat /\ (work' # <<>> => at' # 0)
  BY <1>1, <1>2
<1>14. Coded(G)'
  BY <1>10, <1>12, <1>13, Zenon DEF Coded
<1>15. TextRead' = TextRead
  BY <1>1 DEF TextRead
<1> QED
  BY <1>5, <1>14, <1>15

LEMMA EndIfCoded ==
    ASSUME GenInv, NEW D \in Seq(Leaf), D \o Left(work) = TextRead, Coded(D), GenEndIf
    PROVE  \E G \in Seq(Leaf) : G \o Left(work') = TextRead' /\ Coded(G)'
<1>1. /\ pc = "generate" /\ work # <<>> /\ Now.do = "end" /\ work' = Tail(work)
      /\ Emit(<<Label(<<".end", if_ind>>)>>)
      /\ UNCHANGED <<prog, at, whileArr, whileInt, whileId>> /\ if_ind' = if_ind + 1
  BY DEF GenEndIf, IndexAfterIf, Done
<1>2. Nested(work) /\ Listed(code) /\ KnownNames(code) /\ if_ind \in Nat /\ at # 0 /\ at \in Nat
  <2>1. Len(prog) \in Nat /\ at \in 0 .. Len(prog)
    BY ProgIsSeq, Zenon DEF GenInv
  <2>2. at \in Nat
    BY <2>1
  <2> QED
    BY <1>1, <2>2, Zenon DEF GenInv, Coded
<1>3. PICK y : y = <<".end", if_ind>>
  OBVIOUS
<1>4. y \in LabelNames /\ y \in IfNames
  <2>1. y \in IfNames
    BY <1>2, <1>3 DEF IfNames
  <2> QED
    BY <1>2, <1>3, <2>1, LabelTypes, Zenon
<1>5. Adds({y}, {})
  <2>1. PICK i : i = Label(y)
    OBVIOUS
  <2>2. i.i = "label" /\ i.x = y /\ Emit(<<i>>)
    BY <1>1, <1>3, <2>1, InsParts DEF Label
  <2> QED
    BY <1>2, <1>4, <2>2, AddsLabel
<1>6. /\ \A x : x # y => Same(x)
      /\ Count(code', y) = Count(code, y) + 1 /\ (NamedIn(code', y) <=> NamedIn(code, y))
  <2>1. \A x : x # y => Same(x)
    BY <1>5, AddsSame
  <2> QED
    BY <1>5, <2>1 DEF Adds
<1>7. /\ Listed(code') /\ KnownNames(code')
      /\ LinesMarked' /\ LoopsMarked(D)' /\ WhilesMarked(D)'
  <2>1. {y} \in SUBSET IfNames /\ {} \in SUBSET IfNames
    BY <1>4
  <2> QED
    BY <1>1, <1>5, <2>1, OthersKept
<1>8. \A n \in Nat :
          /\ Count(code', <<".false", n>>) = Count(code, <<".false", n>>)
          /\ n = if_ind => Count(code', <<".end", n>>) = Count(code, <<".end", n>>) + 1
          /\ n # if_ind => Count(code', <<".end", n>>) = Count(code, <<".end", n>>)
          /\ NamedIn(code', <<".false", n>>) <=> NamedIn(code, <<".false", n>>)
          /\ NamedIn(code', <<".end", n>>) <=> NamedIn(code, <<".end", n>>)
  <2>1. \A n \in Nat : /\ <<".false", n>> # y
                       /\ n # if_ind => <<".end", n>> # y
                       /\ n = if_ind => <<".end", n>> = y
    BY <1>3
  <2> QED
    BY <1>6, <2>1 DEF Same
<1>9. /\ Len(work) \in Nat /\ Len(work) >= 1 /\ DOMAIN work = 1 .. Len(work)
      /\ Len(work') = Len(work) - 1 /\ DOMAIN work' = 1 .. Len(work) - 1
      /\ \A k \in 1 .. Len(work) - 1 : work'[k] = work[k + 1]
  BY <1>1, <1>2, WorkTail
<1>10. /\ \A k \in DOMAIN work' : k + 1 \in DOMAIN work /\ k + 1 # 1 /\ work'[k] = work[k + 1]
       /\ 1 \in DOMAIN work /\ work[1].do = "end" /\ "end" # "stmt"
  BY <1>1, <1>9 DEF Now
<1>11. IfsMarked' \/ Doubled'
  <2>1. CASE IfsMarked
    <3>1. /\ IfsCounted(code, if_ind, Ended(work), Unended(work))
          /\ \A k \in 2 .. Len(work) : work[k].do # "stmt"
          /\ OneEnd(work) /\ IfsMet
      BY <2>1, IfsParts, Zenon
    <3>2. Ended(work) /\ \A k \in DOMAIN work : work[k].do = "end" => k = 1
      BY <1>10, <3>1, Zenon DEF Ended, OneEnd
    <3>3. ~Ended(work') /\ OneEnd(work')
      BY <1>10, <3>2, Zenon DEF Ended, OneEnd
    <3>4. \A k \in 2 .. Len(work') : work'[k].do # "stmt"
      <4> SUFFICES ASSUME NEW k \in 2 .. Len(work') PROVE work'[k].do # "stmt"
        OBVIOUS
      <4>1. k + 1 \in 2 .. Len(work) /\ work'[k] = work[k + 1]
        BY <1>9
      <4> QED
        BY <3>1, <4>1
    <3>5. Coming(work') <=> Coming(work)
      <4>1. Coming(work) <=> \E k \in DOMAIN work : k # 1 /\ ElseIf(work[k].s)
        <5>1. ~\E k \in DOMAIN work : k < 1
          BY <1>9
        <5> QED
          BY <1>10, <3>2, <5>1, Zenon DEF Coming
      <4>2. Coming(work') <=> \E k \in DOMAIN work' : ElseIf(work'[k].s)
        BY <3>3, Zenon DEF Coming, Ended
      <4>3. \A k \in DOMAIN work : k # 1 => k - 1 \in DOMAIN work' /\ work'[k - 1] = work[k]
        BY <1>9
      <4> QED
        BY <1>10, <4>1, <4>2, <4>3, Zenon
    <3>6. IfsCounted(code', if_ind', Ended(work'), Unended(work'))
      <4> SUFFICES ASSUME NEW n \in Nat
                   PROVE  /\ Count(code', <<".false", n>>) = IF n < if_ind' \/ (n = if_ind' /\ Ended(work')) THEN 1 ELSE 0
                          /\ Count(code', <<".end", n>>) = IF n < if_ind' THEN 1 ELSE 0
                          /\ NamedIn(code', <<".false", n>>) \/ NamedIn(code', <<".end", n>>) =>
                                n < if_ind' \/ (n = if_ind' /\ Unended(work'))
        BY Zenon DEF IfsCounted
      <4>1. /\ Count(code, <<".false", n>>) = IF n < if_ind \/ (n = if_ind /\ Ended(work)) THEN 1 ELSE 0
            /\ Count(code, <<".end", n>>) = IF n < if_ind THEN 1 ELSE 0
            /\ NamedIn(code, <<".false", n>>) \/ NamedIn(code, <<".end", n>>) =>
                  n < if_ind \/ (n = if_ind /\ Unended(work))
        BY <3>1, Zenon DEF IfsCounted
      <4>2. CASE n < if_ind
        BY <1>1, <1>2, <1>8, <3>2, <3>3, <4>1, <4>2
      <4>3. CASE n = if_ind
        BY <1>1, <1>2, <1>8, <3>2, <3>3, <4>1, <4>3
      <4>4. CASE n > if_ind
        BY <1>1, <1>2, <1>8, <3>2, <3>3, <4>1, <4>4
      <4> QED
        BY <1>2, <4>2, <4>3, <4>4
    <3>7. IfsMet'
      BY <1>1, <3>1, <3>5 DEF IfsMet
    <3> QED
      BY <3>3, <3>4, <3>6, <3>7, IfsPartsNext, Zenon
  <2>2. CASE Doubled
    <3>1. \A n \in Nat : Count(code', <<".false", n>>) \in {Count(code, <<".false", n>>),
                                                            Count(code, <<".false", n>>) + 1}
      BY <1>8
    <3>2. at' \in {at, at + 1} /\ prog' = prog
      BY <1>1
    <3> QED
      BY <1>2, <1>7, <2>2, <3>1, <3>2, DoubledKept, Zenon
  <2>3. IfsMarked \/ Doubled
    BY Zenon DEF Coded
  <2> QED
    BY <2>1, <2>2, <2>3
<1>12. if_ind' \in Nat /\ (work' # <<>> => at' # 0)
  BY <1>1, <1>2
<1>13. Coded(D)'
  BY <1>7, <1>11, <1>12, Zenon DEF Coded
<1>14. Left(work') = Left(work) /\ TextRead' = TextRead
  BY <1>1, EndIfWork DEF TextRead
<1> QED
  BY <1>13, <1>14

LEMMA LineCoded ==
    ASSUME GenInv, NEW D \in Seq(Leaf), D \o Left(work) = TextRead, Coded(D), Line
    PROVE  \E G \in Seq(Leaf) : G \o Left(work') = TextRead' /\ Coded(G)'
<1>1. /\ pc = "generate" /\ work = <<>> /\ at' = at + 1 /\ prog' = prog
      /\ work' = <<Item("stmt", prog[at + 1], <<>>)>>
      /\ Emit(IF at + 1 \in Targets(prog) THEN <<LineLabel(at + 1)>> ELSE <<>>)
      /\ UNCHANGED <<whileArr, whileInt, whileId>> /\ if_ind' = if_ind
  BY DEF Line, tables
<1>2. Listed(code) /\ KnownNames(code) /\ if_ind \in Nat /\ at \in Nat
  <2>1. Len(prog) \in Nat /\ at \in 0 .. Len(prog)
    BY ProgIsSeq, Zenon DEF GenInv
  <2>2. at \in Nat
    BY <2>1
  <2> QED
    BY <2>2, Zenon DEF Coded
<1>3. Nested(work') /\ D \o Left(work') = TextRead'
  BY <1>1, LineWork, Zenon
<1>4. PICK y : y = <<"goto", at + 1>>
  OBVIOUS
<1>5. y \in LabelNames
  <2>1. at + 1 \in Nat
    BY <1>2
  <2> QED
    BY <1>4, <2>1, LabelTypes, Zenon
<1>6. /\ at + 1 \in Targets(prog) => Adds({y}, {})
      /\ at + 1 \notin Targets(prog) => Adds({}, {})
  <2>1. CASE at + 1 \in Targets(prog)
    <3>1. PICK i : i = LineLabel(at + 1)
      OBVIOUS
    <3>2. i.i = "label" /\ i.x = y /\ Emit(<<i>>)
      BY <1>1, <1>4, <2>1, <3>1 DEF LineLabel
    <3> QED
      BY <1>2, <1>5, <2>1, <3>2, AddsLabel
  <2>2. CASE at + 1 \notin Targets(prog)
    <3>1. PICK E \in Seq({0}) : E = <<>> /\ DOMAIN E = {}
      <4>1. <<>> \in Seq({0}) /\ DOMAIN <<>> = {}
        OBVIOUS
      <4> QED
        BY <4>1
    <3>2. Emit(E)
      BY <1>1, <2>2, <3>1, Zenon
    <3> QED
      BY <1>2, <2>2, <3>1, <3>2, AddsNothing
  <2> QED
    BY <2>1, <2>2
<1>7. /\ Listed(code') /\ KnownNames(code')
      /\ \A x : x # y => Same(x)
      /\ NamedIn(code', y) <=> NamedIn(code, y)
      /\ Count(code', y) = IF at + 1 \in Targets(prog) THEN Count(code, y) + 1 ELSE Count(code, y)
  <2>1. CASE at + 1 \in Targets(prog)
    <3>1. (\A x : x \notin {y} /\ x \notin {} => Same(x)) /\ Listed(code') /\ KnownNames(code')
      <4>1. Adds({y}, {})
        BY <1>6, <2>1
      <4> QED
        BY <4>1, AddsSame
    <3>2. \A x : x # y => Same(x)
      BY <3>1
    <3>3. Count(code', y) = Count(code, y) + 1 /\ (NamedIn(code', y) <=> NamedIn(code, y))
      BY <1>6, <2>1 DEF Adds
    <3> QED
      BY <2>1, <3>1, <3>2, <3>3
  <2>2. CASE at + 1 \notin Targets(prog)
    <3>1. (\A x : x \notin {} /\ x \notin {} => Same(x)) /\ Listed(code') /\ KnownNames(code')
      <4>1. Adds({}, {})
        BY <1>6, <2>2
      <4> QED
        BY <4>1, AddsSame
    <3>2. \A x : Same(x)
      BY <3>1
    <3>3. Count(code', y) = Count(code, y) /\ (NamedIn(code', y) <=> NamedIn(code, y))
      BY <3>2, Zenon DEF Same
    <3> QED
      BY <2>2, <3>1, <3>2, <3>3
  <2> QED
    BY <2>1, <2>2
<1>8. /\ \A k : k # at + 1 => Same(<<"goto", k>>)
      /\ \A v : Same(<<"for_iter", v>>) /\ Same(<<"for_cmp", v>>)
      /\ \A i : Same(<<"while_iter", i>>) /\ Same(<<"while_cmp", i>>)
      /\ \A n : Same(<<".false", n>>) /\ Same(<<".end", n>>)
  <2>1. /\ \A k : k # at + 1 => <<"goto", k>> # y
        /\ \A v : <<"for_iter", v>> # y /\ <<"for_cmp", v>> # y
        /\ \A i : <<"while_iter", i>> # y /\ <<"while_cmp", i>> # y
        /\ \A n : <<".false", n>> # y /\ <<".end", n>> # y
    BY <1>4
  <2> QED
    BY <1>7, <2>1, Zenon
<1>9. LinesMarked'
  <2>1. \A k \in Nat : /\ Count(code, <<"goto", k>>) = IF k \in 1 .. at /\ k \in Targets(prog) THEN 1 ELSE 0
                       /\ NamedIn(code, <<"goto", k>>) => k \in Targets(prog)
    BY Zenon DEF Coded, LinesMarked
  <2> SUFFICES ASSUME NEW k \in Nat
               PROVE  /\ Count(code', <<"goto", k>>) = IF k \in 1 .. at' /\ k \in Targets(prog') THEN 1 ELSE 0
                      /\ NamedIn(code', <<"goto", k>>) => k \in Targets(prog')
    BY Zenon DEF LinesMarked
  <2>2. CASE k # at + 1
    <3>1. k \in 1 .. at' <=> k \in 1 .. at
      BY <1>1, <1>2, <2>2
    <3>2. Same(<<"goto", k>>)
      BY <1>8, <2>2, Zenon
    <3> QED
      BY <1>1, <2>1, <3>1, <3>2, Zenon DEF Same
  <2>3. CASE k = at + 1
    <3>1. k \in 1 .. at' /\ k \notin 1 .. at /\ <<"goto", k>> = y
      BY <1>1, <1>2, <1>4, <2>3
    <3>2. Count(code, y) = 0 /\ (NamedIn(code, y) => k \in Targets(prog))
      BY <2>1, <3>1, Zenon
    <3>3. Count(code', y) = IF k \in Targets(prog) THEN 1 ELSE 0
      BY <1>7, <2>3, <3>2
    <3> QED
      BY <1>1, <1>7, <3>1, <3>2, <3>3, Zenon
  <2> QED
    BY <2>2, <2>3
<1>10. LoopsMarked(D)' /\ WhilesMarked(D)'
  <2>1. LoopsMarked(D) /\ WhilesMarked(D)
    BY Zenon DEF Coded
  <2> QED
    BY <1>1, <1>8, <2>1, LoopsKept, WhilesKept
<1>11. \A n \in Nat : /\ Count(code', <<".false", n>>) = Count(code, <<".false", n>>)
                      /\ Count(code', <<".end", n>>) = Count(code, <<".end", n>>)
                      /\ NamedIn(code', <<".false", n>>) <=> NamedIn(code, <<".false", n>>)
                      /\ NamedIn(code', <<".end", n>>) <=> NamedIn(code, <<".end", n>>)
  BY <1>8, Zenon DEF Same
<1>12. IfsMarked' \/ Doubled'
  <2>1. CASE IfsMarked
    <3>1. /\ IfsCounted(code, if_ind, Ended(work), Unended(work)) /\ IfsMet
      BY <2>1, IfsParts, Zenon
    <3>2. ~Ended(work) /\ ~Unended(work) /\ ~Coming(work)
      <4>1. DOMAIN work = {}
        BY <1>1
      <4> QED
        BY <4>1, Zenon DEF Ended, Unended, Coming
    <3>3. PICK s : s = prog[at + 1]
      OBVIOUS
    <3>4. /\ DOMAIN work' = {1} /\ Len(work') = 1 /\ work'[1].do = "stmt" /\ work'[1].s = s
      BY <1>1, <3>3 DEF Item
    <3>5. /\ ~Ended(work') /\ OneEnd(work') /\ ~Unended(work')
          /\ Coming(work') <=> ElseIf(s)
      <4>1. \A k \in DOMAIN work' : k = 1
        BY <3>4
      <4>2. 1 \in DOMAIN work' /\ work'[1].do # "end" /\ work'[1].do = "stmt"
        BY <3>4
      <4> QED
        <5>1. \A k \in DOMAIN work' : work'[k].do # "end" /\ work'[k].do = "stmt" /\ work'[k].s = s
          BY <3>4, <4>1, <4>2, Zenon
        <5>2. ~Ended(work') /\ OneEnd(work') /\ ~Unended(work')
          BY <5>1, Zenon DEF Ended, OneEnd, Unended
        <5>3. Coming(work') <=> \E k \in DOMAIN work' : ElseIf(work'[k].s)
          BY <5>1, Zenon DEF Coming
        <5> QED
          BY <4>2, <5>1, <5>2, <5>3, Zenon
    <3>6. IfsCounted(code', if_ind', Ended(work'), Unended(work'))
      <4>1. if_ind' = if_ind /\ (Ended(work') <=> Ended(work)) /\ (Unended(work') <=> Unended(work))
        BY <1>1, <3>2, <3>5
      <4> QED
        BY <1>11, <3>1, <4>1, Zenon DEF IfsCounted
    <3>7. IfsMet'
      <4>1. \A k \in 1 .. at : ~ElseIf(prog[k])
        <5> SUFFICES ASSUME NEW k \in 1 .. at PROVE ~ElseIf(prog[k])
          OBVIOUS
        <5>1. k \in 1 .. at - 1 \/ (k = at /\ at > 0)
          BY <1>2
        <5> QED
          BY <3>1, <3>2, <5>1, Zenon DEF IfsMet
      <4>2. at' - 1 = at /\ prog' = prog /\ at' = at + 1
        BY <1>1, <1>2
      <4> QED
        BY <3>3, <3>5, <4>1, <4>2, Zenon DEF IfsMet
    <3>8. \A k \in 2 .. Len(work') : work'[k].do # "stmt"
      BY <3>4
    <3> QED
      BY <3>5, <3>6, <3>7, <3>8, IfsPartsNext, Zenon
  <2>2. CASE Doubled
    <3>1. \A n \in Nat : Count(code', <<".false", n>>) \in {Count(code, <<".false", n>>),
                                                            Count(code, <<".false", n>>) + 1}
      BY <1>11
    <3>2. at' \in {at, at + 1} /\ prog' = prog
      BY <1>1
    <3> QED
      BY <1>2, <1>7, <2>2, <3>1, <3>2, DoubledKept, Zenon
  <2>3. IfsMarked \/ Doubled
    BY Zenon DEF Coded
  <2> QED
    BY <2>1, <2>2, <2>3
<1>13. if_ind' \in Nat /\ (work' # <<>> => at' # 0)
  BY <1>1, <1>2
<1>14. Coded(D)'
  BY <1>7, <1>9, <1>10, <1>12, <1>13, Zenon DEF Coded
<1> QED
  BY <1>3, <1>14

-----------------------------------------------------------------------------
(* The invariant on the labels, and LabelsExplained from it.               *)

LEMMA StatementCoded ==
    ASSUME NEW D, NEW F, Ready(D, F),
           \/ Quiet \/ GenGoto \/ GenGosub \/ GenFor \/ GenNext \/ GenWhile \/ GenWend
    PROVE  Coded(F)'
BY QuietCoded, JumpCoded, LoopCoded, WhileCoded, WendCoded, Zenon

\* Every statement but an IF is done at once.
LEMMA StatementsCoded ==
    ASSUME GenInv, LabelInv,
           \/ Quiet \/ GenGoto \/ GenGosub \/ GenFor \/ GenNext \/ GenWhile \/ GenWend
    PROVE  \E G \in Seq(Leaf) : G \o Left(work') = TextRead' /\ Coded(G)'
<1>1. /\ pc = "generate" /\ work # <<>> /\ Now.do = "stmt" /\ S.op # "if"
      /\ Done /\ prog' = prog /\ at' = at
  <2>1. CASE GenPrint \/ GenRem \/ GenReturn \/ GenBump
    BY <2>1 DEF GenPrint, GenRem, GenReturn, GenBump, Plainly, Generating
  <2>2. CASE GenLet \/ GenInput \/ GenShow
    BY <2>2 DEF GenLet, GenInput, GenShow, Slotted, Generating
  <2>3. CASE GenEnd
    BY <2>3 DEF GenEnd, Generating
  <2>4. CASE GenGoto \/ GenGosub
    BY <2>4 DEF GenGoto, GenGosub, Plainly, Generating
  <2>5. CASE GenNext
    BY <2>5 DEF GenNext, Plainly, Generating
  <2>6. CASE GenFor
    BY <2>6 DEF GenFor, Generating
  <2>7. CASE GenWhile \/ GenWend
    BY <2>7 DEF GenWhile, GenWend, Generating
  <2> QED
    BY <2>1, <2>2, <2>3, <2>4, <2>5, <2>6, <2>7, Zenon DEF Quiet
<1>2. PICK D, F : Taking(D, F) /\ Coded(D)
  BY <1>1, TakenCoded, Zenon
<1>3. Nested(work)
  BY <1>1, Zenon DEF GenInv
<1>4. Ready(D, F)
  BY <1>1, <1>2, <1>3, Zenon DEF Ready
<1>5. Coded(F)'
  BY <1>4, StatementCoded, Zenon
<1>6. F \in Seq(Leaf) /\ F \o Left(Tail(work)) = TextRead
  BY <1>2, Zenon DEF Taking
<1>7. TextRead' = TextRead /\ work' = Tail(work)
  BY <1>1 DEF TextRead, Done
<1> QED
  BY <1>5, <1>6, <1>7, Zenon

LEMMA GenerateCoded ==
    ASSUME GenInv, LabelInv, Generate
    PROVE  LabelInv'
<1>1. CASE \/ Quiet \/ GenGoto \/ GenGosub \/ GenFor \/ GenNext \/ GenWhile \/ GenWend
           \/ Line \/ GenIf \/ GenElse \/ GenEndIf
  <2>1. pc = "generate" /\ pc' = "generate"
    <3>1. CASE GenPrint \/ GenRem \/ GenReturn \/ GenBump \/ GenGoto \/ GenGosub \/ GenNext
      BY <3>1 DEF GenPrint, GenRem, GenReturn, GenBump, GenGoto, GenGosub, GenNext, Plainly, Generating
    <3>2. CASE GenLet \/ GenInput \/ GenShow
      BY <3>2 DEF GenLet, GenInput, GenShow, Slotted, Generating
    <3>3. CASE GenEnd \/ GenFor
      BY <3>3 DEF GenEnd, GenFor, Generating
    <3>4. CASE GenWhile \/ GenWend
      BY <3>4 DEF GenWhile, GenWend, Generating
    <3>5. CASE Line \/ GenIf
      BY <3>5 DEF Line, GenIf, Generating
    <3>6. CASE GenElse \/ GenEndIf
      BY <3>6 DEF GenElse, GenEndIf
    <3> QED
      BY <1>1, <3>1, <3>2, <3>3, <3>4, <3>5, <3>6, Zenon DEF Quiet
  <2>2. PICK D \in Seq(Leaf) : D \o Left(work) = TextRead /\ Coded(D)
    BY <2>1, Zenon DEF LabelInv
  <2>3. \E G \in Seq(Leaf) : G \o Left(work') = TextRead' /\ Coded(G)'
    BY <1>1, <2>2, StatementsCoded, LineCoded, IfCoded, ElseCoded, EndIfCoded, Zenon
  <2>4. LabelsExplained'
    BY <2>1 DEF LabelsExplained
  <2> QED
    BY <2>3, <2>4, Zenon DEF LabelInv
<1>2. CASE FrameLost \/ WhileOverflow \/ WendAlone
  <2>1. pc' = "fault"
    BY <1>2 DEF FrameLost, WhileOverflow, WendAlone, GenFault
  <2> QED
    BY <2>1 DEF LabelInv, LabelsExplained
<1>3. CASE Assemble
  <2>1. /\ pc = "generate" /\ work = <<>> /\ at = Len(prog) /\ prog' = prog
        /\ pc' = IF Assembles THEN "run" ELSE "rejected"
    BY <1>3 DEF Assemble, genVars
  <2>2. Assembles <=> Matched(prog)
    BY <2>1, AssemblesMatched, Zenon
  <2>3. LabelsExplained' /\ pc' # "generate"
    <3>1. (pc' = "run") <=> Matched(prog')
      BY <2>1, <2>2
    <3>2. (pc' = "run") = Matched(prog')
      BY <3>1 DEF Matched, LoopsPaired, WhilesClosed, NoElseIf
    <3> QED
      BY <2>1, <3>2 DEF LabelsExplained
  <2> QED
    BY <2>3, Zenon DEF LabelInv
<1> QED
  BY <1>1, <1>2, <1>3, Zenon DEF Generate, Quiet

LEMMA MachineCoded ==
    ASSUME GenInv, LabelInv, Run
    PROVE  LabelInv'
<1>1. prog' = prog /\ pc = "run" /\ pc' \in {"run", "exited", "fault"}
  <2>1. CASE RunAstray
    BY <2>1 DEF RunAstray, Running, RunFault, genVars
  <2>2. CASE RanOff
    BY <2>2 DEF RanOff, RunFault, genVars
  <2>3. CASE RunExit
    BY <2>3 DEF RunExit, Running, genVars
  <2>4. CASE UNCHANGED Compiled /\ pc = "run"
    BY <2>4 DEF Compiled, genVars
  <2>5. RunAstray \/ RanOff \/ RunExit \/ (UNCHANGED Compiled /\ pc = "run")
    BY Zenon
    DEF Run, RunLabel, RunJump, RunWhile, RunTest, RunSub, RunStore, RunBump, RunLoad, RunFor,
        RunIncr, RunLoop, RunLib, RunCall, RunRet, Running
  <2> QED
    BY <2>1, <2>2, <2>3, <2>4, <2>5
<1>2. LabelsExplained
  BY Zenon DEF LabelInv
<1>3. LabelsExplained'
  BY <1>1, <1>2 DEF LabelsExplained
<1> QED
  BY <1>1, <1>3 DEF LabelInv

LEMMA LabelInvStep == GenInv /\ LabelInv /\ [Next]_vars => LabelInv'
<1> SUFFICES ASSUME GenInv, LabelInv, [Next]_vars PROVE LabelInv'
  OBVIOUS
<1>1. CASE Generate
  BY <1>1, GenerateCoded
<1>2. CASE Run
  BY <1>2, MachineCoded
<1>3. CASE UNCHANGED vars
  <2>1. UNCHANGED <<prog, at, work, code, pc, if_ind, whileArr, whileInt, whileId>>
    BY <1>3 DEF vars, genVars, tables
  <2>2. \A D : Coded(D)' <=> Coded(D)
    <3>1. \A x : Count(code', x) = Count(code, x)
      BY <2>1
    <3>2. LinesMarked' <=> LinesMarked
      BY <2>1 DEF LinesMarked
    <3>3. \A D : LoopsMarked(D)' <=> LoopsMarked(D)
      BY <2>1 DEF LoopsMarked
    <3>4. \A D : WhilesMarked(D)' <=> WhilesMarked(D)
      BY <2>1 DEF WhilesMarked, Closed
    <3>5. IfsMarked' <=> IfsMarked
      BY <2>1 DEF IfsMarked
    <3>6. Doubled' <=> Doubled
      BY <2>1 DEF Doubled
    <3> QED
      BY <2>1, <3>2, <3>3, <3>4, <3>5, <3>6 DEF Coded
  <2>3. TextRead' = TextRead /\ Left(work') = Left(work)
    BY <2>1 DEF TextRead
  <2>4. LabelsExplained' <=> LabelsExplained
    BY <2>1 DEF LabelsExplained
  <2> QED
    BY <2>1, <2>2, <2>3, <2>4, Zenon DEF LabelInv
<1> QED
  BY <1>1, <1>2, <1>3, Zenon DEF Next, Bounded, Exited

LEMMA LabelInvStarts == Init => LabelInv
<1> SUFFICES ASSUME Init PROVE LabelInv
  OBVIOUS
<1>1. /\ prog \in Programs /\ at = 0 /\ work = <<>> /\ code = <<>> /\ if_ind = 0
      /\ whileArr = [k \in 0 .. WhileSize - 1 |-> NoKey] /\ whileInt = 0 /\ whileId = 0
      /\ pc = "generate"
  BY Zenon DEF Init, GenInit
<1>2. PICK D \in Seq(Leaf) : D \o Left(work) = TextRead /\ Handled(D)
  BY <1>1, GenInvStarts, Zenon DEF GenInv
<1>3. D = <<>> /\ DOMAIN D = {}
  <2>1. prog \in Seq(Statement)
    BY <1>1, ProgramsAssumption, Zenon
  <2>2. TextRead = <<>>
    BY <1>1, <2>1, TextStarts, Zenon DEF TextRead
  <2>3. D \o <<>> = D
    BY ConcatEmptySeq, Zenon
  <2>4. D = <<>>
    BY <1>1, <1>2, <2>2, <2>3, NothingLeft, Zenon
  <2> QED
    BY <2>4
<1>4. DOMAIN code = {} /\ DOMAIN work = {}
  BY <1>1
<1>5. \A x : Count(code, x) = 0 /\ ~NamedIn(code, x)
  <2>1. Cardinality({}) = 0
    BY FS_EmptySet
  <2>2. \A x : { k \in DOMAIN code : Marks(code[k], x) } = {}
    BY <1>4
  <2> QED
    BY <1>4, <2>1, <2>2, Zenon DEF Count, NamedIn
<1>6. Listed(code) /\ KnownNames(code)
  <2>1. code \in Seq({0})
    BY <1>1
  <2> QED
    BY <1>4, <2>1, ItsOwnRange, Zenon DEF KnownNames
<1>7. LinesMarked
  <2>1. \A k \in Nat : k \notin 1 .. at
    BY <1>1
  <2> QED
    BY <1>5, <2>1, Zenon DEF LinesMarked
<1>8. LoopsMarked(D)
  <2>1. \A op, v : Of(D, op, v) = {}
    BY <1>3 DEF Of, Positions
  <2>2. Cardinality({}) = 0
    BY FS_EmptySet
  <2> QED
    BY <1>5, <2>1, <2>2 DEF LoopsMarked
<1>9. WhilesMarked(D)
  <2>1. \A i \in Nat : ~(i < whileId) /\ ~Closed(i)
    BY <1>1, SizesAssumption DEF Closed, Cells
  <2>2. \A c \in Cells : /\ whileArr[c] = NoKey /\ whileArr[c] \in NoKey .. whileId - 1
                         /\ ~(c < whileInt)
    BY <1>1, SizesAssumption DEF Cells, NoKey
  <2>3. ~LostIn(D)
    BY <1>3 DEF LostIn, Positions
  <2>4. 0 .. whileId - 1 = {}
    BY <1>1
  <2> QED
    BY <1>5, <2>1, <2>2, <2>3, <2>4 DEF WhilesMarked
<1>10. IfsMarked
  <2>1. ~Ended(work) /\ OneEnd(work)
    BY <1>4, Zenon DEF Ended, OneEnd
  <2>2. \A n \in Nat : ~(n < if_ind)
    BY <1>1
  <2>3. IfsCounted(code, if_ind, Ended(work), Unended(work))
    BY <1>5, <2>1, <2>2, Zenon DEF IfsCounted
  <2>4. IfsMet
    BY <1>1 DEF IfsMet
  <2>5. \A k \in 2 .. Len(work) : work[k].do # "stmt"
    BY <1>1
  <2> QED
    BY <2>1, <2>3, <2>4, <2>5, IfsParts, Zenon
<1>11. if_ind \in Nat
  BY <1>1
<1>12. Coded(D)
  BY <1>1, <1>6, <1>7, <1>8, <1>9, <1>10, <1>11, Zenon DEF Coded
<1>13. LabelsExplained
  BY <1>1 DEF LabelsExplained
<1> QED
  BY <1>2, <1>12, <1>13, Zenon DEF LabelInv

\* In every program, the code can be assembled and linked just when the text
\* says so: each variable has no FOR and no NEXT or one of each, no WHILE is
\* left open or within another, and no ELSE part is an IF.  The labels and the
\* jumps that the generator has emitted are counted, for each kind of label,
\* by what it keeps of the text: the line reached, the FORs and NEXTs met, the
\* cells of whileArr and if_ind.
THEOREM LabelsAreExplained == Spec => []LabelsExplained
<1>1. Spec => []GenInv
  <2>1. Init => GenInv
    BY GenInvStarts
  <2>2. GenInv /\ [Next]_vars => GenInv'
    BY GenInvStep
  <2> QED
    BY <2>1, <2>2, PTL DEF Spec
<1>2. Init => LabelInv
  BY LabelInvStarts
<1>3. GenInv /\ LabelInv /\ [Next]_vars => LabelInv'
  BY LabelInvStep
<1>4. LabelInv => LabelsExplained
  BY Zenon DEF LabelInv
<1> QED
  BY <1>1, <1>2, <1>3, <1>4, PTL DEF Spec
=============================================================================
