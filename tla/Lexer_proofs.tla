---------------------------- MODULE Lexer_proofs ----------------------------
(***************************************************************************)
(* Proofs about Lexer, for every alphabet and every source file.           *)
(*                                                                         *)
(* The reference, Splits, says of each number of characters which runs     *)
(* they have.  While strings begin behind spaces and quotes, the word and  *)
(* the tokens of LineToTokens are these runs (Tracks).  The first string   *)
(* that does not leaves the mode the wrong way round (Behind), until a     *)
(* character is read that is outside of the string for one of the two and  *)
(* inside for the other; from then on a token and the run in its place     *)
(* differ in length for good (Differ), as no run gets shorter (LaterRuns). *)
(***************************************************************************)
EXTENDS Lexer, FiniteSetTheorems, SequenceTheorems, Induction

-----------------------------------------------------------------------------
(* Characters and their classes.                                           *)

LEMMA Specials ==
    ASSUME NEW c \in {"\"", " ", "nl", "nul", Eof}
    PROVE  c \notin Letters \union Operators \union Digits \union Puncts \union Others \union Parens
  BY KindsAssumption

LEMMA Classes ==
    ASSUME NEW c
    PROVE  /\ ClassOf(c) \in {"space", "newline", "latin", "oper", "num", "parenthesis", "punct", "etc"}
           /\ ClassOf(c) = "space" <=> c = " "
           /\ ClassOf(c) = "newline" <=> c = "nl"
           /\ c = Eof => ClassOf(c) = "etc"
<1>1. CASE c = " "
  <2>1. c \notin Letters \union Operators \union Digits \union Puncts \union Others \union Parens /\ c # "nl"
    BY <1>1, Specials
  <2>2. ClassOf(c) = "space"
    BY <1>1, <2>1, Zenon DEF ClassOf
  <2> QED
    BY <1>1, <2>2 DEF Eof
<1>2. CASE c = "nl"
  <2>1. c \notin Letters \union Operators \union Digits \union Puncts \union Others \union Parens /\ c # " "
    BY <1>2, Specials
  <2>2. ClassOf(c) = "newline"
    BY <1>2, <2>1, Zenon DEF ClassOf
  <2> QED
    BY <1>2, <2>2 DEF Eof
<1>3. CASE c # " " /\ c # "nl"
  <2>1. ClassOf(c) \in {"latin", "oper", "num", "parenthesis", "punct", "etc"}
    BY <1>3 DEF ClassOf
  <2>2. ASSUME c = Eof PROVE ClassOf(c) = "etc"
    <3>1. c \notin Letters \union Operators \union Digits \union Puncts \union Others \union Parens
      BY <2>2, Specials
    <3> QED
      BY <1>3, <3>1 DEF ClassOf
  <2> QED
    BY <1>3, <2>1, <2>2
<1> QED
  BY <1>1, <1>2, <1>3

LEMMA Capitalized ==
    /\ \A c \in Chars : toupper(c) \in Chars
    /\ toupper("\"") = "\""
    /\ Eof \notin Chars /\ toupper(Eof) = Eof
<1>1. \A c \in {"\"", Eof} : c \notin Letters /\ c \notin Lower
  BY Specials, LetterAssumption
<1>2. \A c \in Chars : toupper(c) \in Chars
  BY LetterAssumption DEF toupper, Chars
<1>3. Eof \notin Chars
  BY Specials DEF Chars, Eof
<1> QED
  BY <1>1, <1>2, <1>3 DEF toupper

-----------------------------------------------------------------------------
(* Quotes.                                                                 *)

LEMMA QuotesCount ==
    ASSUME NEW s, NEW i \in Nat
    PROVE  /\ Quotes(s, i) \in Nat /\ Quotes(s, 0) = 0
           /\ Quotes(s, i + 1) = Quotes(s, i) + IF s[i + 1] = "\"" THEN 1 ELSE 0
<1> DEFINE Q(k) == { j \in 1 .. k : s[j] = "\"" }
<1>1. \A k \in Nat : IsFiniteSet(Q(k))
  <2>1. TAKE k \in Nat
  <2>2. IsFiniteSet(1 .. k)
    BY FS_Interval
  <2> QED
    BY <2>2, FS_Subset
<1>2. Q(0) = {}
  OBVIOUS
<1>3. Cardinality(Q(i)) \in Nat /\ Cardinality(Q(0)) = 0
  BY <1>1, <1>2, FS_CardinalityType, FS_EmptySet, Zenon
<1>4. CASE s[i + 1] = "\""
  <2>1. Q(i + 1) = Q(i) \union {i + 1} /\ i + 1 \notin Q(i)
    <3>1. 1 .. i + 1 = (1 .. i) \union {i + 1} /\ i + 1 \notin 1 .. i
      OBVIOUS
    <3>2. ASSUME NEW j PROVE j \in Q(i + 1) <=> j \in Q(i) \union {i + 1}
      BY <1>4, <3>1, Zenon
    <3> QED
      BY <3>1, <3>2, Zenon
  <2>2. Cardinality(Q(i + 1)) = Cardinality(Q(i)) + 1
    BY <1>1, <2>1, FS_AddElement
  <2> QED
    BY <1>3, <1>4, <2>2 DEF Quotes
<1>5. CASE s[i + 1] # "\""
  <2>1. Q(i + 1) = Q(i)
    <3>1. 1 .. i + 1 = (1 .. i) \union {i + 1}
      OBVIOUS
    <3>2. ASSUME NEW j PROVE j \in Q(i + 1) <=> j \in Q(i)
      BY <1>5, <3>1, Zenon
    <3> QED
      BY <3>2, Zenon
  <2>2. Cardinality(Q(i + 1)) = Cardinality(Q(i)) + 0
    <3>1. PICK n \in Nat : n = Cardinality(Q(i))
      BY <1>3, Zenon
    <3>2. n = n + 0
      OBVIOUS
    <3> QED
      BY <2>1, <3>1, <3>2, Zenon
  <2> QED
    BY <1>3, <1>5, <2>2 DEF Quotes
<1> QED
  BY <1>4, <1>5

\* What the next character makes of the parity and of the class.
LEMMA OddStep ==
    ASSUME NEW s, NEW i \in Nat
    PROVE  /\ ~Odd(s, 0)
           /\ Odd(s, i + 1) <=> IF s[i + 1] = "\"" THEN ~Odd(s, i) ELSE Odd(s, i)
           /\ ClassAt(s, i + 1) = IF s[i + 1] = "\"" \/ Odd(s, i) THEN "quotes" ELSE ClassOf(s[i + 1])
           /\ Odd(s, i) => ClassAt(s, i) = "quotes"
<1>1. \A n \in Nat : (n + 1) % 2 = 1 <=> ~(n % 2 = 1)
  OBVIOUS
<1>2. Odd(s, i + 1) <=> IF s[i + 1] = "\"" THEN ~Odd(s, i) ELSE Odd(s, i)
  <2>1. CASE s[i + 1] = "\""
    BY <1>1, <2>1, QuotesCount DEF Odd
  <2>2. CASE s[i + 1] # "\""
    <3>1. \A n \in Nat : n + 0 = n
      OBVIOUS
    <3>2. Quotes(s, i) \in Nat /\ Quotes(s, i + 1) = Quotes(s, i) + 0
      BY <2>2, QuotesCount, Zenon
    <3>3. Quotes(s, i + 1) = Quotes(s, i)
      BY <3>1, <3>2, Zenon
    <3> QED
      BY <2>2, <3>3, Zenon DEF Odd
  <2> QED
    BY <2>1, <2>2
<1>3. ~Odd(s, 0)
  <2>1. Quotes(s, 0) = 0
    BY QuotesCount, Zenon
  <2>2. ~(0 % 2 = 1)
    OBVIOUS
  <2> QED
    BY <2>1, <2>2, Zenon DEF Odd
<1> QED
  BY <1>2, <1>3, Zenon DEF ClassAt

LEMMA ClassType ==
    ASSUME NEW s, NEW i
    PROVE  /\ ClassAt(s, i) \in Types /\ ClassAt(s, i) # "null"
           /\ ClassAt(s, i) = "space" => s[i] = " " /\ ~Odd(s, i)
           /\ ClassAt(s, i) = "newline" => s[i] = "nl"
           /\ ClassAt(s, i) = "etc" => s[i] # "\"" /\ ~Odd(s, i) /\ ClassOf(s[i]) = "etc"
  BY Classes DEF ClassAt, Types

-----------------------------------------------------------------------------
(* The runs of a text.                                                     *)

\* The recursion that defines Splits, as a condition on f.
Accumulates(f, s, n) == f = [k \in 0 .. n |-> IF k = 0 THEN <<>> ELSE Grown(s, k, f[k - 1])]

LEMMA AccumulatesSteps ==
    ASSUME NEW f, NEW s, NEW n \in Nat, Accumulates(f, s, n)
    PROVE  f[0] = <<>> /\ \A k \in 0 .. n : k + 1 <= n => f[k + 1] = Grown(s, k + 1, f[k])
<1>1. \A k \in 0 .. n : f[k] = IF k = 0 THEN <<>> ELSE Grown(s, k, f[k - 1])
  BY DEF Accumulates
<1>2. ASSUME NEW k \in 0 .. n, k + 1 <= n
      PROVE  f[k + 1] = Grown(s, k + 1, f[k])
  <2>1. k + 1 \in 0 .. n /\ k + 1 # 0 /\ (k + 1) - 1 = k
    BY <1>2
  <2>2. f[k + 1] = Grown(s, k + 1, f[(k + 1) - 1])
    BY <1>1, <2>1, Zenon
  <2> QED
    BY <2>1, <2>2, Zenon
<1>3. f[0] = <<>>
  <2>1. 0 \in 0 .. n
    OBVIOUS
  <2> QED
    BY <1>1, <2>1, Zenon
<1> QED
  BY <1>2, <1>3, Zenon

LEMMA AccumulatesExists ==
    ASSUME NEW s, NEW n \in Nat
    PROVE  \E f : Accumulates(f, s, n)
<1> DEFINE N == { m \in Nat : \E f : Accumulates(f, s, m) }
<1>1. 0 \in N
  <2>1. PICK f : f = [k \in 0 .. 0 |-> <<>>]
    OBVIOUS
  <2>2. Accumulates(f, s, 0)
    BY <2>1 DEF Accumulates
  <2> QED
    BY <2>2
<1>2. ASSUME NEW m \in N
      PROVE  m + 1 \in N
  <2>1. PICK f : Accumulates(f, s, m)
    BY <1>2
  <2>2. PICK g : g = [k \in 0 .. m + 1 |-> IF k <= m THEN f[k] ELSE Grown(s, k, f[m])]
    OBVIOUS
  <2>3. ASSUME NEW k \in 0 .. m + 1
        PROVE  g[k] = IF k = 0 THEN <<>> ELSE Grown(s, k, g[k - 1])
    <3>1. CASE k = 0
      BY <2>1, <2>2, <3>1, AccumulatesSteps
    <3>2. CASE k # 0 /\ k <= m
      <4>1. k \in 0 .. m /\ k - 1 \in 0 .. m /\ (k - 1) + 1 = k
        BY <3>2
      <4>2. f[k] = IF k = 0 THEN <<>> ELSE Grown(s, k, f[k - 1])
        BY <2>1, <4>1, Zenon DEF Accumulates
      <4>3. g[k] = f[k] /\ g[k - 1] = f[k - 1]
        BY <2>2, <3>2, <4>1
      <4> QED
        BY <4>2, <4>3, Zenon
    <3>3. CASE k = m + 1
      <4>1. k \in 0 .. m + 1 /\ k - 1 = m /\ m \in 0 .. m + 1 /\ ~(k <= m)
        BY <3>3
      <4>2. g[k] = Grown(s, k, f[m]) /\ g[m] = f[m]
        BY <2>2, <4>1
      <4>3. k # 0
        BY <3>3
      <4> QED
        BY <4>1, <4>2, <4>3, Zenon
    <3> QED
      BY <3>1, <3>2, <3>3
  <2>4. Accumulates(g, s, m + 1)
    BY <2>2, <2>3 DEF Accumulates
  <2> QED
    BY <2>4
<1> HIDE DEF N
<1>3. N = Nat
  BY <1>1, <1>2, InductiveSet DEF N
<1> QED
  BY <1>3 DEF N

LEMMA SplitsStep ==
    ASSUME NEW s \in Seq(Chars)
    PROVE  /\ Splits(s)[0] = <<>>
           /\ \A i \in Nat : i < Len(s) => Splits(s)[i + 1] = Grown(s, i + 1, Splits(s)[i])
<1>0. Len(s) \in Nat
  OBVIOUS
<1>1. \E g : Accumulates(g, s, Len(s))
  BY <1>0, AccumulatesExists
<1> DEFINE f == CHOOSE f : f = [k \in 0 .. Len(s) |-> IF k = 0 THEN <<>> ELSE Grown(s, k, f[k - 1])]
<1>2. Accumulates(f, s, Len(s))
  BY <1>1 DEF Accumulates
<1>3. Splits(s) = f
  BY DEF Splits
<1>4. f[0] = <<>> /\ \A k \in 0 .. Len(s) : k + 1 <= Len(s) => f[k + 1] = Grown(s, k + 1, f[k])
  BY <1>0, <1>2, AccumulatesSteps, Zenon
<1> HIDE DEF f
<1>5. ASSUME NEW i \in Nat, i < Len(s)
      PROVE  f[i + 1] = Grown(s, i + 1, f[i])
  <2>1. i \in 0 .. Len(s) /\ i + 1 <= Len(s)
    BY <1>0, <1>5
  <2> QED
    BY <1>4, <2>1, Zenon
<1> QED
  BY <1>3, <1>4, <1>5, Zenon

\* A step lengthens the last run or begins a new one; runs before the last one,
\* and after a space all, stay as they are.
LEMMA GrownRuns ==
    ASSUME NEW s \in Seq(Chars), NEW i \in Nat, i > 0, i <= Len(s),
           NEW runs \in Seq(Seq(Chars)),
           i > 1 /\ ClassAt(s, i - 1) # "space" => runs # <<>>
    PROVE  /\ Grown(s, i, runs) \in Seq(Seq(Chars))
           /\ ClassAt(s, i) # "space" => Grown(s, i, runs) # <<>>
           /\ i > 1 => Len(Grown(s, i, runs)) >= Len(runs)
           /\ i > 1 => \A j \in 1 .. Len(runs) :
                 /\ Len(Grown(s, i, runs)[j]) >= Len(runs[j])
                 /\ j < Len(runs) \/ ClassAt(s, i - 1) = "space" => Grown(s, i, runs)[j] = runs[j]
<1>1. s[i] \in Chars /\ Shown(s, i) \in Chars
  <2>1. s[i] \in Chars
    OBVIOUS
  <2> QED
    BY <2>1, Capitalized DEF Shown
<1>2. PICK c \in Chars : c = Shown(s, i)
  BY <1>1
<1>3. PICK e : e = Grown(s, i, runs)
  OBVIOUS
<1>4. CASE ClassAt(s, i) = "space"
  BY <1>4 DEF Grown
<1>5. CASE ClassAt(s, i) # "space" /\ RunAt(s, i)
  <2>1. PICK b : b = Before(s, i, runs)
    OBVIOUS
  <2>2. b \in Seq(Seq(Chars)) /\ (i > 1 => b = runs)
    BY <2>1 DEF Before
  <2>3. e = Append(b, <<c>>)
    BY <1>2, <1>3, <1>5, <2>1, Zenon DEF Grown
  <2>4. e \in Seq(Seq(Chars)) /\ Len(e) = Len(b) + 1 /\ \A j \in 1 .. Len(b) : e[j] = b[j]
    BY <2>2, <2>3
  <2>5. \A j \in 1 .. Len(runs) : Len(runs[j]) \in Nat
    OBVIOUS
  <2> QED
    BY <1>3, <2>2, <2>4, <2>5
<1>6. CASE ClassAt(s, i) # "space" /\ ~RunAt(s, i)
  <2>1. i > 1 /\ ClassAt(s, i - 1) # "space" /\ runs # <<>>
    BY <1>6 DEF RunAt
  <2>2. e = [runs EXCEPT ![Len(runs)] = Append(@, c)]
    BY <1>2, <1>3, <1>6, Zenon DEF Grown, Longer
  <2>3. Len(runs) \in Nat /\ Len(runs) > 0 /\ \A j \in 1 .. Len(runs) : runs[j] \in Seq(Chars)
    BY <2>1
  <2>4. Append(runs[Len(runs)], c) \in Seq(Chars)
    BY <2>3
  <2>5. e \in Seq(Seq(Chars)) /\ Len(e) = Len(runs)
    BY <2>2, <2>3, <2>4
  <2>6. \A j \in 1 .. Len(runs) : e[j] = IF j = Len(runs) THEN Append(runs[j], c) ELSE runs[j]
    BY <2>2, <2>3
  <2>7. ASSUME NEW j \in 1 .. Len(runs)
        PROVE  Len(e[j]) >= Len(runs[j])
    <3>1. PICK r \in Seq(Chars) : r = runs[j]
      BY <2>3
    <3>2. e[j] = r \/ e[j] = Append(r, c)
      BY <2>6, <3>1
    <3>3. Len(r) \in Nat /\ Len(Append(r, c)) = Len(r) + 1
      OBVIOUS
    <3> QED
      BY <3>1, <3>2, <3>3
  <2>8. e # <<>>
    BY <2>3, <2>5
  <2> QED
    BY <1>3, <1>6, <2>1, <2>3, <2>5, <2>6, <2>7, <2>8
<1> QED
  BY <1>4, <1>5, <1>6

\* After a space, or where a run begins, there is one run more.
LEMMA NewRun ==
    ASSUME NEW s \in Seq(Chars), NEW i \in Nat, i > 1, i <= Len(s),
           NEW runs \in Seq(Seq(Chars)), ClassAt(s, i) # "space", RunAt(s, i)
    PROVE  /\ Grown(s, i, runs) = Append(runs, <<Shown(s, i)>>)
           /\ Len(Grown(s, i, runs)) = Len(runs) + 1
<1>1. Grown(s, i, runs) = Append(runs, <<Shown(s, i)>>)
  BY DEF Grown, Before
<1> QED
  BY <1>1

LEMMA SplitsType ==
    ASSUME NEW s \in Seq(Chars), NEW i \in Nat, i <= Len(s)
    PROVE  /\ Splits(s)[i] \in Seq(Seq(Chars))
           /\ i > 0 /\ ClassAt(s, i) # "space" => Splits(s)[i] # <<>>
<1> DEFINE P(n) == /\ Splits(s)[n] \in Seq(Seq(Chars))
                   /\ n > 0 /\ ClassAt(s, n) # "space" => Splits(s)[n] # <<>>
           N    == { n \in Nat : n <= Len(s) => P(n) }
<1>0. Len(s) \in Nat
  OBVIOUS
<1>1. 0 \in N
  <2>1. Splits(s)[0] = <<>>
    BY SplitsStep, Zenon
  <2>2. <<>> \in Seq(Seq(Chars)) /\ ~(0 > 0)
    OBVIOUS
  <2>3. P(0)
    BY <2>1, <2>2, Zenon
  <2> QED
    BY <2>3
<1>2. ASSUME NEW n \in N
      PROVE  n + 1 \in N
  <2> SUFFICES ASSUME n + 1 <= Len(s) PROVE P(n + 1)
    OBVIOUS
  <2>1. n \in Nat /\ n < Len(s) /\ n <= Len(s) /\ n + 1 \in Nat /\ n + 1 > 0 /\ (n + 1) - 1 = n
        /\ (n + 1 > 1 => n > 0)
    BY <1>0
  <2>2. PICK runs : runs = Splits(s)[n]
    OBVIOUS
  <2>3. Splits(s)[n + 1] = Grown(s, n + 1, runs)
    BY <2>1, <2>2, SplitsStep, Zenon
  <2>4. runs \in Seq(Seq(Chars)) /\ (n > 0 /\ ClassAt(s, n) # "space" => runs # <<>>)
    BY <1>2, <2>1, <2>2, Zenon
  <2>5. n + 1 > 1 /\ ClassAt(s, (n + 1) - 1) # "space" => runs # <<>>
    BY <2>1, <2>4
  <2>6. /\ Grown(s, n + 1, runs) \in Seq(Seq(Chars))
        /\ ClassAt(s, n + 1) # "space" => Grown(s, n + 1, runs) # <<>>
    BY <2>1, <2>4, <2>5, GrownRuns, Zenon
  <2> QED
    BY <2>3, <2>6, Zenon
<1>3. N \in SUBSET Nat
  OBVIOUS
<1> HIDE DEF N
<1>4. N = Nat
  BY <1>1, <1>2, <1>3, InductiveSet, Zenon
<1> QED
  BY <1>4 DEF N

\* One step of Splits.
LEMMA SplitsNext ==
    ASSUME NEW s \in Seq(Chars), NEW i \in Nat, i > 0, i < Len(s)
    PROVE  /\ Splits(s)[i] \in Seq(Seq(Chars)) /\ Splits(s)[i + 1] \in Seq(Seq(Chars))
           /\ Len(Splits(s)[i + 1]) >= Len(Splits(s)[i])
           /\ \A j \in 1 .. Len(Splits(s)[i]) :
                 /\ Len(Splits(s)[i + 1][j]) >= Len(Splits(s)[i][j])
                 /\ j < Len(Splits(s)[i]) \/ ClassAt(s, i) = "space" =>
                       Splits(s)[i + 1][j] = Splits(s)[i][j]
           /\ ClassAt(s, i) = "space" =>
                 ClassAt(s, i + 1) = "space" \/ Len(Splits(s)[i + 1]) = Len(Splits(s)[i]) + 1
<1>1. i + 1 \in Nat /\ i + 1 > 0 /\ i + 1 > 1 /\ i + 1 <= Len(s) /\ (i + 1) - 1 = i /\ i <= Len(s)
  OBVIOUS
<1>2. PICK runs : runs = Splits(s)[i]
  OBVIOUS
<1>3. Splits(s)[i + 1] = Grown(s, i + 1, runs)
  BY <1>2, SplitsStep, Zenon
<1>4. runs \in Seq(Seq(Chars)) /\ (ClassAt(s, i) # "space" => runs # <<>>)
  BY <1>1, <1>2, SplitsType, Zenon
<1>5. i + 1 > 1 /\ ClassAt(s, (i + 1) - 1) # "space" => runs # <<>>
  BY <1>1, <1>4, Zenon
<1>6. /\ Grown(s, i + 1, runs) \in Seq(Seq(Chars))
      /\ Len(Grown(s, i + 1, runs)) >= Len(runs)
      /\ \A j \in 1 .. Len(runs) :
            /\ Len(Grown(s, i + 1, runs)[j]) >= Len(runs[j])
            /\ j < Len(runs) \/ ClassAt(s, (i + 1) - 1) = "space" => Grown(s, i + 1, runs)[j] = runs[j]
  BY <1>1, <1>4, <1>5, GrownRuns, Zenon
<1>7. ASSUME ClassAt(s, i) = "space", ClassAt(s, i + 1) # "space"
      PROVE  Len(Grown(s, i + 1, runs)) = Len(runs) + 1
  <2>1. RunAt(s, i + 1)
    BY <1>1, <1>7 DEF RunAt
  <2> QED
    BY <1>1, <1>4, <1>7, <2>1, NewRun, Zenon
<1> QED
  BY <1>1, <1>2, <1>3, <1>4, <1>6, <1>7, Zenon

\* A run once there stays, and is never shorter later; the same, once another
\* has begun or a space has come.
LEMMA LaterRuns ==
    ASSUME NEW s \in Seq(Chars), NEW k \in Nat, k > 0, k <= Len(s),
           NEW L \in Nat, Len(Splits(s)[k]) > L
    PROVE  \A e \in k .. Len(s) :
              /\ Len(Splits(s)[e]) > L /\ Len(Splits(s)[e][L + 1]) >= Len(Splits(s)[k][L + 1])
              /\ Len(Splits(s)[k]) > L + 1 \/ ClassAt(s, k) = "space" =>
                    Splits(s)[e][L + 1] = Splits(s)[k][L + 1]
<1> DEFINE Over(e) == Len(Splits(s)[e]) > L + 1 \/ ClassAt(s, e) = "space"
           P(e) == /\ Len(Splits(s)[e]) > L /\ Len(Splits(s)[e][L + 1]) >= Len(Splits(s)[k][L + 1])
                   /\ Over(k) => Over(e) /\ Splits(s)[e][L + 1] = Splits(s)[k][L + 1]
           N    == { n \in Nat : k + n <= Len(s) => P(k + n) }
<1>0. Len(s) \in Nat
  OBVIOUS
<1>1. ASSUME NEW e \in Nat, e <= Len(s), Len(Splits(s)[e]) > L
      PROVE  Len(Splits(s)[e][L + 1]) \in Nat /\ Len(Splits(s)[e]) \in Nat
             /\ L + 1 \in 1 .. Len(Splits(s)[e])
  <2>1. Splits(s)[e] \in Seq(Seq(Chars))
    BY <1>1, SplitsType, Zenon
  <2> QED
    BY <1>1, <2>1
<1>2. P(k)
  <2>1. Len(Splits(s)[k][L + 1]) \in Nat
    BY <1>1
  <2> QED
    BY <2>1
<1>3. ASSUME NEW e \in Nat, e > 0, e < Len(s), P(e)
      PROVE  P(e + 1)
  <2>1. PICK a, b : a = Splits(s)[e] /\ b = Splits(s)[e + 1]
    OBVIOUS
  <2>2. /\ a \in Seq(Seq(Chars)) /\ b \in Seq(Seq(Chars))
        /\ Len(b) >= Len(a)
        /\ \A j \in 1 .. Len(a) : /\ Len(b[j]) >= Len(a[j])
                                  /\ j < Len(a) \/ ClassAt(s, e) = "space" => b[j] = a[j]
        /\ ClassAt(s, e) = "space" => ClassAt(s, e + 1) = "space" \/ Len(b) = Len(a) + 1
    BY <1>3, <2>1, SplitsNext, Zenon
  <2>3. Len(a) > L /\ Len(a) \in Nat /\ Len(b) \in Nat /\ L + 1 \in 1 .. Len(a) /\ L + 1 \in 1 .. Len(b)
    <3>1. Len(a) > L
      BY <1>3, <2>1, Zenon
    <3>2. PICK m \in Nat, n \in Nat : m = Len(a) /\ n = Len(b)
      BY <2>2
    <3>3. n >= m
      BY <2>2, <3>2, Zenon
    <3>4. m > L
      BY <3>1, <3>2
    <3>5. L + 1 \in 1 .. m /\ L + 1 \in 1 .. n
      BY <3>3, <3>4
    <3> QED
      BY <3>1, <3>2, <3>5, Zenon
  <2>4. PICK x : x = Splits(s)[k][L + 1]
    OBVIOUS
  <2>5. Len(x) \in Nat /\ Len(a[L + 1]) \in Nat /\ Len(b[L + 1]) \in Nat
    <3>1. Len(x) \in Nat
      BY <1>1, <2>4
    <3>2. a[L + 1] \in Seq(Chars) /\ b[L + 1] \in Seq(Chars)
      BY <2>2, <2>3, SMTT(20)
    <3> QED
      BY <3>1, <3>2
  <2>6. Len(a[L + 1]) >= Len(x) /\ (Over(k) => Over(e) /\ a[L + 1] = x)
    BY <1>3, <2>1, <2>4, Zenon
  <2>7. Len(b[L + 1]) >= Len(a[L + 1])
        /\ (L + 1 < Len(a) \/ ClassAt(s, e) = "space" => b[L + 1] = a[L + 1])
    BY <2>2, <2>3, Zenon
  <2>8. Len(b) > L /\ Len(b[L + 1]) >= Len(x)
    BY <2>3, <2>5, <2>6, <2>7
  <2>9. ASSUME Over(k)
        PROVE  Over(e + 1) /\ b[L + 1] = x
    <3>1. Over(e) /\ a[L + 1] = x
      BY <2>6, <2>9, Zenon
    <3>2. CASE Len(a) > L + 1
      BY <2>1, <2>2, <2>3, <2>7, <3>1, <3>2
    <3>3. CASE ClassAt(s, e) = "space"
      BY <2>1, <2>2, <2>3, <2>7, <3>1, <3>3
    <3> QED
      BY <2>1, <3>1, <3>2, <3>3, Zenon
  <2> QED
    BY <2>1, <2>4, <2>8, <2>9, Zenon
<1> HIDE DEF P
<1>4. 0 \in N
  BY <1>2
<1>5. ASSUME NEW n \in N
      PROVE  n + 1 \in N
  <2> SUFFICES ASSUME k + (n + 1) <= Len(s) PROVE P(k + (n + 1))
    OBVIOUS
  <2>1. PICK e \in Nat : e = k + n
    OBVIOUS
  <2>2. e > 0 /\ e < Len(s) /\ e + 1 = k + (n + 1) /\ k + n <= Len(s)
    BY <1>0, <2>1
  <2>3. P(e)
    BY <1>5, <2>1, <2>2
  <2>4. P(e + 1)
    BY <1>3, <2>2, <2>3, Zenon
  <2> QED
    BY <2>2, <2>4, Zenon
<1>6. N \in SUBSET Nat
  OBVIOUS
<1> HIDE DEF N
<1>7. N = Nat
  BY <1>4, <1>5, <1>6, InductiveSet, Zenon
<1>8. ASSUME NEW e \in k .. Len(s)
      PROVE  P(e)
  <2>1. e - k \in Nat /\ k + (e - k) = e /\ e <= Len(s)
    BY <1>0
  <2> QED
    BY <1>7, <2>1, Zenon DEF N
<1> QED
  BY <1>8, Zenon DEF P

-----------------------------------------------------------------------------
(* The first n characters of a text, and what they say of themselves.      *)

ApartTo(s, n) == \A i \in 2 .. n : s[i] = "\"" /\ Odd(s, i) => s[i - 1] \in {" ", "\""}
Calm(s, n)    == \A i \in 1 .. n : ClassAt(s, i) \notin {"etc", "newline"}
NoNul(s, n)   == \A i \in 1 .. n : s[i] # "nul"
Stops(s, n, e) == Calm(s, e) /\ (e = n \/ ClassAt(s, e + 1) \in {"etc", "newline"})
LongTo(s, n)  == \E i \in 1 .. n - TokenLen : \A k \in i + 1 .. i + TokenLen : ~RunAt(s, k)

LEMMA PrefixAgrees ==
    ASSUME NEW s \in Seq(Chars), NEW n \in 1 .. Len(s)
    PROVE  LET t == SubSeq(s, 1, n)
           IN  /\ t \in Seq(Chars) /\ Len(t) = n /\ DOMAIN t = 1 .. n
               /\ \A i \in 1 .. n : t[i] = s[i] /\ ClassAt(t, i) = ClassAt(s, i)
                                    /\ RunAt(t, i) = RunAt(s, i) /\ Shown(t, i) = Shown(s, i)
               /\ \A i \in 0 .. n : Odd(t, i) <=> Odd(s, i)
<1> DEFINE t == SubSeq(s, 1, n)
<1>1. t \in Seq(Chars) /\ Len(t) = n /\ DOMAIN t = 1 .. n /\ \A i \in 1 .. n : t[i] = s[i]
  OBVIOUS
<1> HIDE DEF t
<1>2. ASSUME NEW i \in 0 .. n
      PROVE  Odd(t, i) <=> Odd(s, i)
  <2>1. \A k \in 1 .. i : t[k] = s[k]
    BY <1>1
  <2>2. { k \in 1 .. i : t[k] = "\"" } = { k \in 1 .. i : s[k] = "\"" }
    BY <2>1, Zenon
  <2>3. Quotes(t, i) = Quotes(s, i)
    BY <2>2, Zenon DEF Quotes
  <2> QED
    BY <2>3, Zenon DEF Odd
<1>3. ASSUME NEW i \in 1 .. n
      PROVE  ClassAt(t, i) = ClassAt(s, i)
  <2>1. i \in 0 .. n
    OBVIOUS
  <2> QED
    BY <1>1, <1>2, <2>1, Zenon DEF ClassAt
<1>4. ASSUME NEW i \in 1 .. n
      PROVE  RunAt(t, i) = RunAt(s, i) /\ Shown(t, i) = Shown(s, i)
  <2>1. i # 1 => i - 1 \in 1 .. n
    OBVIOUS
  <2>2. RunAt(t, i) <=> RunAt(s, i)
    BY <1>3, <2>1, Zenon DEF RunAt
  <2>3. Shown(t, i) = Shown(s, i)
    BY <1>1, <1>3, Zenon DEF Shown
  <2>4. RunAt(t, i) \in BOOLEAN /\ RunAt(s, i) \in BOOLEAN
    BY Zenon DEF RunAt
  <2> QED
    BY <2>2, <2>3, <2>4, Zenon
<1> QED
  BY <1>1, <1>2, <1>3, <1>4, Zenon DEF t

LEMMA PrefixSplits ==
    ASSUME NEW s \in Seq(Chars), NEW n \in 1 .. Len(s)
    PROVE  \A i \in 0 .. n : Splits(SubSeq(s, 1, n))[i] = Splits(s)[i]
<1>1. PICK t : t = SubSeq(s, 1, n)
  OBVIOUS
<1>2. /\ t \in Seq(Chars) /\ Len(t) = n
      /\ \A i \in 1 .. n : /\ ClassAt(t, i) = ClassAt(s, i)
                           /\ RunAt(t, i) = RunAt(s, i) /\ Shown(t, i) = Shown(s, i)
  BY <1>1, PrefixAgrees, Zenon
<1> DEFINE N == { i \in Nat : i <= n => Splits(t)[i] = Splits(s)[i] }
<1>3. 0 \in N
  BY <1>2, SplitsStep
<1>4. ASSUME NEW i \in N
      PROVE  i + 1 \in N
  <2> SUFFICES ASSUME i + 1 <= n PROVE Splits(t)[i + 1] = Splits(s)[i + 1]
    OBVIOUS
  <2>1. i \in Nat /\ i < Len(t) /\ i < Len(s) /\ i + 1 \in 1 .. n /\ Splits(t)[i] = Splits(s)[i]
    BY <1>2
  <2>2. \A runs : Grown(t, i + 1, runs) = Grown(s, i + 1, runs)
    BY <1>2, <2>1, Zenon DEF Grown, Before
  <2>3. Splits(t)[i + 1] = Grown(t, i + 1, Splits(t)[i])
        /\ Splits(s)[i + 1] = Grown(s, i + 1, Splits(s)[i])
    BY <1>2, <2>1, SplitsStep, Zenon
  <2> QED
    BY <2>1, <2>2, <2>3, Zenon
<1>5. N \in SUBSET Nat
  OBVIOUS
<1> HIDE DEF N
<1>6. N = Nat
  BY <1>3, <1>4, <1>5, InductiveSet, Zenon
<1>7. ASSUME NEW i \in 0 .. n PROVE Splits(t)[i] = Splits(s)[i]
  <2>1. i \in Nat /\ i <= n
    OBVIOUS
  <2> QED
    BY <1>6, <2>1, Zenon DEF N
<1> QED
  BY <1>1, <1>7, Zenon

\* The properties of a text, of a text that goes on behind it.
LEMMA PrefixProperties ==
    ASSUME NEW s \in Seq(Chars), NEW n \in 1 .. Len(s)
    PROVE  LET t == SubSeq(s, 1, n)
           IN  /\ Len(t) = n
               /\ Apart(t) <=> ApartTo(s, n)
               /\ Zeroless(t) <=> NoNul(s, n)
               /\ LongRun(t) <=> LongTo(s, n)
<1> DEFINE t == SubSeq(s, 1, n)
<1>1. /\ Len(t) = n /\ DOMAIN t = 1 .. n
      /\ \A i \in 1 .. n : t[i] = s[i] /\ RunAt(t, i) = RunAt(s, i)
      /\ \A i \in 0 .. n : Odd(t, i) <=> Odd(s, i)
  BY PrefixAgrees, Zenon
<1> HIDE DEF t
<1>2. ASSUME NEW i \in 2 .. n
      PROVE  t[i] = s[i] /\ t[i - 1] = s[i - 1] /\ (Odd(t, i) <=> Odd(s, i))
  <2>1. i \in 1 .. n /\ i - 1 \in 1 .. n /\ i \in 0 .. n
    OBVIOUS
  <2> QED
    BY <1>1, <2>1, Zenon
<1>3. Apart(t) <=> ApartTo(s, n)
  BY <1>1, <1>2, Zenon DEF Apart, ApartTo
<1>4. Zeroless(t) <=> NoNul(s, n)
  BY <1>1 DEF Zeroless, NoNul
<1>5. ASSUME NEW i \in 1 .. n - TokenLen, NEW k \in i + 1 .. i + TokenLen
      PROVE  RunAt(t, k) = RunAt(s, k)
  <2>1. k \in 1 .. n
    BY SizeAssumption
  <2> QED
    BY <1>1, <2>1, Zenon
<1>6. LongRun(t) <=> LongTo(s, n)
  BY <1>1, <1>5, Zenon DEF LongRun, LongTo
<1> QED
  BY <1>1, <1>3, <1>4, <1>6, Zenon DEF t

\* Split goes as far as the text is calm.
LEMMA SplitStops ==
    ASSUME NEW s \in Seq(Chars), NEW n \in 1 .. Len(s)
    PROVE  \E e \in 0 .. n : Stops(s, n, e) /\ Split(SubSeq(s, 1, n)) = Splits(s)[e]
<1>1. PICK t : t = SubSeq(s, 1, n)
  OBVIOUS
<1>2. /\ t \in Seq(Chars) /\ Len(t) = n /\ DOMAIN t = 1 .. n
      /\ \A i \in 1 .. n : ClassAt(t, i) = ClassAt(s, i)
  BY <1>1, PrefixAgrees, Zenon
<1>3. Extent(t) \in 0 .. n /\ Stops(s, n, Extent(t))
  <2>1. CASE Ends(t) = {}
    <3>1. Extent(t) = n
      BY <1>2, <2>1, Zenon DEF Extent
    <3>2. Calm(s, n)
      BY <1>2, <2>1 DEF Ends, Calm
    <3> QED
      BY <3>1, <3>2 DEF Stops
  <2>2. CASE Ends(t) # {}
    <3>1. Ends(t) \in SUBSET Nat
      BY <1>2 DEF Ends
    <3>2. \E m \in Ends(t) : \A k \in Ends(t) : m <= k
      BY <2>2, <3>1, LeastNumber, Zenon
    <3>3. PICK m : m = CHOOSE i \in Ends(t) : \A k \in Ends(t) : i <= k
      OBVIOUS
    <3>4. m \in Ends(t) /\ \A k \in Ends(t) : m <= k
      BY <3>2, <3>3, Zenon
    <3>5. Extent(t) = m - 1
      BY <2>2, <3>3, Zenon DEF Extent
    <3>6. m \in 1 .. n /\ ClassAt(s, m) \in {"etc", "newline"}
      BY <1>2, <3>4 DEF Ends
    <3>7. m - 1 \in 0 .. n /\ (m - 1) + 1 = m
      BY <3>6
    <3>8. ASSUME NEW i \in 1 .. m - 1
          PROVE  ClassAt(s, i) \notin {"etc", "newline"}
      <4>1. i \in 1 .. n /\ ~(m <= i)
        BY <3>6
      <4>2. i \notin Ends(t)
        BY <3>4, <4>1, Zenon
      <4> QED
        BY <1>2, <4>1, <4>2, Zenon DEF Ends
    <3> QED
      BY <3>5, <3>6, <3>7, <3>8, Zenon DEF Stops, Calm
  <2> QED
    BY <2>1, <2>2
<1>4. Split(t) = Splits(s)[Extent(t)]
  BY <1>1, <1>3, PrefixSplits, Zenon DEF Split
<1> QED
  BY <1>1, <1>3, <1>4, Zenon

-----------------------------------------------------------------------------
(* Reading a line as long as strings begin where they may.  Of the text s  *)
(* from where the line began, m characters have been taken.                *)

RestFrom(b) == SubSeq(file, b + 1, Len(file))
Reached(s, m) == \/ m < Len(s) /\ cur_char = s[m + 1] /\ pos = begun + m + 1
                 \/ m = Len(s) /\ cur_char = Eof /\ pos = begun + m

\* word is the run that is open, and tokens are the runs before.
Tracks(s, m) ==
    /\ inQuotes <=> Odd(s, m)
    /\ m = 0 => tokens = <<>> /\ word = <<>> /\ last = "null"
    /\ m > 0 => /\ last = ClassAt(s, m)
                /\ Splits(s)[m] = IF last = "space" THEN tokens ELSE Append(tokens, word)
                /\ Len(word) \in 1 .. m
    /\ isBlank <=> Splits(s)[m] = <<>>
    /\ \A k \in 1 .. m : k > m - Len(word) + 1 => ~RunAt(s, k)

\* What the next character is read as.
LEMMA NextRead ==
    ASSUME TypeOK, NEW s \in Seq(Chars), NEW m \in Nat, m < Len(s),
           cur_char = s[m + 1], inQuotes <=> Odd(s, m)
    PROVE  /\ Type = ClassAt(s, m + 1)
           /\ Quoted <=> Odd(s, m + 1)
           /\ Read = Shown(s, m + 1)
<1>1. /\ ClassAt(s, m + 1) = IF s[m + 1] = "\"" \/ Odd(s, m) THEN "quotes" ELSE ClassOf(s[m + 1])
      /\ Odd(s, m + 1) <=> IF s[m + 1] = "\"" THEN ~Odd(s, m) ELSE Odd(s, m)
  BY OddStep
<1>2. Type = ClassAt(s, m + 1)
  BY <1>1 DEF Type
<1>3. Quoted <=> Odd(s, m + 1)
  BY <1>1 DEF Quoted
<1>4. Read = Shown(s, m + 1)
  <2>1. ClassOf(s[m + 1]) # "quotes"
    BY Classes
  <2> QED
    BY <1>1, <2>1, Capitalized DEF Read, Shown
<1> QED
  BY <1>2, <1>3, <1>4

LEMMA TypeOfClass ==
    ASSUME TypeOK
    PROVE  Type \in Types /\ Type # "null" /\ (Type = "quotes" <=> cur_char = "\"" \/ inQuotes)
  BY Classes DEF Type, Types

LEMMA LongerLast ==
    ASSUME NEW T, NEW a \in Seq(Seq(T)), NEW r \in Seq(T), NEW c \in T
    PROVE  Longer(Append(a, r), c) = Append(a, Append(r, c))
<1>1. PICK S : S = Seq(T)
  OBVIOUS
<1>2. a \in Seq(S) /\ r \in S /\ Len(a) \in Nat
  BY <1>1
<1>3. Append(r, c) \in S
  BY <1>1, AppendProperties, Zenon
<1>4. PICK q \in S : q = Append(r, c)
  BY <1>3
<1>5. PICK b \in Seq(S) : b = Append(a, r)
  BY <1>2, AppendProperties, Zenon
<1>6. Len(b) = Len(a) + 1 /\ b[Len(a) + 1] = r /\ \A k \in 1 .. Len(a) : b[k] = a[k]
  BY <1>2, <1>5
<1>7. Len(b) \in 1 .. Len(b) /\ \A k \in 1 .. Len(b) : k = Len(b) \/ k \in 1 .. Len(a)
  BY <1>2, <1>6
<1>8. [b EXCEPT ![Len(b)] = q] = Append(a, q)
  <2>1. [b EXCEPT ![Len(b)] = q] \in Seq(S) /\ Len([b EXCEPT ![Len(b)] = q]) = Len(b)
    BY <1>7, ExceptSeq, SMT
  <2>2. \A k \in 1 .. Len(b) : [b EXCEPT ![Len(b)] = q][k] = IF k = Len(b) THEN q ELSE b[k]
    BY <1>7, ExceptSeq, SMT
  <2>3. Append(a, q) \in Seq(S) /\ Len(Append(a, q)) = Len(b)
    BY <1>2, <1>6
  <2>4. Append(a, q)[Len(b)] = q /\ \A k \in 1 .. Len(a) : Append(a, q)[k] = a[k]
    BY <1>2, <1>6
  <2>5. PICK x, y : x = [b EXCEPT ![Len(b)] = q] /\ y = Append(a, q)
    OBVIOUS
  <2>6. x \in Seq(S) /\ y \in Seq(S) /\ Len(x) = Len(y) /\ \A k \in 1 .. Len(x) : x[k] = y[k]
    BY <1>6, <1>7, <2>1, <2>2, <2>3, <2>4, <2>5, Zenon
  <2>7. x = y
    BY <2>6, SeqEqual, Zenon
  <2> QED
    BY <2>5, <2>7, Zenon
<1>9. [b EXCEPT ![Len(b)] = Append(@, c)] = [b EXCEPT ![Len(b)] = Append(b[Len(b)], c)] /\ b[Len(b)] = r
  BY <1>6
<1> QED
  BY <1>4, <1>5, <1>8, <1>9, Zenon DEF Longer

LEMMA TrackStep ==
    ASSUME TypeOK, NEW s \in Seq(Chars), NEW m \in Nat, m < Len(s), cur_char = s[m + 1],
           Tracks(s, m), ApartTo(s, m + 1), Take
    PROVE  Tracks(s, m + 1)' /\ type' = ClassAt(s, m + 1)
<1> DEFINE n == m + 1
           ty == ClassAt(s, m + 1)
           c  == Shown(s, m + 1)
<1>1. inQuotes <=> Odd(s, m)
  BY DEF Tracks
<1>2. Type = ty /\ (Quoted <=> Odd(s, n)) /\ Read = c
  BY <1>1, NextRead
<1>3. /\ tokens' = Stored(ty) /\ word' = Append(Started(ty), c)
      /\ type' = ty /\ last' = ty /\ inQuotes' = QuotedAfter(ty) /\ isBlank' = StillBlank(ty)
  BY <1>2 DEF Take
<1>4. Splits(s)[n] = Grown(s, n, Splits(s)[m]) /\ Splits(s)[0] = <<>>
  BY SplitsStep, Zenon
<1>5. /\ n \in Nat /\ n > 0 /\ n <= Len(s) /\ m <= Len(s) /\ n - 1 = m
      /\ ty \in Types /\ ty # "null" /\ c \in Chars
  <2>1. s[n] \in Chars
    OBVIOUS
  <2>2. c \in Chars
    BY <2>1, Capitalized, Zenon DEF Shown
  <2>3. ty \in Types /\ ty # "null"
    BY ClassType, Zenon
  <2>4. n \in Nat /\ n > 0 /\ n <= Len(s) /\ m <= Len(s) /\ n - 1 = m
    OBVIOUS
  <2> QED
    BY <2>2, <2>3, <2>4, Zenon
<1>6. /\ Splits(s)[n] \in Seq(Seq(Chars)) /\ Splits(s)[m] \in Seq(Seq(Chars))
      /\ (ty # "space" => Splits(s)[n] # <<>>)
  BY <1>5, SplitsType, Zenon
<1>7. isBlank' <=> Splits(s)[n] = <<>>
  <2>1. isBlank <=> Splits(s)[m] = <<>>
    BY DEF Tracks
  <2>2. CASE ty = "space"
    BY <1>3, <1>4, <2>1, <2>2, Zenon DEF StillBlank, Grown
  <2>3. CASE ty # "space"
    BY <1>3, <1>6, <2>3, Zenon DEF StillBlank
  <2> QED
    BY <2>2, <2>3
<1> HIDE DEF n, ty, c
<1>8. tokens \in Seq(Token) /\ word \in Token
  BY DEF TypeOK
<1>9. Append(<<>>, c) = <<c>>
  OBVIOUS
<1>10. CASE m = 0
  <2>1. tokens = <<>> /\ word = <<>> /\ last = "null" /\ ~Odd(s, 0)
    BY <1>10, OddStep DEF Tracks
  <2>2. n = 1 /\ RunAt(s, n)
    BY <1>10 DEF n, RunAt
  <2>3. Started(ty) = <<>>
    BY <2>1, Zenon DEF Started
  <2>4. word' = <<c>>
    BY <1>3, <1>9, <2>3, Zenon
  <2>7. /\ n # 0 /\ Len(word') \in 1 .. n /\ \A k \in 1 .. n : ~(k > n - Len(word') + 1)
        /\ last' = ty /\ type' = ty
    <3>1. Len(word') = 1
      BY <2>4
    <3> QED
      BY <1>3, <2>2, <3>1
  <2>5. CASE ty = "parenthesis"
    <3>1. Stores(ty)
      BY <2>1, <2>5 DEF Stores, WordEnds
    <3>2. tokens' = <<<<>>>> /\ inQuotes' = FALSE
      <4>1. Append(<<>>, <<>>) = <<<<>>>>
        OBVIOUS
      <4> QED
        BY <1>3, <2>1, <3>1, <4>1, Zenon DEF Stored, QuotedAfter
    <3>3. ~Odd(s, n)
      <4>1. ty = ClassAt(s, n)
        BY DEF ty, n
      <4> QED
        BY <2>5, <4>1, Zenon DEF ClassAt
    <3>4. Splits(s)[n] = Append(<<<<>>>>, <<c>>)
      <4>1. ClassAt(s, n) = "parenthesis" /\ c = Shown(s, n)
        BY <2>5 DEF ty, n, c
      <4> QED
        BY <1>4, <2>2, <4>1 DEF Grown, Before
    <3>5. Splits(s)[n] = Append(tokens', word') /\ ty # "space" /\ (inQuotes' <=> Odd(s, n))
      BY <2>4, <2>5, <3>2, <3>3, <3>4
    <3> QED
      BY <1>3, <1>5, <1>7, <2>7, <3>5, Zenon DEF Tracks, n, ty
  <2>6. CASE ty # "parenthesis"
    <3>1. ~Stores(ty) /\ tokens' = <<>> /\ (inQuotes' <=> Odd(s, n))
      BY <1>2, <1>3, <2>1, <2>6 DEF Stores, WordEnds, Stored, QuotedAfter
    <3>2. Splits(s)[n] = IF ty = "space" THEN <<>> ELSE Append(<<>>, <<c>>)
      <4>1. ClassAt(s, n) = ty /\ c = Shown(s, n) /\ Splits(s)[m] = <<>>
        BY <1>4, <1>10 DEF ty, n, c
      <4> QED
        BY <1>4, <2>2, <2>6, <4>1, Zenon DEF Grown, Before
    <3>3. Splits(s)[n] = IF ty = "space" THEN tokens' ELSE Append(tokens', word')
      BY <2>4, <3>1, <3>2
    <3> QED
      BY <1>3, <1>5, <1>7, <2>7, <3>1, <3>3, Zenon DEF Tracks, n, ty
  <2> QED
    BY <2>5, <2>6
<1>11. CASE m > 0
  <2>1. /\ last = ClassAt(s, m) /\ last # "null"
        /\ Splits(s)[m] = IF last = "space" THEN tokens ELSE Append(tokens, word)
        /\ Len(word) \in 1 .. m
        /\ \A k \in 1 .. m : k > m - Len(word) + 1 => ~RunAt(s, k)
    BY <1>11, ClassType DEF Tracks
  <2>2. /\ n > 1 /\ n # 1 /\ n = m + 1 /\ ClassAt(s, n) = ty /\ ClassAt(s, n - 1) = last /\ c = Shown(s, n)
        /\ \A runs : Before(s, n, runs) = runs
    BY <1>5, <1>11, <2>1 DEF n, ty, c, Before
  <2>3. CASE ty = last /\ ty # "parenthesis"
    <3>1. ~RunAt(s, n)
      BY <2>2, <2>3 DEF RunAt
    <3>2. ~WordEnds(ty) /\ ~Stores(ty)
      BY <2>3 DEF Stores, WordEnds
    <3>3. tokens' = tokens /\ word' = Append(word, c) /\ (inQuotes' <=> Odd(s, n))
      BY <1>2, <1>3, <3>2, Zenon DEF Stored, Started, QuotedAfter
    <3>4. Splits(s)[n] = IF ty = "space" THEN tokens ELSE Append(tokens, Append(word, c))
      <4>1. CASE ty = "space"
        BY <1>4, <2>1, <2>2, <2>3, <4>1, Zenon DEF Grown
      <4>2. CASE ty # "space"
        <5>1. Splits(s)[n] = Longer(Append(tokens, word), c)
          BY <1>4, <2>1, <2>2, <2>3, <3>1, <4>2, Zenon DEF Grown
        <5>2. tokens \in Seq(Seq(Chars \union {Eof})) /\ word \in Seq(Chars \union {Eof})
              /\ c \in Chars \union {Eof}
          BY <1>5, <1>8 DEF Token
        <5>3. Longer(Append(tokens, word), c) = Append(tokens, Append(word, c))
          BY <5>2, LongerLast
        <5> QED
          BY <4>2, <5>1, <5>3, Zenon
      <4> QED
        BY <4>1, <4>2
    <3>5. Len(word') = Len(word) + 1 /\ Len(word') \in 1 .. n
      BY <1>8, <2>1, <2>2, <3>3 DEF Token
    <3>6. ASSUME NEW k \in 1 .. n, k > n - Len(word') + 1
          PROVE  ~RunAt(s, k)
      <4>1. k = n \/ (k \in 1 .. m /\ k > m - Len(word) + 1)
        BY <1>5, <2>1, <2>2, <3>5, <3>6
      <4> QED
        BY <2>1, <3>1, <4>1
    <3>7. last' = ty /\ n # 0
      BY <1>3, <2>2
    <3> QED
      BY <1>3, <1>5, <1>7, <2>2, <3>3, <3>4, <3>5, <3>6, <3>7, Zenon DEF Tracks, n, ty
  <2>4. CASE ty # last \/ ty = "parenthesis"
    <3>1. RunAt(s, n) /\ WordEnds(ty)
      BY <2>1, <2>2, <2>4 DEF RunAt, WordEnds
    <3>2. word' = <<c>>
      BY <1>3, <1>9, <3>1, Zenon DEF Started
    <3>3. tokens' = Splits(s)[m]
      BY <1>3, <2>1, <3>1, Zenon DEF Stored, Stores
    <3>4. inQuotes' <=> Odd(s, n)
      <4>1. CASE last = "space"
        BY <1>2, <1>3, <4>1, Zenon DEF QuotedAfter, Stores
      <4>2. CASE last # "space"
        <5>1. inQuotes' = FALSE
          BY <1>3, <3>1, <4>2, Zenon DEF QuotedAfter, Stores
        <5>2. ASSUME Odd(s, n) PROVE FALSE
          <6>1. /\ Odd(s, n) <=> IF s[n] = "\"" THEN ~Odd(s, m) ELSE Odd(s, m)
                /\ ty = "quotes"
                /\ Odd(s, m) => last = "quotes"
            BY <2>1, <2>2, <5>2, OddStep DEF n, ClassAt
          <6>2. s[n] = "\"" /\ ~Odd(s, m)
            BY <2>4, <5>2, <6>1
          <6>3. n \in 2 .. n
            BY <1>5, <2>2
          <6>4. s[m] \in {" ", "\""}
            BY <1>5, <5>2, <6>2, <6>3 DEF ApartTo, n
          <6>5. s[m] # "\""
            BY <2>1, <2>4, <6>1 DEF ClassAt
          <6>6. ClassOf(s[m]) = "space"
            BY <6>4, <6>5, Classes
          <6> QED
            BY <2>1, <4>2, <6>2, <6>5, <6>6 DEF ClassAt
        <5> QED
          BY <5>1, <5>2
      <4> QED
        BY <4>1, <4>2
    <3>5. Splits(s)[n] = IF ty = "space" THEN tokens' ELSE Append(tokens', word')
      BY <1>4, <2>2, <3>1, <3>2, <3>3, Zenon DEF Grown
    <3>6. Len(word') = 1
      BY <3>2
    <3>7. Len(word') \in 1 .. n /\ \A k \in 1 .. n : ~(k > n - Len(word') + 1)
      BY <1>5, <3>6
    <3>8. last' = ty /\ n # 0
      BY <1>3, <2>2
    <3> QED
      BY <1>3, <1>5, <1>7, <2>2, <3>4, <3>5, <3>7, <3>8, Zenon DEF Tracks, n, ty
  <2> QED
    BY <2>3, <2>4
<1> QED
  BY <1>10, <1>11

-----------------------------------------------------------------------------
(* The types of the variables.                                             *)

LEMMA GetType ==
    ASSUME file \in Files, TypeOK, Get, file' = file
    PROVE  cur_char' \in Chars \union {Eof} /\ pos' \in 0 .. Len(file) /\ pos' >= pos
<1>1. file \in Seq(Chars) /\ Len(file) \in Nat /\ pos \in 0 .. Len(file)
  BY FilesAssumption DEF TypeOK
<1>2. \A p \in Nat : p > 0 => Char(p) \in Chars \union {Eof}
  BY <1>1 DEF Char
<1>3. pos + 1 \in Nat /\ pos + 1 > 0
  BY <1>1
<1>4. cur_char' \in Chars \union {Eof}
  BY <1>2, <1>3, Zenon DEF Get
<1> QED
  BY <1>1, <1>4 DEF Get

LEMMA StoredType ==
    ASSUME TypeOK, NEW t \in Types
    PROVE  /\ Stored(t) \in Seq(Token) /\ (TokenFits(t) => Len(Stored(t)) <= MaxTokens)
           /\ Started(t) \in Token /\ Len(Started(t)) <= TokenLen
           /\ Read \in Chars \union {Eof}
           /\ QuotedAfter(t) \in BOOLEAN /\ StillBlank(t) \in BOOLEAN
<1>1. /\ tokens \in Seq(Token) /\ word \in Token /\ Len(tokens) <= MaxTokens /\ Len(word) <= TokenLen
      /\ inQuotes \in BOOLEAN /\ isBlank \in BOOLEAN /\ cur_char \in Chars \union {Eof}
  BY DEF TypeOK
<1>2. TokenLen \in Nat /\ MaxTokens \in Nat
  BY SizeAssumption
<1>3. Stored(t) \in Seq(Token)
  BY <1>1, AppendProperties, Zenon DEF Stored
<1>4. ASSUME TokenFits(t) PROVE Len(Stored(t)) <= MaxTokens
  <2>1. Len(tokens) \in Nat /\ Len(Append(tokens, word)) = Len(tokens) + 1
    <3>1. PICK S : S = Token
      OBVIOUS
    <3>2. tokens \in Seq(S) /\ word \in S
      BY <1>1, <3>1
    <3> QED
      BY <3>2
  <2> QED
    BY <1>1, <1>2, <1>4, <2>1 DEF Stored, TokenFits
<1>5. Started(t) \in Token /\ Len(Started(t)) <= TokenLen
  <2>1. <<>> \in Token /\ Len(<<>>) <= TokenLen
    BY <1>2 DEF Token
  <2> QED
    BY <1>1, <2>1, Zenon DEF Started
<1>6. Read \in Chars \union {Eof}
  BY <1>1, Capitalized DEF Read
<1>7. QuotedAfter(t) \in BOOLEAN /\ StillBlank(t) \in BOOLEAN
  BY <1>1 DEF QuotedAfter, Quoted, StillBlank
<1> QED
  BY <1>3, <1>4, <1>5, <1>6, <1>7, Zenon

\* What a call that returns adds to lines.
LEMMA ResultAdded ==
    ASSUME TypeOK, NEW tk \in Seq(Token), NEW blank \in BOOLEAN, lines' = Append(lines, Result(tk, blank))
    PROVE  /\ lines' \in Seq(Line) /\ Len(lines') = Len(lines) + 1 /\ Len(lines) \in Nat
           /\ DOMAIN lines = 1 .. Len(lines) /\ DOMAIN lines' = 1 .. Len(lines) + 1
           /\ \A i \in 1 .. Len(lines) : lines'[i] = lines[i]
           /\ lines'[Len(lines) + 1] = Result(tk, blank)
<1>1. Result(tk, blank) \in Line
  <2>1. begun \in Nat /\ pos \in Nat
    BY DEF TypeOK
  <2> QED
    BY <2>1 DEF Result, Line
<1>2. PICK L, r : L = Line /\ r = Result(tk, blank)
  OBVIOUS
<1>3. lines \in Seq(L) /\ r \in L /\ lines' = Append(lines, r)
  BY <1>1, <1>2 DEF TypeOK
<1> QED
  BY <1>2, <1>3

LEMMA TypeInit == Init => TypeOK
<1> SUFFICES ASSUME Init PROVE TypeOK
  OBVIOUS
<1>1. pos \in 0 .. Len(file) /\ begun \in 0 .. pos
  <2>1. file \in Seq(Chars) /\ pos = 0 /\ begun = 0
    BY FilesAssumption DEF Init
  <2> QED
    BY <2>1
<1>2. tokens \in Seq(Token) /\ Len(tokens) <= MaxTokens /\ word \in Token /\ Len(word) <= TokenLen
  BY SizeAssumption DEF Init, Token
<1>3. lines \in Seq(Line)
  BY DEF Init
<1>4. /\ type \in Types \union {"null"} /\ last \in (Types \union {"null"}) \ {"newline"}
      /\ inQuotes \in BOOLEAN /\ isBlank \in BOOLEAN /\ cur_char \in Chars \union {Eof}
      /\ pc \in {"call", "loop", "end"} /\ fault \in {"none", "tokens", "word"}
  BY DEF Init
<1> QED
  BY <1>1, <1>2, <1>3, <1>4, Zenon DEF TypeOK

LEMMA TypeStep ==
    ASSUME file \in Files, TypeOK, Next
    PROVE  TypeOK' /\ file' = file
<1>0. /\ pos \in 0 .. Len(file) /\ begun \in 0 .. pos
      /\ tokens \in Seq(Token) /\ Len(tokens) <= MaxTokens
      /\ word \in Token /\ Len(word) <= TokenLen
      /\ type \in Types \union {"null"} /\ last \in (Types \union {"null"}) \ {"newline"}
      /\ inQuotes \in BOOLEAN /\ isBlank \in BOOLEAN /\ cur_char \in Chars \union {Eof}
      /\ lines \in Seq(Line)
      /\ pc \in {"call", "loop", "end"} /\ fault \in {"none", "tokens", "word"}
      /\ Len(file) \in Nat
  BY FilesAssumption DEF TypeOK
<1>1. CASE Start
  <2>1. /\ cur_char' \in Chars \union {Eof} /\ pos' \in 0 .. Len(file) /\ pos' >= pos
    BY <1>1, GetType DEF Start
  <2>2. begun' \in 0 .. pos'
    BY <1>0, <1>1, <2>1 DEF Start
  <2>3. /\ tokens' \in Seq(Token) /\ Len(tokens') <= MaxTokens
        /\ word' \in Token /\ Len(word') <= TokenLen
    BY <1>1, SizeAssumption DEF Start, Fresh, Token
  <2> QED
    BY <1>0, <1>1, <2>1, <2>2, <2>3 DEF Start, Fresh, TypeOK
<1>2. CASE Take
  <2>1. /\ cur_char' \in Chars \union {Eof} /\ pos' \in 0 .. Len(file) /\ pos' >= pos
    BY <1>2, GetType DEF Take
  <2>2. begun' \in 0 .. pos'
    BY <1>0, <1>2, <2>1 DEF Take
  <2>3. PICK t \in Types \ {"newline"} : t = Type
    BY <1>2, TypeOfClass DEF Take
  <2>4. /\ Stored(t) \in Seq(Token) /\ Len(Stored(t)) <= MaxTokens
        /\ Started(t) \in Token /\ Read \in Chars \union {Eof}
        /\ QuotedAfter(t) \in BOOLEAN /\ StillBlank(t) \in BOOLEAN /\ Len(Started(t)) < TokenLen
    BY <1>2, <2>3, StoredType DEF Take, CharFits
  <2>5. Append(Started(t), Read) \in Token /\ Len(Append(Started(t), Read)) <= TokenLen
    BY <2>4, SizeAssumption DEF Token
  <2> QED
    BY <1>0, <1>2, <2>1, <2>2, <2>3, <2>4, <2>5 DEF Take, TypeOK
<1>3. CASE NewLine
  <2>1. PICK t \in Types : t = "newline"
    BY DEF Types
  <2>2. /\ Stored(t) \in Seq(Token) /\ Len(Stored(t)) <= MaxTokens
        /\ Started(t) \in Token /\ Len(Started(t)) <= TokenLen
        /\ QuotedAfter(t) \in BOOLEAN
    BY <1>3, <2>1, StoredType DEF NewLine
  <2>3. lines' \in Seq(Line)
    BY <1>0, <1>3, <2>1, <2>2, ResultAdded DEF NewLine
  <2> QED
    BY <1>0, <1>3, <2>1, <2>2, <2>3 DEF NewLine, TypeOK
<1>4. CASE StopReading
  <2>1. lines' \in Seq(Line)
    BY <1>0, <1>4, ResultAdded DEF StopReading
  <2> QED
    BY <1>0, <1>4, <2>1 DEF StopReading, local, TypeOK
<1>5. CASE EndOfFile \/ TokenOverflow \/ WordOverflow \/ Exited
  BY <1>0, <1>5 DEF EndOfFile, TokenOverflow, WordOverflow, Exited, local, vars, TypeOK
<1> QED
  BY <1>1, <1>2, <1>3, <1>4, <1>5 DEF Next

-----------------------------------------------------------------------------
(* Reading a line in which a string begins behind something that is not a  *)
(* space.  Storing the token before the quote switches the mode off, and   *)
(* from there on the code takes what is outside for what is inside, ...    *)
Behind(s, m) ==
    /\ inQuotes <=> ~Odd(s, m)
    /\ last = "quotes" /\ ClassAt(s, m) = "quotes" /\ Calm(s, m)
    /\ Splits(s)[m] = Append(tokens, word)

\* ... until the lengths of one token and of the run in its place differ, now
\* and however the line goes on.
Differ(s, m) ==
    \E k \in 1 .. m, L \in Nat, x \in Nat :
        /\ Calm(s, k)
        /\ \A e \in k .. Len(s) : Len(Splits(s)[e]) > L
        /\ \/ /\ \A e \in k .. Len(s) : Len(Splits(s)[e][L + 1]) = x
              /\ \/ Len(tokens) = L /\ Len(word) > x /\ last \notin {"space", "null", "etc"}
                 \/ Len(tokens) > L /\ Len(tokens[L + 1]) > x
           \/ /\ \A e \in k .. Len(s) : Len(Splits(s)[e][L + 1]) > x
              /\ Len(tokens) > L /\ Len(tokens[L + 1]) = x

Reading(s, m) ==
    /\ m \in 0 .. Len(s) /\ Reached(s, m) /\ NoNul(s, m)
    /\ last = type /\ type # "etc" /\ (m > 0 => last # "null") /\ (inQuotes => last = "quotes")
    /\ IF ApartTo(s, m) THEN Tracks(s, m) /\ Calm(s, m) ELSE Behind(s, m) \/ Differ(s, m)

\* A string that is not closed swallows the end of the file.
Swallows(s) ==
    /\ cur_char = Eof /\ inQuotes /\ type = "quotes" /\ last = "quotes"
    /\ pos = begun + Len(s) /\ (ApartTo(s, Len(s)) => Odd(s, Len(s)))

\* What LinesAreLines asks of the first n characters.
PlainTo(s, n) ==
    /\ ApartTo(s, n) /\ ~Odd(s, n)
    /\ \A i \in 1 .. n : /\ ClassOf(s[i]) # "etc" \/ s[i] = "\""
                         /\ s[i] = "nl" => ClassAt(s, i) = "newline"

\* What is said of a line of n characters that was returned.
LineOK(s, n, code, tk) ==
    NoNul(s, n) =>
        \A e \in 0 .. n : Stops(s, n, e) =>
            /\ ApartTo(s, n) => tk = Splits(s)[e]
            /\ tk = Splits(s)[e] /\ ~Odd(s, n) => ApartTo(s, n)
            /\ PlainTo(s, n) => /\ s[n] = "nl" \/ n = Len(s)
                                /\ \A i \in 1 .. n - 1 : s[i] # "nl"
                                /\ code = "blank" <=> s[n] = "nl" /\ Splits(s)[e] = <<>>

\* A character in no class has been taken.
Stopped(s) ==
    /\ type = "etc" /\ isBlank = FALSE
    /\ LineOK(s, pos - begun, "success", tokens)

InLine(s) ==
    /\ begun < pos /\ pos <= begun + Len(s)
    /\ (\E m \in Nat : Reading(s, m)) \/ Swallows(s) \/ Stopped(s)

FaultOK(s, n) ==
    /\ fault = "word" /\ ApartTo(s, n) /\ NoNul(s, n) /\ ~Odd(s, n) => LongTo(s, n)
    /\ fault = "tokens" /\ ApartTo(s, n) /\ NoNul(s, n) => Len(Splits(s)[n]) > MaxTokens

\* Lines follow each other.
From(i) == IF i = 1 THEN 0 ELSE lines[i - 1].to
LinesOK ==
    \A i \in 1 .. Len(lines) :
        /\ lines[i].from = From(i)
        /\ lines[i].to \in lines[i].from + 1 .. Len(file)
        /\ LineOK(RestFrom(lines[i].from), lines[i].to - lines[i].from, lines[i].code, lines[i].tokens)

IInv ==
    /\ TypeOK /\ file \in Files /\ LinesOK
    /\ pc = "call" => pos = From(Len(lines) + 1)
    /\ pc = "loop" => begun = From(Len(lines) + 1) /\ InLine(RestFrom(begun))
    /\ fault = "none" \/ (pc = "end" /\ begun < pos /\ FaultOK(RestFrom(begun), pos - begun))

-----------------------------------------------------------------------------
(* The text behind b, and where the reading is in it.                      *)

LEMMA RestFacts ==
    ASSUME file \in Files, NEW b \in 0 .. Len(file)
    PROVE  /\ RestFrom(b) \in Seq(Chars) /\ Len(RestFrom(b)) = Len(file) - b
           /\ \A i \in 1 .. Len(file) - b : RestFrom(b)[i] = file[b + i]
           /\ Len(file) \in Nat
  BY FilesAssumption DEF RestFrom

LEMMA ReachedNext ==
    ASSUME file \in Files, TypeOK, NEW s, s = RestFrom(begun), NEW m \in Nat, Reached(s, m),
           Get, file' = file, begun' = begun
    PROVE  /\ m < Len(s) => Reached(s, m + 1)'
           /\ m = Len(s) => Reached(s, m)'
           /\ m <= Len(s) /\ Len(s) \in Nat
<1>1. begun \in 0 .. Len(file) /\ begun \in Nat /\ Len(file) \in Nat
  BY FilesAssumption DEF TypeOK
<1>2. /\ s \in Seq(Chars) /\ Len(s) = Len(file) - begun
      /\ \A i \in 1 .. Len(file) - begun : s[i] = file[begun + i]
  BY <1>1, RestFacts
<1>3. /\ cur_char' = IF pos + 1 <= Len(file) THEN file[pos + 1] ELSE Eof
      /\ pos' = IF pos < Len(file) THEN pos + 1 ELSE pos
  BY DEF Get, Char
<1>4. m \in 0 .. Len(s) /\ (m < Len(s) => pos = begun + m + 1) /\ (m = Len(s) => pos = begun + m)
  BY <1>1, <1>2 DEF Reached
<1>5. CASE m + 1 < Len(s)
  <2>1. pos = begun + m + 1 /\ pos + 1 <= Len(file) /\ pos < Len(file) /\ m + 2 \in 1 .. Len(file) - begun
        /\ begun + (m + 2) = pos + 1 /\ (m + 1) + 1 = m + 2 /\ pos + 1 = begun + (m + 1) + 1
    BY <1>1, <1>2, <1>4, <1>5
  <2>2. s[m + 2] = file[pos + 1]
    BY <1>2, <2>1, Zenon
  <2>3. cur_char' = s[(m + 1) + 1] /\ pos' = begun' + (m + 1) + 1
    BY <1>3, <2>1, <2>2
  <2>4. m < Len(s) /\ m # Len(s) /\ m + 1 < Len(s)
    BY <1>2, <1>5
  <2>5. Reached(s, m + 1)'
    BY <2>3, <2>4, Zenon DEF Reached
  <2> QED
    BY <1>2, <1>4, <2>4, <2>5
<1>6. CASE m + 1 = Len(s)
  <2>1. pos = begun + m + 1 /\ ~(pos + 1 <= Len(file)) /\ ~(pos < Len(file)) /\ m < Len(s) /\ m # Len(s)
    BY <1>1, <1>2, <1>4, <1>6
  <2>2. cur_char' = Eof /\ pos' = begun' + (m + 1)
    BY <1>1, <1>3, <2>1
  <2>3. Reached(s, m + 1)'
    BY <1>6, <2>2 DEF Reached
  <2> QED
    BY <1>2, <1>4, <2>1, <2>3
<1>7. CASE m = Len(s)
  <2>1. pos = begun + m /\ ~(pos + 1 <= Len(file)) /\ ~(pos < Len(file)) /\ ~(m < Len(s))
    BY <1>1, <1>2, <1>4, <1>7
  <2>2. cur_char' = Eof /\ pos' = begun' + m
    BY <1>3, <2>1
  <2> QED
    BY <1>2, <1>4, <1>7, <2>1, <2>2 DEF Reached
<1> QED
  BY <1>2, <1>4, <1>5, <1>6, <1>7

\* How many characters of the text have been read, and whether the last of
\* them has been taken.
LEMMA ReachedWhere ==
    ASSUME file \in Files, TypeOK, NEW s, s = RestFrom(begun), NEW m \in Nat, Reached(s, m)
    PROVE  \/ m < Len(s) /\ cur_char = s[m + 1] /\ cur_char \in Chars /\ cur_char # Eof /\ pos - begun = m + 1
           \/ m = Len(s) /\ cur_char = Eof /\ pos - begun = m /\ pos = Len(file)
<1>1. begun \in 0 .. Len(file) /\ begun \in Nat /\ Len(file) \in Nat
  BY FilesAssumption DEF TypeOK
<1>2. s \in Seq(Chars) /\ Len(s) = Len(file) - begun
  BY <1>1, RestFacts
<1>3. CASE m < Len(s) /\ cur_char = s[m + 1] /\ pos = begun + m + 1
  <2>1. m + 1 \in 1 .. Len(s) /\ pos - begun = m + 1
    BY <1>1, <1>2, <1>3
  <2>2. s[m + 1] \in Chars
    BY <1>2, <2>1
  <2> QED
    BY <1>3, <2>1, <2>2, Capitalized, Zenon
<1>4. CASE m = Len(s) /\ cur_char = Eof /\ pos = begun + m
  BY <1>1, <1>2, <1>4
<1> QED
  BY <1>3, <1>4 DEF Reached

-----------------------------------------------------------------------------
(* The steps of a reading gone astray.                                     *)

LEMMA ApartNext ==
    ASSUME NEW s, NEW m \in Nat
    PROVE  /\ ApartTo(s, 0)
           /\ ApartTo(s, m + 1) <=> /\ ApartTo(s, m)
                                    /\ m > 0 /\ s[m + 1] = "\"" /\ Odd(s, m + 1) => s[m] \in {" ", "\""}
           /\ ~ApartTo(s, m) => m > 0
           /\ Calm(s, 0) /\ (Calm(s, m + 1) <=> Calm(s, m) /\ ClassAt(s, m + 1) \notin {"etc", "newline"})
           /\ NoNul(s, 0) /\ (NoNul(s, m + 1) <=> NoNul(s, m) /\ s[m + 1] # "nul")
<1>1. \A i \in 1 .. m + 1 : i \in 1 .. m \/ i = m + 1
  OBVIOUS
<1>2. \A i \in 2 .. m + 1 : i \in 2 .. m \/ (i = m + 1 /\ m > 0 /\ i - 1 = m)
  OBVIOUS
<1>3. \A i \in 1 .. m : i \in 1 .. m + 1
  OBVIOUS
<1>4. \A i \in 2 .. m : i \in 2 .. m + 1
  OBVIOUS
<1>5. m + 1 \in 1 .. m + 1 /\ (m > 0 => m + 1 \in 2 .. m + 1 /\ (m + 1) - 1 = m)
  OBVIOUS
<1>6. ApartTo(s, m + 1) <=> /\ ApartTo(s, m)
                            /\ m > 0 /\ s[m + 1] = "\"" /\ Odd(s, m + 1) => s[m] \in {" ", "\""}
  BY <1>2, <1>4, <1>5, Zenon DEF ApartTo
<1>7. Calm(s, m + 1) <=> Calm(s, m) /\ ClassAt(s, m + 1) \notin {"etc", "newline"}
  BY <1>1, <1>3, <1>5, Zenon DEF Calm
<1>8. NoNul(s, m + 1) <=> NoNul(s, m) /\ s[m + 1] # "nul"
  BY <1>1, <1>3, <1>5, Zenon DEF NoNul
<1>9. ApartTo(s, 0) /\ Calm(s, 0) /\ NoNul(s, 0) /\ (~ApartTo(s, m) => m > 0)
  <2>1. 1 .. 0 = {} /\ 2 .. 0 = {} /\ (~(m > 0) => m = 0)
    OBVIOUS
  <2> QED
    BY <2>1, Zenon DEF ApartTo, Calm, NoNul
<1> QED
  BY <1>6, <1>7, <1>8, <1>9, Zenon

\* The first string that begins where it may not.
LEMMA BehindEnters ==
    ASSUME TypeOK, NEW s \in Seq(Chars), NEW m \in Nat, m < Len(s), cur_char = s[m + 1],
           Tracks(s, m), Calm(s, m), ApartTo(s, m), ~ApartTo(s, m + 1), Take
    PROVE  Behind(s, m + 1)'
<1>1. m > 0 /\ s[m + 1] = "\"" /\ Odd(s, m + 1) /\ s[m] \notin {" ", "\""}
  BY ApartNext, Zenon
<1>2. ~Odd(s, m) /\ ClassAt(s, m + 1) = "quotes"
  BY <1>1, OddStep
<1>3. /\ last = ClassAt(s, m) /\ last # "null"
      /\ Splits(s)[m] = IF last = "space" THEN tokens ELSE Append(tokens, word)
  BY <1>1, ClassType DEF Tracks
<1>4. last # "space" /\ last # "quotes"
  <2>1. ClassAt(s, m) = ClassOf(s[m])
    BY <1>1, <1>2 DEF ClassAt
  <2> QED
    BY <1>1, <1>3, <2>1, Classes
<1>5. Type = "quotes" /\ Read = Shown(s, m + 1)
  <2>1. inQuotes <=> Odd(s, m)
    BY DEF Tracks
  <2> QED
    BY <1>2, <2>1, NextRead
<1>6. WordEnds("quotes") /\ Stores("quotes")
  BY <1>3, <1>4 DEF WordEnds, Stores
<1>7. tokens' = Append(tokens, word) /\ word' = Append(<<>>, Shown(s, m + 1)) /\ inQuotes' = FALSE /\ last' = "quotes"
  BY <1>5, <1>6, Zenon DEF Take, Stored, Started, QuotedAfter
<1>8. m + 1 \in Nat /\ m + 1 # 1 /\ (m + 1) - 1 = m
  <2>1. m > 0
    BY <1>1, Zenon
  <2> QED
    BY <2>1
<1>9. RunAt(s, m + 1)
  BY <1>2, <1>3, <1>4, <1>8, Zenon DEF RunAt
<1>10. Splits(s)[m + 1] = Append(Splits(s)[m], <<Shown(s, m + 1)>>)
  <2>1. Splits(s)[m + 1] = Grown(s, m + 1, Splits(s)[m])
    BY SplitsStep, Zenon
  <2>2. Before(s, m + 1, Splits(s)[m]) = Splits(s)[m]
    BY <1>8, Zenon DEF Before
  <2>3. ClassAt(s, m + 1) # "space"
    BY <1>2
  <2> QED
    BY <1>9, <2>1, <2>2, <2>3, Zenon DEF Grown
<1>11. <<Shown(s, m + 1)>> = Append(<<>>, Shown(s, m + 1))
  OBVIOUS
<1>12. Splits(s)[m + 1] = Append(tokens', word')
  BY <1>3, <1>4, <1>7, <1>10, <1>11, Zenon
<1>13. Calm(s, m + 1)
  BY <1>2, ApartNext
<1> QED
  BY <1>1, <1>2, <1>7, <1>12, <1>13, Zenon DEF Behind

LEMMA TokenSeq ==
    ASSUME TypeOK
    PROVE  /\ tokens \in Seq(Seq(Chars \union {Eof})) /\ word \in Seq(Chars \union {Eof})
           /\ Len(tokens) \in Nat /\ Len(word) \in Nat
           /\ Append(tokens, word) \in Seq(Seq(Chars \union {Eof}))
           /\ Len(Append(tokens, word)) = Len(tokens) + 1
           /\ Append(tokens, word)[Len(tokens) + 1] = word
           /\ \A j \in 1 .. Len(tokens) : Append(tokens, word)[j] = tokens[j] /\ Len(tokens[j]) \in Nat
<1>1. tokens \in Seq(Seq(Chars \union {Eof})) /\ word \in Seq(Chars \union {Eof})
  BY DEF TypeOK, Token
<1>2. PICK T : T = Chars \union {Eof}
  OBVIOUS
<1>3. PICK S : S = Seq(T)
  OBVIOUS
<1>4. tokens \in Seq(S) /\ word \in S
  BY <1>1, <1>2, <1>3
<1>5. /\ Len(tokens) \in Nat /\ Append(tokens, word) \in Seq(S)
      /\ Len(Append(tokens, word)) = Len(tokens) + 1
      /\ Append(tokens, word)[Len(tokens) + 1] = word
      /\ \A j \in 1 .. Len(tokens) : Append(tokens, word)[j] = tokens[j] /\ tokens[j] \in S
  BY <1>4
<1>6. \A x \in S : Len(x) \in Nat
  BY <1>3
<1> QED
  BY <1>1, <1>2, <1>3, <1>4, <1>5, <1>6, Zenon

\* Behind, at a character outside of what the code takes for the string.
LEMMA BehindEnds ==
    ASSUME TypeOK, NEW s \in Seq(Chars), NEW m \in Nat, m < Len(s), m > 0, cur_char = s[m + 1],
           Behind(s, m), Type # "quotes"
    PROVE  /\ Calm(s, m + 1)
           /\ \A e \in m + 1 .. Len(s) : /\ Len(Splits(s)[e]) > Len(tokens)
                                         /\ Len(Splits(s)[e][Len(tokens) + 1]) > Len(word)
<1>0. Len(s) \in Nat
  OBVIOUS
<1>1. Odd(s, m) /\ ClassAt(s, m + 1) = "quotes" /\ ClassAt(s, m) = "quotes" /\ Calm(s, m)
      /\ Splits(s)[m] = Append(tokens, word)
  BY OddStep DEF Behind, Type
<1>2. Calm(s, m + 1)
  BY <1>1, ApartNext
<1>3. PICK L \in Nat, x \in Nat : L = Len(tokens) /\ x = Len(word)
  BY TokenSeq
<1>4. m + 1 \in Nat /\ m + 1 # 1 /\ (m + 1) - 1 = m /\ m + 1 > 0 /\ m + 1 <= Len(s)
  BY <1>0
<1>5. ~RunAt(s, m + 1)
  <2>1. ClassAt(s, m + 1) = ClassAt(s, (m + 1) - 1)
    BY <1>1, <1>4, Zenon
  <2>2. ClassAt(s, m + 1) # "parenthesis"
    BY <1>1
  <2> QED
    BY <1>4, <2>1, <2>2, Zenon DEF RunAt
<1>6. Splits(s)[m + 1] = Longer(Append(tokens, word), Shown(s, m + 1))
  <2>1. Splits(s)[m + 1] = Grown(s, m + 1, Splits(s)[m])
    BY SplitsStep, Zenon
  <2>2. ClassAt(s, m + 1) # "space"
    BY <1>1
  <2> QED
    BY <1>1, <1>5, <2>1, <2>2, Zenon DEF Grown
<1>7. PICK c \in Chars \union {Eof} : c = Shown(s, m + 1)
  <2>1. s[m + 1] \in Chars
    OBVIOUS
  <2> QED
    BY <2>1, Capitalized DEF Shown
<1>8. Splits(s)[m + 1] = Append(tokens, Append(word, c))
  <2>1. tokens \in Seq(Seq(Chars \union {Eof})) /\ word \in Seq(Chars \union {Eof})
        /\ c \in Chars \union {Eof}
    BY <1>7, TokenSeq
  <2>2. Longer(Append(tokens, word), c) = Append(tokens, Append(word, c))
    BY <2>1, LongerLast
  <2> QED
    BY <1>6, <1>7, <2>2, Zenon
<1>9. Len(Splits(s)[m + 1]) = L + 1 /\ Len(Splits(s)[m + 1][L + 1]) = x + 1
  <2>1. PICK T : T = Chars \union {Eof}
    OBVIOUS
  <2>2. PICK S : S = Seq(T)
    OBVIOUS
  <2>3. tokens \in Seq(S) /\ word \in Seq(T) /\ c \in T
    BY <1>7, <2>1, <2>2, TokenSeq, Zenon
  <2>4. PICK w : w = Append(word, c)
    OBVIOUS
  <2>5. w \in Seq(T) /\ Len(w) = Len(word) + 1
    BY <2>3, <2>4, AppendProperties
  <2>6. w \in S
    BY <2>2, <2>5, Zenon
  <2>7. Len(Append(tokens, w)) = Len(tokens) + 1 /\ Append(tokens, w)[Len(tokens) + 1] = w
    BY <2>3, <2>6
  <2> QED
    BY <1>3, <1>8, <2>4, <2>5, <2>7, Zenon
<1>10. Len(Splits(s)[m + 1]) > L
  <2>1. L + 1 > L
    OBVIOUS
  <2> QED
    BY <1>9, <2>1, Zenon
<1>11. \A e \in m + 1 .. Len(s) :
          /\ Len(Splits(s)[e]) > L
          /\ Len(Splits(s)[e][L + 1]) >= Len(Splits(s)[m + 1][L + 1])
  BY <1>4, <1>10, LaterRuns, Zenon
<1>12. ASSUME NEW e \in m + 1 .. Len(s)
       PROVE  Len(Splits(s)[e][L + 1]) > x
  <2>1. Splits(s)[e] \in Seq(Seq(Chars))
    <3>1. e \in Nat /\ e <= Len(s)
      BY <1>0
    <3> QED
      BY <3>1, SplitsType, Zenon
  <2>2. Len(Splits(s)[e]) > L
    BY <1>11
  <2>3. Len(Splits(s)[e][L + 1]) \in Nat
    <3>1. PICK r \in Seq(Seq(Chars)) : r = Splits(s)[e]
      BY <2>1
    <3>2. Len(r) > L
      BY <2>2, <3>1, Zenon
    <3>3. L + 1 \in 1 .. Len(r)
      BY <3>2
    <3>4. \A q \in Seq(Chars) : Len(q) \in Nat
      OBVIOUS
    <3>5. r[L + 1] \in Seq(Chars)
      BY <3>3
    <3> QED
      BY <3>1, <3>4, <3>5, Zenon
  <2>4. Len(Splits(s)[e][L + 1]) >= x + 1
    BY <1>9, <1>11, Zenon
  <2>5. \A y \in Nat : y >= x + 1 => y > x
    OBVIOUS
  <2> QED
    BY <2>3, <2>4, <2>5, Zenon
<1> QED
  BY <1>2, <1>3, <1>11, <1>12, Zenon

\* Behind, at a character that the code takes for one inside of the string.
Inside == Type = "quotes" /\ cur_char # "\""
LEMMA BehindGoesOn ==
    ASSUME TypeOK, NEW s \in Seq(Chars), NEW m \in Nat, m < Len(s), m > 0, cur_char = s[m + 1],
           Behind(s, m), Inside
    PROVE  \A e \in m .. Len(s) : /\ Len(Splits(s)[e]) > Len(tokens)
                                  /\ Splits(s)[e][Len(tokens) + 1] = word
<1>1. /\ ~Odd(s, m) /\ ClassAt(s, m + 1) # "quotes" /\ ClassAt(s, m) = "quotes"
      /\ Splits(s)[m] = Append(tokens, word)
  <2>1. ClassAt(s, m + 1) = ClassOf(s[m + 1]) /\ ~Odd(s, m)
    BY OddStep, Classes DEF Behind, Type, Inside
  <2>2. ClassOf(s[m + 1]) # "quotes"
    BY Classes
  <2> QED
    BY <2>1, <2>2, Zenon DEF Behind
<1>2. PICK L \in Nat : L = Len(tokens)
  BY TokenSeq
<1>3. PICK a : a = Splits(s)[m]
  OBVIOUS
<1>4. Len(a) = L + 1 /\ a[L + 1] = word
  BY <1>1, <1>2, <1>3, TokenSeq, Zenon
<1>5. /\ m + 1 \in Nat /\ m + 1 > 1 /\ (m + 1) - 1 = m /\ m + 1 > 0 /\ m + 1 <= Len(s) /\ m <= Len(s)
      /\ Len(s) \in Nat
  <2>1. Len(s) \in Nat
    OBVIOUS
  <2> QED
    BY <2>1
<1>6. a \in Seq(Seq(Chars)) /\ Splits(s)[m + 1] = Grown(s, m + 1, a)
  BY <1>3, <1>5, SplitsType, SplitsStep, Zenon
<1>7. /\ Len(Splits(s)[m + 1]) > L /\ Splits(s)[m + 1][L + 1] = word
      /\ Len(Splits(s)[m + 1]) > L + 1 \/ ClassAt(s, m + 1) = "space"
  <2>1. L + 1 > L /\ L + 2 > L /\ L + 2 > L + 1 /\ (L + 1) + 1 = L + 2
    OBVIOUS
  <2>2. CASE ClassAt(s, m + 1) = "space"
    BY <1>4, <1>6, <2>1, <2>2, Zenon DEF Grown
  <2>3. CASE ClassAt(s, m + 1) # "space"
    <3>1. RunAt(s, m + 1)
      BY <1>1, <1>5, Zenon DEF RunAt
    <3>2. Grown(s, m + 1, a) = Append(a, <<Shown(s, m + 1)>>) /\ Len(Grown(s, m + 1, a)) = Len(a) + 1
      BY <1>5, <1>6, <2>3, <3>1, NewRun, Zenon
    <3>3. PICK r \in Seq(Chars) : r = <<Shown(s, m + 1)>>
      <4>1. s[m + 1] \in Chars
        BY <1>5
      <4>2. PICK c \in Chars : c = Shown(s, m + 1)
        BY <4>1, Capitalized DEF Shown
      <4>3. <<c>> \in Seq(Chars)
        OBVIOUS
      <4> QED
        BY <4>2, <4>3, Zenon
    <3>4. Append(a, r)[L + 1] = a[L + 1]
      <4>1. PICK S : S = Seq(Chars)
        OBVIOUS
      <4>2. a \in Seq(S) /\ r \in S /\ Len(a) = L + 1
        BY <1>4, <1>6, <4>1
      <4>3. L + 1 \in 1 .. L + 1
        OBVIOUS
      <4> QED
        BY <4>2, <4>3, AppendProperties
    <3> QED
      BY <1>4, <1>6, <2>1, <3>2, <3>3, <3>4, Zenon
  <2> QED
    BY <2>2, <2>3
<1>8. \A e \in m + 1 .. Len(s) : Len(Splits(s)[e]) > L /\ Splits(s)[e][L + 1] = word
  BY <1>5, <1>7, LaterRuns, Zenon
<1>9. Len(Splits(s)[m]) > L
  <2>1. L + 1 > L
    OBVIOUS
  <2> QED
    BY <1>2, <1>4, <1>3, <2>1, Zenon
<1>10. \A e \in m .. Len(s) : e = m \/ e \in m + 1 .. Len(s)
  BY <1>5
<1>11. ASSUME NEW e \in m .. Len(s)
       PROVE  Len(Splits(s)[e]) > L /\ Splits(s)[e][L + 1] = word
  BY <1>2, <1>4, <1>3, <1>8, <1>9, <1>10, Zenon
<1> QED
  BY <1>2, <1>11, Zenon

LEMMA BehindStep ==
    ASSUME TypeOK, NEW s \in Seq(Chars), NEW m \in Nat, m < Len(s), m > 0, cur_char = s[m + 1],
           Behind(s, m), Take
    PROVE  (Behind(s, m + 1) \/ Differ(s, m + 1))'
<1>0. Len(s) \in Nat /\ m + 1 \in Nat /\ m + 1 # 1 /\ (m + 1) - 1 = m
  <2>1. Len(s) \in Nat
    OBVIOUS
  <2> QED
    BY <2>1
<1>1. /\ last = "quotes" /\ ClassAt(s, m) = "quotes" /\ Calm(s, m)
      /\ Splits(s)[m] = Append(tokens, word) /\ (inQuotes <=> ~Odd(s, m))
  BY DEF Behind
<1>2. PICK t \in Types : t = Type
  BY TypeOfClass
<1>3. /\ tokens' = Stored(t) /\ word' = Append(Started(t), Read) /\ last' = t /\ inQuotes' = QuotedAfter(t)
  BY <1>2 DEF Take
<1>4. CASE cur_char = "\""
  <2>1. t = "quotes" /\ ~WordEnds(t) /\ ~Stores(t)
    BY <1>1, <1>2, <1>4 DEF Type, WordEnds, Stores
  <2>2. tokens' = tokens /\ word' = Append(word, cur_char) /\ (inQuotes' <=> ~inQuotes) /\ last' = "quotes"
    <3>1. Read = cur_char
      BY <1>4, Capitalized DEF Read
    <3> QED
      BY <1>3, <1>4, <2>1, <3>1, Zenon DEF Stored, Started, QuotedAfter, Quoted
  <2>3. ClassAt(s, m + 1) = "quotes" /\ (Odd(s, m + 1) <=> ~Odd(s, m)) /\ Shown(s, m + 1) = cur_char
    BY <1>4, OddStep DEF Shown
  <2>4. Calm(s, m + 1)
    BY <1>1, <2>3, ApartNext
  <2>5. Splits(s)[m + 1] = Longer(Append(tokens, word), cur_char)
    <3>1. Splits(s)[m + 1] = Grown(s, m + 1, Splits(s)[m])
      BY SplitsStep, Zenon
    <3>2. ~RunAt(s, m + 1)
      <4>1. ClassAt(s, m + 1) = ClassAt(s, (m + 1) - 1)
        BY <1>0, <1>1, <2>3, Zenon
      <4>2. ClassAt(s, m + 1) # "parenthesis" /\ ClassAt(s, m + 1) # "space"
        BY <2>3
      <4> QED
        BY <1>0, <4>1, <4>2, Zenon DEF RunAt
    <3>3. ClassAt(s, m + 1) # "space"
      BY <2>3
    <3> QED
      BY <1>1, <2>3, <3>1, <3>2, <3>3, Zenon DEF Grown
  <2>6. Splits(s)[m + 1] = Append(tokens', word')
    <3>1. tokens \in Seq(Seq(Chars \union {Eof})) /\ word \in Seq(Chars \union {Eof})
          /\ cur_char \in Chars \union {Eof}
      BY TokenSeq DEF TypeOK
    <3>2. Longer(Append(tokens, word), cur_char) = Append(tokens, Append(word, cur_char))
      BY <3>1, LongerLast
    <3> QED
      BY <2>2, <2>5, <3>2, Zenon
  <2> QED
    BY <1>1, <2>2, <2>3, <2>4, <2>6, Zenon DEF Behind
<1>5. CASE cur_char # "\"" /\ t = "quotes"
  <2>1. \A e \in m .. Len(s) : /\ Len(Splits(s)[e]) > Len(tokens)
                               /\ Splits(s)[e][Len(tokens) + 1] = word
    BY <1>2, <1>5, BehindGoesOn DEF Inside
  <2>2. ~WordEnds(t) /\ ~Stores(t)
    BY <1>1, <1>5 DEF WordEnds, Stores
  <2>3. tokens' = tokens /\ word' = Append(word, Read) /\ last' = "quotes"
    BY <1>3, <1>5, <2>2, Zenon DEF Stored, Started
  <2>4. Len(tokens) \in Nat /\ Len(word) \in Nat /\ Len(word') > Len(word) /\ Len(tokens') = Len(tokens)
    <3>1. Read \in Chars \union {Eof} /\ word \in Seq(Chars \union {Eof})
      BY TokenSeq, StoredType
    <3>2. Len(Append(word, Read)) = Len(word) + 1 /\ Len(word) \in Nat
      BY <3>1, AppendProperties
    <3>3. \A x \in Nat : x + 1 > x
      OBVIOUS
    <3> QED
      BY <2>3, <3>2, <3>3, TokenSeq, Zenon
  <2>5. m \in 1 .. m + 1 /\ last' \notin {"space", "null", "etc"}
    BY <2>3
  <2> QED
    BY <1>1, <2>1, <2>4, <2>5, Zenon DEF Differ
<1>6. CASE t # "quotes"
  <2>1. /\ Calm(s, m + 1)
        /\ \A e \in m + 1 .. Len(s) : /\ Len(Splits(s)[e]) > Len(tokens)
                                      /\ Len(Splits(s)[e][Len(tokens) + 1]) > Len(word)
    BY <1>2, <1>6, BehindEnds
  <2>2. WordEnds(t) /\ Stores(t)
    BY <1>1, <1>6 DEF WordEnds, Stores
  <2>3. tokens' = Append(tokens, word)
    BY <1>3, <2>2, Zenon DEF Stored
  <2>4. Len(tokens) \in Nat /\ Len(word) \in Nat /\ Len(tokens') > Len(tokens)
        /\ Len(tokens'[Len(tokens) + 1]) = Len(word)
    <3>1. \A x \in Nat : x + 1 > x
      OBVIOUS
    <3> QED
      BY <2>3, <3>1, TokenSeq, Zenon
  <2>5. m + 1 \in 1 .. m + 1
    OBVIOUS
  <2> QED
    BY <2>1, <2>4, <2>5, Zenon DEF Differ
<1> QED
  BY <1>4, <1>5, <1>6

LEMMA TokensKept ==
    ASSUME TypeOK, NEW t, NEW L \in Nat
    PROVE  /\ Len(tokens) > L => Len(Stored(t)) > L /\ Stored(t)[L + 1] = tokens[L + 1]
           /\ Len(tokens) = L /\ Stores(t) => Len(Stored(t)) > L /\ Stored(t)[L + 1] = word
<1>1. PICK n \in Nat : n = Len(tokens)
  BY TokenSeq
<1>2. n > L => L + 1 \in 1 .. n /\ n + 1 > L
  OBVIOUS
<1>3. n + 1 > n
  OBVIOUS
<1>4. ASSUME Len(tokens) > L
      PROVE  Len(Stored(t)) > L /\ Stored(t)[L + 1] = tokens[L + 1]
  BY <1>1, <1>2, <1>4, TokenSeq, Zenon DEF Stored
<1>5. ASSUME Len(tokens) = L, Stores(t)
      PROVE  Len(Stored(t)) > L /\ Stored(t)[L + 1] = word
  BY <1>1, <1>3, <1>5, TokenSeq, Zenon DEF Stored
<1> QED
  BY <1>4, <1>5

LEMMA DifferStep ==
    ASSUME TypeOK, NEW s, NEW m \in Nat, Differ(s, m), Take
    PROVE  Differ(s, m + 1)'
<1>1. PICK k \in 1 .. m, L \in Nat, x \in Nat :
        /\ Calm(s, k)
        /\ \A e \in k .. Len(s) : Len(Splits(s)[e]) > L
        /\ \/ /\ \A e \in k .. Len(s) : Len(Splits(s)[e][L + 1]) = x
              /\ \/ Len(tokens) = L /\ Len(word) > x /\ last \notin {"space", "null", "etc"}
                 \/ Len(tokens) > L /\ Len(tokens[L + 1]) > x
           \/ /\ \A e \in k .. Len(s) : Len(Splits(s)[e][L + 1]) > x
              /\ Len(tokens) > L /\ Len(tokens[L + 1]) = x
  BY Zenon DEF Differ
<1>2. k \in 1 .. m + 1
  OBVIOUS
<1>3. PICK t \in Types : t = Type
  BY TypeOfClass
<1>4. tokens' = Stored(t) /\ word' = Append(Started(t), Read) /\ last' = t
  BY <1>3 DEF Take
<1>5. CASE Len(tokens) > L
  <2>1. Len(tokens') > L /\ tokens'[L + 1] = tokens[L + 1]
    BY <1>4, <1>5, TokensKept, Zenon
  <2>2. ~(Len(tokens) = L)
    BY <1>5, TokenSeq
  <2> QED
    BY <1>1, <1>2, <1>5, <2>1, <2>2, Zenon DEF Differ
<1>6. CASE /\ \A e \in k .. Len(s) : Len(Splits(s)[e][L + 1]) = x
           /\ Len(tokens) = L /\ Len(word) > x /\ last \notin {"space", "null", "etc"}
  <2>1. CASE WordEnds(t)
    <3>1. Stores(t)
      BY <1>6, <2>1 DEF Stores
    <3>2. Len(tokens') > L /\ tokens'[L + 1] = word
      BY <1>4, <1>6, <3>1, TokensKept, Zenon
    <3>3. Len(tokens'[L + 1]) > x
      BY <1>6, <3>2, Zenon
    <3> QED
      BY <1>1, <1>2, <1>6, <3>2, <3>3, Zenon DEF Differ
  <2>2. CASE ~WordEnds(t)
    <3>1. last' = last /\ ~Stores(t)
      BY <1>4, <1>6, <2>2 DEF WordEnds, Stores
    <3>2. tokens' = tokens /\ word' = Append(word, Read)
      BY <1>4, <2>2, <3>1, Zenon DEF Stored, Started
    <3>3. Len(word') > x
      <4>1. Read \in Chars \union {Eof} /\ word \in Seq(Chars \union {Eof})
        BY TokenSeq, StoredType
      <4>2. Len(Append(word, Read)) = Len(word) + 1 /\ Len(word) \in Nat
        BY <4>1, AppendProperties
      <4>3. Len(word) > x
        BY <1>6
      <4>4. \A y \in Nat : y > x => y + 1 > x
        OBVIOUS
      <4> QED
        BY <3>2, <4>2, <4>3, <4>4, Zenon
    <3>4. Len(tokens') = L /\ last' \notin {"space", "null", "etc"}
      BY <1>6, <3>1, <3>2, Zenon
    <3> QED
      BY <1>1, <1>2, <1>6, <3>3, <3>4, Zenon DEF Differ
  <2> QED
    BY <2>1, <2>2
<1> QED
  BY <1>1, <1>5, <1>6, Zenon

\* The tokens are not those of any prefix with the first k characters.
Unlike(s, m, tk) == \E k \in 1 .. m : Calm(s, k) /\ \A e \in k .. Len(s) : tk # Splits(s)[e]

LEMMA DifferEnds ==
    ASSUME TypeOK, NEW s, NEW m \in Nat, Differ(s, m), NEW t, WordEnds(t)
    PROVE  Unlike(s, m, Stored(t))
<1>1. PICK k \in 1 .. m, L \in Nat, x \in Nat :
        /\ Calm(s, k)
        /\ \A e \in k .. Len(s) : Len(Splits(s)[e]) > L
        /\ \/ /\ \A e \in k .. Len(s) : Len(Splits(s)[e][L + 1]) = x
              /\ \/ Len(tokens) = L /\ Len(word) > x /\ last \notin {"space", "null", "etc"}
                 \/ Len(tokens) > L /\ Len(tokens[L + 1]) > x
           \/ /\ \A e \in k .. Len(s) : Len(Splits(s)[e][L + 1]) > x
              /\ Len(tokens) > L /\ Len(tokens[L + 1]) = x
  BY Zenon DEF Differ
<1>2. ~(x > x)
  OBVIOUS
<1>3. PICK z : z = Stored(t)[L + 1]
  OBVIOUS
<1>4. \/ Len(tokens) > L /\ z = tokens[L + 1]
      \/ Len(tokens) = L /\ Len(word) > x /\ z = word
  <2>1. CASE Len(tokens) > L
    BY <1>3, <2>1, TokensKept, Zenon
  <2>2. CASE Len(tokens) = L /\ Len(word) > x /\ last \notin {"space", "null", "etc"}
    <3>1. Stores(t)
      BY <2>2 DEF Stores
    <3> QED
      BY <1>3, <2>2, <3>1, TokensKept, Zenon
  <2> QED
    BY <1>1, <2>1, <2>2, Zenon
<1>5. \/ /\ \A e \in k .. Len(s) : Len(Splits(s)[e][L + 1]) = x
         /\ Len(z) > x
      \/ /\ \A e \in k .. Len(s) : Len(Splits(s)[e][L + 1]) > x
         /\ Len(z) = x
  <2>1. Len(tokens) > L => ~(Len(tokens) = L)
    BY TokenSeq
  <2> QED
    BY <1>1, <1>4, <2>1, Zenon
<1>6. ASSUME NEW e \in k .. Len(s)
      PROVE  Stored(t) # Splits(s)[e]
  BY <1>2, <1>3, <1>5, Zenon
<1> QED
  BY <1>1, <1>6, Zenon DEF Unlike

LEMMA BehindUnlike ==
    ASSUME TypeOK, NEW s \in Seq(Chars), NEW m \in Nat, m < Len(s), m > 0, cur_char = s[m + 1],
           Behind(s, m), NEW t, t = Type, t # "quotes"
    PROVE  Unlike(s, m + 1, Stored(t))
<1>1. PICK L \in Nat, x \in Nat : L = Len(tokens) /\ x = Len(word)
  BY TokenSeq
<1>2. /\ Calm(s, m + 1)
      /\ \A e \in m + 1 .. Len(s) : Len(Splits(s)[e][L + 1]) > x
  BY <1>1, BehindEnds, Zenon
<1>3. Stores(t)
  BY DEF Behind, Stores, WordEnds
<1>4. Len(Stored(t)[L + 1]) = x
  BY <1>1, <1>3, TokensKept, Zenon
<1>5. ~(x > x) /\ m + 1 \in 1 .. m + 1
  OBVIOUS
<1> QED
  BY <1>2, <1>4, <1>5, Zenon DEF Unlike

-----------------------------------------------------------------------------
(* The ends of lines.                                                      *)

LEMMA StopsOnce ==
    ASSUME NEW s, NEW n \in Nat, NEW m \in 0 .. n, Calm(s, m),
           m = n \/ ClassAt(s, m + 1) \in {"etc", "newline"},
           NEW e \in 0 .. n, Stops(s, n, e)
    PROVE  e = m
<1>1. Calm(s, e) /\ (e = n \/ ClassAt(s, e + 1) \in {"etc", "newline"})
  BY DEF Stops
<1>2. CASE e < m
  <2>1. e + 1 \in 1 .. m /\ e # n
    BY <1>2
  <2> QED
    BY <1>1, <2>1, Zenon DEF Calm
<1>3. CASE m < e
  <2>1. m + 1 \in 1 .. e /\ m # n
    BY <1>3
  <2> QED
    BY <1>1, <2>1, Zenon DEF Calm
<1> QED
  BY <1>2, <1>3

LEMMA StaysAstray ==
    ASSUME NEW s, NEW m \in Nat, ~ApartTo(s, m), NEW n \in Nat, m <= n
    PROVE  ~ApartTo(s, n)
<1>1. \A i \in 2 .. m : i \in 2 .. n
  OBVIOUS
<1> QED
  BY <1>1, Zenon DEF ApartTo

LEMMA StrayLine ==
    ASSUME NEW s \in Seq(Chars), NEW m \in Nat, NEW n \in Nat, m <= n, n <= Len(s),
           ~ApartTo(s, n), NEW tk, Unlike(s, m, tk), NEW code
    PROVE  LineOK(s, n, code, tk)
<1>1. PICK k \in 1 .. m : Calm(s, k) /\ \A e \in k .. Len(s) : tk # Splits(s)[e]
  BY Zenon DEF Unlike
<1>2. ASSUME NEW e \in 0 .. n, Stops(s, n, e)
      PROVE  tk # Splits(s)[e]
  <2>1. CASE e < k
    <3>1. e + 1 \in 1 .. k /\ e # n
      BY <2>1
    <3> QED
      BY <1>1, <1>2, <3>1, Zenon DEF Calm, Stops
  <2>2. CASE ~(e < k)
    <3>1. e \in k .. Len(s)
      BY <2>2
    <3> QED
      BY <1>1, <3>1, Zenon
  <2> QED
    BY <2>1, <2>2
<1>3. ~PlainTo(s, n)
  BY DEF PlainTo
<1> QED
  BY <1>2, <1>3, Zenon DEF LineOK

LEMMA TracksEnds ==
    ASSUME TypeOK, NEW s \in Seq(Chars), NEW m \in Nat, Tracks(s, m), Calm(s, m),
           NEW t \in {"etc", "newline"}
    PROVE  Stored(t) = Splits(s)[m]
<1>1. CASE m = 0
  <2>1. tokens = <<>> /\ last = "null"
    BY <1>1 DEF Tracks
  <2>2. Splits(s)[0] = <<>>
    BY SplitsStep, Zenon
  <2>3. ~Stores(t)
    BY <2>1 DEF Stores, WordEnds
  <2> QED
    BY <1>1, <2>1, <2>2, <2>3, Zenon DEF Stored
<1>2. CASE m > 0
  <2>1. m \in 1 .. m
    BY <1>2
  <2>2. last = ClassAt(s, m) /\ Splits(s)[m] = IF last = "space" THEN tokens ELSE Append(tokens, word)
    BY <1>2 DEF Tracks
  <2>3. ClassAt(s, m) \notin {"etc", "newline"}
    BY <2>1, Zenon DEF Calm
  <2>4. ClassAt(s, m) # "null"
    BY ClassType, Zenon
  <2>5. last \notin {t, "null"}
    BY <2>2, <2>3, <2>4
  <2>6. Stores(t) <=> last # "space"
    BY <2>5, Zenon DEF Stores, WordEnds
  <2> QED
    BY <2>2, <2>6, Zenon DEF Stored
<1> QED
  BY <1>1, <1>2

\* Where a reading that has gone astray ends.
LEMMA AstrayEnds ==
    ASSUME TypeOK, NEW s \in Seq(Chars), NEW m \in Nat, Reading(s, m), ~ApartTo(s, m),
           NEW t \in {"etc", "newline"}, t = Type, NEW code,
           NEW n \in Nat, m <= n, n <= Len(s),
           (m < n /\ cur_char = s[m + 1]) \/ m = n
    PROVE  LineOK(s, n, code, Stored(t))
<1>1. /\ Behind(s, m) \/ Differ(s, m)
      /\ last = type /\ type # "etc" /\ m > 0 /\ last # "null" /\ Len(s) \in Nat
      /\ inQuotes = FALSE
  <2>1. m > 0
    BY ApartNext, Zenon
  <2>2. inQuotes \in BOOLEAN /\ inQuotes # TRUE
    BY DEF TypeOK, Type
  <2>3. Len(s) \in Nat
    OBVIOUS
  <2> QED
    BY <2>1, <2>2, <2>3 DEF Reading
<1>2. ~ApartTo(s, n)
  BY StaysAstray, Zenon
<1>3. CASE Behind(s, m) /\ m < n
  <2>1. m < Len(s) /\ m + 1 \in Nat /\ m + 1 <= n /\ cur_char = s[m + 1]
    BY <1>1, <1>3
  <2>2. Unlike(s, m + 1, Stored(t))
    BY <1>1, <1>3, <2>1, BehindUnlike
  <2> QED
    BY <1>2, <2>1, <2>2, StrayLine, Zenon
<1>4. CASE Behind(s, m) /\ m = n
  <2>1. Odd(s, n)
    BY <1>1, <1>4 DEF Behind
  <2> QED
    BY <1>2, <2>1, Zenon DEF LineOK, PlainTo
<1>5. CASE Differ(s, m)
  <2>1. last # t
    BY <1>1 DEF TypeOK
  <2>2. WordEnds(t)
    BY <1>1, <2>1 DEF WordEnds
  <2>3. Unlike(s, m, Stored(t))
    BY <1>5, <2>2, DifferEnds, Zenon
  <2> QED
    BY <1>2, <2>3, StrayLine, Zenon
<1>6. m < n \/ m = n
  OBVIOUS
<1> QED
  BY <1>1, <1>3, <1>4, <1>5, <1>6, Zenon

\* A line that ends with a newline.
LEMMA NewlineLine ==
    ASSUME TypeOK, NEW s \in Seq(Chars), NEW m \in Nat, Reading(s, m), m < Len(s),
           cur_char = s[m + 1], NEW t \in {"etc", "newline"}, t = "newline", t = Type
    PROVE  LineOK(s, m + 1, IF isBlank THEN "blank" ELSE "success", Stored(t))
<1>1. m + 1 \in Nat /\ m <= m + 1 /\ m + 1 <= Len(s) /\ m < m + 1 /\ m \in 0 .. m + 1
      /\ (m + 1) - 1 = m
  <2>1. Len(s) \in Nat
    OBVIOUS
  <2> QED
    BY <2>1
<1>2. CASE ~ApartTo(s, m)
  BY <1>1, <1>2, AstrayEnds, Zenon
<1>3. CASE ApartTo(s, m)
  <2>1. Tracks(s, m) /\ Calm(s, m)
    BY <1>3 DEF Reading
  <2>2. ClassAt(s, m + 1) = "newline" /\ s[m + 1] = "nl" /\ s[m + 1] # "\""
    <3>1. Type = ClassAt(s, m + 1)
      BY <2>1, NextRead DEF Tracks
    <3>2. ClassAt(s, m + 1) = "newline"
      BY <3>1
    <3>3. s[m + 1] = "nl"
      BY <3>2, ClassType, Zenon
    <3> QED
      BY <3>2, <3>3
  <2>3. ApartTo(s, m + 1)
    BY <1>3, <2>2, ApartNext, Zenon
  <2>4. Stored(t) = Splits(s)[m] /\ (isBlank <=> Splits(s)[m] = <<>>)
    BY <2>1, TracksEnds, Zenon DEF Tracks
  <2>5. \A e \in 0 .. m + 1 : Stops(s, m + 1, e) => e = m
    <3>1. ClassAt(s, m + 1) \in {"etc", "newline"}
      BY <2>2
    <3> QED
      BY <1>1, <2>1, <3>1, StopsOnce, Zenon
  <2>6. ASSUME PlainTo(s, m + 1), NEW i \in 1 .. m
        PROVE  s[i] # "nl"
    <3>1. i \in 1 .. m + 1
      OBVIOUS
    <3>2. s[i] = "nl" => ClassAt(s, i) = "newline"
      BY <2>6, <3>1, Zenon DEF PlainTo
    <3> QED
      BY <2>1, <3>2 DEF Calm
  <2>7. isBlank \in BOOLEAN /\ "blank" # "success"
    BY DEF TypeOK
  <2> QED
    BY <1>1, <2>2, <2>3, <2>4, <2>5, <2>6, <2>7, Zenon DEF LineOK
<1> QED
  BY <1>2, <1>3

\* A line that ends behind a character in no class, or with the file.
LEMMA ClasslessLine ==
    ASSUME TypeOK, NEW s \in Seq(Chars), NEW m \in Nat, Reading(s, m),
           NEW t \in {"etc", "newline"}, t = "etc", t = Type,
           NEW n \in Nat, n > 0, n <= Len(s),
           \/ m < Len(s) /\ cur_char = s[m + 1] /\ n \in {m + 1, m + 2}
           \/ m = Len(s) /\ m = n
    PROVE  LineOK(s, n, "success", Stored(t))
<1>1. m <= n /\ m \in 0 .. n /\ (m < n \/ m = n) /\ Len(s) \in Nat
  <2>1. Len(s) \in Nat
    OBVIOUS
  <2> QED
    BY <2>1
<1>2. CASE ~ApartTo(s, m)
  <2>1. (m < n /\ cur_char = s[m + 1]) \/ m = n
    BY <1>1
  <2> QED
    BY <1>1, <1>2, <2>1, AstrayEnds, Zenon
<1>3. CASE ApartTo(s, m)
  <2>1. Tracks(s, m) /\ Calm(s, m)
    BY <1>3 DEF Reading
  <2>2. Stored(t) = Splits(s)[m]
    BY <2>1, TracksEnds, Zenon
  <2>3. CASE m < Len(s) /\ cur_char = s[m + 1] /\ n \in {m + 1, m + 2}
    <3>1. ClassAt(s, m + 1) = "etc"
      BY <2>1, <2>3, NextRead DEF Tracks
    <3>2. s[m + 1] # "\"" /\ ~Odd(s, m + 1) /\ ClassOf(s[m + 1]) = "etc"
      BY <3>1, ClassType, Zenon
    <3>3. ApartTo(s, m + 1)
      BY <1>3, <3>2, ApartNext, Zenon
    <3>4. \A e \in 0 .. n : Stops(s, n, e) => e = m
      <4>1. ClassAt(s, m + 1) \in {"etc", "newline"}
        BY <3>1
      <4> QED
        BY <1>1, <2>1, <4>1, StopsOnce, Zenon
    <3>5. m + 1 \in 1 .. n /\ m + 1 \in Nat /\ (m + 1) + 1 = m + 2
      BY <2>3
    <3>6. ~PlainTo(s, n)
      BY <3>2, <3>5, Zenon DEF PlainTo
    <3>7. ~Odd(s, n) => ApartTo(s, n)
      <4>1. CASE n = m + 1
        BY <3>3, <4>1
      <4>2. CASE n = m + 2
        <5>1. ~Odd(s, n) => s[(m + 1) + 1] # "\""
          BY <3>2, <3>5, <4>2, OddStep, Zenon
        <5> QED
          BY <3>3, <3>5, <4>2, <5>1, ApartNext, Zenon
      <4> QED
        BY <2>3, <4>1, <4>2
    <3> QED
      BY <2>2, <3>4, <3>6, <3>7, Zenon DEF LineOK
  <2>4. CASE m = Len(s) /\ m = n
    <3>1. \A e \in 0 .. n : Stops(s, n, e) => e = m
      BY <1>1, <2>1, <2>4, StopsOnce, Zenon
    <3>2. ASSUME PlainTo(s, n), NEW i \in 1 .. n
          PROVE  s[i] # "nl"
      <4>1. s[i] = "nl" => ClassAt(s, i) = "newline"
        BY <3>2, Zenon DEF PlainTo
      <4> QED
        BY <2>1, <2>4, <4>1 DEF Calm
    <3>3. n \in 1 .. n /\ (\A i \in 1 .. n - 1 : i \in 1 .. n) /\ "blank" # "success"
      OBVIOUS
    <3>4. ApartTo(s, n)
      BY <1>3, <2>4
    <3> QED
      BY <2>2, <2>4, <3>1, <3>2, <3>3, <3>4, Zenon DEF LineOK
  <2> QED
    BY <2>3, <2>4
<1> QED
  BY <1>2, <1>3

-----------------------------------------------------------------------------
(* One character of a line.                                                *)

LEMMA TakeClassless ==
    ASSUME file \in Files, TypeOK, NEW s \in Seq(Chars), s = RestFrom(begun), begun < pos,
           NEW m \in Nat, Reading(s, m), Take, Type = "etc"
    PROVE  Stopped(s)'
<1>1. PICK t \in {"etc", "newline"} : t = "etc" /\ t = Type
  OBVIOUS
<1>2. type' = "etc" /\ isBlank' = FALSE /\ tokens' = Stored(t) /\ begun' = begun /\ file' = file
  <2>1. StillBlank(t) = FALSE
    BY <1>1 DEF StillBlank
  <2> QED
    BY <1>1, <2>1 DEF Take
<1>3. begun \in 0 .. Len(file) /\ begun \in Nat /\ Len(file) \in Nat /\ pos \in begun .. Len(file)
  BY FilesAssumption DEF TypeOK
<1>4. Len(s) = Len(file) - begun
  BY <1>3, RestFacts
<1>5. PICK n \in Int : n = pos' - begun
  BY <1>3 DEF Take, Get
<1>6. Reached(s, m)
  BY DEF Reading
<1>7. \/ m < Len(s) /\ cur_char = s[m + 1] /\ n \in {m + 1, m + 2} /\ n > 0 /\ n <= Len(s)
      \/ m = Len(s) /\ m = n /\ n > 0 /\ n <= Len(s)
  <2>1. pos' = IF pos < Len(file) THEN pos + 1 ELSE pos
    BY DEF Take, Get
  <2>2. \/ m < Len(s) /\ cur_char = s[m + 1] /\ pos - begun = m + 1
        \/ m = Len(s) /\ cur_char = Eof /\ pos - begun = m /\ pos = Len(file)
    BY <1>6, ReachedWhere
  <2>3. CASE m < Len(s) /\ cur_char = s[m + 1] /\ pos - begun = m + 1
    BY <1>3, <1>4, <1>5, <2>1, <2>3
  <2>4. CASE m = Len(s) /\ pos - begun = m /\ pos = Len(file)
    BY <1>3, <1>4, <1>5, <2>1, <2>4
  <2> QED
    BY <2>2, <2>3, <2>4
<1>8. n \in Nat
  BY <1>7
<1>9. LineOK(s, n, "success", Stored(t))
  BY <1>1, <1>7, <1>8, ClasslessLine, Zenon
<1>10. pos' - begun' = n
  BY <1>2, <1>5
<1> QED
  BY <1>2, <1>9, <1>10, Zenon DEF Stopped

LEMMA TakeAtEnd ==
    ASSUME file \in Files, TypeOK, NEW s \in Seq(Chars), s = RestFrom(begun),
           NEW m \in Nat, Reading(s, m), m = Len(s), Take, Type # "etc"
    PROVE  Swallows(s)'
<1>1. Reached(s, m)
  BY DEF Reading
<1>2. cur_char = Eof /\ pos - begun = m /\ pos = Len(file) /\ pos \in Int /\ begun \in Int
  BY <1>1, ReachedWhere, SMTT(20) DEF TypeOK
<1>3. cur_char # "\"" /\ ClassOf(cur_char) = "etc"
  BY <1>2, Capitalized, Classes DEF Chars
<1>4. inQuotes = TRUE /\ Type = "quotes"
  <2>1. inQuotes \in BOOLEAN
    BY DEF TypeOK
  <2> QED
    BY <1>3, <2>1 DEF Type
<1>5. last = "quotes"
  BY <1>4 DEF Reading
<1>6. ~Stores("quotes") /\ QuotedAfter("quotes") = TRUE
  BY <1>3, <1>4, <1>5 DEF Stores, WordEnds, QuotedAfter, Quoted
<1>7. /\ type' = "quotes" /\ last' = "quotes" /\ inQuotes' = TRUE /\ begun' = begun
      /\ cur_char' = Eof /\ pos' = pos
  <2>1. pos' = IF pos < Len(file) THEN pos + 1 ELSE pos
    BY DEF Take, Get
  <2>2. cur_char' = IF pos + 1 <= Len(file) THEN file[pos + 1] ELSE Eof
    BY DEF Take, Get, Char
  <2>3. ~(pos < Len(file)) /\ ~(pos + 1 <= Len(file))
    BY <1>2
  <2> QED
    BY <1>4, <1>6, <2>1, <2>2, <2>3 DEF Take
<1>8. ApartTo(s, Len(s)) => Odd(s, Len(s))
  BY <1>4 DEF Reading, Tracks
<1>9. pos' = begun' + Len(s)
  BY <1>2, <1>7
<1> QED
  BY <1>7, <1>8, <1>9, Zenon DEF Swallows

LEMMA TakeNext ==
    ASSUME file \in Files, TypeOK, NEW s \in Seq(Chars), s = RestFrom(begun),
           NEW m \in Nat, Reading(s, m), m < Len(s), Take, Type # "etc"
    PROVE  Reading(s, m + 1)'
<1>1. /\ Reached(s, m) /\ NoNul(s, m) /\ last = type
      /\ IF ApartTo(s, m) THEN Tracks(s, m) /\ Calm(s, m) ELSE Behind(s, m) \/ Differ(s, m)
  BY DEF Reading
<1>2. cur_char = s[m + 1]
  BY <1>1, ReachedWhere
<1>3. m + 1 \in 0 .. Len(s) /\ m + 1 \in Nat /\ m + 1 > 0
  OBVIOUS
<1>4. Reached(s, m + 1)'
  BY <1>1, ReachedNext DEF Take
<1>5. NoNul(s, m + 1)
  <2>1. cur_char # "nul"
    BY DEF Take, Looping
  <2> QED
    BY <1>1, <1>2, <2>1, ApartNext, Zenon
<1>6. PICK t \in Types : t = Type /\ t # "null" /\ t # "etc" /\ t # "newline"
  BY TypeOfClass DEF Take
<1>7. last' = t /\ type' = t /\ inQuotes' = QuotedAfter(t)
  BY <1>6 DEF Take
<1>8. inQuotes' => last' = "quotes"
  BY <1>6, <1>7 DEF QuotedAfter, Quoted, Type
<1>9. CASE ApartTo(s, m + 1)
  <2>1. Tracks(s, m) /\ Calm(s, m)
    BY <1>1, <1>9, ApartNext, Zenon
  <2>2. Tracks(s, m + 1)'
    BY <1>2, <1>9, <2>1, TrackStep
  <2>3. type' = ClassAt(s, m + 1)
    BY <1>2, <1>9, <2>1, TrackStep
  <2>4. Calm(s, m + 1)
    <3>1. ClassAt(s, m + 1) \notin {"etc", "newline"}
      BY <1>6, <1>7, <2>3
    <3> QED
      BY <2>1, <3>1, ApartNext, Zenon
  <2> QED
    BY <1>3, <1>4, <1>5, <1>6, <1>7, <1>8, <1>9, <2>2, <2>4, Zenon DEF Reading
<1>10. CASE ~ApartTo(s, m + 1)
  <2>1. (Behind(s, m + 1) \/ Differ(s, m + 1))'
    <3>1. CASE ApartTo(s, m)
      <4>1. Tracks(s, m) /\ Calm(s, m)
        BY <1>1, <3>1, Zenon
      <4>2. Behind(s, m + 1)'
        BY <1>2, <1>10, <3>1, <4>1, BehindEnters
      <4> QED
        BY <4>2
    <3>2. CASE ~ApartTo(s, m) /\ Behind(s, m)
      <4>1. m > 0
        BY <3>2, ApartNext, Zenon
      <4> QED
        BY <1>2, <3>2, <4>1, BehindStep
    <3>3. CASE Differ(s, m)
      <4>1. Differ(s, m + 1)'
        BY <3>3, DifferStep
      <4> QED
        BY <4>1
    <3> QED
      BY <1>1, <3>1, <3>2, <3>3, Zenon
  <2> QED
    BY <1>3, <1>4, <1>5, <1>6, <1>7, <1>8, <1>10, <2>1, Zenon DEF Reading
<1> QED
  BY <1>9, <1>10

LEMMA TakeSwallowed ==
    ASSUME file \in Files, TypeOK, NEW s \in Seq(Chars), s = RestFrom(begun), Swallows(s), Take
    PROVE  Swallows(s)'
<1>1. Type = "quotes" /\ ~Stores("quotes")
  BY DEF Swallows, Type, Stores, WordEnds
<1>2. cur_char # "\""
  BY Capitalized DEF Swallows, Chars
<1>3. QuotedAfter("quotes") = inQuotes
  BY <1>1, <1>2 DEF QuotedAfter, Quoted
<1>4. type' = "quotes" /\ last' = "quotes" /\ inQuotes' = inQuotes /\ begun' = begun
  BY <1>1, <1>3 DEF Take
<1>5. pos = Len(file)
  <2>1. begun \in 0 .. Len(file) /\ begun \in Nat /\ Len(file) \in Nat
    BY FilesAssumption DEF TypeOK
  <2>2. Len(s) = Len(file) - begun
    BY <2>1, RestFacts
  <2> QED
    BY <2>1, <2>2 DEF Swallows
<1>6. cur_char' = Eof /\ pos' = pos
  <2>1. pos' = IF pos < Len(file) THEN pos + 1 ELSE pos
    BY DEF Take, Get
  <2>2. cur_char' = IF pos + 1 <= Len(file) THEN file[pos + 1] ELSE Eof
    BY DEF Take, Get, Char
  <2>3. ~(pos < Len(file)) /\ ~(pos + 1 <= Len(file))
    BY <1>5, FilesAssumption DEF TypeOK
  <2> QED
    BY <2>1, <2>2, <2>3
<1> QED
  BY <1>4, <1>6, Zenon DEF Swallows

-----------------------------------------------------------------------------
(* The arrays that are too short.                                          *)

LEMMA WordFault ==
    ASSUME file \in Files, TypeOK, NEW s \in Seq(Chars), s = RestFrom(begun),
           NEW n \in Nat, n = pos - begun, n > 0,
           (\E m \in Nat : Reading(s, m)) \/ Swallows(s),
           WordOverflow, ApartTo(s, n), ~Odd(s, n)
    PROVE  LongTo(s, n)
<1>1. ~Swallows(s)
  <2>1. Swallows(s) => n = Len(s)
    <3>1. Len(s) \in Nat /\ begun \in Int
      BY DEF TypeOK
    <3> QED
      BY <3>1 DEF Swallows
  <2> QED
    BY <2>1, Zenon DEF Swallows
<1>2. PICK m \in Nat : Reading(s, m)
  BY <1>1
<1>3. Reached(s, m) /\ last = type /\ type # "etc"
  BY <1>2 DEF Reading
<1>4. (m < Len(s) /\ cur_char = s[m + 1] /\ n = m + 1) \/ (m = Len(s) /\ cur_char = Eof /\ n = m)
  BY <1>3, ReachedWhere, Zenon
<1>5. ApartTo(s, m)
  <2>1. CASE n = m + 1
    <3>1. ApartTo(s, m + 1) => ApartTo(s, m)
      BY ApartNext, Zenon
    <3> QED
      BY <2>1, <3>1
  <2> QED
    BY <1>4, <2>1
<1>6. Tracks(s, m)
  BY <1>2, <1>5 DEF Reading
<1>7. PICK t \in Types : t = Type
  BY TypeOfClass
<1>8. ~(Len(Started(t)) < TokenLen) /\ word \in Token /\ Len(word) \in Nat /\ Len(word) <= TokenLen
      /\ TokenLen \in Nat /\ TokenLen > 0
  BY <1>7, TokenSeq, SizeAssumption DEF WordOverflow, CharFits, TypeOK
<1>9. ~WordEnds(t) /\ Len(word) = TokenLen
  <2>1. Len(<<>>) = 0 /\ 0 < TokenLen
    BY <1>8
  <2>2. ~WordEnds(t)
    BY <1>8, <2>1, Zenon DEF Started
  <2>3. Started(t) = word
    BY <2>2, Zenon DEF Started
  <2> QED
    BY <1>8, <2>2, <2>3
<1>10. m > 0 /\ last = ClassAt(s, m) /\ last = t /\ t # "parenthesis" /\ TokenLen <= m
       /\ \A k \in 1 .. m : k > m - Len(word) + 1 => ~RunAt(s, k)
  <2>1. m # 0
    <3>1. Len(<<>>) = 0
      OBVIOUS
    <3> QED
      BY <1>6, <1>8, <1>9, <3>1 DEF Tracks
  <2>2. m > 0
    BY <2>1
  <2>3. last = ClassAt(s, m) /\ Len(word) \in 1 .. m
    BY <1>6, <2>2 DEF Tracks
  <2>4. last # "null"
    BY <2>3, ClassType
  <2>5. \A k \in 1 .. m : k > m - Len(word) + 1 => ~RunAt(s, k)
    BY <1>6, Zenon DEF Tracks
  <2>6. last = t /\ t # "parenthesis"
    BY <1>9, <2>4 DEF WordEnds
  <2>7. TokenLen <= m
    BY <1>9, <2>3
  <2> QED
    BY <2>2, <2>3, <2>5, <2>6, <2>7, Zenon
<1>11. m < Len(s) /\ cur_char = s[m + 1] /\ n = m + 1
  <2>1. CASE m = Len(s) /\ cur_char = Eof /\ n = m
    <3>1. inQuotes <=> Odd(s, m)
      BY <1>6 DEF Tracks
    <3>2. inQuotes \in BOOLEAN /\ inQuotes # TRUE
      BY <2>1, <3>1 DEF TypeOK
    <3>3. cur_char # "\"" /\ ClassOf(cur_char) = "etc"
      BY <2>1, Capitalized, Classes DEF Chars
    <3>4. Type = "etc"
      BY <3>2, <3>3 DEF Type
    <3> QED
      BY <1>3, <1>7, <1>10, <3>4
  <2> QED
    BY <1>4, <2>1
<1>12. ClassAt(s, m + 1) = t
  BY <1>6, <1>7, <1>11, NextRead DEF Tracks
<1>13. ~RunAt(s, n)
  <2>1. n # 1 /\ n - 1 = m
    BY <1>10, <1>11
  <2> QED
    BY <1>10, <1>11, <1>12, <2>1, Zenon DEF RunAt
<1>14. PICK i \in Int : i = n - TokenLen
  BY <1>8
<1>15. i \in 1 .. n - TokenLen /\ i + TokenLen = n
  BY <1>8, <1>10, <1>11, <1>14
<1>16. ASSUME NEW k \in i + 1 .. i + TokenLen
       PROVE  ~RunAt(s, k)
  <2>1. k = n \/ (k \in 1 .. m /\ k > m - Len(word) + 1)
    BY <1>8, <1>9, <1>10, <1>11, <1>14, <1>15
  <2> QED
    BY <1>10, <1>13, <2>1, Zenon
<1> QED
  BY <1>15, <1>16, Zenon DEF LongTo

LEMMA TokensFault ==
    ASSUME file \in Files, TypeOK, NEW s \in Seq(Chars), s = RestFrom(begun),
           NEW n \in Nat, n = pos - begun, n > 0,
           (\E m \in Nat : Reading(s, m)) \/ Swallows(s),
           TokenOverflow, ApartTo(s, n)
    PROVE  Len(Splits(s)[n]) > MaxTokens
<1>1. PICK t \in Types : t = Type
  BY TypeOfClass
<1>2. Stores(t) /\ ~(Len(tokens) < MaxTokens) /\ MaxTokens \in Nat /\ MaxTokens > 0 /\ Len(tokens) \in Nat
  BY <1>1, TokenSeq, SizeAssumption DEF TokenOverflow, TokenFits
<1>3. ~Swallows(s)
  BY <1>1, <1>2 DEF Swallows, Type, Stores, WordEnds
<1>4. PICK m \in Nat : Reading(s, m)
  BY <1>3
<1>5. Reached(s, m)
  BY <1>4 DEF Reading
<1>6. (m < Len(s) /\ cur_char = s[m + 1] /\ n = m + 1) \/ (m = Len(s) /\ cur_char = Eof /\ n = m)
  BY <1>5, ReachedWhere, Zenon
<1>7. ApartTo(s, m)
  <2>1. CASE n = m + 1
    <3>1. ApartTo(s, m + 1) => ApartTo(s, m)
      BY ApartNext, Zenon
    <3> QED
      BY <2>1, <3>1
  <2> QED
    BY <1>6, <2>1
<1>8. Tracks(s, m)
  BY <1>4, <1>7 DEF Reading
<1>9. m > 0
  <2>1. Len(<<>>) = 0
    OBVIOUS
  <2>2. m # 0
    BY <1>2, <1>8, <2>1 DEF Tracks
  <2> QED
    BY <2>2
<1>10. Splits(s)[m] = Append(tokens, word)
  BY <1>2, <1>8, <1>9 DEF Tracks, Stores
<1>11. Len(Splits(s)[m]) = Len(tokens) + 1
  BY <1>10, TokenSeq, Zenon
<1>12. PICK L \in Nat, M \in Nat : L = Len(Splits(s)[m]) /\ M = MaxTokens
  <2>1. Len(tokens) + 1 \in Nat
    BY <1>2
  <2> QED
    BY <1>2, <1>11, <2>1, Zenon
<1>13. L > M
  BY <1>2, <1>11, <1>12
<1>14. CASE n = m
  BY <1>12, <1>13, <1>14
<1>15. CASE m < Len(s) /\ n = m + 1
  <2>1. Len(Splits(s)[m + 1]) >= Len(Splits(s)[m]) /\ Splits(s)[m + 1] \in Seq(Seq(Chars))
    BY <1>9, <1>15, SplitsNext, Zenon
  <2>2. PICK a \in Seq(Seq(Chars)) : a = Splits(s)[m + 1]
    BY <2>1
  <2>3. Len(a) >= L /\ Len(a) \in Nat
    BY <1>12, <2>1, <2>2
  <2>4. Len(a) > M
    BY <1>13, <2>3
  <2> QED
    BY <1>12, <1>15, <2>2, <2>4
<1> QED
  BY <1>6, <1>14, <1>15

-----------------------------------------------------------------------------
(* Lines begin and are returned.                                           *)

LEMMA LineBegins ==
    ASSUME file \in Files, TypeOK, Start, NEW s \in Seq(Chars), s = RestFrom(pos)
    PROVE  InLine(s)'
<1>1. pos \in Nat /\ pos < Len(file) /\ Len(file) \in Nat /\ pos \in 0 .. Len(file)
  BY FilesAssumption DEF TypeOK, Start
<1>2. Len(s) = Len(file) - pos /\ \A i \in 1 .. Len(file) - pos : s[i] = file[pos + i]
  BY <1>1, RestFacts
<1>3. cur_char' = file[pos + 1] /\ pos' = pos + 1 /\ begun' = pos
  BY <1>1 DEF Start, Get, Char
<1>4. 0 < Len(s) /\ cur_char' = s[0 + 1] /\ pos' = begun' + 0 + 1
  <2>1. 1 \in 1 .. Len(file) - pos /\ 0 + 1 = 1
    BY <1>1
  <2>2. s[1] = file[pos + 1]
    BY <1>2, <2>1, Zenon
  <2> QED
    BY <1>1, <1>2, <1>3, <2>1, <2>2
<1>5. Reached(s, 0)'
  BY <1>4, Zenon DEF Reached
<1>6. Tracks(s, 0)'
  <2>1. ~Odd(s, 0) /\ Splits(s)[0] = <<>>
    BY OddStep, SplitsStep, Zenon
  <2>2. tokens' = <<>> /\ word' = <<>> /\ last' = "null" /\ inQuotes' = FALSE /\ isBlank' = TRUE
    BY DEF Start, Fresh
  <2>3. 1 .. 0 = {} /\ ~(0 > 0)
    OBVIOUS
  <2> QED
    BY <2>1, <2>2, <2>3, Zenon DEF Tracks
<1>7. ApartTo(s, 0) /\ Calm(s, 0) /\ NoNul(s, 0)
  BY ApartNext, Zenon
<1>8. last' = "null" /\ type' = "null" /\ inQuotes' = FALSE /\ ~(0 > 0) /\ 0 \in 0 .. Len(s) /\ 0 \in Nat
  BY <1>4 DEF Start, Fresh
<1>9. Reading(s, 0)'
  BY <1>5, <1>6, <1>7, <1>8 DEF Reading
<1>10. begun' < pos' /\ pos' <= begun' + Len(s)
  BY <1>1, <1>2, <1>3
<1>11. (\E m \in Nat : Reading(s, m))'
  BY <1>8, <1>9
<1> QED
  BY <1>10, <1>11, Zenon DEF InLine

LEMMA LineReturned ==
    ASSUME file \in Files, TypeOK, LinesOK, begun = From(Len(lines) + 1), begun < pos,
           file' = file, pos' = pos,
           NEW tk \in Seq(Token), NEW blank \in BOOLEAN, lines' = Append(lines, Result(tk, blank)),
           LineOK(RestFrom(begun), pos - begun, IF blank THEN "blank" ELSE "success", tk)
    PROVE  LinesOK' /\ pos' = From(Len(lines) + 1)'
<1>1. /\ Len(lines') = Len(lines) + 1 /\ Len(lines) \in Nat
      /\ \A i \in 1 .. Len(lines) : lines'[i] = lines[i]
      /\ lines'[Len(lines) + 1] = Result(tk, blank)
  BY ResultAdded
<1>2. PICK N \in Nat : N = Len(lines)
  BY <1>1
<1>3. PICK L, M : L = lines /\ M = lines'
  OBVIOUS
<1>4. Len(M) = N + 1 /\ (\A i \in 1 .. N : M[i] = L[i]) /\ M[N + 1] = Result(tk, blank)
  BY <1>1, <1>2, <1>3, Zenon
<1>5. /\ Result(tk, blank).from = begun /\ Result(tk, blank).to = pos /\ Result(tk, blank).tokens = tk
      /\ Result(tk, blank).code = IF blank THEN "blank" ELSE "success"
  BY DEF Result
<1>6. \A i \in 1 .. N + 1 : i \in 1 .. N \/ i = N + 1
  OBVIOUS
<1>7. ASSUME NEW i \in 1 .. N + 1
      PROVE  From(i)' = From(i)
  <2>1. i # 1 => i - 1 \in 1 .. N
    OBVIOUS
  <2> QED
    BY <1>2, <1>3, <1>4, <2>1, Zenon DEF From
<1>8. \A b : RestFrom(b)' = RestFrom(b)
  BY DEF RestFrom
<1>9. ASSUME NEW i \in 1 .. N + 1
      PROVE  /\ M[i].from = From(i)'
             /\ M[i].to \in M[i].from + 1 .. Len(file')
             /\ LineOK(RestFrom(M[i].from)', M[i].to - M[i].from, M[i].code, M[i].tokens)
  <2>1. CASE i \in 1 .. N
    <3>1. /\ L[i].from = From(i)
          /\ L[i].to \in L[i].from + 1 .. Len(file)
          /\ LineOK(RestFrom(L[i].from), L[i].to - L[i].from, L[i].code, L[i].tokens)
      BY <1>2, <1>3, <2>1, Zenon DEF LinesOK
    <3> QED
      BY <1>4, <1>7, <1>8, <2>1, <3>1, Zenon
  <2>2. CASE i = N + 1
    <3>1. pos \in begun + 1 .. Len(file)
      BY FilesAssumption DEF TypeOK
    <3> QED
      BY <1>2, <1>3, <1>4, <1>5, <1>7, <1>8, <2>2, <3>1, Zenon
  <2> QED
    BY <1>6, <2>1, <2>2
<1>10. LinesOK'
  BY <1>2, <1>3, <1>4, <1>9, Zenon DEF LinesOK
<1>11. pos' = From(Len(lines) + 1)'
  <2>1. (N + 1) + 1 # 1 /\ ((N + 1) + 1) - 1 = N + 1
    OBVIOUS
  <2> QED
    BY <1>2, <1>3, <1>4, <1>5, <2>1, Zenon DEF From
<1> QED
  BY <1>10, <1>11

-----------------------------------------------------------------------------
(* The invariant.                                                          *)

LEMMA InvariantInit == Init => IInv
<1> SUFFICES ASSUME Init PROVE IInv
  OBVIOUS
<1>1. TypeOK /\ file \in Files
  BY TypeInit DEF Init
<1>2. lines = <<>> /\ pc = "call" /\ pos = 0 /\ fault = "none"
  BY DEF Init
<1>3. Len(lines) = 0
  BY <1>2
<1>4. 1 .. 0 = {} /\ 0 + 1 = 1 /\ "call" # "loop"
  OBVIOUS
<1>5. LinesOK
  BY <1>3, <1>4, Zenon DEF LinesOK
<1>6. pos = From(Len(lines) + 1)
  <2>1. Len(lines) + 1 = 1
    BY <1>3
  <2> QED
    BY <1>2, <2>1 DEF From
<1> QED
  BY <1>1, <1>2, <1>4, <1>5, <1>6, Zenon DEF IInv

\* What was returned stays as it is.
LEMMA LinesStay ==
    ASSUME LinesOK, file' = file, lines' = lines
    PROVE  LinesOK' /\ From(Len(lines) + 1)' = From(Len(lines) + 1) /\ \A b : RestFrom(b)' = RestFrom(b)
<1>1. LinesOK'
  BY DEF LinesOK, From, RestFrom
<1> QED
  BY <1>1 DEF From, RestFrom

LEMMA TakeStep ==
    ASSUME IInv, Take, NEW s \in Seq(Chars), s = RestFrom(begun)
    PROVE  InLine(s)'
<1>1. /\ TypeOK /\ file \in Files /\ InLine(s) /\ Looping
  BY DEF IInv, Take, Looping
<1>2. begun < pos /\ ((\E m \in Nat : Reading(s, m)) \/ Swallows(s))
  BY <1>1 DEF InLine, Stopped, Looping
<1>3. Swallows(s)' \/ Stopped(s)' \/ \E m \in Nat : Reading(s, m)'
  <2>1. CASE Swallows(s)
    BY <1>1, <2>1, TakeSwallowed
  <2>2. CASE \E m \in Nat : Reading(s, m)
    <3>1. PICK m \in Nat : Reading(s, m)
      BY <2>2
    <3>2. m \in 0 .. Len(s) /\ Len(s) \in Nat
      BY <3>1 DEF Reading
    <3>3. CASE Type = "etc"
      BY <1>1, <1>2, <3>1, <3>3, TakeClassless
    <3>4. CASE Type # "etc" /\ m < Len(s)
      <4>1. Reading(s, m + 1)'
        BY <1>1, <3>1, <3>4, TakeNext
      <4>2. m + 1 \in Nat
        OBVIOUS
      <4> QED
        BY <4>1, <4>2
    <3>5. CASE Type # "etc" /\ m = Len(s)
      BY <1>1, <3>1, <3>5, TakeAtEnd
    <3> QED
      BY <3>2, <3>3, <3>4, <3>5
  <2> QED
    BY <1>2, <2>1, <2>2
<1>4. begun' < pos' /\ pos' <= begun' + Len(s)
  <2>1. begun \in 0 .. Len(file) /\ begun \in Nat /\ Len(file) \in Nat /\ pos \in 0 .. Len(file)
    BY <1>1, FilesAssumption DEF TypeOK
  <2>2. Len(s) = Len(file) - begun
    BY <1>1, <2>1, RestFacts
  <2> QED
    BY <1>2, <2>1, <2>2 DEF Take, Get
<1> QED
  BY <1>3, <1>4 DEF InLine

LEMMA NewLineStep ==
    ASSUME IInv, NewLine
    PROVE  LinesOK' /\ pos' = From(Len(lines) + 1)'
<1>1. /\ TypeOK /\ file \in Files /\ LinesOK /\ Looping /\ begun = From(Len(lines) + 1)
      /\ InLine(RestFrom(begun)) /\ Type = "newline" /\ begun \in 0 .. Len(file)
  BY FilesAssumption DEF IInv, NewLine, Looping, TypeOK
<1>2. RestFrom(begun) \in Seq(Chars) /\ Len(RestFrom(begun)) \in Nat
  <2>1. RestFrom(begun) \in Seq(Chars)
    BY <1>1, RestFacts
  <2> QED
    BY <2>1
<1>3. PICK s \in Seq(Chars) : s = RestFrom(begun)
  BY <1>2
<1>4. PICK t \in {"etc", "newline"} : t = "newline" /\ t = Type
  BY <1>1
<1>5. tokens' = Stored(t) /\ lines' = Append(lines, Result(tokens', isBlank)) /\ file' = file /\ pos' = pos
  BY <1>4 DEF NewLine
<1>6. begun < pos /\ \E m \in Nat : Reading(s, m)
  <2>1. ~Swallows(s)
    BY <1>1 DEF Swallows, Type
  <2> QED
    BY <1>1, <1>3, <2>1 DEF InLine, Stopped, Looping
<1>7. PICK m \in Nat : Reading(s, m)
  BY <1>6
<1>8. m < Len(s) /\ cur_char = s[m + 1] /\ pos - begun = m + 1
  <2>1. Reached(s, m)
    BY <1>7 DEF Reading
  <2>2. cur_char # Eof
    <3>1. cur_char = Eof => ClassOf(cur_char) = "etc"
      BY Classes
    <3> QED
      BY <1>1, <3>1 DEF Type
  <2> QED
    BY <1>1, <1>3, <2>1, <2>2, ReachedWhere
<1>9. LineOK(s, m + 1, IF isBlank THEN "blank" ELSE "success", Stored(t))
  BY <1>1, <1>4, <1>7, <1>8, NewlineLine, Zenon
<1>10. LineOK(RestFrom(begun), pos - begun, IF isBlank THEN "blank" ELSE "success", Stored(t))
  BY <1>3, <1>8, <1>9
<1>11. isBlank \in BOOLEAN /\ Stored(t) \in Seq(Token)
  <2>1. t \in Types
    BY DEF Types
  <2> QED
    BY <1>1, <2>1, StoredType DEF TypeOK
<1> QED
  BY <1>1, <1>5, <1>6, <1>10, <1>11, LineReturned

LEMMA StopReadingStep ==
    ASSUME IInv, StopReading
    PROVE  LinesOK' /\ pos' = From(Len(lines) + 1)'
<1>1. /\ TypeOK /\ file \in Files /\ LinesOK /\ begun = From(Len(lines) + 1)
      /\ InLine(RestFrom(begun)) /\ (cur_char = "nul" \/ type = "etc") /\ begun \in 0 .. Len(file)
  BY FilesAssumption DEF IInv, StopReading, Looping, TypeOK
<1>2. RestFrom(begun) \in Seq(Chars)
  BY <1>1, RestFacts
<1>3. PICK s \in Seq(Chars) : s = RestFrom(begun)
  BY <1>2
<1>4. begun < pos /\ ((\E m \in Nat : Reading(s, m)) \/ Stopped(s))
  <2>1. "nul" # Eof /\ "etc" # "quotes"
    BY DEF Eof
  <2>2. ~Swallows(s)
    BY <1>1, <2>1 DEF Swallows
  <2> QED
    BY <1>1, <1>3, <2>2 DEF InLine
<1>5. LineOK(s, pos - begun, IF isBlank THEN "blank" ELSE "success", tokens)
  <2>1. CASE Stopped(s)
    BY <2>1 DEF Stopped
  <2>2. CASE \E m \in Nat : Reading(s, m)
    <3>1. PICK m \in Nat : Reading(s, m)
      BY <2>2
    <3>2. Reached(s, m) /\ cur_char = "nul" /\ cur_char # Eof
      BY <1>1, <3>1 DEF Reading, Eof
    <3>3. cur_char = s[m + 1] /\ pos - begun = m + 1
      BY <1>1, <1>3, <3>2, ReachedWhere
    <3>4. ~NoNul(s, m + 1)
      BY <3>2, <3>3, ApartNext
    <3>5. ~NoNul(s, pos - begun)
      BY <3>3, <3>4
    <3> QED
      BY <3>5, Zenon DEF LineOK
  <2> QED
    BY <1>4, <2>1, <2>2
<1>6. LineOK(RestFrom(begun), pos - begun, IF isBlank THEN "blank" ELSE "success", tokens)
  BY <1>3, <1>5
<1>7. isBlank \in BOOLEAN /\ tokens \in Seq(Token)
  BY <1>1 DEF TypeOK
<1>8. lines' = Append(lines, Result(tokens, isBlank)) /\ file' = file /\ pos' = pos
  BY DEF StopReading
<1> QED
  BY <1>1, <1>4, <1>6, <1>7, <1>8, LineReturned

LEMMA FaultStep ==
    ASSUME IInv, WordOverflow \/ TokenOverflow
    PROVE  begun < pos /\ FaultOK(RestFrom(begun), pos - begun)'
<1>1. /\ TypeOK /\ file \in Files /\ Looping /\ InLine(RestFrom(begun)) /\ begun \in 0 .. Len(file)
      /\ begun \in Nat /\ pos \in Nat
  BY FilesAssumption DEF IInv, WordOverflow, TokenOverflow, Looping, TypeOK
<1>2. RestFrom(begun) \in Seq(Chars)
  BY <1>1, RestFacts
<1>3. PICK s \in Seq(Chars) : s = RestFrom(begun)
  BY <1>2
<1>4. begun < pos /\ ((\E m \in Nat : Reading(s, m)) \/ Swallows(s))
  BY <1>1, <1>3 DEF InLine, Stopped, Looping
<1>5. PICK n \in Nat : n = pos - begun /\ n > 0
  BY <1>1, <1>4
<1>6. file' = file /\ begun' = begun /\ pos' = pos /\ fault' = IF WordOverflow THEN "word" ELSE "tokens"
  BY DEF WordOverflow, TokenOverflow, local
<1>7. RestFrom(begun)' = s /\ (pos - begun)' = n
  BY <1>3, <1>5, <1>6 DEF RestFrom
<1>8. ASSUME fault' = "word", ApartTo(s, n), ~Odd(s, n)
      PROVE  LongTo(s, n)
  <2>1. WordOverflow
    BY <1>6, <1>8
  <2> QED
    BY <1>1, <1>3, <1>4, <1>5, <1>8, <2>1, WordFault
<1>9. ASSUME fault' = "tokens", ApartTo(s, n)
      PROVE  Len(Splits(s)[n]) > MaxTokens
  <2>1. TokenOverflow
    BY <1>6, <1>9
  <2> QED
    BY <1>1, <1>3, <1>4, <1>5, <1>9, <2>1, TokensFault
<1> QED
  BY <1>4, <1>7, <1>8, <1>9, Zenon DEF FaultOK

LEMMA InvariantStep ==
    ASSUME IInv, [Next]_vars
    PROVE  IInv'
<1>1. /\ TypeOK /\ file \in Files /\ LinesOK
      /\ pc = "call" => pos = From(Len(lines) + 1)
      /\ pc = "loop" => begun = From(Len(lines) + 1) /\ InLine(RestFrom(begun))
      /\ fault = "none" \/ (pc = "end" /\ begun < pos /\ FaultOK(RestFrom(begun), pos - begun))
  BY DEF IInv
<1>2. begun \in 0 .. Len(file) /\ pos \in 0 .. Len(file) /\ begun \in Nat /\ Len(file) \in Nat
  BY <1>1, FilesAssumption DEF TypeOK
<1>3. ASSUME UNCHANGED vars
      PROVE  IInv'
  <2>1. TypeOK'
    BY <1>1, <1>3 DEF TypeOK, vars, local
  <2>2. LinesOK' /\ From(Len(lines) + 1)' = From(Len(lines) + 1) /\ RestFrom(begun)' = RestFrom(begun)
    BY <1>1, <1>3, LinesStay DEF vars, local, RestFrom
  <2>3. PICK s : s = RestFrom(begun)
    OBVIOUS
  <2>4. InLine(s)' <=> InLine(s)
    <3>1. /\ pos' = pos /\ tokens' = tokens /\ word' = word /\ type' = type /\ last' = last
          /\ inQuotes' = inQuotes /\ isBlank' = isBlank /\ cur_char' = cur_char /\ begun' = begun
      BY <1>3 DEF vars, local
    <3>2. ASSUME NEW m PROVE Reached(s, m)' <=> Reached(s, m)
      BY <3>1 DEF Reached
    <3>3. ASSUME NEW m PROVE Tracks(s, m)' <=> Tracks(s, m)
      BY <3>1 DEF Tracks
    <3>4. ASSUME NEW m PROVE Behind(s, m)' <=> Behind(s, m)
      BY <3>1 DEF Behind
    <3>5. ASSUME NEW m PROVE Differ(s, m)' <=> Differ(s, m)
      BY <3>1 DEF Differ
    <3>6. ASSUME NEW m PROVE Reading(s, m)' <=> Reading(s, m)
      BY <3>1, <3>2, <3>3, <3>4, <3>5 DEF Reading
    <3>7. Swallows(s)' <=> Swallows(s)
      BY <3>1 DEF Swallows
    <3>8. Stopped(s)' <=> Stopped(s)
      BY <3>1 DEF Stopped
    <3> QED
      BY <3>1, <3>6, <3>7, <3>8 DEF InLine
  <2>5. PICK n : n = pos - begun
    OBVIOUS
  <2>6. FaultOK(s, n)' <=> FaultOK(s, n)
    BY <1>3 DEF FaultOK, vars, local
  <2>7. /\ file' = file /\ pc' = pc /\ pos' = pos /\ begun' = begun /\ fault' = fault
        /\ (pos - begun)' = n /\ RestFrom(begun)' = s
    BY <1>3, <2>2, <2>3, <2>5 DEF vars, local
  <2> QED
    BY <1>1, <2>1, <2>2, <2>3, <2>4, <2>5, <2>6, <2>7, Zenon DEF IInv
<1>4. ASSUME Next
      PROVE  IInv'
  <2>1. TypeOK' /\ file' = file /\ file' \in Files
    BY <1>1, <1>4, TypeStep
  <2>2. CASE Start
    <3>1. RestFrom(pos) \in Seq(Chars)
      BY <1>1, <1>2, RestFacts
    <3>2. PICK s \in Seq(Chars) : s = RestFrom(pos)
      BY <3>1
    <3>3. InLine(s)'
      BY <1>1, <2>2, <3>2, LineBegins
    <3>4. pc = "call" /\ pc' = "loop" /\ begun' = pos /\ lines' = lines /\ fault' = fault /\ fault = "none"
      BY <1>1, <2>2 DEF Start
    <3>5. LinesOK' /\ From(Len(lines) + 1)' = From(Len(lines) + 1)
      BY <1>1, <2>1, <3>4, LinesStay
    <3>6. RestFrom(begun)' = s
      BY <2>1, <3>2, <3>4 DEF RestFrom
    <3>7. begun' = From(Len(lines) + 1)' /\ "loop" # "call"
      BY <1>1, <3>4, <3>5
    <3> QED
      BY <2>1, <3>3, <3>4, <3>5, <3>6, <3>7, Zenon DEF IInv
  <2>3. CASE Take
    <3>1. RestFrom(begun) \in Seq(Chars)
      BY <1>1, <1>2, RestFacts
    <3>2. PICK s \in Seq(Chars) : s = RestFrom(begun)
      BY <3>1
    <3>3. InLine(s)'
      BY <2>3, <3>2, TakeStep
    <3>4. pc = "loop" /\ pc' = "loop" /\ begun' = begun /\ lines' = lines /\ fault' = fault /\ fault = "none"
      BY <1>1, <2>3 DEF Take, Looping
    <3>5. LinesOK' /\ From(Len(lines) + 1)' = From(Len(lines) + 1)
      BY <1>1, <2>1, <3>4, LinesStay
    <3>6. RestFrom(begun)' = s
      BY <2>1, <3>2, <3>4 DEF RestFrom
    <3>7. begun' = From(Len(lines) + 1)' /\ "loop" # "call"
      BY <1>1, <3>4, <3>5
    <3> QED
      BY <2>1, <3>3, <3>4, <3>5, <3>6, <3>7, Zenon DEF IInv
  <2>4. CASE NewLine \/ StopReading
    <3>1. LinesOK' /\ pos' = From(Len(lines) + 1)'
      BY <2>4, NewLineStep, StopReadingStep
    <3>2. pc' = "call" /\ fault' = "none"
      BY <1>1, <2>4 DEF NewLine, StopReading, Looping
    <3> QED
      BY <2>1, <3>1, <3>2 DEF IInv
  <2>5. CASE TokenOverflow \/ WordOverflow
    <3>1. begun < pos /\ FaultOK(RestFrom(begun), pos - begun)'
      BY <2>5, FaultStep
    <3>2. pc' = "end" /\ begun' = begun /\ pos' = pos /\ lines' = lines
      BY <2>5 DEF TokenOverflow, WordOverflow, local
    <3>3. LinesOK'
      BY <1>1, <2>1, <3>2, LinesStay
    <3> QED
      BY <2>1, <3>1, <3>2, <3>3 DEF IInv
  <2>6. CASE EndOfFile
    <3>1. pc' = "end" /\ lines' = lines /\ fault' = "none"
      BY <1>1, <2>6 DEF EndOfFile
    <3>2. LinesOK'
      BY <1>1, <2>1, <3>1, LinesStay
    <3> QED
      BY <2>1, <3>1, <3>2 DEF IInv
  <2>7. CASE Exited
    BY <1>3, <2>7 DEF Exited
  <2> QED
    BY <1>4, <2>2, <2>3, <2>4, <2>5, <2>6, <2>7 DEF Next
<1> QED
  BY <1>3, <1>4

-----------------------------------------------------------------------------
(* What the invariant says of the texts of the lines.                      *)

LEMMA TextIsPrefix ==
    ASSUME file \in Files, NEW b \in 0 .. Len(file), NEW e \in b + 1 .. Len(file)
    PROVE  /\ RestFrom(b) \in Seq(Chars) /\ e - b \in 1 .. Len(RestFrom(b)) /\ e - b \in Nat
           /\ Len(RestFrom(b)) = Len(file) - b /\ b \in Nat
           /\ SubSeq(file, b + 1, e) = SubSeq(RestFrom(b), 1, e - b)
<1>1. PICK s, n : s = RestFrom(b) /\ n = e - b
  OBVIOUS
<1>2. file \in Seq(Chars) /\ b \in Nat /\ e \in Nat /\ Len(file) \in Nat
  BY FilesAssumption
<1>3. s \in Seq(Chars) /\ Len(s) = Len(file) - b /\ \A i \in 1 .. Len(file) - b : s[i] = file[b + i]
  BY <1>1, RestFacts
<1>4. n \in 1 .. Len(s) /\ n \in Nat
  BY <1>1, <1>2, <1>3
<1>5. PICK x, y : x = SubSeq(file, b + 1, e) /\ y = SubSeq(s, 1, n)
  OBVIOUS
<1>6. x \in Seq(Chars) /\ Len(x) = n /\ \A i \in 1 .. n : x[i] = file[b + i]
  <2>1. PICK f \in Seq(Chars) : f = file
    BY <1>2
  <2>2. /\ SubSeq(f, b + 1, e) \in Seq(Chars) /\ Len(SubSeq(f, b + 1, e)) = e - b
        /\ \A i \in 1 .. e - b : SubSeq(f, b + 1, e)[i] = f[b + i]
    BY <1>2, <2>1
  <2> QED
    BY <1>1, <1>5, <2>1, <2>2, Zenon
<1>7. y \in Seq(Chars) /\ Len(y) = n /\ \A i \in 1 .. n : y[i] = s[i]
  BY <1>3, <1>4, <1>5
<1>8. \A i \in 1 .. n : x[i] = y[i]
  <2>1. \A i \in 1 .. n : i \in 1 .. Len(file) - b
    BY <1>2, <1>3, <1>4
  <2> QED
    BY <1>3, <1>6, <1>7, <2>1, Zenon
<1>9. x = y
  BY <1>6, <1>7, <1>8, SeqEqual, Zenon
<1> QED
  BY <1>1, <1>2, <1>3, <1>4, <1>5, <1>9, Zenon

LEMMA LinePlace ==
    ASSUME IInv, NEW i \in DOMAIN lines
    PROVE  /\ lines[i].from \in 0 .. Len(file) /\ lines[i].to \in lines[i].from + 1 .. Len(file)
           /\ lines[i].from = From(i) /\ file \in Files
           /\ LineOK(RestFrom(lines[i].from), lines[i].to - lines[i].from, lines[i].code, lines[i].tokens)
<1>1. i \in 1 .. Len(lines) /\ Len(lines) \in Nat /\ lines[i] \in Line
  BY DEF IInv, TypeOK
<1>2. /\ lines[i].to \in lines[i].from + 1 .. Len(file) /\ lines[i].from = From(i) /\ file \in Files
      /\ LineOK(RestFrom(lines[i].from), lines[i].to - lines[i].from, lines[i].code, lines[i].tokens)
  BY <1>1, Zenon DEF IInv, LinesOK
<1>3. lines[i].from \in Nat /\ Len(file) \in Nat
  BY <1>1, <1>2, FilesAssumption DEF Line
<1>4. lines[i].from \in 0 .. Len(file)
  BY <1>2, <1>3
<1> QED
  BY <1>2, <1>4

LEMMA RunsFollow == IInv => TokensAreRuns
<1> SUFFICES ASSUME IInv, NEW i \in DOMAIN lines,
                    Zeroless(Text(lines[i])), lines[i].code = "success"
             PROVE  /\ Apart(Text(lines[i])) => lines[i].tokens = Split(Text(lines[i]))
                    /\ lines[i].tokens = Split(Text(lines[i])) /\ ~Odd(Text(lines[i]), Len(Text(lines[i])))
                          => Apart(Text(lines[i]))
  BY DEF TokensAreRuns
<1>1. PICK b, e, t, tk, s, n : /\ b = lines[i].from /\ e = lines[i].to /\ t = Text(lines[i])
                               /\ tk = lines[i].tokens /\ s = RestFrom(b) /\ n = e - b
  OBVIOUS
<1>2. /\ b \in 0 .. Len(file) /\ e \in b + 1 .. Len(file) /\ file \in Files
      /\ LineOK(s, n, lines[i].code, tk)
  BY <1>1, LinePlace, Zenon
<1>3. s \in Seq(Chars) /\ n \in 1 .. Len(s) /\ n \in Nat /\ t = SubSeq(s, 1, n)
  BY <1>1, <1>2, TextIsPrefix, Zenon DEF Text
<1>4. Len(t) = n /\ (Apart(t) <=> ApartTo(s, n)) /\ (Zeroless(t) <=> NoNul(s, n))
  BY <1>3, PrefixProperties, Zenon
<1>5. Odd(t, n) <=> Odd(s, n)
  <2>1. n \in 0 .. n
    BY <1>3
  <2> QED
    BY <1>3, <2>1, PrefixAgrees, Zenon
<1>6. PICK k \in 0 .. n : Stops(s, n, k) /\ Split(t) = Splits(s)[k]
  BY <1>3, SplitStops, Zenon
<1>7. NoNul(s, n)
  BY <1>1, <1>4, Zenon
<1>8. /\ ApartTo(s, n) => tk = Splits(s)[k]
      /\ tk = Splits(s)[k] /\ ~Odd(s, n) => ApartTo(s, n)
  BY <1>2, <1>6, <1>7, Zenon DEF LineOK
<1> QED
  BY <1>1, <1>4, <1>5, <1>6, <1>8, Zenon

LEMMA LinesFollow == IInv => LinesAreLines
<1> SUFFICES ASSUME IInv, NEW i \in DOMAIN lines
             PROVE  LET l == lines[i]
                        s == Text(l)
                    IN  /\ l.from = (IF i = 1 THEN 0 ELSE lines[i - 1].to)
                        /\ Plain(s) /\ (\A k \in l.from + 1 .. l.to : IsNewline(k) => ClassAt(s, k - l.from) = "newline") =>
                              /\ IsNewline(l.to) \/ l.to = Len(file)
                              /\ \A k \in l.from + 1 .. l.to - 1 : ~IsNewline(k)
                              /\ l.code = "blank" <=> IsNewline(l.to) /\ Split(s) = <<>>
  BY Zenon DEF LinesAreLines
<1>1. PICK b, e, t, s, n, code : /\ b = lines[i].from /\ e = lines[i].to /\ t = Text(lines[i])
                                 /\ s = RestFrom(b) /\ n = e - b /\ code = lines[i].code
  OBVIOUS
<1>2. /\ b \in 0 .. Len(file) /\ e \in b + 1 .. Len(file) /\ file \in Files
      /\ LineOK(s, n, code, lines[i].tokens) /\ b = From(i)
  BY <1>1, LinePlace, Zenon
<1>3. /\ s \in Seq(Chars) /\ n \in 1 .. Len(s) /\ n \in Nat /\ t = SubSeq(s, 1, n)
      /\ Len(s) = Len(file) - b /\ b \in Nat
  BY <1>1, <1>2, TextIsPrefix, Zenon DEF Text
<1>4. Len(t) = n /\ (Apart(t) <=> ApartTo(s, n)) /\ (Zeroless(t) <=> NoNul(s, n))
  BY <1>3, PrefixProperties, Zenon
<1>5. /\ DOMAIN t = 1 .. n /\ \A k \in 1 .. n : t[k] = s[k] /\ ClassAt(t, k) = ClassAt(s, k)
      /\ Odd(t, n) <=> Odd(s, n)
  <2>1. n \in 0 .. n
    BY <1>3
  <2> QED
    BY <1>3, <2>1, PrefixAgrees, Zenon
<1>6. PICK m \in 0 .. n : Stops(s, n, m) /\ Split(t) = Splits(s)[m]
  BY <1>3, SplitStops, Zenon
\* Positions in the file and in the text.
<1>7. /\ file \in Seq(Chars) /\ Len(file) \in Nat /\ e \in Nat /\ n = e - b /\ e <= Len(file)
      /\ DOMAIN file = 1 .. Len(file)
  <2>1. n = e - b
    BY <1>1, Zenon
  <2>2. file \in Seq(Chars)
    BY <1>2, FilesAssumption
  <2> QED
    BY <1>2, <1>3, <2>1, <2>2
<1>8. ASSUME NEW k \in 1 .. n
      PROVE  /\ b + k \in b + 1 .. e /\ (b + k) - b = k
             /\ IsNewline(b + k) <=> s[k] = "nl"
  <2>1. b + k \in b + 1 .. e /\ (b + k) - b = k /\ k \in 1 .. Len(file) - b /\ b + k \in 1 .. Len(file)
    BY <1>3, <1>7
  <2>2. s[k] = file[b + k]
    BY <1>1, <1>2, <2>1, RestFacts, Zenon
  <2>3. b + k \in DOMAIN file
    BY <1>7, <2>1, Zenon
  <2> QED
    BY <2>1, <2>2, <2>3, Zenon DEF IsNewline
<1>9. ASSUME Plain(t), \A k \in b + 1 .. e : IsNewline(k) => ClassAt(t, k - b) = "newline"
      PROVE  /\ IsNewline(e) \/ e = Len(file)
             /\ \A k \in b + 1 .. e - 1 : ~IsNewline(k)
             /\ code = "blank" <=> IsNewline(e) /\ Split(t) = <<>>
  <2>1. ApartTo(s, n) /\ NoNul(s, n) /\ ~Odd(s, n)
    BY <1>4, <1>5, <1>9, Zenon DEF Plain, Whole
  <2>2. ASSUME NEW k \in 1 .. n
        PROVE  /\ ClassOf(s[k]) # "etc" \/ s[k] = "\""
               /\ s[k] = "nl" => ClassAt(s, k) = "newline"
    <3>1. ClassOf(t[k]) # "etc" \/ t[k] = "\""
      BY <1>5, <1>9, Zenon DEF Plain
    <3>2. IsNewline(b + k) => ClassAt(t, k) = "newline"
      BY <1>8, <1>9, Zenon
    <3> QED
      BY <1>5, <1>8, <3>1, <3>2, Zenon
  <2>3. PlainTo(s, n)
    BY <2>1, <2>2, Zenon DEF PlainTo
  <2>4. /\ s[n] = "nl" \/ n = Len(s)
        /\ \A k \in 1 .. n - 1 : s[k] # "nl"
        /\ code = "blank" <=> s[n] = "nl" /\ Splits(s)[m] = <<>>
    BY <1>2, <1>6, <2>1, <2>3, Zenon DEF LineOK
  <2>5. n \in 1 .. n /\ b + n = e /\ (n = Len(s) => e = Len(file))
    BY <1>3, <1>7
  <2>6. IsNewline(e) <=> s[n] = "nl"
    BY <1>8, <2>5, Zenon
  <2>7. ASSUME NEW k \in b + 1 .. e - 1
        PROVE  ~IsNewline(k)
    <3>1. k - b \in 1 .. n - 1 /\ k - b \in 1 .. n /\ b + (k - b) = k
      BY <1>3, <1>7
    <3> QED
      BY <1>8, <2>4, <3>1, Zenon
  <2> QED
    BY <1>6, <2>4, <2>5, <2>6, <2>7, Zenon
<1>10. b = IF i = 1 THEN 0 ELSE lines[i - 1].to
  BY <1>2 DEF From
<1> QED
  BY <1>1, <1>9, <1>10, Zenon

LEMMA FaultsFollow == IInv => FaultsExplained
<1> SUFFICES ASSUME IInv PROVE FaultsExplained
  OBVIOUS
<1>1. TypeOK /\ file \in Files
  BY DEF IInv
<1>2. CASE fault = "none"
  BY <1>1, <1>2 DEF FaultsExplained
<1>3. CASE begun < pos /\ FaultOK(RestFrom(begun), pos - begun)
  <2>1. begun \in 0 .. Len(file) /\ pos \in begun + 1 .. Len(file)
    BY <1>1, <1>3, FilesAssumption DEF TypeOK
  <2>2. PICK s, n, t : s = RestFrom(begun) /\ n = pos - begun /\ t = Unread
    OBVIOUS
  <2>3. s \in Seq(Chars) /\ n \in 1 .. Len(s) /\ n \in Nat /\ t = SubSeq(s, 1, n)
    BY <1>1, <2>1, <2>2, TextIsPrefix, Zenon DEF Unread
  <2>4. /\ Len(t) = n /\ (Apart(t) <=> ApartTo(s, n)) /\ (Zeroless(t) <=> NoNul(s, n))
        /\ LongRun(t) <=> LongTo(s, n)
    BY <2>3, PrefixProperties, Zenon
  <2>5. Odd(t, n) <=> Odd(s, n)
    <3>1. n \in 0 .. n
      BY <2>3
    <3> QED
      BY <2>3, <3>1, PrefixAgrees, Zenon
  <2>6. Splits(t)[n] = Splits(s)[n]
    <3>1. n \in 0 .. n
      BY <2>3
    <3> QED
      BY <2>3, <3>1, PrefixSplits, Zenon
  <2>7. FaultOK(s, n)
    BY <1>3, <2>2, Zenon
  <2> QED
    BY <1>1, <2>2, <2>4, <2>5, <2>6, <2>7, Zenon DEF FaultsExplained, FaultOK, Whole
<1> QED
  BY <1>2, <1>3 DEF IInv

-----------------------------------------------------------------------------
\* Every line returned, and what has been read of the line begun, stand in the
\* relation to their texts that IInv says.
THEOREM LexerInvariant == Spec => []IInv
<1>1. IInv /\ [Next]_vars => IInv'
  BY InvariantStep
<1> QED
  BY InvariantInit, <1>1, PTL DEF Spec

\* The tokens of a line LineToTokens returns are the maximal runs of one class
\* in its text, whatever the alphabet and the file, when each string begins
\* behind a space or a quote, and only then when the last one is closed.
THEOREM TokensFound == Spec => []TokensAreRuns
  BY LexerInvariant, RunsFollow, PTL

\* LineToTokens gives the source's lines back, one after the other, as long as
\* their characters have classes and their strings are closed and begin behind
\* spaces; T_EXIT_BLANK stands for those without a token, and for no others.
THEOREM LinesFound == Spec => []LinesAreLines
  BY LexerInvariant, LinesFollow, PTL

\* Only a run longer than TOKEN_LEN, or more tokens than MAX_TOKENS_IN_LINE,
\* take LineToTokens behind the ends of word and of tokens, in a text it reads
\* as it is meant.
THEOREM FaultsFound == Spec => []FaultsExplained
  BY LexerInvariant, FaultsFollow, PTL
=============================================================================
