--------------------------- MODULE Runtime_proofs ---------------------------
(* Proofs about Runtime, for words and buffers of any size and every set of *)
(* scripts.                                                                 *)
EXTENDS Runtime, Induction, SequenceTheorems

-----------------------------------------------------------------------------
(* Division and powers of ten.                                             *)

LEMMA Divided ==
    ASSUME NEW a \in Nat, NEW s \in Nat \ {0}
    PROVE  a \div s \in Nat /\ a % s \in 0 .. s - 1 /\ a = s * (a \div s) + (a % s)
OBVIOUS

\* Quotient and remainder are the only ones, of negative numbers also.
LEMMA RemainderOnce ==
    ASSUME NEW s \in Nat \ {0}, NEW a \in Int, NEW q \in Int, NEW r \in 0 .. s - 1, a = s * q + r
    PROVE  a \div s = q /\ a % s = r
<1>1. a \div s \in Int /\ a % s \in 0 .. s - 1 /\ a = s * (a \div s) + (a % s)
  OBVIOUS
<1>2. PICK x \in Int, y \in 0 .. s - 1 : x = a \div s /\ y = a % s /\ s * x + y = s * q + r
  BY <1>1
<1>3. CASE x > q
  <2>1. s * x >= s * (q + 1) /\ s * (q + 1) = s * q + s
    BY <1>3
  <2> QED
    BY <1>2, <2>1
<1>4. CASE x < q
  <2>1. s * q >= s * (x + 1) /\ s * (x + 1) = s * x + s
    BY <1>4
  <2> QED
    BY <1>2, <2>1
<1> QED
  BY <1>2, <1>3, <1>4

LEMMA DividedOnce ==
    ASSUME NEW s \in Nat \ {0}, NEW a \in Nat, NEW q \in Nat, NEW r \in 0 .. s - 1, a = s * q + r
    PROVE  a \div s = q /\ a % s = r
BY RemainderOnce

LEMMA TenToSteps ==
    /\ TenTo \in [Nat -> Nat \ {0}] /\ TenTo[0] = 1
    /\ \A n \in Nat : TenTo[n + 1] = 10 * TenTo[n]
<1> DEFINE F(f) == f = [n \in Nat |-> IF n = 0 THEN 1 ELSE 10 * f[n - 1]]
<1>0. PICK T, x : T = Nat \ {0} /\ x = 1
  OBVIOUS
<1> DEFINE step == [p \in Nat \X T |-> 10 * p[2]]
<1>1. step \in Steps(T) /\ x \in T
  BY <1>0 DEF Steps
<1>2. \A n \in Nat, t \in T : step[<<n, t>>] = 10 * t
  OBVIOUS
<1> HIDE DEF step
<1>3. PICK f \in [Nat -> T] : f[0] = 1 /\ \A n \in Nat : f[n + 1] = step[<<n, f[n]>>]
  <2>1. \E f \in [Nat -> T] : f[0] = x /\ \A n \in Nat : f[n + 1] = step[<<n, f[n]>>]
    BY <1>1, RecursiveFunction
  <2> QED
    BY <1>0, <2>1, Zenon
<1>4. \A n \in Nat : f[n + 1] = 10 * f[n]
  BY <1>2, <1>3
<1>5. ASSUME NEW n \in Nat PROVE f[n] = IF n = 0 THEN 1 ELSE 10 * f[n - 1]
  <2>1. CASE n # 0
    <3>1. n - 1 \in Nat /\ (n - 1) + 1 = n
      BY <2>1
    <3> QED
      BY <1>4, <2>1, <3>1
  <2> QED
    BY <1>3, <2>1
<1>6. F(f)
  BY <1>3, <1>5
<1>7. TenTo = CHOOSE g : F(g)
  BY DEF TenTo
<1>8. F(TenTo)
  BY <1>6, <1>7
<1>9. \A n \in Nat : TenTo[n] = IF n = 0 THEN 1 ELSE 10 * TenTo[n - 1]
  BY <1>8
<1>10. ASSUME NEW n \in Nat PROVE TenTo[n + 1] = 10 * TenTo[n]
  BY <1>9, n + 1 \in Nat, n + 1 # 0, (n + 1) - 1 = n
<1>11. TenTo[0] = 1
  BY <1>9
<1>12. ASSUME NEW n \in Nat PROVE TenTo[n] \in Nat \ {0}
  <2> DEFINE N == { m \in Nat : TenTo[m] \in Nat \ {0} }
  <2>1. 0 \in N /\ \A m \in N : m + 1 \in N
    BY <1>10, <1>11
  <2>2. N \in SUBSET Nat
    OBVIOUS
  <2> HIDE DEF N
  <2>3. N = Nat
    BY <2>1, <2>2, InductiveSet, Zenon
  <2> QED
    BY <2>3 DEF N
<1>13. TenTo \in [Nat -> Nat \ {0}]
  <2>1. PICK h : h = [n \in Nat |-> IF n = 0 THEN 1 ELSE 10 * TenTo[n - 1]]
    OBVIOUS
  <2>2. TenTo = h
    BY <1>8, <2>1
  <2>3. TenTo = [n \in Nat |-> TenTo[n]]
    BY <2>1, <2>2, <1>9
  <2> QED
    BY <1>12, <2>3
<1> QED
  BY <1>10, <1>11, <1>13

LEMMA TenToGrows ==
    /\ \A n \in Nat : n < TenTo[n]
    /\ \A m, n \in Nat : m <= n => TenTo[m] <= TenTo[n]
<1>1. ASSUME NEW m \in Nat PROVE \A n \in Nat : m <= n => TenTo[m] <= TenTo[n]
  <2> DEFINE N == { n \in Nat : m <= n => TenTo[m] <= TenTo[n] }
  <2>1. 0 \in N
    BY TenToSteps
  <2>2. ASSUME NEW n \in N PROVE n + 1 \in N
    <3>1. TenTo[n + 1] = 10 * TenTo[n] /\ TenTo[n] \in Nat /\ TenTo[n + 1] \in Nat
      BY TenToSteps
    <3>2. CASE m = n + 1
      BY <3>1, <3>2
    <3>3. CASE m # n + 1
      BY <3>1, <3>3, TenToSteps
    <3> QED
      BY <3>2, <3>3
  <2>3. N \in SUBSET Nat
    OBVIOUS
  <2> HIDE DEF N
  <2>4. N = Nat
    BY <2>1, <2>2, <2>3, InductiveSet, Zenon
  <2> QED
    BY <2>4 DEF N
<1>2. \A n \in Nat : n < TenTo[n]
  <2> DEFINE N == { n \in Nat : n < TenTo[n] }
  <2>1. 0 \in N /\ \A n \in N : n + 1 \in N
    BY TenToSteps
  <2>2. N \in SUBSET Nat
    OBVIOUS
  <2> HIDE DEF N
  <2>3. N = Nat
    BY <2>1, <2>2, InductiveSet, Zenon
  <2> QED
    BY <2>3 DEF N
<1> QED
  BY <1>1, <1>2

\* One digit after the other.
LEMMA NextQuotient ==
    ASSUME NEW v \in Nat, NEW n \in Nat
    PROVE  (v \div TenTo[n]) \div 10 = v \div TenTo[n + 1]
<1>1. PICK t \in Nat \ {0} : t = TenTo[n] /\ TenTo[n + 1] = 10 * t
  BY TenToSteps
<1>2. PICK q \in Nat, r \in 0 .. t - 1 : q = v \div t /\ v = t * q + r
  BY Divided
<1>3. PICK a \in Nat, b \in 0 .. 9 : a = q \div 10 /\ q = 10 * a + b
  BY Divided
<1>4. t * q = t * (10 * a + b)
  BY <1>3
<1>5. t * (10 * a + b) = (10 * t) * a + t * b
  OBVIOUS
<1>6. t * b <= t * 9 /\ t * b \in Nat
  OBVIOUS
<1>7. PICK c \in Nat : c = t * b + r
  BY <1>6
<1>8. c \in 0 .. 10 * t - 1 /\ v = (10 * t) * a + c
  BY <1>2, <1>4, <1>5, <1>6, <1>7
<1>9. 10 * t \in Nat \ {0}
  OBVIOUS
<1>10. v \div (10 * t) = a
  BY <1>8, <1>9, DividedOnce
<1> QED
  BY <1>1, <1>2, <1>3, <1>10

\* How many digits a number has.
LEMMA LengthIs ==
    ASSUME NEW v \in Nat
    PROVE  /\ Length(v) \in 1 .. v + 1 /\ v < TenTo[Length(v)]
           /\ Length(v) > 1 => TenTo[Length(v) - 1] <= v
           /\ \A n \in Nat : n > 0 /\ v < TenTo[n] /\ (n > 1 => TenTo[n - 1] <= v) => n = Length(v)
<1> DEFINE S == { n \in Nat : n > 0 /\ v < TenTo[n] }
           P(n) == v < TenTo[n] /\ (n > 1 => TenTo[n - 1] <= v)
<1>1. v + 1 \in S
  BY TenToGrows, TenToSteps
<1>2. PICK m \in S : \A k \in S : m <= k
  BY <1>1, LeastNumber
<1>3. m \in 1 .. v + 1
  BY <1>1, <1>2
<1>4. m > 1 => TenTo[m - 1] <= v
  BY <1>2, TenToSteps
<1>5. P(m)
  BY <1>2, <1>4
<1>6. Length(v) = CHOOSE n \in 1 .. v + 1 : P(n)
  BY DEF Length
<1>7. Length(v) \in 1 .. v + 1 /\ P(Length(v))
  BY <1>3, <1>5, <1>6
<1>8. ASSUME NEW n \in Nat, n > 0, P(n) PROVE n = Length(v)
  <2>1. PICK l \in Nat : l = Length(v) /\ l > 0 /\ P(l)
    BY <1>7
  <2>2. CASE n < l
    <3>1. l - 1 \in Nat /\ n <= l - 1 /\ l > 1
      BY <1>8, <2>1, <2>2
    <3>2. TenTo[n] <= TenTo[l - 1] /\ TenTo[n] \in Nat /\ TenTo[l - 1] \in Nat
      BY <3>1, <2>1, TenToGrows, TenToSteps
    <3> QED
      BY <1>8, <2>1, <3>1, <3>2
  <2>3. CASE l < n
    <3>1. n - 1 \in Nat /\ l <= n - 1 /\ n > 1
      BY <1>8, <2>1, <2>3
    <3>2. TenTo[l] <= TenTo[n - 1] /\ TenTo[l] \in Nat /\ TenTo[n - 1] \in Nat
      BY <3>1, <2>1, TenToGrows, TenToSteps
    <3> QED
      BY <1>8, <2>1, <3>1, <3>2
  <2> QED
    BY <2>1, <2>2, <2>3
<1> QED
  BY <1>7, <1>8

-----------------------------------------------------------------------------
(* Fractions.                                                              *)

LEMMA Scaled == Scale \in Nat \ {0} /\ Modulus \in Nat \ {0}
BY ScaleAssumption, WordAssumption

\* The next digit of a fraction, and what is behind it.
LEMMA NextDigit ==
    ASSUME NEW f \in Nat, NEW n \in Nat
    PROVE  /\ Behind(f, n) \in 0 .. Scale - 1
           /\ (Behind(f, n) * 10) \div Scale = Digit(f, n + 1)
           /\ (Behind(f, n) * 10) % Scale = Behind(f, n + 1)
           /\ Digit(f, n + 1) \in 0 .. 9
<1>1. PICK t \in Nat \ {0}, s \in Nat \ {0} : t = TenTo[n] /\ TenTo[n + 1] = 10 * t /\ s = Scale
  BY TenToSteps, Scaled
<1>2. PICK a \in Nat : a = f * t /\ f * (10 * t) = 10 * a
  OBVIOUS
<1>3. PICK q \in Nat, r \in 0 .. s - 1 : r = a % s /\ q = a \div s /\ a = s * q + r
  <2>1. a \div s \in Nat /\ a % s \in 0 .. s - 1 /\ a = s * (a \div s) + (a % s)
    BY Divided
  <2> QED
    BY <2>1, Zenon
<1>4. PICK m \in Nat : m = r * 10
  OBVIOUS
<1>5. PICK d \in Nat, b \in 0 .. s - 1 : d = (r * 10) \div s /\ b = (r * 10) % s /\ r * 10 = s * d + b
  <2>1. m \div s \in Nat /\ m % s \in 0 .. s - 1 /\ m = s * (m \div s) + (m % s)
    BY Divided
  <2> QED
    BY <1>4, <2>1, Zenon
<1>6. d \in 0 .. 9
  <2>1. CASE d >= 10
    <3>1. s * d >= s * 10
      BY <2>1
    <3> QED
      BY <1>5, <3>1
  <2> QED
    BY <2>1
<1>7. 10 * a = s * (10 * q + d) + b
  <2>1. s * (10 * q + d) = 10 * (s * q) + s * d
    OBVIOUS
  <2>2. PICK x \in Nat, y \in Nat : x = s * q /\ y = s * d
    OBVIOUS
  <2>3. a = x + r /\ r * 10 = y + b /\ s * (10 * q + d) = 10 * x + y
    BY <1>3, <1>5, <2>1, <2>2
  <2> QED
    BY <2>3
<1>8. 10 * a \in Nat /\ 10 * q + d \in Nat
  OBVIOUS
<1>9. (10 * a) \div s = 10 * q + d /\ (10 * a) % s = b
  <2>1. PICK x \in Nat, y \in Nat : x = 10 * a /\ y = 10 * q + d
    BY <1>8
  <2>2. x = s * y + b
    BY <1>7, <2>1
  <2>3. x \div s = y /\ x % s = b
    BY <2>2, DividedOnce
  <2> QED
    BY <2>1, <2>3
<1>10. (10 * q + d) % 10 = d
  <2>1. d \in 0 .. 10 - 1 /\ 10 \in Nat \ {0}
    BY <1>6
  <2> QED
    BY <1>8, <2>1, DividedOnce
<1>11. Behind(f, n) = r /\ Behind(f, n + 1) = b
  BY <1>1, <1>2, <1>3, <1>9 DEF Behind
<1>12. Digit(f, n + 1) = d
  BY <1>1, <1>2, <1>9, <1>10 DEF Digit
<1> QED
  BY <1>1, <1>5, <1>6, <1>11, <1>12

\* How many digits of a fraction are written.
LEMMA SpelledIs ==
    ASSUME NEW f \in Nat, NEW most \in Nat
    PROVE  /\ Spelled(f, most) \in 0 .. most
           /\ Spelled(f, most) = most \/ Behind(f, Spelled(f, most)) = 0
           /\ \A m \in 0 .. Spelled(f, most) - 1 : Behind(f, m) # 0
<1> DEFINE S == { n \in Nat : n = most \/ Behind(f, n) = 0 }
           P(n) == /\ n = most \/ Behind(f, n) = 0
                   /\ \A m \in 0 .. n - 1 : Behind(f, m) # 0
<1>1. most \in S
  OBVIOUS
<1>2. PICK n \in S : \A k \in S : n <= k
  BY <1>1, LeastNumber
<1>3. n \in 0 .. most /\ P(n)
  BY <1>1, <1>2
<1>4. Spelled(f, most) = CHOOSE m \in 0 .. most : P(m)
  BY DEF Spelled
<1>5. Spelled(f, most) \in 0 .. most /\ P(Spelled(f, most))
  BY <1>3, <1>4
<1> QED
  BY <1>5

LEMMA SpelledOnce ==
    ASSUME NEW f \in Nat, NEW most \in Nat, NEW n \in 0 .. most,
           \A m \in 0 .. n - 1 : Behind(f, m) # 0
    PROVE  /\ n <= Spelled(f, most)
           /\ Behind(f, n) # 0 /\ n < most => n < Spelled(f, most)
           /\ n = most \/ Behind(f, n) = 0 => n = Spelled(f, most)
<1>1. PICK s \in 0 .. most : /\ s = Spelled(f, most)
                             /\ s = most \/ Behind(f, s) = 0
                             /\ \A m \in 0 .. s - 1 : Behind(f, m) # 0
  BY SpelledIs
<1>2. n <= s
  BY <1>1
<1>3. CASE n = most
  BY <1>1, <1>2, <1>3
<1>4. CASE Behind(f, n) = 0
  BY <1>1, <1>2, <1>4
<1>5. CASE Behind(f, n) # 0 /\ n < most
  BY <1>1, <1>2, <1>5
<1> QED
  BY <1>1, <1>2, <1>3, <1>4, <1>5

\* The buffers are large enough: n digits of a word, p of a fraction.
LEMMA Fits ==
    \E n, p \in Nat : /\ n + 2 <= DigitSpace /\ n + p + 3 <= DigitSpace + StringSpace
                      /\ \A v \in Words : Length(v) <= n
                      /\ \A f \in Nat : Spelled(f, 10) <= p /\ Spelled(f, Precision) <= p
<1>1. PICK n \in 1 .. DigitSpace, p \in 0 .. DigitSpace + StringSpace :
         /\ Modulus <= TenTo[n] /\ n + 2 <= DigitSpace
         /\ (TenTo[p] % Scale = 0 \/ (p >= 10 /\ p >= Precision))
         /\ n + p + 3 <= DigitSpace + StringSpace
  BY TextsFit
<1>2. n \in Nat /\ p \in Nat /\ n > 0 /\ Modulus \in Nat /\ TenTo[n] \in Nat /\ TenTo[p] \in Nat
  BY WordAssumption, TenToSteps
<1>3. ASSUME NEW v \in Words PROVE Length(v) <= n
  <2>0. v \in Nat
    BY <1>2 DEF Words
  <2>1. PICK l \in Nat : l = Length(v) /\ l > 0 /\ (l > 1 => TenTo[l - 1] <= v)
    <3>1. Length(v) \in 1 .. v + 1 /\ (Length(v) > 1 => TenTo[Length(v) - 1] <= v)
      BY <2>0, LengthIs, Zenon
    <3>2. Length(v) \in Nat /\ Length(v) > 0
      BY <2>0, <3>1
    <3> QED
      BY <3>1, <3>2
  <2> SUFFICES ASSUME n < l PROVE FALSE
    BY <1>2, <2>1
  <2>2. n <= l - 1 /\ l - 1 \in Nat /\ l > 1
    BY <1>2, <2>1
  <2>3. TenTo[n] <= TenTo[l - 1] /\ TenTo[l - 1] \in Nat
    BY <1>2, <2>2, TenToGrows, TenToSteps
  <2> QED
    BY <1>1, <1>2, <2>1, <2>2, <2>3 DEF Words
<1>4. ASSUME NEW f \in Nat, NEW most \in {10, Precision} PROVE Spelled(f, most) <= p
  <2>1. most \in Nat
    BY SpaceAssumption
  <2>2. PICK s \in 0 .. most : s = Spelled(f, most) /\ \A m \in 0 .. s - 1 : Behind(f, m) # 0
    BY <2>1, SpelledIs
  <2>3. CASE TenTo[p] % Scale = 0
    <3>1. PICK t \in Nat, z \in Nat \ {0} : t = TenTo[p] /\ z = Scale
      BY <1>2, Scaled
    <3>2. PICK q \in Nat : t = z * q
      <4>1. t \div z \in Nat /\ t = z * (t \div z) + (t % z)
        BY Divided
      <4>2. PICK q \in Nat : q = t \div z
        BY <4>1
      <4>3. (t % z) = 0
        BY <2>3, <3>1
      <4>4. z * q \in Nat
        OBVIOUS
      <4> QED
        BY <4>1, <4>2, <4>3, <4>4
    <3>3. f * t = z * (f * q) + 0 /\ f * q \in Nat /\ f * t \in Nat
      BY <3>2
    <3>4. 0 \in 0 .. z - 1
      OBVIOUS
    <3>5. (f * t) % z = 0
      BY <3>3, <3>4, DividedOnce
    <3>6. Behind(f, p) = 0
      BY <3>1, <3>5 DEF Behind
    <3> QED
      BY <1>2, <2>1, <2>2, <3>6
  <2>4. CASE p >= 10 /\ p >= Precision
    BY <1>2, <2>1, <2>2, <2>4
  <2> QED
    BY <1>1, <2>3, <2>4
<1> QED
  BY <1>1, <1>2, <1>3, <1>4

-----------------------------------------------------------------------------
(* Numbers as text.                                                        *)

\* The recursion that defines Value, as a condition on f.
Sums(f, s) == f = [n \in 0 .. Len(s) |-> IF n = 0 THEN 0 ELSE f[n - 1] * 10 + s[n] - Zero]

LEMMA SumsSteps ==
    ASSUME NEW f, NEW s \in Seq(Byte), Sums(f, s)
    PROVE  f[0] = 0 /\ \A n \in Nat : n < Len(s) => f[n + 1] = f[n] * 10 + s[n + 1] - Zero
<1>1. \A n \in 0 .. Len(s) : f[n] = IF n = 0 THEN 0 ELSE f[n - 1] * 10 + s[n] - Zero
  BY DEF Sums
<1>2. Len(s) \in Nat
  OBVIOUS
<1>3. ASSUME NEW n \in Nat, n < Len(s) PROVE f[n + 1] = f[n] * 10 + s[n + 1] - Zero
  <2>1. n + 1 \in 0 .. Len(s) /\ n + 1 # 0 /\ (n + 1) - 1 = n
    BY <1>2, <1>3
  <2> QED
    BY <1>1, <2>1
<1> QED
  BY <1>1, <1>2, <1>3

LEMMA SumsExist ==
    ASSUME NEW s \in Seq(Byte)
    PROVE  \E f : Sums(f, s)
<1> DEFINE step == [p \in Nat \X Int |->
                      IF p[1] < Len(s) THEN p[2] * 10 + s[p[1] + 1] - Zero ELSE 0]
<1>1. ASSUME NEW n \in Nat, NEW a \in Int
      PROVE  (IF n < Len(s) THEN a * 10 + s[n + 1] - Zero ELSE 0) \in Int
  <2>1. CASE n < Len(s)
    <3>1. n + 1 \in 1 .. Len(s)
      BY <2>1
    <3>2. s[n + 1] \in Byte
      BY <3>1
    <3>3. PICK b : b = s[n + 1]
      OBVIOUS
    <3>4. b \in Byte
      BY <3>2, <3>3
    <3>5. b \in Nat
      BY <3>4 DEF Byte
    <3> QED
      BY <2>1, <3>3, <3>5 DEF Zero
  <2> QED
    BY <2>1
<1>2. step \in Steps(Int)
  BY <1>1 DEF Steps
<1>3. \A n \in Nat, a \in Int : n < Len(s) => step[<<n, a>>] = a * 10 + s[n + 1] - Zero
  OBVIOUS
<1> HIDE DEF step
<1>4. 0 \in Int
  OBVIOUS
<1>5. PICK g \in [Nat -> Int] : g[0] = 0 /\ \A n \in Nat : g[n + 1] = step[<<n, g[n]>>]
  <2>1. PICK T : T = Int
    OBVIOUS
  <2>2. 0 \in T /\ step \in Steps(T)
    BY <1>2, <2>1
  <2> HIDE <2>1
  <2>3. \E g \in [Nat -> T] : g[0] = 0 /\ \A n \in Nat : g[n + 1] = step[<<n, g[n]>>]
    BY <2>2, RecursiveFunction
  <2> QED
    BY <2>1, <2>3
<1>6. PICK f : f = [n \in 0 .. Len(s) |-> g[n]]
  OBVIOUS
<1>7. ASSUME NEW n \in 0 .. Len(s)
      PROVE  f[n] = IF n = 0 THEN 0 ELSE f[n - 1] * 10 + s[n] - Zero
  <2>1. CASE n = 0
    BY <1>5, <1>6, <2>1
  <2>2. CASE n # 0
    <3>1. PICK m \in Nat : m = n - 1 /\ m + 1 = n /\ m < Len(s) /\ m \in 0 .. Len(s)
      BY <2>2
    <3>2. g[m + 1] = g[m] * 10 + s[m + 1] - Zero
      BY <1>3, <1>5, <3>1
    <3> QED
      BY <1>6, <2>2, <3>1, <3>2
  <2> QED
    BY <2>1, <2>2
<1>8. Sums(f, s)
  BY <1>6, <1>7 DEF Sums
<1> QED
  BY <1>8

LEMMA ValueSums ==
    ASSUME NEW s \in Seq(Byte)
    PROVE  \E f : Sums(f, s) /\ Value(s) = f[Len(s)]
<1>1. \E f : Sums(f, s)
  BY SumsExist
<1> DEFINE f == CHOOSE f : f = [n \in 0 .. Len(s) |-> IF n = 0 THEN 0 ELSE f[n - 1] * 10 + s[n] - Zero]
<1>2. Sums(f, s)
  BY <1>1 DEF Sums
<1>3. Value(s) = f[Len(s)]
  BY DEF Value
<1> QED
  BY <1>2, <1>3

LEMMA ValueOfNothing == Value(<< >>) = 0
<1>1. << >> \in Seq(Byte) /\ Len(<< >>) = 0
  OBVIOUS
<1>2. PICK f : Sums(f, << >>) /\ Value(<< >>) = f[Len(<< >>)]
  BY <1>1, ValueSums
<1>3. f[0] = 0
  BY <1>1, <1>2, SumsSteps
<1> QED
  BY <1>1, <1>2, <1>3

\* One more digit, as atoi reads it.
LEMMA ValueGrows ==
    ASSUME NEW s \in Seq(Byte), NEW c \in Byte
    PROVE  Value(Append(s, c)) = Value(s) * 10 + c - Zero
<1>0. /\ Append(s, c) \in Seq(Byte) /\ Len(Append(s, c)) = Len(s) + 1
      /\ Append(s, c)[Len(s) + 1] = c /\ \A i \in 1 .. Len(s) : Append(s, c)[i] = s[i]
  BY AppendProperties
<1>1. PICK t \in Seq(Byte) : t = Append(s, c) /\ Len(t) = Len(s) + 1 /\ t[Len(s) + 1] = c
                             /\ \A i \in 1 .. Len(s) : t[i] = s[i]
  BY <1>0
<1>2. PICK f : Sums(f, s) /\ Value(s) = f[Len(s)]
  BY ValueSums
<1>3. PICK g : Sums(g, t) /\ Value(t) = g[Len(t)]
  BY ValueSums
<1>4. f[0] = 0 /\ \A n \in Nat : n < Len(s) => f[n + 1] = f[n] * 10 + s[n + 1] - Zero
  BY <1>2, SumsSteps
<1>5. g[0] = 0 /\ \A n \in Nat : n < Len(t) => g[n + 1] = g[n] * 10 + t[n + 1] - Zero
  BY <1>3, SumsSteps
<1> DEFINE N == { n \in Nat : n <= Len(s) => f[n] = g[n] }
<1>6. 0 \in N
  BY <1>4, <1>5
<1>7. ASSUME NEW n \in N PROVE n + 1 \in N
  <2> SUFFICES ASSUME n + 1 <= Len(s) PROVE f[n + 1] = g[n + 1]
    OBVIOUS
  <2>1. f[n] = g[n] /\ n < Len(s) /\ n < Len(t) /\ n + 1 \in 1 .. Len(s) /\ n \in Nat
    BY <1>1
  <2>2. s[n + 1] = t[n + 1]
    BY <1>1, <2>1
  <2> QED
    BY <1>4, <1>5, <2>1, <2>2
<1>8. N \in SUBSET Nat
  OBVIOUS
<1> HIDE DEF N
<1>9. N = Nat
  BY <1>6, <1>7, <1>8, InductiveSet, Zenon
<1>10. Len(s) \in Nat
  OBVIOUS
<1>11. f[Len(s)] = g[Len(s)]
  BY <1>9, <1>10 DEF N
<1>12. g[Len(s) + 1] = g[Len(s)] * 10 + t[Len(s) + 1] - Zero
  BY <1>1, <1>5, <1>10
<1> QED
  BY <1>1, <1>2, <1>3, <1>11, <1>12

LEMMA ValueIsNumber ==
    ASSUME NEW s \in Seq(Byte), \A i \in 1 .. Len(s) : IsDigit(s[i])
    PROVE  Value(s) \in Nat
<1>1. PICK f : Sums(f, s) /\ Value(s) = f[Len(s)]
  BY ValueSums
<1>2. f[0] = 0 /\ \A n \in Nat : n < Len(s) => f[n + 1] = f[n] * 10 + s[n + 1] - Zero
  BY <1>1, SumsSteps
<1> DEFINE N == { n \in Nat : n <= Len(s) => f[n] \in Nat }
<1>3. 0 \in N
  BY <1>2
<1>4. ASSUME NEW n \in N PROVE n + 1 \in N
  <2> SUFFICES ASSUME n + 1 <= Len(s) PROVE f[n + 1] \in Nat
    OBVIOUS
  <2>1. PICK d \in 0 .. 9 : s[n + 1] = Zero + d
    <3>1. n + 1 \in 1 .. Len(s)
      OBVIOUS
    <3>2. s[n + 1] \in Zero .. Zero + 9
      BY <3>1 DEF IsDigit
    <3> QED
      BY <3>2 DEF Zero
  <2>2. f[n] \in Nat /\ f[n + 1] = f[n] * 10 + s[n + 1] - Zero
    BY <1>2
  <2> QED
    BY <2>1, <2>2 DEF Zero
<1>5. N \in SUBSET Nat
  OBVIOUS
<1> HIDE DEF N
<1>6. N = Nat
  BY <1>3, <1>4, <1>5, InductiveSet, Zenon
<1> QED
  BY <1>1, <1>6 DEF N

-----------------------------------------------------------------------------
(* Lines.                                                                  *)

\* The first n characters of a text go on to its first end of a line.
EndsAt(text, n) ==
    /\ n \in 0 .. Len(text) /\ \A i \in 1 .. n : ~StopsAt(text[i])
    /\ n < Len(text) => StopsAt(text[n + 1])

LEMMA FirstLineEnds ==
    ASSUME NEW text \in Seq(Byte)
    PROVE  \E n \in Nat : EndsAt(text, n)
<1> DEFINE S == { n \in Nat : n = Len(text) \/ (n < Len(text) /\ StopsAt(text[n + 1])) }
<1>1. Len(text) \in S
  OBVIOUS
<1>2. PICK n \in S : \A k \in S : n <= k
  BY <1>1, LeastNumber
<1>3. n \in Nat /\ Len(text) \in Nat /\ n <= Len(text) /\ (n < Len(text) => StopsAt(text[n + 1]))
  BY <1>1, <1>2
<1>4. ASSUME NEW i \in 1 .. n PROVE ~StopsAt(text[i])
  <2>1. PICK k \in Nat : k = i - 1 /\ k + 1 = i /\ k < n /\ k < Len(text)
    BY <1>3
  <2>2. k \notin S
    BY <1>2, <2>1
  <2> QED
    BY <2>1, <2>2
<1> HIDE DEF S
<1>5. EndsAt(text, n)
  BY <1>3, <1>4 DEF EndsAt
<1> QED
  BY <1>3, <1>5

LEMMA FirstLineIs ==
    ASSUME NEW text \in Seq(Byte), NEW n \in Nat, EndsAt(text, n)
    PROVE  FirstLine(text) = SubSeq(text, 1, n)
<1> DEFINE ends == { i \in 1 .. Len(text) : StopsAt(text[i]) }
<1>1. Len(text) \in Nat /\ n <= Len(text) /\ \A i \in 1 .. n : ~StopsAt(text[i])
  BY DEF EndsAt
<1>2. FirstLine(text) = IF ends = {} THEN text
                        ELSE SubSeq(text, 1, (CHOOSE i \in ends : \A j \in ends : i <= j) - 1)
  BY DEF FirstLine
<1>3. CASE n = Len(text)
  <2>1. ends = {}
    BY <1>1, <1>3
  <2>2. SubSeq(text, 1, Len(text)) = text
    OBVIOUS
  <2> QED
    BY <1>2, <1>3, <2>1, <2>2
<1>4. CASE n < Len(text)
  <2>1. n + 1 \in ends
    BY <1>1, <1>4 DEF EndsAt
  <2>2. \A j \in ends : n + 1 <= j
    BY <1>1
  <2>3. ASSUME NEW e \in ends, \A j \in ends : e <= j PROVE e = n + 1
    BY <2>1, <2>2, <2>3
  <2>4. (CHOOSE i \in ends : \A j \in ends : i <= j) = n + 1
    BY <2>1, <2>2, <2>3
  <2>5. (n + 1) - 1 = n /\ ends # {}
    BY <2>1
  <2> QED
    BY <1>2, <2>4, <2>5
<1> QED
  BY <1>1, <1>3, <1>4

LEMMA NewlineFound ==
    ASSUME NEW text \in Seq(Byte), HasNewline(text)
    PROVE  /\ FirstNewline(text) \in 1 .. Len(text) /\ text[FirstNewline(text)] = Newline
           /\ \A i \in 1 .. FirstNewline(text) - 1 : text[i] # Newline
<1> DEFINE S == { i \in Nat : i \in 1 .. Len(text) /\ text[i] = Newline }
           P(i) == text[i] = Newline /\ \A j \in 1 .. i - 1 : text[j] # Newline
<1>0. DOMAIN text = 1 .. Len(text) /\ Len(text) \in Nat
  OBVIOUS
<1>1. S # {}
  BY <1>0 DEF HasNewline
<1>2. PICK n \in S : \A k \in S : n <= k
  BY <1>1, LeastNumber
<1>3. n \in 1 .. Len(text) /\ P(n)
  BY <1>0, <1>2
<1>4. FirstNewline(text) = CHOOSE i \in 1 .. Len(text) : P(i)
  BY <1>0 DEF FirstNewline
<1>5. FirstNewline(text) \in 1 .. Len(text) /\ P(FirstNewline(text))
  BY <1>3, <1>4
<1> QED
  BY <1>5

LEMMA LaterIsText ==
    ASSUME NEW text \in Seq(Byte)
    PROVE  Later(text) \in Seq(Byte)
<1>1. CASE HasNewline(text)
  <2>1. PICK n \in 1 .. Len(text) : n = FirstNewline(text)
    BY <1>1, NewlineFound
  <2>2. SubSeq(text, n + 1, Len(text)) \in Seq(Byte)
    OBVIOUS
  <2> QED
    BY <1>1, <2>1, <2>2 DEF Later
<1>2. CASE ~HasNewline(text)
  BY <1>2 DEF Later
<1> QED
  BY <1>1, <1>2

LEMMA UnreadSteps ==
    ASSUME script.file \in Seq(Byte)
    PROVE  /\ \A k \in Nat : Unread[k] \in Seq(Byte)
           /\ Unread[0] = script.file /\ \A k \in Nat : Unread[k + 1] = Later(Unread[k])
<1>1. PICK file, T : file = script.file /\ T = Seq(Byte)
  OBVIOUS
<1> DEFINE step == [p \in Nat \X T |-> Later(p[2])]
           F(f) == f = [k \in Nat |-> IF k = 0 THEN script.file ELSE Later(f[k - 1])]
<1>2. \A t \in T : Later(t) \in T
  BY <1>1, LaterIsText
<1>3. step \in Steps(T) /\ file \in T
  BY <1>1, <1>2 DEF Steps
<1>4. \A k \in Nat, t \in T : step[<<k, t>>] = Later(t)
  OBVIOUS
<1> HIDE DEF step
<1>5. PICK f \in [Nat -> T] : f[0] = file /\ \A k \in Nat : f[k + 1] = step[<<k, f[k]>>]
  BY <1>3, RecursiveFunction
<1>6. \A k \in Nat : f[k + 1] = Later(f[k])
  BY <1>4, <1>5
<1>7. ASSUME NEW k \in Nat PROVE f[k] = IF k = 0 THEN script.file ELSE Later(f[k - 1])
  <2>1. CASE k # 0
    <3>1. k - 1 \in Nat /\ (k - 1) + 1 = k
      BY <2>1
    <3>2. f[(k - 1) + 1] = Later(f[k - 1])
      BY <1>6, <3>1
    <3> QED
      BY <2>1, <3>1, <3>2
  <2> QED
    BY <1>1, <1>5, <2>1
<1>8. F(f)
  BY <1>5, <1>7
<1>9. F(Unread)
  BY <1>8 DEF Unread
<1>10. \A k \in Nat : Unread[k] = IF k = 0 THEN script.file ELSE Later(Unread[k - 1])
  BY <1>9
<1>11. ASSUME NEW k \in Nat PROVE Unread[k + 1] = Later(Unread[k])
  BY <1>10, k + 1 \in Nat, k + 1 # 0, (k + 1) - 1 = k
<1>12. Unread[0] = script.file
  BY <1>10
<1> DEFINE N == { k \in Nat : Unread[k] \in Seq(Byte) }
<1>13. 0 \in N /\ \A k \in N : k + 1 \in N
  <2>1. 0 \in N
    BY <1>12
  <2>2. ASSUME NEW k \in N PROVE k + 1 \in N
    <3>1. Unread[k + 1] = Later(Unread[k]) /\ Unread[k] \in Seq(Byte) /\ k \in Nat
      BY <1>11
    <3>2. Unread[k + 1] \in Seq(Byte)
      BY <3>1, LaterIsText
    <3> QED
      BY <3>1, <3>2
  <2> QED
    BY <2>1, <2>2
<1>14. N \in SUBSET Nat
  OBVIOUS
<1> HIDE DEF N
<1>15. N = Nat
  BY <1>13, <1>14, InductiveSet, Zenon
<1>16. \A k \in Nat : Unread[k] \in Seq(Byte)
  BY <1>15 DEF N
<1> QED
  BY <1>11, <1>12, <1>16

LEMMA BodyIs ==
    ASSUME NEW line \in Seq(Byte)
    PROVE  /\ Body(line) \in Seq(Byte)
           /\ (Body(line) # line) <=> (line # << >> /\ line[1] = Minus)
           /\ Body(line) # line => /\ Len(Body(line)) = Len(line) - 1
                                   /\ \A i \in 1 .. Len(line) - 1 : Body(line)[i] = line[i + 1]
<1>1. CASE line # << >> /\ line[1] = Minus
  <2>1. PICK n, t : /\ n = Len(line) /\ t = Tail(line) /\ n \in Nat
                    /\ t \in Seq(Byte) /\ Len(t) = n - 1
                    /\ \A i \in 1 .. n - 1 : t[i] = line[i + 1]
    <3>1. /\ Len(line) \in Nat /\ Tail(line) \in Seq(Byte) /\ Len(Tail(line)) = Len(line) - 1
          /\ \A i \in 1 .. Len(line) - 1 : Tail(line)[i] = line[i + 1]
      BY <1>1
    <3> QED
      BY <3>1, Zenon
  <2>2. Body(line) = t
    BY <1>1, <2>1, Zenon DEF Body
  <2>3. n # n - 1
    BY <2>1
  <2>4. t # line
    BY <2>1, <2>3, Zenon
  <2> QED
    BY <1>1, <2>1, <2>2, <2>4, Zenon
<1>2. CASE ~(line # << >> /\ line[1] = Minus)
  <2>1. Body(line) = line
    BY <1>2, Zenon DEF Body
  <2> QED
    BY <1>2, <2>1, Zenon
<1> QED
  BY <1>1, <1>2, Zenon

LEMMA NegatedIs ==
    /\ \A w \in Words : Negated(w) \in Words
    /\ \A w \in Words : w >= Half => Negated(w) = Modulus - w
    /\ \A n \in Nat : n % Modulus \in Words /\ Negated(n % Modulus) = (-n) % Modulus
    /\ MinusOne \in Words /\ (-1) % Modulus = MinusOne 
    /\ \A x \in Int : x = -1 => (-x) % Modulus = Negated(MinusOne)
<1>1. PICK m \in Nat \ {0} : m = Modulus /\ m > 1 /\ Half = m \div 2
  BY WordAssumption DEF Half
<1>2. ASSUME NEW w \in Words PROVE Negated(w) \in Words /\ (w >= Half => Negated(w) = Modulus - w)
  <2>1. m - w \in Nat /\ w \in 0 .. m - 1
    BY <1>1 DEF Words
  <2>2. (m - w) % m \in 0 .. m - 1
    BY <2>1, Divided
  <2>3. ASSUME w >= Half PROVE (m - w) % m = m - w
    <3>1. m \div 2 > 0
      BY <1>1
    <3>2. m - w \in 0 .. m - 1 /\ m - w = m * 0 + (m - w)
      BY <1>1, <2>1, <2>3, <3>1
    <3>3. PICK d \in 0 .. m - 1 : d = m - w /\ d = m * 0 + d
      BY <3>2
    <3>4. d % m = d
      BY <3>3, DividedOnce
    <3> QED
      BY <3>3, <3>4
  <2> QED
    BY <1>1, <2>2, <2>3 DEF Negated, Words
<1>3. ASSUME NEW n \in Nat PROVE n % Modulus \in Words /\ Negated(n % Modulus) = (-n) % Modulus
  <2>1. PICK q \in Nat, r \in 0 .. m - 1 : q = n \div m /\ r = n % m /\ n = m * q + r
    BY Divided
  <2>2. CASE r = 0
    <3>1. (m - r) % m = 0
      <4>1. m = m * 1 + 0 /\ 0 \in 0 .. m - 1 /\ m - r = m
        BY <2>2
      <4>2. m % m = 0
        BY <4>1, DividedOnce
      <4> QED
        BY <4>1, <4>2
    <3>2. PICK x \in Int : x = -n /\ x = m * (-q) + 0
      BY <2>1, <2>2
    <3>3. -q \in Int /\ 0 \in 0 .. m - 1
      OBVIOUS
    <3>4. x % m = 0
      BY <3>2, <3>3, RemainderOnce
    <3> QED
      BY <1>1, <2>1, <3>1, <3>2, <3>4 DEF Words, Negated
  <2>3. CASE r # 0
    <3>1. PICK d \in 0 .. m - 1 : d = m - r
      BY <2>3
    <3>2. d = m * 0 + d
      OBVIOUS
    <3>3. d % m = d
      BY <3>2, DividedOnce
    <3>4. PICK x \in Int : x = -n
      OBVIOUS
    <3>5. PICK p \in Int : p = -q - 1 /\ x = m * p + d
      <4>1. m * (-q - 1) = -(m * q) - m
        OBVIOUS
      <4> QED
        BY <2>1, <3>1, <3>4, <4>1
    <3>6. x % m = d
      BY <3>5, RemainderOnce
    <3> QED
      BY <1>1, <2>1, <3>1, <3>3, <3>4, <3>6 DEF Words, Negated
  <2> QED
    BY <2>2, <2>3
<1>4. MinusOne \in Words /\ (-1) % Modulus = MinusOne
  BY <1>1 DEF MinusOne, Words
<1>5. ASSUME NEW x \in Int, x = -1 PROVE (-x) % Modulus = Negated(MinusOne)
  <2>1. m - (m - 1) = 1
    OBVIOUS
  <2>2. Negated(MinusOne) = 1 % m
    BY <1>1, <2>1 DEF Negated, MinusOne
  <2>3. x + 1 = 0
    BY <1>5
  <2>4. -x = 1
    BY <2>3
  <2> QED
    BY <1>1, <2>2, <2>4
<1> QED
  BY <1>2, <1>3, <1>4, <1>5

\* The value of a line, in the words of atoi.
LEMMA NumberIs ==
    ASSUME NEW line \in Seq(Byte), NEW body \in Seq(Byte), body = Body(line), NEW w,
           w = IF \A i \in 1 .. Len(body) : IsDigit(body[i]) THEN Value(body) % Modulus ELSE MinusOne
    PROVE  /\ w \in Words
           /\ Number(line) = IF line # << >> /\ line[1] = Minus THEN Negated(w) ELSE w
<1>1. (body # line) <=> (line # << >> /\ line[1] = Minus)
  BY BodyIs
<1>2. DOMAIN body = 1 .. Len(body)
  OBVIOUS
<1>3. Number(line) = (IF body # line THEN -Size(body) ELSE Size(body)) % Modulus
  BY DEF Number
<1>4. CASE \A i \in 1 .. Len(body) : IsDigit(body[i])
  <2>1. PICK n \in Nat : n = Value(body)
    BY <1>4, ValueIsNumber
  <2>2. Size(body) = n
    BY <1>2, <1>4, <2>1 DEF Size
  <2>3. w = n % Modulus
    BY <1>4, <2>1
  <2>4. w \in Words /\ Negated(w) = (-n) % Modulus
    BY <2>3, NegatedIs
  <2> QED
    BY <1>1, <1>3, <2>2, <2>3, <2>4
<1>5. CASE ~\A i \in 1 .. Len(body) : IsDigit(body[i])
  <2>1. Size(body) = -1 /\ Size(body) \in Int /\ w = MinusOne
    BY <1>2, <1>5 DEF Size
  <2> QED
    BY <1>1, <1>3, <2>1, NegatedIs
<1> QED
  BY <1>4, <1>5

-----------------------------------------------------------------------------
(* The inductive invariant.                                                *)

Current == script.calls[done]
Magnitude(c) == IF Whole(c) >= Half THEN Negated(Whole(c)) ELSE Whole(c)
InItoa == pc \in {"itoa", "count", "store"}
Printing == InItoa \/ pc \in {"point", "digits", "write"}
Reading == pc \in {"atoi", "sign"}

StateInv ==
    /\ script \in Scripts /\ chunks \in Seq(Seq(Byte))
    /\ \A k \in 1 .. Len(chunks) : Len(chunks[k]) <= StringSpace
    /\ pc \notin {"idle", "crashed"} => done > 0
    /\ Printing => Prints(Current)
    /\ Reading => Current.op = "input"
    /\ pc \in {"point", "digits"} => Current.op = "float"
    /\ InItoa \/ pc = "point" =>
          frac = IF Current.op = "print" THEN -1 ELSE Fraction(Current)
    /\ pc \in {"idle", "atoi", "sign"} /\ done > 0 =>
          (Current.op = "input" => rsi >= DigitSpace)

\* The byte in front is written by itoa only; the last cell stays clear.
MarkInv ==
    /\ mem[0] = IF InItoa THEN Mark(done - 1) ELSE Mark(done)
    /\ mem[DigitSpace + StringSpace] = 0

\* What itoa has counted, and the digits it has stored.
ItoaInv ==
    LET v == Magnitude(Current)
    IN  /\ pc = "itoa" => edi = Whole(Current)
        /\ pc \in {"count", "store", "point"} => edi = v
        /\ pc \in {"count", "store"} => v # 0 /\ r10 = (Whole(Current) >= Half)
        /\ pc = "count" => eax = v \div TenTo[ecx] /\ (ecx > 0 => eax # 0)
        /\ pc = "store" =>
              /\ ecx <= Length(v) /\ rsi = ecx + 1 /\ len = Length(v) + 1
              /\ eax = v \div TenTo[Length(v) - ecx]
              /\ \A i \in ecx + 1 .. Length(v) : mem[i] = Decimal(v)[i]

\* The text that PRINT is going to write, as far as it is there.
SentOf(m, l) == [i \in 1 .. l |-> m[i - 1]]
Sent == SentOf(mem, len)
Front(k) == (IF Whole(script.calls[k]) = 0 THEN <<>> ELSE <<Mark(k)>>)
            \o Decimal(Magnitude(script.calls[k]))
Fractional(k, n) == (Front(k) \o <<Point>>)
                    \o [i \in 1 .. n |-> Zero + Digit(Fraction(script.calls[k]), i)]
Written(k) ==
    LET c == script.calls[k]
    IN  IF c.op = "print" THEN Front(k)
        ELSE Fractional(k, Spelled(Fraction(c), Places(c))) \o IF Full(c) THEN <<0>> ELSE <<>>
TextInv ==
    /\ pc = "point" => Sent = Front(done)
    /\ pc = "digits" =>
          LET n == Places(Current) - ecx
          IN  /\ ecx <= Places(Current) /\ Sent = Fractional(done, n)
              /\ frac = Behind(Fraction(Current), n)
              /\ \A m \in 0 .. n - 1 : Behind(Fraction(Current), m) # 0
    /\ pc = "write" => Sent = Written(done)
    /\ pc = "idle" /\ done > 0 => (Prints(Current) => shown = Written(done))

\* What is in stringspace, and how much of it atoi has read.
Buffer == [i \in 1 .. StringSpace |-> mem[DigitSpace + i - 1]]
Start == IF r10 THEN DigitSpace + 1 ELSE DigitSpace
Digested == [i \in 1 .. rsi - Start |-> mem[Start + i - 1]]
CountInv == Len(chunks) = Len(inputs) + IF Reading THEN 1 ELSE 0
AtoiInv ==
    pc = "atoi" =>
        /\ r10 = (mem[DigitSpace] = Minus) /\ rsi >= Start
        /\ \A i \in Start .. rsi - 1 : IsDigit(mem[i])
        /\ eax = Value(Digested) % Modulus
SignInv == pc = "sign" => (IF r10 THEN Negated(eax) ELSE eax) = Number(FirstLine(Buffer))
StoredInv ==
    ~Disturbed => /\ Buffer = Overlay(Len(chunks))
                  /\ \A k \in 1 .. Len(inputs) : inputs[k] = Number(FirstLine(Overlay(k)))
ReadInv == CountInv /\ AtoiInv /\ SignInv /\ StoredInv

\* On a terminal the reads deliver the lines.
LineSize(text) == IF HasNewline(text) THEN FirstNewline(text) ELSE Len(text)
LinesFit == script.terminal /\ \A k \in 0 .. Len(script.calls) : LineFits(Unread[k])
LinesInv ==
    LinesFit =>
        /\ rest = Unread[Len(chunks)]
        /\ \A k \in 1 .. Len(chunks) :
              chunks[k] = SubSeq(Unread[k - 1], 1, LineSize(Unread[k - 1]))

PrintInv == TypeOK /\ StateInv /\ MarkInv /\ ItoaInv /\ TextInv
RuntimeInv == PrintInv /\ ReadInv /\ LinesInv

-----------------------------------------------------------------------------
(* Calls and their texts.                                                  *)

LEMMA SpacesAre == /\ DigitSpace \in Nat \ {0} /\ StringSpace \in Nat \ {0} /\ Precision \in Nat \ {0}
                   /\ Modulus \in Nat /\ Modulus > 1 /\ Half \in Nat /\ Half > 0 /\ Half < Modulus
BY SpaceAssumption, WordAssumption DEF Half

LEMMA CellsAre == /\ 0 \in Cells /\ DigitSpace + StringSpace \in Cells /\ DigitSpace + StringSpace # 0
                  /\ \A i \in Nat : i <= DigitSpace => i \in Cells
BY SpacesAre DEF Cells

LEMMA CallIs ==
    ASSUME NEW c \in Call
    PROVE  /\ c.op \in {"print", "float", "input"}
           /\ c.op = "float" => Fraction(c) \in 0 .. Scale - 1
           /\ Prints(c) => Whole(c) \in Words /\ Magnitude(c) \in Words
                           /\ (Magnitude(c) = 0 <=> Whole(c) = 0)
           /\ Places(c) \in {10, Precision} /\ Places(c) \in Nat
<1>1. /\ c.op \in {"print", "float", "input"}
      /\ c.op = "print" => c.v \in Words
      /\ c.op = "float" => c.v \in Nat
  <2>1. 0 .. Scale * Modulus * Half - 1 \subseteq Nat
    OBVIOUS
  <2> QED
    BY <2>1 DEF Call
<1>2. ASSUME c.op = "float" PROVE Fraction(c) \in 0 .. Scale - 1
  <2>1. PICK v \in Nat, s \in Nat \ {0} : v = c.v /\ s = Scale
    BY <1>1, <1>2, Scaled
  <2>2. v % s \in 0 .. s - 1
    BY Divided
  <2> QED
    BY <2>1, <2>2 DEF Fraction
<1>3. ASSUME Prints(c) PROVE Whole(c) \in Words
  <2>1. CASE c.op = "print"
    BY <1>1, <2>1 DEF Whole
  <2>2. CASE c.op = "float"
    <3>1. PICK v \in Nat, s \in Nat \ {0} : v = c.v /\ s = Scale
      BY <1>1, <2>2, Scaled
    <3>2. PICK q \in Nat : q = v \div s
      BY Divided
    <3>3. q % Modulus \in Words
      BY NegatedIs
    <3> QED
      BY <2>2, <3>1, <3>2, <3>3 DEF Whole
  <2> QED
    BY <1>3, <2>1, <2>2 DEF Prints
<1>4. ASSUME Prints(c) PROVE Magnitude(c) \in Words /\ (Magnitude(c) = 0 <=> Whole(c) = 0)
  <2>1. PICK w \in Words : w = Whole(c)
    BY <1>3, <1>4
  <2>2. w \in Nat /\ w < Modulus
    BY SpacesAre DEF Words
  <2>3. CASE w >= Half
    <3>1. Magnitude(c) = Negated(w) /\ Negated(w) = Modulus - w /\ Negated(w) \in Words
      BY <2>1, <2>3, NegatedIs DEF Magnitude
    <3> QED
      BY <2>1, <2>2, <2>3, <3>1, SpacesAre
  <2>4. CASE ~(w >= Half)
    BY <2>1, <2>4 DEF Magnitude
  <2> QED
    BY <2>3, <2>4
<1>5. Places(c) \in {10, Precision} /\ Places(c) \in Nat
  BY SpacesAre DEF Places
<1> QED
  BY <1>1, <1>2, <1>3, <1>4, <1>5

\* The byte in front changes with a number that is not positive.
LEMMA MarkGrows ==
    ASSUME NEW k \in Nat \ {0}
    PROVE  Mark(k) = IF Prints(script.calls[k]) /\ ~Positive(script.calls[k])
                     THEN IF Whole(script.calls[k]) = 0 THEN Zero ELSE Minus
                     ELSE Mark(k - 1)
<1> DEFINE P(m) == Prints(script.calls[m]) /\ ~Positive(script.calls[m])
           marks(n) == { m \in 1 .. n : P(m) }
           last(S) == CHOOSE m \in S : \A other \in S : other <= m
           byte(S) == IF S = {} THEN 0 ELSE IF Whole(script.calls[last(S)]) = 0 THEN Zero ELSE Minus
<1>1. \A n : Mark(n) = byte(marks(n))
  BY DEF Mark
<1>2. CASE P(k)
  <2>1. k \in marks(k) /\ \A m \in marks(k) : m \in Nat /\ m <= k
    BY <1>2
  <2>2. last(marks(k)) = k
    BY <2>1
  <2>3. byte(marks(k)) = IF Whole(script.calls[k]) = 0 THEN Zero ELSE Minus
    BY <2>1, <2>2
  <2>4. Mark(k) = byte(marks(k))
    BY <1>1
  <2> QED
    BY <1>2, <2>3, <2>4
<1>3. CASE ~P(k)
  <2>1. marks(k) = marks(k - 1)
    BY <1>3
  <2>2. Mark(k) = byte(marks(k)) /\ Mark(k - 1) = byte(marks(k - 1))
    BY <1>1
  <2> HIDE DEF byte, marks
  <2>3. Mark(k) = Mark(k - 1)
    BY <2>1, <2>2, Zenon
  <2> QED
    BY <1>3, <2>3
<1> QED
  BY <1>2, <1>3

LEMMA MarkIs ==
    ASSUME NEW k
    PROVE  Mark(k) \in {0, Zero, Minus} /\ Mark(k) \in Byte /\ Mark(0) = 0
BY DEF Mark, Byte, Zero, Minus

\* The notation of a number.
LEMMA DecimalIs ==
    ASSUME NEW v \in Nat
    PROVE  /\ Decimal(v) \in Seq(Byte) /\ Len(Decimal(v)) = Length(v)
           /\ \A i \in 1 .. Length(v) : Decimal(v)[i] = Zero + ((v \div TenTo[Length(v) - i]) % 10)
<1>1. PICK l \in Nat : l = Length(v)
  BY LengthIs
<1>2. ASSUME NEW i \in 1 .. l PROVE Zero + ((v \div TenTo[l - i]) % 10) \in Byte
  <2>1. PICK t \in Nat \ {0} : t = TenTo[l - i]
    BY TenToSteps
  <2>2. PICK q \in Nat : q = v \div t
    BY Divided
  <2>3. q % 10 \in 0 .. 9
    BY Divided
  <2> QED
    BY <2>1, <2>2, <2>3 DEF Zero, Byte
<1>3. Decimal(v) = [i \in 1 .. l |-> Zero + ((v \div TenTo[l - i]) % 10)]
  BY <1>1 DEF Decimal
<1> QED
  BY <1>1, <1>2, <1>3

LEMMA DecimalOfZero == Length(0) = 1 /\ Decimal(0) = <<Zero>>
<1>1. TenTo[1] = 10 /\ TenTo[0] = 1
  <2>1. 0 + 1 = 1 /\ TenTo[0 + 1] = 10 * TenTo[0]
    BY TenToSteps
  <2> QED
    BY <2>1, TenToSteps
<1>2. 1 = Length(0)
  BY <1>1, LengthIs
<1>3. (0 \div 1) % 10 = 0
  OBVIOUS
<1>4. Decimal(0) = [i \in 1 .. 1 |-> Zero + ((0 \div TenTo[1 - i]) % 10)]
  BY <1>2 DEF Decimal
<1>5. Decimal(0)[1] = Zero
  <2>1. Decimal(0)[1] = Zero + ((0 \div TenTo[0]) % 10)
    BY <1>4
  <2> QED
    BY <1>1, <1>3, <2>1 DEF Zero
<1>6. Decimal(0) \in Seq(Byte) /\ Len(Decimal(0)) = 1
  BY <1>2, DecimalIs
<1> QED
  BY <1>2, <1>5, <1>6

LEMMA SentIs ==
    ASSUME NEW m \in [Cells -> Byte], NEW l \in Nat, l <= DigitSpace + StringSpace + 1
    PROVE  SentOf(m, l) \in Seq(Byte) /\ Len(SentOf(m, l)) = l
<1>1. ASSUME NEW i \in 1 .. l PROVE m[i - 1] \in Byte
  BY SpacesAre DEF Cells
<1> QED
  BY <1>1 DEF SentOf

LEMMA SentLength ==
    ASSUME NEW m, NEW l \in Nat
    PROVE  Len(SentOf(m, l)) = l
BY DEF SentOf

\* A byte written behind the text makes it longer.
LEMMA SentGrows ==
    ASSUME NEW m \in [Cells -> Byte], NEW l \in Nat, l <= DigitSpace + StringSpace, NEW b \in Byte
    PROVE  SentOf([m EXCEPT ![l] = b], l + 1) = Append(SentOf(m, l), b)
<1>1. PICK n \in [Cells -> Byte] : n = [m EXCEPT ![l] = b]
  OBVIOUS
<1>2. l \in Cells /\ \A i \in 1 .. l : i - 1 \in Cells /\ i - 1 # l
  BY SpacesAre DEF Cells
<1>3. n[l] = b /\ \A i \in 1 .. l : n[i - 1] = m[i - 1]
  BY <1>1, <1>2
<1>4. PICK s, t : s = SentOf(m, l) /\ t = SentOf(n, l + 1)
  OBVIOUS
<1>5. s \in Seq(Byte) /\ Len(s) = l /\ t \in Seq(Byte) /\ Len(t) = l + 1
  BY <1>4, SentIs, SpacesAre
<1>6. \A i \in 1 .. l : t[i] = s[i]
  BY <1>3, <1>4 DEF SentOf
<1>7. t[l + 1] = b
  BY <1>3, <1>4 DEF SentOf
<1>8. t = Append(s, b)
  BY <1>5, <1>6, <1>7
<1> QED
  BY <1>1, <1>4, <1>8

\* Digits that follow a text.
LEMMA DigitsFollow ==
    ASSUME NEW s \in Seq(Byte), NEW d \in [Nat -> Byte], NEW n \in Nat
    PROVE  /\ s \o [i \in 1 .. n |-> d[i]] \in Seq(Byte)
           /\ Len(s \o [i \in 1 .. n |-> d[i]]) = Len(s) + n
           /\ s \o [i \in 1 .. n + 1 |-> d[i]] = Append(s \o [i \in 1 .. n |-> d[i]], d[n + 1])
<1>0. PICK x, y : x = [i \in 1 .. n |-> d[i]] /\ y = [i \in 1 .. n + 1 |-> d[i]]
  OBVIOUS
<1>1. /\ x \in Seq(Byte) /\ x = [i \in 1 .. n |-> d[i]]
      /\ y \in Seq(Byte) /\ y = [i \in 1 .. n + 1 |-> d[i]]
  <2>1. \A i \in 1 .. n + 1 : d[i] \in Byte
    OBVIOUS
  <2> QED
    BY <1>0, <2>1
<1>2. /\ Len(x) = n /\ Len(y) = n + 1 /\ y[n + 1] = d[n + 1]
      /\ \A i \in 1 .. n : y[i] = x[i]
  BY <1>1
<1>3. y = Append(x, d[n + 1])
  BY <1>1, <1>2
<1>4. s \o Append(x, d[n + 1]) = Append(s \o x, d[n + 1])
  OBVIOUS
<1> QED
  BY <1>1, <1>2, <1>3, <1>4

LEMMA FrontIs ==
    ASSUME NEW k, script.calls[k] \in Call, Prints(script.calls[k])
    PROVE  /\ Front(k) \in Seq(Byte) /\ Len(Front(k)) < DigitSpace
           /\ Len(Front(k)) \in Nat /\ Len(Front(k)) > 0
           /\ Whole(script.calls[k]) = 0 => Front(k) = <<Zero>>
           /\ Whole(script.calls[k]) # 0 =>
                 /\ Len(Front(k)) = Length(Magnitude(script.calls[k])) + 1
                 /\ Front(k)[1] = Mark(k)
                 /\ \A i \in 1 .. Length(Magnitude(script.calls[k])) :
                       Front(k)[i + 1] = Decimal(Magnitude(script.calls[k]))[i]
<1>1. PICK v \in Words : v = Magnitude(script.calls[k]) /\ (v = 0 <=> Whole(script.calls[k]) = 0)
  BY CallIs
<1>2. v \in Nat
  BY SpacesAre DEF Words
<1>3. PICK d \in Seq(Byte) : d = Decimal(v) /\ Len(d) = Length(v)
  BY <1>2, DecimalIs
<1>4. Length(v) \in Nat /\ Length(v) + 2 <= DigitSpace
  <2>1. PICK n \in Nat : n + 2 <= DigitSpace /\ \A w \in Words : Length(w) <= n
    BY Fits
  <2>2. Length(v) \in Nat
    BY <1>2, LengthIs
  <2>3. Length(v) <= n
    BY <2>1
  <2> QED
    BY <2>1, <2>2, <2>3, SpacesAre
<1>5. Mark(k) \in Byte
  BY MarkIs
<1>6. CASE Whole(script.calls[k]) = 0
  <2>1. Front(k) = << >> \o <<Zero>>
    BY <1>1, <1>6, DecimalOfZero DEF Front
  <2>2. << >> \o <<Zero>> = <<Zero>> /\ <<Zero>> \in Seq(Byte) /\ Len(<<Zero>>) = 1
    BY DEF Zero, Byte
  <2>3. 1 < DigitSpace
    BY <1>1, <1>4, <1>6, DecimalOfZero, SpacesAre
  <2> QED
    BY <1>6, <2>1, <2>2, <2>3
<1>7. CASE Whole(script.calls[k]) # 0
  <2>1. PICK s \in Seq(Byte) : s = <<Mark(k)>> /\ Len(s) = 1 /\ s[1] = Mark(k)
    <3>1. PICK b \in Byte : b = Mark(k)
      BY <1>5
    <3>2. <<b>> \in Seq(Byte) /\ Len(<<b>>) = 1 /\ <<b>>[1] = b
      OBVIOUS
    <3> QED
      BY <3>1, <3>2
  <2>2. Front(k) = s \o d
    BY <1>1, <1>3, <1>7, <2>1 DEF Front
  <2>3. s \o d \in Seq(Byte) /\ Len(s \o d) = Length(v) + 1 /\ (s \o d)[1] = s[1]
        /\ \A i \in 1 .. Length(v) : (s \o d)[i + 1] = d[i]
    BY <1>3, <1>4, <2>1
  <2> QED
    BY <1>1, <1>3, <1>4, <1>7, <2>1, <2>2, <2>3, SpacesAre
<1> QED
  BY <1>6, <1>7

LEMMA FractionalIs ==
    ASSUME NEW k, script.calls[k] \in Call, Prints(script.calls[k]), script.calls[k].op = "float",
           NEW n \in Nat
    PROVE  /\ Fractional(k, n) \in Seq(Byte) /\ Len(Fractional(k, n)) = Len(Front(k)) + 1 + n
           /\ Fractional(k, 0) = Append(Front(k), Point)
           /\ Fractional(k, n + 1)
                 = Append(Fractional(k, n), Zero + Digit(Fraction(script.calls[k]), n + 1))
<1>1. PICK f \in Nat : f = Fraction(script.calls[k])
  BY CallIs, Scaled
<1>2. PICK s \in Seq(Byte) : s = Front(k) \o <<Point>> /\ Len(s) = Len(Front(k)) + 1
                             /\ s = Append(Front(k), Point)
  <2>1. PICK x \in Seq(Byte), p \in Byte : x = Front(k) /\ p = Point
    BY FrontIs DEF Point, Byte
  <2>2. x \o <<p>> \in Seq(Byte) /\ Len(x \o <<p>>) = Len(x) + 1 /\ x \o <<p>> = Append(x, p)
    OBVIOUS
  <2> QED
    BY <2>1, <2>2
<1>3. PICK d : d = [i \in Nat |-> IF i = 0 THEN 0 ELSE Zero + Digit(f, i)]
  OBVIOUS
<1>4. ASSUME NEW i \in Nat PROVE d[i] \in Byte /\ (i > 0 => d[i] = Zero + Digit(f, i))
  <2>1. CASE i > 0
    <3>1. i - 1 \in Nat /\ (i - 1) + 1 = i
      BY <2>1
    <3>2. PICK g \in 0 .. 9 : g = Digit(f, i)
      BY <3>1, NextDigit
    <3>3. d[i] = Zero + g
      BY <1>3, <2>1, <3>2
    <3>4. Zero + g \in Byte
      BY DEF Zero, Byte
    <3> QED
      BY <3>2, <3>3, <3>4
  <2> QED
    BY <1>3, <2>1 DEF Byte
<1>5. d \in [Nat -> Byte]
  BY <1>3, <1>4
<1>6. ASSUME NEW m \in Nat PROVE Fractional(k, m) = s \o [i \in 1 .. m |-> d[i]]
  <2>1. [i \in 1 .. m |-> Zero + Digit(f, i)] = [i \in 1 .. m |-> d[i]]
    BY <1>4
  <2> QED
    BY <1>1, <1>2, <2>1 DEF Fractional
<1>7. s \o [i \in 1 .. 0 |-> d[i]] = s
  OBVIOUS
<1>8. PICK x, y, m : /\ x = Fractional(k, n) /\ y = Fractional(k, m) /\ m = n + 1 /\ m \in Nat
                     /\ x = s \o [i \in 1 .. n |-> d[i]] /\ y = s \o [i \in 1 .. m |-> d[i]]
  <2>1. n + 1 \in Nat
    OBVIOUS
  <2> QED
    BY <1>6, <2>1
<1>9. Fractional(k, 0) = Append(Front(k), Point)
  BY <1>2, <1>6, <1>7
<1>10. d[m] = Zero + Digit(f, m)
  BY <1>4, <1>8
<1>11. x \in Seq(Byte) /\ Len(x) = Len(s) + n /\ y = Append(x, d[m])
  BY <1>5, <1>8, DigitsFollow
<1>12. Len(x) = Len(Front(k)) + 1 + n
  BY <1>2, <1>11
<1> QED
  BY <1>1, <1>8, <1>9, <1>10, <1>11, <1>12

-----------------------------------------------------------------------------
(* The steps of PRINT, and what the steps of INPUT leave of it.            *)

LEMMA ScriptIs ==
    ASSUME TypeOK, StateInv
    PROVE  /\ script \in Scripts /\ script.calls \in Seq(Call) /\ script.file \in Seq(Byte)
           /\ script.terminal \in BOOLEAN /\ Len(script.calls) \in Nat
           /\ done \in Nat /\ done <= Len(script.calls)
           /\ \A k \in 1 .. Len(script.calls) : script.calls[k] \in Call
           /\ done > 0 => Current \in Call
<1>1. script \in Scripts /\ script.calls \in Seq(Call) /\ script.file \in Seq(Byte)
      /\ script.terminal \in BOOLEAN
  BY ScriptsAssumption DEF StateInv
<1>2. PICK calls \in Seq(Call) : calls = script.calls
  BY <1>1
<1>3. /\ Len(calls) \in Nat /\ done \in Nat /\ done <= Len(calls)
      /\ \A k \in 1 .. Len(calls) : calls[k] \in Call
      /\ done > 0 => calls[done] \in Call
  BY <1>2 DEF TypeOK
<1> QED
  BY <1>1, <1>2, <1>3 DEF Current

\* A call begins.
LEMMA CallBegins ==
    ASSUME TypeOK, StateInv, NEW op, Calls(op), Called
    PROVE  /\ done' \in Nat \ {0} /\ done' = done + 1 /\ done' - 1 = done
           /\ done' <= Len(script.calls) /\ done' \in 0 .. Len(script'.calls)
           /\ Current' = script.calls[done + 1] /\ Current' \in Call /\ Current'.op = op
           /\ Operand = Current'.v /\ script' = script /\ pc = "idle"
           /\ Mark(done)' = IF Prints(Current') /\ ~Positive(Current')
                            THEN IF Whole(Current') = 0 THEN Zero ELSE Minus ELSE Mark(done)
           /\ Mark(done - 1)' = Mark(done)
<1>1. /\ done' = done + 1 /\ script' = script /\ pc = "idle" /\ done < Len(script.calls)
      /\ script.calls[done + 1].op = op /\ Operand = script.calls[done + 1].v
  BY DEF Calls, Called, Operand
<1>2. /\ Len(script.calls) \in Nat /\ done \in Nat
      /\ \A k \in 1 .. Len(script.calls) : script.calls[k] \in Call
  BY ScriptIs
<1>3. PICK k \in Nat \ {0} : k = done + 1 /\ k - 1 = done /\ k \in 1 .. Len(script.calls)
  BY <1>1, <1>2
<1>4. Current' = script.calls[k] /\ script.calls[k] \in Call
  BY <1>1, <1>2, <1>3 DEF Current
<1>5. Mark(done)' = Mark(k)
  BY <1>1, <1>3 DEF Mark
<1>6. Mark(done - 1)' = Mark(done)
  <2>1. done' - 1 = done
    BY <1>1, <1>3
  <2> QED
    BY <1>1, <2>1 DEF Mark
<1>7. Mark(k) = IF Prints(script.calls[k]) /\ ~Positive(script.calls[k])
                THEN IF Whole(script.calls[k]) = 0 THEN Zero ELSE Minus ELSE Mark(done)
  BY <1>3, MarkGrows
<1>8. Mark(done)' = IF Prints(Current') /\ ~Positive(Current')
                    THEN IF Whole(Current') = 0 THEN Zero ELSE Minus ELSE Mark(done)
  BY <1>4, <1>5, <1>7
<1>9. /\ done' \in Nat \ {0} /\ done' = done + 1 /\ done' - 1 = done
      /\ done' <= Len(script.calls) /\ done' \in 0 .. Len(script'.calls)
  BY <1>1, <1>2
<1> QED
  BY <1>1, <1>3, <1>4, <1>6, <1>8, <1>9

\* A step within a call.
LEMMA CallGoesOn ==
    ASSUME script' = script, done' = done
    PROVE  /\ Mark(done)' = Mark(done) /\ Mark(done - 1)' = Mark(done - 1) /\ Current' = Current
           /\ Front(done)' = Front(done) /\ Written(done)' = Written(done)
           /\ \A n : Fractional(done, n)' = Fractional(done, n)
<1>1. Mark(done)' = Mark(done) /\ Mark(done - 1)' = Mark(done - 1) /\ Current' = Current
  BY DEF Mark, Current
<1>2. Front(done)' = Front(done)
  BY <1>1 DEF Front
<1>3. \A n : Fractional(done, n)' = Fractional(done, n)
  BY <1>2 DEF Fractional
<1>4. Written(done)' = Written(done)
  BY <1>2, <1>3 DEF Written
<1> QED
  BY <1>1, <1>2, <1>3, <1>4

LEMMA PrintIntKept ==
    ASSUME PrintInv, PrintInt
    PROVE  PrintInv'
<1>1. TypeOK /\ StateInv /\ MarkInv
  BY DEF PrintInv
<1>2. /\ Calls("print") /\ Called /\ edi' = Operand /\ frac' = -1 /\ pc' = "itoa"
      /\ mem' = mem /\ eax' = eax /\ ecx' = ecx /\ rsi' = rsi /\ r10' = r10 /\ len' = len
      /\ rest' = rest /\ chunks' = chunks /\ inputs' = inputs /\ shown' = shown
  BY DEF PrintInt, reading
<1>3. /\ done' \in Nat \ {0} /\ done' = done + 1 /\ done' \in 0 .. Len(script'.calls)
      /\ Current' \in Call /\ Current'.op = "print" /\ Operand = Current'.v /\ script' = script
      /\ pc = "idle" /\ Mark(done - 1)' = Mark(done)
  BY <1>1, <1>2, CallBegins
<1>4. Prints(Current') /\ Whole(Current') = Operand /\ Operand \in Words
  BY <1>3, CallIs DEF Prints, Whole
<1>5. TypeOK'
  BY <1>1, <1>2, <1>3, <1>4, Scaled DEF TypeOK
<1>6. StateInv'
  BY <1>1, <1>2, <1>3, <1>4 DEF StateInv, InItoa, Printing, Reading
<1>7. MarkInv'
  BY <1>1, <1>2, <1>3 DEF MarkInv, InItoa
<1>8. ItoaInv'
  BY <1>2, <1>4 DEF ItoaInv
<1>9. TextInv'
  BY <1>2 DEF TextInv
<1> QED
  BY <1>5, <1>6, <1>7, <1>8, <1>9 DEF PrintInv

LEMMA PrintFloatKept ==
    ASSUME PrintInv, PrintFloat
    PROVE  PrintInv'
<1>1. TypeOK /\ StateInv /\ MarkInv
  BY DEF PrintInv
<1>2. /\ Calls("float") /\ Called /\ Operand # 0 /\ edi' = (Operand \div Scale) % Modulus
      /\ frac' = Operand % Scale /\ pc' = "itoa"
      /\ mem' = mem /\ eax' = eax /\ ecx' = ecx /\ rsi' = rsi /\ r10' = r10 /\ len' = len
      /\ rest' = rest /\ chunks' = chunks /\ inputs' = inputs /\ shown' = shown
  BY DEF PrintFloat, reading
<1>3. /\ done' \in Nat \ {0} /\ done' = done + 1 /\ done' \in 0 .. Len(script'.calls)
      /\ Current' \in Call /\ Current'.op = "float" /\ Operand = Current'.v /\ script' = script
      /\ pc = "idle" /\ Mark(done - 1)' = Mark(done)
  BY <1>1, <1>2, CallBegins
<1>4. /\ Prints(Current') /\ Whole(Current') = edi' /\ Fraction(Current') = frac'
      /\ edi' \in Words /\ frac' \in 0 .. Scale - 1
  BY <1>2, <1>3, CallIs DEF Prints, Whole, Fraction
<1>5. TypeOK'
  BY <1>1, <1>2, <1>3, <1>4, Scaled DEF TypeOK
<1>6. StateInv'
  BY <1>1, <1>2, <1>3, <1>4 DEF StateInv, InItoa, Printing, Reading
<1>7. MarkInv'
  BY <1>1, <1>2, <1>3 DEF MarkInv, InItoa
<1>8. ItoaInv'
  BY <1>2, <1>4 DEF ItoaInv
<1>9. TextInv'
  BY <1>2 DEF TextInv
<1> QED
  BY <1>5, <1>6, <1>7, <1>8, <1>9 DEF PrintInv

LEMMA FloatZeroCrashesKept ==
    ASSUME PrintInv, FloatZeroCrashes
    PROVE  PrintInv'
<1>1. TypeOK /\ StateInv /\ MarkInv
  BY DEF PrintInv
<1>2. /\ Calls("float") /\ Called /\ Operand = 0 /\ pc' = "crashed"
      /\ mem' = mem /\ edi' = edi /\ eax' = eax /\ ecx' = ecx /\ rsi' = rsi /\ r10' = r10
      /\ len' = len /\ frac' = frac
      /\ rest' = rest /\ chunks' = chunks /\ inputs' = inputs /\ shown' = shown
  BY DEF FloatZeroCrashes, reading, registers
<1>3. /\ done' \in Nat \ {0} /\ done' = done + 1 /\ done' \in 0 .. Len(script'.calls)
      /\ Current'.op = "float" /\ Operand = Current'.v /\ script' = script /\ pc = "idle"
      /\ (~Prints(Current') => Mark(done)' = Mark(done))
  BY <1>1, <1>2, CallBegins
<1>4. ~Prints(Current')
  BY <1>2, <1>3 DEF Prints
<1>5. TypeOK'
  BY <1>1, <1>2, <1>3 DEF TypeOK
<1>6. StateInv'
  BY <1>1, <1>2, <1>3, <1>4 DEF StateInv, InItoa, Printing, Reading
<1>7. MarkInv'
  BY <1>1, <1>2, <1>3, <1>4 DEF MarkInv, InItoa
<1>8. ItoaInv'
  BY <1>2 DEF ItoaInv
<1>9. TextInv'
  BY <1>2 DEF TextInv
<1> QED
  BY <1>5, <1>6, <1>7, <1>8, <1>9 DEF PrintInv

LEMMA FloatZeroRunsAwayKept ==
    ASSUME PrintInv, FloatZeroRunsAway
    PROVE  PrintInv'
<1>1. TypeOK /\ StateInv /\ MarkInv
  BY DEF PrintInv
<1>2. /\ Calls("float") /\ Called /\ Operand = 0 /\ AfterInput /\ pc' = pc
      /\ mem' = [mem EXCEPT ![rsi] = 0] /\ edi' = edi /\ eax' = eax /\ ecx' = ecx /\ rsi' = rsi
      /\ r10' = r10 /\ len' = len /\ frac' = frac
      /\ rest' = rest /\ chunks' = chunks /\ inputs' = inputs /\ shown' = Runaway
  BY DEF FloatZeroRunsAway, reading, registers
<1>3. /\ done' \in Nat \ {0} /\ done' = done + 1 /\ done' \in 0 .. Len(script'.calls)
      /\ Current'.op = "float" /\ Operand = Current'.v /\ script' = script /\ pc = "idle"
      /\ (~Prints(Current') => Mark(done)' = Mark(done))
  BY <1>1, <1>2, CallBegins
<1>4. ~Prints(Current')
  BY <1>2, <1>3 DEF Prints
<1>5. rsi \in Cells /\ rsi >= DigitSpace
  BY <1>1, <1>2, <1>3 DEF TypeOK, StateInv, AfterInput, Current
<1>6. /\ mem' \in [Cells -> Byte] /\ mem'[0] = mem[0]
      /\ mem'[DigitSpace + StringSpace] = 0
  BY <1>1, <1>2, <1>5, SpacesAre DEF TypeOK, MarkInv, Cells, Byte
<1>7. TypeOK'
  BY <1>1, <1>2, <1>3, <1>6 DEF TypeOK
<1>8. StateInv'
  BY <1>1, <1>2, <1>3, <1>4 DEF StateInv, InItoa, Printing, Reading
<1>9. MarkInv'
  BY <1>1, <1>2, <1>3, <1>4, <1>6 DEF MarkInv, InItoa
<1>10. ItoaInv'
  BY <1>2, <1>3 DEF ItoaInv
<1>11. TextInv'
  BY <1>2, <1>3, <1>4 DEF TextInv
<1> QED
  BY <1>7, <1>8, <1>9, <1>10, <1>11 DEF PrintInv

\* What a read delivers.
LEMMA DeliveredIs ==
    ASSUME TypeOK, NEW n \in Delivered
    PROVE  /\ n \in Nat /\ n <= StringSpace /\ n <= Len(rest)
           /\ SubSeq(rest, 1, n) \in Seq(Byte) /\ Len(SubSeq(rest, 1, n)) = n
           /\ SubSeq(rest, n + 1, Len(rest)) \in Seq(Byte)
<1>1. rest \in Seq(Byte) /\ Len(rest) \in Nat
  BY DEF TypeOK
<1>2. PICK most \in Nat : /\ most = Least(Len(rest), StringSpace)
                          /\ most <= Len(rest) /\ most <= StringSpace
  BY <1>1, SpacesAre DEF Least
<1>3. /\ rest = << >> => n = 0
      /\ rest # << >> /\ script.terminal =>
            n = IF HasNewline(rest) THEN Least(FirstNewline(rest), most) ELSE most
      /\ rest # << >> /\ ~script.terminal => n \in 1 .. most
  BY <1>2 DEF Delivered
<1>4. n \in Nat /\ n <= most
  <2>1. CASE rest = << >>
    BY <1>1, <1>3, <2>1, <1>2
  <2>2. CASE rest # << >> /\ script.terminal
    <3>1. CASE HasNewline(rest)
      <4>1. FirstNewline(rest) \in Nat
        BY <1>1, <3>1, NewlineFound
      <4> QED
        BY <1>3, <2>2, <3>1, <4>1 DEF Least
    <3> QED
      BY <1>3, <2>2, <3>1
  <2>3. CASE rest # << >> /\ ~script.terminal
    BY <1>3, <2>3
  <2> QED
    BY <2>1, <2>2, <2>3
<1>5. n <= Len(rest) /\ n <= StringSpace
  BY <1>1, <1>2, <1>4, SpacesAre
<1>6. SubSeq(rest, 1, n) \in Seq(Byte) /\ Len(SubSeq(rest, 1, n)) = n
  BY <1>1, <1>4, <1>5
<1>7. SubSeq(rest, n + 1, Len(rest)) \in Seq(Byte)
  BY <1>1, <1>4, <1>5
<1> QED
  BY <1>4, <1>5, <1>6, <1>7

LEMMA FilledIs ==
    ASSUME mem \in [Cells -> Byte], NEW s \in Seq(Byte), Len(s) <= StringSpace
    PROVE  /\ Filled(s) \in [Cells -> Byte]
           /\ \A i \in 0 .. DigitSpace - 1 : Filled(s)[i] = mem[i]
           /\ \A i \in 1 .. StringSpace :
                 Filled(s)[DigitSpace + i - 1]
                    = IF i <= Len(s) THEN s[i] ELSE mem[DigitSpace + i - 1]
           /\ Filled(s)[DigitSpace + StringSpace] = mem[DigitSpace + StringSpace]
<1>1. Len(s) \in Nat /\ \A i \in 1 .. Len(s) : s[i] \in Byte
  OBVIOUS
<1>2. ASSUME NEW i \in Cells
      PROVE  /\ Filled(s)[i] \in Byte
             /\ Filled(s)[i] = IF i >= DigitSpace /\ i - DigitSpace < Len(s)
                               THEN s[i - DigitSpace + 1] ELSE mem[i]
  <2>1. Filled(s)[i] = IF i >= DigitSpace /\ i - DigitSpace < Len(s)
                       THEN s[i - DigitSpace + 1] ELSE mem[i]
    BY DEF Filled
  <2>2. CASE i >= DigitSpace /\ i - DigitSpace < Len(s)
    <3>1. i - DigitSpace + 1 \in 1 .. Len(s)
      BY <1>1, <2>2, SpacesAre DEF Cells
    <3> QED
      BY <1>1, <2>1, <2>2, <3>1
  <2> QED
    BY <2>1, <2>2
<1>3. Filled(s) \in [Cells -> Byte]
  BY <1>2 DEF Filled
<1>4. ASSUME NEW i \in 0 .. DigitSpace - 1 PROVE Filled(s)[i] = mem[i]
  <2>1. i \in Cells /\ ~(i >= DigitSpace)
    BY SpacesAre DEF Cells
  <2> QED
    BY <1>2, <2>1
<1>5. ASSUME NEW i \in 1 .. StringSpace
      PROVE  Filled(s)[DigitSpace + i - 1]
                = IF i <= Len(s) THEN s[i] ELSE mem[DigitSpace + i - 1]
  <2>1. PICK j \in Cells : /\ j = DigitSpace + i - 1 /\ j >= DigitSpace /\ j - DigitSpace + 1 = i
                           /\ (j - DigitSpace < Len(s) <=> i <= Len(s))
    BY <1>1, SpacesAre DEF Cells
  <2> QED
    BY <1>2, <2>1
<1>6. Filled(s)[DigitSpace + StringSpace] = mem[DigitSpace + StringSpace]
  <2>1. PICK j \in Cells : j = DigitSpace + StringSpace /\ ~(j - DigitSpace < Len(s))
    BY <1>1, SpacesAre DEF Cells
  <2> QED
    BY <1>2, <2>1
<1> QED
  BY <1>3, <1>4, <1>5, <1>6

LEMMA InputKept ==
    ASSUME PrintInv, Input
    PROVE  PrintInv'
<1>1. TypeOK /\ StateInv /\ MarkInv
  BY DEF PrintInv
<1>2. /\ Calls("input") /\ Called /\ pc' = "atoi" /\ eax' = 0
      /\ r10' = (mem'[DigitSpace] = Minus)
      /\ rsi' = (IF r10' THEN DigitSpace + 1 ELSE DigitSpace)
      /\ edi' = edi /\ ecx' = ecx /\ len' = len /\ frac' = frac
      /\ inputs' = inputs /\ shown' = shown
  BY DEF Input
<1>3. PICK n \in Delivered : /\ mem' = Filled(SubSeq(rest, 1, n))
                             /\ rest' = SubSeq(rest, n + 1, Len(rest))
                             /\ chunks' = Append(chunks, SubSeq(rest, 1, n))
  BY DEF Input
<1>4. PICK s \in Seq(Byte) : /\ s = SubSeq(rest, 1, n) /\ Len(s) <= StringSpace
                             /\ rest' \in Seq(Byte)
  BY <1>1, <1>3, DeliveredIs
<1>5. /\ done' \in Nat \ {0} /\ done' = done + 1 /\ done' \in 0 .. Len(script'.calls)
      /\ Current'.op = "input" /\ script' = script /\ pc = "idle"
      /\ (~Prints(Current') => Mark(done)' = Mark(done))
  BY <1>1, <1>2, CallBegins
<1>6. ~Prints(Current')
  BY <1>5 DEF Prints
<1>7. /\ mem' \in [Cells -> Byte] /\ mem'[0] = mem[0]
      /\ mem'[DigitSpace + StringSpace] = mem[DigitSpace + StringSpace]
  <2>1. mem \in [Cells -> Byte] /\ 0 \in 0 .. DigitSpace - 1
    BY <1>1, SpacesAre DEF TypeOK
  <2> QED
    BY <1>3, <1>4, <2>1, FilledIs
<1>8. /\ chunks' \in Seq(Seq(Byte)) /\ Len(chunks') = Len(chunks) + 1 /\ Len(chunks) \in Nat
      /\ \A k \in 1 .. Len(chunks') : Len(chunks'[k]) <= StringSpace
  <2>1. chunks' = Append(chunks, s) /\ chunks \in Seq(Seq(Byte))
        /\ \A k \in 1 .. Len(chunks) : Len(chunks[k]) <= StringSpace
    BY <1>1, <1>3, <1>4 DEF StateInv
  <2>2. /\ chunks' \in Seq(Seq(Byte)) /\ Len(chunks') = Len(chunks) + 1
        /\ Len(chunks) \in Nat /\ chunks'[Len(chunks) + 1] = s
        /\ \A k \in 1 .. Len(chunks) : chunks'[k] = chunks[k]
    BY <2>1, AppendProperties
  <2>3. ASSUME NEW k \in 1 .. Len(chunks') PROVE Len(chunks'[k]) <= StringSpace
    <3>1. CASE k = Len(chunks) + 1
      BY <1>4, <2>2, <3>1
    <3>2. CASE k # Len(chunks) + 1
      <4>1. k \in 1 .. Len(chunks)
        BY <2>2, <3>2
      <4> QED
        BY <2>1, <2>2, <4>1
    <3> QED
      BY <3>1, <3>2
  <2> QED
    BY <2>2, <2>3
<1>9. rsi' \in Cells /\ rsi' >= DigitSpace /\ r10' \in BOOLEAN
  BY <1>2, SpacesAre DEF Cells
<1>10. TypeOK'
  <2>1. Len(chunks') <= done' /\ {edi', eax'} \subseteq Words /\ {ecx', len'} \subseteq Nat
    BY <1>1, <1>2, <1>5, <1>8, SpacesAre DEF TypeOK, Words
  <2> QED
    BY <1>1, <1>2, <1>4, <1>5, <1>7, <1>9, <2>1 DEF TypeOK
<1>11. StateInv'
  BY <1>1, <1>2, <1>5, <1>8, <1>9 DEF StateInv, InItoa, Printing, Reading
<1>12. MarkInv'
  BY <1>1, <1>2, <1>5, <1>6, <1>7 DEF MarkInv, InItoa
<1>13. ItoaInv'
  BY <1>2 DEF ItoaInv
<1>14. TextInv'
  BY <1>2 DEF TextInv
<1> QED
  BY <1>10, <1>11, <1>12, <1>13, <1>14 DEF PrintInv

\* A step within a call leaves this.
LEMMA RoutineSteps ==
    ASSUME PrintInv, NEW where, Running(where)
    PROVE  /\ script' = script /\ done' = done /\ rest' = rest /\ chunks' = chunks
           /\ inputs' = inputs /\ shown' = shown /\ pc = where
           /\ Mark(done)' = Mark(done) /\ Mark(done - 1)' = Mark(done - 1) /\ Current' = Current
           /\ Front(done)' = Front(done) /\ Written(done)' = Written(done)
           /\ \A n : Fractional(done, n)' = Fractional(done, n)
<1>1. /\ script' = script /\ done' = done /\ rest' = rest /\ chunks' = chunks
      /\ inputs' = inputs /\ shown' = shown /\ pc = where
  BY DEF Running, reading
<1> QED
  BY <1>1, CallGoesOn

\* The call that is under way, if it is one of PRINT.
LEMMA CurrentPrints ==
    ASSUME TypeOK, StateInv, Printing
    PROVE  /\ done \in Nat /\ done > 0 /\ Current \in Call /\ Current = script.calls[done]
           /\ Prints(Current) /\ Whole(Current) \in Words /\ Magnitude(Current) \in Words
           /\ (Magnitude(Current) = 0 <=> Whole(Current) = 0)
           /\ Places(Current) \in {10, Precision} /\ Places(Current) \in Nat
           /\ Current.op = "float" => Fraction(Current) \in 0 .. Scale - 1
<1>1. done > 0 /\ Prints(Current)
  BY DEF StateInv, Printing, InItoa
<1>2. Current \in Call /\ done \in Nat
  BY <1>1, ScriptIs
<1> QED
  BY <1>1, <1>2, CallIs DEF Current

\* With the whole part or the number written, ItoaReturns.
LEMMA ItoaReturnsKept ==
    ASSUME PrintInv, InItoa, script' = script, done' = done,
           rest' = rest, chunks' = chunks, inputs' = inputs, shown' = shown,
           ItoaReturns, edi' = edi, eax' = eax, ecx' = ecx, rsi' = rsi, r10' = r10, frac' = frac,
           len' \in Nat, mem' \in [Cells -> Byte], edi = Magnitude(Current),
           mem'[0] = Mark(done), mem'[DigitSpace + StringSpace] = 0, Sent' = Front(done)
    PROVE  PrintInv'
<1>1. TypeOK /\ StateInv /\ MarkInv
  BY DEF PrintInv
<1>2. /\ done \in Nat /\ done > 0 /\ Current \in Call /\ Prints(Current)
      /\ (Current.op = "print" \/ Current.op = "float")
      /\ (Current.op = "float" => Fraction(Current) \in 0 .. Scale - 1)
  BY <1>1, CurrentPrints DEF Printing, Prints
<1>3. /\ Mark(done)' = Mark(done) /\ Current' = Current /\ Front(done)' = Front(done)
      /\ Written(done)' = Written(done)
  BY CallGoesOn
<1>4. frac = IF Current.op = "print" THEN -1 ELSE Fraction(Current)
  BY <1>1 DEF StateInv
<1>5. \/ Current.op = "print" /\ pc' = "write"
      \/ Current.op = "float" /\ pc' = "point"
  BY <1>2, <1>4, Scaled DEF ItoaReturns
<1>6. TypeOK'
  BY <1>1, <1>5 DEF TypeOK
<1>7. StateInv'
  BY <1>1, <1>2, <1>3, <1>4, <1>5 DEF StateInv, InItoa, Printing, Reading
<1>8. MarkInv'
  BY <1>3, <1>5 DEF MarkInv, InItoa
<1>9. ItoaInv'
  BY <1>3, <1>5 DEF ItoaInv
<1>10. TextInv'
  <2>1. CASE pc' = "point"
    BY <1>3, <2>1 DEF TextInv
  <2>2. CASE pc' = "write"
    <3>1. Current.op = "print"
      BY <1>5, <2>2
    <3>2. Written(done) = Front(done)
      BY <3>1 DEF Written, Current
    <3> QED
      BY <1>3, <2>2, <3>2 DEF TextInv
  <2> QED
    BY <1>5, <2>1, <2>2
<1> QED
  BY <1>6, <1>7, <1>8, <1>9, <1>10 DEF PrintInv

LEMMA ItoaZeroKept ==
    ASSUME PrintInv, ItoaZero
    PROVE  PrintInv'
<1>1. TypeOK /\ StateInv /\ MarkInv /\ ItoaInv
  BY DEF PrintInv
<1>2. /\ Running("itoa") /\ edi = 0 /\ mem' = [mem EXCEPT ![0] = Zero, ![1] = 0] /\ len' = 1
      /\ ItoaReturns /\ edi' = edi /\ eax' = eax /\ ecx' = ecx /\ rsi' = rsi /\ r10' = r10
      /\ frac' = frac
  BY DEF ItoaZero
<1>3. /\ script' = script /\ done' = done /\ rest' = rest /\ chunks' = chunks
      /\ inputs' = inputs /\ shown' = shown /\ pc = "itoa"
  BY <1>2, RoutineSteps
<1>4. InItoa /\ Printing
  BY <1>3 DEF InItoa, Printing
<1>5. /\ done \in Nat /\ done > 0 /\ Current \in Call /\ Prints(Current)
      /\ Current = script.calls[done] /\ (Magnitude(Current) = 0 <=> Whole(Current) = 0)
  BY <1>1, <1>4, CurrentPrints
<1>6. Whole(Current) = 0 /\ Magnitude(Current) = 0
  BY <1>1, <1>2, <1>3, <1>5 DEF ItoaInv
<1>7. ~Positive(Current)
  BY <1>6 DEF Positive
<1>8. Mark(done) = Zero
  BY <1>5, <1>6, <1>7, MarkGrows
<1>9. DigitSpace > 1
  BY <1>5, FrontIs, <1>6
<1>10. /\ mem' \in [Cells -> Byte] /\ mem'[0] = Zero
       /\ mem'[DigitSpace + StringSpace] = 0
  <2>1. mem \in [Cells -> Byte] /\ 0 \in Cells /\ 1 \in Cells /\ DigitSpace + StringSpace \in Cells
        /\ DigitSpace + StringSpace # 1 /\ DigitSpace + StringSpace # 0
    BY <1>1, <1>9, SpacesAre DEF TypeOK, Cells
  <2> QED
    BY <1>1, <1>2, <2>1 DEF MarkInv, Zero, Byte
<1>11. Sent' = <<Zero>>
  BY <1>2, <1>10 DEF Sent, SentOf
<1>12. Front(done) = <<Zero>>
  BY <1>5, <1>6, FrontIs
<1> QED
  BY <1>2, <1>3, <1>4, <1>6, <1>8, <1>10, <1>11, <1>12, ItoaReturnsKept

LEMMA ItoaSignKept ==
    ASSUME PrintInv, ItoaSign
    PROVE  PrintInv'
<1>1. TypeOK /\ StateInv /\ MarkInv /\ ItoaInv
  BY DEF PrintInv
<1>2. /\ Running("itoa") /\ edi # 0 /\ r10' = (edi >= Half)
      /\ edi' = (IF edi >= Half THEN Negated(edi) ELSE edi)
      /\ eax' = edi' /\ ecx' = 0 /\ pc' = "count"
      /\ mem' = mem /\ rsi' = rsi /\ len' = len /\ frac' = frac
  BY DEF ItoaSign
<1>3. /\ script' = script /\ done' = done /\ rest' = rest /\ chunks' = chunks
      /\ inputs' = inputs /\ shown' = shown /\ pc = "itoa"
      /\ Mark(done - 1)' = Mark(done - 1) /\ Current' = Current
  BY <1>2, RoutineSteps
<1>4. InItoa /\ Printing
  BY <1>3 DEF InItoa, Printing
<1>5. /\ done \in Nat /\ done > 0 /\ Prints(Current) /\ Magnitude(Current) \in Words
      /\ (Magnitude(Current) = 0 <=> Whole(Current) = 0)
  BY <1>1, <1>4, CurrentPrints
<1>6. edi = Whole(Current) /\ edi' = Magnitude(Current) /\ edi' # 0
  BY <1>1, <1>2, <1>3, <1>5 DEF ItoaInv, Magnitude
<1>7. edi' \div TenTo[0] = edi'
  <2>1. PICK v \in Nat : v = edi'
    BY <1>5, <1>6, SpacesAre DEF Words
  <2>2. v \div 1 = v
    OBVIOUS
  <2> QED
    BY <2>1, <2>2, TenToSteps
<1>8. TypeOK'
  BY <1>1, <1>2, <1>3, <1>5, <1>6 DEF TypeOK
<1>9. StateInv'
  BY <1>1, <1>2, <1>3, <1>4, <1>5 DEF StateInv, InItoa, Printing, Reading
<1>10. MarkInv'
  BY <1>1, <1>2, <1>3, <1>4 DEF MarkInv, InItoa
<1>11. ItoaInv'
  BY <1>2, <1>3, <1>6, <1>7 DEF ItoaInv
<1>12. TextInv'
  BY <1>2 DEF TextInv
<1> QED
  BY <1>8, <1>9, <1>10, <1>11, <1>12 DEF PrintInv

LEMMA ItoaCountKept ==
    ASSUME PrintInv, ItoaCount
    PROVE  PrintInv'
<1>1. TypeOK /\ StateInv /\ MarkInv /\ ItoaInv
  BY DEF PrintInv
<1>2. /\ Running("count") /\ Quotient(eax) # 0 /\ eax' = Quotient(eax) /\ ecx' = ecx + 1
      /\ mem' = mem /\ edi' = edi /\ rsi' = rsi /\ r10' = r10 /\ len' = len /\ frac' = frac
      /\ pc' = pc
  BY DEF ItoaCount
<1>3. /\ script' = script /\ done' = done /\ rest' = rest /\ chunks' = chunks
      /\ inputs' = inputs /\ shown' = shown /\ pc = "count"
      /\ Mark(done - 1)' = Mark(done - 1) /\ Current' = Current
  BY <1>2, RoutineSteps
<1>4. InItoa /\ Printing
  BY <1>3 DEF InItoa, Printing
<1>5. PICK v \in Nat, n \in Nat : /\ v = Magnitude(Current) /\ n = ecx
                                  /\ eax = v \div TenTo[n]
  <2>1. Magnitude(Current) \in Nat
    BY <1>1, <1>4, CurrentPrints, SpacesAre DEF Words
  <2>2. ecx \in Nat
    BY <1>1 DEF TypeOK
  <2>3. eax = Magnitude(Current) \div TenTo[ecx]
    BY <1>1, <1>3 DEF ItoaInv
  <2> QED
    BY <2>1, <2>2, <2>3, Zenon
<1>6. eax' = v \div TenTo[n + 1]
  BY <1>2, <1>5, NextQuotient DEF Quotient
<1>7. eax' \in Words
  <2>1. PICK e \in Nat : e = eax /\ e < Modulus
    BY <1>1, SpacesAre DEF TypeOK, Words
  <2>2. e \div 10 \in Nat /\ e \div 10 <= e
    OBVIOUS
  <2> QED
    BY <1>2, <2>1, <2>2, SpacesAre DEF Quotient, Words
<1>8. TypeOK'
  BY <1>1, <1>2, <1>3, <1>7 DEF TypeOK
<1>9. StateInv'
  BY <1>1, <1>2, <1>3 DEF StateInv, InItoa, Printing, Reading
<1>10. MarkInv'
  BY <1>1, <1>2, <1>3, <1>4 DEF MarkInv, InItoa
<1>11. ItoaInv'
  BY <1>1, <1>2, <1>3, <1>5, <1>6 DEF ItoaInv
<1>12. TextInv'
  BY <1>2, <1>3 DEF TextInv
<1> QED
  BY <1>8, <1>9, <1>10, <1>11, <1>12 DEF PrintInv

LEMMA ItoaTerminateKept ==
    ASSUME PrintInv, ItoaTerminate
    PROVE  PrintInv'
<1>1. TypeOK /\ StateInv /\ MarkInv /\ ItoaInv
  BY DEF PrintInv
<1>2. /\ Running("count") /\ Quotient(eax) = 0
      /\ ecx' = ecx + 1 /\ rsi' = ecx + 2 /\ len' = ecx + 2
      /\ mem' = [mem EXCEPT ![ecx + 2] = 0]
      /\ eax' = edi /\ pc' = "store" /\ edi' = edi /\ r10' = r10 /\ frac' = frac
  BY DEF ItoaTerminate
<1>3. /\ script' = script /\ done' = done /\ rest' = rest /\ chunks' = chunks
      /\ inputs' = inputs /\ shown' = shown /\ pc = "count"
      /\ Mark(done - 1)' = Mark(done - 1) /\ Current' = Current
  BY <1>2, RoutineSteps
<1>4. InItoa /\ Printing
  BY <1>3 DEF InItoa, Printing
<1>5. /\ done \in Nat /\ done > 0 /\ Prints(Current) /\ Magnitude(Current) \in Words
      /\ Current \in Call /\ Current = script.calls[done]
      /\ (Magnitude(Current) = 0 <=> Whole(Current) = 0)
  BY <1>1, <1>4, CurrentPrints
<1>6. PICK v \in Nat, n \in Nat : /\ v = Magnitude(Current) /\ n = ecx /\ v # 0 /\ edi = v
                                  /\ eax = v \div TenTo[n] /\ (n > 0 => eax # 0)
                                  /\ r10 = (Whole(Current) >= Half)
  <2>1. Magnitude(Current) \in Nat /\ ecx \in Nat
    BY <1>1, <1>5, SpacesAre DEF TypeOK, Words
  <2>2. /\ edi = Magnitude(Current) /\ Magnitude(Current) # 0 /\ r10 = (Whole(Current) >= Half)
        /\ eax = Magnitude(Current) \div TenTo[ecx] /\ (ecx > 0 => eax # 0)
    BY <1>1, <1>3 DEF ItoaInv
  <2> QED
    BY <2>1, <2>2, Zenon
<1>7. v < TenTo[n + 1]
  <2>1. v \div TenTo[n + 1] = 0
    BY <1>2, <1>6, NextQuotient DEF Quotient
  <2>2. PICK t \in Nat \ {0} : t = TenTo[n + 1]
    BY TenToSteps
  <2>3. v = t * (v \div t) + (v % t) /\ v % t \in 0 .. t - 1
    BY Divided
  <2>4. t * 0 = 0
    OBVIOUS
  <2> QED
    BY <2>1, <2>2, <2>3, <2>4
<1>8. n > 0 => TenTo[n] <= v
  <2>1. PICK t \in Nat \ {0} : t = TenTo[n]
    BY TenToSteps
  <2>2. PICK q \in Nat, r \in 0 .. t - 1 : q = v \div t /\ v = t * q + r
    <3>1. v \div t \in Nat /\ v % t \in 0 .. t - 1 /\ v = t * (v \div t) + (v % t)
      BY Divided
    <3> QED
      BY <3>1, Zenon
  <2>3. q > 0 => t * q >= t /\ t * q \in Nat
    OBVIOUS
  <2> QED
    BY <1>6, <2>1, <2>2, <2>3
<1>9. Length(v) = n + 1
  <2>1. PICK m \in Nat : m = n + 1 /\ m > 0 /\ m - 1 = n
    OBVIOUS
  <2>2. m > 1 => n > 0
    BY <2>1
  <2>3. v < TenTo[m] /\ (m > 1 => TenTo[m - 1] <= v)
    BY <1>7, <1>8, <2>1, <2>2, Zenon
  <2>4. m = Length(v)
    BY <2>1, <2>3, LengthIs, Zenon
  <2> QED
    BY <2>1, <2>4
<1>10. n + 2 < DigitSpace + 1
  BY <1>5, <1>6, <1>9, FrontIs, SpacesAre
<1>11. n + 2 \in Cells /\ n + 2 # 0 /\ n + 2 # DigitSpace + StringSpace
  BY <1>10, SpacesAre, <1>5, FrontIs, <1>9, <1>6 DEF Cells
<1>12. /\ mem' \in [Cells -> Byte] /\ mem'[0] = mem[0]
       /\ mem'[DigitSpace + StringSpace] = mem[DigitSpace + StringSpace]
  <2>1. mem \in [Cells -> Byte] /\ 0 \in Cells /\ DigitSpace + StringSpace \in Cells
    BY <1>1, SpacesAre DEF TypeOK, Cells
  <2> QED
    BY <1>2, <1>6, <1>11, <2>1 DEF Byte
<1>13. v \div TenTo[0] = v
  <2>1. v \div 1 = v
    OBVIOUS
  <2> QED
    BY <2>1, TenToSteps
<1>14. TypeOK'
  BY <1>1, <1>2, <1>3, <1>6, <1>11, <1>12 DEF TypeOK
<1>15. StateInv'
  BY <1>1, <1>2, <1>3, <1>4, <1>5 DEF StateInv, InItoa, Printing, Reading
<1>16. MarkInv'
  BY <1>1, <1>2, <1>3, <1>4, <1>12 DEF MarkInv, InItoa
<1>17. ItoaInv'
  <2>1. ecx' = Length(v) /\ rsi' = ecx' + 1 /\ len' = Length(v) + 1 /\ Length(v) - ecx' = 0
        /\ Length(v) \in Nat
    BY <1>2, <1>6, <1>9
  <2>2. \A i \in ecx' + 1 .. Length(v) : FALSE
    BY <2>1
  <2> QED
    BY <1>2, <1>3, <1>6, <1>13, <2>1, <2>2 DEF ItoaInv
<1>18. TextInv'
  BY <1>2, <1>3 DEF TextInv
<1> QED
  BY <1>14, <1>15, <1>16, <1>17, <1>18 DEF PrintInv

\* What the digits are written from.
LEMMA Storing ==
    ASSUME PrintInv, pc = "store"
    PROVE  /\ done \in Nat /\ done > 0 /\ Prints(Current) /\ Current \in Call
           /\ Current = script.calls[done]
           /\ Magnitude(Current) \in Nat /\ Magnitude(Current) # 0 /\ edi = Magnitude(Current)
           /\ Whole(Current) \in Words /\ Whole(Current) # 0 /\ r10 = (Whole(Current) >= Half)
           /\ Length(Magnitude(Current)) \in Nat /\ Length(Magnitude(Current)) + 1 < DigitSpace
           /\ ecx \in Nat /\ ecx <= Length(Magnitude(Current)) /\ rsi = ecx + 1
           /\ len = Length(Magnitude(Current)) + 1
           /\ eax = Magnitude(Current) \div TenTo[Length(Magnitude(Current)) - ecx]
           /\ \A i \in ecx + 1 .. Length(Magnitude(Current)) :
                 mem[i] = Decimal(Magnitude(Current))[i]
<1>1. TypeOK /\ StateInv /\ ItoaInv /\ Printing
  BY DEF PrintInv, Printing, InItoa
<1>2. /\ done \in Nat /\ done > 0 /\ Prints(Current) /\ Magnitude(Current) \in Words
      /\ Current \in Call /\ Current = script.calls[done] /\ Whole(Current) \in Words
      /\ (Magnitude(Current) = 0 <=> Whole(Current) = 0)
  BY <1>1, CurrentPrints
<1>3. Magnitude(Current) \in Nat /\ Magnitude(Current) # 0
  BY <1>1, <1>2, SpacesAre DEF Words, ItoaInv
<1>4. Length(Magnitude(Current)) \in Nat
  BY <1>3, LengthIs
<1>5. Length(Magnitude(Current)) + 1 < DigitSpace
  BY <1>2, <1>3, <1>4, FrontIs
<1> QED
  BY <1>1, <1>2, <1>3, <1>4, <1>5 DEF ItoaInv, TypeOK

LEMMA ItoaStoreKept ==
    ASSUME PrintInv, ItoaStore
    PROVE  PrintInv'
<1>1. TypeOK /\ StateInv /\ MarkInv /\ ItoaInv
  BY DEF PrintInv
<1>2. /\ Running("store") /\ ecx > 0 /\ mem' = [mem EXCEPT ![rsi - 1] = Zero + (eax % 10)]
      /\ eax' = Quotient(eax) /\ rsi' = rsi - 1 /\ ecx' = ecx - 1
      /\ edi' = edi /\ r10' = r10 /\ len' = len /\ frac' = frac /\ pc' = pc
  BY DEF ItoaStore
<1>3. /\ script' = script /\ done' = done /\ rest' = rest /\ chunks' = chunks
      /\ inputs' = inputs /\ shown' = shown /\ pc = "store"
      /\ Mark(done - 1)' = Mark(done - 1) /\ Current' = Current
  BY <1>2, RoutineSteps
<1>4. PICK v, l, c \in Nat : /\ v = Magnitude(Current) /\ v # 0 /\ edi = v
                             /\ l = Length(v) /\ l + 1 < DigitSpace
                             /\ c = ecx /\ c <= l /\ c > 0 /\ rsi = c + 1 /\ len = l + 1
                             /\ eax = v \div TenTo[l - c]
                             /\ \A i \in c + 1 .. l : mem[i] = Decimal(v)[i]
                             /\ r10 = (Whole(Current) >= Half)
  BY <1>2, <1>3, Storing
<1>5. rsi - 1 = c /\ c \in Cells /\ c # 0 /\ c # DigitSpace + StringSpace /\ c - 1 \in Nat
  BY <1>4, SpacesAre DEF Cells
<1>6. c \in 1 .. l /\ l - c \in Nat /\ (l - c) + 1 = l - (c - 1)
  BY <1>4
<1>7. Decimal(v)[c] = Zero + (eax % 10) /\ Decimal(v)[c] \in Byte
  <2>1. /\ Decimal(v) \in Seq(Byte) /\ Len(Decimal(v)) = l
        /\ Decimal(v)[c] = Zero + ((v \div TenTo[l - c]) % 10)
    BY <1>4, <1>6, DecimalIs
  <2> QED
    BY <1>4, <1>6, <2>1
<1>8. /\ mem' \in [Cells -> Byte] /\ mem'[0] = mem[0] /\ mem'[c] = Decimal(v)[c]
      /\ mem'[DigitSpace + StringSpace] = mem[DigitSpace + StringSpace]
      /\ \A i \in c + 1 .. l : mem'[i] = mem[i]
  <2>1. mem \in [Cells -> Byte] /\ 0 \in Cells /\ DigitSpace + StringSpace \in Cells
        /\ \A i \in c + 1 .. l : i \in Cells /\ i # c
    <3>1. mem \in [Cells -> Byte]
      BY <1>1 DEF TypeOK
    <3>2. l <= DigitSpace
      BY <1>4, SpacesAre
    <3>3. \A i \in c + 1 .. l : i \in Nat /\ i <= DigitSpace /\ i # c
      BY <3>2, SpacesAre
    <3> QED
      BY <3>1, <3>3, CellsAre
  <2> QED
    BY <1>2, <1>5, <1>7, <2>1
<1>9. eax' = v \div TenTo[l - (c - 1)]
  BY <1>2, <1>4, <1>6, NextQuotient DEF Quotient
<1>10. eax' \in Words
  <2>1. PICK e \in Nat : e = eax /\ e < Modulus
    BY <1>1, SpacesAre DEF TypeOK, Words
  <2>2. e \div 10 \in Nat /\ e \div 10 <= e
    OBVIOUS
  <2> QED
    BY <1>2, <2>1, <2>2, SpacesAre DEF Quotient, Words
<1>11. TypeOK'
  BY <1>1, <1>2, <1>3, <1>4, <1>5, <1>8, <1>10 DEF TypeOK
<1>12. StateInv'
  BY <1>1, <1>2, <1>3 DEF StateInv, InItoa, Printing, Reading
<1>13. MarkInv'
  BY <1>1, <1>2, <1>3, <1>8 DEF MarkInv, InItoa
<1>14. ItoaInv'
  <2>1. ASSUME NEW i \in ecx' + 1 .. l PROVE mem'[i] = Decimal(v)[i]
    <3>1. CASE i = c
      BY <1>8, <3>1
    <3>2. CASE i # c
      <4>1. i \in c + 1 .. l
        BY <1>2, <1>4, <3>2
      <4> QED
        BY <1>4, <1>8, <4>1
    <3> QED
      BY <3>1, <3>2
  <2>2. ecx' = c - 1 /\ ecx' <= l /\ rsi' = ecx' + 1 /\ len' = l + 1
    BY <1>2, <1>4, <1>5
  <2> QED
    BY <1>2, <1>3, <1>4, <1>9, <2>1, <2>2 DEF ItoaInv
<1>15. TextInv'
  BY <1>2, <1>3 DEF TextInv
<1> QED
  BY <1>11, <1>12, <1>13, <1>14, <1>15 DEF PrintInv

LEMMA ItoaEndKept ==
    ASSUME PrintInv, ItoaEnd
    PROVE  PrintInv'
<1>1. TypeOK /\ StateInv /\ MarkInv /\ ItoaInv
  BY DEF PrintInv
<1>2. /\ Running("store") /\ ecx = 0 /\ mem' = (IF r10 THEN [mem EXCEPT ![rsi - 1] = Minus] ELSE mem)
      /\ ItoaReturns /\ edi' = edi /\ eax' = eax /\ ecx' = ecx /\ rsi' = rsi /\ r10' = r10
      /\ len' = len /\ frac' = frac
  BY DEF ItoaEnd, registers
<1>3. /\ script' = script /\ done' = done /\ rest' = rest /\ chunks' = chunks
      /\ inputs' = inputs /\ shown' = shown /\ pc = "store"
  BY <1>2, RoutineSteps
<1>4. PICK v, l \in Nat : /\ v = Magnitude(Current) /\ edi = v /\ l = Length(v)
                          /\ l + 1 < DigitSpace /\ rsi - 1 = 0 /\ len = l + 1
                          /\ \A i \in 1 .. l : mem[i] = Decimal(v)[i]
                          /\ r10 = (Whole(Current) >= Half) /\ Whole(Current) # 0
                          /\ Whole(Current) \in Words
                          /\ done \in Nat /\ done > 0 /\ Prints(Current) /\ Current \in Call
                          /\ Current = script.calls[done]
  BY <1>2, <1>3, Storing
<1>5. InItoa
  BY <1>3 DEF InItoa
<1>6. Mark(done) = IF Whole(Current) >= Half THEN Minus ELSE mem[0]
  <2>1. Positive(Current) <=> ~(Whole(Current) >= Half)
    BY <1>4, SpacesAre DEF Positive, Words
  <2>2. mem[0] = Mark(done - 1)
    BY <1>1, <1>5 DEF MarkInv
  <2> QED
    BY <1>4, <2>1, <2>2, MarkGrows
<1>7. /\ mem' \in [Cells -> Byte] /\ mem'[0] = Mark(done) /\ mem'[DigitSpace + StringSpace] = 0
      /\ \A i \in 1 .. l : mem'[i] = mem[i]
  <2>1. /\ mem \in [Cells -> Byte] /\ 0 \in Cells /\ DigitSpace + StringSpace \in Cells
        /\ DigitSpace + StringSpace # 0 /\ mem[DigitSpace + StringSpace] = 0
        /\ \A i \in 1 .. l : i \in Cells /\ i # 0
    <3>1. mem \in [Cells -> Byte] /\ mem[DigitSpace + StringSpace] = 0
      BY <1>1 DEF TypeOK, MarkInv
    <3>2. l <= DigitSpace
      BY <1>4, SpacesAre
    <3>3. \A i \in 1 .. l : i \in Nat /\ i <= DigitSpace /\ i # 0
      BY <3>2, SpacesAre
    <3> QED
      BY <3>1, <3>3, CellsAre
  <2>2. Minus \in Byte
    BY DEF Minus, Byte
  <2>3. CASE r10
    BY <1>2, <1>4, <1>6, <2>1, <2>2, <2>3
  <2>4. CASE ~r10
    BY <1>2, <1>4, <1>6, <2>1, <2>4
  <2> QED
    BY <2>3, <2>4
<1>8. PICK s, t : s = Sent' /\ t = Front(done)
  OBVIOUS
<1>9. s \in Seq(Byte) /\ Len(s) = l + 1 /\ \A i \in 1 .. l + 1 : s[i] = mem'[i - 1]
  <2>1. len' = l + 1 /\ l + 1 \in Nat /\ l + 1 <= DigitSpace + StringSpace + 1
    BY <1>2, <1>4, SpacesAre
  <2>2. s = SentOf(mem', l + 1)
    BY <1>8, <2>1 DEF Sent
  <2> QED
    BY <1>7, <2>1, <2>2, SentIs DEF SentOf
<1>10. /\ t \in Seq(Byte) /\ Len(t) = l + 1 /\ t[1] = Mark(done)
       /\ \A i \in 1 .. l : t[i + 1] = Decimal(v)[i]
  BY <1>4, <1>8, FrontIs
<1>11. ASSUME NEW i \in 1 .. l + 1 PROVE s[i] = t[i]
  <2>1. CASE i = 1
    BY <1>7, <1>9, <1>10, <2>1
  <2>2. CASE i # 1
    <3>1. i - 1 \in 1 .. l /\ (i - 1) + 1 = i
      BY <2>2
    <3>2. t[(i - 1) + 1] = Decimal(v)[i - 1]
      BY <1>10, <3>1
    <3> QED
      BY <1>4, <1>7, <1>9, <3>1, <3>2
  <2> QED
    BY <2>1, <2>2
<1>12. s = t
  BY <1>9, <1>10, <1>11
<1>13. len' \in Nat
  BY <1>2, <1>4
<1> QED
  BY <1>2, <1>3, <1>4, <1>5, <1>7, <1>8, <1>12, <1>13, ItoaReturnsKept

\* A fraction is written before the end of stringspace.
LEMMA FractionFits ==
    ASSUME NEW k, script.calls[k] \in Call, Prints(script.calls[k]), script.calls[k].op = "float"
    PROVE  LET c == script.calls[k]
           IN  /\ Spelled(Fraction(c), Places(c)) \in Nat
               /\ Len(Front(k)) + 2 + Spelled(Fraction(c), Places(c)) <= DigitSpace + StringSpace
<1> DEFINE c == script.calls[k]
<1>1. PICK n, p \in Nat :
         /\ n + 2 <= DigitSpace /\ n + p + 3 <= DigitSpace + StringSpace
         /\ \A v \in Words : Length(v) <= n
         /\ \A f \in Nat : Spelled(f, 10) <= p /\ Spelled(f, Precision) <= p
  BY Fits
<1>2. PICK f \in Nat : f = Fraction(c)
  BY CallIs, Scaled
<1>3. Places(c) \in Nat /\ Places(c) \in {10, Precision}
  BY CallIs
<1>4. PICK s \in Nat : s = Spelled(f, Places(c)) /\ s <= p
  <2>1. PICK m \in Nat : m = Places(c)
    BY <1>3
  <2>2. Spelled(f, m) \in 0 .. m
    BY SpelledIs
  <2>3. Spelled(f, m) \in Nat
    BY <2>2
  <2>4. Spelled(f, m) <= p
    BY <1>1, <1>3, <2>1
  <2> QED
    BY <2>1, <2>3, <2>4
<1>5. PICK l \in Nat : l = Len(Front(k)) /\ l <= n + 1
  <2>1. CASE Whole(c) = 0
    <3>1. Front(k) = <<Zero>>
      BY <2>1, FrontIs
    <3> QED
      BY <1>1, <3>1
  <2>2. CASE Whole(c) # 0
    <3>1. Magnitude(c) \in Words
      BY CallIs
    <3>2. Length(Magnitude(c)) <= n
      BY <1>1, <3>1
    <3>3. PICK m : m = Length(Magnitude(c))
      OBVIOUS
    <3>4. m \in Nat
      BY <3>1, <3>3, LengthIs, SpacesAre DEF Words
    <3>5. Len(Front(k)) = m + 1
      BY <2>2, <3>3, FrontIs
    <3> QED
      BY <3>2, <3>3, <3>4, <3>5
  <2> QED
    BY <2>1, <2>2
<1>6. l + 2 + s <= DigitSpace + StringSpace
  <2>1. PICK d, z \in Nat : d = DigitSpace /\ z = StringSpace
    BY SpacesAre
  <2>2. n + p + 3 <= d + z
    BY <1>1, <2>1
  <2>3. s <= p /\ l <= n + 1
    BY <1>4, <1>5
  <2>4. l + 2 + s <= d + z
    BY <2>2, <2>3
  <2> QED
    BY <2>1, <2>4
<1> QED
  BY <1>2, <1>4, <1>5, <1>6

LEMMA WrittenIs ==
    ASSUME NEW k, script.calls[k] \in Call, Prints(script.calls[k])
    PROVE  LET c == script.calls[k]
               n == Spelled(Fraction(c), Places(c))
           IN  /\ Written(k) \in Seq(Byte)
               /\ c.op = "print" => Written(k) = Front(k)
               /\ c.op = "float" =>
                     /\ n \in Nat /\ Len(Written(k)) = Len(Front(k)) + 1 + n + IF Full(c) THEN 1 ELSE 0
                     /\ Written(k) = IF Full(c) THEN Append(Fractional(k, n), 0) ELSE Fractional(k, n)
<1> DEFINE c == script.calls[k]
           n == Spelled(Fraction(c), Places(c))
<1>1. Front(k) \in Seq(Byte) /\ Len(Front(k)) \in Nat
  BY FrontIs
<1>2. CASE c.op = "print"
  BY <1>1, <1>2 DEF Written
<1>3. CASE c.op = "float"
  <2>1. n \in Nat
    BY <1>3, FractionFits
  <2>2. PICK x \in Seq(Byte) : x = Fractional(k, n) /\ Len(x) = Len(Front(k)) + 1 + n
    BY <1>3, <2>1, FractionalIs
  <2>3. Written(k) = x \o IF Full(c) THEN <<0>> ELSE << >>
    BY <1>3, <2>2 DEF Written
  <2>4. 0 \in Byte
    BY DEF Byte
  <2>5. CASE Full(c)
    <3>1. Written(k) = x \o <<0>>
      BY <2>3, <2>5
    <3>2. x \o <<0>> = Append(x, 0) /\ x \o <<0>> \in Seq(Byte) /\ Len(x \o <<0>>) = Len(x) + 1
      BY <2>4
    <3> QED
      BY <1>3, <2>1, <2>2, <2>5, <3>1, <3>2
  <2>6. CASE ~Full(c)
    <3>1. Written(k) = x \o << >>
      BY <2>3, <2>6
    <3>2. x \o << >> = x
      OBVIOUS
    <3>3. Len(x) + 0 = Len(x)
      OBVIOUS
    <3> QED
      BY <1>3, <2>1, <2>2, <2>6, <3>1, <3>2, <3>3
  <2> QED
    BY <2>5, <2>6
<1>4. c.op = "print" \/ c.op = "float"
  BY DEF Prints
<1> QED
  BY <1>2, <1>3, <1>4

\* What ftoa writes from.
LEMMA FtoaWrites ==
    ASSUME PrintInv, pc \in {"point", "digits"}
    PROVE  /\ done \in Nat /\ done > 0 /\ Prints(Current) /\ Current \in Call
           /\ Current.op = "float" /\ Current = script.calls[done]
           /\ Fraction(Current) \in Nat /\ Fraction(Current) < Scale
           /\ Places(Current) \in Nat /\ Front(done) \in Seq(Byte)
           /\ Len(Front(done)) \in Nat /\ Len(Front(done)) > 0
           /\ Spelled(Fraction(Current), Places(Current)) \in Nat
           /\ Len(Front(done)) + 2 + Spelled(Fraction(Current), Places(Current))
                 <= DigitSpace + StringSpace
           /\ pc = "point" => (edi = 0 <=> Whole(Current) = 0)
<1>1. TypeOK /\ StateInv /\ Printing /\ Current.op = "float" /\ ItoaInv
  BY DEF PrintInv, StateInv, Printing
<1>2. /\ done \in Nat /\ done > 0 /\ Current \in Call /\ Current = script.calls[done]
      /\ Prints(Current) /\ (Magnitude(Current) = 0 <=> Whole(Current) = 0)
      /\ Places(Current) \in Nat /\ Fraction(Current) \in 0 .. Scale - 1
  BY <1>1, CurrentPrints
<1>3. Fraction(Current) \in Nat /\ Fraction(Current) < Scale
  BY <1>2, Scaled
<1>4. Front(done) \in Seq(Byte) /\ Len(Front(done)) \in Nat /\ Len(Front(done)) > 0
  BY <1>2, FrontIs
<1>5. /\ Spelled(Fraction(Current), Places(Current)) \in Nat
      /\ Len(Front(done)) + 2 + Spelled(Fraction(Current), Places(Current)) <= DigitSpace + StringSpace
  BY <1>1, <1>2, FractionFits
<1>6. pc = "point" => (edi = 0 <=> Whole(Current) = 0)
  BY <1>1, <1>2 DEF ItoaInv
<1> QED
  BY <1>1, <1>2, <1>3, <1>4, <1>5, <1>6

\* A byte is written behind the text.
LEMMA ByteWritten ==
    ASSUME PrintInv, NEW b \in Byte, len > 0, len < DigitSpace + StringSpace,
           mem' = [mem EXCEPT ![len] = b], len' = len + 1
    PROVE  /\ mem' \in [Cells -> Byte] /\ len' \in Nat /\ Sent' = Append(Sent, b)
           /\ mem'[0] = mem[0] /\ mem'[DigitSpace + StringSpace] = mem[DigitSpace + StringSpace]
           /\ \A i \in Cells : i # len => mem'[i] = mem[i]
<1>1. mem \in [Cells -> Byte] /\ len \in Nat
  BY DEF PrintInv, TypeOK
<1>2. len \in Cells /\ len # 0 /\ len # DigitSpace + StringSpace /\ 0 \in Cells
      /\ DigitSpace + StringSpace \in Cells
  BY <1>1, SpacesAre DEF Cells
<1>3. Sent' = Append(Sent, b)
  <2>1. PICK l \in Nat : l = len /\ l <= DigitSpace + StringSpace
    BY <1>1, SpacesAre
  <2>2. SentOf([mem EXCEPT ![l] = b], l + 1) = Append(SentOf(mem, l), b)
    BY <1>1, <2>1, SentGrows
  <2>3. Sent' = SentOf(mem', len')
    BY DEF Sent
  <2>4. SentOf(mem', len') = SentOf([mem EXCEPT ![l] = b], l + 1)
    BY <2>1
  <2> QED
    BY <2>1, <2>2, <2>3, <2>4 DEF Sent
<1> QED
  BY <1>1, <1>2, <1>3

LEMMA FtoaPointKept ==
    ASSUME PrintInv, FtoaPoint
    PROVE  PrintInv'
<1>1. TypeOK /\ StateInv /\ MarkInv /\ TextInv
  BY DEF PrintInv
<1>2. /\ Running("point") /\ mem' = [mem EXCEPT ![len] = Point] /\ len' = len + 1
      /\ ecx' = PrecisionLeft /\ pc' = "digits"
      /\ edi' = edi /\ eax' = eax /\ rsi' = rsi /\ r10' = r10 /\ frac' = frac
  BY DEF FtoaPoint
<1>3. /\ script' = script /\ done' = done /\ rest' = rest /\ chunks' = chunks
      /\ inputs' = inputs /\ shown' = shown /\ pc = "point"
      /\ Mark(done)' = Mark(done) /\ Current' = Current
      /\ \A n : Fractional(done, n)' = Fractional(done, n)
  BY <1>2, RoutineSteps
<1>4. PICK f \in Nat : /\ f = Fraction(Current) /\ f < Scale
                       /\ Current.op = "float" /\ Prints(Current) /\ done > 0
                       /\ Places(Current) \in Nat
                       /\ (edi = 0 <=> Whole(Current) = 0)
                       /\ Current \in Call /\ Current = script.calls[done]
  BY <1>3, FtoaWrites
<1>5. Sent = Front(done) /\ len = Len(Front(done)) /\ len > 0 /\ len < DigitSpace + StringSpace
  <2>1. Sent = Front(done) /\ len \in Nat
    BY <1>1, <1>3 DEF TextInv, TypeOK
  <2>2. Len(Sent) = len
    BY <2>1, SentLength DEF Sent
  <2>3. PICK n \in Nat : /\ Len(Front(done)) \in Nat /\ Len(Front(done)) > 0
                         /\ Len(Front(done)) + 2 + n <= DigitSpace + StringSpace
    BY <1>3, FtoaWrites
  <2> QED
    BY <2>1, <2>2, <2>3, SpacesAre
<1>6. Point \in Byte
  BY DEF Point, Byte
<1>7. /\ mem' \in [Cells -> Byte] /\ len' \in Nat /\ Sent' = Append(Sent, Point)
      /\ mem'[0] = mem[0] /\ mem'[DigitSpace + StringSpace] = mem[DigitSpace + StringSpace]
  BY <1>2, <1>5, <1>6, ByteWritten
<1>8. ecx' = Places(Current)
  BY <1>2, <1>4 DEF PrecisionLeft, Places
<1>9. Sent' = Fractional(done, 0)
  <2>1. 0 \in Nat
    OBVIOUS
  <2> QED
    BY <1>4, <1>5, <1>7, <2>1, FractionalIs
<1>10. frac = Behind(f, 0)
  <2>1. frac = f
    BY <1>1, <1>3, <1>4 DEF StateInv
  <2>2. PICK s \in Nat \ {0} : s = Scale
    BY Scaled
  <2>3. f = s * 0 + f /\ f \in 0 .. s - 1
    BY <1>4, <2>2
  <2>4. f % s = f
    BY <2>3, DividedOnce
  <2>5. f * 1 = f
    OBVIOUS
  <2> QED
    BY <2>1, <2>2, <2>4, <2>5, TenToSteps DEF Behind
<1>11. TypeOK'
  BY <1>1, <1>2, <1>3, <1>4, <1>7, <1>8 DEF TypeOK
<1>12. StateInv'
  BY <1>1, <1>2, <1>3, <1>4 DEF StateInv, InItoa, Printing, Reading
<1>13. MarkInv'
  BY <1>1, <1>2, <1>3, <1>7 DEF MarkInv, InItoa
<1>14. ItoaInv'
  BY <1>2 DEF ItoaInv
<1>15. TextInv'
  <2>1. Places(Current) - ecx' = 0 /\ ecx' <= Places(Current)
    BY <1>4, <1>8
  <2>2. \A m \in 0 .. 0 - 1 : FALSE
    OBVIOUS
  <2> QED
    BY <1>2, <1>3, <1>4, <1>9, <1>10, <2>1, <2>2 DEF TextInv
<1> QED
  BY <1>11, <1>12, <1>13, <1>14, <1>15 DEF PrintInv

\* How far ftoa is.
LEMMA Spelling ==
    ASSUME PrintInv, pc = "digits"
    PROVE  LET f == Fraction(Current)
               n == Places(Current) - ecx
               s == Spelled(f, Places(Current))
           IN  /\ f \in Nat /\ n \in Nat /\ s \in Nat /\ n <= Places(Current) /\ Places(Current) \in Nat
               /\ Sent = Fractional(done, n) /\ frac = Behind(f, n)
               /\ \A m \in 0 .. n - 1 : Behind(f, m) # 0
               /\ n <= s /\ (frac # 0 /\ ecx > 0 => n < s) /\ (ecx = 0 \/ frac = 0 => n = s)
               /\ len = Len(Front(done)) + 1 + n /\ len > 0 /\ len < DigitSpace + StringSpace
               /\ ecx \in Nat /\ ecx = Places(Current) - n
<1>1. TypeOK /\ TextInv
  BY DEF PrintInv
<1>2. PICK f, p, s, l \in Nat : /\ f = Fraction(Current) /\ p = Places(Current)
                                /\ s = Spelled(f, p) /\ l = Len(Front(done))
                                /\ l + 2 + s <= DigitSpace + StringSpace
                                /\ Current.op = "float" /\ Prints(Current) /\ done > 0
                                /\ Current \in Call /\ Current = script.calls[done]
  BY FtoaWrites
<1>3. PICK n \in Nat : n = p - ecx /\ ecx = p - n /\ n <= p /\ ecx \in Nat
  <2>1. PICK e \in Nat : e = ecx /\ e <= p
    BY <1>1, <1>2 DEF TextInv, TypeOK
  <2>2. p - e \in Nat /\ e = p - (p - e) /\ p - e <= p
    BY <2>1
  <2> QED
    BY <2>1, <2>2
<1>4. /\ Sent = Fractional(done, n) /\ frac = Behind(f, n)
      /\ \A m \in 0 .. n - 1 : Behind(f, m) # 0
  BY <1>1, <1>2, <1>3 DEF TextInv
<1>5. n \in 0 .. p
  BY <1>3
<1>6. n <= s /\ (Behind(f, n) # 0 /\ n < p => n < s) /\ (n = p \/ Behind(f, n) = 0 => n = s)
  BY <1>2, <1>4, <1>5, SpelledOnce
<1>7. n <= s /\ (frac # 0 /\ ecx > 0 => n < s) /\ (ecx = 0 \/ frac = 0 => n = s)
  <2>1. (ecx > 0 <=> n < p) /\ (ecx = 0 <=> n = p)
    BY <1>3
  <2> QED
    BY <1>4, <1>6, <2>1
<1>8. len = l + 1 + n
  <2>1. Len(Fractional(done, n)) = l + 1 + n
    BY <1>2, FractionalIs
  <2>2. Len(Sent) = len
    BY <1>1, SentLength DEF Sent, TypeOK
  <2> QED
    BY <1>4, <2>1, <2>2
<1>9. len > 0 /\ len < DigitSpace + StringSpace
  BY <1>2, <1>6, <1>8, SpacesAre
<1> QED
  BY <1>2, <1>3, <1>4, <1>7, <1>8, <1>9

LEMMA FtoaDigitKept ==
    ASSUME PrintInv, FtoaDigit
    PROVE  PrintInv'
<1>1. TypeOK /\ StateInv /\ MarkInv /\ TextInv
  BY DEF PrintInv
<1>2. /\ Running("digits") /\ mem' = [mem EXCEPT ![len] = Zero + (frac * 10) \div Scale]
      /\ len' = len + 1 /\ frac' = (frac * 10) % Scale /\ ecx' = ecx - 1 /\ ecx > 0 /\ frac # 0
      /\ edi' = edi /\ eax' = eax /\ rsi' = rsi /\ r10' = r10 /\ pc' = pc
  BY DEF FtoaDigit
<1>3. /\ script' = script /\ done' = done /\ rest' = rest /\ chunks' = chunks
      /\ inputs' = inputs /\ shown' = shown /\ pc = "digits" /\ pc' = "digits"
      /\ Mark(done)' = Mark(done) /\ Current' = Current
      /\ \A n : Fractional(done, n)' = Fractional(done, n)
  BY <1>2, RoutineSteps
<1>4. PICK f, p, n \in Nat :
         /\ f = Fraction(Current) /\ p = Places(Current)
         /\ ecx = p - n /\ n <= p /\ p - ecx = n
         /\ Sent = Fractional(done, n) /\ frac = Behind(f, n)
         /\ (\A m \in 0 .. n - 1 : Behind(f, m) # 0)
         /\ len > 0 /\ len < DigitSpace + StringSpace
  BY <1>3, Spelling
<1>5. Current.op = "float" /\ Prints(Current) /\ done > 0 /\ Current \in Call
      /\ Current = script.calls[done]
  BY <1>3, FtoaWrites
<1>6. /\ frac' = Behind(f, n + 1) /\ (frac * 10) \div Scale = Digit(f, n + 1)
      /\ Digit(f, n + 1) \in 0 .. 9 /\ Behind(f, n + 1) \in 0 .. Scale - 1
  <2>1. n + 1 \in Nat
    OBVIOUS
  <2>2. Behind(f, n + 1) \in 0 .. Scale - 1
    BY <2>1, NextDigit
  <2> QED
    BY <1>2, <1>4, <2>2, NextDigit
<1>7. PICK b \in Byte : b = Zero + Digit(f, n + 1) /\ mem' = [mem EXCEPT ![len] = b]
  <2>1. PICK d \in 0 .. 9 : d = Digit(f, n + 1)
    BY <1>6
  <2>2. Zero + d \in Byte
    BY DEF Byte, Zero
  <2> QED
    BY <1>2, <1>6, <2>1, <2>2
<1>8. /\ mem' \in [Cells -> Byte] /\ len' \in Nat /\ Sent' = Append(Sent, b)
      /\ mem'[0] = mem[0] /\ mem'[DigitSpace + StringSpace] = mem[DigitSpace + StringSpace]
  BY <1>2, <1>4, <1>7, ByteWritten
<1>9. Sent' = Fractional(done, n + 1)
  BY <1>4, <1>5, <1>7, <1>8, FractionalIs
<1>10. p - ecx' = n + 1 /\ ecx' <= p /\ ecx' \in Nat
  BY <1>2, <1>4
<1>11. \A m \in 0 .. (n + 1) - 1 : Behind(f, m) # 0
  <2>1. \A m \in 0 .. (n + 1) - 1 : m \in 0 .. n - 1 \/ m = n
    OBVIOUS
  <2> QED
    BY <1>2, <1>4, <2>1
<1>12. TypeOK'
  <2>1. frac' \in -1 .. Scale - 1
    <3>1. PICK s, x \in Nat : s = Scale /\ x = frac' /\ x <= s - 1
      BY <1>6, Scaled
    <3>2. x \in -1 .. s - 1
      BY <3>1
    <3> QED
      BY <3>1, <3>2
  <2> QED
    BY <1>1, <1>2, <1>3, <1>8, <1>10, <2>1 DEF TypeOK
<1>13. StateInv'
  BY <1>1, <1>2, <1>3, <1>5 DEF StateInv, InItoa, Printing, Reading
<1>14. MarkInv'
  BY <1>1, <1>2, <1>3, <1>8 DEF MarkInv, InItoa
<1>15. ItoaInv'
  BY <1>3 DEF ItoaInv
<1>16. TextInv'
  BY <1>3, <1>4, <1>6, <1>9, <1>10, <1>11 DEF TextInv
<1> QED
  BY <1>12, <1>13, <1>14, <1>15, <1>16 DEF PrintInv

LEMMA FtoaEndKept ==
    ASSUME PrintInv, FtoaEnd
    PROVE  PrintInv'
<1>1. TypeOK /\ StateInv /\ MarkInv /\ TextInv
  BY DEF PrintInv
<1>2. /\ Running("digits") /\ pc' = "write"
      /\ IF ecx = 0 THEN mem' = [mem EXCEPT ![len] = 0] /\ len' = len + 1
                    ELSE frac = 0 /\ mem' = mem /\ len' = len
      /\ edi' = edi /\ eax' = eax /\ rsi' = rsi /\ r10' = r10 /\ frac' = frac /\ ecx' = ecx
  BY DEF FtoaEnd
<1>3. /\ script' = script /\ done' = done /\ rest' = rest /\ chunks' = chunks
      /\ inputs' = inputs /\ shown' = shown /\ pc = "digits"
      /\ Mark(done)' = Mark(done) /\ Current' = Current /\ Written(done)' = Written(done)
      /\ \A n : Fractional(done, n)' = Fractional(done, n)
  BY <1>2, RoutineSteps
<1>4. PICK f, p, n, s \in Nat :
         /\ f = Fraction(Current) /\ p = Places(Current) /\ s = Spelled(f, p)
         /\ ecx = p - n /\ n <= p /\ (ecx = 0 \/ frac = 0 => n = s)
         /\ Sent = Fractional(done, n)
         /\ len > 0 /\ len < DigitSpace + StringSpace
  BY <1>3, Spelling
<1>5. Current.op = "float" /\ Prints(Current) /\ done > 0 /\ Current \in Call
      /\ Current = script.calls[done]
  BY <1>3, FtoaWrites
<1>6. n = s
  BY <1>2, <1>4
<1>7. Full(Current) <=> ecx = 0
  BY <1>4, <1>6 DEF Full
<1>8. Written(done) = IF ecx = 0 THEN Append(Sent, 0) ELSE Sent
  BY <1>4, <1>5, <1>6, <1>7, WrittenIs
<1>9. /\ mem' \in [Cells -> Byte] /\ len' \in Nat /\ Sent' = Written(done)
      /\ mem'[0] = mem[0] /\ mem'[DigitSpace + StringSpace] = mem[DigitSpace + StringSpace]
  <2>1. CASE ecx = 0
    <3>1. 0 \in Byte
      BY DEF Byte
    <3> QED
      BY <1>2, <1>4, <1>8, <2>1, <3>1, ByteWritten
  <2>2. CASE ecx # 0
    BY <1>1, <1>2, <1>8, <2>2 DEF TypeOK, Sent
  <2> QED
    BY <2>1, <2>2
<1>10. TypeOK'
  BY <1>1, <1>2, <1>3, <1>9 DEF TypeOK
<1>11. StateInv'
  BY <1>1, <1>2, <1>3, <1>5 DEF StateInv, InItoa, Printing, Reading
<1>12. MarkInv'
  BY <1>1, <1>2, <1>3, <1>9 DEF MarkInv, InItoa
<1>13. ItoaInv'
  BY <1>2 DEF ItoaInv
<1>14. TextInv'
  BY <1>2, <1>3, <1>9 DEF TextInv
<1> QED
  BY <1>10, <1>11, <1>12, <1>13, <1>14 DEF PrintInv

LEMMA WriteKept ==
    ASSUME PrintInv, Write
    PROVE  PrintInv'
<1>1. TypeOK /\ StateInv /\ MarkInv /\ TextInv
  BY DEF PrintInv
<1>2. /\ pc = "write" /\ pc' = "idle" /\ shown' = Sent
      /\ script' = script /\ done' = done /\ mem' = mem /\ rest' = rest /\ chunks' = chunks
      /\ inputs' = inputs /\ edi' = edi /\ eax' = eax /\ ecx' = ecx /\ rsi' = rsi /\ r10' = r10
      /\ len' = len /\ frac' = frac
  BY DEF Write, registers, reading, Sent, SentOf
<1>3. Mark(done)' = Mark(done) /\ Current' = Current /\ Written(done)' = Written(done)
  BY <1>2, CallGoesOn
<1>4. Prints(Current) /\ Current \in Call /\ Current = script.calls[done] /\ done > 0
  BY <1>1, <1>2, CurrentPrints DEF Printing
<1>5. shown' = Written(done) /\ shown' \in Seq(Byte)
  BY <1>1, <1>2, <1>4, WrittenIs DEF TextInv
<1>6. Current.op # "input"
  BY <1>4 DEF Prints
<1>7. TypeOK'
  BY <1>1, <1>2, <1>5 DEF TypeOK
<1>8. StateInv'
  BY <1>1, <1>2, <1>3, <1>6 DEF StateInv, InItoa, Printing, Reading
<1>9. MarkInv'
  BY <1>1, <1>2, <1>3 DEF MarkInv, InItoa
<1>10. ItoaInv'
  BY <1>2 DEF ItoaInv
<1>11. TextInv'
  BY <1>2, <1>3, <1>5 DEF TextInv
<1> QED
  BY <1>7, <1>8, <1>9, <1>10, <1>11 DEF PrintInv

\* The routines of INPUT leave the memory and the text alone.
LEMMA AtoiKept ==
    ASSUME PrintInv, Reading, pc' \in {"atoi", "sign", "idle"},
           script' = script, done' = done, mem' = mem, edi' = edi, ecx' = ecx, r10' = r10,
           len' = len, frac' = frac, rest' = rest, chunks' = chunks, shown' = shown,
           eax' \in Words, rsi' \in Cells, rsi' >= DigitSpace, inputs' \in Seq(Words)
    PROVE  PrintInv'
<1>1. TypeOK /\ StateInv /\ MarkInv /\ TextInv
  BY DEF PrintInv
<1>2. Mark(done)' = Mark(done) /\ Current' = Current /\ Written(done)' = Written(done)
  BY CallGoesOn
<1>3. Current.op = "input" /\ ~Prints(Current) /\ done > 0
  BY <1>1 DEF StateInv, Prints, Reading
<1>4. TypeOK'
  BY <1>1 DEF TypeOK
<1>5. StateInv'
  BY <1>1, <1>2, <1>3 DEF StateInv, InItoa, Printing, Reading
<1>6. MarkInv'
  BY <1>1, <1>2 DEF MarkInv, InItoa, Reading
<1>7. ItoaInv'
  BY DEF ItoaInv
<1>8. TextInv'
  BY <1>2, <1>3 DEF TextInv
<1> QED
  BY <1>4, <1>5, <1>6, <1>7, <1>8 DEF PrintInv

LEMMA AtoiDigitKept ==
    ASSUME PrintInv, AtoiDigit
    PROVE  PrintInv'
<1>1. TypeOK /\ StateInv /\ MarkInv
  BY DEF PrintInv
<1>2. /\ Running("atoi") /\ IsDigit(mem[rsi]) /\ pc' = pc
      /\ eax' = (eax * 10 + mem[rsi] - Zero) % Modulus /\ rsi' = rsi + 1
      /\ mem' = mem /\ edi' = edi /\ ecx' = ecx /\ r10' = r10 /\ len' = len /\ frac' = frac
  BY DEF AtoiDigit, NextByte
<1>3. /\ script' = script /\ done' = done /\ rest' = rest /\ chunks' = chunks
      /\ inputs' = inputs /\ shown' = shown /\ pc = "atoi"
  BY <1>2, RoutineSteps
<1>4. eax \in Words /\ rsi \in Cells /\ rsi >= DigitSpace /\ inputs \in Seq(Words)
  BY <1>1, <1>3 DEF TypeOK, StateInv, Reading
<1>5. eax' \in Words
  <2>1. PICK d, e \in Nat : e = eax /\ mem[rsi] - Zero = d
    BY <1>2, <1>4 DEF IsDigit, Zero, Words
  <2>2. mem[rsi] \in Int
    BY <1>2 DEF IsDigit, Zero
  <2>3. eax * 10 + mem[rsi] - Zero = e * 10 + d
    BY <2>1, <2>2 DEF Zero
  <2>4. e * 10 + d \in Nat
    OBVIOUS
  <2>5. (e * 10 + d) % Modulus \in Words
    BY <2>4, NegatedIs
  <2> QED
    BY <1>2, <2>3, <2>5
<1>6. rsi' \in Cells /\ rsi' >= DigitSpace
  <2>1. rsi # DigitSpace + StringSpace
    BY <1>1, <1>2 DEF MarkInv, IsDigit, Zero
  <2> QED
    BY <1>2, <1>4, <2>1, SpacesAre DEF Cells
<1> QED
  BY <1>2, <1>3, <1>4, <1>5, <1>6, AtoiKept DEF Reading

LEMMA AtoiErrorKept ==
    ASSUME PrintInv, AtoiError
    PROVE  PrintInv'
<1>1. TypeOK /\ StateInv
  BY DEF PrintInv
<1>2. /\ Running("atoi") /\ pc' = "sign" /\ eax' = MinusOne /\ rsi' = rsi
      /\ mem' = mem /\ edi' = edi /\ ecx' = ecx /\ r10' = r10 /\ len' = len /\ frac' = frac
  BY DEF AtoiError
<1>3. /\ script' = script /\ done' = done /\ rest' = rest /\ chunks' = chunks
      /\ inputs' = inputs /\ shown' = shown /\ pc = "atoi"
  BY <1>2, RoutineSteps
<1>4. eax' \in Words /\ rsi \in Cells /\ rsi >= DigitSpace /\ inputs \in Seq(Words)
  BY <1>1, <1>2, <1>3, NegatedIs DEF TypeOK, StateInv, Reading
<1> QED
  BY <1>2, <1>3, <1>4, AtoiKept DEF Reading

LEMMA AtoiStopKept ==
    ASSUME PrintInv, AtoiStop
    PROVE  PrintInv'
<1>1. TypeOK /\ StateInv
  BY DEF PrintInv
<1>2. /\ Running("atoi") /\ pc' = "sign" /\ eax' = eax /\ rsi' = rsi
      /\ mem' = mem /\ edi' = edi /\ ecx' = ecx /\ r10' = r10 /\ len' = len /\ frac' = frac
  BY DEF AtoiStop, registers
<1>3. /\ script' = script /\ done' = done /\ rest' = rest /\ chunks' = chunks
      /\ inputs' = inputs /\ shown' = shown /\ pc = "atoi"
  BY <1>2, RoutineSteps
<1>4. eax \in Words /\ rsi \in Cells /\ rsi >= DigitSpace /\ inputs \in Seq(Words)
  BY <1>1, <1>3 DEF TypeOK, StateInv, Reading
<1> QED
  BY <1>2, <1>3, <1>4, AtoiKept DEF Reading

LEMMA AtoiSignKept ==
    ASSUME PrintInv, AtoiSign
    PROVE  PrintInv'
<1>1. TypeOK /\ StateInv
  BY DEF PrintInv
<1>2. /\ pc = "sign" /\ pc' = "idle" /\ eax' = eax /\ rsi' = rsi
      /\ inputs' = Append(inputs, IF r10 THEN Negated(eax) ELSE eax)
      /\ script' = script /\ done' = done /\ rest' = rest /\ chunks' = chunks
      /\ shown' = shown
      /\ mem' = mem /\ edi' = edi /\ ecx' = ecx /\ r10' = r10 /\ len' = len /\ frac' = frac
  BY DEF AtoiSign, registers
<1>3. eax \in Words /\ rsi \in Cells /\ rsi >= DigitSpace /\ inputs \in Seq(Words)
  BY <1>1, <1>2 DEF TypeOK, StateInv, Reading
<1>4. inputs' \in Seq(Words)
  <2>1. PICK x \in Words : x = IF r10 THEN Negated(eax) ELSE eax
    BY <1>3, NegatedIs
  <2> QED
    BY <1>2, <1>3, <2>1
<1> QED
  BY <1>2, <1>3, <1>4, AtoiKept DEF Reading

LEMMA InitKept ==
    ASSUME Init
    PROVE  PrintInv
<1>1. /\ script \in Scripts /\ done = 0 /\ mem = [i \in Cells |-> 0] /\ pc = "idle"
      /\ edi = 0 /\ eax = 0 /\ ecx = 0 /\ rsi = 0 /\ r10 = FALSE /\ len = 0 /\ frac = -1
      /\ rest = script.file /\ chunks = << >> /\ inputs = << >> /\ shown = << >>
  BY DEF Init
<1>2. /\ script.calls \in Seq(Call) /\ script.file \in Seq(Byte)
  BY <1>1, ScriptsAssumption
<1>3. 0 \in Byte /\ 0 \in Words /\ 0 \in Cells /\ DigitSpace + StringSpace \in Cells
      /\ -1 \in -1 .. Scale - 1
  BY SpacesAre, Scaled DEF Byte, Words, Cells
<1>4. Len(script.calls) \in Nat
  BY <1>2
<1>5. TypeOK
  BY <1>1, <1>2, <1>3, <1>4 DEF TypeOK
<1>6. StateInv
  BY <1>1 DEF StateInv, InItoa, Printing, Reading
<1>7. MarkInv
  BY <1>1, <1>3, MarkIs DEF MarkInv, InItoa
<1>8. ItoaInv
  BY <1>1 DEF ItoaInv
<1>9. TextInv
  BY <1>1 DEF TextInv
<1> QED
  BY <1>5, <1>6, <1>7, <1>8, <1>9 DEF PrintInv

LEMMA StutterKept ==
    ASSUME PrintInv, UNCHANGED vars
    PROVE  PrintInv'
<1>1. TypeOK /\ StateInv /\ MarkInv /\ ItoaInv /\ TextInv
  BY DEF PrintInv
<1>2. /\ script' = script /\ done' = done /\ mem' = mem /\ rest' = rest /\ chunks' = chunks
      /\ inputs' = inputs /\ shown' = shown /\ pc' = pc /\ edi' = edi /\ eax' = eax /\ ecx' = ecx
      /\ rsi' = rsi /\ r10' = r10 /\ len' = len /\ frac' = frac
  BY DEF vars, registers, reading
<1>3. /\ Mark(done)' = Mark(done) /\ Mark(done - 1)' = Mark(done - 1) /\ Current' = Current
      /\ Front(done)' = Front(done) /\ Written(done)' = Written(done)
      /\ \A n : Fractional(done, n)' = Fractional(done, n)
  BY <1>2, CallGoesOn
<1>4. TypeOK'
  BY <1>1, <1>2 DEF TypeOK
<1>5. StateInv'
  BY <1>1, <1>2, <1>3 DEF StateInv, InItoa, Printing, Reading
<1>6. MarkInv'
  BY <1>1, <1>2, <1>3 DEF MarkInv, InItoa
<1>7. ItoaInv'
  BY <1>1, <1>2, <1>3 DEF ItoaInv
<1>8. Sent' = Sent
  BY <1>2 DEF Sent
<1>9. TextInv'
  BY <1>1, <1>2, <1>3, <1>8 DEF TextInv
<1> QED
  BY <1>4, <1>5, <1>6, <1>7, <1>9 DEF PrintInv

LEMMA PrintStep ==
    ASSUME PrintInv, [Next]_vars
    PROVE  PrintInv'
<1>1. CASE PrintInt
  BY <1>1, PrintIntKept
<1>2. CASE PrintFloat
  BY <1>2, PrintFloatKept
<1>3. CASE FloatZeroCrashes
  BY <1>3, FloatZeroCrashesKept
<1>4. CASE FloatZeroRunsAway
  BY <1>4, FloatZeroRunsAwayKept
<1>5. CASE Input
  BY <1>5, InputKept
<1>6. CASE Routines
  BY <1>6, ItoaZeroKept, ItoaSignKept, ItoaCountKept, ItoaTerminateKept, ItoaStoreKept, ItoaEndKept,
     FtoaPointKept, FtoaDigitKept, FtoaEndKept, WriteKept,
     AtoiDigitKept, AtoiErrorKept, AtoiStopKept, AtoiSignKept DEF Routines
<1>7. CASE Exited
  BY <1>7, StutterKept DEF Exited
<1>8. CASE UNCHANGED vars
  BY <1>8, StutterKept
<1> QED
  BY <1>1, <1>2, <1>3, <1>4, <1>5, <1>6, <1>7, <1>8 DEF Next

\* The registers, the buffers, the digits stored so far and the text sent are
\* what the calls made so far leave, at every step of every routine.
THEOREM RoutinesAreRight == Spec => []PrintInv
<1>1. Init => PrintInv
  BY InitKept
<1>2. PrintInv /\ [Next]_vars => PrintInv'
  BY PrintStep
<1> QED
  BY <1>1, <1>2, PTL DEF Spec

\* Every register and both buffers stay well formed, whatever is printed and
\* whatever is read.
THEOREM RuntimeTypes == Spec => []TypeOK
<1>1. PrintInv => TypeOK
  BY DEF PrintInv
<1> QED
  BY <1>1, RoutinesAreRight, PTL

-----------------------------------------------------------------------------
(* What PRINT shows.                                                       *)

\* The whole part of a number: a zero byte or what an earlier number left, and
\* the decimal notation.
LEMMA FrontText ==
    ASSUME NEW k \in Nat \ {0}, script.calls[k] \in Call, Prints(script.calls[k])
    PROVE  /\ Leftover(k) \in Seq(Byte) /\ Signed(Whole(script.calls[k])) \in Seq(Byte)
           /\ \E before \in {<< >>, <<0>>} :
                 Front(k) = before \o (Leftover(k) \o Signed(Whole(script.calls[k])))
<1>1. PICK c : c = script.calls[k]
  OBVIOUS
<1>2. PICK w, h, v \in Nat : /\ w = Whole(c) /\ w \in Words /\ h = Half /\ v = Magnitude(c)
                             /\ v = IF w >= h THEN Negated(w) ELSE w
                             /\ v = 0 <=> w = 0
  BY <1>1, CallIs, SpacesAre DEF Words, Magnitude
<1>3. PICK d \in Seq(Byte) : d = Decimal(v)
  BY DecimalIs
<1>4. PICK m \in Byte : m = Mark(k)
  BY MarkIs
<1>5. <<m>> \in Seq(Byte) /\ << >> \in Seq(Byte) /\ << >> \o d = d
      /\ << >> \o (<<m>> \o d) = <<m>> \o d
  OBVIOUS
<1>6. Front(k) = (IF w = 0 THEN << >> ELSE <<m>>) \o d
  BY <1>1, <1>2, <1>3, <1>4 DEF Front
<1>7. Positive(c) <=> w # 0 /\ w < h
  BY <1>2, SpacesAre DEF Positive
<1>8. CASE w = 0
  <2>1. Leftover(k) = << >> /\ Signed(w) = d /\ v = w
    BY <1>1, <1>2, <1>3, <1>7, <1>8, SpacesAre DEF Leftover, Signed
  <2>2. Front(k) = << >> \o (<< >> \o d)
    BY <1>5, <1>6, <1>8
  <2> QED
    BY <1>1, <1>2, <1>5, <2>1, <2>2
<1>9. CASE w # 0 /\ w < h
  <2>1. Signed(w) = d
    BY <1>2, <1>3, <1>9 DEF Signed
  <2>2. Leftover(k) = IF m # 0 THEN <<m>> ELSE << >>
    BY <1>1, <1>4, <1>7, <1>9 DEF Leftover
  <2>3. Front(k) = <<m>> \o d
    BY <1>6, <1>9
  <2>4. CASE m = 0
    <3>1. Front(k) = <<0>> \o (<< >> \o d)
      BY <1>5, <2>3, <2>4
    <3> QED
      BY <1>1, <1>2, <1>5, <2>1, <2>2, <2>4, <3>1
  <2>5. CASE m # 0
    <3>1. Front(k) = << >> \o (<<m>> \o d)
      BY <1>5, <2>3
    <3> QED
      BY <1>1, <1>2, <1>5, <2>1, <2>2, <2>5, <3>1
  <2> QED
    BY <2>4, <2>5
<1>10. CASE w # 0 /\ w >= h
  <2>1. m = Minus
    BY <1>1, <1>2, <1>4, <1>7, <1>10, MarkGrows
  <2>2. Signed(w) = <<m>> \o d
    BY <1>2, <1>3, <1>10, <2>1 DEF Signed
  <2>3. Leftover(k) = << >>
    BY <1>1, <1>7, <1>10 DEF Leftover
  <2>4. <<m>> \o d \in Seq(Byte)
    BY <1>5
  <2>5. << >> \o (<< >> \o (<<m>> \o d)) = <<m>> \o d
    BY <1>5
  <2>6. Front(k) = << >> \o (<< >> \o (<<m>> \o d))
    BY <1>6, <1>10, <2>5
  <2> QED
    BY <1>1, <1>2, <1>5, <2>2, <2>3, <2>4, <2>6
<1> QED
  BY <1>8, <1>9, <1>10

\* Five parts of a text, in one order of concatenation and in another.
Joined(s, t) == s \o t

LEMMA JoinedIs ==
    ASSUME NEW B
    PROVE  /\ \A s, t \in Seq(B) : Joined(s, t) \in Seq(B) /\ Len(Joined(s, t)) = Len(s) + Len(t)
           /\ \A s, t, u \in Seq(B) : Joined(Joined(s, t), u) = Joined(s, Joined(t, u))
BY SMTT(30) DEF Joined

LEMMA FiveParts ==
    ASSUME NEW B, NEW a \in Seq(B), NEW b \in Seq(B), NEW c \in Seq(B), NEW d \in Seq(B),
           NEW e \in Seq(B)
    PROVE  Joined(Joined(Joined(a, Joined(b, c)), d), e)
              = Joined(a, Joined(b, Joined(Joined(c, d), e)))
<1>1. PICK S : S = Seq(B)
  OBVIOUS
<1>2. /\ a \in S /\ b \in S /\ c \in S /\ d \in S /\ e \in S
      /\ \A s, t \in S : Joined(s, t) \in S
      /\ \A s, t, u \in S : Joined(Joined(s, t), u) = Joined(s, Joined(t, u))
  <2>1. \A s, t \in Seq(B) : Joined(s, t) \in Seq(B)
    BY JoinedIs
  <2>2. \A s, t, u \in Seq(B) : Joined(Joined(s, t), u) = Joined(s, Joined(t, u))
    BY JoinedIs
  <2>3. a \in S /\ b \in S /\ c \in S /\ d \in S /\ e \in S
    BY <1>1
  <2> QED
    BY <1>1, <2>1, <2>2, <2>3
<1> QED
  BY <1>2

\* The digits of a fraction.
LEMMA DigitsAre ==
    ASSUME NEW f \in Nat, NEW most, Spelled(f, most) \in Nat
    PROVE  Digits(f, most) \in Seq(Byte) /\ Len(Digits(f, most)) = Spelled(f, most)
<1>1. PICK n \in Nat : n = Spelled(f, most)
  OBVIOUS
<1>2. \A i \in 1 .. n : Zero + Digit(f, i) \in Byte
  <2> SUFFICES ASSUME NEW i \in 1 .. n
               PROVE  Zero + Digit(f, i) \in Byte
    OBVIOUS
  <2>1. PICK j \in Nat : j + 1 = i
    <3>1. i - 1 \in Nat /\ (i - 1) + 1 = i
      OBVIOUS
    <3> QED
      BY <3>1
  <2>2. PICK b \in 0 .. 9 : b = Digit(f, i)
    BY <2>1, NextDigit
  <2>3. Zero + b \in Byte
    BY DEF Zero, Byte
  <2> QED
    BY <2>2, <2>3
<1>3. Digits(f, most) = [i \in 1 .. n |-> Zero + Digit(f, i)]
  BY <1>1 DEF Digits
<1> QED
  BY <1>1, <1>2, <1>3

\* What is written for a number is its notation.
LEMMA WrittenText ==
    ASSUME NEW k \in Nat \ {0}, script.calls[k] \in Call, Prints(script.calls[k])
    PROVE  \E before, after \in {<< >>, <<0>>} :
              Written(k) = before \o (Leftover(k) \o Image(script.calls[k])) \o after
<1>1. PICK c : c = script.calls[k]
  OBVIOUS
<1>2. PICK before, l, s \in Seq(Byte) :
         /\ before \in {<< >>, <<0>>}
         /\ l = Leftover(k) /\ s = Signed(Whole(c)) /\ Front(k) = before \o (l \o s)
  <2>1. PICK b \in Byte : b = 0
    BY DEF Byte
  <2>2. <<b>> \in Seq(Byte) /\ << >> \in Seq(Byte)
    OBVIOUS
  <2> QED
    BY <1>1, <2>1, <2>2, FrontText
<1>3. before \in Seq(Byte)
  OBVIOUS
<1>4. CASE c.op = "print"
  <2>1. Image(c) = s /\ Written(k) = Front(k)
    BY <1>1, <1>2, <1>4 DEF Image, Written, Whole
  <2>2. l \o s \in Seq(Byte)
    BY ConcatProperties
  <2>3. before \o (l \o s) \in Seq(Byte)
    BY <1>3, <2>2, ConcatProperties
  <2>4. before \o (l \o s) = (before \o (l \o s)) \o << >>
    <3>1. PICK x \in Seq(Byte) : x = before \o (l \o s)
      BY <2>3, Zenon
    <3>2. x \o << >> = x
      BY ConcatEmptySeq, Zenon
    <3> QED
      BY <3>1, <3>2, Zenon
  <2> QED
    BY <1>1, <1>2, <2>1, <2>4
<1>5. CASE c.op = "float"
  <2>1. PICK after : after \in {<< >>, <<0>>} /\ after = IF Full(c) THEN <<0>> ELSE << >>
    OBVIOUS
  <2>2. PICK n \in Nat : n = Spelled(Fraction(c), Places(c))
    BY <1>1, <1>5, FractionFits
  <2>3. PICK d \in Seq(Byte) : d = Digits(Fraction(c), Places(c))
    <3>1. PICK f \in Nat : f = Fraction(c)
      BY <1>1, <1>5, CallIs, Scaled
    <3> QED
      BY <2>2, <3>1, DigitsAre
  <2>4. PICK p \in Seq(Byte) : p = <<Point>>
    <3>1. PICK b \in Byte : b = Point
      BY DEF Point, Byte
    <3>2. <<b>> \in Seq(Byte)
      OBVIOUS
    <3> QED
      BY <3>1, <3>2
  <2>5. Image(c) = Joined(Joined(s, p), d)
    BY <1>2, <1>5, <2>3, <2>4 DEF Image, Joined
  <2>6. Written(k) = Joined(Joined(Joined(Joined(before, Joined(l, s)), p), d), after)
    BY <1>1, <1>2, <1>5, <2>1, <2>3, <2>4 DEF Written, Fractional, Digits, Joined
  <2>7. Written(k) = Joined(Joined(before, Joined(l, Joined(Joined(s, p), d))), after)
    BY <2>6, FiveParts
  <2>8. Written(k) = before \o (Leftover(k) \o Image(c)) \o after
    BY <1>2, <2>5, <2>7 DEF Joined
  <2> QED
    BY <1>1, <1>2, <2>1, <2>8
<1> QED
  BY <1>1, <1>4, <1>5 DEF Prints

\* PRINT shows the number in decimal notation, to the precision that is left
\* to ftoa, behind what the numbers before it have left in the first byte.
THEOREM PrintedTextIsRight == Spec => []PrintedText
<1>1. PrintInv => PrintedText
  <2> SUFFICES ASSUME PrintInv, pc = "idle", done > 0, Prints(script.calls[done])
               PROVE  \E before, after \in {<< >>, <<0>>} :
                         shown = before \o (Leftover(done) \o Image(script.calls[done])) \o after
    BY DEF PrintedText
  <2>1. done \in Nat \ {0} /\ script.calls[done] \in Call
    BY ScriptIs DEF PrintInv, Current
  <2>2. shown = Written(done)
    BY DEF PrintInv, TextInv, Current
  <2> QED
    BY <2>1, <2>2, WrittenText
<1> QED
  BY <1>1, RoutinesAreRight, PTL

-----------------------------------------------------------------------------
(* What PRINT leaves of the text that INPUT has read.                      *)

TextCells == DigitSpace .. DigitSpace + StringSpace - 1
TextUntouched == \A i \in TextCells : mem'[i] = mem[i]

LEMMA BufferIs ==
    ASSUME mem \in [Cells -> Byte]
    PROVE  /\ Buffer \in Seq(Byte) /\ Len(Buffer) = StringSpace
           /\ \A i \in 1 .. StringSpace : Buffer[i] = mem[DigitSpace + i - 1]
<1>1. \A i \in 1 .. StringSpace : mem[DigitSpace + i - 1] \in Byte
  <2> SUFFICES ASSUME NEW i \in 1 .. StringSpace
               PROVE  mem[DigitSpace + i - 1] \in Byte
    OBVIOUS
  <2>1. DigitSpace + i - 1 \in Cells
    BY SpacesAre DEF Cells
  <2> QED
    BY <2>1
<1> QED
  BY <1>1, SpacesAre DEF Buffer

LEMMA BufferUntouched ==
    ASSUME TextUntouched
    PROVE  Buffer' = Buffer
<1>1. \A i \in 1 .. StringSpace : mem'[DigitSpace + i - 1] = mem[DigitSpace + i - 1]
  <2> SUFFICES ASSUME NEW i \in 1 .. StringSpace
               PROVE  mem'[DigitSpace + i - 1] = mem[DigitSpace + i - 1]
    OBVIOUS
  <2>1. DigitSpace + i - 1 \in TextCells
    BY SpacesAre DEF TextCells
  <2> QED
    BY <2>1 DEF TextUntouched
<1> QED
  BY <1>1 DEF Buffer

\* A byte written into digitspace.
LEMMA WrittenBefore ==
    ASSUME mem \in [Cells -> Byte], NEW j \in Nat, j < DigitSpace, NEW b,
           mem' = [mem EXCEPT ![j] = b]
    PROVE  TextUntouched
<1> SUFFICES ASSUME NEW i \in TextCells
             PROVE  mem'[i] = mem[i]
  BY DEF TextUntouched
<1>1. i \in Cells /\ i # j
  BY SpacesAre DEF TextCells, Cells
<1> QED
  BY <1>1

LEMMA SameMemory ==
    ASSUME mem' = mem
    PROVE  TextUntouched
BY DEF TextUntouched

LEMMA DisturbedStays ==
    ASSUME TypeOK, script' = script, done' \in Nat, done' >= done, Disturbed
    PROVE  Disturbed'
<1>1. PICK k \in 1 .. done : TooLong(script.calls[k])
  BY DEF Disturbed
<1>2. k \in 1 .. done'
  BY DEF TypeOK
<1> QED
  BY <1>1, <1>2 DEF Disturbed

LEMMA SignedLength ==
    ASSUME NEW k \in Nat \ {0}, script.calls[k] \in Call, Prints(script.calls[k])
    PROVE  LET c == script.calls[k]
           IN  /\ Len(Signed(Whole(c))) \in Nat /\ Signed(Whole(c)) \in Seq(Byte)
               /\ (IF Positive(c) THEN 1 ELSE 0) + Len(Signed(Whole(c))) = Len(Front(k))
<1>1. PICK c : c = script.calls[k]
  OBVIOUS
<1>2. PICK w, h, v \in Nat : /\ w = Whole(c) /\ w \in Words /\ h = Half /\ v = Magnitude(c)
                             /\ v = IF w >= h THEN Negated(w) ELSE w
                             /\ v = 0 <=> w = 0
  BY <1>1, CallIs, SpacesAre DEF Words, Magnitude
<1>3. PICK d \in Seq(Byte), l \in Nat : d = Decimal(v) /\ l = Length(v) /\ Len(d) = l
  BY <1>2, DecimalIs
<1>4. Positive(c) <=> w # 0 /\ w < h
  BY <1>2, SpacesAre DEF Positive
<1>5. Len(Front(k)) = IF w = 0 THEN 1 ELSE l + 1
  <2>1. CASE w = 0
    <3>1. Front(k) = <<Zero>>
      BY <1>1, <1>2, <2>1, FrontIs
    <3> QED
      BY <2>1, <3>1
  <2>2. CASE w # 0
    BY <1>1, <1>2, <1>3, <2>2, FrontIs
  <2> QED
    BY <2>1, <2>2
<1>6. CASE w < h
  <2>1. Signed(w) = d
    BY <1>2, <1>3, <1>6 DEF Signed
  <2>2. w = 0 => l = 1
    BY <1>2, <1>3, DecimalOfZero
  <2> QED
    BY <1>1, <1>2, <1>3, <1>4, <1>5, <1>6, <2>1, <2>2
<1>7. CASE w >= h
  <2>1. PICK b \in Byte : b = Minus
    BY DEF Minus, Byte
  <2>2. Signed(w) = <<b>> \o d
    BY <1>2, <1>3, <1>7, <2>1 DEF Signed
  <2>3. <<b>> \o d \in Seq(Byte) /\ Len(<<b>> \o d) = l + 1
    BY <1>3
  <2>4. w # 0
    BY <1>2, <1>7, SpacesAre
  <2>5. 0 + (l + 1) = l + 1
    OBVIOUS
  <2> QED
    BY <1>1, <1>2, <1>4, <1>5, <1>7, <2>2, <2>3, <2>4, <2>5
<1> QED
  BY <1>2, <1>6, <1>7

\* A number that stays in digitspace.
LEMMA ShortEnough ==
    ASSUME NEW k \in Nat \ {0}, script.calls[k] \in Call, Prints(script.calls[k]),
           script.calls[k].op = "float", ~TooLong(script.calls[k])
    PROVE  LET c == script.calls[k]
               s == Spelled(Fraction(c), Places(c))
           IN  Len(Front(k)) + 1 + s + (IF Full(c) THEN 1 ELSE 0) <= DigitSpace
<1>1. PICK c : c = script.calls[k]
  OBVIOUS
<1>2. PICK s \in Nat : s = Spelled(Fraction(c), Places(c))
  BY <1>1, FractionFits
<1>3. PICK x \in Seq(Byte), g \in Nat :
         /\ x = Signed(Whole(c)) /\ g = Len(Front(k))
         /\ (IF Positive(c) THEN 1 ELSE 0) + Len(x) = g
  BY <1>1, SignedLength, FrontIs
<1>4. PICK d \in Seq(Byte) : d = Digits(Fraction(c), Places(c)) /\ Len(d) = s
  <2>1. PICK f \in Nat : f = Fraction(c)
    BY <1>1, CallIs, Scaled
  <2> QED
    BY <1>2, <2>1, DigitsAre
<1>5. Len(Image(c)) = Len(x) + 1 + s
  <2>1. PICK p \in Seq(Byte) : p = <<Point>> /\ Len(p) = 1
    <3>1. PICK b \in Byte : b = Point
      BY DEF Point, Byte
    <3>2. <<b>> \in Seq(Byte) /\ Len(<<b>>) = 1
      OBVIOUS
    <3> QED
      BY <3>1, <3>2
  <2>2. Image(c) = Joined(Joined(x, p), d)
    BY <1>1, <1>3, <1>4, <2>1 DEF Image, Joined
  <2>3. \A a, b \in Seq(Byte) : Joined(a, b) \in Seq(Byte) /\ Len(Joined(a, b)) = Len(a) + Len(b)
    BY JoinedIs
  <2>4. Joined(x, p) \in Seq(Byte) /\ Len(Joined(x, p)) = Len(x) + Len(p)
    BY <2>3
  <2>5. PICK y \in Seq(Byte) : y = Joined(x, p) /\ Len(y) = Len(x) + Len(p)
    BY <2>4
  <2>6. Len(Joined(y, d)) = Len(y) + Len(d)
    BY <2>3
  <2> QED
    BY <1>4, <2>1, <2>2, <2>5, <2>6
<1>6. c.op = "float" /\ c.v # 0
  BY <1>1 DEF Prints
<1>7. ~((IF Positive(c) THEN 1 ELSE 0) + Len(Image(c)) + (IF Full(c) THEN 1 ELSE 0) > DigitSpace)
  BY <1>1, <1>6 DEF TooLong
<1>8. PICK a, b \in 0 .. 1 : a = (IF Positive(c) THEN 1 ELSE 0) /\ b = (IF Full(c) THEN 1 ELSE 0)
  OBVIOUS
<1>9. PICK l, t \in Nat : l = Len(x) /\ t = DigitSpace /\ Len(Image(c)) = l + 1 + s
  BY <1>5, SpacesAre
<1>10. ~(a + (l + 1 + s) + b > t) /\ a + l = g
  BY <1>3, <1>7, <1>8, <1>9
<1>11. g + 1 + s + b <= t
  BY <1>10
<1> QED
  BY <1>1, <1>2, <1>3, <1>8, <1>9, <1>11

\* itoa writes into digitspace, ftoa also as long as the number fits.
LEMMA PrintLeavesText ==
    ASSUME PrintInv, ~Disturbed,
           \/ ItoaZero \/ ItoaSign \/ ItoaCount \/ ItoaTerminate \/ ItoaStore \/ ItoaEnd
           \/ FtoaPoint \/ FtoaDigit \/ FtoaEnd
    PROVE  TextUntouched
<1>1. TypeOK /\ StateInv /\ ItoaInv /\ TextInv /\ mem \in [Cells -> Byte]
  BY DEF PrintInv, TypeOK
<1>2. PICK n \in Nat : n + 2 <= DigitSpace /\ \A v \in Words : Length(v) <= n
  BY Fits
<1>3. CASE ItoaZero
  <2>1. mem' = [mem EXCEPT ![0] = Zero, ![1] = 0]
    BY <1>3 DEF ItoaZero
  <2>2. \A i \in TextCells : i \in Cells /\ i # 0 /\ i # 1
    BY <1>2, SpacesAre DEF TextCells, Cells
  <2> QED
    BY <1>1, <2>1, <2>2 DEF TextUntouched
<1>4. CASE ItoaSign \/ ItoaCount
  BY <1>4, SameMemory DEF ItoaSign, ItoaCount
<1>5. CASE ItoaTerminate
  <2>1. mem' = [mem EXCEPT ![ecx + 2] = 0] /\ rsi' = ecx + 2 /\ len' = ecx + 2 /\ ecx \in Nat
        /\ pc' = "store" /\ ecx' = ecx + 1
    BY <1>1, <1>5 DEF ItoaTerminate, TypeOK
  <2>2. PrintInv'
    BY <1>5, ItoaTerminateKept
  <2>3. len' = Length(Magnitude(Current')) + 1 /\ Magnitude(Current') \in Words
    <3>1. ItoaInv' /\ TypeOK' /\ StateInv' /\ Printing'
      BY <2>1, <2>2 DEF PrintInv, Printing, InItoa
    <3>2. Current' = Current /\ Printing
      BY <1>5, RoutineSteps DEF ItoaTerminate, Printing, InItoa
    <3>3. Magnitude(Current) \in Words
      BY <1>1, <3>2, CurrentPrints
    <3> QED
      BY <2>1, <3>1, <3>2, <3>3 DEF ItoaInv
  <2>4. PICK j \in Nat : j = ecx + 2
    BY <2>1
  <2>5. PICK l : l = Length(Magnitude(Current')) /\ j = l + 1 /\ l <= n
    BY <1>2, <2>1, <2>3, <2>4
  <2>6. l \in Nat
    <3>1. Magnitude(Current') \in Nat
      BY <2>3, SpacesAre DEF Words
    <3> QED
      BY <2>5, <3>1, LengthIs
  <2>7. j < DigitSpace
    BY <1>2, <2>5, <2>6, SpacesAre
  <2> QED
    BY <1>1, <2>1, <2>4, <2>7, WrittenBefore
<1>6. CASE ItoaStore
  <2>1. mem' = [mem EXCEPT ![rsi - 1] = Zero + (eax % 10)] /\ ecx > 0 /\ pc = "store"
    BY <1>6 DEF ItoaStore, Running
  <2>2. PICK l, j \in Nat : j = ecx /\ rsi - 1 = j /\ j <= l /\ l + 1 < DigitSpace
    BY <2>1, Storing
  <2>3. j < DigitSpace
    BY <2>2, SpacesAre
  <2> QED
    BY <1>1, <2>1, <2>2, <2>3, WrittenBefore
<1>7. CASE ItoaEnd
  <2>1. mem' = (IF r10 THEN [mem EXCEPT ![rsi - 1] = Minus] ELSE mem) /\ ecx = 0 /\ pc = "store"
    BY <1>7 DEF ItoaEnd, Running
  <2>2. rsi - 1 = 0 /\ 0 \in Nat /\ 0 < DigitSpace
    BY <2>1, Storing, SpacesAre
  <2>3. CASE r10
    BY <1>1, <2>1, <2>2, <2>3, WrittenBefore
  <2>4. CASE ~r10
    BY <2>1, <2>4, SameMemory
  <2> QED
    BY <2>3, <2>4
<1>8. CASE FtoaPoint
  <2>1. mem' = [mem EXCEPT ![len] = Point] /\ pc = "point"
    BY <1>8 DEF FtoaPoint, Running
  <2>2. Sent = Front(done) /\ len \in Nat
    BY <1>1, <2>1 DEF TextInv, TypeOK
  <2>3. Len(Sent) = len
    BY <2>2, SentLength DEF Sent
  <2>4. Prints(Current) /\ Current \in Call /\ Current = script.calls[done]
    BY <2>1, FtoaWrites
  <2>5. len < DigitSpace
    BY <2>2, <2>3, <2>4, FrontIs
  <2> QED
    BY <1>1, <2>1, <2>2, <2>5, WrittenBefore
<1>9. CASE FtoaDigit \/ FtoaEnd
  <2>1. pc = "digits"
    BY <1>9 DEF FtoaDigit, FtoaEnd, Running
  <2>2. PICK f, p, m, s, g \in Nat :
          /\ f = Fraction(Current) /\ p = Places(Current) /\ s = Spelled(f, p)
          /\ m = p - ecx /\ m <= s /\ (frac # 0 /\ ecx > 0 => m < s) /\ (ecx = 0 => m = s)
          /\ g = Len(Front(done)) /\ len = g + 1 + m
    <3>1. Len(Front(done)) \in Nat
      BY <2>1, FtoaWrites
    <3> QED
      BY <2>1, <3>1, Spelling
  <2>3. /\ done \in Nat \ {0} /\ Prints(Current) /\ Current \in Call /\ Current = script.calls[done]
        /\ Current.op = "float"
    BY <2>1, FtoaWrites
  <2>4. ~TooLong(Current)
    <3>1. done \in 1 .. done
      BY <2>3
    <3> QED
      BY <2>3, <3>1 DEF Disturbed
  <2>5. PICK b \in 0 .. 1 : b = (IF Full(Current) THEN 1 ELSE 0) /\ g + 1 + s + b <= DigitSpace
    BY <2>2, <2>3, <2>4, ShortEnough
  <2>6. PICK d \in Nat : d = DigitSpace /\ g + 1 + s + b <= d
    BY <2>5, SpacesAre
  <2>7. CASE FtoaDigit
    <3>1. mem' = [mem EXCEPT ![len] = Zero + (frac * 10) \div Scale] /\ frac # 0 /\ ecx > 0
      BY <2>7, Zenon DEF FtoaDigit
    <3>2. m < s /\ len = g + 1 + m
      BY <2>2, <3>1, Zenon
    <3>3. g + 1 + m < d /\ g + 1 + m \in Nat
      <4>1. m < s
        BY <3>2
      <4>2. g + 1 + s + b <= d
        BY <2>6
      <4> QED
        BY <4>1, <4>2
    <3>4. PICK j \in Nat : j = len /\ j < d
      BY <3>2, <3>3, Zenon
    <3> QED
      BY <1>1, <2>6, <3>1, <3>4, WrittenBefore, Zenon
  <2>8. CASE FtoaEnd /\ ecx = 0
    <3>1. mem' = [mem EXCEPT ![len] = 0]
      BY <2>8 DEF FtoaEnd
    <3>2. m = s /\ p = s /\ len = g + 1 + s
      <4>1. m = s /\ m = p - 0 /\ len = g + 1 + m
        BY <2>2, <2>8, Zenon
      <4>2. p - 0 = p
        OBVIOUS
      <4> QED
        BY <4>1, <4>2, Zenon
    <3>3. b = 1
      <4>1. s = Spelled(Fraction(Current), Places(Current)) /\ p = Places(Current)
        BY <2>2, Zenon
      <4>2. Full(Current)
        BY <3>2, <4>1, Zenon DEF Full
      <4> QED
        BY <2>5, <4>2, Zenon
    <3>4. g + 1 + s \in Nat /\ g + 1 + s < d
      <4>1. g + 1 + s + b <= d
        BY <2>6
      <4> QED
        BY <3>3, <4>1
    <3>5. PICK j \in Nat : j = len /\ j < d
      BY <3>2, <3>4, Zenon
    <3> QED
      BY <1>1, <2>6, <3>1, <3>5, WrittenBefore, Zenon
  <2>9. CASE FtoaEnd /\ ecx # 0
    BY <2>9, SameMemory DEF FtoaEnd
  <2> QED
    BY <1>9, <2>7, <2>8, <2>9
<1> QED
  BY <1>3, <1>4, <1>5, <1>6, <1>7, <1>8, <1>9

-----------------------------------------------------------------------------
(* What INPUT stores.                                                      *)

LEMMA StoredStays ==
    ASSUME StoredInv, ~Disturbed, chunks' = chunks, inputs' = inputs, Buffer' = Buffer
    PROVE  StoredInv'
<1>1. \A k : Overlay(k)' = Overlay(k)
  BY DEF Overlay
<1>2. Overlay(Len(chunks))' = Overlay(Len(chunks))
  BY DEF Overlay
<1>3. Buffer' = Overlay(Len(chunks))'
  BY <1>2 DEF StoredInv
<1>4. \A k \in 1 .. Len(inputs') : inputs'[k] = Number(FirstLine(Overlay(k)))
  BY DEF StoredInv
<1>5. \A k \in 1 .. Len(inputs') : inputs'[k] = Number(FirstLine(Overlay(k)))'
  BY <1>1, <1>4
<1> QED
  BY <1>3, <1>5 DEF StoredInv

\* A step of PRINT, or none.
LEMMA ReadStays ==
    ASSUME PrintInv, ReadInv, script' = script, done' \in Nat, done' >= done,
           chunks' = chunks, inputs' = inputs, ~Reading, ~Reading',
           ~Disturbed' => TextUntouched
    PROVE  ReadInv'
<1>1. TypeOK /\ CountInv /\ StoredInv
  BY DEF PrintInv, ReadInv
<1>2. ~Disturbed' => ~Disturbed
  BY <1>1, DisturbedStays
<1>3. StoredInv'
  <2>1. CASE Disturbed'
    BY <2>1 DEF StoredInv
  <2>2. CASE ~Disturbed'
    BY <1>1, <1>2, <2>2, BufferUntouched, StoredStays
  <2> QED
    BY <2>1, <2>2
<1>4. CountInv'
  BY <1>1 DEF CountInv
<1>5. AtoiInv' /\ SignInv'
  BY DEF Reading, AtoiInv, SignInv
<1> QED
  BY <1>3, <1>4, <1>5 DEF ReadInv

\* What atoi has read is a sequence of digits.
LEMMA DigestedIs ==
    ASSUME PrintInv, ReadInv, pc = "atoi"
    PROVE  /\ Start \in Nat /\ Start >= DigitSpace /\ rsi \in Nat /\ Start <= rsi
           /\ rsi <= DigitSpace + StringSpace
           /\ Digested \in Seq(Byte) /\ Len(Digested) = rsi - Start
           /\ \A i \in 1 .. rsi - Start : /\ Digested[i] = mem[Start + i - 1]
                                          /\ IsDigit(Digested[i])
           /\ r10 = (mem[DigitSpace] = Minus) /\ eax = Value(Digested) % Modulus
<1>1. mem \in [Cells -> Byte] /\ rsi \in Cells /\ r10 \in BOOLEAN
  BY DEF PrintInv, TypeOK
<1>2. PICK s, r, e \in Nat : /\ s = Start /\ r = rsi /\ e = DigitSpace + StringSpace /\ s <= r
                             /\ r <= e /\ s >= DigitSpace
  BY <1>1, SpacesAre DEF ReadInv, AtoiInv, Start, Cells
<1>3. \A i \in 1 .. r - s : mem[s + i - 1] \in Byte /\ IsDigit(mem[s + i - 1])
  <2> SUFFICES ASSUME NEW i \in 1 .. r - s
               PROVE  mem[s + i - 1] \in Byte /\ IsDigit(mem[s + i - 1])
    OBVIOUS
  <2>1. s + i - 1 \in s .. r - 1 /\ s + i - 1 \in 0 .. e
    BY <1>2
  <2>2. s + i - 1 \in Cells
    BY <1>2, <2>1 DEF Cells
  <2> QED
    BY <1>1, <1>2, <2>1, <2>2 DEF ReadInv, AtoiInv
<1>4. Digested = [i \in 1 .. r - s |-> mem[s + i - 1]] /\ r - s \in Nat
  BY <1>2 DEF Digested
<1>5. Digested \in Seq(Byte) /\ Len(Digested) = r - s
  <2>1. PICK n \in Nat : n = r - s
    BY <1>4
  <2>2. \A i \in 1 .. n : mem[s + i - 1] \in Byte
    BY <1>3, <2>1
  <2>3. [i \in 1 .. n |-> mem[s + i - 1]] \in Seq(Byte)
    BY <2>2
  <2>4. Len([i \in 1 .. n |-> mem[s + i - 1]]) = n
    OBVIOUS
  <2> QED
    BY <1>4, <2>1, <2>3, <2>4
<1>6. \A i \in 1 .. r - s : Digested[i] = mem[s + i - 1]
  BY <1>4
<1>7. r10 = (mem[DigitSpace] = Minus) /\ eax = Value(Digested) % Modulus
  BY DEF ReadInv, AtoiInv
<1> QED
  BY <1>2, <1>3, <1>5, <1>6, <1>7

\* atoi leaves what was read and what was stored before.
LEMMA AtoiStays ==
    ASSUME ReadInv, Reading, Reading', script' = script, done' = done,
           mem' = mem, chunks' = chunks, inputs' = inputs
    PROVE  CountInv' /\ StoredInv' /\ Buffer' = Buffer
<1>1. Buffer' = Buffer /\ (Disturbed' <=> Disturbed)
  BY DEF Buffer, Disturbed
<1>2. CountInv'
  BY DEF CountInv, ReadInv
<1>3. StoredInv'
  <2>1. CASE Disturbed
    BY <1>1, <2>1 DEF StoredInv
  <2>2. CASE ~Disturbed
    BY <1>1, <2>2, StoredStays DEF ReadInv
  <2> QED
    BY <2>1, <2>2
<1> QED
  BY <1>1, <1>2, <1>3

\* One more digit.
LEMMA DigestedGrows ==
    ASSUME PrintInv, ReadInv, AtoiDigit
    PROVE  ReadInv'
<1>1. /\ pc = "atoi" /\ pc' = "atoi" /\ IsDigit(mem[rsi]) /\ rsi' = rsi + 1
      /\ eax' = (eax * 10 + mem[rsi] - Zero) % Modulus /\ r10' = r10 /\ mem' = mem
      /\ script' = script /\ done' = done /\ chunks' = chunks /\ inputs' = inputs
  BY DEF AtoiDigit, NextByte, Running, reading
<1>2. PICK s, r \in Nat, t \in Seq(Byte) :
         /\ s = Start /\ r = rsi /\ s <= r /\ t = Digested /\ Len(t) = r - s /\ s >= DigitSpace
         /\ (\A i \in 1 .. r - s : t[i] = mem[s + i - 1] /\ IsDigit(t[i]))
         /\ r10 = (mem[DigitSpace] = Minus) /\ eax = Value(t) % Modulus
  BY <1>1, DigestedIs
<1>3. PICK c \in Byte : c = mem[r] /\ IsDigit(c)
  <2>1. mem[rsi] \in Byte
    BY DEF PrintInv, TypeOK
  <2> QED
    BY <1>1, <1>2, <2>1
<1>4. Start' = s /\ rsi' = r + 1
  BY <1>1, <1>2 DEF Start
<1>5. PICK u \in Seq(Byte) : u = Append(t, c) /\ Len(u) = r - s + 1
                             /\ (\A i \in 1 .. r - s : u[i] = t[i]) /\ u[r - s + 1] = c
  <2>1. /\ Append(t, c) \in Seq(Byte) /\ Len(Append(t, c)) = Len(t) + 1
        /\ (\A i \in 1 .. Len(t) : Append(t, c)[i] = t[i]) /\ Append(t, c)[Len(t) + 1] = c
    OBVIOUS
  <2> QED
    BY <1>2, <2>1
<1>6. Digested' = u
  <2>1. Digested' = [i \in 1 .. (r + 1) - s |-> mem[s + i - 1]]
    BY <1>1, <1>4 DEF Digested
  <2>2. \A i \in 1 .. (r + 1) - s : mem[s + i - 1] = u[i]
    <3> SUFFICES ASSUME NEW i \in 1 .. (r + 1) - s
                 PROVE  mem[s + i - 1] = u[i]
      OBVIOUS
    <3>1. CASE i = r - s + 1
      <4>1. s + i - 1 = r
        BY <3>1
      <4> QED
        BY <1>3, <1>5, <3>1, <4>1
    <3>2. CASE i # r - s + 1
      <4>1. i \in 1 .. r - s
        BY <1>2, <3>2
      <4> QED
        BY <1>2, <1>5, <4>1
    <3> QED
      BY <3>1, <3>2
  <2>3. u = [i \in 1 .. (r + 1) - s |-> u[i]]
    <3>1. Len(u) = (r + 1) - s
      BY <1>5
    <3> QED
      BY <3>1
  <2> QED
    BY <2>1, <2>2, <2>3
<1>7. eax' = Value(u) % Modulus
  <2>1. Value(u) = Value(t) * 10 + c - Zero
    BY <1>5, ValueGrows
  <2>2. Value(t) \in Nat
    BY <1>2, ValueIsNumber
  <2>3. PICK v, d \in Nat, m \in Nat \ {0} : v = Value(t) /\ d = c - Zero /\ m = Modulus
    <3>1. c - Zero \in Nat
      BY <1>3 DEF IsDigit, Zero, Byte
    <3> QED
      BY <2>2, <3>1, Scaled, Zenon
  <2>4. eax = v % m
    BY <1>2, <2>3
  <2>5. eax * 10 + mem[rsi] - Zero = (v % m) * 10 + d
    <3>1. c \in Int /\ c - Zero = d /\ Zero \in Int
      BY <2>3 DEF Byte, Zero
    <3>2. v % m \in Int
      OBVIOUS
    <3> QED
      BY <1>2, <1>3, <2>4, <3>1, <3>2
  <2>6. Value(u) = v * 10 + d
    <3>1. c \in Int /\ c - Zero = d /\ Zero \in Int
      BY <2>3 DEF Byte, Zero
    <3> QED
      BY <2>1, <2>3, <3>1
  <2>7. ((v % m) * 10 + d) % m = (v * 10 + d) % m
    <3>1. PICK q \in Nat, x \in 0 .. m - 1 : v = m * q + x /\ x = v % m
      BY Divided
    <3>2. PICK p \in Nat, y \in 0 .. m - 1 : x * 10 + d = m * p + y /\ y = (x * 10 + d) % m
      <4>1. x * 10 + d \in Nat
        OBVIOUS
      <4> QED
        BY <4>1, Divided
    <3>3. v * 10 + d = m * (q * 10 + p) + y
      <4>1. m * (q * 10 + p) = (m * q) * 10 + m * p
        OBVIOUS
      <4>2. m * q \in Nat /\ m * p \in Nat
        OBVIOUS
      <4>3. PICK a, b, z \in Nat : a = m * q /\ b = m * p /\ z = m * (q * 10 + p)
        BY <4>1, <4>2
      <4>4. z = a * 10 + b /\ v = a + x /\ x * 10 + d = b + y
        BY <3>1, <3>2, <4>1, <4>3
      <4>5. v * 10 + d = z + y
        BY <4>4
      <4> QED
        BY <4>3, <4>5
    <3>4. v * 10 + d \in Int /\ q * 10 + p \in Int
      OBVIOUS
    <3>5. (v * 10 + d) % m = y
      BY <3>3, <3>4, RemainderOnce
    <3> QED
      BY <3>1, <3>2, <3>5
  <2> QED
    BY <1>1, <2>3, <2>5, <2>6, <2>7
<1>8. \A i \in Start' .. rsi' - 1 : IsDigit(mem'[i])
  <2> SUFFICES ASSUME NEW i \in s .. r
               PROVE  IsDigit(mem[i])
    BY <1>1, <1>4
  <2>1. CASE i = r
    BY <1>3, <2>1
  <2>2. CASE i # r
    <3>1. PICK j \in 1 .. r - s : j = i - s + 1
      BY <2>2
    <3>2. s + j - 1 = i
      BY <3>1
    <3> QED
      BY <1>2, <3>1, <3>2
  <2> QED
    BY <2>1, <2>2
<1>9. Reading /\ Reading'
  BY <1>1 DEF Reading
<1>10. rsi' >= Start'
  BY <1>2, <1>4
<1> QED
  BY <1>1, <1>2, <1>6, <1>7, <1>8, <1>9, <1>10, AtoiStays DEF ReadInv, AtoiInv, SignInv

\* The line that atoi is reading, and what is behind its sign.
LEMMA LineRead ==
    ASSUME PrintInv, ReadInv, pc = "atoi", NEW n \in Nat, EndsAt(Buffer, n),
           n >= rsi - DigitSpace
    PROVE  LET line == FirstLine(Buffer)
           IN  /\ line \in Seq(Byte) /\ (line # << >> /\ line[1] = Minus <=> r10)
               /\ Body(line) \in Seq(Byte) /\ Len(Body(line)) = n - (Start - DigitSpace)
               /\ \A i \in 1 .. n - (Start - DigitSpace) : Body(line)[i] = mem[Start + i - 1]
<1>1. mem \in [Cells -> Byte] /\ r10 \in BOOLEAN
  BY DEF PrintInv, TypeOK
<1>2. PICK b \in Seq(Byte), z, d \in Nat :
         /\ b = Buffer /\ z = StringSpace /\ d = DigitSpace /\ Len(b) = z /\ z > 0
         /\ \A i \in 1 .. z : b[i] = mem[d + i - 1]
  BY <1>1, BufferIs, SpacesAre
<1>3. n <= z
  BY <1>2 DEF EndsAt
<1>4. PICK line \in Seq(Byte) : /\ line = FirstLine(Buffer) /\ Len(line) = n
                                /\ \A i \in 1 .. n : line[i] = b[i]
  <2>1. FirstLine(Buffer) = SubSeq(b, 1, n)
    BY <1>2, FirstLineIs
  <2>2. SubSeq(b, 1, n) \in Seq(Byte) /\ Len(SubSeq(b, 1, n)) = n
        /\ \A i \in 1 .. n : SubSeq(b, 1, n)[i] = b[i]
    BY <1>2, <1>3
  <2> QED
    BY <2>1, <2>2
<1>5. \A i \in 1 .. n : line[i] = mem[d + i - 1]
  BY <1>2, <1>3, <1>4
<1>6. PICK s, r \in Nat : /\ s = Start /\ r = rsi /\ s <= r /\ n >= r - d
                          /\ s = IF r10 THEN d + 1 ELSE d
  BY <1>1, <1>2, DigestedIs DEF Start
<1>7. line # << >> /\ line[1] = Minus <=> r10
  <2>1. line # << >> <=> n > 0
    BY <1>4
  <2>2. n > 0 => line[1] = mem[d]
    <3>1. n > 0 => 1 \in 1 .. n /\ d + 1 - 1 = d
      OBVIOUS
    <3> QED
      BY <1>5, <3>1
  <2>3. r10 => n > 0
    BY <1>6
  <2>4. r10 = (mem[d] = Minus)
    BY <1>2, DigestedIs
  <2> QED
    BY <1>1, <2>1, <2>2, <2>3, <2>4
<1>8. PICK body \in Seq(Byte) :
         /\ body = Body(line) /\ (body # line <=> r10)
         /\ (body # line => /\ Len(body) = n - 1
                            /\ \A i \in 1 .. n - 1 : body[i] = line[i + 1])
  BY <1>4, <1>7, BodyIs
<1>9. CASE r10
  <2>1. s = d + 1 /\ s - d = 1
    BY <1>6, <1>9
  <2>2. \A i \in 1 .. n - 1 : body[i] = mem[s + i - 1]
    <3> SUFFICES ASSUME NEW i \in 1 .. n - 1
                 PROVE  body[i] = mem[s + i - 1]
      OBVIOUS
    <3>1. i + 1 \in 1 .. n /\ d + (i + 1) - 1 = s + i - 1
      BY <2>1
    <3> QED
      BY <1>5, <1>8, <1>9, <3>1
  <2>3. Start = s /\ Start - DigitSpace = 1
    BY <1>2, <1>6, <2>1, Zenon
  <2>4. body = Body(line) /\ Len(body) = n - 1
    BY <1>8, <1>9, Zenon
  <2> QED
    BY <1>4, <1>7, <2>2, <2>3, <2>4, Zenon
<1>10. CASE ~r10
  <2>1. s = d /\ s - d = 0 /\ n - 0 = n
    BY <1>6, <1>10
  <2>2. body = line
    BY <1>8, <1>10
  <2> QED
    BY <1>2, <1>4, <1>5, <1>6, <1>7, <1>8, <1>10, <2>1, <2>2
<1> QED
  BY <1>1, <1>9, <1>10

\* What is before the place that atoi has come to ends no line.
LEMMA NoEndBefore ==
    ASSUME PrintInv, ReadInv, pc = "atoi"
    PROVE  \A i \in 1 .. rsi - DigitSpace : ~StopsAt(Buffer[i])
<1>1. mem \in [Cells -> Byte] /\ r10 \in BOOLEAN
  BY DEF PrintInv, TypeOK
<1>2. PICK s, r, d, z \in Nat :
         /\ s = Start /\ r = rsi /\ d = DigitSpace /\ z = StringSpace /\ s <= r /\ r <= d + z
         /\ s = (IF r10 THEN d + 1 ELSE d) /\ r10 = (mem[d] = Minus)
         /\ \A i \in 1 .. r - s : IsDigit(mem[s + i - 1])
  <2>1. PICK s, r, d, z \in Nat :
          /\ s = Start /\ r = rsi /\ d = DigitSpace /\ z = StringSpace /\ s <= r /\ r <= d + z
    BY SpacesAre, DigestedIs
  <2>2. s = (IF r10 THEN d + 1 ELSE d) /\ r10 = (mem[d] = Minus)
    BY <2>1, DigestedIs DEF Start
  <2>3. \A i \in 1 .. r - s : IsDigit(mem[s + i - 1])
    BY <2>1, DigestedIs
  <2> QED
    BY <2>1, <2>2, <2>3
<1> SUFFICES ASSUME NEW i \in 1 .. r - d
             PROVE  ~StopsAt(Buffer[i])
  BY <1>2
<1>3. Buffer[i] = mem[d + i - 1]
  <2>1. i \in 1 .. z
    BY <1>2
  <2> QED
    BY <1>1, <1>2, <2>1, BufferIs
<1>4. CASE d + i - 1 >= s
  <2>1. PICK j \in 1 .. r - s : j = d + i - s
    <3>1. d + i - s \in 1 .. r - s
      BY <1>2, <1>4
    <3> QED
      BY <3>1
  <2>2. s + j - 1 = d + i - 1
    BY <2>1
  <2>3. IsDigit(mem[d + i - 1])
    BY <1>2, <2>1, <2>2
  <2> QED
    BY <1>3, <2>3 DEF IsDigit, StopsAt, Zero, Newline
<1>5. CASE ~(d + i - 1 >= s)
  <2>1. r10 /\ d + i - 1 = d
    BY <1>1, <1>2, <1>5
  <2>2. Buffer[i] = Minus
    BY <1>2, <1>3, <2>1
  <2> QED
    BY <2>2 DEF StopsAt, Minus, Newline
<1> QED
  BY <1>2, <1>4, <1>5

\* A line of digits.
LEMMA NumberOfDigits ==
    ASSUME NEW line \in Seq(Byte), NEW body \in Seq(Byte), body = Body(line),
           \A i \in 1 .. Len(body) : IsDigit(body[i])
    PROVE  Number(line) = IF line # << >> /\ line[1] = Minus THEN Negated(Value(body) % Modulus)
                          ELSE Value(body) % Modulus
<1>1. PICK w : w = Value(body) % Modulus
  OBVIOUS
<1>2. w = IF \A i \in 1 .. Len(body) : IsDigit(body[i]) THEN Value(body) % Modulus ELSE MinusOne
  BY <1>1
<1>3. Number(line) = IF line # << >> /\ line[1] = Minus THEN Negated(w) ELSE w
  BY <1>2, NumberIs
<1> QED
  BY <1>1, <1>3

LEMMA ReadToTheEnd ==
    ASSUME PrintInv, ReadInv, AtoiStop
    PROVE  ReadInv'
<1>1. /\ pc = "atoi" /\ pc' = "sign" /\ StopsAt(mem[rsi]) /\ eax' = eax /\ r10' = r10 /\ mem' = mem
      /\ script' = script /\ done' = done /\ chunks' = chunks /\ inputs' = inputs
  BY DEF AtoiStop, Running, reading, registers
<1>2. PICK s, r, d, z \in Nat, t \in Seq(Byte) :
         /\ s = Start /\ r = rsi /\ d = DigitSpace /\ z = StringSpace /\ s <= r /\ d <= s /\ r <= d + z
         /\ t = Digested /\ Len(t) = r - s
         /\ (\A i \in 1 .. r - s : t[i] = mem[s + i - 1] /\ IsDigit(t[i]))
         /\ eax = Value(t) % Modulus
  BY <1>1, DigestedIs, SpacesAre
<1>3. PICK n \in Nat : n = r - d /\ n <= z /\ d + n = r
  BY <1>2
<1>4. mem \in [Cells -> Byte]
  BY DEF PrintInv, TypeOK
<1>5. EndsAt(Buffer, n)
  <2>1. n \in 0 .. Len(Buffer)
    BY <1>2, <1>3, <1>4, BufferIs
  <2>2. \A i \in 1 .. n : ~StopsAt(Buffer[i])
    BY <1>1, <1>2, <1>3, NoEndBefore
  <2>3. n < Len(Buffer) => StopsAt(Buffer[n + 1])
    <3>1. n < z => n + 1 \in 1 .. z /\ d + (n + 1) - 1 = r
      BY <1>3
    <3>2. Len(Buffer) = z
      BY <1>2, <1>4, BufferIs
    <3>3. n < z => Buffer[n + 1] = mem[r]
      BY <1>2, <1>4, <3>1, BufferIs
    <3> QED
      BY <1>1, <1>2, <3>2, <3>3
  <2> QED
    BY <2>1, <2>2, <2>3 DEF EndsAt
<1>6. PICK line, body \in Seq(Byte) :
         /\ line = FirstLine(Buffer) /\ body = Body(line)
         /\ (line # << >> /\ line[1] = Minus <=> r10)
         /\ Len(body) = n - (s - d) /\ \A i \in 1 .. n - (s - d) : body[i] = mem[s + i - 1]
  BY <1>1, <1>2, <1>3, <1>5, LineRead
<1>7. n - (s - d) = r - s
  BY <1>2, <1>3
<1>8. body = t
  <2>1. \A i \in 1 .. r - s : body[i] = t[i]
    BY <1>2, <1>6, <1>7
  <2>2. Len(body) = Len(t) /\ \A i \in 1 .. Len(body) : body[i] = t[i]
    BY <1>2, <1>6, <1>7, <2>1
  <2> QED
    BY <2>2, SeqEqual
<1>9. Number(line) = IF r10 THEN Negated(eax) ELSE eax
  <2>1. \A i \in 1 .. Len(body) : IsDigit(body[i])
    BY <1>2, <1>8
  <2>2. Number(line) = IF line # << >> /\ line[1] = Minus THEN Negated(Value(body) % Modulus)
                       ELSE Value(body) % Modulus
    BY <1>6, <2>1, NumberOfDigits
  <2> QED
    BY <1>2, <1>6, <1>8, <2>2
<1>10. Reading /\ Reading'
  BY <1>1 DEF Reading
<1>11. CountInv' /\ StoredInv' /\ Buffer' = Buffer
  BY <1>1, <1>10, AtoiStays
<1>12. SignInv'
  BY <1>1, <1>6, <1>9, <1>11 DEF SignInv
<1> QED
  BY <1>1, <1>11, <1>12 DEF ReadInv, AtoiInv

LEMMA ReadToAnError ==
    ASSUME PrintInv, ReadInv, AtoiError
    PROVE  ReadInv'
<1>1. /\ pc = "atoi" /\ pc' = "sign" /\ ~StopsAt(mem[rsi]) /\ ~IsDigit(mem[rsi])
      /\ eax' = MinusOne /\ r10' = r10 /\ mem' = mem
      /\ script' = script /\ done' = done /\ chunks' = chunks /\ inputs' = inputs
  BY DEF AtoiError, Running, reading
<1>2. PICK s, r, d, z \in Nat :
         /\ s = Start /\ r = rsi /\ d = DigitSpace /\ z = StringSpace /\ s <= r /\ d <= s /\ r <= d + z
  BY <1>1, DigestedIs, SpacesAre
<1>3. mem \in [Cells -> Byte] /\ mem[d + z] = 0
  BY <1>2 DEF PrintInv, TypeOK, MarkInv
<1>4. r < d + z
  <2>1. r # d + z
    BY <1>1, <1>2, <1>3 DEF StopsAt
  <2> QED
    BY <1>2, <2>1
<1>5. PICK b \in Seq(Byte) : /\ b = Buffer /\ Len(b) = z
                             /\ \A i \in 1 .. z : b[i] = mem[d + i - 1]
  BY <1>2, <1>3, BufferIs
<1>6. PICK n \in Nat : EndsAt(Buffer, n)
  BY <1>5, FirstLineEnds
<1>7. n > r - d
  <2> SUFFICES ASSUME n <= r - d
               PROVE  FALSE
    BY <1>2
  <2>1. n < z /\ n + 1 \in 1 .. z /\ n + 1 \in 1 .. (r - d) + 1
    BY <1>2, <1>4
  <2>2. StopsAt(b[n + 1])
    BY <1>5, <1>6, <2>1 DEF EndsAt
  <2>3. CASE n = r - d
    <3>1. d + (n + 1) - 1 = r
      BY <2>3
    <3> QED
      BY <1>1, <1>2, <1>5, <2>1, <2>2, <3>1
  <2>4. CASE n # r - d
    <3>1. n + 1 \in 1 .. r - d
      BY <1>2, <2>1, <2>4
    <3> QED
      BY <1>1, <1>2, <1>5, <2>2, <3>1, NoEndBefore
  <2> QED
    BY <2>3, <2>4
<1>8. PICK line, body \in Seq(Byte) :
         /\ line = FirstLine(Buffer) /\ body = Body(line)
         /\ (line # << >> /\ line[1] = Minus <=> r10)
         /\ Len(body) = n - (s - d) /\ \A i \in 1 .. n - (s - d) : body[i] = mem[s + i - 1]
  <2>1. n >= rsi - DigitSpace
    BY <1>2, <1>7
  <2> QED
    BY <1>1, <1>2, <1>6, <2>1, LineRead
<1>9. ~\A i \in 1 .. Len(body) : IsDigit(body[i])
  <2>1. PICK i \in 1 .. n - (s - d) : i = r - s + 1
    BY <1>2, <1>7
  <2>2. s + i - 1 = r
    BY <1>2, <2>1
  <2>3. i \in 1 .. Len(body) /\ body[i] = mem[r]
    BY <1>8, <2>1, <2>2, Zenon
  <2>4. ~IsDigit(mem[r])
    BY <1>1, <1>2, Zenon
  <2> QED
    BY <2>3, <2>4, Zenon
<1>10. Number(line) = IF r10 THEN Negated(MinusOne) ELSE MinusOne
  BY <1>8, <1>9, NumberIs, Zenon
<1>11. Reading /\ Reading'
  BY <1>1 DEF Reading
<1>12. CountInv' /\ StoredInv' /\ Buffer' = Buffer
  BY <1>1, <1>11, AtoiStays
<1>13. SignInv'
  BY <1>1, <1>8, <1>10, <1>12 DEF SignInv
<1> QED
  BY <1>1, <1>12, <1>13 DEF ReadInv, AtoiInv

-----------------------------------------------------------------------------
(* The text in the buffer, from what each read has delivered.              *)

Wrote(c, k, i) == { m \in 1 .. k : Len(c[m]) >= i }
Latest(S) == CHOOSE m \in S : \A n \in S : n <= m
ByteOf(c, k, i) == IF Wrote(c, k, i) = {} THEN 0 ELSE c[Latest(Wrote(c, k, i))][i]
OverlayOf(c, k) == [i \in 1 .. StringSpace |-> ByteOf(c, k, i)]

LEMMA OverlayIs == \A k : Overlay(k) = OverlayOf(chunks, k) /\ Overlay(k)' = OverlayOf(chunks', k)
BY DEF Overlay, OverlayOf, ByteOf, Wrote, Latest

LEMMA OverlayCount ==
    /\ Overlay(Len(chunks)) = OverlayOf(chunks, Len(chunks))
    /\ Overlay(Len(chunks))' = OverlayOf(chunks', Len(chunks'))
BY DEF Overlay, OverlayOf, ByteOf, Wrote, Latest

LEMMA GreatestNumber ==
    ASSUME NEW k \in Nat, NEW W \in SUBSET (1 .. k), W # {}
    PROVE  \E m \in W : \A n \in W : n <= m
<1>1. PICK T : T = { j \in Nat : \E w \in W : j = k - w }
  OBVIOUS
<1>2. T \in SUBSET Nat
  BY <1>1
<1>3. \A w \in W : k - w \in T
  BY <1>1
<1>4. T # {}
  BY <1>3
<1>5. PICK m \in T : \A j \in T : m <= j
  BY <1>2, <1>4, LeastNumber
<1>6. PICK v \in W : m = k - v
  BY <1>1, <1>5
<1>7. \A w \in W : k - v <= k - w
  BY <1>3, <1>5, <1>6
<1>8. \A w \in W : w <= v
  BY <1>7
<1> QED
  BY <1>6, <1>8

LEMMA OverlayAgrees ==
    ASSUME NEW b, NEW c, NEW k \in Nat, \A m \in 1 .. k : b[m] = c[m]
    PROVE  OverlayOf(b, k) = OverlayOf(c, k)
<1>1. ASSUME NEW i \in 1 .. StringSpace PROVE ByteOf(b, k, i) = ByteOf(c, k, i)
  <2>1. PICK W : W = Wrote(b, k, i)
    OBVIOUS
  <2>2. W = Wrote(c, k, i) /\ W \subseteq 1 .. k
    BY <2>1 DEF Wrote
  <2>3. CASE W = {}
    BY <2>1, <2>2, <2>3 DEF ByteOf
  <2>4. CASE W # {}
    <3>1. \E m \in W : \A n \in W : n <= m
      BY <2>2, <2>4, GreatestNumber
    <3>2. Latest(W) \in W
      BY <3>1 DEF Latest
    <3>3. b[Latest(W)] = c[Latest(W)]
      BY <2>2, <3>2
    <3> QED
      BY <2>1, <2>2, <2>4, <3>3 DEF ByteOf
  <2> QED
    BY <2>3, <2>4
<1> QED
  BY <1>1 DEF OverlayOf

\* A chunk overwrites as many bytes as it has.
LEMMA OverlayGrows ==
    ASSUME NEW c, NEW k \in Nat, NEW i \in 1 .. StringSpace, Len(c[k + 1]) \in Nat
    PROVE  OverlayOf(c, k + 1)[i] = IF i <= Len(c[k + 1]) THEN c[k + 1][i] ELSE OverlayOf(c, k)[i]
<1>1. /\ OverlayOf(c, k + 1)[i] = ByteOf(c, k + 1, i) /\ OverlayOf(c, k)[i] = ByteOf(c, k, i)
  BY DEF OverlayOf
<1>2. CASE i <= Len(c[k + 1])
  <2>1. PICK W : W = Wrote(c, k + 1, i) /\ k + 1 \in W /\ W \subseteq 1 .. k + 1
    <3>1. PICK j \in Nat : j = k + 1 /\ j \in 1 .. j /\ Len(c[j]) >= i
      BY <1>2
    <3>2. j \in Wrote(c, j, i) /\ Wrote(c, j, i) \subseteq 1 .. j
      BY <3>1 DEF Wrote
    <3> QED
      BY <3>1, <3>2
  <2>2. Latest(W) = k + 1
    <3>1. \A n \in W : n <= k + 1
      BY <2>1
    <3>2. Latest(W) \in W /\ \A n \in W : n <= Latest(W)
      BY <2>1, <3>1 DEF Latest
    <3> QED
      BY <2>1, <3>1, <3>2
  <2> QED
    BY <1>1, <1>2, <2>1, <2>2 DEF ByteOf
<1>3. CASE ~(i <= Len(c[k + 1]))
  <2>1. Wrote(c, k + 1, i) = Wrote(c, k, i)
    <3>1. \A m \in 1 .. k + 1 : m \in 1 .. k \/ m = k + 1
      OBVIOUS
    <3>2. \A m \in 1 .. k : m \in 1 .. k + 1
      OBVIOUS
    <3>3. ~(Len(c[k + 1]) >= i)
      BY <1>3
    <3> QED
      BY <3>1, <3>2, <3>3 DEF Wrote
  <2> QED
    BY <1>1, <1>3, <2>1 DEF ByteOf
<1> QED
  BY <1>2, <1>3

LEMMA OverlayOfNothing ==
    ASSUME NEW c, NEW i \in 1 .. StringSpace
    PROVE  OverlayOf(c, 0)[i] = 0
<1>1. Wrote(c, 0, i) = {}
  BY DEF Wrote
<1> QED
  BY <1>1 DEF OverlayOf, ByteOf

\* What INPUT stores is the value of the first line.
LEMMA ReadEnds ==
    ASSUME PrintInv, ReadInv, AtoiSign
    PROVE  ReadInv'
<1>1. /\ pc = "sign" /\ pc' = "idle" /\ inputs' = Append(inputs, IF r10 THEN Negated(eax) ELSE eax)
      /\ mem' = mem /\ script' = script /\ done' = done /\ chunks' = chunks
  BY DEF AtoiSign
<1>2. inputs \in Seq(Words) /\ eax \in Words /\ chunks \in Seq(Seq(Byte))
  BY DEF PrintInv, TypeOK, StateInv
<1>3. PICK x \in Words : /\ x = (IF r10 THEN Negated(eax) ELSE eax)
                         /\ x = Number(FirstLine(Buffer)) /\ inputs' = Append(inputs, x)
  <2>1. (IF r10 THEN Negated(eax) ELSE eax) = Number(FirstLine(Buffer))
    BY <1>1 DEF ReadInv, SignInv
  <2>2. (IF r10 THEN Negated(eax) ELSE eax) \in Words
    BY <1>2, NegatedIs
  <2> QED
    BY <1>1, <2>1, <2>2
<1>4. PICK n \in Nat : n = Len(inputs) /\ Len(chunks) = n + 1
  BY <1>1, <1>2 DEF ReadInv, CountInv, Reading
<1>5. /\ Len(inputs') = n + 1 /\ inputs'[n + 1] = x /\ \A k \in 1 .. n : inputs'[k] = inputs[k]
  BY <1>2, <1>3, <1>4
<1>6. CountInv'
  <2>1. Len(chunks') = Len(inputs') + 0
    BY <1>1, <1>4, <1>5
  <2> QED
    BY <1>1, <2>1 DEF CountInv, Reading
<1>7. StoredInv'
  <2>1. SUFFICES ASSUME ~Disturbed
                 PROVE  /\ Buffer' = Overlay(Len(chunks))'
                        /\ \A k \in 1 .. Len(inputs') : inputs'[k] = Number(FirstLine(Overlay(k)))'
    BY <1>1 DEF StoredInv, Disturbed
  <2>2. PICK b : b = Buffer /\ b = OverlayOf(chunks, n + 1)
    BY <1>4, <2>1, OverlayCount DEF ReadInv, StoredInv
  <2>3. Buffer' = b
    BY <1>1, <2>2 DEF Buffer
  <2>4. Overlay(Len(chunks))' = b
    BY <1>1, <1>4, <2>2, OverlayCount
  <2>5. \A k \in 1 .. n : inputs[k] = Number(FirstLine(OverlayOf(chunks, k)))
    BY <1>4, <2>1, OverlayIs DEF ReadInv, StoredInv
  <2>6. \A k \in 1 .. n + 1 : inputs'[k] = Number(FirstLine(OverlayOf(chunks, k)))
    <3>1. \A k \in 1 .. n + 1 : k \in 1 .. n \/ k = n + 1
      OBVIOUS
    <3> QED
      BY <1>3, <1>5, <2>2, <2>5, <3>1
  <2>7. \A k \in 1 .. n + 1 : inputs'[k] = Number(FirstLine(Overlay(k)))'
    BY <1>1, <2>6, OverlayIs
  <2> QED
    BY <1>5, <2>3, <2>4, <2>7
<1> QED
  BY <1>1, <1>6, <1>7 DEF ReadInv, AtoiInv, SignInv

\* A read fills the beginning of the buffer.
LEMMA ReadBegins ==
    ASSUME PrintInv, ReadInv, Input
    PROVE  ReadInv'
<1>1. TypeOK /\ StateInv /\ mem \in [Cells -> Byte] /\ chunks \in Seq(Seq(Byte))
  BY DEF PrintInv, TypeOK, StateInv
<1>2. /\ Calls("input") /\ Called /\ pc' = "atoi" /\ eax' = 0
      /\ r10' = (mem'[DigitSpace] = Minus)
      /\ rsi' = (IF r10' THEN DigitSpace + 1 ELSE DigitSpace)
      /\ inputs' = inputs
  BY DEF Input
<1>3. PICK n \in Delivered : /\ mem' = Filled(SubSeq(rest, 1, n))
                             /\ chunks' = Append(chunks, SubSeq(rest, 1, n))
  BY DEF Input
<1>4. PICK s \in Seq(Byte) : s = SubSeq(rest, 1, n) /\ Len(s) <= StringSpace
  BY <1>1, <1>3, DeliveredIs
<1>5. /\ done' \in Nat /\ done' >= done /\ script' = script /\ pc = "idle"
  <2>1. done' \in Nat \ {0} /\ done' = done + 1 /\ script' = script /\ pc = "idle"
    BY <1>1, <1>2, CallBegins
  <2> QED
    BY <1>1, <2>1 DEF TypeOK
<1>6. PICK m \in Nat : m = Len(chunks) /\ m = Len(inputs)
  <2>1. Len(chunks) = Len(inputs) + 0 /\ Len(chunks) \in Nat /\ Len(inputs) \in Nat
    BY <1>1, <1>5 DEF ReadInv, CountInv, Reading, TypeOK
  <2> QED
    BY <2>1
<1>7. /\ Len(chunks') = m + 1 /\ chunks'[m + 1] = s /\ \A k \in 1 .. m : chunks'[k] = chunks[k]
  <2>1. /\ Len(Append(chunks, s)) = Len(chunks) + 1 /\ Append(chunks, s)[Len(chunks) + 1] = s
        /\ \A k \in 1 .. Len(chunks) : Append(chunks, s)[k] = chunks[k]
    BY <1>1, AppendProperties
  <2> QED
    BY <1>3, <1>4, <1>6, <2>1
<1>8. CountInv'
  BY <1>2, <1>6, <1>7 DEF CountInv, Reading
<1>9. AtoiInv'
  <2>1. Start' = rsi'
    BY <1>2 DEF Start
  <2>2. PICK r \in Nat : r = rsi'
    BY <1>2, SpacesAre
  <2>3. \A i \in r .. r - 1 : FALSE
    OBVIOUS
  <2>4. Digested' = << >>
    <3>1. Digested' = [i \in 1 .. r - r |-> mem'[r + i - 1]]
      BY <2>1, <2>2 DEF Digested
    <3>2. r - r = 0
      OBVIOUS
    <3>3. [i \in 1 .. 0 |-> mem'[r + i - 1]] = << >>
      OBVIOUS
    <3> QED
      BY <3>1, <3>2, <3>3
  <2>5. eax' = Value(Digested') % Modulus
    <3>1. PICK x \in Nat \ {0} : x = Modulus
      BY Scaled
    <3>2. 0 % x = 0
      OBVIOUS
    <3> QED
      BY <1>2, <2>4, <3>1, <3>2, ValueOfNothing
  <2> QED
    BY <1>2, <2>1, <2>2, <2>3, <2>5 DEF AtoiInv
<1>10. SignInv'
  BY <1>2 DEF SignInv
<1>11. StoredInv'
  <2>1. SUFFICES ASSUME ~Disturbed'
                 PROVE  /\ Buffer' = Overlay(Len(chunks))'
                        /\ \A k \in 1 .. Len(inputs') : inputs'[k] = Number(FirstLine(Overlay(k)))'
    BY DEF StoredInv
  <2>2. ~Disturbed
    BY <1>1, <1>5, <2>1, DisturbedStays
  <2>3. Buffer = OverlayOf(chunks, m)
    BY <1>6, <2>2, OverlayCount DEF ReadInv, StoredInv
  <2>4. OverlayOf(chunks', m) = OverlayOf(chunks, m)
    BY <1>7, OverlayAgrees
  <2>5. ASSUME NEW i \in 1 .. StringSpace
        PROVE  mem'[DigitSpace + i - 1] = OverlayOf(chunks', m + 1)[i]
    <3>1. mem'[DigitSpace + i - 1] = IF i <= Len(s) THEN s[i] ELSE mem[DigitSpace + i - 1]
      BY <1>1, <1>3, <1>4, FilledIs
    <3>2. mem[DigitSpace + i - 1] = OverlayOf(chunks', m)[i]
      BY <1>1, <2>3, <2>4, BufferIs
    <3>3. Len(chunks'[m + 1]) \in Nat
      BY <1>7
    <3>4. OverlayOf(chunks', m + 1)[i] = IF i <= Len(s) THEN s[i] ELSE OverlayOf(chunks', m)[i]
      BY <1>7, <3>3, OverlayGrows
    <3> QED
      BY <3>1, <3>2, <3>4
  <2>6. Buffer' = OverlayOf(chunks', m + 1)
    <3>1. Buffer' = [i \in 1 .. StringSpace |-> mem'[DigitSpace + i - 1]]
      BY DEF Buffer
    <3>2. OverlayOf(chunks', m + 1) = [i \in 1 .. StringSpace |-> OverlayOf(chunks', m + 1)[i]]
      BY DEF OverlayOf
    <3> QED
      BY <2>5, <3>1, <3>2
  <2>7. ASSUME NEW k \in 1 .. m
        PROVE  inputs'[k] = Number(FirstLine(Overlay(k)))'
    <3>1. OverlayOf(chunks', k) = OverlayOf(chunks, k)
      <4>1. \A j \in 1 .. k : j \in 1 .. m
        OBVIOUS
      <4> QED
        BY <1>7, <4>1, OverlayAgrees
    <3>2. inputs[k] = Number(FirstLine(Overlay(k)))
      BY <1>6, <2>2 DEF ReadInv, StoredInv
    <3> QED
      BY <1>2, <3>1, <3>2, OverlayIs
  <2> QED
    BY <1>2, <1>6, <1>7, <2>6, <2>7, OverlayCount
<1> QED
  BY <1>8, <1>9, <1>10, <1>11 DEF ReadInv

LEMMA InitReads ==
    ASSUME Init
    PROVE  ReadInv /\ LinesInv
<1>1. /\ script \in Scripts /\ mem = [i \in Cells |-> 0] /\ pc = "idle"
      /\ rest = script.file /\ chunks = << >> /\ inputs = << >>
  BY DEF Init
<1>2. Len(chunks) = 0 /\ Len(inputs) = 0 /\ ~Reading
  BY <1>1 DEF Reading
<1>3. Buffer = OverlayOf(chunks, 0)
  <2>1. ASSUME NEW i \in 1 .. StringSpace
        PROVE  mem[DigitSpace + i - 1] = OverlayOf(chunks, 0)[i]
    <3>1. DigitSpace + i - 1 \in Cells
      BY SpacesAre DEF Cells
    <3> QED
      BY <1>1, <3>1, OverlayOfNothing
  <2>2. OverlayOf(chunks, 0) = [i \in 1 .. StringSpace |-> OverlayOf(chunks, 0)[i]]
    BY DEF OverlayOf
  <2> QED
    BY <2>1, <2>2 DEF Buffer
<1>4. CountInv /\ StoredInv
  BY <1>2, <1>3, OverlayCount DEF CountInv, StoredInv
<1>5. LinesInv
  <2>1. Unread[0] = rest
    BY <1>1, ScriptsAssumption, UnreadSteps
  <2> QED
    BY <1>2, <2>1 DEF LinesInv
<1> QED
  BY <1>1, <1>4, <1>5 DEF ReadInv, AtoiInv, SignInv

LEMMA StutterReads ==
    ASSUME PrintInv, ReadInv, UNCHANGED vars
    PROVE  ReadInv'
<1>1. /\ script' = script /\ done' = done /\ mem' = mem /\ chunks' = chunks
      /\ inputs' = inputs /\ pc' = pc /\ eax' = eax /\ rsi' = rsi /\ r10' = r10
  BY DEF vars, registers, reading
<1>2. CASE Reading
  <2>1. CountInv' /\ StoredInv' /\ Buffer' = Buffer
    BY <1>1, <1>2, AtoiStays DEF Reading
  <2>2. Start' = Start /\ Digested' = Digested
    BY <1>1 DEF Start, Digested
  <2> QED
    BY <1>1, <2>1, <2>2 DEF ReadInv, AtoiInv, SignInv
<1>3. CASE ~Reading
  <2>1. done' \in Nat /\ done' >= done
    BY <1>1 DEF PrintInv, TypeOK
  <2> QED
    BY <1>1, <1>3, <2>1, SameMemory, ReadStays DEF Reading
<1> QED
  BY <1>2, <1>3

LEMMA CallReads ==
    ASSUME PrintInv, ReadInv, PrintInt \/ PrintFloat \/ FloatZeroCrashes \/ FloatZeroRunsAway
    PROVE  ReadInv'
<1>1. TypeOK /\ StateInv
  BY DEF PrintInv
<1>2. PICK op : Calls(op) /\ Called /\ op # "input"
  BY DEF PrintInt, PrintFloat, FloatZeroCrashes, FloatZeroRunsAway
<1>3. /\ done' \in Nat \ {0} /\ done' = done + 1 /\ script' = script /\ pc = "idle"
      /\ Current' = script.calls[done + 1] /\ Current'.op = op /\ Operand = Current'.v
  BY <1>1, <1>2, CallBegins
<1>4. done' \in Nat /\ done' >= done
  BY <1>1, <1>3 DEF TypeOK
<1>5. chunks' = chunks /\ inputs' = inputs /\ pc' \notin {"atoi", "sign"}
  BY <1>3 DEF PrintInt, PrintFloat, FloatZeroCrashes, FloatZeroRunsAway, reading
<1>6. ~Disturbed' => TextUntouched
  <2>1. CASE PrintInt \/ PrintFloat \/ FloatZeroCrashes
    BY <2>1, SameMemory DEF PrintInt, PrintFloat, FloatZeroCrashes
  <2>2. CASE FloatZeroRunsAway
    <3>1. Calls("float") /\ Operand = 0
      BY <2>2 DEF FloatZeroRunsAway
    <3>2. script.calls[done + 1].op = "float" /\ script.calls[done + 1].v = 0
      BY <3>1 DEF Calls, Operand
    <3>3. TooLong(script.calls[done + 1])
      BY <3>2 DEF TooLong
    <3>4. done + 1 \in 1 .. done'
      BY <1>3
    <3> QED
      BY <1>3, <3>3, <3>4 DEF Disturbed
  <2> QED
    BY <2>1, <2>2
<1> QED
  BY <1>3, <1>4, <1>5, <1>6, ReadStays DEF Reading

LEMMA PrintReads ==
    ASSUME PrintInv, ReadInv,
           \/ ItoaZero \/ ItoaSign \/ ItoaCount \/ ItoaTerminate \/ ItoaStore \/ ItoaEnd
           \/ FtoaPoint \/ FtoaDigit \/ FtoaEnd
    PROVE  ReadInv'
<1>1. PICK where : Running(where) /\ where \notin {"atoi", "sign"}
  BY DEF ItoaZero, ItoaSign, ItoaCount, ItoaTerminate, ItoaStore, ItoaEnd,
         FtoaPoint, FtoaDigit, FtoaEnd
<1>2. /\ script' = script /\ done' = done /\ chunks' = chunks /\ inputs' = inputs /\ pc = where
  BY <1>1, RoutineSteps
<1>3. pc' \notin {"atoi", "sign"}
  BY <1>1, <1>2 DEF ItoaZero, ItoaSign, ItoaCount, ItoaTerminate, ItoaStore, ItoaEnd,
         FtoaPoint, FtoaDigit, FtoaEnd, ItoaReturns, Running
<1>4. done' \in Nat /\ done' >= done
  BY <1>2 DEF PrintInv, TypeOK
<1>5. ~Disturbed' => TextUntouched
  <2>1. Disturbed' <=> Disturbed
    BY <1>2 DEF Disturbed
  <2> QED
    BY <2>1, PrintLeavesText
<1> QED
  BY <1>1, <1>2, <1>3, <1>4, <1>5, ReadStays DEF Reading

LEMMA WriteReads ==
    ASSUME PrintInv, ReadInv, Write
    PROVE  ReadInv'
<1>1. /\ script' = script /\ done' = done /\ mem' = mem /\ chunks' = chunks /\ inputs' = inputs
      /\ pc = "write" /\ pc' = "idle"
  BY DEF Write, reading
<1>2. done' \in Nat /\ done' >= done
  BY <1>1 DEF PrintInv, TypeOK
<1> QED
  BY <1>1, <1>2, SameMemory, ReadStays DEF Reading

LEMMA ReadStep ==
    ASSUME PrintInv, ReadInv, [Next]_vars
    PROVE  ReadInv'
<1>1. CASE PrintInt \/ PrintFloat \/ FloatZeroCrashes \/ FloatZeroRunsAway
  BY <1>1, CallReads
<1>2. CASE Input
  BY <1>2, ReadBegins
<1>3. CASE Routines
  BY <1>3, PrintReads, WriteReads, DigestedGrows, ReadToAnError, ReadToTheEnd, ReadEnds DEF Routines
<1>4. CASE Exited
  BY <1>4, StutterReads DEF Exited
<1>5. CASE UNCHANGED vars
  BY <1>5, StutterReads
<1> QED
  BY <1>1, <1>2, <1>3, <1>4, <1>5 DEF Next

-----------------------------------------------------------------------------
(* The lines of a terminal.                                                *)

LEMMA UnreadStays ==
    ASSUME script' = script
    PROVE  Unread' = Unread
BY DEF Unread

LEMMA LinesStay ==
    ASSUME LinesInv, script' = script, rest' = rest, chunks' = chunks
    PROVE  LinesInv'
<1>1. Unread' = Unread
  BY UnreadStays
<1>2. LinesFit' <=> LinesFit
  BY <1>1 DEF LinesFit
<1> QED
  BY <1>1, <1>2 DEF LinesInv

\* A read delivers one line.
LEMMA LineDelivered ==
    ASSUME TypeOK, script.terminal, LineFits(rest), NEW n \in Delivered
    PROVE  n = LineSize(rest) /\ SubSeq(rest, n + 1, Len(rest)) = Later(rest)
<1>1. rest \in Seq(Byte) /\ Len(rest) \in Nat
  BY DEF TypeOK
<1>2. PICK l, z, most \in Nat : /\ l = Len(rest) /\ z = StringSpace
                                /\ most = Least(l, z) /\ most = IF l < z THEN l ELSE z
  BY <1>1, SpacesAre DEF Least
<1>3. LineSize(rest) <= z
  BY <1>2 DEF LineFits, LineSize
<1>4. CASE rest = << >>
  <2>1. n = 0
    BY <1>4 DEF Delivered
  <2>2. ~HasNewline(rest)
    BY <1>4 DEF HasNewline
  <2>3. LineSize(rest) = 0 /\ Later(rest) = << >>
    BY <1>4, <2>2 DEF LineSize, Later
  <2>4. SubSeq(rest, 0 + 1, Len(rest)) = << >>
    BY <1>4
  <2> QED
    BY <2>1, <2>3, <2>4
<1>5. CASE rest # << >> /\ HasNewline(rest)
  <2>1. PICK f \in Nat : f = FirstNewline(rest) /\ f <= l
    BY <1>1, <1>2, <1>5, NewlineFound
  <2>2. f = LineSize(rest) /\ f <= z /\ f <= most
    BY <1>2, <1>3, <1>5, <2>1 DEF LineSize
  <2>3. n = Least(f, most)
    BY <1>2, <1>5, <2>1 DEF Delivered
  <2>4. n = f
    BY <2>2, <2>3 DEF Least
  <2> QED
    BY <1>5, <2>1, <2>2, <2>4 DEF Later
<1>6. CASE rest # << >> /\ ~HasNewline(rest)
  <2>1. l = LineSize(rest) /\ l <= z /\ l = most
    BY <1>2, <1>3, <1>6 DEF LineSize
  <2>2. n = l
    BY <1>2, <1>6, <2>1 DEF Delivered
  <2>3. SubSeq(rest, l + 1, l) = << >>
    BY <1>1, <1>2
  <2> QED
    BY <1>2, <1>6, <2>1, <2>2, <2>3 DEF Later
<1> QED
  BY <1>4, <1>5, <1>6

LEMMA LinesAreDelivered ==
    ASSUME PrintInv, LinesInv, Input
    PROVE  LinesInv'
<1>1. TypeOK /\ StateInv /\ chunks \in Seq(Seq(Byte))
  BY DEF PrintInv, StateInv
<1>2. PICK n \in Delivered : /\ rest' = SubSeq(rest, n + 1, Len(rest))
                             /\ chunks' = Append(chunks, SubSeq(rest, 1, n))
  BY DEF Input
<1>3. PICK s \in Seq(Byte) : s = SubSeq(rest, 1, n)
  BY <1>1, DeliveredIs
<1>4. PICK m, l \in Nat : m = Len(chunks) /\ l = Len(script.calls) /\ m <= l
  <2>1. Len(chunks) \in Nat /\ Len(script.calls) \in Nat /\ done \in Nat
    BY <1>1, ScriptIs
  <2>2. Len(chunks) <= done /\ done <= Len(script.calls)
    BY <1>1, ScriptIs DEF TypeOK
  <2> QED
    BY <2>1, <2>2
<1>5. /\ Len(chunks') = m + 1 /\ chunks'[m + 1] = s /\ \A k \in 1 .. m : chunks'[k] = chunks[k]
  <2>1. /\ Len(Append(chunks, s)) = Len(chunks) + 1 /\ Append(chunks, s)[Len(chunks) + 1] = s
        /\ \A k \in 1 .. Len(chunks) : Append(chunks, s)[k] = chunks[k]
    BY <1>1, AppendProperties
  <2> QED
    BY <1>2, <1>3, <1>4, <2>1
<1>6. script' = script
  BY DEF Input, Called
<1>7. Unread' = Unread
  BY <1>6, UnreadStays
<1>8. LinesFit' <=> LinesFit
  BY <1>6, <1>7 DEF LinesFit
<1>9. ASSUME LinesFit
      PROVE  /\ rest' = Unread[m + 1]
             /\ \A k \in 1 .. m + 1 : chunks'[k] = SubSeq(Unread[k - 1], 1, LineSize(Unread[k - 1]))
  <2>1. rest = Unread[m] /\ \A k \in 1 .. m : chunks[k] = SubSeq(Unread[k - 1], 1, LineSize(Unread[k - 1]))
    BY <1>4, <1>9 DEF LinesInv
  <2>2. LineFits(rest) /\ script.terminal
    <3>1. m \in 0 .. Len(script.calls)
      BY <1>4
    <3> QED
      BY <1>9, <2>1, <3>1 DEF LinesFit
  <2>3. n = LineSize(rest) /\ rest' = Later(rest)
    BY <1>1, <1>2, <2>2, LineDelivered
  <2>4. Unread[m + 1] = Later(Unread[m])
    BY <1>1, ScriptIs, UnreadSteps
  <2>5. (m + 1) - 1 = m /\ \A k \in 1 .. m + 1 : k \in 1 .. m \/ k = m + 1
    OBVIOUS
  <2>6. \A k \in 1 .. m : chunks'[k] = SubSeq(Unread[k - 1], 1, LineSize(Unread[k - 1]))
    BY <1>5, <2>1
  <2>7. chunks'[m + 1] = SubSeq(Unread[(m + 1) - 1], 1, LineSize(Unread[(m + 1) - 1]))
    BY <1>3, <1>5, <2>1, <2>3, <2>5
  <2> QED
    BY <2>1, <2>3, <2>4, <2>5, <2>6, <2>7
<1> QED
  BY <1>5, <1>7, <1>8, <1>9 DEF LinesInv

LEMMA LinesStep ==
    ASSUME PrintInv, LinesInv, [Next]_vars
    PROVE  LinesInv'
<1>1. CASE Input
  BY <1>1, LinesAreDelivered
<1>2. CASE ~Input
  <2>1. script' = script /\ rest' = rest /\ chunks' = chunks
    BY <1>2 DEF Next, vars, reading, Called, Running, Exited, Routines,
                PrintInt, PrintFloat, FloatZeroCrashes, FloatZeroRunsAway,
                ItoaZero, ItoaSign, ItoaCount, ItoaTerminate, ItoaStore, ItoaEnd,
                FtoaPoint, FtoaDigit, FtoaEnd, Write, AtoiDigit, AtoiError, AtoiStop, AtoiSign
  <2> QED
    BY <2>1, LinesStay
<1> QED
  BY <1>1, <1>2

LEMMA OverlayBytes ==
    ASSUME NEW c \in Seq(Seq(Byte)), NEW k \in Nat, k <= Len(c)
    PROVE  OverlayOf(c, k) \in Seq(Byte) /\ Len(OverlayOf(c, k)) = StringSpace
<1>1. ASSUME NEW i \in 1 .. StringSpace PROVE ByteOf(c, k, i) \in Byte
  <2>1. PICK W : W = Wrote(c, k, i)
    OBVIOUS
  <2>2. CASE W = {}
    BY <2>1, <2>2 DEF ByteOf, Byte
  <2>3. CASE W # {}
    <3>1. W \subseteq 1 .. k
      BY <2>1 DEF Wrote
    <3>2. \E m \in W : \A n \in W : n <= m
      BY <2>3, <3>1, GreatestNumber
    <3>3. PICK m \in W : m = Latest(W)
      BY <3>2 DEF Latest
    <3>4. m \in 1 .. Len(c) /\ Len(c[m]) >= i
      BY <2>1, <3>1 DEF Wrote
    <3>5. PICK s \in Seq(Byte) : s = c[m]
      BY <3>4
    <3>6. s[i] \in Byte
      BY <3>4, <3>5
    <3> QED
      BY <2>1, <2>3, <3>3, <3>5, <3>6 DEF ByteOf
  <2> QED
    BY <2>2, <2>3
<1> QED
  BY <1>1, SpacesAre DEF OverlayOf

\* An empty line has the value 0.
LEMMA NumberOfNothing == Number(<< >>) = 0
<1>1. PICK e \in Seq(Byte) : e = << >>
  <2>1. << >> \in Seq(Byte)
    OBVIOUS
  <2> QED
    BY <2>1
<1>2. PICK b \in Seq(Byte) : b = Body(e) /\ b = e
  BY <1>1, BodyIs
<1>3. \A i \in 1 .. Len(b) : IsDigit(b[i])
  BY <1>1, <1>2
<1>4. Number(e) = Value(b) % Modulus
  BY <1>1, <1>2, <1>3, NumberOfDigits
<1>5. PICK x \in Nat \ {0} : x = Modulus
  BY Scaled
<1>6. 0 % x = 0
  OBVIOUS
<1> QED
  BY <1>1, <1>2, <1>4, <1>5, <1>6, ValueOfNothing

\* What is in the buffer behind the line read is of no account.
LEMMA SameFirstLine ==
    ASSUME NEW u \in Seq(Byte), HasNewline(u), NEW b \in Seq(Byte), FirstNewline(u) <= Len(b),
           \A i \in 1 .. FirstNewline(u) : b[i] = u[i]
    PROVE  FirstLine(b) = FirstLine(u)
<1>1. PICK f \in Nat : f = FirstNewline(u) /\ f \in 1 .. Len(u) /\ u[f] = Newline
  BY NewlineFound
<1>2. PICK n \in Nat : EndsAt(u, n)
  BY FirstLineEnds
<1>3. n < f
  <2>1. StopsAt(u[f])
    BY <1>1 DEF StopsAt
  <2>2. ~(f \in 1 .. n)
    BY <1>2, <2>1 DEF EndsAt
  <2> QED
    BY <1>1, <2>2
<1>4. EndsAt(b, n)
  <2>1. n \in 0 .. Len(b)
    BY <1>1, <1>3
  <2>2. \A i \in 1 .. n : i \in 1 .. f
    BY <1>3
  <2>3. \A i \in 1 .. n : ~StopsAt(b[i])
    BY <1>1, <1>2, <2>2 DEF EndsAt
  <2>4. n < Len(u) /\ n + 1 \in 1 .. f
    BY <1>1, <1>3
  <2>5. StopsAt(b[n + 1])
    BY <1>1, <1>2, <2>4 DEF EndsAt
  <2> QED
    BY <2>1, <2>3, <2>5 DEF EndsAt
<1>5. SubSeq(b, 1, n) = SubSeq(u, 1, n)
  <2>1. n <= Len(u) /\ n <= Len(b) /\ \A i \in 1 .. n : b[i] = u[i]
    BY <1>1, <1>3
  <2> QED
    BY <2>1
<1> QED
  BY <1>2, <1>4, <1>5, FirstLineIs

\* What follows from the invariant for the k-th INPUT.
LEMMA LineStored ==
    ASSUME PrintInv, ReadInv, LinesInv, ~Disturbed, LinesFit, NEW k \in 1 .. Len(inputs)
    PROVE  /\ HasNewline(Unread[k - 1]) => inputs[k] = Number(FirstLine(Unread[k - 1]))
           /\ Unread[k - 1] = << >> => inputs[k] = IF k = 1 THEN 0 ELSE inputs[k - 1]
<1>1. /\ TypeOK /\ StateInv /\ chunks \in Seq(Seq(Byte)) /\ inputs \in Seq(Words)
      /\ \A m \in 1 .. Len(chunks) : Len(chunks[m]) <= StringSpace
  BY DEF PrintInv, TypeOK, StateInv
<1>2. PICK j, m \in Nat : j = k - 1 /\ j + 1 = k /\ m = Len(chunks) /\ k <= m
  <2>1. Len(inputs) \in Nat /\ Len(chunks) \in Nat
    BY <1>1
  <2>2. Len(chunks) = Len(inputs) \/ Len(chunks) = Len(inputs) + 1
    BY <2>1 DEF ReadInv, CountInv
  <2>3. k - 1 \in Nat /\ (k - 1) + 1 = k /\ k <= Len(chunks)
    BY <2>1, <2>2
  <2> QED
    BY <2>1, <2>3
<1>3. PICK u \in Seq(Byte) : u = Unread[j]
  BY <1>1, ScriptIs, UnreadSteps
<1>4. PICK c \in Seq(Byte) : c = chunks[k] /\ c = SubSeq(u, 1, LineSize(u)) /\ Len(c) <= StringSpace
  <2>1. k \in 1 .. Len(chunks)
    BY <1>2
  <2>2. chunks[k] \in Seq(Byte) /\ Len(chunks[k]) <= StringSpace
    BY <1>1, <2>1
  <2>3. chunks[k] = SubSeq(u, 1, LineSize(u))
    BY <1>2, <1>3, <2>1 DEF LinesInv
  <2> QED
    BY <2>2, <2>3
<1>5. \A n \in 1 .. Len(inputs) : inputs[n] = Number(FirstLine(OverlayOf(chunks, n)))
  BY OverlayIs DEF ReadInv, StoredInv
<1>6. PICK b \in Seq(Byte) : b = OverlayOf(chunks, k) /\ Len(b) = StringSpace
  <2>1. k \in Nat
    OBVIOUS
  <2> QED
    BY <1>1, <1>2, <2>1, OverlayBytes
<1>7. \A i \in 1 .. StringSpace : b[i] = IF i <= Len(c) THEN c[i] ELSE OverlayOf(chunks, j)[i]
  <2> SUFFICES ASSUME NEW i \in 1 .. StringSpace
               PROVE  b[i] = IF i <= Len(c) THEN c[i] ELSE OverlayOf(chunks, j)[i]
    OBVIOUS
  <2>1. chunks[j + 1] = c /\ Len(chunks[j + 1]) \in Nat
    <3>1. chunks[j + 1] = c
      <4>1. j + 1 = k
        BY <1>2
      <4>2. chunks[k] = c
        BY <1>4
      <4> QED
        BY <4>1, <4>2
    <3>2. Len(c) \in Nat
      OBVIOUS
    <3> QED
      BY <3>1, <3>2
  <2>2. OverlayOf(chunks, j + 1)[i]
          = IF i <= Len(chunks[j + 1]) THEN chunks[j + 1][i] ELSE OverlayOf(chunks, j)[i]
    BY <2>1, OverlayGrows, Zenon
  <2>3. b = OverlayOf(chunks, j + 1)
    BY <1>2, <1>6
  <2> QED
    BY <2>1, <2>2, <2>3
<1>8. ASSUME HasNewline(u)
      PROVE  inputs[k] = Number(FirstLine(u))
  <2>1. PICK f \in Nat : f = FirstNewline(u) /\ f <= Len(u) /\ f = LineSize(u)
    BY <1>8, NewlineFound DEF LineSize
  <2>2. c = SubSeq(u, 1, f)
    BY <1>4, <2>1
  <2>3. Len(c) = f /\ \A i \in 1 .. f : c[i] = u[i]
    BY <2>1, <2>2
  <2>4. f <= Len(b) /\ \A i \in 1 .. f : b[i] = u[i]
    <3>1. f <= StringSpace
      BY <1>4, <2>3
    <3>2. \A i \in 1 .. f : i \in 1 .. StringSpace /\ i <= Len(c)
      BY <2>3, <3>1, SpacesAre
    <3> QED
      BY <1>6, <1>7, <2>3, <3>1, <3>2
  <2>5. FirstLine(b) = FirstLine(u)
    BY <1>8, <2>1, <2>4, SameFirstLine
  <2> QED
    BY <1>5, <1>6, <2>5
<1>9. ASSUME u = << >>
      PROVE  inputs[k] = IF k = 1 THEN 0 ELSE inputs[k - 1]
  <2>1. ~HasNewline(u)
    BY <1>9 DEF HasNewline
  <2>2. LineSize(u) = 0
    BY <1>9, <2>1 DEF LineSize
  <2>3. Len(c) = 0
    BY <1>4, <1>9, <2>2
  <2>4. \A i \in 1 .. StringSpace : b[i] = OverlayOf(chunks, j)[i]
    BY <1>7, <2>3
  <2>5. CASE k = 1
    <3>1. j = 0
      BY <1>2, <2>5
    <3>2. \A i \in 1 .. StringSpace : b[i] = 0
      BY <2>4, <3>1, OverlayOfNothing
    <3>3. EndsAt(b, 0)
      <4>1. 0 \in 0 .. Len(b) /\ 0 + 1 \in 1 .. StringSpace
        BY <1>6, SpacesAre
      <4>2. \A i \in 1 .. 0 : FALSE
        OBVIOUS
      <4> QED
        BY <3>2, <4>1, <4>2 DEF EndsAt, StopsAt
    <3>4. FirstLine(b) = SubSeq(b, 1, 0)
      BY <3>3, FirstLineIs
    <3>5. SubSeq(b, 1, 0) = << >>
      OBVIOUS
    <3> QED
      BY <1>5, <1>6, <2>5, <3>4, <3>5, NumberOfNothing
  <2>6. CASE k # 1
    <3>1. j \in 1 .. Len(inputs)
      BY <1>2, <2>6
    <3>2. b = OverlayOf(chunks, j)
      <4>1. OverlayOf(chunks, j) \in Seq(Byte) /\ Len(OverlayOf(chunks, j)) = StringSpace
        BY <1>1, <1>2, OverlayBytes
      <4>2. \A i \in 1 .. Len(b) : b[i] = OverlayOf(chunks, j)[i]
        BY <1>6, <2>4
      <4> QED
        BY <1>6, <4>1, <4>2, SeqEqual
    <3>3. inputs[k] = inputs[j]
      BY <1>5, <1>6, <3>1, <3>2
    <3> QED
      BY <1>2, <2>6, <3>3
  <2> QED
    BY <2>5, <2>6
<1> QED
  BY <1>2, <1>3, <1>8, <1>9

\* The buffer holds what the reads have left of each other, atoi has read a
\* prefix of its first line, and on a terminal each read delivers one line.
THEOREM ReadsAreRight == Spec => []RuntimeInv
<1>1. Init => RuntimeInv
  BY InitKept, InitReads DEF RuntimeInv
<1>2. RuntimeInv /\ [Next]_vars => RuntimeInv'
  BY PrintStep, ReadStep, LinesStep DEF RuntimeInv
<1> QED
  BY <1>1, <1>2, PTL DEF Spec

\* INPUT stores the value of the first line in the buffer, unless a number
\* printed has run into it; on a terminal that is the next line of the file,
\* and after the end of the file what the INPUT before it got.
THEOREM InputsAreRead == Spec => []InputsRead
<1>1. RuntimeInv => InputsRead
  <2> SUFFICES ASSUME RuntimeInv
               PROVE  InputsRead
    OBVIOUS
  <2>1. TypeOK /\ PrintInv /\ ReadInv /\ LinesInv /\ inputs \in Seq(Words)
    BY DEF RuntimeInv, PrintInv, TypeOK
  <2>2. DOMAIN inputs = 1 .. Len(inputs)
    BY <2>1
  <2>3. ASSUME ~Disturbed
        PROVE  \A k \in DOMAIN inputs : inputs[k] = Number(FirstLine(Overlay(k)))
    BY <2>1, <2>2, <2>3 DEF ReadInv, StoredInv
  <2>4. ASSUME ~Disturbed, LinesFit
        PROVE  LinesAreRead
    BY <2>1, <2>2, <2>4, LineStored DEF LinesAreRead
  <2> QED
    BY <2>1, <2>3, <2>4 DEF InputsRead, LinesFit
<1> QED
  BY <1>1, ReadsAreRight, PTL

====
