------------------------------ MODULE Induction ------------------------------
(* Induction over the naturals in the form the proofs of this project use. *)
EXTENDS Naturals, WellFoundedInduction, TLAPS

\* Every set of numbers has a least one, unless it is empty.
LEMMA LeastNumber ==
    ASSUME NEW T \in SUBSET Nat, T # {}
    PROVE  \E m \in T : \A k \in T : m <= k
<1>1. PICK R : R = OpToRel(<, Nat)
  OBVIOUS
<1>2. IsWellFoundedOn(R, Nat)
  BY <1>1, NatLessThanWellFounded
<1>3. PICK m \in T : \A k \in T : ~(<<k, m>> \in R)
  BY <1>2, WFMin, Zenon
<1>4. \A k, l \in Nat : k < l => <<k, l>> \in R
  BY <1>1 DEF OpToRel
<1>5. \A k \in T : ~(k < m)
  BY <1>3, <1>4
<1>6. \A k \in T : m <= k
  BY <1>5
<1> QED
  BY <1>6

\* Induction, for a set of numbers.
LEMMA InductiveSet ==
    ASSUME NEW N \in SUBSET Nat, 0 \in N, \A k \in N : k + 1 \in N
    PROVE  N = Nat
<1> SUFFICES ASSUME Nat \ N # {} PROVE FALSE
  OBVIOUS
<1>1. PICK T : T = Nat \ N
  OBVIOUS
<1>2. T \in SUBSET Nat /\ T # {}
  BY <1>1
<1>3. PICK m \in T : \A k \in T : m <= k
  BY <1>2, LeastNumber, Zenon
<1>4. m # 0 /\ m - 1 \in Nat /\ m - 1 \notin T
  BY <1>1, <1>3
<1>5. (m - 1) + 1 \in N
  BY <1>1, <1>4
<1> QED
  BY <1>1, <1>3, <1>4, <1>5

\* How a function may go on: from its last argument and value.
Steps(T) == [Nat \X T -> T]

\* A function on the numbers up to m that starts with x and goes on by step.
Approach(g, T, x, step, m) ==
    /\ g \in [0 .. m -> T] /\ g[0] = x
    /\ \A k \in 0 .. m : k + 1 <= m => g[k + 1] = step[<<k, g[k]>>]

LEMMA ApproachesAgree ==
    ASSUME NEW T, NEW x, NEW step, NEW m \in Nat, NEW n \in Nat, m <= n,
           NEW g, NEW h, Approach(g, T, x, step, m), Approach(h, T, x, step, n)
    PROVE  g[m] = h[m]
<1> DEFINE N == { k \in Nat : k <= m => g[k] = h[k] }
<1>1. 0 \in N
  BY DEF Approach
<1>2. ASSUME NEW k \in N PROVE k + 1 \in N
  <2> SUFFICES ASSUME k + 1 <= m PROVE g[k + 1] = h[k + 1]
    OBVIOUS
  <2>1. g[k] = h[k] /\ k \in 0 .. m /\ k \in 0 .. n /\ k + 1 <= n
    OBVIOUS
  <2>2. g[k + 1] = step[<<k, g[k]>>] /\ h[k + 1] = step[<<k, h[k]>>]
    BY <2>1, Zenon DEF Approach
  <2> QED
    BY <2>1, <2>2
<1>3. N \in SUBSET Nat
  OBVIOUS
<1> HIDE DEF N
<1>4. N = Nat
  BY <1>1, <1>2, <1>3, InductiveSet, Zenon
<1> QED
  BY <1>4 DEF N

LEMMA ApproachExists ==
    ASSUME NEW T, NEW x \in T, NEW step \in Steps(T), NEW n \in Nat
    PROVE  \E g : Approach(g, T, x, step, n)
<1> DEFINE N == { m \in Nat : \E g : Approach(g, T, x, step, m) }
<1>1. 0 \in N
  <2>1. PICK g : g = [k \in 0 .. 0 |-> x]
    OBVIOUS
  <2>2. Approach(g, T, x, step, 0)
    BY <2>1 DEF Approach
  <2> QED
    BY <2>2
<1>2. ASSUME NEW m \in N PROVE m + 1 \in N
  <2>1. PICK g : Approach(g, T, x, step, m)
    OBVIOUS
  <2>2. g \in [0 .. m -> T] /\ g[0] = x /\ m \in 0 .. m /\ g[m] \in T
    BY <2>1 DEF Approach
  <2>3. step[<<m, g[m]>>] \in T
    BY <2>2 DEF Steps
  <2>4. PICK h : h = [k \in 0 .. m + 1 |-> IF k <= m THEN g[k] ELSE step[<<m, g[m]>>]]
    OBVIOUS
  <2>5. h \in [0 .. m + 1 -> T] /\ h[0] = x
    BY <2>2, <2>3, <2>4
  <2>6. ASSUME NEW k \in 0 .. m + 1, k + 1 <= m + 1
        PROVE  h[k + 1] = step[<<k, h[k]>>]
    <3>1. CASE k = m
      BY <2>2, <2>4, <3>1
    <3>2. CASE k # m
      <4>1. k \in 0 .. m /\ k + 1 <= m /\ k + 1 \in 0 .. m
        BY <2>6, <3>2
      <4>2. g[k + 1] = step[<<k, g[k]>>]
        BY <2>1, <4>1, Zenon DEF Approach
      <4>3. h[k + 1] = g[k + 1] /\ h[k] = g[k]
        BY <2>4, <4>1
      <4> QED
        BY <4>2, <4>3
    <3> QED
      BY <3>1, <3>2
  <2>7. Approach(h, T, x, step, m + 1)
    BY <2>5, <2>6 DEF Approach
  <2> QED
    BY <2>7
<1>3. N \in SUBSET Nat
  OBVIOUS
<1> HIDE DEF N
<1>4. N = Nat
  BY <1>1, <1>2, <1>3, InductiveSet, Zenon
<1> QED
  BY <1>4 DEF N

\* There is a function that starts with x and goes on by step.
LEMMA RecursiveFunction ==
    ASSUME NEW T, NEW x \in T, NEW step \in Steps(T)
    PROVE  \E f \in [Nat -> T] : f[0] = x /\ \A n \in Nat : f[n + 1] = step[<<n, f[n]>>]
<1> DEFINE G(n) == CHOOSE g : Approach(g, T, x, step, n)
<1>1. \A n \in Nat : Approach(G(n), T, x, step, n)
  BY ApproachExists, Zenon
<1> HIDE DEF G
<1>2. PICK f : f = [n \in Nat |-> G(n)[n]]
  OBVIOUS
<1>3. ASSUME NEW n \in Nat PROVE f[n] \in T /\ f[n + 1] = step[<<n, f[n]>>]
  <2>1. Approach(G(n), T, x, step, n) /\ Approach(G(n + 1), T, x, step, n + 1)
    BY <1>1
  <2>2. n + 1 \in Nat /\ n <= n + 1 /\ n \in 0 .. n /\ n \in 0 .. n + 1 /\ n + 1 <= n + 1
    OBVIOUS
  <2>3. G(n)[n] = G(n + 1)[n]
    <3>0. PICK g, h : g = G(n) /\ h = G(n + 1)
      OBVIOUS
    <3>1. PICK l \in Nat : g = G(n) /\ h = G(n + 1) /\ l = n + 1 /\ n <= l
      BY <2>2, <3>0
    <3>2. Approach(g, T, x, step, n) /\ Approach(h, T, x, step, l)
      BY <2>1, <3>1
    <3>3. \A a, b \in Nat : a <= b /\ Approach(g, T, x, step, a) /\ Approach(h, T, x, step, b) => g[a] = h[a]
      BY ApproachesAgree
    <3>4. g[n] = h[n]
      BY <3>1, <3>2, <3>3
    <3> QED
      BY <3>1, <3>4
  <2>4. G(n + 1)[n + 1] = step[<<n, G(n + 1)[n]>>]
    BY <2>1, <2>2, Zenon DEF Approach
  <2>5. G(n)[n] \in T
    BY <2>1, <2>2 DEF Approach
  <2>6. f[n] = G(n)[n] /\ f[n + 1] = G(n + 1)[n + 1]
    BY <1>2, <2>2
  <2> QED
    BY <2>3, <2>4, <2>5, <2>6
<1>4. f[0] = x
  <2>1. Approach(G(0), T, x, step, 0)
    BY <1>1
  <2> QED
    BY <1>2, <2>1 DEF Approach
<1>5. f \in [Nat -> T]
  BY <1>2, <1>3
<1> QED
  BY <1>3, <1>4, <1>5
=============================================================================
