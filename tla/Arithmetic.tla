----------------------------- MODULE Arithmetic -----------------------------
(***************************************************************************)
(* Facts about the integers that the proofs of several components need:    *)
(* induction, and quotients and remainders of products.                    *)
(***************************************************************************)
EXTENDS Integers, WellFoundedInduction, TLAPS

-----------------------------------------------------------------------------
(* Induction over the naturals, for a set instead of a predicate.          *)

\* A set of naturals that is not empty has a least member.
LEMMA Least ==
  ASSUME NEW S, S \subseteq Nat, S # {}
  PROVE  \E n \in S : \A m \in S : n <= m
<1>1. IsWellFoundedOn(OpToRel(<, Nat), Nat)
  BY NatLessThanWellFounded
<1>2. PICK n \in S : \A m \in S : ~ (<<m, n>> \in OpToRel(<, Nat))
  BY <1>1, WFMin
<1>3. ASSUME NEW m \in S PROVE n <= m
  <2>1. m \in Nat /\ n \in Nat
    OBVIOUS
  <2>2. <<m, n>> \notin OpToRel(<, Nat)
    BY <1>2
  <2>3. ~ (m < n)
    BY <2>1, <2>2 DEF OpToRel
  <2> QED
    BY <2>1, <2>3
<1> QED
  BY <1>3

\* A set that has 0 and the successor of each natural it has, has them all.
LEMMA Induction ==
  ASSUME NEW S, 0 \in S, \A n \in Nat : n \in S => n + 1 \in S
  PROVE  Nat \subseteq S
<1> SUFFICES ASSUME Nat \ S # {} PROVE FALSE
  OBVIOUS
<1>1. PICK n \in Nat \ S : \A m \in Nat \ S : n <= m
  BY Least
<1>2. n - 1 \in Nat /\ ~(n <= n - 1) /\ (n - 1) + 1 = n
  BY <1>1
<1>3. n - 1 \in S
  BY <1>1, <1>2
<1> QED
  BY <1>1, <1>2, <1>3

\* A first value and a step from each value to the next are a sequence of values.
LEMMA Recursion ==
  ASSUME NEW V
  PROVE  \A first \in V, step \in [Nat -> [V -> V]] :
           \E f \in [Nat -> V] : f[0] = first /\ \A n \in Nat : f[n + 1] = step[n][f[n]]
<1> SUFFICES ASSUME NEW first \in V, NEW step \in [Nat -> [V -> V]]
             PROVE  \E f \in [Nat -> V] :
                      f[0] = first /\ \A n \in Nat : f[n + 1] = step[n][f[n]]
  OBVIOUS
<1> DEFINE Upto(f, n) == f[0] = first /\ \A m \in 0..(n - 1) : f[m + 1] = step[m][f[m]]
           S == {n \in Nat : \E f \in [Nat -> V] : Upto(f, n)}
<1>1. 0 \in S
  <2>1. [m \in Nat |-> first] \in [Nat -> V] /\ Upto([m \in Nat |-> first], 0)
    OBVIOUS
  <2> QED
    BY <2>1
<1>2. ASSUME NEW n \in Nat, n \in S PROVE n + 1 \in S
  <2>1. PICK f \in [Nat -> V] : Upto(f, n)
    BY <1>2
  <2> DEFINE g == [m \in Nat |-> IF m = n + 1 THEN step[n][f[n]] ELSE f[m]]
  <2>2. g \in [Nat -> V] /\ g[0] = first /\ g[n + 1] = step[n][f[n]]
        /\ \A m \in 0..n : g[m] = f[m]
    BY <2>1
  <2> HIDE DEF g
  <2>3. ASSUME NEW m \in 0..((n + 1) - 1) PROVE g[m + 1] = step[m][g[m]]
    <3>1. CASE m = n
      BY <2>2, <3>1
    <3>2. CASE m # n
      <4>1. m \in 0..(n - 1) /\ m + 1 \in 0..n /\ m \in 0..n
        BY <3>2
      <4> QED
        BY <2>1, <2>2, <4>1
    <3> QED
      BY <3>1, <3>2
  <2>4. Upto(g, n + 1)
    BY <2>2, <2>3
  <2> QED
    BY <2>2, <2>4
<1> DEFINE G(n) == CHOOSE f \in [Nat -> V] : Upto(f, n)
           F == [n \in Nat |-> G(n)[n]]
<1>3. \A n \in Nat : G(n) \in [Nat -> V] /\ Upto(G(n), n)
  <2> HIDE DEF S, Upto
  <2>1. Nat \subseteq S
    BY <1>1, <1>2, Induction
  <2> QED
    BY <2>1 DEF S
<1> HIDE DEF G, S
<1>4. ASSUME NEW n \in Nat, NEW l \in Nat, n <= l PROVE G(n)[n] = G(l)[n]
  <2> DEFINE T == {k \in Nat : k <= n => G(n)[k] = G(l)[k]}
  <2>1. 0 \in T
    BY <1>3
  <2>2. ASSUME NEW k \in Nat, k \in T PROVE k + 1 \in T
    <3> SUFFICES ASSUME k + 1 <= n PROVE G(n)[k + 1] = G(l)[k + 1]
      OBVIOUS
    <3>1. k \in 0..(n - 1) /\ k \in 0..(l - 1) /\ G(n)[k] = G(l)[k]
      BY <1>4, <2>2
    <3> QED
      BY <1>3, <3>1
  <2> HIDE DEF T
  <2>3. Nat \subseteq T
    BY <2>1, <2>2, Induction
  <2> QED
    BY <2>3 DEF T
<1>5. F \in [Nat -> V] /\ F[0] = first
  BY <1>3
<1>6. ASSUME NEW n \in Nat PROVE F[n + 1] = step[n][F[n]]
  <2>1. G(n + 1)[n + 1] = step[n][G(n + 1)[n]]
    <3>1. n + 1 \in Nat /\ n \in 0..((n + 1) - 1)
      OBVIOUS
    <3> QED
      BY <1>3, <3>1
  <2>2. G(n)[n] = G(n + 1)[n]
    BY <1>4
  <2> QED
    BY <2>1, <2>2
<1> QED
  BY <1>5, <1>6
-----------------------------------------------------------------------------
(* Products, quotients and remainders.                                     *)

\* A multiple of m within m of zero is zero.
LEMMA SmallMultiple ==
  ASSUME NEW m \in Nat \ {0}, NEW x \in Int, -m < x * m, x * m < m
  PROVE  x = 0
<1>1. CASE x >= 1
  <2>1. (x - 1) * m >= 0
    BY <1>1
  <2>2. x * m = (x - 1) * m + m
    OBVIOUS
  <2> QED
    BY <2>1, <2>2
<1>2. CASE x <= -1
  <2>1. (-1 - x) * m >= 0
    BY <1>2
  <2>2. x * m = -((-1 - x) * m) - m
    OBVIOUS
  <2> QED
    BY <2>1, <2>2
<1> QED
  BY <1>1, <1>2

LEMMA QuotientAndRemainder ==
  ASSUME NEW n \in Int, NEW m \in Nat \ {0}
  PROVE  /\ n \div m \in Int /\ n % m \in 0..(m - 1)
         /\ n = (n \div m) * m + (n % m)
OBVIOUS

LEMMA OnlyQuotient ==
  ASSUME NEW m \in Nat \ {0}, NEW k \in Int, NEW r \in 0..(m - 1)
  PROVE  (k * m + r) \div m = k /\ (k * m + r) % m = r
<1> DEFINE n == k * m + r
           q == n \div m
           s == n % m
<1>1. n \in Int
  OBVIOUS
<1>2. q \in Int /\ s \in 0..(m - 1) /\ n = q * m + s
  BY <1>1, QuotientAndRemainder
<1>3. (k - q) * m = s - r
  <2>1. k * m + r = q * m + s
    BY <1>2
  <2> HIDE DEF q, s
  <2>2. (k - q) * m = k * m - q * m
    BY <1>2
  <2>3. k * m \in Int /\ q * m \in Int
    BY <1>2
  <2> QED
    BY <1>2, <2>1, <2>2, <2>3
<1>4. k - q = 0
  <2>1. k - q \in Int /\ -m < (k - q) * m /\ (k - q) * m < m
    BY <1>2, <1>3
  <2> QED
    BY <2>1, SmallMultiple
<1> HIDE DEF q, s
<1> QED
  BY <1>2, <1>3, <1>4 DEF q, s

\* Remainders of sums, and of a number in two halves.
LEMMA RemainderOfSum ==
  ASSUME NEW m \in Nat \ {0}, NEW x \in Int, NEW y \in Int
  PROVE  ((x % m) + y) % m = (x + y) % m
<1> DEFINE q == x \div m
           r == x % m
           p == (r + y) \div m
           s == (r + y) % m
<1>1. q \in Int /\ r \in Int /\ x = q * m + r
  BY QuotientAndRemainder
<1> HIDE DEF q, r
<1>2. p \in Int /\ s \in 0..(m - 1) /\ r + y = p * m + s
  <2>1. r + y \in Int
    BY <1>1
  <2> QED
    BY ONLY <2>1, QuotientAndRemainder, m \in Nat \ {0}
<1> HIDE DEF p, s
<1>3. x + y = (q + p) * m + s
  <2>1. (q + p) * m = q * m + p * m /\ q * m \in Int /\ p * m \in Int
    BY <1>1, <1>2
  <2> QED
    BY <1>1, <1>2, <2>1
<1>4. ((q + p) * m + s) % m = s
  BY <1>1, <1>2, OnlyQuotient
<1> QED
  BY <1>3, <1>4 DEF s, r

LEMMA Halves ==
  ASSUME NEW h \in Nat \ {0}, NEW l \in Nat \ {0}, NEW n \in Nat
  PROVE  (((n \div l) % h) * l) + (n % l) = n % (h * l)
<1> DEFINE q == n \div l
           r == n % l
           p == q \div h
           s == q % h
<1>1. q \in Int /\ r \in 0..(l - 1) /\ n = q * l + r
  BY QuotientAndRemainder
<1> HIDE DEF q, r
<1>2. p \in Int /\ s \in 0..(h - 1) /\ q = p * h + s
  BY <1>1, QuotientAndRemainder
<1> HIDE DEF p, s
<1>3. n = p * (h * l) + (s * l + r)
  <2>1. (p * h + s) * l = p * (h * l) + s * l
    BY <1>1, <1>2
  <2>2. p * (h * l) \in Int /\ s * l \in Int
    BY <1>2
  <2> QED
    BY <1>1, <1>2, <2>1, <2>2
<1>4. s * l + r \in 0..(h * l - 1) /\ h * l \in Nat \ {0}
  <2>1. s * l >= 0 /\ s * l \in Int
    BY <1>2
  <2>2. ((h - 1) - s) * l >= 0
    BY <1>2
  <2>3. ((h - 1) - s) * l = h * l - l - s * l
    BY <1>2
  <2>4. h * l \in Nat \ {0}
    OBVIOUS
  <2> QED
    BY <1>1, <1>2, <2>1, <2>2, <2>3, <2>4
<1>5. (p * (h * l) + (s * l + r)) % (h * l) = s * l + r
  BY <1>2, <1>4, OnlyQuotient
<1> QED
  BY <1>3, <1>5 DEF s, r, q
=============================================================================
