---------------------------- MODULE DividerProofs ----------------------------
(***************************************************************************)
(* The divider computes what the M extension prescribes and does what      *)
(* DivUnit promises the pipeline, for every width of the operands.         *)
(***************************************************************************)
EXTENDS Divider, Arithmetic

-----------------------------------------------------------------------------
(* The powers of two: the recursive function Pow2 has the values that its  *)
(* equation gives it.                                                      *)

\* g doubles up to n.
Doubling(g, n) == g[0] = 1 /\ \A m \in 1..n : g[m] = 2 * g[m - 1]

LEMMA DoublingExists == \A n \in Nat : \E g \in [Nat -> Nat] : Doubling(g, n)
<1> DEFINE S == {n \in Nat : \E g \in [Nat -> Nat] : Doubling(g, n)}
<1>1. 0 \in S
  <2>1. [i \in Nat |-> 1] \in [Nat -> Nat] /\ Doubling([i \in Nat |-> 1], 0)
    BY DEF Doubling
  <2> QED
    BY <2>1
<1>2. ASSUME NEW n \in Nat, n \in S PROVE n + 1 \in S
  <2>1. PICK g \in [Nat -> Nat] : Doubling(g, n)
    BY <1>2
  <2> DEFINE h == [i \in Nat |-> IF i = n + 1 THEN 2 * g[n] ELSE g[i]]
  <2>2. h \in [Nat -> Nat]
    OBVIOUS
  <2>3. h[0] = 1
    BY <2>1 DEF Doubling
  <2>4. ASSUME NEW m \in 1..(n + 1) PROVE h[m] = 2 * h[m - 1]
    <3>1. CASE m = n + 1
      BY <3>1
    <3>2. CASE m \in 1..n
      BY <2>1, <3>2 DEF Doubling
    <3> QED
      BY <3>1, <3>2
  <2>5. Doubling(h, n + 1)
    BY <2>3, <2>4 DEF Doubling
  <2> QED
    BY <2>2, <2>5
<1> HIDE DEF S
<1>3. Nat \subseteq S
  BY <1>1, <1>2, Induction
<1> QED
  BY <1>3 DEF S

LEMMA DoublingUnique ==
  ASSUME NEW g, NEW h, NEW k \in Nat, NEW l \in Nat, Doubling(g, k), Doubling(h, l)
  PROVE  \A n \in Nat : n <= k /\ n <= l => g[n] = h[n]
<1> DEFINE S == {n \in Nat : n <= k /\ n <= l => g[n] = h[n]}
<1>1. 0 \in S
  BY DEF Doubling
<1>2. ASSUME NEW n \in Nat, n \in S PROVE n + 1 \in S
  <2> SUFFICES ASSUME n + 1 <= k, n + 1 <= l PROVE g[n + 1] = h[n + 1]
    OBVIOUS
  <2>1. g[n] = h[n]
    BY <1>2
  <2>2. n + 1 \in 1..k /\ n + 1 \in 1..l /\ (n + 1) - 1 = n
    OBVIOUS
  <2>3. g[n + 1] = 2 * g[(n + 1) - 1] /\ h[n + 1] = 2 * h[(n + 1) - 1]
    BY <2>2 DEF Doubling
  <2> QED
    BY <2>1, <2>2, <2>3
<1> HIDE DEF S
<1>3. Nat \subseteq S
  BY <1>1, <1>2, Induction
<1> QED
  BY <1>3 DEF S

LEMMA Pow2Def == Pow2 = [n \in Nat |-> IF n = 0 THEN 1 ELSE 2 * Pow2[n - 1]]
<1> DEFINE D(f) == [n \in Nat |-> IF n = 0 THEN 1 ELSE 2 * f[n - 1]]
           G(n) == CHOOSE g \in [Nat -> Nat] : Doubling(g, n)
           F == [n \in Nat |-> G(n)[n]]
<1>1. ASSUME NEW n \in Nat PROVE G(n) \in [Nat -> Nat] /\ Doubling(G(n), n)
  BY DoublingExists
<1> HIDE DEF G
<1>2. ASSUME NEW n \in Nat PROVE F[n] = IF n = 0 THEN 1 ELSE 2 * F[n - 1]
  <2>1. CASE n = 0
    BY <1>1, <2>1 DEF Doubling
  <2>2. CASE n # 0
    <3>1. n - 1 \in Nat /\ n \in 1..n /\ n - 1 <= n /\ n - 1 <= n - 1
      BY <2>2
    <3>2. G(n)[n] = 2 * G(n)[n - 1]
      BY <1>1, <3>1 DEF Doubling
    <3>3. G(n)[n - 1] = G(n - 1)[n - 1]
      BY <1>1, <3>1, DoublingUnique
    <3> QED
      BY <2>2, <3>1, <3>2, <3>3
  <2> QED
    BY <2>1, <2>2
<1>3. F = D(F)
  BY <1>2
<1>4. \E f : f = D(f)
  BY <1>3
<1> HIDE DEF F
<1>5. Pow2 = CHOOSE f : f = D(f)
  BY DEF Pow2
<1> QED
  BY <1>4, <1>5

\* What the steps need of the powers.
LEMMA Pow2Facts ==
  /\ Pow2[0] = 1
  /\ \A n \in Nat : Pow2[n + 1] = 2 * Pow2[n] /\ Pow2[n] \in Nat \ {0}
<1>1. Pow2[0] = 1
  BY Pow2Def
<1>2. \A n \in Nat : Pow2[n + 1] = 2 * Pow2[n]
  BY Pow2Def
<1> DEFINE S == {n \in Nat : Pow2[n] \in Nat \ {0}}
<1>3. 0 \in S
  BY <1>1
<1>4. ASSUME NEW n \in Nat, n \in S PROVE n + 1 \in S
  BY <1>2, <1>4
<1> HIDE DEF S
<1>5. Nat \subseteq S
  BY <1>3, <1>4, Induction
<1> QED
  BY <1>1, <1>2, <1>5 DEF S

\* Different bits have different weights: each is more than the sum of those below.
LEMMA Pow2Grows ==
  ASSUME NEW n \in Nat, NEW m \in Nat, n < m
  PROVE  Pow2[n] < Pow2[m]
<1> DEFINE S == {k \in Nat : Pow2[n] < Pow2[n + 1 + k]}
<1>1. 0 \in S
  BY Pow2Facts
<1>2. ASSUME NEW k \in Nat, k \in S PROVE k + 1 \in S
  <2>1. n + 1 + k \in Nat /\ n + 1 + (k + 1) = (n + 1 + k) + 1
    OBVIOUS
  <2>2. Pow2[n + 1 + (k + 1)] = 2 * Pow2[n + 1 + k] /\ Pow2[n + 1 + k] \in Nat
    BY <2>1, Pow2Facts
  <2> QED
    BY <1>2, <2>1, <2>2, Pow2Facts
<1> HIDE DEF S
<1>3. Nat \subseteq S
  BY <1>1, <1>2, Induction
<1>4. m - n - 1 \in Nat /\ n + 1 + (m - n - 1) = m
  OBVIOUS
<1> QED
  BY <1>3, <1>4 DEF S

\* The widths of the unit.
LEMMA Widths ==
  /\ Width \in Nat \ {0} /\ Width - 1 \in Nat
  /\ Half \in Nat \ {0} /\ Base \in Nat \ {0} /\ Base = 2 * Half
BY DividerAssumption, Pow2Facts DEF Half, Base
-----------------------------------------------------------------------------
(* The reference, on the magnitudes that the unit divides.                 *)

\* At most one quotient is rounded towards zero.
LEMMA RoundedUnique ==
  ASSUME NEW x \in Int, NEW y \in Int \ {0}, NEW q \in Int, NEW p \in Int,
         Size(x - q * y) < Size(y), x - q * y # 0 => (x - q * y < 0) = (x < 0),
         Size(x - p * y) < Size(y), x - p * y # 0 => (x - p * y < 0) = (x < 0)
  PROVE  q = p
<1> DEFINE r == x - q * y
           t == x - p * y
<1>1. r \in Int /\ t \in Int /\ (q - p) * y = t - r /\ (q - p) * (-y) = r - t
  OBVIOUS
<1>2. Size(r) < Size(y) /\ Size(t) < Size(y)
  OBVIOUS
<1>3. (r >= 0 /\ t >= 0) \/ (r <= 0 /\ t <= 0)
  OBVIOUS
<1> HIDE DEF r, t
<1>4. CASE y > 0
  <2>1. -y < t - r /\ t - r < y
    BY <1>1, <1>2, <1>3, <1>4 DEF Size
  <2>2. q - p = 0
    BY <1>1, <1>4, <2>1, SmallMultiple
  <2> QED
    BY <2>2
<1>5. CASE y < 0
  <2>1. -(-y) < r - t /\ r - t < -y /\ -y \in Nat \ {0} /\ q - p \in Int
    BY <1>1, <1>2, <1>3, <1>5 DEF Size
  <2>2. q - p = 0
    BY <1>1, <2>1, SmallMultiple
  <2> QED
    BY <2>2
<1> QED
  BY <1>4, <1>5

LEMMA RoundedIs ==
  ASSUME NEW x \in Int, NEW y \in Int \ {0}, NEW q \in -Base .. Base,
         Size(x - q * y) < Size(y), x - q * y # 0 => (x - q * y < 0) = (x < 0)
  PROVE  Rounded(x, y) = q
<1> DEFINE R(p) == /\ Size(x - p * y) < Size(y)
                   /\ x - p * y # 0 => (x - p * y < 0) = (x < 0)
<1>1. Rounded(x, y) = CHOOSE p \in -Base .. Base : R(p)
  BY DEF Rounded
<1>2. \E p \in -Base .. Base : R(p)
  OBVIOUS
<1>3. Rounded(x, y) \in -Base .. Base /\ R(Rounded(x, y))
  <2> HIDE DEF R
  <2> QED
    BY <1>1, <1>2
<1>4. Rounded(x, y) \in Int /\ q \in Int
  BY <1>3, Widths
<1> QED
  BY <1>3, <1>4, RoundedUnique

\* The quotient of the magnitudes is the rounded one, with the sign of the quotient.
LEMMA RoundedSigns ==
  ASSUME NEW a \in Nat, NEW b \in Nat \ {0}, NEW q \in 0..Base, NEW d \in Nat,
         a = q * b + d, d < b
  PROVE  /\ Rounded(a, b) = q /\ a - q * b = d
         /\ Rounded(-a, b) = -q /\ -a - (-q) * b = -d
         /\ Rounded(a, -b) = -q /\ a - (-q) * (-b) = d
         /\ Rounded(-a, -b) = q /\ -a - q * (-b) = -d
<1>1. q \in Nat /\ -q \in Int /\ q \in -Base .. Base /\ -q \in -Base .. Base
  BY Widths
<1>2. q * b \in Nat
  BY <1>1
<1>3. d # 0 => a > 0
  BY <1>2
<1>4. a - q * b = d /\ -a - (-q) * b = -d /\ a - (-q) * (-b) = d /\ -a - q * (-b) = -d
  BY <1>1
<1>5. /\ Size(d) = d /\ Size(-d) = d /\ Size(b) = b /\ Size(-b) = b
  BY DEF Size
<1>6. Rounded(a, b) = q
  BY <1>1, <1>3, <1>4, <1>5, RoundedIs
<1>7. Rounded(-a, b) = -q
  <2>1. -a \in Int /\ b \in Int \ {0} /\ (-d # 0 => (-d < 0) = (-a < 0))
    BY <1>3
  <2> QED
    BY <1>1, <1>4, <1>5, <2>1, RoundedIs
<1>8. Rounded(a, -b) = -q
  <2>1. a \in Int /\ -b \in Int \ {0} /\ (d # 0 => (d < 0) = (a < 0))
    BY <1>3
  <2> QED
    BY <1>1, <1>4, <1>5, <2>1, RoundedIs
<1>9. Rounded(-a, -b) = q
  <2>1. -a \in Int /\ -b \in Int \ {0} /\ (-d # 0 => (-d < 0) = (-a < 0))
    BY <1>3
  <2> QED
    BY <1>1, <1>4, <1>5, <2>1, RoundedIs
<1> QED
  BY <1>4, <1>6, <1>7, <1>8, <1>9

\* Words and their two's complement.
LEMMA WordFacts ==
  ASSUME NEW n \in Operand
  PROVE  /\ n \in Nat /\ n % Base = n /\ (-n) % Base = Negated(n) /\ Negated(n) \in Operand
         /\ n # 0 => Negated(n) = Base - n
         /\ n = 0 => Negated(n) = 0
<1>1. n \in Nat /\ n < Base /\ Base \in Nat \ {0} /\ n \in 0 .. Base - 1
  BY Widths DEF Operand
<1>2. n % Base = n
  <2>1. 0 * Base + n = n
    BY <1>1
  <2> QED
    BY <1>1, <2>1, OnlyQuotient
<1>3. CASE n = 0
  <2>1. 0 % Base = 0 /\ Base % Base = 0
    <3>1. 0 * Base + 0 = 0 /\ 1 * Base + 0 = Base /\ 0 \in 0 .. Base - 1
      BY <1>1
    <3> QED
      BY <1>1, <3>1, OnlyQuotient
  <2> QED
    BY <1>1, <1>3, <2>1 DEF Negated, Operand
<1>4. CASE n # 0
  <2>1. Base - n \in 0 .. Base - 1 /\ 0 * Base + (Base - n) = Base - n
        /\ (-1) * Base + (Base - n) = -n
    BY <1>1, <1>4
  <2>2. (Base - n) % Base = Base - n /\ (-n) % Base = Base - n
    <3> DEFINE m == Base
               r == Base - n
    <3>1. m \in Nat \ {0} /\ r \in 0 .. m - 1
      BY <1>1, <2>1
    <3> HIDE DEF m, r
    <3>2. (0 * m + r) % m = r
      BY <3>1, OnlyQuotient
    <3>3. ((-1) * m + r) % m = r
      BY <3>1, OnlyQuotient
    <3> QED
      BY <2>1, <3>2, <3>3 DEF m, r
  <2> QED
    BY <1>1, <1>2, <1>4, <2>1, <2>2 DEF Negated, Operand
<1> QED
  BY <1>2, <1>3, <1>4

\* The magnitude is the value without its sign.
LEMMA Magnitudes ==
  ASSUME NEW v \in Operand, NEW funct3 \in Functs
  PROVE  /\ Magnitude(funct3, v) \in Operand
         /\ Sign(v) /\ SignedOp(funct3) =>
              Magnitude(funct3, v) # 0 /\ Signed(v) = -Magnitude(funct3, v)
         /\ ~Sign(v) /\ SignedOp(funct3) => Signed(v) = Magnitude(funct3, v)
         /\ ~SignedOp(funct3) => v = Magnitude(funct3, v)
         /\ Magnitude(funct3, v) = 0 <=> v = 0
<1>1. v \in Nat /\ v < Base /\ Base \in Nat \ {0} /\ Half \in Nat \ {0}
  BY Widths DEF Operand
<1>2. CASE Sign(v) /\ SignedOp(funct3)
  <2>1. v # 0
    BY <1>1, <1>2 DEF Sign
  <2>2. Magnitude(funct3, v) = Base - v /\ Negated(v) \in Operand
    BY <1>2, <2>1, WordFacts DEF Magnitude
  <2>3. Signed(v) = v - Base
    BY <1>2 DEF Signed
  <2> QED
    BY <1>1, <1>2, <2>1, <2>2, <2>3, WordFacts DEF Magnitude
<1>3. CASE ~(Sign(v) /\ SignedOp(funct3))
  <2>1. Magnitude(funct3, v) = v
    BY <1>3 DEF Magnitude
  <2> QED
    BY <1>1, <1>3, <2>1 DEF Signed
<1> QED
  BY <1>2, <1>3

\* What the unit makes of the quotient and remainder of the magnitudes.
Latched(funct3, a, b, q, d) ==
  LET magnitude == IF funct3 \in {"div", "divu"} THEN q ELSE d
  IN  IF InvertResult(funct3, a, b) THEN Negated(magnitude) ELSE magnitude

\* The signs of the operands, given back to the result, make it the reference.
LEMMA ResultIsRight ==
  ASSUME NEW funct3 \in Functs, NEW a \in Operand, NEW b \in Operand,
         NEW q \in Operand, NEW d \in Operand,
         Magnitude(funct3, a) = q * Magnitude(funct3, b) + d,
         b = 0 => q = Base - 1,
         b # 0 => d < Magnitude(funct3, b)
  PROVE  Latched(funct3, a, b, q, d) = Reference(funct3, a, b)
<1> DEFINE A == Magnitude(funct3, a)
           B == Magnitude(funct3, b)
           x == IF SignedOp(funct3) THEN Signed(a) ELSE a
           y == IF SignedOp(funct3) THEN Signed(b) ELSE b
           Q == IF b = 0 THEN -1 ELSE Rounded(x, y)
<1>1. /\ A \in Nat /\ B \in Nat /\ q \in Nat /\ d \in Nat /\ a \in Nat /\ b \in Nat
      /\ q \in 0..Base /\ A = q * B + d /\ (B = 0 <=> b = 0) /\ (A = 0 <=> a = 0)
      /\ Base \in Nat \ {0}
  BY Magnitudes, Widths, WordFacts DEF Operand
<1>2. /\ (x = A \/ x = -A) /\ (y = B \/ y = -B)
      /\ SignedOp(funct3) => /\ (Sign(a) => x = -A) /\ (~Sign(a) => x = A)
                             /\ (Sign(b) => y = -B) /\ (~Sign(b) => y = B)
      /\ ~SignedOp(funct3) => x = A /\ y = B
      /\ SignedOp(funct3) /\ Sign(b) => b # 0
  BY Magnitudes
<1>3. Reference(funct3, a, b) = (IF funct3 \in {"div", "divu"} THEN Q ELSE x - Q * y) % Base
  BY DEF Reference
<1>4. /\ q % Base = q /\ (-q) % Base = Negated(q)
      /\ d % Base = d /\ (-d) % Base = Negated(d)
  BY WordFacts
<1> HIDE DEF A, B, x, y
<1>5. CASE b = 0
  <2>1. q = Base - 1 /\ B = 0 /\ y = 0 /\ Q = -1 /\ d = A
    <3>1. q * 0 = 0
      BY <1>1
    <3> QED
      BY <1>1, <1>2, <1>5, <3>1
  <2>2. CASE funct3 \in {"div", "divu"}
    <3>1. ~InvertResult(funct3, a, b)
      BY <1>5, <2>2 DEF InvertResult
    <3>2. (-1) % Base = Base - 1
      <4> DEFINE r == Base - 1
      <4>1. (-1) * Base + r = -1 /\ r \in 0 .. Base - 1
        BY <1>1
      <4> HIDE DEF r
      <4>2. ((-1) * Base + r) % Base = r
        BY <1>1, <4>1, OnlyQuotient
      <4> QED
        BY <4>1, <4>2 DEF r
    <3> QED
      BY <1>3, <2>1, <2>2, <3>1, <3>2 DEF Latched
  <2>3. CASE funct3 \in {"rem", "remu"}
    <3>1. x - Q * y = x
      BY <1>1, <1>2, <2>1
    <3>2. Reference(funct3, a, b) = x % Base
      BY <1>3, <2>3, <3>1
    <3>3. CASE funct3 = "rem" /\ Sign(a)
      <4>1. x = -d /\ InvertResult(funct3, a, b)
        BY <1>2, <2>1, <3>3 DEF InvertResult, SignedOp
      <4> QED
        BY <1>4, <2>3, <3>2, <4>1 DEF Latched
    <3>4. CASE ~(funct3 = "rem" /\ Sign(a))
      <4>1. x = d /\ ~InvertResult(funct3, a, b)
        BY <1>2, <2>1, <2>3, <3>4 DEF InvertResult, SignedOp
      <4> QED
        BY <1>4, <2>3, <3>2, <4>1 DEF Latched
    <3> QED
      BY <3>3, <3>4
  <2> QED
    BY <2>2, <2>3 DEF Functs
<1>6. CASE b # 0
  <2>1. /\ Rounded(A, B) = q /\ A - q * B = d
        /\ Rounded(-A, B) = -q /\ -A - (-q) * B = -d
        /\ Rounded(A, -B) = -q /\ A - (-q) * (-B) = d
        /\ Rounded(-A, -B) = q /\ -A - q * (-B) = -d
    BY <1>1, <1>6, RoundedSigns DEF B
  <2>2. Q = Rounded(x, y)
    BY <1>6
  <2> HIDE DEF Q
  <2>3. CASE funct3 = "divu"
    BY <1>2, <1>3, <1>4, <2>1, <2>2, <2>3 DEF Latched, InvertResult, SignedOp
  <2>4. CASE funct3 = "remu"
    BY <1>2, <1>3, <1>4, <2>1, <2>2, <2>4 DEF Latched, InvertResult, SignedOp
  <2>5. CASE funct3 = "div"
    <3>1. Reference(funct3, a, b) = Q % Base
      BY <1>3, <2>5
    <3>2. Latched(funct3, a, b, q, d) = IF Sign(a) # Sign(b) THEN Negated(q) ELSE q
      BY <1>6, <2>5 DEF Latched, InvertResult
    <3>3. Q = IF Sign(a) # Sign(b) THEN -q ELSE q
      BY <1>2, <2>1, <2>2, <2>5 DEF SignedOp, Sign
    <3> QED
      BY <1>4, <3>1, <3>2, <3>3
  <2>6. CASE funct3 = "rem"
    <3>1. Reference(funct3, a, b) = (x - Q * y) % Base
      BY <1>3, <2>6
    <3>2. Latched(funct3, a, b, q, d) = IF Sign(a) THEN Negated(d) ELSE d
      BY <2>6 DEF Latched, InvertResult
    <3>3. x - Q * y = IF Sign(a) THEN -d ELSE d
      BY <1>2, <2>1, <2>2, <2>6 DEF SignedOp, Sign
    <3> QED
      BY <1>4, <3>1, <3>2, <3>3
  <2> QED
    BY <2>3, <2>4, <2>5, <2>6 DEF Functs
<1> QED
  BY <1>5, <1>6

\* There is a result for all operands.
LEMMA ReferenceType ==
  ASSUME NEW funct3 \in Functs, NEW a \in Operand, NEW b \in Operand
  PROVE  Reference(funct3, a, b) \in Operand
<1> DEFINE A == Magnitude(funct3, a)
           B == Magnitude(funct3, b)
<1>1. A \in Operand /\ B \in Operand /\ (B = 0 <=> b = 0)
  BY Magnitudes
<1> HIDE DEF A, B
<1>2. \E q, d \in Operand : A = q * B + d /\ (b = 0 => q = Base - 1) /\ (b # 0 => d < B)
  <2>1. CASE b = 0
    <3>1. Base - 1 \in Operand /\ A = (Base - 1) * B + A
      BY <1>1, <2>1, Widths DEF Operand
    <3> QED
      BY <1>1, <2>1, <3>1
  <2>2. CASE b # 0
    <3> DEFINE q == A \div B
               d == A % B
    <3>1. A \in Nat /\ B \in Nat \ {0} /\ A < Base /\ B < Base
      BY <1>1, <2>2, Widths DEF Operand
    <3>2. q \in Int /\ d \in 0..(B - 1) /\ A = q * B + d
      <4>1. A \in Int /\ B \in Nat \ {0}
        BY <3>1
      <4> QED
        BY ONLY <4>1, QuotientAndRemainder
    <3> HIDE DEF q, d
    <3>3. q >= 0
      <4> SUFFICES ASSUME q <= -1 PROVE FALSE
        BY <3>2
      <4>1. (-1 - q) * B >= 0 /\ q * B = -((-1 - q) * B) - B
        BY <3>1, <3>2
      <4> QED
        BY <3>1, <3>2, <4>1
    <3>4. q <= A
      <4>1. q * (B - 1) >= 0 /\ q * B = q * (B - 1) + q
        BY <3>1, <3>2, <3>3
      <4> QED
        BY <3>1, <3>2, <4>1
    <3>5. q \in Operand /\ d \in Operand
      BY <3>1, <3>2, <3>3, <3>4, Widths DEF Operand
    <3>6. A = q * B + d /\ (b = 0 => q = Base - 1) /\ (b # 0 => d < B)
      BY <2>2, <3>1, <3>2
    <3> QED
      BY <3>5, <3>6, Zenon
  <2> QED
    BY <2>1, <2>2
<1>3. PICK q, d \in Operand : A = q * B + d /\ (b = 0 => q = Base - 1) /\ (b # 0 => d < B)
  BY <1>2
<1>4. Latched(funct3, a, b, q, d) = Reference(funct3, a, b)
  BY <1>3, ResultIsRight DEF A, B
<1>5. Latched(funct3, a, b, q, d) \in Operand
  BY WordFacts DEF Latched
<1> QED
  BY <1>4, <1>5
-----------------------------------------------------------------------------
(* The invariant.                                                          *)

\* The edge detector stays high while a division is under way or answered, so that
\* it starts none twice; a start finds a division that waits for it.
Detector ==
  /\ div_busy => e.div_instr /\ ~e.done /\ first_reg /\ second_reg
  /\ e.done => e.div_instr /\ first_reg /\ second_reg
  /\ first_reg /\ ~second_reg => e.div_instr /\ ~e.done

\* The weight of the next bit, doubled; the unit when all bits are found.
Unit == IF mask = 0 THEN 1 ELSE 2 * mask

MaskIsBit == \E k \in 0..Width : mask = Pow2[k] \div 2

\* What the steps so far have made of the operands of the division under way.
Underway ==
  div_busy =>
    LET a == Magnitude(e.funct3, e.a)
        b == Magnitude(e.funct3, e.b)
    IN /\ invert_result = InvertResult(e.funct3, e.a, e.b)
       /\ expected = Reference(e.funct3, e.a, e.b)
       /\ mask # 0 => divisor = b * mask
       /\ a = quotient * b + dividend
       /\ quotient % Unit = 0
       /\ quotient + Unit <= Base
       /\ b = 0 => quotient + Unit = Base
       /\ b # 0 => dividend < b * Unit

DivInv == TypeOK /\ Detector /\ MaskIsBit /\ Underway /\ ResultIsReference
-----------------------------------------------------------------------------
\* Halving the weight of a bit gives the weight of the next one, or none.
LEMMA HalfOfPower ==
  ASSUME NEW k \in Nat
  PROVE  Pow2[k] \div 2 = IF k = 0 THEN 0 ELSE Pow2[k - 1]
<1>1. CASE k = 0
  BY <1>1, Pow2Facts
<1>2. CASE k # 0
  <2>1. k - 1 \in Nat /\ (k - 1) + 1 = k
    BY <1>2
  <2>2. Pow2[k] = 2 * Pow2[k - 1] /\ Pow2[k - 1] \in Nat
    BY <2>1, Pow2Facts
  <2> QED
    BY <1>2, <2>2
<1> QED
  BY <1>1, <1>2

\* The mask is a bit, and so is its half; the double of the half is the mask again
\* or, once it is gone, the unit.
LEMMA MaskHalves ==
  ASSUME MaskIsBit, mask # 0
  PROVE  /\ \E k \in 0..Width : mask \div 2 = Pow2[k] \div 2
         /\ mask \in Nat \ {0}
         /\ mask \div 2 \in Nat
         /\ mask = IF mask \div 2 = 0 THEN 1 ELSE 2 * (mask \div 2)
<1>1. PICK k \in 0..Width : mask = Pow2[k] \div 2
  BY DEF MaskIsBit
<1>2. k \in Nat /\ k # 0 /\ mask = Pow2[k - 1] /\ k - 1 \in Nat /\ k - 1 \in 0..Width
  BY <1>1, HalfOfPower, Widths
<1>3. mask \in Nat \ {0}
  BY <1>2, Pow2Facts
<1>4. CASE k - 1 = 0
  BY <1>2, <1>3, <1>4, Pow2Facts
<1>5. CASE k - 1 # 0
  <2>1. k - 2 \in Nat /\ (k - 2) + 1 = k - 1
    BY <1>2, <1>5
  <2>2. mask = 2 * Pow2[k - 2] /\ Pow2[k - 2] \in Nat \ {0}
    BY <1>2, <2>1, Pow2Facts
  <2>3. mask \div 2 = Pow2[k - 2]
    BY <2>2
  <2> QED
    BY <1>2, <1>3, <2>2, <2>3
<1> QED
  BY <1>4, <1>5

\* One shift: the bit is not set yet, and setting it leaves the quotient a multiple
\* of its weight.
LEMMA BitIsSet ==
  ASSUME NEW q \in Nat, NEW m \in Nat \ {0}, q % (2 * m) = 0
  PROVE  WithBit(q, m) = q + m /\ q % m = 0 /\ (q + m) % m = 0
<1> DEFINE n == 2 * m
           j == q \div n
<1>0. n \in Nat \ {0} /\ q % n = 0 /\ q \in Int
  OBVIOUS
<1> HIDE DEF n
<1>1. j \in Int /\ q = j * (2 * m)
  <2>1. j \in Int /\ q = j * n + (q % n)
    BY <1>0, QuotientAndRemainder
  <2> HIDE DEF j
  <2>2. q = j * n
    BY <1>0, <2>1
  <2> QED
    BY <2>1, <2>2 DEF n
<1> HIDE DEF j
<1>2. 2 * j \in Int /\ 2 * j + 1 \in Int /\ 0 \in 0..(m - 1)
  BY <1>1
<1>3. q = (2 * j) * m + 0 /\ q + m = (2 * j + 1) * m + 0
  BY <1>1
<1>4. ((2 * j) * m + 0) \div m = 2 * j /\ ((2 * j) * m + 0) % m = 0
  BY <1>2, OnlyQuotient
<1>5. ((2 * j + 1) * m + 0) % m = 0
  BY <1>2, OnlyQuotient
<1>6. (2 * j) % 2 = 0
  BY <1>1
<1> QED
  BY <1>3, <1>4, <1>5, <1>6 DEF WithBit

\* Subtracting the divisor at the weight m for a bit of the quotient.
LEMMA Subtract ==
  ASSUME NEW a \in Nat, NEW b \in Nat, NEW q \in Nat, NEW d \in Nat, NEW m \in Nat \ {0},
         a = q * b + d, b # 0 => d < b * (2 * m)
  PROVE  /\ b * m \in Nat
         /\ b * m <= d => /\ a = (q + m) * b + (d - b * m)
                          /\ d - b * m \in Nat
                          /\ b # 0 => d - b * m < b * m
         /\ m = 1 => b * m = b
<1>1. b * m \in Nat /\ q * b \in Nat /\ b * (2 * m) = 2 * (b * m)
  OBVIOUS
<1>2. (q + m) * b = q * b + b * m
  OBVIOUS
<1> QED
  BY <1>1, <1>2

LEMMA BelowBoth ==
  \A d, f, q, m, n \in Nat :
     f <= d /\ d < n /\ m # 0 /\ q + m <= n => f < n /\ q < n
OBVIOUS

\* The registers after a shift.
LEMMA ShiftKeeps ==
  ASSUME DivInv, Shift, e'.a = e.a, e'.b = e.b, e'.funct3 = e.funct3
  PROVE  /\ dividend' \in Operand /\ quotient' \in Operand
         /\ divisor' \in 0 .. Base * Half /\ mask' \in 0 .. Half
         /\ MaskIsBit' /\ Underway'
<1> DEFINE a == Magnitude(e.funct3, e.a)
           b == Magnitude(e.funct3, e.b)
<1>1. /\ div_busy /\ mask # 0 /\ mask' = mask \div 2 /\ divisor' = divisor \div 2
      /\ dividend' = IF Fits THEN dividend - (divisor % Base) ELSE dividend
      /\ quotient' = IF Fits THEN WithBit(quotient, mask) ELSE quotient
      /\ div_busy' = div_busy /\ invert_result' = invert_result /\ expected' = expected
  BY DEF Shift
<1>2. /\ e.a \in Operand /\ e.b \in Operand /\ e.funct3 \in Functs
      /\ dividend \in Nat /\ dividend < Base /\ quotient \in Nat /\ quotient < Base
      /\ Base \in Nat \ {0} /\ Half \in Nat \ {0} /\ Base = 2 * Half
      /\ mask \in 0 .. Half /\ divisor \in 0 .. Base * Half
  BY Widths DEF DivInv, TypeOK, Operand
<1>3. a \in Nat /\ b \in Nat
  BY <1>2, Magnitudes DEF Operand
<1>4. /\ mask \in Nat \ {0} /\ mask \div 2 \in Nat /\ MaskIsBit'
      /\ mask = IF mask \div 2 = 0 THEN 1 ELSE 2 * (mask \div 2)
  BY <1>1, MaskHalves DEF DivInv, MaskIsBit
<1>5. Unit = 2 * mask /\ Unit' = mask
  BY <1>1, <1>4 DEF Unit
<1>6. /\ invert_result = InvertResult(e.funct3, e.a, e.b)
      /\ expected = Reference(e.funct3, e.a, e.b)
      /\ divisor = b * mask
      /\ a = quotient * b + dividend
      /\ quotient % (2 * mask) = 0
      /\ quotient + 2 * mask <= Base
      /\ b = 0 => quotient + 2 * mask = Base
      /\ b # 0 => dividend < b * (2 * mask)
  BY <1>1, <1>5 DEF DivInv, Underway
<1> HIDE DEF a, b
<1>7. /\ WithBit(quotient, mask) = quotient + mask
      /\ quotient % mask = 0 /\ (quotient + mask) % mask = 0
  BY <1>2, <1>4, <1>6, BitIsSet
<1>8. /\ b * mask \in Nat
      /\ b * mask <= dividend =>
           /\ a = (quotient + mask) * b + (dividend - b * mask)
           /\ dividend - b * mask \in Nat
           /\ b # 0 => dividend - b * mask < b * mask
  BY <1>2, <1>3, <1>4, <1>6, Subtract
<1>9. Fits => divisor % Base = divisor
  <2> SUFFICES ASSUME Fits PROVE divisor % Base = divisor
    OBVIOUS
  <2>1. divisor \in Operand
    BY <1>2, <1>6, <1>8 DEF Fits, Operand
  <2> QED
    BY <2>1, WordFacts
<1>10. /\ a = quotient' * b + dividend'
       /\ quotient' % mask = 0
       /\ quotient' + mask <= Base
       /\ b = 0 => quotient' + mask = Base
       /\ b # 0 => dividend' < b * mask
       /\ dividend' \in Nat /\ quotient' \in Nat /\ dividend' <= dividend
  <2>0. /\ quotient + 2 * mask <= Base
        /\ b = 0 => quotient + 2 * mask = Base
    BY <1>6
  <2>1. CASE Fits
    <3>1. dividend' = dividend - b * mask /\ quotient' = quotient + mask /\ b * mask <= dividend
      BY <1>1, <1>6, <1>7, <1>9, <2>1 DEF Fits
    <3>2. a = quotient' * b + dividend' /\ dividend' \in Nat /\ (b # 0 => dividend' < b * mask)
      BY <1>8, <3>1
    <3>3. quotient' % mask = 0
      BY <1>7, <3>1
    <3>4. /\ quotient' + mask <= Base /\ (b = 0 => quotient' + mask = Base)
          /\ quotient' \in Nat
      BY <1>2, <1>4, <2>0, <3>1
    <3>5. dividend' <= dividend
      BY <1>2, <1>8, <3>1
    <3> QED
      BY <3>2, <3>3, <3>4, <3>5
  <2>2. CASE ~Fits
    <3>1. dividend' = dividend /\ quotient' = quotient /\ ~(b * mask <= dividend)
      BY <1>1, <1>6, <2>2 DEF Fits
    <3>2. b # 0
      <4>1. 0 * mask = 0
        BY <1>4
      <4> QED
        BY <1>2, <3>1, <4>1
    <3>3. a = quotient' * b + dividend' /\ dividend' \in Nat
      BY <1>2, <1>6, <3>1
    <3>4. dividend' < b * mask
      BY <1>2, <1>8, <3>1
    <3>5. quotient' % mask = 0
      BY <1>7, <3>1
    <3>6. quotient' + mask <= Base /\ quotient' \in Nat /\ dividend' <= dividend
      BY <1>2, <1>4, <2>0, <3>1
    <3> QED
      BY <3>2, <3>3, <3>4, <3>5, <3>6
  <2> QED
    BY <2>1, <2>2
<1>11. /\ dividend' \in Operand /\ quotient' \in Operand
       /\ divisor' \in 0 .. Base * Half /\ mask' \in 0 .. Half
  <2>1. Base * Half \in Nat
    BY <1>2
  <2>2. divisor' \in 0 .. Base * Half
    BY <1>1, <1>2, <2>1
  <2>3. dividend' \in Operand /\ quotient' \in Operand
    <3>1. /\ dividend' \in Nat /\ quotient' \in Nat /\ dividend' <= dividend
          /\ quotient' + mask <= Base
      BY <1>10
    <3>2. dividend < Base /\ dividend \in Nat /\ Base \in Nat /\ mask \in Nat \ {0}
      BY <1>2, <1>4
    <3>3. dividend' < Base /\ quotient' < Base
      BY <3>1, <3>2, BelowBoth
    <3> QED
      BY <3>1, <3>2, <3>3 DEF Operand
  <2>4. mask \div 2 \in 0 .. Half
    BY <1>2
  <2> QED
    BY <1>1, <2>2, <2>3, <2>4
<1>12. mask' # 0 => divisor' = b * mask'
  <2> SUFFICES ASSUME mask' # 0 PROVE divisor' = b * mask'
    OBVIOUS
  <2> DEFINE h == mask \div 2
  <2>1. mask = 2 * h /\ h \in Nat /\ mask' = h
    BY <1>1, <1>4
  <2> HIDE DEF h
  <2>2. divisor = b * (2 * h)
    BY <1>6, <2>1
  <2>3. b * (2 * h) = 2 * (b * h) /\ b * h \in Nat
    BY <1>3, <2>1
  <2>4. divisor \div 2 = b * h
    BY <2>2, <2>3
  <2> QED
    BY <1>1, <2>1, <2>4
<1>13. Underway'
  <2>1. a = Magnitude(e'.funct3, e'.a) /\ b = Magnitude(e'.funct3, e'.b)
    BY DEF a, b
  <2>2. (b = 0 <=> e.b = 0)
    BY <1>2, Magnitudes DEF b
  <2> QED
    BY <1>1, <1>5, <1>6, <1>10, <1>12, <2>1 DEF Underway
<1> QED
  BY <1>4, <1>11, <1>13
-----------------------------------------------------------------------------
LEMMA InitDiv == Init => DivInv
<1> SUFFICES ASSUME Init PROVE DivInv
  OBVIOUS
<1> USE DEF Init, NoDivision
<1>1. 0 \in Operand /\ 0 \in Nat /\ Base * Half \in Nat /\ Half \in Nat /\ 0 \in 0 .. Width
  BY Widths DEF Operand
<1>2. TypeOK
  <2>1. 0 \in 0 .. Base * Half /\ 0 \in 0 .. Half
    BY <1>1
  <2>2. e \in [div_instr : BOOLEAN, a : Operand, b : Operand, funct3 : Functs, done : BOOLEAN]
    BY <1>1 DEF Functs
  <2> QED
    BY <1>1, <2>1, <2>2 DEF TypeOK
<1>3. MaskIsBit
  <2>1. Pow2[0] \div 2 = 0
    BY HalfOfPower
  <2> QED
    BY <1>1, <2>1 DEF MaskIsBit
<1> QED
  BY <1>2, <1>3 DEF DivInv, Detector, Underway, ResultIsReference

\* The registers after a start.
LEMMA StartKeeps ==
  ASSUME DivInv, Start, e'.a = e.a, e'.b = e.b, e'.funct3 = e.funct3
  PROVE  /\ dividend' \in Operand /\ quotient' \in Operand /\ expected' \in Operand
         /\ invert_result' \in BOOLEAN /\ div_result' = div_result
         /\ divisor' \in 0 .. Base * Half /\ mask' \in 0 .. Half
         /\ mask' = Half /\ MaskIsBit' /\ Underway'
<1> DEFINE a == Magnitude(e.funct3, e.a)
           b == Magnitude(e.funct3, e.b)
<1>1. e.a \in Operand /\ e.b \in Operand /\ e.funct3 \in Functs
  BY DEF DivInv, TypeOK
<1>2. a \in Operand /\ b \in Operand /\ Reference(e.funct3, e.a, e.b) \in Operand
  BY <1>1, Magnitudes, ReferenceType
<1>3. /\ invert_result' = InvertResult(e.funct3, e.a, e.b)
      /\ expected' = Reference(e.funct3, e.a, e.b)
      /\ dividend' = a /\ divisor' = b * Half /\ quotient' = 0 /\ mask' = Half
      /\ div_result' = div_result
  BY DEF Start
<1> HIDE DEF a, b
<1>4. Half \in Nat \ {0} /\ Base = 2 * Half /\ 0 \in Operand /\ Base \in Nat \ {0}
      /\ a \in Nat /\ b \in Nat /\ a < Base /\ b <= Base
  BY <1>2, Widths DEF Operand
<1>5. b * Half \in Nat /\ b * Half <= Base * Half
  <2>1. (Base - b) * Half >= 0 /\ Base * Half - b * Half = (Base - b) * Half
    BY <1>4
  <2>2. b * Half \in Nat /\ Base * Half \in Nat
    BY <1>4
  <2> QED
    BY <2>1, <2>2
<1>6. divisor' \in 0 .. Base * Half /\ mask' \in 0 .. Half
  <2>1. Base * Half \in Nat
    BY <1>4
  <2> QED
    BY <1>3, <1>4, <1>5, <2>1
<1>7. MaskIsBit'
  <2>1. Width \in 0 .. Width /\ Pow2[Width] \div 2 = Pow2[Width - 1]
    BY Widths, HalfOfPower
  <2> QED
    BY <1>3, <2>1 DEF MaskIsBit, Half
<1>8. Unit' = Base
  BY <1>3, <1>4 DEF Unit
<1>9. 0 % Base = 0 /\ a = 0 * b + a /\ 0 + Base = Base
  BY <1>4
<1>10. b # 0 => a < b * Base
  <2> SUFFICES ASSUME b # 0 PROVE a < b * Base
    OBVIOUS
  <2>1. (b - 1) * Base >= 0 /\ b * Base = (b - 1) * Base + Base /\ b * Base \in Nat
    BY <1>4
  <2> QED
    BY <1>4, <2>1
<1>11. Underway'
  <2>1. a = Magnitude(e'.funct3, e'.a) /\ b = Magnitude(e'.funct3, e'.b)
    BY DEF a, b
  <2>2. Base <= Base
    BY <1>4
  <2> QED
    BY <1>3, <1>8, <1>9, <1>10, <2>1, <2>2 DEF Underway
<1>12. invert_result' \in BOOLEAN
  BY <1>3 DEF InvertResult
<1> QED
  BY <1>2, <1>3, <1>4, <1>6, <1>7, <1>11, <1>12

\* The value that Complete latches.
LEMMA CompleteIsRight ==
  ASSUME DivInv, Complete
  PROVE  div_result' = Reference(e.funct3, e.a, e.b) /\ div_result' \in Operand
<1> DEFINE a == Magnitude(e.funct3, e.a)
           b == Magnitude(e.funct3, e.b)
<1>1. /\ e.a \in Operand /\ e.b \in Operand /\ e.funct3 \in Functs
      /\ quotient \in Operand /\ dividend \in Operand
  BY DEF DivInv, TypeOK
<1>2. div_busy /\ mask = 0 /\ Unit = 1
  BY DEF Complete, div_completed, Unit
<1>3. /\ invert_result = InvertResult(e.funct3, e.a, e.b)
      /\ a = quotient * b + dividend
      /\ b = 0 => quotient + 1 = Base
      /\ b # 0 => dividend < b * 1
  BY <1>2 DEF DivInv, Underway
<1>4. div_result' = Latched(e.funct3, e.a, e.b, quotient, dividend)
  BY <1>3 DEF Complete, Latched
<1>5. /\ b \in Operand /\ (b = 0 <=> e.b = 0)
  BY <1>1, Magnitudes
<1>6. (e.b = 0 => quotient = Base - 1) /\ (e.b # 0 => dividend < b)
  <2> HIDE DEF a, b
  <2> QED
    BY <1>1, <1>3, <1>5, Widths DEF Operand
<1>7. div_result' = Reference(e.funct3, e.a, e.b)
  BY <1>1, <1>3, <1>4, <1>6, ResultIsRight
<1> QED
  BY <1>1, <1>7, ReferenceType
-----------------------------------------------------------------------------
\* The stage holds a word in each operand; until the unit releases it, the same.
LEMMA ExecuteKeeps ==
  ASSUME DivInv, NEW flush \in BOOLEAN, Execute(flush), Detect(flush)
  PROVE  /\ e' \in [div_instr : BOOLEAN, a : Operand, b : Operand, funct3 : Functs,
                    done : BOOLEAN]
         /\ first_reg' \in BOOLEAN /\ second_reg' \in BOOLEAN
         /\ e.div_instr /\ ~e.done /\ ~flush =>
              /\ e'.a = e.a /\ e'.b = e.b /\ e'.funct3 = e.funct3
              /\ e'.div_instr /\ (e'.done <=> div_completed)
         /\ e'.done => e.div_instr /\ ~e.done /\ ~flush
         /\ first_reg' /\ ~second_reg' => e'.div_instr /\ ~e'.done
<1>1. e \in [div_instr : BOOLEAN, a : Operand, b : Operand, funct3 : Functs, done : BOOLEAN]
      /\ first_reg \in BOOLEAN /\ div_busy \in BOOLEAN
  BY DEF DivInv, TypeOK
<1>2. Operands \subseteq Operand /\ 0 \in Operand
  BY DividerAssumption, Widths DEF Operand, Base
<1>3. first_reg' = (~flush /\ e.div_instr) /\ second_reg' = (~flush /\ first_reg)
  BY DEF Detect
<1>4. div_completed => first_reg /\ second_reg
  BY DEF DivInv, Detector, div_completed
<1>5. e.done => first_reg
  BY DEF DivInv, Detector
<1>6. div_completed \in BOOLEAN
  BY DEF div_completed
<1>7. CASE flush /\ e' = NoDivision
  BY <1>2, <1>3, <1>7 DEF NoDivision, Functs
<1>8. CASE ~flush /\ ~e.div_instr /\ e' = NoDivision
  BY <1>2, <1>3, <1>8 DEF NoDivision, Functs
<1>9. CASE ~flush /\ ~e.div_instr /\ \E a, b \in Operands, funct3 \in Functs :
             e' = [div_instr |-> TRUE, a |-> a, b |-> b, funct3 |-> funct3, done |-> FALSE]
  <2>1. PICK a \in Operands, b \in Operands, funct3 \in Functs :
             e' = [div_instr |-> TRUE, a |-> a, b |-> b, funct3 |-> funct3, done |-> FALSE]
    BY <1>9
  <2> QED
    BY <1>2, <1>3, <1>9, <2>1
<1>10. CASE ~flush /\ e.div_instr /\ ~e.done /\ e' = [e EXCEPT !.done = div_completed]
  BY <1>1, <1>3, <1>4, <1>6, <1>10
<1>11. CASE ~flush /\ e.div_instr /\ e.done /\ e' = NoDivision
  BY <1>2, <1>3, <1>5, <1>11 DEF NoDivision, Functs
<1> QED
  BY <1>7, <1>8, <1>9, <1>10, <1>11 DEF Execute, Release

\* Every cycle keeps the invariant.
LEMMA CycleKeeps ==
  ASSUME DivInv, NEW flush \in BOOLEAN, Cycle(flush)
  PROVE  DivInv'
<1>1. /\ e' \in [div_instr : BOOLEAN, a : Operand, b : Operand, funct3 : Functs,
                 done : BOOLEAN]
      /\ first_reg' \in BOOLEAN /\ second_reg' \in BOOLEAN
      /\ e.div_instr /\ ~e.done /\ ~flush =>
           /\ e'.a = e.a /\ e'.b = e.b /\ e'.funct3 = e.funct3
           /\ e'.div_instr /\ (e'.done <=> div_completed)
      /\ e'.done => e.div_instr /\ ~e.done /\ ~flush
      /\ first_reg' /\ ~second_reg' => e'.div_instr /\ ~e'.done
  BY ExecuteKeeps DEF Cycle
<1>2. first_reg' = (~flush /\ e.div_instr) /\ second_reg' = (~flush /\ first_reg)
  BY DEF Cycle, Detect
<1>3. TypeOK /\ Detector /\ MaskIsBit /\ Underway /\ ResultIsReference
  BY DEF DivInv
<1>4. CASE flush /\ Flush
  <2>1. ~e'.done /\ div_busy' = FALSE /\ UNCHANGED <<dividend, divisor, quotient, mask,
             invert_result, div_result, expected>>
    BY <1>1, <1>4 DEF Flush
  <2>2. TypeOK'
    BY <1>1, <1>3, <2>1 DEF TypeOK
  <2>3. Detector'
    BY <1>1, <2>1 DEF Detector
  <2> QED
    BY <1>3, <2>1, <2>2, <2>3 DEF DivInv, MaskIsBit, Underway, ResultIsReference
<1>5. CASE ~flush /\ Start
  <2>1. e.div_instr /\ ~e.done /\ first_reg /\ ~second_reg /\ ~div_completed
    BY <1>3, <1>5 DEF Start, start, Detector, div_completed
  <2>2. /\ e'.a = e.a /\ e'.b = e.b /\ e'.funct3 = e.funct3 /\ e'.div_instr /\ ~e'.done
    BY <1>1, <1>5, <2>1
  <2>3. /\ dividend' \in Operand /\ quotient' \in Operand /\ expected' \in Operand
        /\ invert_result' \in BOOLEAN /\ div_result' = div_result
        /\ divisor' \in 0 .. Base * Half /\ mask' \in 0 .. Half
        /\ MaskIsBit' /\ Underway'
    BY <1>5, <2>2, StartKeeps
  <2>4. div_busy' = TRUE
    BY <1>5 DEF Start
  <2>5. TypeOK'
    BY <1>1, <1>3, <2>3, <2>4 DEF TypeOK
  <2>6. Detector'
    BY <1>2, <1>5, <2>1, <2>2, <2>4 DEF Detector
  <2> QED
    BY <2>2, <2>3, <2>5, <2>6 DEF DivInv, ResultIsReference
<1>6. CASE ~flush /\ Complete
  <2>1. div_busy /\ div_completed /\ div_busy' = FALSE /\ UNCHANGED <<dividend, divisor,
             quotient, mask, invert_result, expected>>
    BY <1>6 DEF Complete, div_completed
  <2>2. e.div_instr /\ ~e.done /\ first_reg /\ second_reg
    BY <1>3, <2>1 DEF Detector
  <2>3. e'.a = e.a /\ e'.b = e.b /\ e'.funct3 = e.funct3 /\ e'.div_instr
    BY <1>1, <1>6, <2>2
  <2>4. div_result' = Reference(e.funct3, e.a, e.b) /\ div_result' \in Operand
    BY <1>6, CompleteIsRight
  <2>5. TypeOK'
    BY <1>1, <1>3, <2>1, <2>4 DEF TypeOK
  <2>6. Detector'
    BY <1>2, <1>6, <2>1, <2>2, <2>3 DEF Detector
  <2>7. ResultIsReference'
    BY <2>3, <2>4 DEF ResultIsReference
  <2> QED
    BY <1>3, <2>1, <2>5, <2>6, <2>7 DEF DivInv, MaskIsBit, Underway
<1>7. CASE ~flush /\ Shift
  <2>1. /\ div_busy /\ mask # 0 /\ ~div_completed
        /\ UNCHANGED <<div_busy, invert_result, div_result, expected>>
    BY <1>7 DEF Shift, div_completed
  <2>2. e.div_instr /\ ~e.done /\ first_reg /\ second_reg
    BY <1>3, <2>1 DEF Detector
  <2>3. /\ e'.a = e.a /\ e'.b = e.b /\ e'.funct3 = e.funct3 /\ e'.div_instr /\ ~e'.done
    BY <1>1, <1>7, <2>1, <2>2
  <2>4. /\ dividend' \in Operand /\ quotient' \in Operand
        /\ divisor' \in 0 .. Base * Half /\ mask' \in 0 .. Half
        /\ MaskIsBit' /\ Underway'
    BY <1>7, <2>3, ShiftKeeps
  <2>5. TypeOK'
    BY <1>1, <1>3, <2>1, <2>4 DEF TypeOK
  <2>6. Detector'
    BY <1>2, <1>7, <2>1, <2>2, <2>3 DEF Detector
  <2> QED
    BY <2>3, <2>4, <2>5, <2>6 DEF DivInv, ResultIsReference
<1>8. CASE ~flush /\ Rest
  <2>1. ~div_busy /\ ~div_completed /\ UNCHANGED unit
    BY <1>8 DEF Rest, div_completed
  <2>2. ~e'.done
    BY <1>1, <2>1
  <2>3. TypeOK'
    BY <1>1, <1>3, <2>1 DEF TypeOK, unit
  <2>4. Detector'
    BY <1>1, <2>1, <2>2 DEF Detector, unit
  <2> QED
    BY <1>3, <2>1, <2>2, <2>3, <2>4 DEF DivInv, MaskIsBit, Underway, ResultIsReference, unit
<1> QED
  BY <1>4, <1>5, <1>6, <1>7, <1>8 DEF Cycle

\* Whatever is flushed, and whichever division follows which: the mask is one bit,
\* the dividend is what the quotient so far leaves of the operand, the bits not yet
\* tried suffice for the rest, and a result that is read is the right one (div.vhd).
THEOREM DivisionInvariant == Spec => []DivInv
<1>1. DivInv /\ [Tick]_vars => DivInv'
  <2> SUFFICES ASSUME DivInv, [Tick]_vars PROVE DivInv'
    OBVIOUS
  <2>1. CASE Tick
    BY <2>1, CycleKeeps DEF Tick
  <2>2. CASE UNCHANGED vars
    BY <2>2 DEF vars, unit, DivInv, TypeOK, Detector, MaskIsBit, Underway,
                ResultIsReference, Unit
  <2> QED
    BY <2>1, <2>2
<1> QED
  BY InitDiv, <1>1, PTL DEF Spec

\* DIV, DIVU, REM and REMU deliver what the M extension prescribes, by zero and on
\* overflow too (div.vhd).
THEOREM DivisionIsRight == Spec => []Inv
<1>1. DivInv => Restoring
  BY DEF DivInv, Underway, Restoring, Unit
<1>2. DivInv => Inv
  BY <1>1 DEF DivInv, Inv
<1> QED
  BY <1>2, DivisionInvariant, PTL
-----------------------------------------------------------------------------
(* The unit implements DivUnit.                                            *)

\* With no bits left the mask is zero, else it is the weight of the next bit.
LEMMA WhichBit ==
  ASSUME NEW k \in Nat
  PROVE  /\ k = 0 => Pow2[k] \div 2 = 0
         /\ k # 0 => /\ k - 1 \in Nat /\ Pow2[k - 1] \in Nat \ {0}
                     /\ Pow2[k] \div 2 = Pow2[k - 1]
<1>1. k # 0 => k - 1 \in Nat
  OBVIOUS
<1> QED
  BY <1>1, HalfOfPower, Pow2Facts

\* The mask tells how many bits are left.
LEMMA OnlyBitsLeft ==
  ASSUME NEW k \in 0..Width
  PROVE  (CHOOSE n \in 0..Width : Pow2[k] \div 2 = Pow2[n] \div 2) = k
<1>0. k \in Nat /\ Width \in Nat
  BY Widths
<1>1. ASSUME NEW n \in 0..Width, Pow2[k] \div 2 = Pow2[n] \div 2 PROVE n = k
  <2>1. n \in Nat /\ (n # 0 => n - 1 \in Nat) /\ (k # 0 => k - 1 \in Nat)
    BY <1>0
  <2>2. CASE n = 0 \/ k = 0
    BY <1>0, <1>1, <2>1, <2>2, WhichBit
  <2>3. CASE n # 0 /\ k # 0
    <3>1. Pow2[k - 1] = Pow2[n - 1] /\ Pow2[k - 1] \in Nat
      BY <1>0, <1>1, <2>1, <2>3, WhichBit
    <3>2. ~(k - 1 < n - 1)
      <4> SUFFICES ASSUME k - 1 < n - 1 PROVE FALSE
        OBVIOUS
      <4>1. Pow2[k - 1] < Pow2[n - 1]
        BY <2>1, <2>3, Pow2Grows
      <4> QED
        BY <3>1, <4>1
    <3>3. ~(n - 1 < k - 1)
      <4> SUFFICES ASSUME n - 1 < k - 1 PROVE FALSE
        OBVIOUS
      <4>1. Pow2[n - 1] < Pow2[k - 1]
        BY <2>1, <2>3, Pow2Grows
      <4> QED
        BY <3>1, <4>1
    <3> QED
      BY <1>0, <2>1, <3>2, <3>3
  <2> QED
    BY <2>2, <2>3
<1>2. (CHOOSE n \in 0..Width : Pow2[k] \div 2 = Pow2[n] \div 2) \in 0..Width
      /\ Pow2[k] \div 2
           = Pow2[CHOOSE n \in 0..Width : Pow2[k] \div 2 = Pow2[n] \div 2] \div 2
  <2>1. \E n \in 0..Width : Pow2[k] \div 2 = Pow2[n] \div 2
    OBVIOUS
  <2> QED
    BY <2>1
<1> QED
  BY <1>1, <1>2

\* Every cycle is one of DivUnit's.
LEMMA CycleRefines ==
  ASSUME DivInv, NEW flush \in BOOLEAN, Cycle(flush)
  PROVE  Abstract!DivNext(flush, e.div_instr, Reference(e.funct3, e.a, e.b))
<1> DEFINE value == Reference(e.funct3, e.a, e.b)
<1>1. /\ first_reg \in BOOLEAN /\ second_reg \in BOOLEAN /\ div_busy \in BOOLEAN
      /\ e.div_instr \in BOOLEAN
  BY DEF DivInv, TypeOK
<1>2. first_reg' = (~flush /\ e.div_instr) /\ second_reg' = (~flush /\ first_reg)
  BY DEF Cycle, Detect
<1>3. PICK k \in 0..Width : mask = Pow2[k] \div 2
  BY DEF DivInv, MaskIsBit
<1>4. BitsLeft = k
  BY <1>3, OnlyBitsLeft DEF BitsLeft
<1>5. k \in Nat /\ (k = 0 <=> mask = 0) /\ (k # 0 => k - 1 \in 0..Width /\ mask = Pow2[k - 1])
  <2>1. k \in Nat /\ Width \in Nat /\ (k # 0 => k - 1 \in 0..Width)
    BY Widths
  <2> QED
    BY <1>3, <2>1, WhichBit
<1>6. mask' = mask => BitsLeft' = k
  BY <1>4 DEF BitsLeft
<1> HIDE DEF value
<1>7. div_busy' = (~flush /\ ((first_reg /\ ~second_reg) \/ (div_busy /\ k # 0)))
  <2>1. CASE flush
    BY <2>1 DEF Cycle, Flush
  <2>2. CASE ~flush
    BY <1>1, <1>5, <2>2
       DEF Cycle, Start, start, Complete, div_completed, Shift, Rest, unit
  <2> QED
    BY <2>1, <2>2
<1>8. BitsLeft' = IF ~flush /\ first_reg /\ ~second_reg THEN Width
                  ELSE IF ~flush /\ div_busy /\ k # 0 THEN k - 1
                  ELSE k
  <2>1. CASE flush
    BY <1>6, <2>1 DEF Cycle, Flush
  <2>2. CASE ~flush /\ Start
    <3>1. mask' = Pow2[Width] \div 2 /\ Width \in 0..Width
      BY <2>2, Widths, HalfOfPower DEF Start, Half
    <3>2. BitsLeft' = Width
      BY <3>1, OnlyBitsLeft DEF BitsLeft
    <3> QED
      BY <2>2, <3>2 DEF Start, start
  <2>3. CASE ~flush /\ Shift
    <3>1. mask' = Pow2[k - 1] \div 2 /\ k # 0 /\ k - 1 \in 0..Width
      BY <1>5, <2>3 DEF Shift
    <3>2. BitsLeft' = k - 1
      BY <3>1, OnlyBitsLeft DEF BitsLeft
    <3> QED
      BY <2>3, <3>1, <3>2 DEF Shift, start
  <2>4. CASE ~flush /\ (Complete \/ Rest)
    BY <1>5, <1>6, <2>4 DEF Complete, div_completed, Rest, unit, start
  <2> QED
    BY <2>1, <2>2, <2>3, <2>4 DEF Cycle
<1>9. expected' = IF ~flush /\ first_reg /\ ~second_reg THEN value ELSE expected
  <2>1. CASE flush
    BY <2>1 DEF Cycle, Flush
  <2>2. CASE ~flush
    BY <2>2 DEF Cycle, Start, start, Complete, Shift, Rest, unit, value
  <2> QED
    BY <2>1, <2>2
<1>10. div_result' = IF ~flush /\ ~(first_reg /\ ~second_reg) /\ div_busy /\ k = 0
                     THEN expected ELSE div_result
  <2>1. CASE flush
    BY <2>1 DEF Cycle, Flush
  <2>2. CASE ~flush /\ Complete
    <3>1. div_busy /\ mask = 0 /\ ~(first_reg /\ ~second_reg)
      BY <2>2 DEF Complete, div_completed, start
    <3>2. div_result' = expected
      BY <2>2, <3>1, CompleteIsRight DEF DivInv, Underway
    <3> QED
      BY <1>5, <2>2, <3>1, <3>2
  <2>3. CASE ~flush /\ (Start \/ Shift \/ Rest)
    BY <1>5, <2>3 DEF Start, start, Shift, Rest, unit
  <2> QED
    BY <2>1, <2>2, <2>3 DEF Cycle
<1> QED
  BY <1>1, <1>2, <1>4, <1>7, <1>8, <1>9, <1>10
     DEF Abstract!DivNext, Abstract!DivStart, Abstract!DivCompleted, value

\* Every edge of div.vhd is a step of the unit that the pipeline is modelled with:
\* completion comes Width cycles after the start, and no sooner.
THEOREM DividerImplementsDivUnit == Spec => ImplementsDivUnit
<1>1. Init => Abstract!DivInit
  <2> SUFFICES ASSUME Init PROVE Abstract!DivInit
    OBVIOUS
  <2>1. mask = Pow2[0] \div 2 /\ 0 \in 0..Width
    BY HalfOfPower, Widths DEF Init
  <2>2. BitsLeft = 0
    BY <2>1, OnlyBitsLeft DEF BitsLeft
  <2> QED
    BY <2>2 DEF Init, Abstract!DivInit
<1>2. DivInv /\ [Tick]_vars =>
        [\E flush \in BOOLEAN :
           Abstract!DivNext(flush, e.div_instr, Reference(e.funct3, e.a, e.b))]_vars
  BY CycleRefines DEF Tick
<1> QED
  BY <1>1, <1>2, DivisionInvariant, PTL DEF Spec, ImplementsDivUnit
=============================================================================
