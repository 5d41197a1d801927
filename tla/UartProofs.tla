----------------------------- MODULE UartProofs -----------------------------
(***************************************************************************)
(* Every character of any text arrives once, in order, unchanged and in    *)
(* lines, although the receiver's bit time is not the transmitter's, and   *)
(* no line after the halt line is handed on.                               *)
(***************************************************************************)
EXTENDS UartProperties, SequenceTheorems, Arithmetic

Chars == 1..255
String == Seq(Chars)

-----------------------------------------------------------------------------
(* Sequences, joined and cut.                                              *)

\* A sequence that is not empty is a shorter one with a last element.
LEMMA LastSplit ==
  ASSUME NEW X
  PROVE  \A u \in Seq(X), n \in Nat : Len(u) = n + 1 =>
           \E c \in Seq(X), x \in X : u = Append(c, x) /\ Len(c) = n
<1> SUFFICES ASSUME NEW s \in Seq(X), NEW n \in Nat, Len(s) = n + 1
             PROVE  \E c \in Seq(X), x \in X : s = Append(c, x) /\ Len(c) = n
  OBVIOUS
<1> DEFINE c == SubSeq(s, 1, n)
<1>1. /\ c \in Seq(X) /\ Len(c) = n /\ \A i \in 1..n : c[i] = s[i]
  <2>1. \A i \in 1..n : s[i] \in X
    OBVIOUS
  <2> QED
    BY <2>1, SubSeqProperties
<1>2. s[n + 1] \in X
  OBVIOUS
<1> HIDE DEF c
<1>3. /\ Append(c, s[n + 1]) \in Seq(X) /\ Len(Append(c, s[n + 1])) = n + 1
      /\ \A i \in 1..n : Append(c, s[n + 1])[i] = c[i]
      /\ Append(c, s[n + 1])[n + 1] = s[n + 1]
  BY <1>1, <1>2, AppendProperties
<1>4. Append(c, s[n + 1]) = s
  <2>1. \A i \in 1..(n + 1) : Append(c, s[n + 1])[i] = s[i]
    BY <1>1, <1>3
  <2> QED
    BY <1>3, <2>1, SeqEqual
<1> QED
  BY <1>1, <1>2, <1>4

\* Strings, joined.
LEMMA StringFacts ==
  /\ <<>> \in String
  /\ \A s, t \in String : s \o t \in String /\ Len(s \o t) = Len(s) + Len(t)
  /\ \A s \in String : s \o <<>> = s /\ <<>> \o s = s /\ Len(s) \in Nat
  /\ \A s, t, u \in String : (s \o t) \o u = s \o (t \o u)
  /\ \A s \in String, c \in Chars : Append(s, c) = s \o <<c>> /\ <<c>> \in String
                                  /\ Append(s, c) \in String
BY ConcatProperties, ConcatEmptySeq, ConcatAssociative, AppendIsConcat, AppendProperties,
   LenProperties DEF String

LEMMA StringsJoin ==
  /\ \A s, t \in String : s \o t \in String
  /\ \A s, t, u \in String : (s \o t) \o u = s \o (t \o u)
BY StringFacts

LEMMA LinesAssociate ==
  \A s, t, u \in Seq(String) : (s \o t) \o u = s \o (t \o u)
BY ConcatAssociative

\* Strings built step by step.
LEMMA StringRecursion ==
  \A v \in String, g \in [Nat -> [String -> String]] :
    \E f \in [Nat -> String] : f[0] = v /\ \A n \in Nat : f[n + 1] = g[n][f[n]]
BY Recursion

LEMMA StringSplit ==
  \A u \in Seq(String), n \in Nat : Len(u) = n + 1 =>
    \E c \in Seq(String), x \in String : u = Append(c, x) /\ Len(c) = n
BY LastSplit

\* FlattenSeq joins one sequence after the other.
LEMMA FlattenDef ==
  ASSUME NEW s \in Seq(String), Len(s) # 0
  PROVE  \E f \in [Nat -> String] :
           /\ f[0] = <<>> /\ \A n \in 0..(Len(s) - 1) : f[n + 1] = f[n] \o s[n + 1]
           /\ FlattenSeq(s) = f[Len(s)]
<1> DEFINE step == [n \in Nat |-> [t \in String |->
                      IF n < Len(s) THEN t \o s[n + 1] ELSE t]]
<1>1. Len(s) \in Nat \ {0} /\ \A i \in 1..Len(s) : s[i] \in String
  OBVIOUS
<1>2. step \in [Nat -> [String -> String]] /\ <<>> \in String
  <2>1. ASSUME NEW n \in Nat, NEW t \in String, n < Len(s) PROVE t \o s[n + 1] \in String
    <3>1. n + 1 \in 1..Len(s)
      BY <1>1, <2>1
    <3> QED
      BY <1>1, <3>1, StringFacts
  <2> QED
    BY <2>1, StringFacts
<1>3. PICK f \in [Nat -> String] :
        f[0] = <<>> /\ \A n \in Nat : f[n + 1] = step[n][f[n]]
  <2> HIDE DEF step
  <2> QED
    BY <1>2, StringRecursion, Zenon
<1>4. \A n \in 0..(Len(s) - 1) : f[n + 1] = f[n] \o s[n + 1]
  <2> SUFFICES ASSUME NEW n \in 0..(Len(s) - 1) PROVE f[n + 1] = f[n] \o s[n + 1]
    OBVIOUS
  <2>1. n \in Nat /\ n < Len(s) /\ f[n] \in String
    BY <1>1
  <2> QED
    BY <1>3, <2>1
<1> HIDE DEF step
<1> DEFINE D(g) == [i \in 1..Len(s) |-> IF i = 1 THEN s[i] ELSE g[i - 1] \o s[i]]
           F == [i \in 1..Len(s) |-> f[i]]
<1>5. F = D(F)
  <2>1. ASSUME NEW i \in 1..Len(s) PROVE F[i] = IF i = 1 THEN s[i] ELSE F[i - 1] \o s[i]
    <3>1. PICK j \in 0..(Len(s) - 1) : i = j + 1
      BY <1>1
    <3>2. F[i] = f[j] \o s[i] /\ i - 1 = j
      BY <1>4, <3>1
    <3>3. CASE i = 1
      <4>1. s[i] \in String /\ f[j] = <<>>
        BY <1>1, <1>3, <3>1, <3>3
      <4>2. <<>> \o s[i] = s[i]
        BY <4>1, StringFacts, Zenon
      <4> QED
        BY <3>2, <3>3, <4>1, <4>2
    <3>4. CASE i # 1
      <4>1. j \in 1..Len(s)
        BY <3>1, <3>4
      <4> QED
        BY <3>2, <3>4, <4>1
    <3> QED
      BY <3>3, <3>4
  <2> QED
    BY <2>1
<1>6. ASSUME NEW g, g = D(g) PROVE g[Len(s)] = f[Len(s)]
  <2> DEFINE S == {n \in Nat : n + 1 <= Len(s) => g[n + 1] = f[n + 1]}
  <2>1. g = [i \in 1..Len(s) |-> IF i = 1 THEN s[i] ELSE g[i - 1] \o s[i]]
    BY <1>6
  <2>2. \A i \in 1..Len(s) : g[i] = IF i = 1 THEN s[i] ELSE g[i - 1] \o s[i]
    BY <2>1
  <2>3. 0 \in S
    <3>1. 1 \in 1..Len(s) /\ 0 \in 0..(Len(s) - 1)
      BY <1>1
    <3>2. g[1] = s[1] /\ f[0 + 1] = <<>> \o s[0 + 1] /\ s[1] \in String
      BY <1>1, <1>3, <1>4, <2>2, <3>1
    <3>3. <<>> \o s[1] = s[1]
      BY <3>2, StringFacts, Zenon
    <3> QED
      BY <3>2, <3>3
  <2>4. ASSUME NEW n \in Nat, n \in S PROVE n + 1 \in S
    <3> SUFFICES ASSUME (n + 1) + 1 <= Len(s) PROVE g[(n + 1) + 1] = f[(n + 1) + 1]
      OBVIOUS
    <3>1. g[n + 1] = f[n + 1]
      BY <1>1, <2>4
    <3>2. /\ (n + 1) + 1 \in 1..Len(s) /\ n + 1 \in 0..(Len(s) - 1) /\ (n + 1) + 1 # 1
          /\ ((n + 1) + 1) - 1 = n + 1
      BY <1>1
    <3>3. f[(n + 1) + 1] = f[n + 1] \o s[(n + 1) + 1]
      BY <1>4, <3>2
    <3>4. g[(n + 1) + 1] = g[n + 1] \o s[(n + 1) + 1]
      BY <2>2, <3>2
    <3> QED
      BY <3>1, <3>3, <3>4
  <2> HIDE DEF S
  <2>5. Nat \subseteq S
    BY <2>3, <2>4, Induction
  <2>6. Len(s) - 1 \in S /\ (Len(s) - 1) + 1 = Len(s)
    BY <1>1, <2>5
  <2> QED
    BY <1>1, <2>6 DEF S
<1>7. FlattenSeq(s) = (CHOOSE g : g = D(g))[Len(s)]
  BY <1>1 DEF FlattenSeq
<1>8. \E g : g = D(g)
  BY <1>5
<1>9. D(CHOOSE g : g = D(g)) = CHOOSE g : g = D(g)
  <2> HIDE DEF D
  <2> QED
    BY <1>8
<1>10. FlattenSeq(s) = f[Len(s)]
  <2> DEFINE g == CHOOSE h : h = D(h)
  <2>1. g = D(g)
    BY <1>9
  <2> HIDE DEF g, D
  <2>2. g[Len(s)] = f[Len(s)]
    BY <1>6, <2>1
  <2> QED
    BY <1>7, <2>2 DEF g
<1> QED
  BY <1>3, <1>4, <1>10

LEMMA FlattenType ==
  ASSUME NEW s \in Seq(String)
  PROVE  FlattenSeq(s) \in String
<1>1. CASE Len(s) = 0
  BY <1>1, EmptySeq, StringFacts DEF FlattenSeq
<1>2. CASE Len(s) # 0
  <2>1. PICK f \in [Nat -> String] : FlattenSeq(s) = f[Len(s)]
    BY <1>2, FlattenDef, Zenon
  <2> QED
    BY <2>1
<1> QED
  BY <1>1, <1>2

LEMMA FlattenAppend ==
  ASSUME NEW s \in Seq(String), NEW x \in String
  PROVE  FlattenSeq(Append(s, x)) = FlattenSeq(s) \o x
<1> DEFINE t == Append(s, x)
<1>1. /\ t \in Seq(String) /\ Len(t) = Len(s) + 1 /\ Len(s) \in Nat
      /\ \A i \in 1..Len(s) : t[i] = s[i]
      /\ t[Len(s) + 1] = x
  BY AppendProperties
<1> HIDE DEF t
<1>2. PICK g \in [Nat -> String] :
        /\ g[0] = <<>> /\ \A n \in 0..(Len(t) - 1) : g[n + 1] = g[n] \o t[n + 1]
        /\ FlattenSeq(t) = g[Len(t)]
  <2>1. Len(t) # 0
    BY <1>1
  <2> QED
    BY <1>1, <2>1, FlattenDef, Zenon
<1>3. FlattenSeq(t) = g[Len(s)] \o x
  <2>1. Len(s) \in 0..(Len(t) - 1)
    BY <1>1
  <2> QED
    BY <1>1, <1>2, <2>1
<1>4. CASE Len(s) = 0
  <2>1. FlattenSeq(s) = <<>> /\ g[Len(s)] = <<>>
    BY <1>2, <1>4, EmptySeq DEF FlattenSeq
  <2> QED
    BY <1>3, <2>1 DEF t
<1>5. CASE Len(s) # 0
  <2>1. PICK f \in [Nat -> String] :
          /\ f[0] = <<>> /\ \A n \in 0..(Len(s) - 1) : f[n + 1] = f[n] \o s[n + 1]
          /\ FlattenSeq(s) = f[Len(s)]
    BY <1>5, FlattenDef
  <2> DEFINE S == {n \in Nat : n <= Len(s) => f[n] = g[n]}
  <2>2. 0 \in S
    BY <1>2, <2>1
  <2>3. ASSUME NEW n \in Nat, n \in S PROVE n + 1 \in S
    <3> SUFFICES ASSUME n + 1 <= Len(s) PROVE f[n + 1] = g[n + 1]
      OBVIOUS
    <3>1. /\ n \in 0..(Len(s) - 1) /\ n \in 0..(Len(t) - 1) /\ n + 1 \in 1..Len(s)
          /\ f[n] = g[n]
      BY <1>1, <2>3
    <3> QED
      BY <1>1, <1>2, <2>1, <3>1
  <2> HIDE DEF S
  <2>4. Nat \subseteq S
    BY <2>2, <2>3, Induction
  <2>5. f[Len(s)] = g[Len(s)]
    BY <1>1, <2>4 DEF S
  <2> QED
    BY <1>3, <2>1, <2>5 DEF t
<1> QED
  BY <1>4, <1>5

LEMMA FlattenConcat ==
  ASSUME NEW s \in Seq(String), NEW t \in Seq(String)
  PROVE  FlattenSeq(s \o t) = FlattenSeq(s) \o FlattenSeq(t)
<1> DEFINE S == {n \in Nat : \A u \in Seq(String) :
                   Len(u) = n => FlattenSeq(s \o u) = FlattenSeq(s) \o FlattenSeq(u)}
<1>1. 0 \in S
  <2> SUFFICES ASSUME NEW u \in Seq(String), Len(u) = 0
               PROVE  FlattenSeq(s \o u) = FlattenSeq(s) \o FlattenSeq(u)
    OBVIOUS
  <2>1. u = <<>> /\ s \o u = s /\ FlattenSeq(u) = <<>>
    BY EmptySeq, ConcatEmptySeq DEF FlattenSeq
  <2> QED
    BY <2>1, FlattenType, StringFacts
<1>2. ASSUME NEW n \in Nat, n \in S PROVE n + 1 \in S
  <2> SUFFICES ASSUME NEW u \in Seq(String), Len(u) = n + 1
               PROVE  FlattenSeq(s \o u) = FlattenSeq(s) \o FlattenSeq(u)
    OBVIOUS
  <2>1. PICK c \in Seq(String), x \in String : u = Append(c, x) /\ Len(c) = n
    BY StringSplit, Zenon
  <2>2. FlattenSeq(s \o c) = FlattenSeq(s) \o FlattenSeq(c)
    BY <1>2, <2>1
  <2>3. s \o c \in Seq(String) /\ s \o u = Append(s \o c, x)
    <3>1. u = c \o <<x>> /\ s \o c \in Seq(String) /\ <<x>> \in Seq(String)
      BY <2>1, AppendIsConcat, ConcatProperties
    <3> QED
      BY <3>1, ConcatAssociative, AppendIsConcat
  <2>4. FlattenSeq(s \o u) = (FlattenSeq(s) \o FlattenSeq(c)) \o x
    BY <2>2, <2>3, FlattenAppend
  <2>5. FlattenSeq(u) = FlattenSeq(c) \o x
    BY <2>1, FlattenAppend
  <2> QED
    <3> DEFINE a == FlattenSeq(s)
               b == FlattenSeq(c)
    <3>1. a \in String /\ b \in String
      BY <2>1, FlattenType
    <3>2. (a \o b) \o x = a \o (b \o x)
      BY <2>1, <3>1, StringFacts, Zenon
    <3> QED
      BY <2>4, <2>5, <3>2
<1> HIDE DEF S
<1>3. Nat \subseteq S
  BY <1>1, <1>2, Induction
<1> QED
  BY <1>3 DEF S
-----------------------------------------------------------------------------
(* The text, cut into lines.                                               *)

CutState == [lines : Seq(String), line : String]
NoText == [lines |-> <<>>, line |-> <<>>]

LEMMA CutRecursion ==
  \A v \in CutState, g \in [Nat -> [CutState -> CutState]] :
    \E f \in [Nat -> CutState] : f[0] = v /\ \A n \in Nat : f[n + 1] = g[n][f[n]]
BY Recursion

LEMMA JoinedType ==
  \A k \in CutState, c \in Chars : Joined(k, c) \in CutState
<1> SUFFICES ASSUME NEW k \in CutState, NEW c \in Chars PROVE Joined(k, c) \in CutState
  OBVIOUS
<1>1. k.lines \in Seq(String) /\ k.line \in String /\ <<>> \in String
  BY StringFacts DEF CutState
<1>2. Append(k.line, c) \in String
  BY <1>1, StringFacts
<1>3. Append(k.lines, Append(k.line, c)) \in Seq(String)
  BY <1>1, <1>2, AppendProperties
<1> QED
  BY <1>1, <1>2, <1>3 DEF Joined, CutState

LEMMA CutDef ==
  ASSUME NEW s \in String
  PROVE  /\ Cut(s) \in [0..Len(s) -> CutState] /\ Cut(s)[0] = NoText
         /\ \A n \in 0..(Len(s) - 1) : Cut(s)[n + 1] = Joined(Cut(s)[n], s[n + 1])
<1> DEFINE step == [n \in Nat |-> [k \in CutState |->
                      IF n < Len(s) THEN Joined(k, s[n + 1]) ELSE k]]
<1>1. Len(s) \in Nat /\ \A i \in 1..Len(s) : s[i] \in Chars
  BY DEF String
<1>2. step \in [Nat -> [CutState -> CutState]] /\ NoText \in CutState
  <2>1. ASSUME NEW n \in Nat, NEW k \in CutState, n < Len(s) PROVE Joined(k, s[n + 1]) \in CutState
    <3>1. n + 1 \in 1..Len(s)
      BY <1>1, <2>1
    <3> QED
      BY <1>1, <3>1, JoinedType
  <2>2. NoText \in CutState
    BY StringFacts, EmptySeq DEF NoText, CutState
  <2> QED
    BY <2>1, <2>2
<1>3. PICK f \in [Nat -> CutState] :
        f[0] = NoText /\ \A n \in Nat : f[n + 1] = step[n][f[n]]
  <2> HIDE DEF step
  <2> QED
    BY <1>2, CutRecursion, Zenon
<1>4. \A n \in 0..(Len(s) - 1) : f[n + 1] = Joined(f[n], s[n + 1])
  <2> SUFFICES ASSUME NEW n \in 0..(Len(s) - 1) PROVE f[n + 1] = Joined(f[n], s[n + 1])
    OBVIOUS
  <2>1. n \in Nat /\ n < Len(s) /\ f[n] \in CutState
    BY <1>1
  <2> QED
    BY <1>3, <2>1
<1> HIDE DEF step
<1> DEFINE D(g) == [n \in 0..Len(s) |-> IF n = 0 THEN NoText ELSE Joined(g[n - 1], s[n])]
           F == [n \in 0..Len(s) |-> f[n]]
<1>5. F = D(F)
  <2>1. ASSUME NEW i \in 0..Len(s) PROVE F[i] = IF i = 0 THEN NoText ELSE Joined(F[i - 1], s[i])
    <3>1. CASE i = 0
      BY <1>3, <3>1
    <3>2. CASE i # 0
      <4>1. PICK j \in 0..(Len(s) - 1) : i = j + 1 /\ i - 1 = j /\ j \in 0..Len(s)
        BY <1>1, <3>2
      <4>2. F[i] = f[i] /\ F[i - 1] = f[j]
        BY <4>1
      <4>3. f[i] = Joined(f[j], s[i])
        BY <1>4, <4>1
      <4> QED
        BY <3>2, <4>2, <4>3
    <3> QED
      BY <3>1, <3>2
  <2> QED
    BY <2>1
<1>6. Cut(s) = CHOOSE g : g = D(g)
  BY DEF Cut, NoText
<1> HIDE DEF F
<1>7. Cut(s) = D(Cut(s))
  <2>1. \E g : g = D(g)
    BY <1>5
  <2> HIDE DEF D
  <2> QED
    BY <1>6, <2>1
<1>8. /\ DOMAIN Cut(s) = 0..Len(s)
      /\ \A n \in 0..Len(s) : Cut(s)[n] = IF n = 0 THEN NoText ELSE Joined(Cut(s)[n - 1], s[n])
  <2> DEFINE C == Cut(s)
  <2>1. C = [n \in 0..Len(s) |-> IF n = 0 THEN NoText ELSE Joined(C[n - 1], s[n])]
    BY <1>7
  <2> HIDE DEF C
  <2>2. /\ DOMAIN C = 0..Len(s)
        /\ \A n \in 0..Len(s) : C[n] = IF n = 0 THEN NoText ELSE Joined(C[n - 1], s[n])
    BY <2>1
  <2> QED
    BY <2>2 DEF C
<1>9. ASSUME NEW n \in 0..(Len(s) - 1) PROVE Cut(s)[n + 1] = Joined(Cut(s)[n], s[n + 1])
  <2>1. n + 1 \in 0..Len(s) /\ n + 1 # 0 /\ (n + 1) - 1 = n
    BY <1>1
  <2> QED
    BY <1>8, <2>1
<1>10. Cut(s)[0] = NoText
  <2>1. 0 \in 0..Len(s)
    BY <1>1
  <2> QED
    BY <1>8, <2>1
<1> DEFINE S == {n \in Nat : n <= Len(s) => Cut(s)[n] \in CutState}
<1>11. 0 \in S
  BY <1>2, <1>10
<1>12. ASSUME NEW n \in Nat, n \in S PROVE n + 1 \in S
  <2> SUFFICES ASSUME n + 1 <= Len(s) PROVE Cut(s)[n + 1] \in CutState
    OBVIOUS
  <2>1. n \in 0..(Len(s) - 1) /\ n + 1 \in 1..Len(s) /\ Cut(s)[n] \in CutState
    BY <1>1, <1>12
  <2> QED
    BY <1>1, <1>9, <2>1, JoinedType
<1> HIDE DEF S
<1>13. Nat \subseteq S
  BY <1>11, <1>12, Induction
<1>14. \A n \in 0..Len(s) : Cut(s)[n] \in CutState
  BY <1>13 DEF S
<1>15. Cut(s) = [n \in 0..Len(s) |-> Cut(s)[n]]
  <2> DEFINE C == Cut(s)
  <2>1. C = D(C)
    BY <1>7
  <2> HIDE DEF C
  <2>2. C = [n \in 0..Len(s) |-> C[n]]
    BY <2>1
  <2> QED
    BY <2>2 DEF C
<1> QED
  BY <1>9, <1>10, <1>14, <1>15

\* One more character leaves the lines before it as they are.
LEMMA JoinedLines ==
  ASSUME NEW k \in CutState, NEW c \in Chars
  PROVE  /\ Len(k.lines) <= Len(Joined(k, c).lines)
         /\ \A i \in 1..Len(k.lines) : Joined(k, c).lines[i] = k.lines[i]
         /\ FlattenSeq(Joined(k, c).lines) \o Joined(k, c).line =
              Append(FlattenSeq(k.lines) \o k.line, c)
<1> DEFINE ls == k.lines
           l == k.line
           a == Append(k.line, c)
           t == FlattenSeq(k.lines)
<1>1. ls \in Seq(String) /\ l \in String /\ a \in String /\ t \in String
      /\ <<c>> \in String /\ a = l \o <<c>>
  <2>1. ls \in Seq(String) /\ l \in String
    BY DEF CutState
  <2>2. t \in String
    BY <2>1, FlattenType
  <2> HIDE DEF l
  <2>3. <<c>> \in String /\ Append(l, c) = l \o <<c>> /\ Append(l, c) \in String
    BY <2>1, StringFacts
  <2> QED
    BY <2>1, <2>2, <2>3 DEF l
<1>2. (t \o l) \o <<c>> = t \o (l \o <<c>>) /\ t \o l \in String
  BY <1>1, StringsJoin, Zenon
<1>3. Append(t \o l, c) = (t \o l) \o <<c>>
  BY <1>2, StringFacts, Zenon
<1>4. t \o a = Append(t \o l, c) /\ t \o a \in String
  <2>1. t \o a \in String
    BY <1>1, StringFacts, Zenon
  <2> QED
    BY <1>1, <1>2, <1>3, <2>1
<1>5. CASE c = Newline
  <2>1. Joined(k, c) = [lines |-> Append(ls, a), line |-> <<>>]
    BY <1>5 DEF Joined
  <2> HIDE DEF a, ls, t, l
  <2>2. Len(Append(ls, a)) = Len(ls) + 1 /\ \A i \in 1..Len(ls) : Append(ls, a)[i] = ls[i]
    BY <1>1, AppendProperties
  <2>3. FlattenSeq(Append(ls, a)) = FlattenSeq(ls) \o a
    BY <1>1, FlattenAppend
  <2>4. FlattenSeq(Append(ls, a)) \o <<>> = FlattenSeq(Append(ls, a))
    <3>1. FlattenSeq(Append(ls, a)) \in String
      BY <1>4, <2>3 DEF t, ls
    <3> QED
      BY <3>1, StringFacts, Zenon
  <2>5. Len(ls) \in Nat
    BY <1>1
  <2>6. Joined(k, c).lines = Append(ls, a) /\ Joined(k, c).line = <<>>
    BY <2>1
  <2>7. /\ Len(ls) <= Len(Joined(k, c).lines)
        /\ \A i \in 1..Len(ls) : Joined(k, c).lines[i] = ls[i]
    BY <2>2, <2>5, <2>6
  <2>8. FlattenSeq(Joined(k, c).lines) \o Joined(k, c).line = Append(t \o l, c)
    <3>1. FlattenSeq(ls) \o a = Append(t \o l, c)
      BY <1>4 DEF t, ls
    <3> QED
      BY <2>3, <2>4, <2>6, <3>1
  <2> QED
    BY <2>7, <2>8 DEF t, ls, l
<1>6. CASE c # Newline
  <2>1. Joined(k, c).lines = ls /\ Joined(k, c).line = a
    BY <1>6 DEF Joined, CutState
  <2>2. Len(ls) \in Nat
    BY <1>1
  <2> HIDE DEF a, ls, t, l
  <2>3. FlattenSeq(Joined(k, c).lines) \o Joined(k, c).line = Append(t \o l, c)
    BY <1>4, <2>1 DEF t, ls
  <2> QED
    BY <2>1, <2>2, <2>3 DEF t, ls, l
<1> QED
  BY <1>5, <1>6

\* The lines that a beginning of the text ends are the first of the text.
LEMMA LinesGrow ==
  ASSUME NEW s \in String, NEW m \in 0..Len(s)
  PROVE  \A n \in m..Len(s) :
           /\ Len(Cut(s)[m].lines) <= Len(Cut(s)[n].lines)
           /\ \A i \in 1..Len(Cut(s)[m].lines) : Cut(s)[n].lines[i] = Cut(s)[m].lines[i]
<1> DEFINE C == Cut(s)
           S == {d \in Nat : m + d <= Len(s) =>
                   /\ Len(C[m].lines) <= Len(C[m + d].lines)
                   /\ \A i \in 1..Len(C[m].lines) : C[m + d].lines[i] = C[m].lines[i]}
<1>1. /\ Len(s) \in Nat /\ \A i \in 1..Len(s) : s[i] \in Chars
      /\ C \in [0..Len(s) -> CutState]
      /\ \A n \in 0..(Len(s) - 1) : C[n + 1] = Joined(C[n], s[n + 1])
  BY CutDef DEF String
<1> HIDE DEF C
<1>2. \A n \in 0..Len(s) : C[n].lines \in Seq(String) /\ Len(C[n].lines) \in Nat
  BY <1>1 DEF CutState
<1>3. 0 \in S
  BY <1>2
<1>4. ASSUME NEW d \in Nat, d \in S PROVE d + 1 \in S
  <2> SUFFICES ASSUME m + (d + 1) <= Len(s)
               PROVE  /\ Len(C[m].lines) <= Len(C[m + (d + 1)].lines)
                      /\ \A i \in 1..Len(C[m].lines) :
                           C[m + (d + 1)].lines[i] = C[m].lines[i]
    OBVIOUS
  <2>1. PICK n \in 0..(Len(s) - 1) : n = m + d /\ m + (d + 1) = n + 1
    BY <1>1
  <2>2. /\ n \in 0..Len(s) /\ n + 1 \in 1..Len(s) /\ n + 1 \in 0..Len(s)
        /\ Len(C[m].lines) <= Len(C[n].lines)
        /\ \A i \in 1..Len(C[m].lines) : C[n].lines[i] = C[m].lines[i]
    BY <1>1, <1>4, <2>1
  <2>3. /\ Len(C[n].lines) <= Len(C[n + 1].lines)
        /\ \A i \in 1..Len(C[n].lines) : C[n + 1].lines[i] = C[n].lines[i]
    <3>1. C[n] \in CutState /\ s[n + 1] \in Chars /\ C[n + 1] = Joined(C[n], s[n + 1])
      BY <1>1, <2>2
    <3> QED
      BY <3>1, JoinedLines
  <2> HIDE DEF S
  <2>4. Len(C[m].lines) \in Nat /\ Len(C[n].lines) \in Nat /\ Len(C[n + 1].lines) \in Nat
    BY <1>2, <2>2
  <2> DEFINE a == C[m].lines
             b == C[n].lines
             c == C[n + 1].lines
  <2>5. /\ Len(a) \in Nat /\ Len(b) \in Nat /\ Len(c) \in Nat
        /\ Len(a) <= Len(b) /\ Len(b) <= Len(c)
        /\ \A i \in 1..Len(a) : b[i] = a[i]
        /\ \A i \in 1..Len(b) : c[i] = b[i]
    BY <2>2, <2>3, <2>4
  <2> HIDE DEF a, b, c
  <2>6. Len(a) <= Len(c) /\ \A i \in 1..Len(a) : c[i] = a[i]
    BY <2>5
  <2> QED
    BY <2>1, <2>6 DEF a, c
<1> HIDE DEF S
<1>5. Nat \subseteq S
  BY <1>3, <1>4, Induction
<1>6. ASSUME NEW n \in m..Len(s)
      PROVE  /\ Len(C[m].lines) <= Len(C[n].lines)
             /\ \A i \in 1..Len(C[m].lines) : C[n].lines[i] = C[m].lines[i]
  <2>1. n - m \in S /\ m + (n - m) = n /\ n <= Len(s)
    BY <1>1, <1>5
  <2> QED
    BY <2>1 DEF S
<1> QED
  BY <1>6 DEF C

\* Lines and what follows them are the text so far.
TextOf(k) == FlattenSeq(k.lines) \o k.line

LEMMA CutKeepsText ==
  ASSUME NEW s \in String
  PROVE  \A n \in 0..Len(s) :
           /\ TextOf(Cut(s)[n]) \in String /\ Len(TextOf(Cut(s)[n])) = n
           /\ \A i \in 1..n : TextOf(Cut(s)[n])[i] = s[i]
<1> DEFINE C == Cut(s)
           T(n) == TextOf(C[n])
           Is(n) == T(n) \in String /\ Len(T(n)) = n /\ \A i \in 1..n : T(n)[i] = s[i]
           S == {n \in Nat : n <= Len(s) => Is(n)}
<1>1. /\ Len(s) \in Nat /\ \A i \in 1..Len(s) : s[i] \in Chars
      /\ C \in [0..Len(s) -> CutState] /\ C[0] = NoText
      /\ \A n \in 0..(Len(s) - 1) : C[n + 1] = Joined(C[n], s[n + 1])
  BY CutDef DEF String
<1> HIDE DEF C
<1>2. 0 \in S
  <2>1. T(0) = FlattenSeq(<<>>) \o <<>>
    BY <1>1 DEF NoText, TextOf
  <2>2. T(0) = <<>> /\ T(0) \in String /\ Len(T(0)) = 0
    BY <2>1, StringFacts DEF FlattenSeq
  <2>3. Is(0)
    BY <2>2
  <2> HIDE DEF Is
  <2> QED
    BY <2>3
<1>3. ASSUME NEW n \in Nat, n \in S PROVE n + 1 \in S
  <2> HIDE DEF Is
  <2> SUFFICES ASSUME n + 1 <= Len(s) PROVE Is(n + 1)
    OBVIOUS
  <2> USE DEF Is
  <2>1. /\ n \in 0..(Len(s) - 1) /\ n \in 0..Len(s) /\ n + 1 \in 1..Len(s)
        /\ T(n) \in String /\ Len(T(n)) = n /\ \A i \in 1..n : T(n)[i] = s[i]
    <3> HIDE DEF Is
    <3>1. Is(n) /\ n \in 0..(Len(s) - 1) /\ n \in 0..Len(s) /\ n + 1 \in 1..Len(s)
      BY <1>1, <1>3
    <3> HIDE DEF T
    <3> QED
      BY <3>1 DEF Is
  <2>2. C[n] \in CutState /\ s[n + 1] \in Chars /\ C[n + 1] = Joined(C[n], s[n + 1])
    BY <1>1, <2>1
  <2>3. T(n + 1) = Append(T(n), s[n + 1])
    BY <2>2, JoinedLines DEF TextOf
  <2> HIDE DEF T, S
  <2>4. Append(T(n), s[n + 1]) \in String
    BY <2>1, <2>2, StringFacts, Zenon
  <2>5. /\ Len(Append(T(n), s[n + 1])) = n + 1
        /\ \A i \in 1..n : Append(T(n), s[n + 1])[i] = T(n)[i]
        /\ Append(T(n), s[n + 1])[n + 1] = s[n + 1]
    BY <2>1, <2>2, AppendProperties DEF String
  <2>6. ASSUME NEW i \in 1..(n + 1) PROVE Append(T(n), s[n + 1])[i] = s[i]
    <3>1. i \in 1..n \/ i = n + 1
      OBVIOUS
    <3> QED
      BY <2>1, <2>5, <3>1
  <2> QED
    BY <2>3, <2>4, <2>5, <2>6
<1> HIDE DEF S, T, Is
<1>4. Nat \subseteq S
  BY <1>2, <1>3, Induction
<1>5. \A n \in 0..Len(s) : Is(n)
  <2>1. Len(s) \in Nat
    BY <1>1
  <2> QED
    BY <1>4, <2>1 DEF S
<1> QED
  BY <1>5 DEF T, C, Is
-----------------------------------------------------------------------------
(* The invariant.                                                          *)

FrameSet == [state : {"undriven", "idle", "sending"}, char : 0..255, t : Nat]
RxSet == [sm : {"IDLE", "DETECT_START_BIT", "DETECT_MID_START_BIT",
                "DETECT_MID_DATA_BIT", "STOP_BIT"},
          left : 0..868, char : 0..255, pos : 0..8]

Types ==
  /\ frame \in FrameSet /\ frame.t <= 8640 /\ rx \in RxSet
  /\ hold \in Nat /\ hold <= 7722
  /\ str \in String /\ q \in Seq(String) /\ shown \in Seq(String)
  /\ riscof \in BOOLEAN /\ done \in BOOLEAN

\* The driver: nothing is sent before the UART is set up, and the FIFO holds
\* one character at most.
SetUp ==
  /\ text \in Texts /\ pc \in 1..6 /\ rest \in String
  /\ lcr = IF pc \in {2, 3} THEN 128 ELSE 3
  /\ dl = IF pc <= 2 THEN 0 ELSE 27
  /\ fifo = <<>> \/ \E c \in Chars : fifo = <<c>>
  /\ pc <= 5 => fifo = <<>> /\ hold = 0 /\ rest = Written

\* Where the receiver is when t turns of the frame have passed: its samples are at
\* 543, the middle of the start bit, and every 868 turns from there.
Following(f, r) ==
  \/ r.sm = "DETECT_START_BIT" /\ (f.t < 108 \/ 8355 <= f.t)
  \/ r.sm = "DETECT_MID_START_BIT" /\ 108 <= f.t /\ r.left > 0 /\ f.t + r.left = 543
  \/ /\ r.sm = "DETECT_MID_DATA_BIT" /\ r.pos <= 7 /\ r.left > 0 /\ 543 <= f.t
     /\ f.t + r.left = 1411 + (868 * r.pos) /\ r.char = f.char % (2^r.pos)
  \/ /\ r.sm = "STOP_BIT" /\ r.pos = 8 /\ r.left > 0 /\ 543 <= f.t /\ f.t + r.left = 8355
     /\ r.char = f.char

\* The receiver and the line.
InStep(f, r) ==
  /\ f.state = "undriven" => f.t \in {0, 1} /\ r.sm = "IDLE"
  /\ f.state = "idle" => r.sm \in {"IDLE", "DETECT_START_BIT"}
  /\ f.state = "sending" => f.char \in Chars /\ f.t < 8640 /\ Following(f, r)
  /\ r.sm \in {"IDLE", "DETECT_START_BIT"} => r.left = 0

Tracking ==
  /\ InStep(frame, rx)
  /\ frame.state = "undriven" => pc = 1
  /\ frame.state = "sending" => pc = 6

\* What has not yet arrived.
Pending == UnderWay \o (fifo \o rest)

Halted == IF done THEN <<HALT>> ELSE <<>>

\* After n characters have arrived the lines taken, those in m_q and m_uart_str are
\* the first n characters, cut.
Assembled ==
  \E n \in 0..Len(Written) :
    /\ n + Len(Pending) = Len(Written)
    /\ \A i \in 1..Len(Pending) : Pending[i] = Written[n + i]
    /\ Cut(Written)[n].lines = (shown \o Halted) \o q
    /\ Cut(Written)[n].line = str

\* The halt line is not handed on, and ends riscof mode only.
Unhalted ==
  /\ riscof => \A i \in 1..Len(shown) : shown[i] # HALT
  /\ done => riscof

UartInv == Types /\ SetUp /\ Tracking /\ Assembled /\ Unhalted
-----------------------------------------------------------------------------
(* What the invariant says, in the words of the properties.                *)

\* The fields of the transmitter and the receiver.
LEMMA Fields ==
  ASSUME Types
  PROVE  /\ frame.state \in {"undriven", "idle", "sending"}
         /\ frame.char \in 0..255 /\ frame.t \in Nat /\ frame.t <= 8640
         /\ rx.sm \in {"IDLE", "DETECT_START_BIT", "DETECT_MID_START_BIT",
                       "DETECT_MID_DATA_BIT", "STOP_BIT"}
         /\ rx.left \in 0..868 /\ rx.char \in 0..255 /\ rx.pos \in 0..8
         /\ hold \in Nat /\ hold <= 7722
<1>1. frame.state \in {"undriven", "idle", "sending"} /\ frame.char \in 0..255
      /\ frame.t \in Nat
  BY DEF Types, FrameSet
<1>2. /\ rx.sm \in {"IDLE", "DETECT_START_BIT", "DETECT_MID_START_BIT",
                    "DETECT_MID_DATA_BIT", "STOP_BIT"}
      /\ rx.left \in 0..868 /\ rx.char \in 0..255 /\ rx.pos \in 0..8
  BY DEF Types, RxSet
<1>3. frame.t <= 8640 /\ hold \in Nat /\ hold <= 7722
  BY DEF Types
<1> QED
  BY <1>1, <1>2, <1>3

LEMMA WrittenType == text \in Texts => Written \in String
<1> SUFFICES ASSUME text \in Texts PROVE Written \in String
  OBVIOUS
<1>1. text \in Seq(String)
  BY UartAssumption DEF String, Chars
<1> QED
  BY <1>1, FlattenType DEF Written

LEMMA PendingType ==
  ASSUME Types, SetUp, InStep(frame, rx)
  PROVE  /\ UnderWay \in String /\ fifo \in String /\ rest \in String
         /\ fifo \o rest \in String /\ Pending \in String
<1>1. frame.state = "sending" => frame.char \in Chars
  BY DEF InStep
<1>2. UnderWay \in String
  BY <1>1, StringFacts DEF UnderWay
<1>3. fifo \in String /\ rest \in String
  BY StringFacts DEF SetUp
<1>4. fifo \o rest \in String
  BY <1>3, StringFacts, Zenon
<1> QED
  BY <1>2, <1>3, <1>4, StringFacts, Zenon DEF Pending

LEMMA LinesType ==
  ASSUME Types
  PROVE  /\ Halted \in Seq(String) /\ shown \o Halted \in Seq(String)
         /\ (shown \o Halted) \o q \in Seq(String) /\ HALT \in String
         /\ FlattenSeq(Halted) = IF done THEN HALT ELSE <<>>
<1>1. HALT \in String
  BY UartAssumption DEF String, Chars
<1>2. Halted \in Seq(String)
  BY <1>1 DEF Halted
<1>3. FlattenSeq(<<>>) = <<>> /\ <<>> \in Seq(String)
  BY DEF FlattenSeq
<1>4. FlattenSeq(<<HALT>>) = HALT
  <2>1. Append(<<>>, HALT) = <<HALT>>
    OBVIOUS
  <2>2. FlattenSeq(<<HALT>>) = <<>> \o HALT
    BY <1>1, <1>3, <2>1, FlattenAppend
  <2>3. <<>> \o HALT = HALT
    BY <1>1, StringFacts, Zenon
  <2> QED
    BY <2>2, <2>3
<1>5. shown \o Halted \in Seq(String)
  BY <1>2, ConcatProperties DEF Types
<1>6. (shown \o Halted) \o q \in Seq(String)
  BY <1>5, ConcatProperties DEF Types
<1> QED
  BY <1>1, <1>2, <1>3, <1>4, <1>5, <1>6 DEF Halted

LEMMA SaysConserved ==
  ASSUME UartInv
  PROVE  CharsConserved
<1>1. Types /\ SetUp /\ InStep(frame, rx) /\ Written \in String /\ q \in Seq(String)
      /\ shown \in Seq(String) /\ str \in String
  BY WrittenType DEF UartInv, SetUp, Tracking, Types
<1>2. PICK n \in 0..Len(Written) :
        /\ n + Len(Pending) = Len(Written)
        /\ \A i \in 1..Len(Pending) : Pending[i] = Written[n + i]
        /\ Cut(Written)[n].lines = (shown \o Halted) \o q
        /\ Cut(Written)[n].line = str
  BY DEF UartInv, Assembled
<1>3. FlattenSeq((shown \o Halted) \o q) = (FlattenSeq(shown) \o FlattenSeq(Halted)) \o FlattenSeq(q)
  <2>1. FlattenSeq((shown \o Halted) \o q) = FlattenSeq(shown \o Halted) \o FlattenSeq(q)
    BY <1>1, LinesType, FlattenConcat
  <2>2. FlattenSeq(shown \o Halted) = FlattenSeq(shown) \o FlattenSeq(Halted)
    BY <1>1, LinesType, FlattenConcat
  <2> QED
    BY <2>1, <2>2
<1> DEFINE T == TextOf(Cut(Written)[n])
<1>4. T = Arrived
  BY <1>1, <1>2, <1>3, LinesType DEF TextOf, Arrived
<1>5. T \in String /\ Len(T) = n /\ \A i \in 1..n : T[i] = Written[i]
  BY <1>1, CutKeepsText
<1> HIDE DEF T
<1>6. T \o Pending = Written
  <2> DEFINE W == Written
             P == Pending
  <2>1. T \in Seq(Chars) /\ P \in Seq(Chars) /\ W \in Seq(Chars)
    BY <1>1, <1>5, PendingType DEF String
  <2>2. Len(W) = n + Len(P) /\ \A i \in 1..Len(P) : P[i] = W[n + i]
    BY <1>2
  <2>3. \A i \in 1..n : T[i] = W[i]
    BY <1>5
  <2> HIDE DEF W, P
  <2>4. /\ T \o P \in Seq(Chars) /\ Len(T \o P) = n + Len(P) /\ Len(P) \in Nat
        /\ \A i \in 1..(n + Len(P)) : (T \o P)[i] = IF i <= n THEN T[i] ELSE P[i - n]
    <3>1. /\ T \o P \in Seq(Chars) /\ Len(T \o P) = Len(T) + Len(P)
          /\ \A i \in 1..(Len(T) + Len(P)) :
               (T \o P)[i] = IF i <= Len(T) THEN T[i] ELSE P[i - Len(T)]
      BY <2>1, ConcatProperties
    <3>2. Len(P) \in Nat
      BY <2>1
    <3> QED
      BY <1>5, <3>1, <3>2
  <2>5. ASSUME NEW i \in 1..(n + Len(P)) PROVE (T \o P)[i] = W[i]
    <3>1. CASE i <= n
      BY <2>3, <2>4, <3>1
    <3>2. CASE ~(i <= n)
      <4>1. i - n \in 1..Len(P) /\ n + (i - n) = i
        BY <2>4, <3>2
      <4> QED
        BY <2>2, <2>4, <3>2, <4>1
    <3> QED
      BY <3>1, <3>2
  <2> QED
    BY <2>1, <2>2, <2>4, <2>5, SeqEqual DEF W, P
<1>7. Arrived \o UnderWay \o fifo \o rest = Arrived \o Pending
  <2>1. Arrived \in String /\ UnderWay \in String /\ fifo \in String /\ rest \in String
        /\ fifo \o rest \in String
    <3>1. Arrived \in String
      BY <1>4, <1>5
    <3>2. /\ UnderWay \in String /\ fifo \in String /\ rest \in String
          /\ fifo \o rest \in String
      BY <1>1, PendingType
    <3> QED
      BY <3>1, <3>2
  <2>2. Arrived \o UnderWay \in String
    BY <2>1, StringsJoin, Zenon
  <2>3. ((Arrived \o UnderWay) \o fifo) \o rest = (Arrived \o UnderWay) \o (fifo \o rest)
    <3> DEFINE a == Arrived \o UnderWay
    <3>1. a \in String
      BY <2>2
    <3> HIDE DEF a
    <3>2. \A s, t \in String : (a \o s) \o t = a \o (s \o t)
      BY <3>1, StringsJoin, Zenon
    <3>3. (a \o fifo) \o rest = a \o (fifo \o rest)
      BY <2>1, <3>2, Zenon
    <3> QED
      BY <3>3 DEF a
  <2>4. (Arrived \o UnderWay) \o (fifo \o rest) = Arrived \o (UnderWay \o (fifo \o rest))
    BY <2>1, StringsJoin, Zenon
  <2> QED
    BY <2>3, <2>4 DEF Pending
<1> QED
  BY <1>4, <1>6, <1>7 DEF CharsConserved

LEMMA SaysInv == UartInv => Inv
<1> SUFFICES ASSUME UartInv PROVE TypeOK
  BY SaysConserved DEF Inv
<1>1. Types /\ SetUp
  BY DEF UartInv
<1>2. pc \in 1..Len(uart_init) + 1 /\ rest \in Seq(1..255)
  BY <1>1 DEF SetUp, uart_init, String, Chars
<1>3. lcr \in 0..255 /\ dl \in 0..27 /\ hold \in 0..143 * 54
  <2>1. lcr \in 0..255 /\ dl \in 0..27
    BY <1>1 DEF SetUp
  <2>2. hold \in 0..143 * 54
    BY <1>1 DEF Types
  <2> QED
    BY <2>1, <2>2
<1>4. fifo \in BoundedSeq(1..255, 1)
  <2>1. CASE fifo = <<>>
    <3>1. fifo \in [1..0 -> 1..255]
      BY <2>1
    <3> QED
      BY <3>1 DEF BoundedSeq, SeqOf
  <2>2. CASE \E c \in Chars : fifo = <<c>>
    <3>1. fifo \in [1..1 -> 1..255]
      BY <2>2 DEF Chars
    <3> QED
      BY <3>1 DEF BoundedSeq, SeqOf
  <2> QED
    BY <1>1, <2>1, <2>2 DEF SetUp
<1>5. frame \in [state : {"undriven", "idle", "sending"}, char : 0..255, t : Nat]
      /\ frame.t <= 8640
  BY <1>1 DEF Types, FrameSet
<1>6. rx \in [sm : {"IDLE", "DETECT_START_BIT", "DETECT_MID_START_BIT",
                   "DETECT_MID_DATA_BIT", "STOP_BIT"},
             left : 0..m_baud_time, char : 0..255, pos : 0..8]
  <2>1. rx \in RxSet
    BY <1>1 DEF Types
  <2> QED
    BY <2>1 DEF RxSet, m_baud_time
<1>7. /\ str \in Seq(1..255) /\ q \in Seq(Seq(1..255)) /\ shown \in Seq(Seq(1..255))
      /\ riscof \in BOOLEAN /\ done \in BOOLEAN
  BY <1>1 DEF Types, String, Chars
<1> QED
  BY <1>2, <1>3, <1>4, <1>5, <1>6, <1>7 DEF TypeOK

\* A sequence that agrees with the beginning of another is a prefix of it.
LEMMA PrefixIs ==
  ASSUME NEW X, NEW s \in Seq(X), NEW t \in Seq(X), Len(s) <= Len(t),
         \A i \in 1..Len(s) : s[i] = t[i]
  PROVE  IsPrefix(s, t) /\ SubSeq(t, 1, Len(s)) = s
<1>1. Len(s) \in Nat /\ Len(t) \in Nat /\ \A i \in 1..Len(s) : s[i] \in X /\ t[i] \in X
  OBVIOUS
<1>2. SubSeq(s, 1, Len(s)) = s
  BY SubSeqFull
<1>3. /\ SubSeq(t, 1, Len(s)) \in Seq(X) /\ Len(SubSeq(t, 1, Len(s))) = Len(s)
      /\ \A i \in 1..Len(s) : SubSeq(t, 1, Len(s))[i] = t[i]
  BY <1>1, SubSeqProperties
<1>4. SubSeq(t, 1, Len(s)) = s
  BY <1>3, SeqEqual
<1> QED
  BY <1>2, <1>4 DEF IsPrefix

LEMMA SaysLines == UartInv => LinesInOrder
<1> SUFFICES ASSUME UartInv PROVE LinesInOrder
  OBVIOUS
<1>1. Types /\ Written \in String /\ q \in Seq(String) /\ shown \in Seq(String)
      /\ Len(Written) \in Nat
  <2>1. Written \in String
    BY WrittenType DEF UartInv, SetUp
  <2>2. Len(Written) \in Nat
    BY <2>1 DEF String
  <2> QED
    BY <2>1, <2>2 DEF UartInv, Types
<1>2. PICK n \in 0..Len(Written) : Cut(Written)[n].lines = (shown \o Halted) \o q
  BY DEF UartInv, Assembled
<1> DEFINE K == (shown \o Halted) \o q
           L == Lines
<1>3. K \in Seq(String) /\ shown \o Halted \in Seq(String) /\ Halted \in Seq(String)
  BY <1>1, LinesType
<1>4. L \in Seq(String) /\ Len(L) \in Nat
  <2>1. Cut(Written)[Len(Written)] \in CutState
    <3>1. Cut(Written) \in [0..Len(Written) -> CutState]
      BY <1>1, CutDef
    <3>2. Len(Written) \in 0..Len(Written)
      BY <1>1
    <3> QED
      BY <3>1, <3>2
  <2> QED
    BY <2>1 DEF CutState, Lines
<1>5. Len(K) <= Len(L) /\ \A i \in 1..Len(K) : L[i] = K[i]
  <2>1. Len(Written) \in n..Len(Written)
    BY <1>1
  <2> DEFINE W == Written
  <2>2. W \in String /\ n \in 0..Len(W) /\ Len(W) \in n..Len(W)
    BY <1>1, <2>1
  <2> HIDE DEF W
  <2>3. /\ Len(Cut(W)[n].lines) <= Len(Cut(W)[Len(W)].lines)
        /\ \A i \in 1..Len(Cut(W)[n].lines) : Cut(W)[Len(W)].lines[i] = Cut(W)[n].lines[i]
    BY <2>2, LinesGrow
  <2> QED
    BY <1>2, <2>3 DEF Lines, W
<1>6. /\ Len(shown) \in Nat /\ Len(shown) <= Len(L)
      /\ \A i \in 1..Len(shown) : shown[i] = L[i]
      /\ done => Len(shown) + 1 <= Len(L) /\ L[Len(shown) + 1] = HALT
  <2> DEFINE h == Halted
             sh == shown \o Halted
  <2>1. /\ Len(shown) \in Nat /\ Len(h) \in Nat /\ Len(q) \in Nat
        /\ Len(sh) = Len(shown) + Len(h) /\ Len(K) = Len(sh) + Len(q)
        /\ \A i \in 1..Len(shown) : sh[i] = shown[i]
        /\ \A i \in 1..Len(h) : sh[Len(shown) + i] = h[i]
        /\ \A i \in 1..Len(sh) : K[i] = sh[i]
    <3>1. /\ Len(shown) \in Nat /\ Len(h) \in Nat /\ Len(q) \in Nat
      BY <1>1, <1>3
    <3>2. /\ Len(sh) = Len(shown) + Len(h)
          /\ \A i \in 1..(Len(shown) + Len(h)) :
               sh[i] = IF i <= Len(shown) THEN shown[i] ELSE h[i - Len(shown)]
      BY <1>1, <1>3, ConcatProperties
    <3> HIDE DEF h, sh
    <3>3. /\ Len(sh \o q) = Len(sh) + Len(q)
          /\ \A i \in 1..(Len(sh) + Len(q)) :
               (sh \o q)[i] = IF i <= Len(sh) THEN sh[i] ELSE q[i - Len(sh)]
      BY <1>1, <1>3, ConcatProperties DEF sh
    <3>4. K = sh \o q
      BY DEF sh
    <3> HIDE DEF K
    <3>5. \A i \in 1..Len(h) : sh[Len(shown) + i] = h[i]
      <4> SUFFICES ASSUME NEW i \in 1..Len(h) PROVE sh[Len(shown) + i] = h[i]
        OBVIOUS
      <4>1. /\ Len(shown) + i \in 1..(Len(shown) + Len(h)) /\ ~(Len(shown) + i <= Len(shown))
            /\ (Len(shown) + i) - Len(shown) = i
        BY <3>1
      <4> QED
        BY <3>2, <4>1
    <3>6. \A i \in 1..Len(shown) : sh[i] = shown[i]
      BY <3>1, <3>2
    <3>7. \A i \in 1..Len(sh) : K[i] = sh[i]
      BY <3>1, <3>2, <3>3, <3>4
    <3> QED
      BY <3>1, <3>2, <3>3, <3>4, <3>5, <3>6, <3>7
  <2>2. done => Len(h) = 1 /\ h[1] = HALT
    BY DEF Halted
  <2> HIDE DEF h, sh, K, L
  <2>3. \A i \in 1..Len(shown) : i \in 1..Len(sh) /\ i \in 1..Len(K)
    BY <2>1
  <2>4. \A i \in 1..Len(shown) : shown[i] = L[i]
    BY <1>5, <2>1, <2>3
  <2>5. ASSUME done PROVE Len(shown) + 1 <= Len(L) /\ L[Len(shown) + 1] = HALT
    <3>1. Len(h) = 1 /\ Len(sh) = Len(shown) + 1 /\ Len(K) = Len(sh) + Len(q)
          /\ Len(shown) \in Nat /\ Len(q) \in Nat
      BY <2>1, <2>2, <2>5
    <3>2. Len(shown) + 1 \in 1..Len(sh) /\ Len(shown) + 1 \in 1..Len(K) /\ 1 \in 1..Len(h)
      BY <3>1
    <3> QED
      BY <1>4, <1>5, <2>1, <2>2, <2>5, <3>1, <3>2
  <2> QED
    BY <1>4, <1>5, <2>1, <2>4, <2>5
<1>7. IsPrefix(shown, L) /\ SubSeq(L, 1, Len(shown)) = shown
  BY <1>1, <1>4, <1>6, PrefixIs
<1>8. /\ riscof => \A i \in 1..Len(shown) : shown[i] # HALT
      /\ done => riscof
  BY DEF UartInv, Unhalted
<1>9. CASE ~(riscof /\ Contains(L, HALT))
  <2>1. Expected = L
    BY <1>9 DEF Expected
  <2>2. ~done
    <3>1. ASSUME done PROVE Contains(L, HALT)
      <4>1. Len(shown) + 1 \in 1..Len(L)
        BY <1>4, <1>6, <3>1
      <4> QED
        BY <1>6, <3>1, <4>1 DEF Contains
    <3> QED
      BY <1>8, <1>9, <3>1
  <2> QED
    BY <1>7, <2>1, <2>2 DEF LinesInOrder
<1>10. CASE riscof /\ Contains(L, HALT)
  <2> DEFINE I == {i \in 1..Len(L) : L[i] = HALT}
  <2>1. I # {} /\ I \subseteq Nat
    BY <1>4, <1>10 DEF Contains
  <2>2. PICK k \in I : \A j \in I : k <= j
    BY <2>1, Least
  <2>3. SelectInSeq(L, LAMBDA l : l = HALT) = k
    <3>1. Min(I) = k
      <4>1. \A j \in I : (\A i \in I : j <= i) => j = k
        BY <2>1, <2>2
      <4> HIDE DEF I
      <4> QED
        BY <2>2, <4>1 DEF Min
    <3> QED
      BY <2>1, <3>1 DEF SelectInSeq
  <2>4. Expected = SubSeq(L, 1, k - 1)
    BY <1>10, <2>3 DEF Expected
  <2>5. k \in 1..Len(L) /\ L[k] = HALT /\ k - 1 \in Nat /\ k - 1 <= Len(L)
    BY <1>4, <2>2
  <2>6. Len(shown) <= k - 1
    <3>1. ~(k <= Len(shown))
      <4>1. k <= Len(shown) => k \in 1..Len(shown)
        BY <1>6, <2>5
      <4> QED
        BY <1>6, <1>8, <1>10, <2>5, <4>1
    <3> QED
      BY <1>6, <2>5, <3>1
  <2>7. done => Len(shown) = k - 1
    <3>1. done => Len(shown) + 1 \in I
      BY <1>4, <1>6
    <3> QED
      BY <1>6, <2>2, <2>5, <2>6, <3>1
  <2> DEFINE X == SubSeq(L, 1, k - 1)
  <2>8. /\ X \in Seq(String) /\ Len(X) = k - 1 /\ \A i \in 1..(k - 1) : X[i] = L[i]
    <3>1. \A i \in 1..(k - 1) : L[i] \in String
      BY <1>4, <2>5
    <3> QED
      BY <2>5, <3>1, SubSeqProperties
  <2> HIDE DEF X
  <2>9. IsPrefix(shown, X)
    BY <1>1, <1>6, <2>6, <2>8, PrefixIs
  <2>10. done => shown = X
    BY <1>7, <2>7 DEF X
  <2> QED
    BY <2>4, <2>9, <2>10 DEF LinesInOrder, X
<1> QED
  BY <1>9, <1>10
-----------------------------------------------------------------------------
(* The program: the start, the initialisation and a character written.     *)

Taken == (shown \o Halted) \o q

LEMMA AssembledSame ==
  ASSUME Assembled, Pending' = Pending, Taken' = Taken, UNCHANGED <<text, str>>
  PROVE  Assembled'
<1>1. Written' = Written
  BY DEF Written
<1>2. PICK n \in 0..Len(Written) :
        /\ n + Len(Pending) = Len(Written)
        /\ \A i \in 1..Len(Pending) : Pending[i] = Written[n + i]
        /\ Cut(Written)[n].lines = Taken
        /\ Cut(Written)[n].line = str
  BY DEF Assembled, Taken
<1>3. /\ n \in 0..Len(Written') /\ n + Len(Pending') = Len(Written')
      /\ \A i \in 1..Len(Pending') : Pending'[i] = Written'[n + i]
      /\ Cut(Written')[n].lines = Taken' /\ Cut(Written')[n].line = str'
  BY <1>1, <1>2
<1> QED
  BY <1>3 DEF Assembled, Taken

LEMMA InitUart == Init => UartInv
<1> SUFFICES ASSUME Init PROVE UartInv
  OBVIOUS
<1>1. Written \in String /\ rest = Written
  BY WrittenType DEF Init, Written
<1>2. Types
  <2>1. <<>> \in String /\ <<>> \in Seq(String)
    BY StringFacts
  <2>2. str \in String /\ q \in Seq(String) /\ shown \in Seq(String)
    BY <2>1 DEF Init
  <2>3. frame \in FrameSet
    <3>1. NoFrame \in FrameSet
      BY DEF NoFrame, FrameSet
    <3>2. [NoFrame EXCEPT !.state = "undriven"] \in FrameSet
      BY <3>1 DEF FrameSet
    <3> QED
      BY <3>1, <3>2 DEF Init
  <2>4. rx \in RxSet
    BY DEF Init, RxSet
  <2>5. riscof \in BOOLEAN /\ done \in BOOLEAN
    BY DEF Init
  <2>6. frame.t <= 8640 /\ hold \in Nat /\ hold <= 7722
    BY DEF Init, NoFrame
  <2> QED
    BY <2>2, <2>3, <2>4, <2>5, <2>6 DEF Types
<1>3. SetUp
  BY <1>1 DEF Init, SetUp
<1>4. Tracking
  BY DEF Init, Tracking, InStep, NoFrame
<1>5. Assembled
  <2>1. UnderWay = <<>> /\ fifo = <<>>
    BY DEF Init, UnderWay, NoFrame
  <2>2. <<>> \o rest = rest
    BY <1>1, StringFacts, Zenon
  <2>3. Pending = Written
    BY <1>1, <2>1, <2>2 DEF Pending
  <2>4. /\ Len(Written) \in Nat /\ 0 \in 0..Len(Written)
    BY <1>1 DEF String
  <2>5. Cut(Written)[0] = NoText
    BY <1>1, CutDef
  <2>6. (shown \o Halted) \o q = <<>> /\ str = <<>>
    BY DEF Init, Halted
  <2>7. Cut(Written)[0].lines = (shown \o Halted) \o q /\ Cut(Written)[0].line = str
    BY <2>5, <2>6 DEF NoText
  <2>8. /\ 0 + Len(Pending) = Len(Written)
        /\ \A i \in 1..Len(Pending) : Pending[i] = Written[0 + i]
    BY <2>3, <2>4
  <2> QED
    BY <2>4, <2>7, <2>8 DEF Assembled
<1>6. Unhalted
  BY DEF Init, Unhalted
<1> QED
  BY <1>2, <1>3, <1>4, <1>5, <1>6 DEF UartInv

LEMMA InitWriteStep == UartInv /\ InitWrite => UartInv'
<1> SUFFICES ASSUME UartInv, InitWrite PROVE UartInv'
  OBVIOUS
<1>1. /\ Types /\ SetUp /\ Tracking /\ Assembled /\ Unhalted
      /\ pc \in 1..5 /\ pc' = pc + 1
      /\ UNCHANGED <<text, rest, frame, rx, str, q, riscof, shown, done>>
      /\ fifo = <<>> /\ hold = 0 /\ rest = Written
  BY DEF UartInv, InitWrite, SetUp, uart_init
<1>2. /\ lcr' = IF pc' \in {2, 3} THEN 128 ELSE 3
      /\ dl' = IF pc' <= 2 THEN 0 ELSE 27
      /\ fifo' = <<>> /\ hold' = 0
  <2>1. pc = 1 \/ pc = 2 \/ pc = 3 \/ pc = 4 \/ pc = 5
    BY <1>1
  <2>2. CASE pc = 1
    BY <1>1, <2>2 DEF InitWrite, WRITE_UART_REG, uart_init, SetUp, Dlab, UART_FIFO_TX_EMPTY,
       UART_TX_HOLD_REG, UART_DLAB_LSB, UART_FIFO_CTRL, UART_LINE_CTRL, UART_INTERRUPT_EN
  <2>3. CASE pc = 2
    BY <1>1, <2>3 DEF InitWrite, WRITE_UART_REG, uart_init, SetUp, Dlab, UART_FIFO_TX_EMPTY,
       UART_TX_HOLD_REG, UART_DLAB_LSB, UART_FIFO_CTRL, UART_LINE_CTRL, UART_INTERRUPT_EN
  <2>4. CASE pc = 3
    BY <1>1, <2>4 DEF InitWrite, WRITE_UART_REG, uart_init, SetUp, Dlab, UART_FIFO_TX_EMPTY,
       UART_TX_HOLD_REG, UART_DLAB_LSB, UART_FIFO_CTRL, UART_LINE_CTRL, UART_INTERRUPT_EN
  <2>5. CASE pc = 4
    BY <1>1, <2>5 DEF InitWrite, WRITE_UART_REG, uart_init, SetUp, Dlab, UART_FIFO_TX_EMPTY,
       UART_TX_HOLD_REG, UART_DLAB_LSB, UART_FIFO_CTRL, UART_LINE_CTRL, UART_INTERRUPT_EN
  <2>6. CASE pc = 5
    BY <1>1, <2>6 DEF InitWrite, WRITE_UART_REG, uart_init, SetUp, Dlab, UART_FIFO_TX_EMPTY,
       UART_TX_HOLD_REG, UART_DLAB_LSB, UART_FIFO_CTRL, UART_LINE_CTRL, UART_INTERRUPT_EN
  <2> QED
    BY <2>1, <2>2, <2>3, <2>4, <2>5, <2>6
<1>3. frame.state = "idle"
  <2>1. frame.state \in {"undriven", "idle", "sending"} /\ frame.state # "undriven"
    BY <1>1, Fields DEF InitWrite, Running
  <2> QED
    BY <1>1, <2>1 DEF Tracking
<1>4. Types'
  BY <1>1, <1>2 DEF Types
<1>5. SetUp'
  BY <1>1, <1>2 DEF SetUp, Written
<1>6. Tracking'
  BY <1>1, <1>3 DEF Tracking, InStep, Following
<1>7. Assembled'
  <2>1. UnderWay = <<>> /\ UnderWay' = <<>>
    BY <1>1, <1>3 DEF UnderWay
  <2>2. Pending' = Pending
    BY <1>1, <1>2, <2>1 DEF Pending
  <2> QED
    BY <1>1, <2>2, AssembledSame DEF Taken, Halted
<1>8. Unhalted'
  BY <1>1 DEF Unhalted
<1> QED
  BY <1>4, <1>5, <1>6, <1>7, <1>8 DEF UartInv

LEMMA WriteStep == UartInv /\ uart_write_str => UartInv'
<1> SUFFICES ASSUME UartInv, uart_write_str PROVE UartInv'
  OBVIOUS
<1>1. /\ Types /\ SetUp /\ Tracking /\ Assembled /\ Unhalted
      /\ pc = 6 /\ lcr = 3 /\ dl = 27 /\ rest \in String /\ rest # <<>>
      /\ fifo = <<>> /\ rest' = Tail(rest)
      /\ UNCHANGED <<pc, text, frame, rx, str, q, riscof, shown, done>>
  BY DEF UartInv, uart_write_str, uart_write_char, UART_FIFO_TX_EMPTY, SetUp, uart_init
<1>2. Head(rest) \in Chars /\ Tail(rest) \in String /\ rest = <<Head(rest)>> \o Tail(rest)
  BY <1>1, HeadTailProperties, ConcatProperties DEF String
<1>3. lcr' = 3 /\ dl' = 27 /\ fifo' = <<Head(rest)>> /\ hold' = 7722
  BY <1>1, <1>2, UartAssumption
     DEF uart_write_str, uart_write_char, WRITE_UART_REG, Dlab, UART_FIFO_TX_EMPTY, Enable,
         UART_TX_HOLD_REG, UART_DLAB_LSB, UART_FIFO_CTRL, UART_LINE_CTRL
<1>4. Types'
  BY <1>1, <1>3 DEF Types
<1>5. SetUp'
  BY <1>1, <1>2, <1>3 DEF SetUp
<1>6. Tracking'
  BY <1>1 DEF Tracking, InStep, Following
<1>7. Assembled'
  <2>1. fifo \o rest = rest /\ fifo' \o rest' = rest
    BY <1>1, <1>2, <1>3, StringFacts
  <2>2. Pending' = Pending
    BY <1>1, <1>3, <2>1 DEF Pending, UnderWay, Lead, BitTime, Enable
  <2> QED
    BY <1>1, <2>2, AssembledSame DEF Taken, Halted
<1>8. Unhalted'
  BY <1>1 DEF Unhalted
<1> QED
  BY <1>4, <1>5, <1>6, <1>7, <1>8 DEF UartInv
-----------------------------------------------------------------------------
(* A turn of the loop: how long it takes and what it does to the line.     *)

\* Of a character that is sent, the UART is set up: bits of 864 turns in a frame of 8640.
LEMMA Rates ==
  ASSUME SetUp, pc = 6
  PROVE  /\ lcr = 3 /\ dl = 27 /\ Enable = 54 /\ BitTime = 864 /\ DataBits = 8
         /\ Lead = 108 /\ FrameTime = 8640
<1>1. lcr = 3 /\ dl = 27
  BY DEF SetUp
<1>2. Enable = 54 /\ BitTime = 864 /\ DataBits = 8
  BY <1>1 DEF Enable, BitTime, DataBits
<1>3. Lead = 108 /\ FrameTime = 8640
  BY <1>2 DEF Lead, FrameTime
<1> QED
  BY <1>1, <1>2, <1>3

LEMMA ElapseFacts ==
  ASSUME Types, SetUp, Tracking, NEW d \in Elapse
  PROVE  /\ d \in Nat \ {0}
         /\ rx.left > 0 => d <= rx.left
         /\ frame.state = "sending" => /\ frame.t + d <= 8640
                                       /\ frame.t < 108 => frame.t + d <= 108
         /\ frame.state = "undriven" => d = 1
<1>1. /\ frame.t \in Nat /\ rx.left \in Nat /\ hold \in Nat /\ dl \in {0, 27}
      /\ frame.state = "sending" => pc = 6 /\ frame.t < 8640
  <2>1. dl \in {0, 27}
    BY DEF SetUp
  <2>2. frame.state = "sending" => pc = 6 /\ frame.t < 8640
    BY DEF Tracking, InStep
  <2>3. frame.t \in Nat /\ rx.left \in 0..868 /\ hold \in Nat
    BY Fields
  <2> QED
    BY <2>1, <2>2, <2>3
<1>2. frame.state = "sending" =>
        Edges = {108 + 864 * k : k \in 0..9} \cup {8640}
  <2> SUFFICES ASSUME frame.state = "sending"
               PROVE  Edges = {108 + 864 * k : k \in 0..9} \cup {8640}
    OBVIOUS
  <2>1. BitTime = 864 /\ DataBits = 8 /\ Lead = 108 /\ FrameTime = 8640
    BY <1>1, Rates
  <2>2. DataBits + 1 = 9
    BY <2>1
  <2> QED
    BY <2>1, <2>2 DEF Edges
<1>3. Waits \subseteq Nat \ {0}
  <2>1. frame.state = "sending" => {e - frame.t : e \in {e \in Edges : e > frame.t}} \subseteq Nat \ {0}
    <3> SUFFICES ASSUME frame.state = "sending", NEW e \in Edges, e > frame.t
                 PROVE  e - frame.t \in Nat \ {0}
      OBVIOUS
    <3>1. e \in Nat
      BY <1>2
    <3> QED
      BY <1>1, <3>1
  <2>2. dl > 0 => Enable \in Nat \ {0}
    BY <1>1 DEF Enable
  <2> QED
    BY <1>1, <2>1, <2>2 DEF Waits
<1>4. d \in Nat \ {0} /\ \A w \in Waits : d <= w
  <2>1. CASE Waits = {}
    BY <2>1 DEF Elapse
  <2>2. CASE Waits # {}
    <3>1. d = Min(Waits)
      BY <2>2 DEF Elapse
    <3>2. \E n \in Waits : \A m \in Waits : n <= m
      BY <1>3, <2>2, Least
    <3>3. d \in Waits /\ \A w \in Waits : d <= w
      BY <3>1, <3>2 DEF Min
    <3> QED
      BY <1>3, <3>3
  <2> QED
    BY <2>1, <2>2
<1>5. rx.left > 0 => rx.left \in Waits
  BY DEF Waits
<1>6. frame.state = "undriven" => 1 \in Waits
  BY DEF Waits
<1>7. ASSUME frame.state = "sending"
      PROVE  /\ 8640 - frame.t \in Waits
             /\ frame.t < 108 => 108 - frame.t \in Waits
  <2>1. 8640 \in Edges /\ 8640 > frame.t
    BY <1>1, <1>2, <1>7
  <2>2. 108 \in Edges
    <3>1. 0 \in 0..9 /\ 108 + 864 * 0 = 108
      OBVIOUS
    <3> QED
      BY <1>2, <1>7, <3>1
  <2>3. \A e \in Edges : e > frame.t => e - frame.t \in Waits
    BY <1>7 DEF Waits
  <2>4. frame.t < 108 => 108 > frame.t
    BY <1>1
  <2> QED
    BY <2>1, <2>2, <2>3, <2>4
<1>8. rx.left > 0 => d <= rx.left
  BY <1>4, <1>5
<1>9. frame.state = "undriven" => d = 1
  BY <1>4, <1>6
<1>10. frame.state = "sending" => /\ frame.t + d <= 8640
                                  /\ frame.t < 108 => frame.t + d <= 108
  <2> SUFFICES ASSUME frame.state = "sending"
               PROVE  frame.t + d <= 8640 /\ (frame.t < 108 => frame.t + d <= 108)
    OBVIOUS
  <2>1. d <= 8640 - frame.t /\ (frame.t < 108 => d <= 108 - frame.t)
    BY <1>4, <1>7
  <2> QED
    BY <1>1, <1>4, <2>1
<1> QED
  BY <1>4, <1>8, <1>9, <1>10

\* What the transmitter does in d turns.
Begins(c) == frame' = [state |-> "sending", char |-> c, t |-> 0]

LEMMA TransmitFacts ==
  ASSUME Types, SetUp, Tracking, NEW d \in Nat \ {0}, Transmit(d),
         frame.state = "sending" => frame.t + d <= 8640
  PROVE  /\ frame.state = "undriven" =>
              /\ fifo = <<>> /\ fifo' = <<>>
              /\ frame.t = 0 => frame' = [frame EXCEPT !.t = d]
              /\ frame.t = 1 => frame' = NoFrame
         /\ frame.state = "idle" \/ (frame.state = "sending" /\ frame.t + d = 8640) =>
              \/ fifo = <<>> /\ fifo' = <<>> /\ frame' = NoFrame
              \/ /\ pc = 6 /\ fifo' = <<>>
                 /\ \E c \in Chars : fifo = <<c>> /\ Begins(c)
         /\ frame.state = "sending" /\ frame.t + d # 8640 =>
              fifo' = fifo /\ frame' = [frame EXCEPT !.t = frame.t + d]
         /\ hold' \in Nat /\ hold' <= 7722 /\ UNCHANGED <<lcr, dl>>
<1>1. hold' \in Nat /\ hold' <= 7722 /\ UNCHANGED <<lcr, dl>>
  <2>1. hold \in Nat /\ hold <= 7722
    BY Fields
  <2> QED
    BY <2>1 DEF Transmit
<1>2. fifo # <<>> => pc = 6 /\ dl = 27 /\ \E c \in Chars : fifo = <<c>>
  BY DEF SetUp
<1>3. frame.state = "sending" => FrameTime = 8640
  BY Rates DEF Tracking
<1>4. CASE frame.state = "undriven"
  <2>1. ~Takes(d) /\ ~Ends(d) /\ fifo = <<>>
    BY <1>2, <1>4 DEF Takes, Ends, Tracking
  <2>2. frame \in FrameSet /\ frame.t \in {0, 1}
    BY <1>4 DEF Types, FrameSet, Tracking, InStep
  <2>3. frame.t = 0 => frame' = [frame EXCEPT !.t = d]
    BY <1>4, <2>1 DEF Transmit, ClockEdge
  <2>4. frame.t = 1 => frame' = NoFrame
    BY <1>4, <2>1 DEF Transmit, ClockEdge
  <2> QED
    BY <1>1, <1>4, <2>1, <2>3, <2>4 DEF Transmit
<1>5. CASE frame.state = "idle" \/ (frame.state = "sending" /\ frame.t + d = 8640)
  <2>1. Ends(d) \/ frame.state = "idle"
    BY <1>3, <1>5 DEF Ends
  <2>2. CASE fifo = <<>>
    <3>1. ~Takes(d)
      BY <2>2 DEF Takes
    <3>2. fifo' = <<>> /\ frame' = NoFrame
      BY <2>1, <2>2, <3>1 DEF Transmit
    <3> QED
      BY <1>1, <1>5, <2>2, <3>2
  <2>3. CASE fifo # <<>>
    <3>1. PICK c \in Chars : fifo = <<c>>
      BY <1>2, <2>3
    <3>2. Takes(d)
      BY <1>2, <2>1, <2>3 DEF Takes
    <3>3. Head(fifo) = c /\ Tail(fifo) = <<>>
      BY <3>1
    <3>4. fifo' = <<>> /\ Begins(c)
      BY <3>2, <3>3 DEF Transmit, Begins
    <3> QED
      BY <1>1, <1>2, <1>5, <2>3, <3>1, <3>4
  <2> QED
    BY <2>2, <2>3
<1>6. CASE frame.state = "sending" /\ frame.t + d # 8640
  <2>1. ~Ends(d) /\ ~Takes(d) /\ ~ClockEdge /\ frame.state # "idle"
    BY <1>3, <1>6 DEF Ends, Takes, ClockEdge
  <2>2. fifo' = fifo /\ frame' = [frame EXCEPT !.t = frame.t + d]
    BY <2>1 DEF Transmit
  <2> QED
    BY <1>1, <1>6, <2>2
<1>7. frame.state \in {"undriven", "idle", "sending"}
  BY Fields
<1> QED
  BY <1>4, <1>5, <1>6, <1>7
-----------------------------------------------------------------------------
(* What the receiver sees of a frame.                                      *)

\* Bit p joins the bits below it.
LEMMA SampleBit ==
  ASSUME NEW c \in 0..255
  PROVE  /\ \A p \in 0..7 : (c % (2^p)) + (IF BitOf(c, p) THEN 2^p ELSE 0) = c % (2^(p + 1))
         /\ \A p \in 0..8 : c % (2^p) \in 0..255
         /\ c % (2^0) = 0 /\ c % (2^8) = c
<1>1. /\ 2^0 = 1 /\ 2^1 = 2 /\ 2^2 = 4 /\ 2^3 = 8 /\ 2^4 = 16 /\ 2^5 = 32
      /\ 2^6 = 64 /\ 2^7 = 128 /\ 2^8 = 256
  OBVIOUS
<1>2. ASSUME NEW k \in {1, 2, 4, 8, 16, 32, 64, 128}
      PROVE  (c % k) + (IF (c \div k) % 2 = 1 THEN k ELSE 0) = c % (2 * k)
  <2>1. CASE k = 1
    BY <2>1
  <2>2. CASE k = 2
    BY <2>2
  <2>3. CASE k = 4
    BY <2>3
  <2>4. CASE k = 8
    BY <2>4
  <2>5. CASE k = 16
    BY <2>5
  <2>6. CASE k = 32
    BY <2>6
  <2>7. CASE k = 64
    BY <2>7
  <2>8. CASE k = 128
    BY <2>8
  <2> QED
    BY <1>2, <2>1, <2>2, <2>3, <2>4, <2>5, <2>6, <2>7, <2>8
<1>3. ASSUME NEW p \in 0..7
      PROVE  2^p \in {1, 2, 4, 8, 16, 32, 64, 128} /\ 2^(p + 1) = 2 * 2^p
  <2>1. p = 0 \/ p = 1 \/ p = 2 \/ p = 3 \/ p = 4 \/ p = 5 \/ p = 6 \/ p = 7
    OBVIOUS
  <2>2. CASE p = 0
    BY <1>1, <2>2
  <2>3. CASE p = 1
    BY <1>1, <2>3
  <2>4. CASE p = 2
    BY <1>1, <2>4
  <2>5. CASE p = 3
    BY <1>1, <2>5
  <2>6. CASE p = 4
    BY <1>1, <2>6
  <2>7. CASE p = 5
    BY <1>1, <2>7
  <2>8. CASE p = 6
    BY <1>1, <2>8
  <2>9. CASE p = 7
    BY <1>1, <2>9
  <2> QED
    BY <2>1, <2>2, <2>3, <2>4, <2>5, <2>6, <2>7, <2>8, <2>9
<1>4. \A p \in 0..7 : (c % (2^p)) + (IF BitOf(c, p) THEN 2^p ELSE 0) = c % (2^(p + 1))
  <2> SUFFICES ASSUME NEW p \in 0..7
               PROVE  (c % (2^p)) + (IF BitOf(c, p) THEN 2^p ELSE 0) = c % (2^(p + 1))
    OBVIOUS
  <2> DEFINE k == 2^p
  <2>1. k \in {1, 2, 4, 8, 16, 32, 64, 128} /\ 2^(p + 1) = 2 * k
    BY <1>3
  <2>2. BitOf(c, p) <=> (c \div k) % 2 = 1
    BY DEF BitOf
  <2> HIDE DEF k
  <2>3. (c % k) + (IF (c \div k) % 2 = 1 THEN k ELSE 0) = c % (2 * k)
    BY <1>2, <2>1
  <2> QED
    BY <2>1, <2>2, <2>3 DEF k
<1>5. ASSUME NEW p \in 0..8 PROVE c % (2^p) \in 0..255
  <2>1. ASSUME NEW k \in {1, 2, 4, 8, 16, 32, 64, 128, 256} PROVE c % k \in 0..255
    OBVIOUS
  <2>2. 2^p \in {1, 2, 4, 8, 16, 32, 64, 128, 256}
    <3>1. CASE p \in 0..7
      <4>1. 2^p \in {1, 2, 4, 8, 16, 32, 64, 128}
        BY <1>3, <3>1
      <4> QED
        BY <4>1
    <3>2. CASE p = 8
      BY <1>1, <3>2
    <3> QED
      BY <3>1, <3>2
  <2> QED
    BY <2>1, <2>2
<1>6. c % (2^0) = 0 /\ c % (2^8) = c
  BY <1>1
<1> QED
  BY <1>4, <1>5, <1>6

\* High before the start bit, low at its edge, bit p where the receiver samples it, and
\* high from the sample of the stop bit to the end of the frame.
LEMMA LineIs ==
  ASSUME SetUp, pc = 6, NEW f, f.state = "sending", f.t \in Nat
  PROVE  /\ f.t < 108 => Line(f)
         /\ f.t = 108 => ~Line(f)
         /\ \A p \in 0..7 : f.t = 1411 + 868 * p => (Line(f) <=> BitOf(f.char, p))
         /\ 8355 <= f.t /\ f.t < 8640 => Line(f)
<1> DEFINE bit == (f.t - 108) \div 864
<1>1. Line(f) <=> CASE f.t < 108 -> TRUE
                    [] f.t >= 108 /\ bit = 0 -> FALSE
                    [] f.t >= 108 /\ bit \in 1..8 -> BitOf(f.char, bit - 1)
                    [] OTHER -> TRUE
  BY Rates DEF Line
<1>2. f.t < 108 => Line(f)
  BY <1>1
<1>3. f.t = 108 => ~Line(f)
  BY <1>1
<1>4. ASSUME NEW p \in 0..7, f.t = 1411 + 868 * p PROVE Line(f) <=> BitOf(f.char, p)
  <2>1. bit = p + 1 /\ f.t >= 108
    BY <1>4
  <2> HIDE DEF bit
  <2>2. bit # 0 /\ bit \in 1..8 /\ bit - 1 = p /\ ~(f.t < 108)
    BY <1>4, <2>1
  <2> QED
    BY <1>1, <2>1, <2>2
<1>5. ASSUME 8355 <= f.t, f.t < 8640 PROVE Line(f)
  <2>1. bit = 9 /\ ~(f.t < 108)
    BY <1>5
  <2> HIDE DEF bit
  <2> QED
    BY <1>1, <2>1
<1> QED
  BY <1>2, <1>3, <1>4, <1>5

LEMMA LineRests ==
  ASSUME NEW f
  PROVE  (f.state = "undriven" => ~Line(f)) /\ (f.state = "idle" => Line(f))
BY DEF Line
-----------------------------------------------------------------------------
(* A turn, phase by phase.                                                 *)

Rx(m, l, c, p) == [sm |-> m, left |-> l, char |-> c, pos |-> p]

Left(d) == IF rx.left > d THEN rx.left - d ELSE 0

Turns(d) ==
  /\ Types /\ SetUp /\ Tracking /\ d \in Elapse /\ Transmit(d)
  /\ rx' = uart_tick(Aged(rx, d), Line(frame'))
  /\ UNCHANGED <<pc, text, rest>>

\* A character moves from the FIFO to the line, or arrives.
Moves(d) ==
  \/ ~Adds(Aged(rx, d)) /\ UnderWay' = UnderWay /\ fifo' = fifo
  \/ ~Adds(Aged(rx, d)) /\ UnderWay = <<>> /\ UnderWay' = fifo /\ fifo' = <<>>
  \/ /\ Adds(Aged(rx, d)) /\ UnderWay = <<rx.char>> /\ rx.char \in Chars
     /\ UnderWay' = <<>> /\ fifo' = fifo

Goes(d) ==
  /\ frame' \in FrameSet /\ frame'.t <= 8640 /\ rx' \in RxSet /\ InStep(frame', rx')
  /\ frame'.state = "undriven" => frame.state = "undriven"
  /\ frame'.state = "sending" => pc = 6
  /\ Moves(d)

LEMMA TickFacts ==
  ASSUME NEW d, Turns(d)
  PROVE  /\ rx.sm = "IDLE" =>
              rx' = Rx(IF Line(frame') THEN "DETECT_START_BIT" ELSE "IDLE",
                       Left(d), rx.char, rx.pos)
         /\ rx.sm = "DETECT_START_BIT" /\ Line(frame') =>
              rx' = Rx("DETECT_START_BIT", Left(d), rx.char, rx.pos)
         /\ rx.sm = "DETECT_START_BIT" /\ ~Line(frame') =>
              rx' = Rx("DETECT_MID_START_BIT", 435, rx.char, rx.pos)
         /\ rx.sm \notin {"IDLE", "DETECT_START_BIT"} /\ Left(d) # 0 =>
              rx' = Rx(rx.sm, Left(d), rx.char, rx.pos)
         /\ rx.sm = "DETECT_MID_START_BIT" /\ Left(d) = 0 =>
              rx' = Rx("DETECT_MID_DATA_BIT", 868, 0, 0)
         /\ rx.sm = "DETECT_MID_DATA_BIT" /\ Left(d) = 0 =>
              rx' = Rx(IF rx.pos = 7 THEN "STOP_BIT" ELSE "DETECT_MID_DATA_BIT", 868,
                       rx.char + (IF Line(frame') THEN 2^rx.pos ELSE 0), rx.pos + 1)
         /\ rx.sm = "STOP_BIT" /\ Left(d) = 0 =>
              rx' = Rx("DETECT_START_BIT", 0, rx.char, rx.pos)
         /\ Adds(Aged(rx, d)) <=> rx.sm = "STOP_BIT" /\ Left(d) = 0
<1> DEFINE a == Aged(rx, d)
<1>1. rx \in RxSet
  BY DEF Turns, Types
<1>2. a = Rx(rx.sm, Left(d), rx.char, rx.pos)
  BY <1>1 DEF Aged, Left, Rx, RxSet
<1>3. a.sm = rx.sm /\ a.left = Left(d) /\ a.char = rx.char /\ a.pos = rx.pos
  BY <1>2 DEF Rx
<1>4. /\ [a EXCEPT !.sm = "DETECT_START_BIT"] = Rx("DETECT_START_BIT", Left(d), rx.char, rx.pos)
      /\ [a EXCEPT !.sm = "DETECT_MID_START_BIT", !.left = 435] =
           Rx("DETECT_MID_START_BIT", 435, rx.char, rx.pos)
  <2> DEFINE m == rx.sm
             l == Left(d)
             c == rx.char
             p == rx.pos
  <2>1. a = Rx(m, l, c, p)
    BY <1>2
  <2> HIDE DEF a, m, l, c, p
  <2>2. [a EXCEPT !.sm = "DETECT_START_BIT"] = Rx("DETECT_START_BIT", l, c, p)
    BY <2>1 DEF Rx
  <2>3. [a EXCEPT !.sm = "DETECT_MID_START_BIT", !.left = 435] =
          Rx("DETECT_MID_START_BIT", 435, c, p)
    <3> DEFINE b == [a EXCEPT !.sm = "DETECT_MID_START_BIT", !.left = 435]
    <3>1. /\ b.sm = "DETECT_MID_START_BIT" /\ b.left = 435 /\ b.char = c /\ b.pos = p
          /\ b = [i \in {"sm", "left", "char", "pos"} |-> b[i]]
      <4>1. DOMAIN a = {"sm", "left", "char", "pos"}
        BY <2>1 DEF Rx
      <4>2. a.char = c /\ a.pos = p
        BY <2>1 DEF Rx
      <4>3. b.sm = "DETECT_MID_START_BIT" /\ b.left = 435
        BY <4>1
      <4>4. b.char = c /\ b.pos = p
        BY <4>1, <4>2
      <4>5. b = [i \in {"sm", "left", "char", "pos"} |-> b[i]]
        BY <4>1
      <4> QED
        BY <4>3, <4>4, <4>5
    <3> HIDE DEF b
    <3>2. b = Rx("DETECT_MID_START_BIT", 435, c, p)
      BY <3>1 DEF Rx
    <3> QED
      BY <3>2 DEF b
  <2> QED
    BY <2>2, <2>3 DEF l, c, p
<1>5. rx' = uart_tick(a, Line(frame'))
  BY DEF Turns
<1>6. m_baud_time = 868 /\ (m_baud_time \div 2) + 1 = 435
  BY DEF m_baud_time
<1> HIDE DEF a
<1>7. CASE rx.sm = "IDLE"
  <2>1. rx' = [a EXCEPT !.sm = IF Line(frame') THEN "DETECT_START_BIT" ELSE @]
    BY <1>3, <1>5, <1>7 DEF uart_tick
  <2>2. Line(frame') => rx' = Rx("DETECT_START_BIT", Left(d), rx.char, rx.pos)
    BY <1>4, <2>1
  <2>3. ~Line(frame') => rx' = Rx("IDLE", Left(d), rx.char, rx.pos)
    BY <1>2, <1>7, <2>1 DEF Rx
  <2> QED
    BY <1>3, <1>7, <2>2, <2>3 DEF Adds, a
<1>8. CASE rx.sm = "DETECT_START_BIT"
  <2>1. rx' = DetectStart(a, Line(frame'))
    BY <1>3, <1>5, <1>8 DEF uart_tick
  <2>2. Line(frame') => rx' = Rx("DETECT_START_BIT", Left(d), rx.char, rx.pos)
    BY <1>2, <1>8, <2>1 DEF DetectStart
  <2>3. ~Line(frame') => rx' = Rx("DETECT_MID_START_BIT", 435, rx.char, rx.pos)
    BY <1>4, <1>6, <2>1 DEF DetectStart
  <2>4. ~Adds(a)
    BY <1>3, <1>8 DEF Adds
  <2> QED
    BY <1>8, <2>2, <2>3, <2>4 DEF a
<1>9. CASE rx.sm = "DETECT_MID_START_BIT"
  BY <1>2, <1>3, <1>5, <1>6, <1>9 DEF uart_tick, Adds, a, Rx
<1>10. CASE rx.sm = "DETECT_MID_DATA_BIT"
  BY <1>2, <1>3, <1>5, <1>6, <1>10 DEF uart_tick, Adds, a, Rx
<1>11. CASE rx.sm = "STOP_BIT"
  BY <1>2, <1>3, <1>4, <1>5, <1>6, <1>11 DEF uart_tick, Adds, a, Rx
<1> QED
  BY <1>1, <1>7, <1>8, <1>9, <1>10, <1>11 DEF RxSet

LEMMA FrameMoved ==
  \A f \in FrameSet, n \in Nat : \A g : g = [f EXCEPT !.t = n] =>
    g \in FrameSet /\ g.t = n /\ g.state = f.state /\ g.char = f.char
BY DEF FrameSet

\* A character counts as under way until the receiver has added it, long after turn 972.
LEMMA UnderWayIs ==
  ASSUME SetUp, dl' = dl, frame.state = "sending" => pc = 6, frame'.state = "sending" => pc = 6
  PROVE  /\ UnderWay = IF frame.state = "sending" /\ ~(rx.sm = "DETECT_START_BIT" /\ frame.t >= 972)
                       THEN <<frame.char>> ELSE <<>>
         /\ UnderWay' = IF /\ frame'.state = "sending"
                          /\ ~(rx'.sm = "DETECT_START_BIT" /\ frame'.t >= 972)
                        THEN <<frame'.char>> ELSE <<>>
<1>1. pc = 6 => Lead + BitTime = 972
  BY Rates
<1>2. pc = 6 => (Lead + BitTime)' = 972
  BY <1>1 DEF Lead, BitTime, Enable
<1>3. UnderWay = IF frame.state = "sending" /\ ~(rx.sm = "DETECT_START_BIT" /\ frame.t >= 972)
                 THEN <<frame.char>> ELSE <<>>
  BY <1>1 DEF UnderWay
<1>4. UnderWay' = IF /\ frame'.state = "sending"
                    /\ ~(rx'.sm = "DETECT_START_BIT" /\ frame'.t >= 972)
                  THEN <<frame'.char>> ELSE <<>>
  BY <1>2 DEF UnderWay
<1> QED
  BY <1>3, <1>4

LEMMA TurnFacts ==
  ASSUME NEW d, Turns(d)
  PROVE  /\ d \in Nat \ {0} /\ frame \in FrameSet
         /\ frame.state \in {"undriven", "idle", "sending"}
         /\ frame.t \in Nat /\ rx.left \in 0..868 /\ rx.char \in 0..255 /\ rx.pos \in 0..8
         /\ Left(d) \in 0..868 /\ (rx.left = 0 => Left(d) = 0)
         /\ rx.left > 0 => d <= rx.left /\ Left(d) = rx.left - d
         /\ InStep(frame, rx) /\ (frame.state = "sending" => pc = 6)
         /\ SetUp /\ dl' = dl
<1>1. Types /\ SetUp /\ Tracking /\ d \in Elapse /\ Transmit(d)
  BY DEF Turns
<1>2. d \in Nat \ {0} /\ (rx.left > 0 => d <= rx.left)
  BY <1>1, ElapseFacts
<1>3. frame \in FrameSet /\ InStep(frame, rx) /\ (frame.state = "sending" => pc = 6)
  BY <1>1 DEF Types, Tracking
<1>4. rx.left \in 0..868
  BY <1>1, Fields
<1>5. /\ Left(d) \in 0..868 /\ (rx.left = 0 => Left(d) = 0)
      /\ rx.left > 0 => Left(d) = rx.left - d
  <2> DEFINE l == rx.left
  <2>1. l \in 0..868 /\ (l > 0 => d <= l) /\ d \in Nat \ {0}
    BY <1>2, <1>4
  <2>2. Left(d) = IF l > d THEN l - d ELSE 0
    BY DEF Left
  <2> HIDE DEF l
  <2>3. /\ Left(d) \in 0..868 /\ (l = 0 => Left(d) = 0)
        /\ l > 0 => Left(d) = l - d
    BY <2>1, <2>2
  <2> QED
    BY <2>3 DEF l
<1>6. dl' = dl
  BY <1>1 DEF Transmit
<1> QED
  BY <1>1, <1>2, <1>3, <1>4, <1>5, <1>6, Fields

\* The reset, and the first edge of the clock.
LEMMA UndrivenTurn ==
  ASSUME NEW d, Turns(d), frame.state = "undriven"
  PROVE  Goes(d)
<1>1. /\ d = 1 /\ frame \in FrameSet /\ frame.t \in {0, 1} /\ rx.sm = "IDLE" /\ rx.left = 0
      /\ Left(d) = 0 /\ rx.char \in 0..255 /\ rx.pos \in 0..8
  <2>1. d = 1
    BY ElapseFacts DEF Turns
  <2> QED
    BY <2>1, TurnFacts DEF InStep
<1>2. /\ fifo = <<>> /\ fifo' = <<>>
      /\ frame.t = 0 => frame' = [frame EXCEPT !.t = d]
      /\ frame.t = 1 => frame' = NoFrame
  <2>1. Types /\ SetUp /\ Tracking /\ d \in Nat \ {0} /\ Transmit(d)
    BY TurnFacts DEF Turns
  <2> QED
    BY <2>1, TransmitFacts
<1>3. frame' \in FrameSet /\ frame'.t \in {0, 1} /\ frame'.state \in {"undriven", "idle"}
      /\ (frame'.state = "undriven" <=> frame.t = 0)
  <2>1. CASE frame.t = 0
    <3>1. frame' \in FrameSet /\ frame'.t = 1 /\ frame'.state = "undriven"
      <4>1. frame' = [frame EXCEPT !.t = d] /\ d \in Nat /\ d = 1
        BY <1>1, <1>2, <2>1
      <4> QED
        BY <1>1, <4>1, FrameMoved
    <3> QED
      BY <2>1, <3>1
  <2>2. CASE frame.t = 1
    <3>1. frame' \in FrameSet /\ frame'.t = 0 /\ frame'.state = "idle"
      BY <1>2, <2>2 DEF FrameSet, NoFrame
    <3> QED
      BY <2>2, <3>1
  <2> QED
    BY <1>1, <2>1, <2>2
<1>4. rx' = Rx(IF Line(frame') THEN "DETECT_START_BIT" ELSE "IDLE", Left(d), rx.char, rx.pos)
      /\ ~Adds(Aged(rx, d))
  BY <1>1, TickFacts
<1>5. rx' \in RxSet /\ rx'.left = 0
      /\ rx'.sm \in {"IDLE", "DETECT_START_BIT"}
      /\ (frame'.state = "undriven" => rx'.sm = "IDLE")
  <2>1. CASE Line(frame')
    <3>1. frame'.state # "undriven"
      BY <2>1, LineRests
    <3>2. rx' = Rx("DETECT_START_BIT", 0, rx.char, rx.pos)
      BY <1>1, <1>4, <2>1
    <3>3. rx' \in RxSet /\ rx'.left = 0 /\ rx'.sm = "DETECT_START_BIT"
      BY <1>1, <3>2 DEF Rx, RxSet
    <3> QED
      BY <3>1, <3>3
  <2>2. CASE ~Line(frame')
    <3>1. rx' = Rx("IDLE", 0, rx.char, rx.pos)
      BY <1>1, <1>4, <2>2
    <3>2. rx' \in RxSet /\ rx'.left = 0 /\ rx'.sm = "IDLE"
      BY <1>1, <3>1 DEF Rx, RxSet
    <3> QED
      BY <3>2
  <2> QED
    BY <2>1, <2>2
<1>6. InStep(frame', rx')
  BY <1>3, <1>5 DEF InStep
<1>7. Moves(d)
  <2>1. UnderWay = <<>> /\ UnderWay' = <<>>
    BY <1>3 DEF UnderWay
  <2> QED
    BY <1>2, <1>4, <2>1 DEF Moves
<1>8. frame'.t <= 8640
  BY <1>3
<1> QED
  BY <1>3, <1>5, <1>6, <1>7, <1>8 DEF Goes

\* The transmitter looks into the FIFO: it rests, or the next frame begins.
LEMMA NextFrame ==
  ASSUME NEW d, Turns(d), rx.sm \in {"IDLE", "DETECT_START_BIT"}, rx.left = 0,
         \/ frame.state = "idle"
         \/ frame.state = "sending" /\ frame.t + d = 8640 /\ frame.t >= 8355
  PROVE  Goes(d)
<1>1. /\ d \in Nat \ {0} /\ rx.char \in 0..255 /\ rx.pos \in 0..8 /\ Left(d) = 0
      /\ SetUp /\ dl' = dl /\ (frame.state = "sending" => pc = 6)
  BY TurnFacts
<1>2. \/ fifo = <<>> /\ fifo' = <<>> /\ frame' = NoFrame
      \/ /\ pc = 6 /\ fifo' = <<>>
         /\ \E c \in Chars : fifo = <<c>> /\ Begins(c)
  <2>1. Types /\ SetUp /\ Tracking /\ Transmit(d)
    BY DEF Turns
  <2>2. frame.state = "sending" => frame.t + d <= 8640
    BY <2>1, ElapseFacts DEF Turns
  <2> QED
    BY <1>1, <2>1, <2>2, TransmitFacts
<1>3. ASSUME Line(frame')
      PROVE  /\ rx' \in RxSet /\ rx'.left = 0 /\ rx'.sm = "DETECT_START_BIT"
             /\ ~Adds(Aged(rx, d))
  <2>1. rx' = Rx("DETECT_START_BIT", 0, rx.char, rx.pos) /\ ~Adds(Aged(rx, d))
    BY <1>1, <1>3, TickFacts
  <2> QED
    BY <1>1, <2>1 DEF Rx, RxSet
<1>4. UnderWay = <<>>
  <2>1. frame.state = "sending" => pc = 6 /\ Lead + BitTime = 972 /\ rx.sm = "DETECT_START_BIT"
    <3>1. frame.state = "sending" => rx.sm = "DETECT_START_BIT"
      BY TurnFacts DEF InStep, Following
    <3> QED
      BY <1>1, <3>1, Rates
  <2>2. frame.state = "sending" => frame.t >= 972
    BY TurnFacts
  <2> QED
    BY <2>1, <2>2 DEF UnderWay
<1>5. CASE fifo = <<>> /\ fifo' = <<>> /\ frame' = NoFrame
  <2>1. frame' \in FrameSet /\ frame'.t = 0 /\ frame'.state = "idle"
    BY <1>5 DEF NoFrame, FrameSet
  <2>2. Line(frame')
    BY <2>1, LineRests
  <2>3. InStep(frame', rx')
    BY <1>3, <2>1, <2>2 DEF InStep
  <2>4. UnderWay' = <<>>
    BY <2>1 DEF UnderWay
  <2>5. Moves(d)
    BY <1>3, <1>4, <1>5, <2>2, <2>4 DEF Moves
  <2>6. frame'.t <= 8640
    BY <2>1
  <2> QED
    BY <1>3, <2>1, <2>2, <2>3, <2>5, <2>6 DEF Goes
<1>6. CASE pc = 6 /\ fifo' = <<>> /\ \E c \in Chars : fifo = <<c>> /\ Begins(c)
  <2>1. PICK c \in Chars : fifo = <<c>> /\ Begins(c)
    BY <1>6
  <2>2. frame' \in FrameSet /\ frame'.t = 0 /\ frame'.state = "sending" /\ frame'.char = c
    BY <2>1 DEF Begins, FrameSet, Chars
  <2>3. frame'.t \in Nat /\ frame'.t < 108 /\ frame'.t < 8640 /\ frame'.t <= 8640
    BY <2>2
  <2>4. Line(frame')
    BY <1>1, <1>6, <2>2, <2>3, LineIs
  <2>5. InStep(frame', rx')
    BY <1>3, <2>2, <2>3, <2>4 DEF InStep, Following
  <2>6. UnderWay' = <<c>>
    <3>1. frame'.t < 972
      BY <2>2
    <3>2. ~(frame'.t >= 972)
      BY <2>3, <3>1
    <3> QED
      BY <1>1, <1>6, <2>2, <3>2, UnderWayIs
  <2>7. Moves(d)
    BY <1>3, <1>4, <1>6, <2>1, <2>4, <2>6 DEF Moves
  <2> QED
    BY <1>3, <1>6, <2>2, <2>3, <2>4, <2>5, <2>7 DEF Goes
<1> QED
  BY <1>2, <1>5, <1>6

\* A frame goes on.
LEMMA SameFrame ==
  ASSUME NEW d, Turns(d), frame.state = "sending", frame.t + d < 8640
  PROVE  /\ frame' \in FrameSet /\ frame'.t = frame.t + d /\ frame'.state = "sending"
         /\ frame'.char = frame.char /\ frame.char \in Chars /\ fifo' = fifo
         /\ frame.t \in Nat /\ frame'.t \in Nat /\ frame'.t < 8640 /\ d \in Nat \ {0}
         /\ pc = 6 /\ SetUp /\ dl' = dl /\ Following(frame, rx)
<1>1. /\ d \in Nat \ {0} /\ frame \in FrameSet /\ frame.t \in Nat /\ pc = 6
      /\ SetUp /\ dl' = dl /\ InStep(frame, rx)
  BY TurnFacts
<1>2. frame.char \in Chars /\ Following(frame, rx)
  BY <1>1 DEF InStep
<1>3. fifo' = fifo /\ frame' = [frame EXCEPT !.t = frame.t + d]
  <2>1. /\ Types /\ SetUp /\ Tracking /\ Transmit(d)
        /\ frame.t + d <= 8640 /\ frame.t + d # 8640
    BY <1>1 DEF Turns
  <2> QED
    BY <1>1, <2>1, TransmitFacts
<1>4. frame.t + d \in Nat
  BY <1>1
<1>5. /\ frame' \in FrameSet /\ frame'.t = frame.t + d /\ frame'.state = "sending"
      /\ frame'.char = frame.char
  BY <1>1, <1>3, <1>4, FrameMoved
<1>6. frame'.t \in Nat /\ frame'.t < 8640
  BY <1>4, <1>5
<1> QED
  BY <1>1, <1>2, <1>3, <1>5, <1>6

\* While the receiver follows, the character stays under way until it is added.
LEMMA Onward ==
  ASSUME NEW d, Turns(d), frame.state = "sending", frame.t + d < 8640,
         rx' \in RxSet, Following(frame', rx'), rx'.sm = "DETECT_START_BIT" => rx'.left = 0,
         Moves(d)
  PROVE  Goes(d)
<1>1. /\ frame' \in FrameSet /\ frame'.state = "sending" /\ frame'.char \in Chars
      /\ frame'.t \in Nat /\ frame'.t < 8640 /\ pc = 6
  BY SameFrame
<1>2. rx'.sm # "IDLE"
  BY DEF Following
<1>3. InStep(frame', rx')
  BY <1>1, <1>2 DEF InStep
<1>4. frame'.t <= 8640
  BY <1>1
<1> QED
  BY <1>1, <1>3, <1>4 DEF Goes

\* Before the start bit, and after the stop bit has been sampled.
LEMMA WaitingTurn ==
  ASSUME NEW d, Turns(d), frame.state = "sending", rx.sm = "DETECT_START_BIT",
         frame.t < 108 \/ (8355 <= frame.t /\ frame.t + d < 8640)
  PROVE  Goes(d)
<1>1. frame.t + d < 8640 /\ (frame.t < 108 => frame.t + d <= 108)
  <2>1. frame.t < 108 => frame.t + d <= 108
    BY ElapseFacts DEF Turns
  <2>2. frame.t \in Nat /\ d \in Nat
    BY TurnFacts
  <2> QED
    BY <2>1, <2>2
<1>2. /\ frame'.t = frame.t + d /\ frame'.state = "sending" /\ fifo' = fifo
      /\ frame'.char = frame.char /\ frame.t \in Nat /\ frame'.t \in Nat /\ frame'.t < 8640
      /\ d \in Nat \ {0} /\ pc = 6 /\ SetUp /\ dl' = dl
  BY <1>1, SameFrame
<1>3. /\ rx.char \in 0..255 /\ rx.pos \in 0..8 /\ rx.left = 0 /\ Left(d) = 0
  BY TurnFacts DEF InStep
<1>4. ~Adds(Aged(rx, d))
  BY TickFacts
<1>5. CASE Line(frame')
  <2>1. rx' = Rx("DETECT_START_BIT", 0, rx.char, rx.pos)
    BY <1>3, <1>5, TickFacts
  <2>2. rx' \in RxSet /\ rx'.sm = "DETECT_START_BIT" /\ rx'.left = 0
    BY <1>3, <2>1 DEF Rx, RxSet
  <2>3. frame'.t # 108
    BY <1>2, <1>5, LineIs
  <2>4. frame'.t < 108 \/ 8355 <= frame'.t
    BY <1>1, <1>2, <2>3
  <2>5. Following(frame', rx')
    BY <2>2, <2>4 DEF Following
  <2>6. (frame.t >= 972) <=> (frame'.t >= 972)
    BY <1>1, <1>2, <2>3
  <2>7. UnderWay' = UnderWay
    BY <1>2, <2>2, <2>6, UnderWayIs
  <2>8. Moves(d)
    BY <1>2, <1>4, <2>7 DEF Moves
  <2> QED
    BY <1>1, <2>2, <2>5, <2>8, Onward
<1>6. CASE ~Line(frame')
  <2>1. frame'.t = 108
    <3>1. ~(frame'.t < 108) /\ ~(8355 <= frame'.t)
      BY <1>2, <1>6, LineIs
    <3> QED
      BY <1>1, <1>2, <3>1
  <2>2. rx' = Rx("DETECT_MID_START_BIT", 435, rx.char, rx.pos)
    BY <1>3, <1>6, TickFacts
  <2>3. rx' \in RxSet /\ rx'.sm = "DETECT_MID_START_BIT" /\ rx'.left = 435
    BY <1>3, <2>2 DEF Rx, RxSet
  <2>4. Following(frame', rx')
    BY <2>1, <2>3 DEF Following
  <2>5. ~(frame.t >= 972)
    BY <1>2, <2>1
  <2>6. UnderWay' = UnderWay
    BY <1>2, <2>3, <2>5, UnderWayIs
  <2>7. Moves(d)
    BY <1>2, <1>4, <2>6 DEF Moves
  <2> QED
    BY <1>1, <2>3, <2>4, <2>7, Onward
<1> QED
  BY <1>5, <1>6

\* The time until a sample, and the time that has passed.
LEMMA Advance ==
  ASSUME NEW d, Turns(d), frame.state = "sending", rx.left > 0,
         NEW e \in Nat, e <= 8355, frame.t + rx.left = e
  PROVE  /\ frame.t + d < 8640 /\ frame'.t = frame.t + d /\ frame.t <= frame'.t
         /\ Left(d) \in 0..868 /\ (Left(d) # 0 => Left(d) > 0)
         /\ frame'.t + Left(d) = e /\ (Left(d) = 0 => frame'.t = e)
<1> DEFINE t == frame.t
           l == rx.left
           m == Left(d)
           u == frame'.t
<1>1. /\ t \in Nat /\ l \in 0..868 /\ d \in Nat \ {0} /\ d <= l /\ m = l - d
      /\ t + l = e
  BY TurnFacts
<1>2. t + d < 8640 => u = t + d
  BY SameFrame
<1> HIDE DEF t, l, m, u
<1>3. /\ t + d < 8640 /\ u = t + d /\ t <= u /\ m \in 0..868 /\ (m # 0 => m > 0)
      /\ u + m = e /\ (m = 0 => u = e)
  BY <1>1, <1>2
<1> QED
  BY <1>3 DEF t, m, u

\* From the edge of the start bit to its middle.
LEMMA StartBitTurn ==
  ASSUME NEW d, Turns(d), frame.state = "sending", rx.sm = "DETECT_MID_START_BIT"
  PROVE  Goes(d)
<1>1. /\ 108 <= frame.t /\ rx.left > 0 /\ frame.t + rx.left = 543
      /\ frame.t \in Nat /\ rx.char \in 0..255 /\ rx.pos \in 0..8
  BY TurnFacts DEF InStep, Following
<1>2. /\ frame.t + d < 8640 /\ frame.t <= frame'.t
      /\ Left(d) \in 0..868 /\ (Left(d) # 0 => Left(d) > 0)
      /\ frame'.t + Left(d) = 543 /\ (Left(d) = 0 => frame'.t = 543)
  BY <1>1, Advance
<1>3. /\ frame'.state = "sending" /\ fifo' = fifo
      /\ frame'.char = frame.char /\ frame.char \in Chars
      /\ frame'.t \in Nat /\ pc = 6 /\ SetUp /\ dl' = dl
  BY <1>2, SameFrame
<1>4. ~Adds(Aged(rx, d))
  BY TickFacts
<1>5. rx' \in RxSet /\ Following(frame', rx') /\ rx'.sm # "DETECT_START_BIT"
  <2>1. CASE Left(d) = 0
    <3>1. rx' = Rx("DETECT_MID_DATA_BIT", 868, 0, 0)
      BY <2>1, TickFacts
    <3>2. /\ rx' \in RxSet /\ rx'.sm = "DETECT_MID_DATA_BIT" /\ rx'.left = 868
          /\ rx'.char = 0 /\ rx'.pos = 0
      BY <3>1 DEF Rx, RxSet
    <3>3. frame'.t = 543
      BY <1>2, <2>1
    <3>4. frame'.char % (2^0) = 0
      BY <1>3, SampleBit DEF Chars
    <3> QED
      BY <3>2, <3>3, <3>4 DEF Following
  <2>2. CASE Left(d) # 0
    <3>1. rx' = Rx("DETECT_MID_START_BIT", Left(d), rx.char, rx.pos)
      BY <2>2, TickFacts
    <3>2. rx' \in RxSet /\ rx'.sm = "DETECT_MID_START_BIT" /\ rx'.left = Left(d)
      BY <1>1, <1>2, <3>1 DEF Rx, RxSet
    <3>3. 108 <= frame'.t
      BY <1>1, <1>2, <1>3
    <3>4. rx'.left > 0 /\ frame'.t + rx'.left = 543
      BY <1>2, <2>2, <3>2
    <3> QED
      BY <3>2, <3>3, <3>4 DEF Following
  <2> QED
    BY <2>1, <2>2
<1>6. UnderWay' = UnderWay
  BY <1>3, <1>5, UnderWayIs
<1>7. Moves(d)
  BY <1>3, <1>4, <1>6 DEF Moves
<1> QED
  BY <1>2, <1>5, <1>7, Onward

\* From the sample of one bit to that of the next: bit p joins the bits below it.
LEMMA DataBitTurn ==
  ASSUME NEW d, Turns(d), frame.state = "sending", rx.sm = "DETECT_MID_DATA_BIT"
  PROVE  Goes(d)
<1> DEFINE p == rx.pos
<1>1. /\ p \in 0..7 /\ rx.left > 0 /\ frame.t + rx.left = 1411 + (868 * p)
      /\ frame.t \in Nat /\ rx.char \in 0..255 /\ 543 <= frame.t
      /\ rx.char = frame.char % (2^p)
  <2>1. p \in 0..8 /\ p <= 7 /\ frame.t \in Nat /\ rx.char \in 0..255
    BY TurnFacts DEF InStep, Following
  <2>2. p \in 0..7
    <3> HIDE DEF p
    <3> QED
      BY <2>1
  <2>3. /\ rx.left > 0 /\ frame.t + rx.left = 1411 + (868 * p) /\ 543 <= frame.t
        /\ rx.char = frame.char % (2^p)
    BY TurnFacts DEF InStep, Following
  <2> QED
    BY <2>1, <2>2, <2>3
<1>2. 1411 + (868 * p) \in Nat /\ 1411 + (868 * p) <= 8355 /\ p + 1 \in 1..8
  <2>1. p \in 0..7
    BY <1>1
  <2> HIDE DEF p
  <2> QED
    BY <2>1
<1>3. /\ frame.t + d < 8640 /\ frame.t <= frame'.t
      /\ Left(d) \in 0..868 /\ (Left(d) # 0 => Left(d) > 0)
      /\ frame'.t + Left(d) = 1411 + (868 * p)
      /\ (Left(d) = 0 => frame'.t = 1411 + (868 * p))
  BY <1>1, <1>2, Advance
<1>4. /\ frame'.state = "sending" /\ fifo' = fifo
      /\ frame'.char = frame.char /\ frame.char \in Chars
      /\ frame'.t \in Nat /\ pc = 6 /\ SetUp /\ dl' = dl
  BY <1>3, SameFrame
<1>5. ~Adds(Aged(rx, d))
  BY TickFacts
<1>6. 543 <= frame'.t
  BY <1>1, <1>3, <1>4
<1>7. rx' \in RxSet /\ Following(frame', rx') /\ rx'.sm # "DETECT_START_BIT"
  <2>1. CASE Left(d) = 0
    <3> DEFINE c == frame.char
    <3>1. c \in 0..255
      BY <1>4 DEF Chars
    <3>2. Line(frame') <=> BitOf(c, p)
      BY <1>1, <1>3, <1>4, <2>1, LineIs
    <3> DEFINE k == rx.char + (IF Line(frame') THEN 2^p ELSE 0)
    <3>3. rx' = Rx(IF p = 7 THEN "STOP_BIT" ELSE "DETECT_MID_DATA_BIT", 868, k, p + 1)
      BY <2>1, TickFacts
    <3>4. k = c % (2^(p + 1)) /\ k \in 0..255 /\ (p = 7 => k = c)
      <4>1. k = (c % (2^p)) + (IF BitOf(c, p) THEN 2^p ELSE 0)
        BY <1>1, <3>2
      <4> HIDE DEF k, c, p
      <4>2. (c % (2^p)) + (IF BitOf(c, p) THEN 2^p ELSE 0) = c % (2^(p + 1))
        <5>1. \A i \in 0..7 : (c % (2^i)) + (IF BitOf(c, i) THEN 2^i ELSE 0) = c % (2^(i + 1))
          BY <3>1, SampleBit
        <5>2. p \in 0..7
          BY <1>1
        <5> QED
          BY <5>1, <5>2
      <4>3. p + 1 \in 0..8 /\ (p = 7 => p + 1 = 8)
        BY <1>1
      <4>4. c % (2^(p + 1)) \in 0..255 /\ (p = 7 => c % (2^(p + 1)) = c)
        BY <3>1, <4>3, SampleBit
      <4> QED
        BY <4>1, <4>2, <4>4
    <3> HIDE DEF k
    <3>5. CASE p = 7
      <4>1. /\ rx' \in RxSet /\ rx'.sm = "STOP_BIT" /\ rx'.left = 868
            /\ rx'.char = c /\ rx'.pos = 8
        BY <3>3, <3>4, <3>5 DEF Rx, RxSet
      <4>2. frame'.t + 868 = 8355
        BY <1>3, <2>1, <3>5
      <4> QED
        BY <1>4, <1>6, <4>1, <4>2 DEF Following
    <3>6. CASE p # 7
      <4>1. /\ rx' \in RxSet /\ rx'.sm = "DETECT_MID_DATA_BIT" /\ rx'.left = 868
            /\ rx'.char = k /\ rx'.pos = p + 1
        BY <1>2, <3>3, <3>4, <3>6 DEF Rx, RxSet
      <4>2. p + 1 <= 7 /\ 1411 + (868 * p) + 868 = 1411 + (868 * (p + 1))
        <5>1. p \in 0..7 /\ p # 7
          BY <1>1, <3>6
        <5> HIDE DEF p
        <5> QED
          BY <5>1
      <4>3. frame'.t + 868 = 1411 + (868 * (p + 1))
        BY <1>3, <2>1, <4>2
      <4> QED
        BY <1>4, <1>6, <3>4, <4>1, <4>2, <4>3 DEF Following
    <3> QED
      BY <3>5, <3>6
  <2>2. CASE Left(d) # 0
    <3>1. rx' = Rx("DETECT_MID_DATA_BIT", Left(d), rx.char, p)
      BY <2>2, TickFacts
    <3>2. /\ rx' \in RxSet /\ rx'.sm = "DETECT_MID_DATA_BIT" /\ rx'.left = Left(d)
          /\ rx'.char = rx.char /\ rx'.pos = p
      BY <1>1, <1>3, <3>1 DEF Rx, RxSet
    <3>3. rx'.left > 0 /\ frame'.t + rx'.left = 1411 + (868 * rx'.pos)
      BY <1>3, <2>2, <3>2
    <3>4. rx'.pos <= 7 /\ rx'.char = frame'.char % (2^rx'.pos)
      BY <1>1, <1>4, <3>2
    <3> QED
      BY <1>6, <3>2, <3>3, <3>4 DEF Following
  <2> QED
    BY <2>1, <2>2
<1>8. UnderWay' = UnderWay
  BY <1>4, <1>7, UnderWayIs
<1>9. Moves(d)
  BY <1>4, <1>5, <1>8 DEF Moves
<1> QED
  BY <1>3, <1>7, <1>9, Onward

\* From the sample of the last bit to that of the stop bit, when the character is added.
LEMMA StopBitTurn ==
  ASSUME NEW d, Turns(d), frame.state = "sending", rx.sm = "STOP_BIT"
  PROVE  Goes(d)
<1>1. /\ rx.pos = 8 /\ rx.left > 0 /\ frame.t + rx.left = 8355
      /\ frame.t \in Nat /\ rx.char \in 0..255 /\ 543 <= frame.t
      /\ rx.char = frame.char
  BY TurnFacts DEF InStep, Following
<1>2. /\ frame.t + d < 8640 /\ frame.t <= frame'.t
      /\ Left(d) \in 0..868 /\ (Left(d) # 0 => Left(d) > 0)
      /\ frame'.t + Left(d) = 8355 /\ (Left(d) = 0 => frame'.t = 8355)
  BY <1>1, Advance
<1>3. /\ frame'.state = "sending" /\ fifo' = fifo
      /\ frame'.char = frame.char /\ frame.char \in Chars
      /\ frame'.t \in Nat /\ pc = 6 /\ SetUp /\ dl' = dl
  BY <1>2, SameFrame
<1>4. UnderWay = <<frame.char>>
  BY <1>3, UnderWayIs
<1>5. CASE Left(d) = 0
  <2>1. rx' = Rx("DETECT_START_BIT", 0, rx.char, rx.pos) /\ Adds(Aged(rx, d))
    BY <1>5, TickFacts
  <2>2. rx' \in RxSet /\ rx'.sm = "DETECT_START_BIT" /\ rx'.left = 0
    BY <1>1, <2>1 DEF Rx, RxSet
  <2>3. frame'.t = 8355
    BY <1>2, <1>5
  <2>4. Following(frame', rx')
    BY <2>2, <2>3 DEF Following
  <2>5. UnderWay' = <<>>
    <3>1. frame'.t >= 972
      BY <2>3
    <3> QED
      BY <1>3, <2>2, <3>1, UnderWayIs
  <2>6. Moves(d)
    BY <1>1, <1>3, <1>4, <2>1, <2>5 DEF Moves
  <2> QED
    BY <1>2, <2>2, <2>4, <2>6, Onward
<1>6. CASE Left(d) # 0
  <2>1. rx' = Rx("STOP_BIT", Left(d), rx.char, 8) /\ ~Adds(Aged(rx, d))
    BY <1>1, <1>6, TickFacts
  <2>2. /\ rx' \in RxSet /\ rx'.sm = "STOP_BIT" /\ rx'.left = Left(d)
        /\ rx'.char = rx.char /\ rx'.pos = 8
    BY <1>1, <1>2, <2>1 DEF Rx, RxSet
  <2>3. rx'.left > 0 /\ frame'.t + rx'.left = 8355
    BY <1>2, <1>6, <2>2
  <2>4. 543 <= frame'.t
    BY <1>1, <1>2, <1>3
  <2>5. Following(frame', rx')
    BY <1>1, <1>3, <2>2, <2>3, <2>4 DEF Following
  <2>6. UnderWay' = UnderWay
    BY <1>3, <1>4, <2>2, UnderWayIs
  <2>7. Moves(d)
    BY <1>3, <2>1, <2>6 DEF Moves
  <2> QED
    BY <1>2, <2>2, <2>5, <2>7, Onward
<1> QED
  BY <1>5, <1>6

LEMMA EveryTurn ==
  ASSUME NEW d, Turns(d)
  PROVE  Goes(d)
<1>1. /\ frame.state \in {"undriven", "idle", "sending"} /\ InStep(frame, rx)
      /\ frame.t \in Nat /\ d \in Nat
  BY TurnFacts
<1>2. CASE frame.state = "undriven"
  BY <1>2, UndrivenTurn
<1>3. CASE frame.state = "idle"
  <2>1. rx.sm \in {"IDLE", "DETECT_START_BIT"} /\ rx.left = 0
    BY <1>1, <1>3 DEF InStep
  <2> QED
    BY <1>3, <2>1, NextFrame
<1>4. CASE frame.state = "sending"
  <2>1. Following(frame, rx) /\ frame.t + d <= 8640
    BY <1>1, <1>4, ElapseFacts DEF InStep, Turns
  <2>2. CASE rx.sm = "DETECT_START_BIT" /\ frame.t < 108
    BY <1>4, <2>2, WaitingTurn
  <2>3. CASE rx.sm = "DETECT_START_BIT" /\ 8355 <= frame.t
    <3>1. CASE frame.t + d = 8640
      <4>1. rx.left = 0 /\ frame.t >= 8355
        BY <1>1, <2>3 DEF InStep
      <4> QED
        BY <1>4, <2>3, <3>1, <4>1, NextFrame
    <3>2. CASE frame.t + d # 8640
      <4>1. frame.t + d < 8640
        BY <1>1, <2>1, <3>2
      <4> QED
        BY <1>4, <2>3, <4>1, WaitingTurn
    <3> QED
      BY <3>1, <3>2
  <2>4. CASE rx.sm = "DETECT_MID_START_BIT"
    BY <1>4, <2>4, StartBitTurn
  <2>5. CASE rx.sm = "DETECT_MID_DATA_BIT"
    BY <1>4, <2>5, DataBitTurn
  <2>6. CASE rx.sm = "STOP_BIT"
    BY <1>4, <2>6, StopBitTurn
  <2> QED
    BY <2>1, <2>2, <2>3, <2>4, <2>5, <2>6 DEF Following
<1> QED
  BY <1>1, <1>2, <1>3, <1>4
-----------------------------------------------------------------------------
(* A turn: a character that arrives joins the text, a line may be taken.   *)

LEMMA PendingNext ==
  ASSUME NEW d, Turns(d), Moves(d)
  PROVE  /\ Pending' \in String
         /\ ~Adds(Aged(rx, d)) => Pending' = Pending
         /\ Adds(Aged(rx, d)) => Pending = <<rx.char>> \o Pending' /\ rx.char \in Chars
<1>1. /\ UnderWay \in String /\ fifo \in String /\ rest \in String
      /\ fifo \o rest \in String /\ Pending \in String /\ <<>> \in String
  BY PendingType, StringFacts DEF Turns, Tracking
<1>2. Pending' = UnderWay' \o (fifo' \o rest)
  BY DEF Pending, Turns
<1>3. <<>> \o rest = rest /\ <<>> \o (fifo \o rest) = fifo \o rest
  BY <1>1, StringFacts, Zenon
<1>4. CASE ~Adds(Aged(rx, d)) /\ UnderWay' = UnderWay /\ fifo' = fifo
  BY <1>1, <1>2, <1>4 DEF Pending
<1>5. CASE ~Adds(Aged(rx, d)) /\ UnderWay = <<>> /\ UnderWay' = fifo /\ fifo' = <<>>
  <2>1. Pending' = fifo \o rest /\ Pending = fifo \o rest
    BY <1>2, <1>3, <1>5 DEF Pending
  <2> QED
    BY <1>1, <1>5, <2>1
<1>6. CASE /\ Adds(Aged(rx, d)) /\ UnderWay = <<rx.char>> /\ rx.char \in Chars
           /\ UnderWay' = <<>> /\ fifo' = fifo
  <2>1. Pending' = fifo \o rest /\ Pending = <<rx.char>> \o (fifo \o rest)
    BY <1>2, <1>3, <1>6 DEF Pending
  <2> QED
    BY <1>1, <1>6, <2>1
<1> QED
  BY <1>4, <1>5, <1>6 DEF Moves

\* add_char joins to m_uart_str and m_q what Joined joins to the text so far.
LEMMA CharAdded ==
  ASSUME UartInv, ~done, NEW d, Turns(d), Moves(d)
  PROVE  LET added == add_char(Aged(rx, d), str, q)
         IN  /\ added.str \in String /\ added.q \in Seq(String)
             /\ \E n \in 0..Len(Written) :
                  /\ n + Len(Pending') = Len(Written)
                  /\ \A i \in 1..Len(Pending') : Pending'[i] = Written[n + i]
                  /\ Cut(Written)[n].lines = shown \o added.q
                  /\ Cut(Written)[n].line = added.str
<1> DEFINE W == Written
           P == Pending
           PP == Pending'
           a == Aged(rx, d)
           c == rx.char
           added == add_char(a, str, q)
           l == Append(str, c)
<1>1. /\ W \in String /\ P \in String /\ PP \in String /\ Len(W) \in Nat
      /\ Len(P) \in Nat /\ Len(PP) \in Nat
      /\ str \in String /\ q \in Seq(String) /\ shown \in Seq(String)
  <2>1. W \in String /\ P \in String /\ PP \in String
    BY WrittenType, PendingType, PendingNext DEF UartInv, SetUp, Tracking
  <2>2. str \in String /\ q \in Seq(String) /\ shown \in Seq(String)
    BY DEF UartInv, Types
  <2> HIDE DEF W, P, PP
  <2> QED
    BY <2>1, <2>2, StringFacts
<1>2. PICK n \in 0..Len(W) :
        /\ n + Len(P) = Len(W) /\ \A i \in 1..Len(P) : P[i] = W[n + i]
        /\ Cut(W)[n].lines = shown \o q /\ Cut(W)[n].line = str
  <2>1. shown \o Halted = shown
    BY <1>1, ConcatEmptySeq DEF Halted
  <2> QED
    BY <2>1 DEF UartInv, Assembled
<1>3. a.char = c
  <2>1. rx \in RxSet
    BY DEF UartInv, Types
  <2> QED
    BY <2>1 DEF Aged, RxSet
<1>4. CASE ~Adds(a)
  <2>1. added.str = str /\ added.q = q
    BY <1>4 DEF add_char
  <2>2. PP = P
    BY <1>4, PendingNext
  <2> HIDE DEF W, P, PP, added
  <2>3. /\ n + Len(PP) = Len(W) /\ \A i \in 1..Len(PP) : PP[i] = W[n + i]
        /\ Cut(W)[n].lines = shown \o added.q /\ Cut(W)[n].line = added.str
    BY <1>2, <2>1, <2>2
  <2>4. added.str \in String /\ added.q \in Seq(String)
    BY <1>1, <2>1
  <2> QED
    BY <1>2, <2>3, <2>4 DEF W, PP, added
<1>5. CASE Adds(a)
  <2>1. P = <<c>> \o PP /\ c \in Chars
    BY <1>5, PendingNext
  <2> HIDE DEF W, P, PP
  <2>2. /\ Len(P) = Len(PP) + 1 /\ P[1] = c
        /\ \A i \in 1..Len(PP) : P[i + 1] = PP[i]
    <3>1. <<c>> \in Seq(Chars) /\ PP \in Seq(Chars) /\ Len(<<c>>) = 1 /\ <<c>>[1] = c
      BY <1>1, <2>1 DEF String
    <3>2. /\ Len(<<c>> \o PP) = 1 + Len(PP)
          /\ \A i \in 1..(1 + Len(PP)) :
               (<<c>> \o PP)[i] = IF i <= 1 THEN <<c>>[i] ELSE PP[i - 1]
      BY <3>1, ConcatProperties
    <3>3. \A i \in 1..Len(PP) : i + 1 \in 1..(1 + Len(PP)) /\ ~(i + 1 <= 1) /\ (i + 1) - 1 = i
      BY <1>1
    <3>4. \A i \in 1..Len(PP) : P[i + 1] = PP[i]
      BY <2>1, <3>2, <3>3
    <3>5. 1 \in 1..(1 + Len(PP))
      BY <1>1
    <3> QED
      BY <1>1, <2>1, <3>1, <3>2, <3>4, <3>5
  <2>3. /\ n \in 0..(Len(W) - 1) /\ n + 1 \in 0..Len(W) /\ (n + 1) + Len(PP) = Len(W)
        /\ W[n + 1] = c
    <3>1. 1 \in 1..Len(P)
      BY <1>1, <2>2
    <3> QED
      BY <1>1, <1>2, <2>2, <3>1
  <2>4. ASSUME NEW i \in 1..Len(PP) PROVE PP[i] = W[(n + 1) + i]
    <3>1. i + 1 \in 1..Len(P) /\ n + (i + 1) = (n + 1) + i
      BY <1>1, <1>2, <2>2
    <3>2. P[i + 1] = W[n + (i + 1)]
      BY <1>2, <3>1
    <3> QED
      BY <2>2, <3>1, <3>2
  <2>5. Cut(W)[n + 1] = Joined(Cut(W)[n], c) /\ Cut(W)[n] \in CutState
    <3>1. /\ Cut(W) \in [0..Len(W) -> CutState]
          /\ \A i \in 0..(Len(W) - 1) : Cut(W)[i + 1] = Joined(Cut(W)[i], W[i + 1])
      BY <1>1, CutDef
    <3> QED
      BY <1>2, <2>3, <3>1
  <2>6. l \in String
    BY <1>1, <2>1, StringFacts
  <2>7. Append(shown \o q, l) = shown \o Append(q, l) /\ Append(q, l) \in Seq(String)
    <3> HIDE DEF l
    <3>1. /\ shown \o q \in Seq(String) /\ <<l>> \in Seq(String)
          /\ Append(q, l) = q \o <<l>> /\ Append(q, l) \in Seq(String)
      <4>1. shown \o q \in Seq(String)
        BY <1>1, ConcatProperties
      <4>2. Append(q, l) = q \o <<l>>
        BY <1>1, <2>6, AppendIsConcat
      <4>3. Append(q, l) \in Seq(String) /\ <<l>> \in Seq(String)
        BY <1>1, <2>6
      <4> QED
        BY <4>1, <4>2, <4>3
    <3>2. Append(shown \o q, l) = (shown \o q) \o <<l>>
      BY <2>6, <3>1, AppendIsConcat
    <3>3. (shown \o q) \o <<l>> = shown \o (q \o <<l>>)
      BY <1>1, <3>1, LinesAssociate, Zenon
    <3> QED
      BY <3>1, <3>2, <3>3
  <2>8. /\ Cut(W)[n + 1].lines = shown \o added.q /\ Cut(W)[n + 1].line = added.str
        /\ added.str \in String /\ added.q \in Seq(String)
    <3>1. CASE c = Newline
      <4>1. added.str = <<>> /\ added.q = Append(q, l)
        BY <1>3, <1>5, <3>1 DEF add_char
      <4>2. Cut(W)[n + 1].lines = Append(shown \o q, l) /\ Cut(W)[n + 1].line = <<>>
        BY <1>2, <2>5, <3>1 DEF Joined
      <4> QED
        BY <2>7, <4>1, <4>2, StringFacts
    <3>2. CASE c # Newline
      <4>1. added.str = l /\ added.q = q
        BY <1>3, <1>5, <3>2 DEF add_char
      <4>2. Cut(W)[n + 1].lines = shown \o q /\ Cut(W)[n + 1].line = l
        BY <1>2, <2>5, <3>2 DEF Joined, CutState
      <4> QED
        BY <1>1, <2>6, <4>1, <4>2
    <3> QED
      BY <3>1, <3>2
  <2> HIDE DEF added
  <2>9. /\ n + 1 \in 0..Len(W) /\ (n + 1) + Len(PP) = Len(W)
        /\ \A i \in 1..Len(PP) : PP[i] = W[(n + 1) + i]
    BY <2>3, <2>4
  <2> QED
    BY <2>8, <2>9 DEF W, PP, added
<1> QED
  BY <1>4, <1>5

\* main takes the first line of m_q, if any, and hands it on or ends.
LEMMA LineTaken ==
  ASSUME Types, ~done, Unhalted, UNCHANGED riscof, NEW ls \in Seq(String),
         get_string(ls) \/ (q' = ls /\ UNCHANGED <<shown, done>>)
  PROVE  /\ q' \in Seq(String) /\ shown' \in Seq(String) /\ done' \in BOOLEAN
         /\ Taken' = shown \o ls /\ Unhalted'
<1>1. shown \in Seq(String) /\ riscof \in BOOLEAN /\ done \in BOOLEAN
  BY DEF Types
<1>2. CASE q' = ls /\ UNCHANGED <<shown, done>>
  <2>1. shown \o <<>> = shown
    BY <1>1, ConcatEmptySeq
  <2>2. Taken' = shown \o ls
    BY <1>2, <2>1 DEF Taken, Halted
  <2>3. Unhalted'
    BY <1>2 DEF Unhalted
  <2> QED
    BY <1>1, <1>2, <2>2, <2>3
<1>3. CASE get_string(ls) /\ ls # <<>>
  <2> DEFINE l == Head(ls)
             r == Tail(ls)
  <2>1. l \in String /\ r \in Seq(String) /\ ls = <<l>> \o r /\ <<l>> \in Seq(String)
    BY <1>3, HeadTailProperties, ConcatProperties
  <2>2. /\ q' = r /\ done' = (riscof /\ l = HALT)
        /\ shown' = IF done' THEN shown ELSE Append(shown, l)
    BY <1>3 DEF get_string, HandOn
  <2> HIDE DEF l, r
  <2>3. /\ Append(shown, l) = shown \o <<l>> /\ shown \o <<l>> \in Seq(String)
        /\ (shown \o <<l>>) \o <<>> = shown \o <<l>>
        /\ (shown \o <<l>>) \o r = shown \o (<<l>> \o r)
    <3>1. Append(shown, l) = shown \o <<l>> /\ shown \o <<l>> \in Seq(String)
      BY <1>1, <2>1, AppendIsConcat, ConcatProperties
    <3>2. (shown \o <<l>>) \o <<>> = shown \o <<l>>
      BY <3>1, ConcatEmptySeq
    <3>3. (shown \o <<l>>) \o r = shown \o (<<l>> \o r)
      BY <1>1, <2>1, ConcatAssociative
    <3> QED
      BY <3>1, <3>2, <3>3
  <2>4. CASE riscof /\ l = HALT
    <3>1. done' /\ shown' = shown /\ Halted' = <<l>>
      BY <2>2, <2>4 DEF Halted
    <3>2. Taken' = shown \o ls
      BY <2>1, <2>2, <2>3, <3>1 DEF Taken
    <3>3. Unhalted'
      BY <2>4, <3>1 DEF Unhalted
    <3> QED
      BY <1>1, <2>1, <2>2, <3>1, <3>2, <3>3
  <2>5. CASE ~(riscof /\ l = HALT)
    <3>1. ~done' /\ shown' = Append(shown, l) /\ Halted' = <<>> /\ done' \in BOOLEAN
      BY <2>2, <2>5 DEF Halted
    <3>2. Taken' = shown \o ls
      BY <2>1, <2>2, <2>3, <3>1 DEF Taken
    <3>3. riscof => \A i \in 1..Len(shown') : shown'[i] # HALT
      <4> SUFFICES ASSUME riscof, NEW i \in 1..Len(shown') PROVE shown'[i] # HALT
        OBVIOUS
      <4>1. /\ Len(Append(shown, l)) = Len(shown) + 1 /\ Len(shown) \in Nat
            /\ \A j \in 1..Len(shown) : Append(shown, l)[j] = shown[j]
            /\ Append(shown, l)[Len(shown) + 1] = l
        BY <1>1, <2>1, AppendProperties
      <4>2. i \in 1..Len(shown) \/ i = Len(shown) + 1
        BY <3>1, <4>1
      <4> QED
        BY <2>5, <3>1, <4>1, <4>2 DEF Unhalted
    <3>4. Unhalted'
      BY <3>1, <3>3 DEF Unhalted
    <3>5. shown' \in Seq(String)
      BY <2>3, <3>1
    <3> QED
      BY <2>1, <2>2, <3>1, <3>2, <3>4, <3>5
  <2> QED
    BY <2>4, <2>5
<1>4. CASE get_string(ls) /\ ls = <<>>
  <2>1. q' = ls /\ UNCHANGED <<shown, done>>
    BY <1>4 DEF get_string
  <2> QED
    BY <1>2, <2>1
<1> QED
  BY <1>2, <1>3, <1>4

LEMMA TurnsOf ==
  ASSUME UartInv, NEW reads, Turn(reads)
  PROVE  /\ ~done /\ UNCHANGED <<text, riscof>>
         /\ \E d : /\ Turns(d)
                  /\ LET added == add_char(Aged(rx, d), str, q)
                     IN  /\ str' = added.str
                         /\ \/ get_string(added.q)
                            \/ q' = added.q /\ UNCHANGED <<shown, done>>
<1>1. PICK d \in Elapse :
        /\ Transmit(d) /\ rx' = uart_tick(Aged(rx, d), Line(frame'))
        /\ \E added \in {add_char(Aged(rx, d), str, q)} :
             /\ str' = added.str
             /\ IF reads THEN get_string(added.q)
                         ELSE q' = added.q /\ UNCHANGED <<shown, done>>
  BY DEF Turn
<1>2. ~done /\ UNCHANGED <<pc, text, rest, riscof>>
  BY DEF Turn, program
<1>3. Turns(d)
  BY <1>1, <1>2 DEF Turns, UartInv
<1>4. LET added == add_char(Aged(rx, d), str, q)
      IN  /\ str' = added.str
          /\ get_string(added.q) \/ (q' = added.q /\ UNCHANGED <<shown, done>>)
  BY <1>1
<1> QED
  BY <1>2, <1>3, <1>4

LEMMA TurnStep ==
  ASSUME UartInv, NEW reads, Turn(reads)
  PROVE  UartInv'
<1>1. /\ Types /\ SetUp /\ Tracking /\ Unhalted
      /\ ~done /\ UNCHANGED <<text, riscof>>
  BY TurnsOf DEF UartInv
<1>2. PICK d : /\ Turns(d)
               /\ LET added == add_char(Aged(rx, d), str, q)
                  IN  /\ str' = added.str
                      /\ \/ get_string(added.q)
                         \/ q' = added.q /\ UNCHANGED <<shown, done>>
  BY TurnsOf
<1> DEFINE added == add_char(Aged(rx, d), str, q)
<1>3. Goes(d) /\ Moves(d)
  BY <1>2, EveryTurn DEF Goes
<1>4. /\ added.str \in String /\ added.q \in Seq(String)
      /\ \E n \in 0..Len(Written) :
           /\ n + Len(Pending') = Len(Written)
           /\ \A i \in 1..Len(Pending') : Pending'[i] = Written[n + i]
           /\ Cut(Written)[n].lines = shown \o added.q
           /\ Cut(Written)[n].line = added.str
  BY <1>1, <1>2, <1>3, CharAdded
<1>5. /\ str' = added.str
      /\ get_string(added.q) \/ (q' = added.q /\ UNCHANGED <<shown, done>>)
  BY <1>2
<1> HIDE DEF added
<1>6. /\ q' \in Seq(String) /\ shown' \in Seq(String) /\ done' \in BOOLEAN
      /\ Taken' = shown \o added.q /\ Unhalted'
  BY <1>1, <1>4, <1>5, LineTaken
<1>7. /\ hold' \in Nat /\ hold' <= 7722 /\ UNCHANGED <<lcr, dl>>
      /\ fifo' = <<>> \/ fifo' = fifo
      /\ hold = 0 => hold' = 0
  <2>1. Transmit(d) /\ d \in Nat \ {0}
    BY <1>2, TurnFacts DEF Turns
  <2>2. hold \in Nat /\ hold <= 7722
    BY <1>1, Fields
  <2>3. hold' = IF hold > d THEN hold - d ELSE 0
    BY <2>1 DEF Transmit
  <2>4. hold' \in Nat /\ hold' <= 7722 /\ (hold = 0 => hold' = 0)
    BY <2>1, <2>2, <2>3
  <2>5. UNCHANGED <<lcr, dl>>
    BY <2>1 DEF Transmit
  <2> QED
    BY <1>3, <2>4, <2>5 DEF Moves
<1>8. UNCHANGED <<pc, rest>>
  BY <1>2 DEF Turns
<1>9. Types'
  <2>1. str' \in String /\ riscof' \in BOOLEAN
    BY <1>1, <1>4, <1>5 DEF Types
  <2> QED
    BY <1>3, <1>6, <1>7, <2>1 DEF Types, Goes
<1>10. SetUp'
  BY <1>1, <1>7, <1>8 DEF SetUp, Written
<1>11. Tracking'
  BY <1>1, <1>3, <1>8 DEF Tracking, Goes
<1>12. Assembled'
  <2>1. Written' = Written
    BY <1>1 DEF Written
  <2>2. PICK n \in 0..Len(Written) :
          /\ n + Len(Pending') = Len(Written)
          /\ \A i \in 1..Len(Pending') : Pending'[i] = Written[n + i]
          /\ Cut(Written)[n].lines = shown \o added.q
          /\ Cut(Written)[n].line = added.str
    BY <1>4
  <2>3. /\ n \in 0..Len(Written') /\ n + Len(Pending') = Len(Written')
        /\ \A i \in 1..Len(Pending') : Pending'[i] = Written'[n + i]
        /\ Cut(Written')[n].lines = Taken' /\ Cut(Written')[n].line = str'
    BY <1>5, <1>6, <2>1, <2>2
  <2> QED
    BY <2>3 DEF Assembled, Taken
<1> QED
  BY <1>6, <1>9, <1>10, <1>11, <1>12 DEF UartInv

LEMMA UartStep == UartInv /\ [Next]_vars => UartInv'
<1> SUFFICES ASSUME UartInv, [Next]_vars PROVE UartInv'
  OBVIOUS
<1>1. CASE InitWrite
  BY <1>1, InitWriteStep
<1>2. CASE uart_write_str
  BY <1>2, WriteStep
<1>3. CASE MainLoop
  <2>1. PICK reads \in BOOLEAN : Turn(reads)
    BY <1>3 DEF MainLoop
  <2> QED
    BY <2>1, TurnStep
<1>4. CASE Exit \/ UNCHANGED vars
  <2>1. UNCHANGED vars
    BY <1>4 DEF Exit
  <2> QED
    <3>1. UNCHANGED <<pc, text, rest, lcr, dl, fifo, frame, hold, rx, str, q, riscof, shown, done>>
      BY <2>1 DEF vars, uart, program
    <3>2. Types /\ SetUp /\ Tracking /\ Assembled /\ Unhalted
      BY DEF UartInv
    <3>3. Types' /\ Unhalted'
      BY <3>1, <3>2 DEF Types, Unhalted
    <3>4. SetUp'
      BY <3>1, <3>2 DEF SetUp, Written
    <3>5. Tracking'
      BY <3>1, <3>2 DEF Tracking, InStep, Following
    <3>6. Assembled'
      <4>1. Pending' = Pending /\ Taken' = Taken
        BY <3>1 DEF Pending, UnderWay, Lead, BitTime, Enable, Taken, Halted
      <4> QED
        BY <3>1, <3>2, <4>1, AssembledSame
    <3> QED
      BY <3>3, <3>4, <3>5, <3>6 DEF UartInv
<1> QED
  BY <1>1, <1>2, <1>3, <1>4 DEF Next

\* Bit p is sampled 439 + 4p of its 864 turns after it begins.
LEMMA SampleTurn ==
  ASSUME UartInv, [Next]_vars, rx'.pos > rx.pos
  PROVE  LET into == frame'.t - Lead - BitTime * rx'.pos
         IN  /\ frame'.state = "sending"
             /\ 4 * into >= BitTime /\ 4 * into <= 3 * BitTime
<1>1. Types /\ rx.pos \in Nat
  BY Fields DEF UartInv
<1>2. rx' # rx
  <2> SUFFICES ASSUME rx' = rx PROVE FALSE
    OBVIOUS
  <2>1. rx.pos > rx.pos
    OBVIOUS
  <2> QED
    BY <1>1, <2>1
<1>3. PICK reads \in BOOLEAN : Turn(reads)
  BY <1>2 DEF Next, InitWrite, uart_write_str, Exit, MainLoop, vars
<1>4. PICK d : Turns(d)
  BY <1>3, TurnsOf
<1>5. /\ rx.sm \in {"IDLE", "DETECT_START_BIT", "DETECT_MID_START_BIT",
                    "DETECT_MID_DATA_BIT", "STOP_BIT"}
      /\ rx.pos \in 0..8 /\ InStep(frame, rx)
      /\ frame.state \in {"undriven", "idle", "sending"}
  BY <1>1, <1>4, Fields, TurnFacts
<1>6. rx.sm = "DETECT_MID_DATA_BIT" /\ Left(d) = 0
  <2> SUFFICES ASSUME ~(rx.sm = "DETECT_MID_DATA_BIT" /\ Left(d) = 0)
               PROVE  rx'.pos = rx.pos \/ rx'.pos = 0
    BY <1>1
  <2> QED
    BY <1>4, <1>5, TickFacts DEF Rx
<1>7. frame.state = "sending"
  BY <1>5, <1>6 DEF InStep
<1>8. /\ rx.pos \in 0..7 /\ rx.left > 0 /\ frame.t + rx.left = 1411 + (868 * rx.pos)
  <2>1. /\ rx.pos <= 7 /\ rx.left > 0 /\ frame.t + rx.left = 1411 + (868 * rx.pos)
    BY <1>5, <1>6, <1>7 DEF InStep, Following
  <2>2. rx.pos \in 0..7
    BY <1>5, <2>1
  <2> QED
    BY <2>1, <2>2
<1> DEFINE p == rx.pos
           e == 1411 + (868 * p)
<1>9. e \in Nat /\ e <= 8355
  <2>1. p \in 0..7
    BY <1>8
  <2> HIDE DEF p
  <2> QED
    BY <2>1
<1>10. frame'.t = e /\ frame.t + d < 8640
  BY <1>4, <1>6, <1>7, <1>8, <1>9, Advance
<1>11. frame'.state = "sending" /\ pc = 6 /\ SetUp
  BY <1>4, <1>7, <1>10, SameFrame
<1>12. rx'.pos = p + 1
  BY <1>4, <1>6, TickFacts DEF Rx
<1>13. Lead = 108 /\ BitTime = 864
  BY <1>11, Rates
<1>14. frame'.t - Lead - BitTime * rx'.pos = 439 + 4 * p
  <2>1. p \in 0..7
    BY <1>8
  <2>2. frame'.t - Lead - BitTime * rx'.pos = (e - 108) - 864 * (p + 1)
    BY <1>10, <1>12, <1>13
  <2> HIDE DEF p
  <2> QED
    BY <2>1, <2>2
<1>15. 4 * (439 + 4 * p) >= 864 /\ 4 * (439 + 4 * p) <= 3 * 864
  <2>1. p \in 0..7
    BY <1>8
  <2> HIDE DEF p
  <2> QED
    BY <2>1
<1> QED
  BY <1>11, <1>13, <1>14, <1>15
-----------------------------------------------------------------------------
(* The theorems.                                                           *)

LEMMA UartInvAlways == Spec => []UartInv
<1>1. Init => UartInv
  BY InitUart
<1>2. UartInv /\ [Next]_vars => UartInv'
  BY UartStep
<1> QED
  BY <1>1, <1>2, PTL DEF Spec

\* Of any text every character arrives once, in order and unchanged, whatever the moments
\* at which the program writes and main reads: what has arrived, what is on the line, what
\* the FIFO holds and what is left to write make up the text (uart_lib.c, uart.cpp).
THEOREM CharsAreConserved == Spec => []Inv
<1>1. UartInv => Inv
  BY SaysInv
<1> QED
  BY <1>1, UartInvAlways, PTL

\* Of any text the lines are handed on whole, once and in order, in riscof mode those before
\* the first halt line and neither it nor what follows (tb.cpp, the loop of main).
THEOREM LinesStayInOrder == Spec => []LinesInOrder
<1>1. UartInv => LinesInOrder
  BY SaysLines
<1> QED
  BY <1>1, UartInvAlways, PTL

\* UartSim takes every bit of every character in the middle half of the bit, although its
\* bit time is not the transmitter's (uart.cpp, uart_tick).
THEOREM BitsAreSampledMidway == Spec => SamplesMidBit
<1>1. ASSUME UartInv, [Next]_vars
      PROVE  [rx'.pos > rx.pos =>
                LET into == frame'.t - Lead - BitTime * rx'.pos
                IN  /\ frame'.state = "sending"
                    /\ 4 * into >= BitTime /\ 4 * into <= 3 * BitTime]_vars
  BY <1>1, SampleTurn
<1> QED
  BY <1>1, UartInvAlways, PTL DEF Spec, SamplesMidBit
=============================================================================
