----------------------------- MODULE SequenceFacts -----------------------------
(***************************************************************************)
(* Facts about the sequence operators the engines are built from.          *)
(***************************************************************************)
EXTENDS Integers, Sequences, SequencesExt, FiniteSetsExt, Folds, Positions, SequenceTheorems,
        FiniteSetTheorems, WellFoundedInduction, TLAPS

\* The last of a sequence and what comes before it (list.pop()).
LEMMA FrontLast ==
  ASSUME NEW S, NEW s \in Seq(S), s # <<>>
  PROVE  /\ Len(s) \in Nat \ {0}
         /\ Front(s) \in Seq(S)
         /\ Len(Front(s)) = Len(s) - 1
         /\ \A i \in 1 .. Len(s) - 1 : Front(s)[i] = s[i]
         /\ Last(s) \in S
         /\ Last(s) = s[Len(s)]
  <1>1. Len(s) \in Nat \ {0} BY EmptySeq
  <1>2. \A i \in 1 .. Len(s) : s[i] \in S BY ElementOfSeq
  <1>3. Front(s) = SubSeq(s, 1, Len(s) - 1) BY DEF Front
  <1>4. Last(s) = s[Len(s)] BY DEF Last
  <1>5. \A i \in 1 .. Len(s) - 1 : s[i] \in S BY <1>1, <1>2
  <1>6. /\ SubSeq(s, 1, Len(s) - 1) \in Seq(S)
        /\ Len(SubSeq(s, 1, Len(s) - 1)) = IF 1 <= Len(s) - 1 THEN Len(s) - 1 - 1 + 1 ELSE 0
        /\ \A i \in 1 .. Len(s) - 1 - 1 + 1 : SubSeq(s, 1, Len(s) - 1)[i] = s[1 + i - 1]
    BY <1>1, <1>5, SubSeqProperties
  <1>7. Len(Front(s)) = Len(s) - 1
    <2>1. CASE 1 <= Len(s) - 1 BY <2>1, <1>1, <1>3, <1>6
    <2>2. CASE ~(1 <= Len(s) - 1)
      <3>1. Len(s) - 1 = 0
        <4>1. PICK n \in Nat \ {0} : n = Len(s) BY <1>1
        <4>2. ~(1 <= n - 1) BY <2>2, <4>1
        <4>3. n - 1 = 0 BY <4>2
        <4> QED BY <4>1, <4>3
      <3>2. Len(Front(s)) = 0 BY <2>2, <1>3, <1>6
      <3> QED BY <3>1, <3>2
    <2> QED BY <2>1, <2>2
  <1>8. ASSUME NEW i \in 1 .. Len(s) - 1 PROVE Front(s)[i] = s[i]
    <2>1. i \in 1 .. Len(s) - 1 - 1 + 1 /\ 1 + i - 1 = i BY <1>1
    <2> QED BY <2>1, <1>3, <1>6
  <1>9. Last(s) \in S BY <1>1, <1>2, <1>4
  <1> QED BY <1>1, <1>3, <1>4, <1>6, <1>7, <1>8, <1>9

\* A sequence less its i-th member.
LEMMA RemoveAtType ==
  ASSUME NEW S, NEW s \in Seq(S), NEW i \in 1 .. Len(s)
  PROVE  /\ RemoveAt(s, i) \in Seq(S)
         /\ Len(RemoveAt(s, i)) = Len(s) - 1
         /\ \A j \in 1 .. Len(s) - 1 : RemoveAt(s, i)[j] = IF j < i THEN s[j] ELSE s[j + 1]
  <1> DEFINE p == SubSeq(s, 1, i - 1)
             q == SubSeq(s, i + 1, Len(s))
  <1>1. Len(s) \in Nat /\ i \in Nat /\ i >= 1 /\ i <= Len(s) BY LenProperties
  <1>2. \A k \in 1 .. Len(s) : s[k] \in S BY ElementOfSeq
  <1>3. /\ p \in Seq(S)
        /\ Len(p) = IF 1 <= i - 1 THEN i - 1 - 1 + 1 ELSE 0
        /\ \A k \in 1 .. i - 1 - 1 + 1 : p[k] = s[1 + k - 1]
    <2>1. \A k \in 1 .. i - 1 : s[k] \in S BY <1>1, <1>2
    <2> QED BY <1>1, <2>1, SubSeqProperties
  <1>4. /\ q \in Seq(S)
        /\ Len(q) = IF i + 1 <= Len(s) THEN Len(s) - (i + 1) + 1 ELSE 0
        /\ \A k \in 1 .. Len(s) - (i + 1) + 1 : q[k] = s[i + 1 + k - 1]
    <2>1. \A k \in i + 1 .. Len(s) : s[k] \in S BY <1>1, <1>2
    <2> QED BY <1>1, <2>1, SubSeqProperties
  <1>8. RemoveAt(s, i) = p \o q BY DEF RemoveAt
  <1> HIDE DEF p, q
  <1>5. Len(p) = i - 1 /\ Len(q) = Len(s) - i BY <1>1, <1>3, <1>4
  <1>6. /\ p \o q \in Seq(S)
        /\ Len(p \o q) = Len(p) + Len(q)
        /\ \A k \in 1 .. Len(p) + Len(q) : (p \o q)[k] =
               IF k <= Len(p) THEN p[k] ELSE q[k - Len(p)]
    BY <1>3, <1>4, ConcatProperties
  <1>7. ASSUME NEW j \in 1 .. Len(s) - 1
        PROVE  (p \o q)[j] = IF j < i THEN s[j] ELSE s[j + 1]
    <2>1. j \in 1 .. Len(p) + Len(q) BY <1>1, <1>5
    <2>2. CASE j < i
      <3>1. j \in 1 .. i - 1 - 1 + 1 /\ 1 + j - 1 = j /\ j <= Len(p) BY <1>1, <1>5, <2>2
      <3> QED BY <2>1, <2>2, <3>1, <1>3, <1>6
    <2>3. CASE ~(j < i)
      <3> DEFINE k == j - Len(p)
      <3>1. /\ k \in 1 .. Len(s) - (i + 1) + 1 /\ i + 1 + k - 1 = j + 1
            /\ ~(j <= Len(p)) BY <1>1, <1>5, <2>3
      <3> QED BY <2>1, <2>3, <3>1, <1>4, <1>6
    <2> QED BY <2>2, <2>3
  <1>9. Len(p \o q) = Len(s) - 1 BY <1>1, <1>5, <1>6
  <1> QED BY <1>6, <1>7, <1>8, <1>9

\* Putting the last member back in front of what follows.
LEMMA FrontBack ==
  ASSUME NEW S, NEW s \in Seq(S), s # <<>>, NEW t \in Seq(S)
  PROVE  Front(s) \o (<<Last(s)>> \o t) = s \o t
  <1> DEFINE f == Front(s)
             e == Last(s)
             a == Append(f, e)
  <1>1. /\ Len(s) \in Nat \ {0} /\ f \in Seq(S) /\ Len(f) = Len(s) - 1
        /\ \A i \in 1 .. Len(s) - 1 : f[i] = s[i]
        /\ e \in S /\ e = s[Len(s)]
    BY FrontLast
  <1> HIDE DEF f, e
  <1>2. /\ a \in Seq(S) /\ Len(a) = Len(f) + 1
        /\ \A i \in 1 .. Len(f) : a[i] = f[i]
        /\ a[Len(f) + 1] = e
    BY <1>1, AppendProperties
  <1>3. a = f \o <<e>> BY <1>1, AppendIsConcat
  <1> HIDE DEF a
  <1>4. Len(a) = Len(s) /\ Len(f) + 1 = Len(s) BY <1>1, <1>2
  <1>5. ASSUME NEW i \in 1 .. Len(a) PROVE a[i] = s[i]
    <2>1. CASE i = Len(s) BY <2>1, <1>1, <1>2, <1>4
    <2>2. CASE i # Len(s)
      <3>1. i \in 1 .. Len(s) - 1 /\ i \in 1 .. Len(f) BY <2>2, <1>1, <1>4
      <3> QED BY <3>1, <1>1, <1>2
    <2> QED BY <2>1, <2>2
  <1>6. a = s BY <1>2, <1>4, <1>5, SeqEqual
  <1>7. <<e>> \in Seq(S) BY <1>1
  <1>8. (f \o <<e>>) \o t = f \o (<<e>> \o t)
    <2>1. PICK u \in Seq(S) : u = <<e>> BY <1>7
    <2>2. PICK g \in Seq(S) : g = f BY <1>1
    <2>3. (g \o u) \o t = g \o (u \o t) BY ConcatAssociative
    <2> QED BY <2>1, <2>2, <2>3
  <1> QED BY <1>3, <1>6, <1>8 DEF f, e

\* Moving the first member to the end of what goes before.
LEMMA TakeHead ==
  ASSUME NEW S, NEW s \in Seq(S), s # <<>>, NEW p \in Seq(S)
  PROVE  /\ s[1] \in S
         /\ RemoveAt(s, 1) \in Seq(S)
         /\ Append(p, s[1]) \o RemoveAt(s, 1) = p \o s
  <1> DEFINE h == s[1]
             t == RemoveAt(s, 1)
             c == <<h>> \o t
  <1>1. Len(s) \in Nat \ {0} BY EmptySeq
  <1>2. 1 \in 1 .. Len(s) BY <1>1
  <1>3. h \in S BY <1>2, ElementOfSeq
  <1>4. /\ t \in Seq(S) /\ Len(t) = Len(s) - 1
        /\ \A j \in 1 .. Len(s) - 1 : t[j] = IF j < 1 THEN s[j] ELSE s[j + 1]
    BY <1>2, RemoveAtType
  <1> HIDE DEF t
  <1>5. <<h>> \in Seq(S) /\ Len(<<h>>) = 1 /\ <<h>>[1] = h BY <1>3
  <1>6. /\ c \in Seq(S) /\ Len(c) = 1 + Len(t)
        /\ \A i \in 1 .. 1 + Len(t) : c[i] = IF i <= 1 THEN <<h>>[i] ELSE t[i - 1]
    BY <1>4, <1>5, ConcatProperties
  <1> HIDE DEF c
  <1>7. Len(c) = Len(s) BY <1>1, <1>4, <1>6
  <1>8. ASSUME NEW i \in 1 .. Len(c) PROVE c[i] = s[i]
    <2>1. CASE i = 1 BY <2>1, <1>4, <1>5, <1>6
    <2>2. CASE i # 1
      <3>1. /\ i \in 1 .. 1 + Len(t) /\ ~(i <= 1)
            /\ i - 1 \in 1 .. Len(s) - 1 /\ ~(i - 1 < 1) /\ i - 1 + 1 = i
        BY <2>2, <1>1, <1>4, <1>6
      <3> QED BY <3>1, <1>4, <1>6
    <2> QED BY <2>1, <2>2
  <1>9. c = s BY <1>6, <1>7, <1>8, SeqEqual
  <1>10. Append(p, h) = p \o <<h>> BY <1>3, AppendIsConcat
  <1>11. (p \o <<h>>) \o t = p \o (<<h>> \o t)
    <2>1. PICK u \in Seq(S) : u = <<h>> BY <1>5
    <2>2. (p \o u) \o t = p \o (u \o t) BY <1>4, ConcatAssociative
    <2> QED BY <2>1, <2>2
  <1> QED BY <1>3, <1>4, <1>9, <1>10, <1>11 DEF c, t

\* Removing from the first of two sequences, or from the two in a row.
LEMMA RemoveConcat ==
  ASSUME NEW S, NEW s \in Seq(S), NEW t \in Seq(S), NEW i \in 1 .. Len(s)
  PROVE  /\ i \in 1 .. Len(s \o t)
         /\ (s \o t)[i] = s[i]
         /\ RemoveAt(s, i) \o t = RemoveAt(s \o t, i)
  <1> DEFINE r == RemoveAt(s, i)
             c == s \o t
             left == r \o t
             right == RemoveAt(c, i)
  <1>1. /\ Len(s) \in Nat /\ Len(t) \in Nat /\ i \in Nat /\ i >= 1 /\ i <= Len(s)
    BY LenProperties
  <1>2. /\ r \in Seq(S) /\ Len(r) = Len(s) - 1
        /\ \A j \in 1 .. Len(s) - 1 : r[j] = IF j < i THEN s[j] ELSE s[j + 1]
    BY RemoveAtType
  <1>3. /\ c \in Seq(S) /\ Len(c) = Len(s) + Len(t)
        /\ \A j \in 1 .. Len(s) + Len(t) : c[j] = IF j <= Len(s) THEN s[j] ELSE t[j - Len(s)]
    BY ConcatProperties
  <1> HIDE DEF r, c
  <1>4. i \in 1 .. Len(c) /\ i \in 1 .. Len(s) + Len(t) BY <1>1, <1>3
  <1>5. /\ left \in Seq(S) /\ Len(left) = Len(r) + Len(t)
        /\ \A j \in 1 .. Len(r) + Len(t) : left[j] = IF j <= Len(r) THEN r[j] ELSE t[j - Len(r)]
    BY <1>2, ConcatProperties
  <1>6. /\ right \in Seq(S) /\ Len(right) = Len(c) - 1
        /\ \A j \in 1 .. Len(c) - 1 : right[j] = IF j < i THEN c[j] ELSE c[j + 1]
    BY <1>3, <1>4, RemoveAtType
  <1> HIDE DEF left, right
  <1>7. Len(left) = Len(right) BY <1>1, <1>2, <1>3, <1>5, <1>6
  <1>8. ASSUME NEW j \in 1 .. Len(left) PROVE left[j] = right[j]
    <2>1. /\ j \in 1 .. Len(r) + Len(t) /\ j \in 1 .. Len(c) - 1
          /\ j \in 1 .. Len(s) + Len(t) /\ j + 1 \in 1 .. Len(s) + Len(t)
      BY <1>1, <1>2, <1>3, <1>5
    <2>2. CASE j <= Len(r)
      <3>1. j \in 1 .. Len(s) - 1 /\ j <= Len(s) /\ j + 1 <= Len(s) BY <2>2, <1>1, <1>2
      <3>2. left[j] = IF j < i THEN s[j] ELSE s[j + 1] BY <2>1, <2>2, <3>1, <1>2, <1>5
      <3>3. right[j] = IF j < i THEN s[j] ELSE s[j + 1] BY <2>1, <3>1, <1>3, <1>6
      <3> QED BY <3>2, <3>3
    <2>3. CASE ~(j <= Len(r))
      <3>1. ~(j < i) /\ ~(j + 1 <= Len(s)) /\ j + 1 - Len(s) = j - Len(r)
        BY <2>1, <2>3, <1>1, <1>2
      <3>2. left[j] = t[j - Len(r)] BY <2>1, <2>3, <1>5
      <3>3. right[j] = c[j + 1] BY <2>1, <3>1, <1>6
      <3>4. c[j + 1] = t[j + 1 - Len(s)] BY <2>1, <3>1, <1>3
      <3> QED BY <3>1, <3>2, <3>3, <3>4
    <2> QED BY <2>2, <2>3
  <1>9. left = right BY <1>5, <1>6, <1>7, <1>8, SeqEqual
  <1>10. c[i] = s[i] BY <1>1, <1>3, <1>4
  <1> QED BY <1>4, <1>9, <1>10 DEF c, r, left, right

--------------------------------------------------------------------------------
(* Numbers, finite sets, and some positions of a list. *)

\* Numbers are well ordered.
LEMMA LeastNumber ==
  ASSUME NEW S \in SUBSET Nat, S # {}
  PROVE  \E n \in S : \A m \in S : n <= m
  <1>1. PICK n \in S : \A m \in S : <<m, n>> \notin OpToRel(<, Nat)
    BY NatLessThanWellFounded, WFMin, Zenon
  <1>2. \A m \in S : ~(m < n) BY <1>1, Zenon DEF OpToRel
  <1> QED BY <1>2

\* A set of numbers that has 0, and with a number the next one, has them all.
LEMMA Induction ==
  ASSUME NEW S, 0 \in S, \A n \in Nat : n \in S => n + 1 \in S
  PROVE  Nat \subseteq S
  <1> SUFFICES ASSUME Nat \ S # {} PROVE FALSE
    OBVIOUS
  <1>1. PICK n \in Nat \ S : \A m \in Nat \ S : n <= m BY LeastNumber
  <1>2. n # 0 /\ n - 1 \in Nat /\ n - 1 + 1 = n BY <1>1
  <1>3. n - 1 \in S BY <1>1, <1>2
  <1> QED BY <1>1, <1>2, <1>3

\* A set of sets that has the empty one, and with a part of U the part with one
\* more member, has all of U.
LEMMA FiniteInduction ==
  ASSUME NEW U, IsFiniteSet(U), NEW T, {} \in T,
         \A A \in SUBSET U : \A x \in U : A \in T => A \cup {x} \in T
  PROVE  U \in T
  <1> DEFINE Sizes == {Cardinality(A) : A \in {A \in SUBSET U : A \notin T}}
  <1> SUFFICES ASSUME U \notin T PROVE FALSE
    OBVIOUS
  <1>1. \A A \in SUBSET U : IsFiniteSet(A) /\ Cardinality(A) \in Nat
    BY FS_Subset, FS_CardinalityType
  <1>2. Sizes \in SUBSET Nat /\ Sizes # {} BY <1>1
  <1>3. PICK n \in Sizes : \A m \in Sizes : n <= m BY <1>2, LeastNumber
  <1>4. PICK A \in SUBSET U : A \notin T /\ Cardinality(A) = n BY <1>3
  <1>5. PICK x \in A : TRUE BY <1>4
  <1>6. Cardinality(A \ {x}) = n - 1 /\ A \ {x} \in SUBSET U BY <1>1, <1>4, <1>5, FS_RemoveElement
  <1>7. A \ {x} \notin T BY <1>4, <1>5
  <1>8. n - 1 \in Sizes BY <1>6, <1>7
  <1> HIDE DEF Sizes
  <1>9. n \in Nat /\ n <= n - 1 BY <1>2, <1>3, <1>8
  <1> QED BY <1>9

\* A function of numbers may be defined by recursion.
LEMMA RecursionDefines ==
  ASSUME NEW V, NEW base \in V, NEW step \in [V -> V]
  PROVE  \E f \in [Nat -> V] : \A n \in Nat : f[n] = IF n = 0 THEN base ELSE step[f[n - 1]]
  <1> DEFINE Right(g, n) == \A k \in 0 .. n : g[k] = IF k = 0 THEN base ELSE step[g[k - 1]]
             Sizes == {n \in Nat : \E g \in [0 .. n -> V] : Right(g, n)}
  <1>1. 0 \in Sizes
    <2>1. PICK g : g = [k \in 0 .. 0 |-> base] OBVIOUS
    <2>2. \A k \in 0 .. 0 : k = 0 OBVIOUS
    <2>3. g \in [0 .. 0 -> V] /\ Right(g, 0) BY <2>1, <2>2
    <2> QED BY <2>3
  <1>2. ASSUME NEW n \in Nat, n \in Sizes PROVE n + 1 \in Sizes
    <2>1. PICK g \in [0 .. n -> V] : Right(g, n) BY <1>2
    <2>2. PICK h : h = [k \in 0 .. n + 1 |-> IF k \in 0 .. n THEN g[k] ELSE step[g[n]]] OBVIOUS
    <2>3. \A k \in 0 .. n : k \in 0 .. n + 1 /\ h[k] = g[k] BY <2>2
    <2>4. n + 1 \in 0 .. n + 1 /\ ~(n + 1 \in 0 .. n) /\ n \in 0 .. n OBVIOUS
    <2>5. h[n + 1] = step[g[n]] BY <2>2, <2>4
    <2>6. g[n] \in V /\ step[g[n]] \in V BY <2>1, <2>4
    <2>7. h \in [0 .. n + 1 -> V] BY <2>2, <2>6
    <2>8. ASSUME NEW k \in 0 .. n + 1 PROVE h[k] = IF k = 0 THEN base ELSE step[h[k - 1]]
      <3>1. CASE k = 0 BY <2>1, <2>3, <3>1
      <3>2. CASE k # 0 /\ k \in 0 .. n
        <4>1. k - 1 \in 0 .. n BY <3>2
        <4>2. h[k] = g[k] /\ h[k - 1] = g[k - 1] BY <2>3, <3>2, <4>1
        <4>3. g[k] = step[g[k - 1]] BY <2>1, <3>2
        <4> QED BY <3>2, <4>2, <4>3
      <3>3. CASE k = n + 1
        <4>1. k # 0 /\ k - 1 = n BY <3>3
        <4> QED BY <2>3, <2>4, <2>5, <3>3, <4>1
      <3> QED BY <3>1, <3>2, <3>3
    <2>9. Right(h, n + 1) BY <2>8
    <2> HIDE DEF Right
    <2> QED BY <2>7, <2>9
  <1>3. \A n \in Nat : \E g \in [0 .. n -> V] : Right(g, n)
    <2> HIDE DEF Sizes
    <2>1. Nat \subseteq Sizes BY <1>1, <1>2, Induction
    <2> QED BY <2>1 DEF Sizes
  <1> DEFINE of(n) == CHOOSE g : g \in [0 .. n -> V] /\ Right(g, n)
  <1>4. \A n \in Nat : of(n) \in [0 .. n -> V] /\ Right(of(n), n) BY <1>3
  <1> HIDE DEF of, Sizes
  <1>5. \A n \in Nat : of(n + 1)[n] = of(n)[n]
    <2> SUFFICES ASSUME NEW n \in Nat PROVE of(n + 1)[n] = of(n)[n]
      OBVIOUS
    <2>1. PICK g \in [0 .. n -> V] : g = of(n) /\ Right(g, n) BY <1>4
    <2>2. n + 1 \in Nat OBVIOUS
    <2>3. PICK h \in [0 .. n + 1 -> V] : h = of(n + 1) /\ Right(h, n + 1) BY <1>4, <2>2
    <2>4. PICK Same : Same = {k \in Nat : k <= n => h[k] = g[k]} OBVIOUS
    <2>5. 0 \in Same
      <3>1. 0 \in 0 .. n /\ 0 \in 0 .. n + 1 OBVIOUS
      <3> QED BY <2>1, <2>3, <2>4, <3>1
    <2>6. ASSUME NEW k \in Nat, k \in Same PROVE k + 1 \in Same
      <3>1. SUFFICES ASSUME k + 1 <= n PROVE h[k + 1] = g[k + 1]
        BY <2>4
      <3>2. k + 1 \in 0 .. n /\ k + 1 \in 0 .. n + 1 /\ k + 1 # 0 /\ k + 1 - 1 = k /\ k <= n BY <3>1
      <3>3. h[k] = g[k] BY <2>4, <2>6, <3>2
      <3>4. h[k + 1] = step[h[k]] BY <2>3, <3>2
      <3>5. g[k + 1] = step[g[k]] BY <2>1, <3>2
      <3> QED BY <3>3, <3>4, <3>5
    <2>7. Nat \subseteq Same BY <2>5, <2>6, Induction
    <2> QED BY <2>1, <2>3, <2>4, <2>7
  <1>6. PICK f : f = [n \in Nat |-> of(n)[n]] OBVIOUS
  <1>7. ASSUME NEW n \in Nat PROVE f[n] \in V
    <2>1. n \in 0 .. n /\ of(n) \in [0 .. n -> V] BY <1>4
    <2> QED BY <1>6, <2>1
  <1>8. ASSUME NEW n \in Nat PROVE f[n] = IF n = 0 THEN base ELSE step[f[n - 1]]
    <2>1. PICK g \in [0 .. n -> V] : g = of(n) /\ Right(g, n) BY <1>4
    <2>2. n \in 0 .. n OBVIOUS
    <2>3. g[n] = IF n = 0 THEN base ELSE step[g[n - 1]] BY <2>1, <2>2
    <2>4. ASSUME n # 0 PROVE g[n - 1] = f[n - 1]
      <3>1. n - 1 \in Nat /\ n - 1 + 1 = n BY <2>4
      <3>2. PICK m \in Nat : m = n - 1 /\ m + 1 = n BY <3>1
      <3>3. of(m + 1)[m] = of(m)[m] BY <1>5
      <3> QED BY <1>6, <2>1, <3>2, <3>3
    <2> QED BY <1>6, <2>1, <2>3, <2>4
  <1>9. f \in [Nat -> V] BY <1>6, <1>7
  <1> QED BY <1>8, <1>9

--------------------------------------------------------------------------------
(* Folds over finite sets, in first-order form. *)

Folded(g, U, base, step, one) ==
    \A s \in SUBSET U : g[s] = IF s = {} THEN base ELSE step[<<one[s], g[s \ {one[s]}]>>]

\* What a fold over a set computes, one member at a time in an order that `one`
\* fixes, can be tabulated for all parts of the set.
LEMMA FoldTable ==
  ASSUME NEW U, IsFiniteSet(U), NEW V, NEW base \in V, NEW step \in [U \X V -> V],
         NEW one \in [(SUBSET U) \ {{}} -> U], \A s \in (SUBSET U) \ {{}} : one[s] \in s
  PROVE  \E g \in [SUBSET U -> V] : Folded(g, U, base, step, one)
  <1> DEFINE From(g, s) == IF s = {} THEN base ELSE step[<<one[s], g[s \ {one[s]}]>>]
             Right(g, n) == \A s \in SUBSET U : Cardinality(s) <= n => g[s] = From(g, s)
             Sizes == {n \in Nat : \E g \in [SUBSET U -> V] : Right(g, n)}
  <1>1. ASSUME NEW s \in SUBSET U
        PROVE  /\ Cardinality(s) \in Nat /\ (Cardinality(s) = 0 <=> s = {})
               /\ Cardinality(s) <= Cardinality(U)
               /\ s # {} => /\ one[s] \in U /\ s \ {one[s]} \in SUBSET U
                            /\ Cardinality(s \ {one[s]}) = Cardinality(s) - 1
    <2>1. IsFiniteSet(s) /\ Cardinality(s) <= Cardinality(U) BY FS_Subset
    <2>2. Cardinality(s) \in Nat /\ (Cardinality(s) = 0 <=> s = {})
      BY <2>1, FS_CardinalityType, FS_EmptySet
    <2>3. s # {} => Cardinality(s \ {one[s]}) = Cardinality(s) - 1 BY <2>1, FS_RemoveElement
    <2> QED BY <2>1, <2>2, <2>3
  <1>2. 0 \in Sizes
    <2>1. PICK g : g = [s \in SUBSET U |-> base] OBVIOUS
    <2>2. Right(g, 0)
      <3>1. ASSUME NEW s \in SUBSET U, Cardinality(s) <= 0 PROVE g[s] = From(g, s)
        <4>1. Cardinality(s) \in Nat /\ (Cardinality(s) = 0 <=> s = {}) BY <1>1
        <4>2. s = {} BY <3>1, <4>1
        <4> QED BY <2>1, <4>2
      <3> QED BY <3>1
    <2> QED BY <2>1, <2>2
  <1>3. ASSUME NEW n \in Nat, n \in Sizes PROVE n + 1 \in Sizes
    <2>1. PICK g \in [SUBSET U -> V] : Right(g, n) BY <1>3
    <2>2. PICK h : h = [s \in SUBSET U |-> From(g, s)] OBVIOUS
    <2>3. ASSUME NEW s \in SUBSET U PROVE From(g, s) \in V
      <3>1. CASE s = {} BY <3>1
      <3>2. CASE s # {}
        <4>1. one[s] \in U /\ g[s \ {one[s]}] \in V BY <1>1, <3>2
        <4> QED BY <3>2, <4>1
      <3> QED BY <3>1, <3>2
    <2>4. h \in [SUBSET U -> V] BY <2>2, <2>3
    <2>5. ASSUME NEW s \in SUBSET U, Cardinality(s) <= n + 1 PROVE h[s] = From(h, s)
      <3>1. CASE s = {} BY <2>2, <3>1
      <3>2. CASE s # {}
        <4>1. s \ {one[s]} \in SUBSET U /\ Cardinality(s \ {one[s]}) <= n BY <1>1, <2>5, <3>2
        <4>2. g[s \ {one[s]}] = From(g, s \ {one[s]}) BY <2>1, <4>1
        <4>3. h[s \ {one[s]}] = From(g, s \ {one[s]}) BY <2>2, <4>1
        <4>4. h[s] = step[<<one[s], g[s \ {one[s]}]>>] BY <2>2, <3>2
        <4> QED BY <3>2, <4>2, <4>3, <4>4
      <3> QED BY <3>1, <3>2
    <2>6. Right(h, n + 1) BY <2>5
    <2> HIDE DEF Right
    <2> QED BY <2>4, <2>6
  <1>4. Cardinality(U) \in Sizes
    <2> HIDE DEF Sizes
    <2>1. Nat \subseteq Sizes BY <1>2, <1>3, Induction
    <2> QED BY <1>1, <2>1
  <1>5. PICK g \in [SUBSET U -> V] : Right(g, Cardinality(U)) BY <1>4
  <1> QED BY <1>1, <1>5 DEF Folded

--------------------------------------------------------------------------------
(* Sums. *)

SumTableOf(g, f, U) ==
    /\ g \in [SUBSET U -> Int]
    /\ \A s \in SUBSET U : /\ g[s] = SumFunctionOnSet(f, s)
                           /\ s = {} => g[s] = 0
                           /\ s # {} => \E x \in s : g[s] = f[x] + g[s \ {x}]

\* The sums over the parts of a finite set, tabulated.
LEMMA SumTable ==
  ASSUME NEW U, IsFiniteSet(U), NEW f \in [U -> Int]
  PROVE  \E g : SumTableOf(g, f, U)
  <1> DEFINE choice(s) == CHOOSE x \in s : TRUE
  <1>1. PICK one : one = [s \in (SUBSET U) \ {{}} |-> choice(s)] OBVIOUS
  <1>2. ASSUME NEW s \in (SUBSET U) \ {{}} PROVE one[s] \in s /\ one[s] \in U /\ one[s] = choice(s)
    <2>0. s # {} OBVIOUS
    <2>1. choice(s) \in s BY <2>0
    <2> HIDE DEF choice
    <2>2. one[s] = choice(s) BY <1>1
    <2> QED BY <2>1, <2>2
  <1>3. one \in [(SUBSET U) \ {{}} -> U] BY <1>1, <1>2
  <1> HIDE DEF choice
  <1>4. PICK step \in [U \X Int -> Int] : \A x \in U, n \in Int : step[<<x, n>>] = f[x] + n
    <2>1. [p \in U \X Int |-> f[p[1]] + p[2]] \in [U \X Int -> Int] OBVIOUS
    <2> QED BY <2>1
  <1>5. 0 \in Int OBVIOUS
  <1>a. PICK g \in [SUBSET U -> Int] : Folded(g, U, 0, step, one)
    <2>1. \A s \in (SUBSET U) \ {{}} : one[s] \in s BY <1>2
    <2> QED BY <2>1, <1>3, <1>5, FoldTable
  <1>6. \A s \in SUBSET U : g[s] = IF s = {} THEN 0 ELSE step[<<one[s], g[s \ {one[s]}]>>]
    BY <1>a DEF Folded
  <1>7. ASSUME NEW s \in SUBSET U, s # {} PROVE g[s] = f[choice(s)] + g[s \ {choice(s)}]
    <2>1. s \ {choice(s)} \in SUBSET U /\ choice(s) \in U BY <1>2, <1>7
    <2>2. g[s \ {choice(s)}] \in Int BY <2>1
    <2>3. g[s] = step[<<choice(s), g[s \ {choice(s)}]>>] BY <1>2, <1>6, <1>7
    <2> QED BY <1>4, <2>1, <2>2, <2>3
  <1>8. ASSUME NEW S \in SUBSET U PROVE SumFunctionOnSet(f, S) = g[S]
    <2> DEFINE From(h, s) == IF s = {} THEN 0 ELSE f[choice(s)] + h[s \ {choice(s)}]
               iter == CHOOSE h : h = [s \in SUBSET S |-> From(h, s)]
    <2>1. SumFunctionOnSet(f, S) = iter[S] BY DEF SumFunctionOnSet, FoldFunctionOnSet, MapThenFoldSet, choice
    <2>2. PICK h : h = [s \in SUBSET S |-> g[s]] OBVIOUS
    <2>3. h = [s \in SUBSET S |-> From(h, s)]
      <3>1. ASSUME NEW s \in SUBSET S PROVE g[s] = From(h, s)
        <4>1. CASE s = {} BY <1>6, <4>1
        <4>2. CASE s # {}
          <5>1. s \in SUBSET U /\ s \ {choice(s)} \in SUBSET S OBVIOUS
          <5>2. h[s \ {choice(s)}] = g[s \ {choice(s)}] BY <2>2, <5>1
          <5> QED BY <1>7, <4>2, <5>1, <5>2
        <4> QED BY <4>1, <4>2
      <3> HIDE DEF From
      <3> QED BY <2>2, <3>1
    <2>4. iter = [s \in SUBSET S |-> From(iter, s)]
      <3> HIDE DEF From
      <3> QED BY <2>3
    <2>5. PICK sum : sum = iter OBVIOUS
    <2>6. \A s \in SUBSET S : sum[s] = From(sum, s)
      <3> HIDE DEF From, iter
      <3> QED BY <2>4, <2>5
    <2> HIDE DEF iter
    <2> DEFINE Sizes == {n \in Nat : \A s \in SUBSET S : Cardinality(s) <= n => sum[s] = g[s]}
    <2>7. ASSUME NEW s \in SUBSET S
          PROVE  /\ Cardinality(s) \in Nat /\ (Cardinality(s) = 0 <=> s = {})
                 /\ s # {} => /\ s \ {choice(s)} \in SUBSET S
                              /\ Cardinality(s \ {choice(s)}) = Cardinality(s) - 1
      <3>1. IsFiniteSet(s) BY FS_Subset
      <3>2. Cardinality(s) \in Nat /\ (Cardinality(s) = 0 <=> s = {})
        BY <3>1, FS_CardinalityType, FS_EmptySet
      <3>3. s # {} => choice(s) \in s BY <1>2
      <3>4. s # {} => Cardinality(s \ {choice(s)}) = Cardinality(s) - 1
        BY <3>1, <3>3, FS_RemoveElement
      <3> QED BY <3>2, <3>4
    <2>8. 0 \in Sizes
      <3>1. ASSUME NEW s \in SUBSET S, Cardinality(s) <= 0 PROVE sum[s] = g[s]
        <4>1. Cardinality(s) \in Nat /\ (Cardinality(s) = 0 <=> s = {}) BY <2>7
        <4>2. s = {} BY <3>1, <4>1
        <4> QED BY <1>6, <2>6, <4>2
      <3> QED BY <3>1
    <2>9. ASSUME NEW n \in Nat, n \in Sizes PROVE n + 1 \in Sizes
      <3>1. ASSUME NEW s \in SUBSET S, Cardinality(s) <= n + 1 PROVE sum[s] = g[s]
        <4>1. CASE s = {} BY <1>6, <2>6, <4>1
        <4>2. CASE s # {}
          <5>1. s \ {choice(s)} \in SUBSET S /\ Cardinality(s \ {choice(s)}) <= n
            BY <2>7, <3>1, <4>2
          <5>2. sum[s \ {choice(s)}] = g[s \ {choice(s)}] BY <2>9, <5>1
          <5>3. sum[s] = f[choice(s)] + sum[s \ {choice(s)}] BY <2>6, <4>2
          <5>4. g[s] = f[choice(s)] + g[s \ {choice(s)}] BY <1>7, <4>2
          <5> QED BY <5>2, <5>3, <5>4
        <4> QED BY <4>1, <4>2
      <3> QED BY <3>1
    <2>10. Cardinality(S) \in Sizes
      <3> HIDE DEF Sizes
      <3>1. Nat \subseteq Sizes BY <2>8, <2>9, Induction
      <3> QED BY <2>7, <3>1
    <2>11. sum[S] = g[S] BY <2>7, <2>10
    <2> QED BY <2>1, <2>5, <2>11
  <1>9. ASSUME NEW s \in SUBSET U, s # {} PROVE \E x \in s : g[s] = f[x] + g[s \ {x}]
    <2>1. choice(s) \in s BY <1>2, <1>9
    <2> QED BY <1>7, <1>9, <2>1
  <1>10. SumTableOf(g, f, U) BY <1>6, <1>8, <1>9 DEF SumTableOf
  <1> QED BY <1>10

\* The sum over nothing.
LEMMA SumEmpty == ASSUME NEW f PROVE SumFunctionOnSet(f, {}) = 0
  <1>1. PICK h : h = [x \in {} |-> 0] OBVIOUS
  <1> DEFINE iter == CHOOSE g : g = [s \in SUBSET {} |->
                         IF s = {} THEN 0 ELSE f[CHOOSE x \in s : TRUE] + g[s \ {CHOOSE x \in s : TRUE}]]
  <1>2. SumFunctionOnSet(f, {}) = iter[{}] BY DEF SumFunctionOnSet, FoldFunctionOnSet, MapThenFoldSet
  <1>3. PICK z : z = [s \in SUBSET {} |-> 0] OBVIOUS
  <1>4. z = [s \in SUBSET {} |->
                IF s = {} THEN 0 ELSE f[CHOOSE x \in s : TRUE] + z[s \ {CHOOSE x \in s : TRUE}]]
    <2>1. \A s \in SUBSET {} : s = {} OBVIOUS
    <2> QED BY <1>3, <2>1
  <1>5. iter = [s \in SUBSET {} |->
                IF s = {} THEN 0 ELSE f[CHOOSE x \in s : TRUE] + iter[s \ {CHOOSE x \in s : TRUE}]]
    BY <1>4
  <1>6. iter[{}] = 0
    <2> HIDE DEF iter
    <2>1. PICK t : t = iter OBVIOUS
    <2> QED BY <1>5, <2>1
  <1> QED BY <1>2, <1>6

\* The sum over a finite set, with one of its members apart.
LEMMA SumSplit ==
  ASSUME NEW U, IsFiniteSet(U), NEW f \in [U -> Int], NEW x \in U
  PROVE  /\ SumFunctionOnSet(f, U) \in Int /\ SumFunctionOnSet(f, U \ {x}) \in Int
         /\ SumFunctionOnSet(f, U) = f[x] + SumFunctionOnSet(f, U \ {x})
  <1>0. PICK g : SumTableOf(g, f, U) BY SumTable
  <1>1. /\ g \in [SUBSET U -> Int]
        /\ \A s \in SUBSET U : /\ g[s] = SumFunctionOnSet(f, s)
                               /\ s = {} => g[s] = 0
                               /\ s # {} => \E y \in s : g[s] = f[y] + g[s \ {y}]
    BY <1>0 DEF SumTableOf
  <1> DEFINE Fine(s) == \A y \in s : g[s] = f[y] + g[s \ {y}]
             Sizes == {n \in Nat : \A s \in SUBSET U : Cardinality(s) <= n => Fine(s)}
  <1>2. ASSUME NEW s \in SUBSET U
        PROVE  /\ Cardinality(s) \in Nat /\ (Cardinality(s) = 0 <=> s = {})
               /\ \A y \in s : Cardinality(s \ {y}) = Cardinality(s) - 1
    <2>1. IsFiniteSet(s) BY FS_Subset
    <2> QED BY <2>1, FS_CardinalityType, FS_EmptySet, FS_RemoveElement
  <1>3. 0 \in Sizes BY <1>2
  <1>4. ASSUME NEW n \in Nat, n \in Sizes PROVE n + 1 \in Sizes
    <2>1. ASSUME NEW s \in SUBSET U, Cardinality(s) <= n + 1, NEW y \in s
          PROVE  g[s] = f[y] + g[s \ {y}]
      <3>1. PICK z \in s : g[s] = f[z] + g[s \ {z}] BY <1>1
      <3>2. CASE z = y BY <3>1, <3>2
      <3>3. CASE z # y
        <4>1. /\ s \ {z} \in SUBSET U /\ s \ {y} \in SUBSET U /\ y \in s \ {z} /\ z \in s \ {y}
              /\ (s \ {z}) \ {y} \in SUBSET U /\ (s \ {z}) \ {y} = (s \ {y}) \ {z}
          BY <3>3
        <4>2. Cardinality(s \ {z}) <= n /\ Cardinality(s \ {y}) <= n BY <1>2, <2>1
        <4>3. Fine(s \ {z}) /\ Fine(s \ {y}) BY <1>4, <4>1, <4>2
        <4>4. g[s \ {z}] = f[y] + g[(s \ {z}) \ {y}] BY <4>1, <4>3
        <4>5. g[s \ {y}] = f[z] + g[(s \ {z}) \ {y}] BY <4>1, <4>3
        <4>6. f[y] \in Int /\ f[z] \in Int /\ g[(s \ {z}) \ {y}] \in Int BY <1>1, <4>1
        <4> QED BY <3>1, <4>4, <4>5, <4>6
      <3> QED BY <3>2, <3>3
    <2> QED BY <2>1
  <1>5. Cardinality(U) \in Sizes
    <2> HIDE DEF Sizes
    <2>1. Nat \subseteq Sizes BY <1>3, <1>4, Induction
    <2> QED BY <1>2, <2>1
  <1>6. Fine(U) BY <1>2, <1>5
  <1>7. U \in SUBSET U /\ U \ {x} \in SUBSET U OBVIOUS
  <1> QED BY <1>1, <1>6, <1>7

\* A member more.
LEMMA SumAdd ==
  ASSUME NEW U, IsFiniteSet(U), NEW x, x \notin U, NEW f \in [U \cup {x} -> Int]
  PROVE  /\ SumFunctionOnSet(f, U) \in Int
         /\ SumFunctionOnSet(f, U \cup {x}) = f[x] + SumFunctionOnSet(f, U)
  <1>1. IsFiniteSet(U \cup {x}) BY FS_AddElement
  <1>2. (U \cup {x}) \ {x} = U /\ x \in U \cup {x} OBVIOUS
  <1>3. PICK W : W = U \cup {x} OBVIOUS
  <1>4. SumFunctionOnSet(f, W \ {x}) \in Int /\ SumFunctionOnSet(f, W) = f[x] + SumFunctionOnSet(f, W \ {x})
    BY <1>1, <1>2, <1>3, SumSplit
  <1> QED BY <1>2, <1>3, <1>4

\* Functions that agree on a set have the same sum over it.
LEMMA SumSame ==
  ASSUME NEW S, IsFiniteSet(S), NEW f, NEW h, \A x \in S : h[x] = f[x]
  PROVE  SumFunctionOnSet(h, S) = SumFunctionOnSet(f, S)
  <1> DEFINE choice(s) == CHOOSE x \in s : TRUE
             FromF(g, s) == IF s = {} THEN 0 ELSE f[choice(s)] + g[s \ {choice(s)}]
             FromH(g, s) == IF s = {} THEN 0 ELSE h[choice(s)] + g[s \ {choice(s)}]
             iterF == CHOOSE g : g = [s \in SUBSET S |-> FromF(g, s)]
             iterH == CHOOSE g : g = [s \in SUBSET S |-> FromH(g, s)]
  <1>1. SumFunctionOnSet(f, S) = iterF[S] BY DEF SumFunctionOnSet, FoldFunctionOnSet, MapThenFoldSet
  <1>2. SumFunctionOnSet(h, S) = iterH[S] BY DEF SumFunctionOnSet, FoldFunctionOnSet, MapThenFoldSet
  <1>3. ASSUME NEW g PROVE [s \in SUBSET S |-> FromF(g, s)] = [s \in SUBSET S |-> FromH(g, s)]
    <2>1. ASSUME NEW s \in SUBSET S PROVE FromF(g, s) = FromH(g, s)
      <3>1. s # {} => choice(s) \in S OBVIOUS
      <3> HIDE DEF choice
      <3> QED BY <3>1
    <2> HIDE DEF FromF, FromH
    <2> QED BY <2>1
  <1> HIDE DEF FromF, FromH
  <1>4. iterF = iterH BY <1>3
  <1> QED BY <1>1, <1>2, <1>4

\* A sum over part of a set.
LEMMA SumPart ==
  ASSUME NEW U, IsFiniteSet(U), NEW f \in [U -> Int], NEW A \in SUBSET U
  PROVE  IsFiniteSet(A) /\ SumFunctionOnSet(f, A) \in Int
  <1>1. PICK g : SumTableOf(g, f, U) BY SumTable
  <1>2. g \in [SUBSET U -> Int] /\ g[A] = SumFunctionOnSet(f, A) BY <1>1 DEF SumTableOf
  <1>3. g[A] \in Int BY <1>2
  <1> QED BY <1>2, <1>3, FS_Subset

LEMMA SumInsert ==
  ASSUME NEW U, IsFiniteSet(U), NEW f \in [U -> Int], NEW A \in SUBSET U, NEW x \in U, x \notin A
  PROVE  SumFunctionOnSet(f, A \cup {x}) = f[x] + SumFunctionOnSet(f, A)
  <1>1. PICK B : B = A \cup {x} OBVIOUS
  <1>2. PICK g : g = [y \in B |-> f[y]] OBVIOUS
  <1>3. \A y \in B : y \in U BY <1>1
  <1>4. g \in [A \cup {x} -> Int] BY <1>1, <1>2, <1>3
  <1>5. IsFiniteSet(A) /\ IsFiniteSet(B) BY <1>1, FS_Subset, FS_AddElement
  <1>6. SumFunctionOnSet(g, A \cup {x}) = g[x] + SumFunctionOnSet(g, A) BY <1>4, <1>5, SumAdd
  <1>7. (\A y \in B : g[y] = f[y]) /\ (\A y \in A : g[y] = f[y]) /\ g[x] = f[x] BY <1>1, <1>2
  <1>8. SumFunctionOnSet(g, B) = SumFunctionOnSet(f, B) BY <1>5, <1>7, SumSame
  <1>9. SumFunctionOnSet(g, A) = SumFunctionOnSet(f, A) BY <1>5, <1>7, SumSame
  <1> QED BY <1>1, <1>6, <1>7, <1>8, <1>9

LEMMA SumSingle ==
  ASSUME NEW U, IsFiniteSet(U), NEW f \in [U -> Int], NEW x \in U
  PROVE  SumFunctionOnSet(f, {x}) = f[x]
  <1>1. SumFunctionOnSet(f, {} \cup {x}) = f[x] + SumFunctionOnSet(f, {}) BY SumInsert
  <1>2. SumFunctionOnSet(f, {}) = 0 /\ {} \cup {x} = {x} BY SumEmpty
  <1>3. f[x] \in Int OBVIOUS
  <1> QED BY <1>1, <1>2, <1>3

\* A sum of numbers that are not negative, and one of its terms.
LEMMA SumNat ==
  ASSUME NEW U, IsFiniteSet(U), NEW f \in [U -> Int], NEW A \in SUBSET U, \A x \in A : f[x] >= 0
  PROVE  SumFunctionOnSet(f, A) \in Nat
  <1>1. PICK T : T = {C \in SUBSET A : SumFunctionOnSet(f, C) >= 0} OBVIOUS
  <1>2. {} \in T BY <1>1, SumEmpty
  <1>3. ASSUME NEW C \in SUBSET A, NEW x \in A, C \in T PROVE C \cup {x} \in T
    <2>1. CASE x \in C
      <3>1. C \cup {x} = C BY <2>1
      <3> QED BY <1>3, <3>1
    <2>2. CASE x \notin C
      <3>1. SumFunctionOnSet(f, C \cup {x}) = f[x] + SumFunctionOnSet(f, C) BY <2>2, SumInsert
      <3>2. SumFunctionOnSet(f, C) \in Int BY SumPart
      <3>3. SumFunctionOnSet(f, C) >= 0 BY <1>1, <1>3
      <3>4. f[x] \in Int /\ f[x] >= 0 OBVIOUS
      <3>5. SumFunctionOnSet(f, C \cup {x}) >= 0 BY <3>1, <3>2, <3>3, <3>4
      <3> QED BY <1>1, <3>5
    <2> QED BY <2>1, <2>2
  <1>4. IsFiniteSet(A) BY FS_Subset
  <1>5. A \in T BY <1>2, <1>3, <1>4, FiniteInduction
  <1>6. SumFunctionOnSet(f, A) >= 0 BY <1>1, <1>5
  <1>7. SumFunctionOnSet(f, A) \in Int BY SumPart
  <1> QED BY <1>6, <1>7

LEMMA SumTerm ==
  ASSUME NEW U, IsFiniteSet(U), NEW f \in [U -> Int], NEW x \in U, \A y \in U : f[y] >= 0
  PROVE  f[x] <= SumFunctionOnSet(f, U)
  <1>1. SumFunctionOnSet(f, U) = f[x] + SumFunctionOnSet(f, U \ {x}) BY SumSplit
  <1>2. SumFunctionOnSet(f, U \ {x}) \in Nat BY SumNat
  <1> QED BY <1>1, <1>2

\* Nothing added up.
LEMMA SumZero ==
  ASSUME NEW U, IsFiniteSet(U), NEW f \in [U -> Int], \A x \in U : f[x] = 0
  PROVE  SumFunctionOnSet(f, U) = 0
  <1>1. PICK T : T = {C \in SUBSET U : SumFunctionOnSet(f, C) = 0} OBVIOUS
  <1>2. {} \in T BY <1>1, SumEmpty
  <1>3. ASSUME NEW C \in SUBSET U, NEW x \in U, C \in T PROVE C \cup {x} \in T
    <2>1. CASE x \in C
      <3>1. C \cup {x} = C BY <2>1
      <3> QED BY <1>3, <3>1
    <2>2. CASE x \notin C
      <3>1. SumFunctionOnSet(f, C \cup {x}) = f[x] + SumFunctionOnSet(f, C) BY <2>2, SumInsert
      <3>2. SumFunctionOnSet(f, C \cup {x}) = 0 BY <1>1, <1>3, <3>1
      <3> QED BY <1>1, <3>2
    <2> QED BY <2>1, <2>2
  <1>4. U \in T BY <1>2, <1>3, FiniteInduction
  <1> QED BY <1>1, <1>4

\* Sums over two sets that have nobody in common.
LEMMA SumUnion ==
  ASSUME NEW U, IsFiniteSet(U), NEW f \in [U -> Int], NEW A \in SUBSET U, NEW B \in SUBSET U,
         A \cap B = {}
  PROVE  SumFunctionOnSet(f, A \cup B) = SumFunctionOnSet(f, A) + SumFunctionOnSet(f, B)
  <1>1. PICK T : T = {C \in SUBSET B : SumFunctionOnSet(f, A \cup C) =
                                       SumFunctionOnSet(f, A) + SumFunctionOnSet(f, C)}
    OBVIOUS
  <1>2. {} \in T
    <2>1. A \cup {} = A /\ SumFunctionOnSet(f, {}) = 0 /\ SumFunctionOnSet(f, A) \in Int
      BY SumEmpty, SumPart
    <2> QED BY <1>1, <2>1
  <1>3. ASSUME NEW C \in SUBSET B, NEW x \in B, C \in T PROVE C \cup {x} \in T
    <2>1. CASE x \in C
      <3>1. C \cup {x} = C BY <2>1
      <3> QED BY <1>3, <3>1
    <2>2. CASE x \notin C
      <3>1. SumFunctionOnSet(f, C \cup {x}) = f[x] + SumFunctionOnSet(f, C) BY <2>2, SumInsert
      <3>2. PICK D \in SUBSET U : D = A \cup C /\ x \notin D /\ x \in U BY <2>2
      <3>3. SumFunctionOnSet(f, D \cup {x}) = f[x] + SumFunctionOnSet(f, D) BY <3>2, SumInsert
      <3>4. D \cup {x} = A \cup (C \cup {x}) BY <3>2
      <3>5. SumFunctionOnSet(f, D) = SumFunctionOnSet(f, A) + SumFunctionOnSet(f, C)
        BY <1>1, <1>3, <3>2
      <3>6. PICK a \in Int : a = SumFunctionOnSet(f, A) BY SumPart
      <3>7. PICK c \in Int : c = SumFunctionOnSet(f, C) BY SumPart
      <3>8. PICK e \in Int : e = f[x] OBVIOUS
      <3>9. SumFunctionOnSet(f, A \cup (C \cup {x})) = a + (e + c)
        <4>1. SumFunctionOnSet(f, D) = a + c BY <3>5, <3>6, <3>7
        <4>2. SumFunctionOnSet(f, D \cup {x}) = e + (a + c) BY <3>3, <3>8, <4>1
        <4>3. SumFunctionOnSet(f, A \cup (C \cup {x})) = e + (a + c) BY <3>4, <4>2
        <4> QED BY <4>3
      <3>10. C \cup {x} \in SUBSET B OBVIOUS
      <3> QED BY <1>1, <3>1, <3>6, <3>7, <3>8, <3>9, <3>10
    <2> QED BY <2>1, <2>2
  <1>4. IsFiniteSet(B) BY FS_Subset
  <1>5. B \in T BY <1>2, <1>3, <1>4, FiniteInduction
  <1> QED BY <1>1, <1>5

\* The sum when some terms grow by one.
LEMMA SumRaise ==
  ASSUME NEW U, IsFiniteSet(U), NEW f \in [U -> Int], NEW h \in [U -> Int], NEW A \in SUBSET U,
         \A x \in A : h[x] = f[x] + 1, \A x \in U \ A : h[x] = f[x]
  PROVE  SumFunctionOnSet(h, U) = SumFunctionOnSet(f, U) + Cardinality(A)
  <1>0. IsFiniteSet(A) /\ IsFiniteSet(U \ A) /\ Cardinality(A) \in Nat
    BY FS_Subset, FS_Difference, FS_CardinalityType
  <1>1. PICK T : T = {C \in SUBSET A : SumFunctionOnSet(h, C) =
                                       SumFunctionOnSet(f, C) + Cardinality(C)}
    OBVIOUS
  <1>2. {} \in T BY <1>1, SumEmpty, FS_EmptySet
  <1>3. ASSUME NEW C \in SUBSET A, NEW x \in A, C \in T PROVE C \cup {x} \in T
    <2>1. CASE x \in C
      <3>1. C \cup {x} = C BY <2>1
      <3> QED BY <1>3, <3>1
    <2>2. CASE x \notin C
      <3>1. SumFunctionOnSet(f, C \cup {x}) = f[x] + SumFunctionOnSet(f, C) BY <2>2, SumInsert
      <3>2. SumFunctionOnSet(h, C \cup {x}) = h[x] + SumFunctionOnSet(h, C) BY <2>2, SumInsert
      <3>3. IsFiniteSet(C) BY <1>0, FS_Subset
      <3>4. Cardinality(C \cup {x}) = Cardinality(C) + 1 BY <2>2, <3>3, FS_AddElement
      <3>5. PICK n \in Nat : n = Cardinality(C) BY <3>3, FS_CardinalityType
      <3>6. PICK c \in Int : c = SumFunctionOnSet(f, C) BY SumPart
      <3>7. PICK e \in Int : e = f[x] /\ h[x] = e + 1 OBVIOUS
      <3>8. SumFunctionOnSet(h, C) = c + n BY <1>1, <1>3, <3>5, <3>6
      <3>9. SumFunctionOnSet(h, C \cup {x}) = (e + 1) + (c + n) BY <3>2, <3>7, <3>8
      <3>10. SumFunctionOnSet(h, C \cup {x}) = (e + c) + (n + 1) BY <3>5, <3>6, <3>7, <3>9
      <3>11. C \cup {x} \in SUBSET A OBVIOUS
      <3> QED BY <1>1, <3>1, <3>4, <3>5, <3>6, <3>7, <3>10, <3>11
    <2> QED BY <2>1, <2>2
  <1>4. A \in T BY <1>0, <1>2, <1>3, FiniteInduction
  <1>5. SumFunctionOnSet(h, A) = SumFunctionOnSet(f, A) + Cardinality(A) BY <1>1, <1>4
  <1>6. SumFunctionOnSet(h, U \ A) = SumFunctionOnSet(f, U \ A) BY <1>0, SumSame
  <1>7. PICK B \in SUBSET U : B = U \ A /\ A \cup B = U /\ A \cap B = {}
    <2>1. A \cup (U \ A) = U /\ A \cap (U \ A) = {} /\ U \ A \in SUBSET U OBVIOUS
    <2> QED BY <2>1
  <1>8. SumFunctionOnSet(f, A \cup B) = SumFunctionOnSet(f, A) + SumFunctionOnSet(f, B)
    BY <1>7, SumUnion
  <1>9. SumFunctionOnSet(h, A \cup B) = SumFunctionOnSet(h, A) + SumFunctionOnSet(h, B)
    BY <1>7, SumUnion
  <1>10. PICK a \in Int : a = SumFunctionOnSet(f, A) BY SumPart
  <1>11. PICK b \in Int : b = SumFunctionOnSet(f, B) BY SumPart
  <1>12. PICK n \in Nat : n = Cardinality(A) BY <1>0
  <1>13. SumFunctionOnSet(h, U) = (a + n) + b BY <1>5, <1>6, <1>7, <1>9, <1>10, <1>11, <1>12
  <1>14. SumFunctionOnSet(f, U) = a + b BY <1>7, <1>8, <1>10, <1>11
  <1> QED BY <1>10, <1>11, <1>12, <1>13, <1>14

\* A sum of sums.
LEMMA SumPlus ==
  ASSUME NEW U, IsFiniteSet(U), NEW f \in [U -> Int], NEW g \in [U -> Int], NEW h \in [U -> Int],
         \A x \in U : h[x] = f[x] + g[x]
  PROVE  SumFunctionOnSet(h, U) = SumFunctionOnSet(f, U) + SumFunctionOnSet(g, U)
  <1>1. PICK T : T = {C \in SUBSET U : SumFunctionOnSet(h, C) =
                                       SumFunctionOnSet(f, C) + SumFunctionOnSet(g, C)}
    OBVIOUS
  <1>2. {} \in T BY <1>1, SumEmpty
  <1>3. ASSUME NEW C \in SUBSET U, NEW x \in U, C \in T PROVE C \cup {x} \in T
    <2>1. CASE x \in C
      <3>1. C \cup {x} = C BY <2>1
      <3> QED BY <1>3, <3>1
    <2>2. CASE x \notin C
      <3>1. SumFunctionOnSet(f, C \cup {x}) = f[x] + SumFunctionOnSet(f, C) BY <2>2, SumInsert
      <3>2. SumFunctionOnSet(g, C \cup {x}) = g[x] + SumFunctionOnSet(g, C) BY <2>2, SumInsert
      <3>3. SumFunctionOnSet(h, C \cup {x}) = h[x] + SumFunctionOnSet(h, C) BY <2>2, SumInsert
      <3>4. PICK c \in Int : c = SumFunctionOnSet(f, C) BY SumPart
      <3>5. PICK d \in Int : d = SumFunctionOnSet(g, C) BY SumPart
      <3>6. PICK a \in Int : a = f[x] OBVIOUS
      <3>7. PICK b \in Int : b = g[x] OBVIOUS
      <3>8. SumFunctionOnSet(h, C) = c + d BY <1>1, <1>3, <3>4, <3>5
      <3>9. h[x] = a + b BY <3>6, <3>7
      <3>10. SumFunctionOnSet(h, C \cup {x}) = (a + c) + (b + d) BY <3>3, <3>8, <3>9
      <3>11. C \cup {x} \in SUBSET U OBVIOUS
      <3> QED BY <1>1, <3>1, <3>2, <3>4, <3>5, <3>6, <3>7, <3>10, <3>11
    <2> QED BY <2>1, <2>2
  <1>4. U \in T BY <1>2, <1>3, FiniteInduction
  <1> QED BY <1>1, <1>4

\* Two sets that have nobody in common.
LEMMA CountUnion ==
  ASSUME NEW A, IsFiniteSet(A), NEW B, IsFiniteSet(B), A \cap B = {}
  PROVE  IsFiniteSet(A \cup B) /\ Cardinality(A \cup B) = Cardinality(A) + Cardinality(B)
  <1>1. Cardinality(A) \in Nat /\ Cardinality(B) \in Nat BY FS_CardinalityType
  <1>2. /\ IsFiniteSet(A \cup B)
        /\ Cardinality(A \cup B) = Cardinality(A) + Cardinality(B) - Cardinality(A \cap B)
    BY FS_Union
  <1>3. Cardinality(A \cap B) = 0 BY FS_EmptySet
  <1> QED BY <1>1, <1>2, <1>3

--------------------------------------------------------------------------------
\* The largest number of a set that has a bound.
LEMMA Largest ==
  ASSUME NEW S \in SUBSET Nat, S # {}, NEW n \in Nat, \A i \in S : i <= n
  PROVE  \E m \in S : \A i \in S : m >= i
  <1> DEFINE D == {n - i : i \in S}
  <1>1. D \in SUBSET Nat /\ D # {}
    <2>1. \A i \in S : i \in Nat /\ n - i \in Nat OBVIOUS
    <2> QED BY <2>1
  <1>2. PICK d \in D : \A e \in D : d <= e BY <1>1, LeastNumber
  <1>3. PICK m \in S : d = n - m BY <1>2
  <1>4. \A i \in S : n - m <= n - i BY <1>2, <1>3
  <1> HIDE DEF D
  <1> QED BY <1>3, <1>4

\* InOrder lists every member of a set of numbers once, ascending.
LEMMA InOrderType ==
  ASSUME NEW n \in Nat, NEW S \in SUBSET (1 .. n)
  PROVE  /\ IsFiniteSet(S) /\ Cardinality(S) \in Nat
         /\ InOrder(S) \in [1 .. Cardinality(S) -> S]
         /\ InOrder(S) \in Seq(S) /\ Len(InOrder(S)) = Cardinality(S)
         /\ \A k, l \in 1 .. Cardinality(S) : k < l => InOrder(S)[k] < InOrder(S)[l]
         /\ \A i \in S : \E k \in 1 .. Cardinality(S) : InOrder(S)[k] = i
  <1> DEFINE upto(i) == {j \in S : j <= i}
             rank(i) == Cardinality(upto(i))
  <1>0. \A j \in S : j \in Nat /\ j >= 1 /\ j <= n OBVIOUS
  <1>1. IsFiniteSet(S) /\ Cardinality(S) \in Nat
    <2>1. IsFiniteSet(1 .. n) BY FS_Interval
    <2> QED BY <2>1, FS_Subset, FS_CardinalityType
  <1>2. \A i \in Nat : IsFiniteSet(upto(i)) /\ rank(i) \in Nat
    BY <1>1, FS_Subset, FS_CardinalityType
  <1>3. \A i, j \in Nat : i <= j => rank(i) <= rank(j)
    <2> SUFFICES ASSUME NEW i \in Nat, NEW j \in Nat, i <= j PROVE rank(i) <= rank(j)
      OBVIOUS
    <2>1. \A k \in S : k <= i => k <= j BY <1>0
    <2>2. upto(i) \subseteq upto(j) BY <2>1
    <2> HIDE DEF upto
    <2> QED BY <1>2, <2>2, FS_Subset
  <1>4. \A i \in S : i \in Nat \ {0} /\ i - 1 \in Nat /\ rank(i) = rank(i - 1) + 1
    <2> SUFFICES ASSUME NEW i \in S
                 PROVE i \in Nat \ {0} /\ i - 1 \in Nat /\ rank(i) = rank(i - 1) + 1
      OBVIOUS
    <2>1. i \in Nat \ {0} /\ i - 1 \in Nat BY <1>0
    <2>4. \A k \in S : (k <= i <=> k <= i - 1 \/ k = i) /\ ~(i <= i - 1) BY <1>0, <2>1
    <2>2. upto(i) = upto(i - 1) \cup {i} /\ i \notin upto(i - 1) BY <2>4, Zenon
    <2> HIDE DEF upto
    <2>3. rank(i) = rank(i - 1) + 1 BY <1>2, <2>1, <2>2, FS_AddElement
    <2> QED BY <2>1, <2>3
  <1>5. \A i \in Nat \ {0} : i \notin S => upto(i) = upto(i - 1)
    <2> SUFFICES ASSUME NEW i \in Nat \ {0}, i \notin S PROVE upto(i) = upto(i - 1)
      OBVIOUS
    <2>1. \A k \in S : k <= i <=> k <= i - 1 BY <1>0
    <2> QED BY <2>1, Zenon
  <1>6. upto(0) = {} /\ upto(n) = S
    <2>1. \A k \in S : ~(k <= 0) /\ k <= n BY <1>0
    <2> QED BY <2>1, Zenon
  <1>7. rank(0) = 0 /\ rank(n) = Cardinality(S) BY <1>6, FS_EmptySet
  <1> HIDE DEF upto
  <1>8. \A k \in 1 .. Cardinality(S) : \E i \in S : rank(i) = k
    <2> SUFFICES ASSUME NEW k \in 1 .. Cardinality(S) PROVE \E i \in S : rank(i) = k
      OBVIOUS
    <2> DEFINE R == {i \in Nat : rank(i) >= k}
    <2>1. n \in R BY <1>1, <1>7
    <2>2. PICK i \in R : \A m \in R : i <= m BY <2>1, LeastNumber
    <2>3. i \in Nat /\ rank(i) >= k BY <2>2
    <2>4. i # 0 BY <1>7, <2>3
    <2>5. i - 1 \in Nat /\ ~(rank(i - 1) >= k) BY <2>2, <2>3, <2>4
    <2>6. i \in S BY <1>5, <2>3, <2>4, <2>5
    <2> QED BY <1>2, <1>4, <2>3, <2>5, <2>6
  <1>9. \A i, j \in S : i < j => rank(i) < rank(j)
    <2> SUFFICES ASSUME NEW i \in S, NEW j \in S, i < j PROVE rank(i) < rank(j)
      OBVIOUS
    <2>1. i \in Nat /\ j - 1 \in Nat /\ i <= j - 1 BY <1>4
    <2>2. rank(i) <= rank(j - 1) BY <1>3, <2>1
    <2> QED BY <1>2, <1>4, <2>1, <2>2
  <1>10. \A i \in S : rank(i) \in 1 .. Cardinality(S)
    <2> SUFFICES ASSUME NEW i \in S PROVE rank(i) \in 1 .. Cardinality(S)
      OBVIOUS
    <2>1. i \in Nat /\ i <= n BY <1>0
    <2>2. rank(i) <= rank(n) /\ rank(i) \in Nat /\ rank(i - 1) \in Nat BY <1>2, <1>3, <1>4, <2>1
    <2> QED BY <1>4, <1>7, <2>2
  <1> DEFINE o == InOrder(S)
  <1>11. o = [k \in 1 .. Cardinality(S) |-> CHOOSE i \in S : rank(i) = k]
    BY DEF InOrder, upto
  <1> HIDE DEF rank, o
  <1>12. \A k \in 1 .. Cardinality(S) : o[k] \in S /\ rank(o[k]) = k BY <1>8, <1>11
  <1>13. o \in [1 .. Cardinality(S) -> S] BY <1>11, <1>12
  <1>14. o \in Seq(S) /\ Len(o) = Cardinality(S) BY <1>1, <1>13, LenProperties
  <1>15. ASSUME NEW k \in 1 .. Cardinality(S), NEW l \in 1 .. Cardinality(S), k < l
         PROVE  o[k] < o[l]
    <2>1. o[k] \in S /\ o[l] \in S /\ rank(o[k]) = k /\ rank(o[l]) = l BY <1>12
    <2>2. o[k] \in Nat /\ o[l] \in Nat BY <1>0, <2>1
    <2>4. o[l] < o[k] => rank(o[l]) < rank(o[k]) BY <1>9, <2>1
    <2>3. ~(o[l] < o[k]) /\ o[l] # o[k] BY <1>15, <2>1, <2>4
    <2> QED BY <2>2, <2>3
  <1>16. ASSUME NEW i \in S PROVE \E k \in 1 .. Cardinality(S) : o[k] = i
    <2>1. rank(i) \in 1 .. Cardinality(S) BY <1>10
    <2>2. o[rank(i)] \in S /\ rank(o[rank(i)]) = rank(i) BY <1>12, <2>1
    <2>5. /\ o[rank(i)] < i => rank(o[rank(i)]) < rank(i)
          /\ i < o[rank(i)] => rank(i) < rank(o[rank(i)]) BY <1>9, <2>2
    <2>3. ~(o[rank(i)] < i) /\ ~(i < o[rank(i)]) BY <2>1, <2>2, <2>5
    <2>4. i \in Nat /\ o[rank(i)] \in Nat BY <1>0, <2>2
    <2> QED BY <2>1, <2>3, <2>4
  <1> QED BY <1>1, <1>13, <1>14, <1>15, <1>16 DEF o

--------------------------------------------------------------------------------
(* Members and beginnings of lists. *)

\* What occurs in a list, by its positions.
LEMMA Occurs ==
  ASSUME NEW S, NEW s \in Seq(S), NEW x
  PROVE  x \in Range(s) <=> \E i \in 1 .. Len(s) : s[i] = x
  BY RangeEquality

\* The largest of some positions.
LEMMA MaxOf ==
  ASSUME NEW n \in Nat, NEW P \in SUBSET (1 .. n), P # {}
  PROVE  Max(P) \in P /\ \A i \in P : Max(P) >= i
  <1>1. P \in SUBSET Nat /\ \A i \in P : i <= n OBVIOUS
  <1>2. \E m \in P : \A i \in P : m >= i BY <1>1, Largest
  <1> QED BY <1>2 DEF Max

\* The smaller of two numbers.
LEMMA MinOfTwo ==
  ASSUME NEW a \in Int, NEW b \in Int
  PROVE  Min({a, b}) = IF a <= b THEN a ELSE b
  <1> DEFINE m == IF a <= b THEN a ELSE b
  <1>1. m \in {a, b} /\ \A y \in {a, b} : m <= y OBVIOUS
  <1>2. \A x \in {a, b} : (\A y \in {a, b} : x <= y) => x = m OBVIOUS
  <1> QED BY <1>1, <1>2 DEF Min

\* The larger of two numbers.
LEMMA MaxOfTwo ==
  ASSUME NEW a \in Int, NEW b \in Int
  PROVE  Max({a, b}) = IF a <= b THEN b ELSE a
  <1> DEFINE m == IF a <= b THEN b ELSE a
  <1>1. m \in {a, b} /\ \A y \in {a, b} : m >= y OBVIOUS
  <1>2. \A x \in {a, b} : (\A y \in {a, b} : x >= y) => x = m OBVIOUS
  <1> QED BY <1>1, <1>2 DEF Max

\* The first n of a list.
LEMMA Beginning ==
  ASSUME NEW S, NEW s \in Seq(S), NEW n \in 0 .. Len(s)
  PROVE  /\ SubSeq(s, 1, n) \in Seq(S)
         /\ Len(SubSeq(s, 1, n)) = n
         /\ \A i \in 1 .. n : SubSeq(s, 1, n)[i] = s[i]
  <1> DEFINE b == SubSeq(s, 1, n)
  <1>1. n \in Nat /\ Len(s) \in Nat /\ n <= Len(s) BY LenProperties
  <1>2. \A i \in 1 .. n : s[i] \in S BY <1>1, ElementOfSeq
  <1>3. /\ b \in Seq(S) /\ Len(b) = IF 1 <= n THEN n - 1 + 1 ELSE 0
        /\ \A i \in 1 .. n - 1 + 1 : b[i] = s[1 + i - 1]
    BY <1>1, <1>2, SubSeqProperties
  <1> HIDE DEF b
  <1>4. Len(b) = n BY <1>1, <1>3
  <1>5. ASSUME NEW i \in 1 .. n PROVE b[i] = s[i]
    <2>1. i \in 1 .. n - 1 + 1 /\ 1 + i - 1 = i BY <1>1
    <2> QED BY <2>1, <1>3
  <1> QED BY <1>3, <1>4, <1>5 DEF b

\* The beginning of a beginning.
LEMMA BeginningTwice ==
  ASSUME NEW S, NEW s \in Seq(S), NEW n \in 0 .. Len(s), NEW m \in 0 .. n
  PROVE  SubSeq(SubSeq(s, 1, n), 1, m) = SubSeq(s, 1, m)
  <1> DEFINE b == SubSeq(s, 1, n)
             c == SubSeq(b, 1, m)
             d == SubSeq(s, 1, m)
  <1>1. n \in Nat /\ m \in Nat /\ m <= n /\ Len(s) \in Nat /\ n <= Len(s) BY LenProperties
  <1>2. b \in Seq(S) /\ Len(b) = n /\ \A i \in 1 .. n : b[i] = s[i] BY Beginning
  <1> HIDE DEF b
  <1>3. c \in Seq(S) /\ Len(c) = m /\ \A i \in 1 .. m : c[i] = b[i]
    BY <1>1, <1>2, Beginning
  <1>4. m \in 0 .. Len(s) BY <1>1
  <1>5. d \in Seq(S) /\ Len(d) = m /\ \A i \in 1 .. m : d[i] = s[i]
    BY <1>4, Beginning
  <1> HIDE DEF c, d
  <1>6. \A i \in 1 .. Len(c) : c[i] = d[i] BY <1>1, <1>2, <1>3, <1>5
  <1>7. c = d BY <1>3, <1>5, <1>6, SeqEqual
  <1> QED BY <1>7 DEF b, c, d

\* The beginning of what goes on.
LEMMA BeginningOfConcat ==
  ASSUME NEW S, NEW s \in Seq(S), NEW t \in Seq(S), NEW n \in 0 .. Len(s)
  PROVE  SubSeq(s \o t, 1, n) = SubSeq(s, 1, n)
  <1> DEFINE c == s \o t
             d == SubSeq(c, 1, n)
             e == SubSeq(s, 1, n)
  <1>1. n \in Nat /\ Len(s) \in Nat /\ Len(t) \in Nat /\ n <= Len(s) BY LenProperties
  <1>2. /\ c \in Seq(S) /\ Len(c) = Len(s) + Len(t)
        /\ \A i \in 1 .. Len(s) + Len(t) : c[i] = IF i <= Len(s) THEN s[i] ELSE t[i - Len(s)]
    BY ConcatProperties
  <1> HIDE DEF c
  <1>3. n \in 0 .. Len(c) BY <1>1, <1>2
  <1>4. d \in Seq(S) /\ Len(d) = n /\ \A i \in 1 .. n : d[i] = c[i] BY <1>2, <1>3, Beginning
  <1>5. e \in Seq(S) /\ Len(e) = n /\ \A i \in 1 .. n : e[i] = s[i] BY Beginning
  <1> HIDE DEF d, e
  <1>6. \A i \in 1 .. Len(d) : d[i] = e[i] BY <1>1, <1>2, <1>4, <1>5
  <1>7. d = e BY <1>4, <1>5, <1>6, SeqEqual
  <1> QED BY <1>7 DEF c, d, e

\* Some positions of a list, in order.
LEMMA PickedType ==
  ASSUME NEW S, NEW s \in Seq(S), NEW P \in SUBSET (1 .. Len(s))
  PROVE  /\ Picked(s, P) \in Seq(S)
         /\ Len(Picked(s, P)) = Cardinality(P) /\ Cardinality(P) \in Nat
         /\ Len(InOrder(P)) = Cardinality(P)
         /\ \A k \in 1 .. Cardinality(P) : Picked(s, P)[k] = s[InOrder(P)[k]]
         /\ \A k \in 1 .. Cardinality(P) : InOrder(P)[k] \in P
         /\ \A k, l \in 1 .. Cardinality(P) : InOrder(P)[k] = InOrder(P)[l] => k = l
         /\ \A i \in P : \E k \in 1 .. Cardinality(P) : InOrder(P)[k] = i
  <1> DEFINE o == InOrder(P)
             c == Cardinality(P)
             p == Picked(s, P)
  <1>1. Len(s) \in Nat BY LenProperties
  <1>2. /\ IsFiniteSet(P) /\ c \in Nat /\ o \in [1 .. c -> P] /\ Len(o) = c
        /\ \A k, l \in 1 .. c : k < l => o[k] < o[l]
        /\ \A i \in P : \E k \in 1 .. c : o[k] = i
    BY <1>1, InOrderType
  <1> HIDE DEF o, c
  <1>3. \A k \in 1 .. c : o[k] \in P /\ o[k] \in Nat /\ o[k] \in 1 .. Len(s)
    <2>1. \A i \in P : i \in 1 .. Len(s) /\ i \in Nat OBVIOUS
    <2>2. \A k \in 1 .. c : o[k] \in P BY <1>2
    <2> QED BY <2>1, <2>2
  <1>4. p = [k \in 1 .. c |-> s[o[k]]] BY <1>2 DEF Picked, o
  <1>5. \A i \in 1 .. Len(s) : s[i] \in S BY ElementOfSeq
  <1>6. p \in [1 .. c -> S] /\ \A k \in 1 .. c : p[k] = s[o[k]] BY <1>3, <1>4, <1>5
  <1>7. p \in Seq(S) /\ Len(p) = c BY <1>2, <1>6, LenProperties
  <1>8. ASSUME NEW k \in 1 .. c, NEW l \in 1 .. c, o[k] = o[l] PROVE k = l
    <2>1. /\ k < l => o[k] < o[l]
          /\ l < k => o[l] < o[k] BY <1>2
    <2>2. o[k] \in Nat /\ o[l] \in Nat BY <1>3
    <2>3. ~(k < l) /\ ~(l < k) BY <1>8, <2>1, <2>2
    <2> QED BY <1>2, <2>3
  <1> QED BY <1>2, <1>3, <1>6, <1>7, <1>8 DEF o, c, p

\* Nobody stands twice in a list of which nobody stands twice in the parts.
LEMMA OnceConcat ==
  ASSUME NEW S, NEW s \in Seq(S), NEW t \in Seq(S),
         \A i, j \in 1 .. Len(s) : s[i] = s[j] => i = j,
         \A i, j \in 1 .. Len(t) : t[i] = t[j] => i = j,
         Range(s) \cap Range(t) = {}
  PROVE  /\ s \o t \in Seq(S) /\ Len(s \o t) = Len(s) + Len(t)
         /\ Range(s \o t) = Range(s) \cup Range(t)
         /\ \A i \in 1 .. Len(s \o t) : (s \o t)[i] = IF i <= Len(s) THEN s[i] ELSE t[i - Len(s)]
         /\ \A i, j \in 1 .. Len(s \o t) : (s \o t)[i] = (s \o t)[j] => i = j
  <1> DEFINE c == s \o t
  <1>1. Len(s) \in Nat /\ Len(t) \in Nat BY LenProperties
  <1>2. /\ c \in Seq(S) /\ Len(c) = Len(s) + Len(t)
        /\ \A i \in 1 .. Len(s) + Len(t) : c[i] = IF i <= Len(s) THEN s[i] ELSE t[i - Len(s)]
    BY ConcatProperties
  <1>3. Range(c) = Range(s) \cup Range(t) BY RangeConcatenation
  <1> HIDE DEF c
  <1>4. \A i \in 1 .. Len(s) : s[i] \in Range(s) BY Occurs
  <1>5. \A i \in 1 .. Len(t) : t[i] \in Range(t) BY Occurs
  <1>6. ASSUME NEW i \in 1 .. Len(c), NEW j \in 1 .. Len(c), c[i] = c[j] PROVE i = j
    <2>1. i \in 1 .. Len(s) + Len(t) /\ j \in 1 .. Len(s) + Len(t) BY <1>2
    <2>2. CASE i <= Len(s) /\ j <= Len(s)
      <3>1. i \in 1 .. Len(s) /\ j \in 1 .. Len(s) BY <2>1, <2>2, <1>1
      <3> QED BY <2>1, <2>2, <3>1, <1>2, <1>6
    <2>3. CASE ~(i <= Len(s)) /\ ~(j <= Len(s))
      <3>1. i - Len(s) \in 1 .. Len(t) /\ j - Len(s) \in 1 .. Len(t) BY <2>1, <2>3, <1>1
      <3>2. t[i - Len(s)] = t[j - Len(s)] BY <2>1, <2>3, <1>2, <1>6
      <3>3. i - Len(s) = j - Len(s) BY <3>1, <3>2
      <3> QED BY <3>3, <2>1, <1>1
    <2>4. CASE i <= Len(s) /\ ~(j <= Len(s))
      <3>1. i \in 1 .. Len(s) /\ j - Len(s) \in 1 .. Len(t) BY <2>1, <2>4, <1>1
      <3>2. s[i] = t[j - Len(s)] BY <2>1, <2>4, <1>2, <1>6
      <3> QED BY <3>1, <3>2, <1>4, <1>5
    <2>5. CASE ~(i <= Len(s)) /\ j <= Len(s)
      <3>1. j \in 1 .. Len(s) /\ i - Len(s) \in 1 .. Len(t) BY <2>1, <2>5, <1>1
      <3>2. s[j] = t[i - Len(s)] BY <2>1, <2>5, <1>2, <1>6
      <3> QED BY <3>1, <3>2, <1>4, <1>5
    <2> QED BY <2>2, <2>3, <2>4, <2>5
  <1>7. \A i \in 1 .. Len(c) : c[i] = IF i <= Len(s) THEN s[i] ELSE t[i - Len(s)] BY <1>2
  <1> QED BY <1>2, <1>3, <1>6, <1>7 DEF c

\* A list without repetition, less one of its members.
LEMMA OnceRemove ==
  ASSUME NEW S, NEW s \in Seq(S), NEW k \in 1 .. Len(s),
         \A i, j \in 1 .. Len(s) : s[i] = s[j] => i = j
  PROVE  /\ RemoveAt(s, k) \in Seq(S)
         /\ Range(RemoveAt(s, k)) = Range(s) \ {s[k]}
         /\ \A i, j \in 1 .. Len(RemoveAt(s, k)) : RemoveAt(s, k)[i] = RemoveAt(s, k)[j] => i = j
  <1> DEFINE r == RemoveAt(s, k)
  <1>1. /\ r \in Seq(S) /\ Len(r) = Len(s) - 1
        /\ \A j \in 1 .. Len(s) - 1 : r[j] = IF j < k THEN s[j] ELSE s[j + 1]
    BY RemoveAtType
  <1> HIDE DEF r
  <1>2. Len(s) \in Nat /\ k \in Nat /\ k >= 1 /\ k <= Len(s) BY LenProperties
  <1>3. ASSUME NEW i \in 1 .. Len(r), NEW j \in 1 .. Len(r), r[i] = r[j] PROVE i = j
    <2> DEFINE p == IF i < k THEN i ELSE i + 1
               q == IF j < k THEN j ELSE j + 1
    <2>1. p \in 1 .. Len(s) /\ q \in 1 .. Len(s) BY <1>1, <1>2
    <2>2. r[i] = s[p] /\ r[j] = s[q] BY <1>1
    <2>3. p = q BY <1>3, <2>1, <2>2
    <2> QED BY <2>3, <1>1, <1>2
  <1>4. ASSUME NEW x \in Range(r) PROVE x \in Range(s) \ {s[k]}
    <2>1. PICK i \in 1 .. Len(r) : r[i] = x BY <1>1, Occurs
    <2> DEFINE p == IF i < k THEN i ELSE i + 1
    <2>2. p \in 1 .. Len(s) /\ p # k BY <1>1, <1>2
    <2>3. x = s[p] BY <1>1, <2>1
    <2> QED BY <2>2, <2>3, Occurs
  <1>5. ASSUME NEW x \in Range(s) \ {s[k]} PROVE x \in Range(r)
    <2>1. PICK p \in 1 .. Len(s) : s[p] = x BY Occurs
    <2>2. p # k BY <2>1
    <2> DEFINE i == IF p < k THEN p ELSE p - 1
    <2>3. i \in 1 .. Len(r) /\ i \in 1 .. Len(s) - 1 BY <1>1, <1>2, <2>2
    <2>4. r[i] = s[p] BY <1>1, <1>2, <2>2, <2>3
    <2> QED BY <1>1, <2>1, <2>3, <2>4, Occurs
  <1>6. Range(r) = Range(s) \ {s[k]} BY <1>4, <1>5
  <1> QED BY <1>1, <1>3, <1>6 DEF r

\* A list without repetition, less its last member.
LEMMA OnceFront ==
  ASSUME NEW S, NEW s \in Seq(S), s # <<>>,
         \A i, j \in 1 .. Len(s) : s[i] = s[j] => i = j
  PROVE  /\ Last(s) \in S /\ Last(s) \in Range(s)
         /\ Front(s) \in Seq(S) /\ Len(Front(s)) = Len(s) - 1
         /\ Range(Front(s)) = Range(s) \ {Last(s)}
         /\ \A i, j \in 1 .. Len(Front(s)) : Front(s)[i] = Front(s)[j] => i = j
  <1> DEFINE f == Front(s)
             e == Last(s)
  <1>1. /\ Len(s) \in Nat \ {0} /\ f \in Seq(S) /\ Len(f) = Len(s) - 1
        /\ \A i \in 1 .. Len(s) - 1 : f[i] = s[i]
        /\ e \in S /\ e = s[Len(s)]
    BY FrontLast
  <1> HIDE DEF f, e
  <1>2. Len(s) \in 1 .. Len(s) BY <1>1
  <1>3. e \in Range(s) BY <1>1, <1>2, Occurs
  <1>4. \A i, j \in 1 .. Len(f) : f[i] = f[j] => i = j BY <1>1
  <1>5. ASSUME NEW x \in Range(f) PROVE x \in Range(s) \ {e}
    <2>1. PICK i \in 1 .. Len(f) : f[i] = x BY <1>1, Occurs
    <2>2. i \in 1 .. Len(s) /\ i # Len(s) /\ s[i] = x BY <1>1, <2>1
    <2> QED BY <1>1, <1>2, <2>2, Occurs
  <1>6. ASSUME NEW x \in Range(s) \ {e} PROVE x \in Range(f)
    <2>1. PICK i \in 1 .. Len(s) : s[i] = x BY Occurs
    <2>2. i \in 1 .. Len(f) /\ f[i] = x BY <1>1, <2>1
    <2> QED BY <1>1, <2>2, Occurs
  <1> QED BY <1>1, <1>3, <1>4, <1>5, <1>6 DEF f, e

\* A list of one.
LEMMA OnlyOne ==
  ASSUME NEW S, NEW x \in S
  PROVE  /\ <<x>> \in Seq(S) /\ Len(<<x>>) = 1 /\ Range(<<x>>) = {x}
         /\ \A i, j \in 1 .. Len(<<x>>) : <<x>>[i] = <<x>>[j] => i = j
  <1>1. <<x>> \in Seq(S) /\ Len(<<x>>) = 1 /\ <<x>>[1] = x OBVIOUS
  <1>2. \A y : y \in Range(<<x>>) <=> \E i \in 1 .. 1 : <<x>>[i] = y BY <1>1, Occurs
  <1>3. \A y : y \in Range(<<x>>) <=> y = x BY <1>1, <1>2
  <1> QED BY <1>1, <1>3

\* The empty list.
LEMMA NobodyListed ==
  ASSUME NEW S
  PROVE  <<>> \in Seq(S) /\ Len(<<>>) = 0 /\ Range(<<>>) = {}
  <1>1. <<>> \in Seq(S) /\ Len(<<>>) = 0 BY EmptySeq
  <1>2. Range(<<>>) = {<<>>[i] : i \in 1 .. 0} BY <1>1, RangeEquality
  <1> QED BY <1>1, <1>2

--------------------------------------------------------------------------------
(* Lists in the order of a relation. *)

\* Whoever comes first in s is related to whoever comes later.
Sorted(R, s) == \A i, j \in 1 .. Len(s) : i < j => <<s[i], s[j]>> \in R

\* Everybody of s is related to everybody of t.
AllAhead(R, s, t) == \A x \in Range(s), y \in Range(t) : <<x, y>> \in R

\* Two sorted lists, the one ahead of the other.
LEMMA SortedConcat ==
  ASSUME NEW R, NEW S, NEW s \in Seq(S), NEW t \in Seq(S), Sorted(R, s), Sorted(R, t), AllAhead(R, s, t)
  PROVE  Sorted(R, s \o t)
  <1>1. Len(s) \in Nat /\ Len(t) \in Nat BY LenProperties
  <1>2. PICK c : c = s \o t OBVIOUS
  <1>3. /\ Len(c) = Len(s) + Len(t)
        /\ \A i \in 1 .. Len(s) + Len(t) : c[i] = IF i <= Len(s) THEN s[i] ELSE t[i - Len(s)]
    BY <1>2, ConcatProperties
  <1>4. ASSUME NEW i \in 1 .. Len(c), NEW j \in 1 .. Len(c), i < j PROVE <<c[i], c[j]>> \in R
    <2>1. CASE j <= Len(s)
      <3>1. i \in 1 .. Len(s) /\ j \in 1 .. Len(s) /\ c[i] = s[i] /\ c[j] = s[j]
        BY <1>1, <1>3, <1>4, <2>1
      <3> QED BY <1>4, <3>1 DEF Sorted
    <2>2. CASE ~(i <= Len(s))
      <3>1. PICK k \in 1 .. Len(t) : k = i - Len(s) BY <1>1, <1>3, <2>2
      <3>2. PICK l \in 1 .. Len(t) : l = j - Len(s) BY <1>1, <1>3, <1>4, <2>2
      <3>3. c[i] = t[k] /\ c[j] = t[l] /\ k < l BY <1>1, <1>3, <1>4, <2>2, <3>1, <3>2
      <3> QED BY <3>3 DEF Sorted
    <2>3. CASE i <= Len(s) /\ ~(j <= Len(s))
      <3>1. i \in 1 .. Len(s) /\ c[i] = s[i] BY <1>1, <1>3, <2>3
      <3>2. PICK l \in 1 .. Len(t) : l = j - Len(s) BY <1>1, <1>3, <2>3
      <3>3. c[j] = t[l] BY <1>3, <2>3, <3>2
      <3>4. s[i] \in Range(s) /\ t[l] \in Range(t) BY <3>1, Occurs
      <3> QED BY <3>1, <3>3, <3>4 DEF AllAhead
    <2> QED BY <1>1, <1>3, <2>1, <2>2, <2>3
  <1> QED BY <1>2, <1>4 DEF Sorted

\* A list of one is sorted.
LEMMA SortedOne == ASSUME NEW R, NEW x PROVE Sorted(R, <<x>>)
  <1>1. Len(<<x>>) = 1 OBVIOUS
  <1> QED BY <1>1 DEF Sorted

\* One more, at the end.
LEMMA SortedAppend ==
  ASSUME NEW R, NEW S, NEW s \in Seq(S), NEW x \in S, Sorted(R, s), \A y \in Range(s) : <<y, x>> \in R
  PROVE  Sorted(R, Append(s, x))
  <1>1. PICK t \in Seq(S) : t = <<x>> /\ Range(t) = {x} BY OnlyOne
  <1>2. Sorted(R, t) BY <1>1, SortedOne
  <1>3. AllAhead(R, s, t) BY <1>1 DEF AllAhead
  <1>4. Sorted(R, s \o t) BY <1>2, <1>3, SortedConcat
  <1>5. Append(s, x) = s \o <<x>> BY AppendIsConcat
  <1> QED BY <1>1, <1>4, <1>5

\* One more, in front.
LEMMA SortedInFront ==
  ASSUME NEW R, NEW S, NEW s \in Seq(S), NEW x \in S, Sorted(R, s), \A y \in Range(s) : <<x, y>> \in R
  PROVE  Sorted(R, <<x>> \o s)
  <1>1. PICK t \in Seq(S) : t = <<x>> /\ Range(t) = {x} BY OnlyOne
  <1>2. Sorted(R, t) BY <1>1, SortedOne
  <1>3. AllAhead(R, t, s) BY <1>1 DEF AllAhead
  <1>4. Sorted(R, t \o s) BY <1>2, <1>3, SortedConcat
  <1> QED BY <1>1, <1>4

\* One less.
LEMMA SortedRemove ==
  ASSUME NEW R, NEW S, NEW s \in Seq(S), NEW k \in 1 .. Len(s), Sorted(R, s)
  PROVE  Sorted(R, RemoveAt(s, k))
  <1>1. PICK r : r = RemoveAt(s, k) OBVIOUS
  <1>2. /\ Len(r) = Len(s) - 1 /\ Len(s) \in Nat
        /\ \A j \in 1 .. Len(s) - 1 : r[j] = IF j < k THEN s[j] ELSE s[j + 1]
    BY <1>1, RemoveAtType, LenProperties
  <1>3. ASSUME NEW i \in 1 .. Len(r), NEW j \in 1 .. Len(r), i < j PROVE <<r[i], r[j]>> \in R
    <2>1. PICK p \in 1 .. Len(s) : p = IF i < k THEN i ELSE i + 1 BY <1>2
    <2>2. PICK q \in 1 .. Len(s) : q = IF j < k THEN j ELSE j + 1 BY <1>2
    <2>3. p < q BY <1>2, <1>3, <2>1, <2>2
    <2>4. r[i] = s[p] /\ r[j] = s[q] BY <1>2, <2>1, <2>2
    <2> QED BY <2>3, <2>4 DEF Sorted
  <1> QED BY <1>1, <1>3 DEF Sorted

\* The last of a sorted list, and the others.
LEMMA SortedFront ==
  ASSUME NEW R, NEW S, NEW s \in Seq(S), s # <<>>, Sorted(R, s)
  PROVE  Sorted(R, Front(s)) /\ \A x \in Range(Front(s)) : <<x, Last(s)>> \in R
  <1>1. PICK f \in Seq(S) : f = Front(s) BY FrontLast
  <1>2. /\ Len(s) \in Nat \ {0} /\ Len(f) = Len(s) - 1
        /\ \A i \in 1 .. Len(s) - 1 : f[i] = s[i]
        /\ Last(s) = s[Len(s)]
    BY <1>1, FrontLast
  <1>3. Sorted(R, f)
    <2>1. ASSUME NEW i \in 1 .. Len(f), NEW j \in 1 .. Len(f), i < j PROVE <<f[i], f[j]>> \in R
      <3>1. /\ i \in 1 .. Len(s) /\ j \in 1 .. Len(s)
            /\ i \in 1 .. Len(s) - 1 /\ j \in 1 .. Len(s) - 1
        BY <1>2
      <3>2. <<s[i], s[j]>> \in R BY <2>1, <3>1 DEF Sorted
      <3> QED BY <1>2, <3>1, <3>2
    <2> QED BY <2>1 DEF Sorted
  <1>4. ASSUME NEW x \in Range(f) PROVE <<x, Last(s)>> \in R
    <2>1. PICK i \in 1 .. Len(f) : f[i] = x BY Occurs
    <2>2. i \in 1 .. Len(s) /\ Len(s) \in 1 .. Len(s) /\ i < Len(s) /\ s[i] = x BY <1>2, <2>1
    <2> QED BY <1>2, <2>2 DEF Sorted
  <1> QED BY <1>1, <1>3, <1>4


\* A list has finitely many members.
LEMMA FiniteRange ==
  ASSUME NEW S, NEW s \in Seq(S)
  PROVE  IsFiniteSet(Range(s))
  <1>1. PICK n \in Nat : n = Len(s) BY LenProperties
  <1>2. \A e : e \in Range(s) <=> \E k \in 1 .. Len(s) : s[k] = e BY LenProperties DEF Range
  <1>3. PICK f : f = [k \in 1 .. n |-> s[k]] OBVIOUS
  <1>4. f \in Surjection(1 .. n, Range(s))
    <2>1. f \in [1 .. n -> Range(s)] BY <1>1, <1>2, <1>3
    <2>2. \A e \in Range(s) : \E k \in 1 .. n : f[k] = e BY <1>1, <1>2, <1>3
    <2> QED BY <2>1, <2>2 DEF Surjection
  <1>5. IsFiniteSet(1 .. n) BY FS_Interval
  <1> QED BY <1>4, <1>5, FS_Surjection

================================================================================
