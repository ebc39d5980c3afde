--------------------------- MODULE SequenceLemmas ---------------------------
(***************************************************************************)
(* Facts about numbers and sequences that the proofs of several components *)
(* need: least elements, induction over a set of numbers, and what         *)
(* FlattenSeq() of the community modules computes.                         *)
(***************************************************************************)
EXTENDS Integers, Sequences, SequencesExt, SequenceTheorems, WellFoundedInduction, TLAPS

\* A nonempty set of numbers has a least element.
LEMMA LeastNumber ==
    ASSUME NEW T, T \subseteq Nat, T # {}
    PROVE  \E i \in T : \A j \in T : i <= j
<1> DEFINE less == OpToRel(<, Nat)
<1>1. IsWellFoundedOn(less, Nat)
  BY NatLessThanWellFounded
<1>2. \A i, j \in Nat : j < i => <<j, i>> \in less
  BY DEF OpToRel
<1> HIDE DEF less
<1>3. PICK i \in T : \A j \in T : ~(<<j, i>> \in less)
  BY <1>1, WFMin
<1>4. ASSUME NEW j \in T
      PROVE  i <= j
  <2>1. i \in Nat /\ j \in Nat /\ ~(j < i)
    BY <1>2, <1>3
  <2>2. QED
    BY <2>1
<1>5. QED
  BY <1>4

\* A set that has 0, and n + 1 with every n, has every number.
LEMMA SetInduction ==
    ASSUME NEW S, 0 \in S, \A n \in Nat : n \in S => n + 1 \in S
    PROVE  \A n \in Nat : n \in S
<1> SUFFICES ASSUME Nat \ S # {}
             PROVE  FALSE
  OBVIOUS
<1>1. PICK i \in Nat \ S : \A j \in Nat \ S : i <= j
  BY LeastNumber
<1>2. i - 1 \in Nat /\ ~(i <= i - 1)
  BY <1>1
<1>3. i - 1 \in S
  BY <1>1, <1>2
<1>4. (i - 1) + 1 = i
  BY <1>1
<1>5. QED
  BY <1>2, <1>3, <1>4

\* ConcatAssociative with its sequences quantified.
LEMMA Associative ==
    ASSUME NEW S
    PROVE  \A s, t, u \in Seq(S) : (s \o t) \o u = s \o (t \o u)
<1> SUFFICES ASSUME NEW s \in Seq(S), NEW t \in Seq(S), NEW u \in Seq(S)
             PROVE  (s \o t) \o u = s \o (t \o u)
  OBVIOUS
<1>1. QED
  BY ConcatAssociative

\* Two ways to join the same sequence: what is first in the shorter way is
\* first in the other, and the rest of it is joined to the same end.
LEMMA CancelFirst ==
    ASSUME NEW S, NEW h \in Seq(S), NEW t \in Seq(S), NEW b \in Seq(S), NEW u \in Seq(S),
           h \o t = b \o u, Len(b) <= Len(h)
    PROVE  /\ \A i \in 1..Len(b) : h[i] = b[i]
           /\ SubSeq(h, Len(b) + 1, Len(h)) \o t = u
<1>1. /\ Len(h) \in Nat /\ Len(t) \in Nat /\ Len(b) \in Nat /\ Len(u) \in Nat
      /\ Len(h) + Len(t) = Len(b) + Len(u)
  BY ConcatProperties, LenProperties
<1>2. /\ \A i \in 1..Len(h) + Len(t) :
            (h \o t)[i] = IF i <= Len(h) THEN h[i] ELSE t[i - Len(h)]
      /\ \A i \in 1..Len(b) + Len(u) :
            (b \o u)[i] = IF i <= Len(b) THEN b[i] ELSE u[i - Len(b)]
  BY ConcatProperties
<1>3. ASSUME NEW i \in 1..Len(b)
      PROVE  h[i] = b[i]
  BY <1>1, <1>2
<1> DEFINE k == SubSeq(h, Len(b) + 1, Len(h))
<1>4. k \in Seq(S) /\ Len(k) = Len(h) - Len(b) /\ \A i \in 1..Len(k) : k[i] = h[i + Len(b)]
  <2>1. \A i \in Len(b) + 1..Len(h) : h[i] \in S
    BY <1>1, ElementOfSeq
  <2>2. /\ SubSeq(h, Len(b) + 1, Len(h)) \in Seq(S)
        /\ Len(SubSeq(h, Len(b) + 1, Len(h))) =
              IF Len(b) + 1 <= Len(h) THEN Len(h) - (Len(b) + 1) + 1 ELSE 0
        /\ \A i \in 1..Len(h) - (Len(b) + 1) + 1 :
              SubSeq(h, Len(b) + 1, Len(h))[i] = h[(Len(b) + 1) + i - 1]
    BY <1>1, <2>1, SubSeqProperties
  <2>3. \A i \in Nat : (Len(b) + 1) + i - 1 = i + Len(b)
    BY <1>1
  <2>4. QED
    BY <1>1, <2>2, <2>3
<1> HIDE DEF k
<1>5. /\ k \o t \in Seq(S) /\ Len(k \o t) = Len(k) + Len(t)
      /\ \A i \in 1..Len(k) + Len(t) :
            (k \o t)[i] = IF i <= Len(k) THEN k[i] ELSE t[i - Len(k)]
  <2>1. k \in Seq(S)
    BY <1>4
  <2>2. QED
    BY <2>1, ConcatProperties
<1>6. ASSUME NEW i \in 1..Len(u)
      PROVE  (k \o t)[i] = u[i]
  <2>1. i + Len(b) \in 1..Len(b) + Len(u) /\ (i + Len(b)) - Len(b) = i
    BY <1>1
  <2>2. (h \o t)[i + Len(b)] = u[i]
    BY <1>1, <1>2, <2>1
  <2>3. CASE i <= Len(k)
    BY <1>1, <1>2, <1>4, <1>5, <2>1, <2>2, <2>3
  <2>4. CASE ~(i <= Len(k))
    <3>1. (i + Len(b)) - Len(h) = i - Len(k) /\ ~(i + Len(b) <= Len(h))
      BY <1>1, <1>4, <2>4
    <3>2. (h \o t)[i + Len(b)] = t[i - Len(k)]
      BY <1>1, <1>2, <2>1, <3>1
    <3>3. QED
      BY <1>1, <1>4, <1>5, <2>2, <2>4, <3>2
  <2>5. QED
    BY <2>3, <2>4
<1>7. QED
  <2>1. Len(k \o t) = Len(u)
    BY <1>1, <1>4, <1>5
  <2>2. k \o t = u
    BY <1>5, <1>6, <2>1, SeqEqual
  <2>3. QED
    BY <1>3, <2>2 DEF k

\* What is left of a sequence after its first n elements.
LEMMA Dropped ==
    ASSUME NEW S, NEW s \in Seq(S), NEW n \in 0..Len(s)
    PROVE  /\ SubSeq(s, n + 1, Len(s)) \in Seq(S)
           /\ Len(SubSeq(s, n + 1, Len(s))) = Len(s) - n /\ Len(s) \in Nat /\ n \in Nat
           /\ \A i \in 1..Len(s) - n : SubSeq(s, n + 1, Len(s))[i] = s[i + n]
<1>1. Len(s) \in Nat /\ n \in Nat /\ n <= Len(s)
  BY LenProperties
<1>2. \A i \in n + 1..Len(s) : s[i] \in S
  BY <1>1, ElementOfSeq
<1>3. /\ SubSeq(s, n + 1, Len(s)) \in Seq(S)
      /\ Len(SubSeq(s, n + 1, Len(s))) = IF n + 1 <= Len(s) THEN Len(s) - (n + 1) + 1 ELSE 0
      /\ \A i \in 1..Len(s) - (n + 1) + 1 : SubSeq(s, n + 1, Len(s))[i] = s[(n + 1) + i - 1]
  BY <1>1, <1>2, SubSeqProperties
<1>4. \A i \in Nat : (n + 1) + i - 1 = i + n
  BY <1>1
<1>5. Len(s) - (n + 1) + 1 = Len(s) - n
  BY <1>1
<1> DEFINE t == SubSeq(s, n + 1, Len(s))
<1> HIDE DEF t
<1>6. \A i \in 1..Len(s) - n : t[i] = s[(n + 1) + i - 1]
  BY <1>3, <1>5 DEF t
<1>7. Len(t) = Len(s) - n
  <2>1. Len(t) = IF n + 1 <= Len(s) THEN Len(s) - (n + 1) + 1 ELSE 0
    BY <1>3 DEF t
  <2>2. ~(n + 1 <= Len(s)) => Len(s) - n = 0
    BY <1>1
  <2>3. QED
    BY <1>5, <2>1, <2>2
<1>8. \A i \in 1..Len(s) - n : t[i] = s[i + n]
  BY <1>1, <1>4, <1>6
<1>9. QED
  BY <1>1, <1>3, <1>7, <1>8 DEF t

\* The first n elements of a sequence.
LEMMA Kept ==
    ASSUME NEW S, NEW s \in Seq(S), NEW n \in 0..Len(s)
    PROVE  /\ SubSeq(s, 1, n) \in Seq(S) /\ Len(SubSeq(s, 1, n)) = n
           /\ \A i \in 1..n : SubSeq(s, 1, n)[i] = s[i]
<1>1. Len(s) \in Nat /\ n \in Nat /\ n <= Len(s)
  BY LenProperties
<1>2. \A i \in 1..n : s[i] \in S
  BY <1>1, ElementOfSeq
<1>3. /\ SubSeq(s, 1, n) \in Seq(S)
      /\ Len(SubSeq(s, 1, n)) = IF 1 <= n THEN n - 1 + 1 ELSE 0
      /\ \A i \in 1..n - 1 + 1 : SubSeq(s, 1, n)[i] = s[1 + i - 1]
  BY <1>1, <1>2, SubSeqProperties
<1>4. \A i \in Nat : 1 + i - 1 = i
  OBVIOUS
<1>5. n - 1 + 1 = n
  BY <1>1
<1>6. QED
  BY <1>1, <1>3, <1>4, <1>5

\* A sequence is its first n elements and the others.
LEMMA SplitAt ==
    ASSUME NEW S, NEW s \in Seq(S), NEW n \in 0..Len(s)
    PROVE  SubSeq(s, 1, n) \o SubSeq(s, n + 1, Len(s)) = s
<1> DEFINE a == SubSeq(s, 1, n)
           b == SubSeq(s, n + 1, Len(s))
<1>1. /\ a \in Seq(S) /\ Len(a) = n
      /\ \A i \in 1..n : a[i] = s[i]
  BY Kept
<1>2. /\ b \in Seq(S) /\ Len(b) = Len(s) - n /\ Len(s) \in Nat /\ n \in Nat
      /\ \A i \in 1..Len(s) - n : b[i] = s[i + n]
  BY Dropped
<1> HIDE DEF a, b
<1>3. /\ a \o b \in Seq(S) /\ Len(a \o b) = Len(a) + Len(b)
      /\ \A i \in 1..Len(a) + Len(b) :
            (a \o b)[i] = IF i <= Len(a) THEN a[i] ELSE b[i - Len(a)]
  <2>1. a \in Seq(S) /\ b \in Seq(S)
    BY <1>1, <1>2
  <2>2. QED
    BY <2>1, ConcatProperties
<1>4. Len(a) + Len(b) = Len(s)
  BY <1>1, <1>2
<1>5. ASSUME NEW i \in 1..Len(s)
      PROVE  (a \o b)[i] = s[i]
  <2>1. CASE i <= n
    BY <1>1, <1>2, <1>3, <1>4, <2>1
  <2>2. CASE ~(i <= n)
    <3>1. i - n \in 1..Len(s) - n /\ (i - n) + n = i
      BY <1>2, <2>2
    <3>2. (a \o b)[i] = b[i - n]
      BY <1>1, <1>2, <1>3, <1>4, <2>2
    <3>3. QED
      BY <1>2, <3>1, <3>2
  <2>3. QED
    BY <2>1, <2>2
<1>6. a \o b = s
  <2>1. Len(a \o b) = Len(s) /\ a \o b \in Seq(S)
    BY <1>3, <1>4
  <2>2. QED
    BY <1>5, <2>1, SeqEqual
<1>7. QED
  BY <1>6 DEF a, b

\* Moving elements from the front of one sequence to the end of another
\* leaves the two together what they were.
LEMMA MoveAcross ==
    ASSUME NEW S, NEW h \in Seq(S), NEW s \in Seq(S), NEW n \in 0..Len(s)
    PROVE  /\ h \o SubSeq(s, 1, n) \in Seq(S) /\ SubSeq(s, n + 1, Len(s)) \in Seq(S)
           /\ (h \o SubSeq(s, 1, n)) \o SubSeq(s, n + 1, Len(s)) = h \o s
<1> DEFINE a == SubSeq(s, 1, n)
           b == SubSeq(s, n + 1, Len(s))
<1>1. a \in Seq(S) /\ b \in Seq(S)
  BY Kept, Dropped
<1>2. a \o b = s
  BY SplitAt
<1> HIDE DEF a, b
<1>3. h \o a \in Seq(S)
  BY <1>1, ConcatProperties
<1>4. (h \o a) \o b = h \o (a \o b)
  BY <1>1, ConcatAssociative
<1>5. QED
  BY <1>1, <1>2, <1>3, <1>4 DEF a, b

\* Dropping n elements and then k more drops n + k.
LEMMA DropTwice ==
    ASSUME NEW S, NEW s \in Seq(S), NEW n \in 0..Len(s), NEW k \in 0..Len(s) - n
    PROVE  LET t == SubSeq(s, n + 1, Len(s))
           IN  SubSeq(t, k + 1, Len(t)) = SubSeq(s, (n + k) + 1, Len(s))
<1> DEFINE t == SubSeq(s, n + 1, Len(s))
           u == SubSeq(t, k + 1, Len(t))
           v == SubSeq(s, (n + k) + 1, Len(s))
<1>1. /\ t \in Seq(S) /\ Len(t) = Len(s) - n /\ Len(s) \in Nat /\ n \in Nat
      /\ \A i \in 1..Len(s) - n : t[i] = s[i + n]
  BY Dropped
<1>2. n + k \in 0..Len(s) /\ k \in 0..Len(t) /\ k \in Nat
  BY <1>1
<1>3. /\ v \in Seq(S) /\ Len(v) = Len(s) - (n + k)
      /\ \A i \in 1..Len(s) - (n + k) : v[i] = s[i + (n + k)]
  BY <1>2, Dropped
<1> HIDE DEF t, v
<1>4. /\ u \in Seq(S) /\ Len(u) = Len(t) - k
      /\ \A i \in 1..Len(t) - k : u[i] = t[i + k]
  <2>1. t \in Seq(S) /\ k \in 0..Len(t)
    BY <1>1, <1>2
  <2>2. QED
    BY <2>1, Dropped
<1> HIDE DEF u
<1>5. Len(u) = Len(v)
  BY <1>1, <1>2, <1>3, <1>4
<1>6. ASSUME NEW i \in 1..Len(u)
      PROVE  u[i] = v[i]
  <2>1. /\ i \in 1..Len(t) - k /\ i + k \in 1..Len(s) - n /\ i \in 1..Len(s) - (n + k)
        /\ (i + k) + n = i + (n + k)
    BY <1>1, <1>2, <1>4
  <2>2. QED
    BY <1>1, <1>3, <1>4, <2>1
<1>7. u = v
  BY <1>3, <1>4, <1>5, <1>6, SeqEqual
<1>8. QED
  BY <1>7 DEF t, u, v

\* Nothing before, or nothing dropped.
LEMMA Nothing ==
    ASSUME NEW S, NEW s \in Seq(S)
    PROVE  /\ <<>> \o s = s /\ s \o <<>> = s /\ <<>> \in Seq(S)
           /\ SubSeq(s, 0 + 1, Len(s)) = s /\ SubSeq(s, Len(s) + 1, Len(s)) = <<>>
<1>1. Len(s) \in Nat /\ 0 \in 0..Len(s) /\ Len(s) \in 0..Len(s)
  BY LenProperties
<1>2. <<>> \o s = s /\ s \o <<>> = s /\ <<>> \in Seq(S)
  BY ConcatEmptySeq, EmptySeq
<1>3. SubSeq(s, 0 + 1, Len(s)) = s
  <2> DEFINE t == SubSeq(s, 0 + 1, Len(s))
  <2>1. t \in Seq(S) /\ Len(t) = Len(s) - 0 /\ \A i \in 1..Len(s) - 0 : t[i] = s[i + 0]
    BY <1>1, Dropped
  <2>2. Len(s) - 0 = Len(s) /\ \A i \in Nat : i + 0 = i
    BY <1>1
  <2> HIDE DEF t
  <2>3. Len(t) = Len(s) /\ \A i \in 1..Len(t) : t[i] = s[i]
    BY <1>1, <2>1, <2>2
  <2>4. t = s
    BY <2>1, <2>3, SeqEqual
  <2>5. QED
    BY <2>4 DEF t
<1>4. SubSeq(s, Len(s) + 1, Len(s)) = <<>>
  <2> DEFINE t == SubSeq(s, Len(s) + 1, Len(s))
  <2>1. t \in Seq(S) /\ Len(t) = Len(s) - Len(s)
    BY <1>1, Dropped
  <2>2. Len(s) - Len(s) = 0
    BY <1>1
  <2> HIDE DEF t
  <2>3. t = <<>>
    BY <2>1, <2>2, EmptySeq
  <2>4. QED
    BY <2>3 DEF t
<1>5. QED
  BY <1>2, <1>3, <1>4

\* CancelFirst with its sequences quantified.
LEMMA Cancel ==
    ASSUME NEW S
    PROVE  \A h, t, b, u \in Seq(S) :
              h \o t = b \o u /\ Len(b) <= Len(h) => SubSeq(h, Len(b) + 1, Len(h)) \o t = u
<1> SUFFICES ASSUME NEW h \in Seq(S), NEW t \in Seq(S), NEW b \in Seq(S), NEW u \in Seq(S),
                    h \o t = b \o u, Len(b) <= Len(h)
             PROVE  SubSeq(h, Len(b) + 1, Len(h)) \o t = u
  OBVIOUS
<1>1. QED
  BY CancelFirst

\* The same, where what follows the sequence that is cut is in two parts.
Cuts(h, s, rest, b, u) ==
    (h \o s) \o rest = b \o u /\ 1 <= Len(h) /\ 1 <= Len(b) =>
        /\ h[1] = b[1]
        /\ Len(b) <= Len(h) => (SubSeq(h, Len(b) + 1, Len(h)) \o s) \o rest = u

\* What is cut off at the front of a sequence in three parts can be cancelled.
LEMMA CancelHeld ==
    ASSUME NEW S
    PROVE  \A h, s, rest, b, u \in Seq(S) : Cuts(h, s, rest, b, u)
<1>0. \A x, y, z \in Seq(S) : (x \o y) \o z = x \o (y \o z)
  BY Associative
<1>9. \A x, y, z, w \in Seq(S) :
        x \o y = z \o w /\ Len(z) <= Len(x) => SubSeq(x, Len(z) + 1, Len(x)) \o y = w
  BY Cancel
<1> SUFFICES ASSUME NEW h \in Seq(S), NEW s \in Seq(S), NEW rest \in Seq(S),
                    NEW b \in Seq(S), NEW u \in Seq(S)
             PROVE  Cuts(h, s, rest, b, u)
  OBVIOUS
<1> SUFFICES ASSUME (h \o s) \o rest = b \o u, 1 <= Len(h), 1 <= Len(b)
             PROVE  /\ h[1] = b[1]
                    /\ Len(b) <= Len(h) => (SubSeq(h, Len(b) + 1, Len(h)) \o s) \o rest = u
  BY Zenon DEF Cuts
<1> DEFINE t == s \o rest
<1>1. t \in Seq(S)
  BY ConcatProperties
<1>2. h \o t = b \o u
  <2>1. (h \o s) \o rest = h \o (s \o rest)
    BY <1>0, Zenon
  <2>2. QED
    BY <2>1
<1> HIDE DEF t
<1>3. h[1] = b[1]
  <2>1. /\ Len(h) \in Nat /\ Len(t) \in Nat /\ Len(b) \in Nat /\ Len(u) \in Nat
        /\ \A i \in 1..Len(h) + Len(t) :
              (h \o t)[i] = IF i <= Len(h) THEN h[i] ELSE t[i - Len(h)]
        /\ \A i \in 1..Len(b) + Len(u) :
              (b \o u)[i] = IF i <= Len(b) THEN b[i] ELSE u[i - Len(b)]
    BY <1>1, ConcatProperties, LenProperties
  <2>2. 1 \in 1..Len(h) + Len(t) /\ 1 \in 1..Len(b) + Len(u)
    BY <2>1
  <2>3. (h \o t)[1] = h[1] /\ (b \o u)[1] = b[1]
    BY <2>1, <2>2
  <2>4. QED
    BY <1>2, <2>3
<1>4. ASSUME Len(b) <= Len(h)
      PROVE  (SubSeq(h, Len(b) + 1, Len(h)) \o s) \o rest = u
  <2> DEFINE k == SubSeq(h, Len(b) + 1, Len(h))
  <2>1. k \o t = u
    BY <1>1, <1>2, <1>4, <1>9, Zenon
  <2>2. k \in Seq(S)
    <3>1. Len(b) \in 0..Len(h)
      BY <1>4, LenProperties
    <3>2. QED
      BY <3>1, Dropped
  <2> HIDE DEF k
  <2>3. (k \o s) \o rest = k \o (s \o rest)
    BY <1>0, <2>2, Zenon
  <2>4. (k \o s) \o rest = u
    BY <2>1, <2>3 DEF t
  <2>5. QED
    BY <2>4 DEF k
<1>5. QED
  BY <1>3, <1>4

-----------------------------------------------------------------------------
(* FlattenSeq.                                                              *)

\* f holds what is joined of the first n sequences of ss, for n from 1 on.
Joins(f, ss, n) ==
    f = [i \in 1..n |-> IF i = 1 THEN ss[i] ELSE f[i - 1] \o ss[i]]

\* The function that FlattenSeq() defines exists.
LEMMA JoinsExists ==
    ASSUME NEW ss
    PROVE  \A n \in Nat : \E f : Joins(f, ss, n)
<1> DEFINE S == {n \in Nat : \E f : Joins(f, ss, n)}
<1>1. 0 \in S
  <2>1. Joins([i \in {} |-> i], ss, 0)
    BY DEF Joins
  <2>2. QED
    BY <2>1
<1>2. ASSUME NEW n \in Nat, n \in S
      PROVE  n + 1 \in S
  <2>1. PICK f : Joins(f, ss, n)
    BY <1>2
  <2> DEFINE g == [i \in 1..n + 1 |->
                      IF i = n + 1 THEN IF i = 1 THEN ss[i] ELSE f[n] \o ss[i] ELSE f[i]]
  <2>2. ASSUME NEW i \in 1..n + 1
        PROVE  g[i] = IF i = 1 THEN ss[i] ELSE g[i - 1] \o ss[i]
    <3>1. CASE i = n + 1
      BY <3>1
    <3>2. CASE i # n + 1
      <4>1. g[i] = f[i] /\ i \in 1..n
        BY <3>2
      <4>2. f[i] = IF i = 1 THEN ss[i] ELSE f[i - 1] \o ss[i]
        BY <2>1, <4>1 DEF Joins
      <4>3. i # 1 => i - 1 \in 1..n + 1 /\ i - 1 # n + 1
        BY <4>1
      <4>4. i # 1 => g[i - 1] = f[i - 1]
        BY <4>3
      <4>5. QED
        BY <4>1, <4>2, <4>4
    <3>3. QED
      BY <3>1, <3>2
  <2>3. Joins(g, ss, n + 1)
    BY <2>2 DEF Joins
  <2>4. QED
    BY <2>3
<1>3. QED
  <2> HIDE DEF S
  <2>1. \A n \in Nat : n \in S
    BY <1>1, <1>2, SetInduction
  <2>2. QED
    BY <2>1 DEF S

\* The values of such a function, step by step.
LEMMA JoinsStep ==
    ASSUME NEW ss, NEW f, NEW n \in Nat, Joins(f, ss, n)
    PROVE  /\ \A i \in 1..n : i = 1 => f[i] = ss[i]
           /\ \A i \in 1..n : i + 1 <= n => f[i + 1] = f[i] \o ss[i + 1]
<1>1. \A i \in 1..n : f[i] = IF i = 1 THEN ss[i] ELSE f[i - 1] \o ss[i]
  BY DEF Joins
<1>2. ASSUME NEW i \in 1..n, i + 1 <= n
      PROVE  f[i + 1] = f[i] \o ss[i + 1]
  <2>1. i + 1 \in 1..n /\ i + 1 # 1 /\ (i + 1) - 1 = i
    BY <1>2
  <2>2. f[i + 1] = f[(i + 1) - 1] \o ss[i + 1]
    BY <1>1, <2>1
  <2>3. QED
    BY <2>1, <2>2
<1>3. QED
  BY <1>1, <1>2

\* FlattenSeq() is such a function at the number of its sequences.
LEMMA FlattenJoins ==
    ASSUME NEW T, NEW ss \in Seq(T), ss # <<>>
    PROVE  \E f : Joins(f, ss, Len(ss)) /\ FlattenSeq(ss) = f[Len(ss)]
<1>1. Len(ss) \in Nat /\ Len(ss) # 0
  BY EmptySeq, LenProperties
<1> DEFINE f == CHOOSE g : g = [i \in 1..Len(ss) |-> IF i = 1 THEN ss[i] ELSE g[i - 1] \o ss[i]]
<1>2. Joins(f, ss, Len(ss))
  BY <1>1, JoinsExists DEF Joins
<1>3. FlattenSeq(ss) = f[Len(ss)]
  BY <1>1 DEF FlattenSeq
<1>4. QED
  BY <1>2, <1>3

\* What is joined is a sequence over the same set.
LEMMA JoinsTyped ==
    ASSUME NEW S, NEW ss \in Seq(Seq(S)), NEW f, Joins(f, ss, Len(ss))
    PROVE  \A i \in 1..Len(ss) : f[i] \in Seq(S)
<1> DEFINE P == {n \in Nat : n \in 1..Len(ss) => f[n] \in Seq(S)}
<1>1. 0 \in P
  OBVIOUS
<1>2. ASSUME NEW n \in Nat, n \in P
      PROVE  n + 1 \in P
  <2>1. CASE n + 1 \notin 1..Len(ss)
    BY <2>1
  <2>2. CASE n + 1 \in 1..Len(ss) /\ n = 0
    <3>1. f[1] = ss[1] /\ 1 \in 1..Len(ss)
      BY <2>2 DEF Joins
    <3>2. ss[1] \in Seq(S)
      BY <3>1, ElementOfSeq
    <3>3. QED
      BY <2>2, <3>1, <3>2
  <2>3. CASE n + 1 \in 1..Len(ss) /\ n # 0
    <3>1. n \in 1..Len(ss) /\ n + 1 # 1 /\ (n + 1) - 1 = n
      BY <2>3, LenProperties
    <3>2. f[n + 1] = f[n] \o ss[n + 1]
      BY <2>3, <3>1 DEF Joins
    <3>3. f[n] \in Seq(S)
      BY <1>2, <3>1
    <3>4. ss[n + 1] \in Seq(S)
      BY <2>3, ElementOfSeq
    <3>5. f[n + 1] \in Seq(S)
      BY <3>2, <3>3, <3>4, ConcatProperties
    <3>6. QED
      BY <3>5
  <2>4. QED
    BY <2>1, <2>2, <2>3
<1>3. QED
  <2> HIDE DEF P
  <2>1. \A n \in Nat : n \in P
    BY <1>1, <1>2, SetInduction
  <2>2. QED
    BY <2>1 DEF P

\* FlattenSeq() of nothing, and the set it is over.
LEMMA FlattenTyped ==
    ASSUME NEW S, NEW ss \in Seq(Seq(S))
    PROVE  FlattenSeq(<<>>) = <<>> /\ FlattenSeq(ss) \in Seq(S)
<1>1. FlattenSeq(<<>>) = <<>>
  BY DEF FlattenSeq
<1>2. CASE ss = <<>>
  BY <1>1, <1>2, EmptySeq
<1>3. CASE ss # <<>>
  <2>1. PICK f : Joins(f, ss, Len(ss)) /\ FlattenSeq(ss) = f[Len(ss)]
    BY <1>3, FlattenJoins
  <2>2. Len(ss) \in 1..Len(ss)
    BY <1>3, EmptySeq, LenProperties
  <2>3. QED
    BY <1>1, <2>1, <2>2, JoinsTyped
<1>4. QED
  BY <1>2, <1>3

\* One more sequence at the end.
LEMMA FlattenAppend ==
    ASSUME NEW S, NEW ss \in Seq(Seq(S)), NEW s \in Seq(S)
    PROVE  FlattenSeq(Append(ss, s)) = FlattenSeq(ss) \o s
<1> DEFINE tt == Append(ss, s)
<1>1. /\ tt \in Seq(Seq(S)) /\ tt # <<>> /\ Len(tt) = Len(ss) + 1 /\ Len(ss) \in Nat
      /\ tt[Len(ss) + 1] = s
      /\ \A i \in 1..Len(ss) : tt[i] = ss[i]
  BY AppendProperties, LenProperties
<1> HIDE DEF tt
<1>2. PICK g : Joins(g, tt, Len(tt)) /\ FlattenSeq(tt) = g[Len(tt)]
  BY <1>1, FlattenJoins
<1>3. CASE ss = <<>>
  <2>1. Len(ss) = 0
    BY <1>3
  <2>2. FlattenSeq(tt) = s
    BY <1>1, <1>2, <2>1 DEF Joins
  <2>3. FlattenSeq(ss) = <<>>
    BY <1>3, FlattenTyped
  <2>4. QED
    BY <2>2, <2>3, ConcatEmptySeq DEF tt
<1>4. CASE ss # <<>>
  <2>1. PICK f : Joins(f, ss, Len(ss)) /\ FlattenSeq(ss) = f[Len(ss)]
    BY <1>4, FlattenJoins
  <2> DEFINE P == {n \in Nat : n \in 1..Len(ss) => g[n] = f[n]}
  <2>2. 0 \in P
    OBVIOUS
  <2>3. ASSUME NEW n \in Nat, n \in P
        PROVE  n + 1 \in P
    <3>1. CASE n + 1 \notin 1..Len(ss)
      BY <3>1
    <3>2. CASE n + 1 \in 1..Len(ss)
      <4>1. n + 1 \in 1..Len(tt) /\ tt[n + 1] = ss[n + 1] /\ (n + 1) - 1 = n
        BY <1>1, <3>2
      <4>2. f[n + 1] = IF n + 1 = 1 THEN ss[n + 1] ELSE f[n] \o ss[n + 1]
        BY <2>1, <3>2, <4>1 DEF Joins
      <4>3. g[n + 1] = IF n + 1 = 1 THEN ss[n + 1] ELSE g[n] \o ss[n + 1]
        BY <1>2, <4>1 DEF Joins
      <4>4. n + 1 # 1 => g[n] = f[n]
        BY <1>1, <2>3, <3>2
      <4>5. QED
        BY <4>2, <4>3, <4>4
    <3>3. QED
      BY <3>1, <3>2
  <2>4. g[Len(ss)] = f[Len(ss)]
    <3>1. Len(ss) \in 1..Len(ss)
      BY <1>4, EmptySeq, LenProperties
    <3> HIDE DEF P
    <3>2. \A n \in Nat : n \in P
      BY <2>2, <2>3, SetInduction
    <3>3. QED
      BY <1>1, <3>1, <3>2 DEF P
  <2>5. g[Len(tt)] = g[Len(ss)] \o s
    <3>1. Len(ss) # 0
      BY <1>4, EmptySeq
    <3>2. Len(tt) \in 1..Len(tt) /\ Len(tt) # 1 /\ Len(tt) - 1 = Len(ss) /\ tt[Len(tt)] = s
      BY <1>1, <3>1
    <3>3. g[Len(tt)] = g[Len(tt) - 1] \o tt[Len(tt)]
      BY <1>2, <3>2 DEF Joins
    <3>4. QED
      BY <3>2, <3>3
  <2>6. QED
    BY <1>2, <2>1, <2>4, <2>5 DEF tt
<1>5. QED
  BY <1>3, <1>4

\* The first sequence is what the result begins with.
LEMMA FlattenFirst ==
    ASSUME NEW S, NEW ss \in Seq(Seq(S)), ss # <<>>
    PROVE  FlattenSeq(ss) = ss[1] \o FlattenSeq(Tail(ss))
<1>0. \A s, t, u \in Seq(S) : (s \o t) \o u = s \o (t \o u)
  BY Associative, SMTT(30)
<1> DEFINE tt == Tail(ss)
<1>1. /\ tt \in Seq(Seq(S)) /\ Len(tt) = Len(ss) - 1 /\ Len(tt) \in Nat /\ Len(ss) \in Nat
      /\ \A i \in 1..Len(tt) : tt[i] = ss[i + 1]
  BY HeadTailProperties, LenProperties
<1>2. 1 \in 1..Len(ss) /\ ss[1] \in Seq(S)
  <2>1. 1 \in 1..Len(ss)
    BY EmptySeq, LenProperties
  <2>2. QED
    BY <2>1, ElementOfSeq
<1> HIDE DEF tt
<1>3. PICK f : Joins(f, ss, Len(ss)) /\ FlattenSeq(ss) = f[Len(ss)]
  BY FlattenJoins
<1>7. /\ \A i \in 1..Len(ss) : i = 1 => f[i] = ss[i]
      /\ \A i \in 1..Len(ss) : i + 1 <= Len(ss) => f[i + 1] = f[i] \o ss[i + 1]
  BY <1>1, <1>3, JoinsStep
<1>4. CASE tt = <<>>
  <2>1. Len(ss) = 1
    BY <1>1, <1>4
  <2>2. FlattenSeq(ss) = ss[1]
    BY <1>3, <2>1 DEF Joins
  <2>3. FlattenSeq(tt) = <<>>
    BY <1>4, FlattenTyped
  <2>4. QED
    BY <1>2, <2>2, <2>3, ConcatEmptySeq DEF tt
<1>5. CASE tt # <<>>
  <2>1. PICK g : Joins(g, tt, Len(tt)) /\ FlattenSeq(tt) = g[Len(tt)]
    BY <1>1, <1>5, FlattenJoins
  <2>2. \A i \in 1..Len(tt) : g[i] \in Seq(S) /\ tt[i] \in Seq(S)
    BY <1>1, <2>1, JoinsTyped, ElementOfSeq
  <2>8. /\ \A i \in 1..Len(tt) : i = 1 => g[i] = tt[i]
        /\ \A i \in 1..Len(tt) : i + 1 <= Len(tt) => g[i + 1] = g[i] \o tt[i + 1]
    BY <1>1, <2>1, JoinsStep
  <2> DEFINE Leads(n) == f[n + 1] = ss[1] \o g[n]
             P == {n \in Nat : n \in 1..Len(tt) => Leads(n)}
  <2>3. 0 \in P
    OBVIOUS
  <2> HIDE DEF Leads
  <2>4. ASSUME NEW n \in Nat, n \in P
        PROVE  n + 1 \in P
    <3>1. CASE n + 1 \notin 1..Len(tt)
      BY <3>1
    <3>2. CASE n + 1 \in 1..Len(tt) /\ n = 0
      <4>1. n + 1 = 1 /\ tt[n + 1] = ss[(n + 1) + 1]
            /\ n + 1 \in 1..Len(ss) /\ (n + 1) + 1 <= Len(ss)
        BY <1>1, <3>2
      <4>2. g[n + 1] = tt[n + 1]
        BY <2>8, <3>2, <4>1
      <4>3. f[n + 1] = ss[1] /\ f[(n + 1) + 1] = f[n + 1] \o ss[(n + 1) + 1]
        BY <1>7, <4>1
      <4>4. Leads(n + 1)
        BY <4>1, <4>2, <4>3 DEF Leads
      <4>5. QED
        BY <4>4
    <3>3. CASE n + 1 \in 1..Len(tt) /\ n # 0
      <4>1. n \in 1..Len(tt) /\ n + 1 <= Len(tt) /\ tt[n + 1] = ss[(n + 1) + 1]
            /\ n + 1 \in 1..Len(ss) /\ (n + 1) + 1 <= Len(ss)
        BY <1>1, <3>3
      <4>2. g[n + 1] = g[n] \o tt[n + 1]
        BY <2>8, <4>1
      <4>3. f[(n + 1) + 1] = f[n + 1] \o ss[(n + 1) + 1]
        BY <1>7, <4>1
      <4>4. f[n + 1] = ss[1] \o g[n]
        BY <2>4, <4>1 DEF Leads
      <4>5. (ss[1] \o g[n]) \o tt[n + 1] = ss[1] \o (g[n] \o tt[n + 1])
        <5>1. ss[1] \in Seq(S) /\ g[n] \in Seq(S) /\ tt[n + 1] \in Seq(S)
          BY <1>2, <2>2, <3>3, <4>1
        <5>2. QED
          BY <1>0, <5>1, Zenon
      <4>6. Leads(n + 1)
        BY <4>1, <4>2, <4>3, <4>4, <4>5 DEF Leads
      <4>7. QED
        BY <4>6
    <3>4. QED
      BY <3>1, <3>2, <3>3
  <2>5. f[Len(tt) + 1] = ss[1] \o g[Len(tt)]
    <3>1. Len(tt) \in 1..Len(tt)
      BY <1>1, <1>5, EmptySeq
    <3> HIDE DEF P
    <3>2. \A n \in Nat : n \in P
      BY <2>3, <2>4, SetInduction
    <3>3. QED
      BY <1>1, <3>1, <3>2 DEF P, Leads
  <2>6. Len(tt) + 1 = Len(ss)
    BY <1>1, <1>2
  <2>7. QED
    BY <1>3, <2>1, <2>5, <2>6 DEF tt
<1>6. QED
  BY <1>4, <1>5
-----------------------------------------------------------------------------
(* Sequences of anything.                                                   *)

\* A sequence of anything.
Listed(s) == s \in Seq(ToSet(s))

\* Its length, and its places.
LEMMA ListedLength ==
    ASSUME NEW s, Listed(s)
    PROVE  Len(s) \in Nat /\ DOMAIN s = 1..Len(s)
BY LenProperties DEF Listed

\* The empty sequence is one.
LEMMA ListedEmpty == Listed(<<>>) /\ DOMAIN <<>> = {}
BY EmptySeq DEF Listed

\* A sequence grows by what is appended to it.
LEMMA ListedAppend ==
    ASSUME NEW s, Listed(s), NEW e
    PROVE  /\ Listed(Append(s, e)) /\ DOMAIN Append(s, e) = 1..Len(s) + 1
           /\ Append(s, e)[Len(s) + 1] = e
           /\ \A i \in 1..Len(s) : Append(s, e)[i] = s[i]
<1> DEFINE S == ToSet(s) \cup {e}
           t == Append(s, e)
<1>1. s \in Seq(S) /\ e \in S
  <2>1. s \in Seq(ToSet(s)) /\ ToSet(s) \subseteq S
    BY DEF Listed
  <2> HIDE DEF S
  <2>2. \A T : s \in Seq(T) /\ T \subseteq S => s \in Seq(S)
    OBVIOUS
  <2>3. QED
    BY <2>1, <2>2 DEF S
<1> HIDE DEF S
<1>2. /\ t \in Seq(S) /\ Len(t) = Len(s) + 1
      /\ t[Len(s) + 1] = e
      /\ \A i \in 1..Len(s) : t[i] = s[i]
  BY <1>1, AppendProperties
<1> HIDE DEF t
<1>3. DOMAIN t = 1..Len(s) + 1 /\ Len(t) \in Nat
  BY <1>2, LenProperties
<1>4. t \in [1..Len(t) -> ToSet(t)]
  BY <1>2, <1>3, ElementOfSeq, LenProperties DEF ToSet
<1>5. Listed(t)
  BY <1>3, <1>4, SeqDef DEF Listed
<1>6. QED
  BY <1>2, <1>3, <1>5 DEF t

\* A sequence one of whose elements is replaced is as long as before.
LEMMA ListedExcept ==
    ASSUME NEW s, Listed(s), NEW i \in DOMAIN s, NEW e
    PROVE  Listed([s EXCEPT ![i] = e]) /\ DOMAIN [s EXCEPT ![i] = e] = DOMAIN s
<1> DEFINE t == [s EXCEPT ![i] = e]
<1>1. Len(s) \in Nat /\ DOMAIN s = 1..Len(s)
  BY ListedLength
<1>2. s \in [1..Len(s) -> ToSet(s)]
  BY <1>1, SeqDef, LenProperties DEF Listed
<1>3. t \in [1..Len(s) -> ToSet(t)] /\ DOMAIN t = DOMAIN s
  BY <1>1, <1>2 DEF ToSet
<1> HIDE DEF t
<1>4. t \in Seq(ToSet(t))
  BY <1>1, <1>3, SeqDef
<1>5. QED
  BY <1>3, <1>4 DEF Listed, t

\* What a function over 1..n is.
LEMMA ListedFunction ==
    ASSUME NEW n \in Nat, NEW s, s = [i \in 1..n |-> s[i]]
    PROVE  Listed(s) /\ DOMAIN s = 1..n /\ Len(s) = n
<1>1. s \in [1..n -> ToSet(s)]
  BY DEF ToSet
<1>2. Listed(s)
  BY <1>1, SeqDef DEF Listed
<1>3. DOMAIN s = 1..n
  OBVIOUS
<1>4. QED
  BY <1>2, <1>3, ListedLength

\* The first element, and the sequence without it.
LEMMA ListedTail ==
    ASSUME NEW s, Listed(s), s # <<>>
    PROVE  /\ Listed(Tail(s)) /\ DOMAIN Tail(s) = 1..Len(s) - 1 /\ Len(s) \in Nat \ {0}
           /\ Head(s) = s[1]
           /\ \A i \in 1..Len(s) - 1 : Tail(s)[i] = s[i + 1]
<1> DEFINE S == ToSet(s)
           t == Tail(s)
<1>1. s \in Seq(S)
  BY DEF Listed
<1>2. Len(s) \in Nat \ {0}
  BY <1>1, EmptySeq, LenProperties
<1> HIDE DEF S
<1>3. /\ t \in Seq(S) /\ Len(t) = Len(s) - 1 /\ Head(s) = s[1]
      /\ \A i \in 1..Len(t) : t[i] = s[i + 1]
  BY <1>1, HeadTailProperties
<1> HIDE DEF t
<1>4. DOMAIN t = 1..Len(t) /\ t = [i \in 1..Len(t) |-> t[i]]
  BY <1>3, LenProperties
<1>5. Listed(t)
  BY <1>2, <1>3, <1>4, ListedFunction
<1>6. QED
  BY <1>2, <1>3, <1>4, <1>5 DEF t

\* The first n elements.
LEMMA ListedFirst ==
    ASSUME NEW s, Listed(s), NEW n \in 0..Len(s)
    PROVE  /\ Listed(SubSeq(s, 1, n)) /\ DOMAIN SubSeq(s, 1, n) = 1..n /\ Len(SubSeq(s, 1, n)) = n
           /\ \A i \in 1..n : SubSeq(s, 1, n)[i] = s[i]
<1> DEFINE S == ToSet(s)
           t == SubSeq(s, 1, n)
<1>1. s \in Seq(S)
  BY DEF Listed
<1> HIDE DEF S
<1>2. t \in Seq(S) /\ Len(t) = n /\ \A i \in 1..n : t[i] = s[i]
  BY <1>1, Kept
<1> HIDE DEF t
<1>3. DOMAIN t = 1..n /\ t = [i \in 1..n |-> t[i]] /\ n \in Nat
  BY <1>2, LenProperties
<1>4. Listed(t)
  BY <1>3, ListedFunction
<1>5. QED
  BY <1>2, <1>3, <1>4 DEF t

\* Two sequences joined.
LEMMA ListedJoined ==
    ASSUME NEW s, Listed(s), NEW t, Listed(t)
    PROVE  /\ Listed(s \o t) /\ DOMAIN (s \o t) = 1..Len(s) + Len(t)
           /\ \A i \in 1..Len(s) : (s \o t)[i] = s[i]
           /\ \A i \in 1..Len(t) : (s \o t)[Len(s) + i] = t[i]
<1> DEFINE S == ToSet(s) \cup ToSet(t)
           u == s \o t
<1>1. s \in Seq(S) /\ t \in Seq(S)
  <2>1. s \in Seq(ToSet(s)) /\ t \in Seq(ToSet(t)) /\ ToSet(s) \subseteq S /\ ToSet(t) \subseteq S
    BY DEF Listed
  <2> HIDE DEF S
  <2>2. \A w, T : w \in Seq(T) /\ T \subseteq S => w \in Seq(S)
    OBVIOUS
  <2>3. QED
    BY <2>1, <2>2
<1> HIDE DEF S
<1>2. /\ u \in Seq(S) /\ Len(u) = Len(s) + Len(t)
      /\ \A i \in 1..Len(s) + Len(t) : u[i] = IF i <= Len(s) THEN s[i] ELSE t[i - Len(s)]
  BY <1>1, ConcatProperties
<1> HIDE DEF u
<1>3. Len(s) \in Nat /\ Len(t) \in Nat /\ DOMAIN u = 1..Len(u) /\ u = [i \in 1..Len(u) |-> u[i]]
  BY <1>1, <1>2, LenProperties
<1>4. Listed(u)
  BY <1>2, <1>3, ListedFunction
<1>5. \A i \in 1..Len(t) : Len(s) + i \in 1..Len(s) + Len(t) /\ ~(Len(s) + i <= Len(s))
                           /\ (Len(s) + i) - Len(s) = i
  BY <1>3
<1>6. \A i \in 1..Len(s) : i \in 1..Len(s) + Len(t) /\ i <= Len(s)
  BY <1>3
<1>7. QED
  BY <1>2, <1>3, <1>4, <1>5, <1>6 DEF u

\* What FlattenSeq() makes of ss has the elements of every sequence of ss,
\* and before each of them what is before it there, in its own sequence and
\* in those before that.
Earlier(f, ss, i, p) ==
    \A h \in 1..i - 1 : \A m \in 1..Len(ss[h]) : \E q \in 1..p - 1 : f[q] = ss[h][m]
Blocks(f, ss, n) ==
    /\ \A i \in 1..n : \A k \in 1..Len(ss[i]) : \E p \in 1..Len(f) : f[p] = ss[i][k]
    /\ \A p \in 1..Len(f) : \E i \in 1..n : \E k \in 1..Len(ss[i]) :
          k <= p /\ \A m \in 1..k : f[(p - k) + m] = ss[i][m]
    /\ \A p \in 1..Len(f) : \E i \in 1..n :
          (\E k \in 1..Len(ss[i]) : f[p] = ss[i][k]) /\ Earlier(f, ss, i, p)

\* One more block at the end.
LEMMA OneMoreBlock ==
    ASSUME NEW ss, NEW n \in Nat, NEW f, Listed(f), Blocks(f, ss, n), Listed(ss[n + 1])
    PROVE  Blocks(f \o ss[n + 1], ss, n + 1)
<1> DEFINE t == ss[n + 1]
           g == f \o t
<1>1. Len(f) \in Nat /\ Len(t) \in Nat
  BY ListedLength
<1>2. /\ Listed(g) /\ DOMAIN g = 1..Len(f) + Len(t)
      /\ \A i \in 1..Len(f) : g[i] = f[i]
      /\ \A i \in 1..Len(t) : g[Len(f) + i] = t[i]
  BY ListedJoined
<1>3. Len(g) = Len(f) + Len(t)
  BY <1>1, <1>2, ListedLength
<1>4. t = ss[n + 1]
  OBVIOUS
<1> HIDE DEF t, g
<1>5. ASSUME NEW i \in 1..n + 1, NEW k \in 1..Len(ss[i])
      PROVE  \E p \in 1..Len(g) : g[p] = ss[i][k]
  <2>1. CASE i = n + 1
    <3>1. k \in 1..Len(t) /\ g[Len(f) + k] = t[k]
      BY <1>2, <1>4, <2>1
    <3>2. Len(f) + k \in 1..Len(g)
      BY <1>1, <1>3, <3>1
    <3>3. QED
      BY <1>4, <2>1, <3>1, <3>2
  <2>2. CASE i # n + 1
    <3>1. i \in 1..n
      BY <2>2
    <3>2. PICK p \in 1..Len(f) : f[p] = ss[i][k]
      BY <3>1 DEF Blocks
    <3>3. p \in 1..Len(g) /\ g[p] = f[p]
      BY <1>1, <1>2, <1>3, <3>2
    <3>4. QED
      BY <3>2, <3>3
  <2>3. QED
    BY <2>1, <2>2
<1>6. ASSUME NEW p \in 1..Len(g)
      PROVE  \E i \in 1..n + 1 : \E k \in 1..Len(ss[i]) :
                k <= p /\ \A m \in 1..k : g[(p - k) + m] = ss[i][m]
  <2>1. CASE p \in 1..Len(f)
    <3>0. PICK i \in 1..n : \E k \in 1..Len(ss[i]) :
             k <= p /\ \A m \in 1..k : f[(p - k) + m] = ss[i][m]
      BY <2>1 DEF Blocks
    <3>1. PICK k \in 1..Len(ss[i]) : k <= p /\ \A m \in 1..k : f[(p - k) + m] = ss[i][m]
      BY <3>0
    <3>2. k \in Nat \ {0}
      <4>1. k \in 1..Len(ss[i])
        OBVIOUS
      <4>2. k \in Int /\ 1 <= k
        BY <4>1
      <4>3. QED
        BY <4>2
    <3>3. \A m \in 1..k : (p - k) + m \in 1..Len(f)
      BY <1>1, <2>1, <3>1, <3>2
    <3>4. \A m \in 1..k : g[(p - k) + m] = ss[i][m]
      BY <1>2, <3>1, <3>3
    <3>5. i \in 1..n + 1
      OBVIOUS
    <3>6. QED
      BY <3>1, <3>4, <3>5
  <2>2. CASE p \notin 1..Len(f)
    <3> DEFINE k == p - Len(f)
    <3>1. k \in 1..Len(t) /\ k <= p /\ p - k = Len(f) /\ k \in Nat
      BY <1>1, <1>3, <2>2
    <3> HIDE DEF k
    <3>2. \A m \in 1..k : m \in 1..Len(t)
      BY <1>1, <3>1
    <3>3. \A m \in 1..k : g[(p - k) + m] = t[m]
      BY <1>2, <3>1, <3>2
    <3>4. n + 1 \in 1..n + 1
      OBVIOUS
    <3>5. QED
      BY <1>4, <3>1, <3>3, <3>4
  <2>3. QED
    BY <2>1, <2>2
<1>7. ASSUME NEW p \in 1..Len(g)
      PROVE  \E i \in 1..n + 1 : (\E k \in 1..Len(ss[i]) : g[p] = ss[i][k]) /\ Earlier(g, ss, i, p)
  <2>1. CASE p \in 1..Len(f)
    <3>1. PICK i \in 1..n : (\E k \in 1..Len(ss[i]) : f[p] = ss[i][k]) /\ Earlier(f, ss, i, p)
      BY <2>1 DEF Blocks
    <3>2. \A q \in 1..p - 1 : g[q] = f[q]
      BY <1>1, <1>2, <2>1
    <3>3. g[p] = f[p] /\ i \in 1..n + 1
      BY <1>2, <2>1
    <3>4. Earlier(g, ss, i, p)
      BY <3>1, <3>2 DEF Earlier
    <3>5. QED
      BY <3>1, <3>3, <3>4
  <2>2. CASE p \notin 1..Len(f)
    <3>1. p - Len(f) \in 1..Len(t) /\ Len(f) + (p - Len(f)) = p
      BY <1>1, <1>3, <2>2
    <3>2. g[p] = t[p - Len(f)]
      BY <1>2, <3>1
    <3>3. \A q \in 1..Len(f) : q \in 1..p - 1 /\ g[q] = f[q]
      BY <1>1, <1>2, <1>3, <2>2
    <3>4. \A h \in 1..(n + 1) - 1 : \A m \in 1..Len(ss[h]) : \E q \in 1..Len(f) : f[q] = ss[h][m]
      BY DEF Blocks
    <3>5. Earlier(g, ss, n + 1, p)
      BY <3>3, <3>4 DEF Earlier
    <3>6. n + 1 \in 1..n + 1
      OBVIOUS
    <3>7. QED
      BY <1>4, <3>1, <3>2, <3>5, <3>6
  <2>3. QED
    BY <2>1, <2>2
<1>8. Blocks(g, ss, n + 1)
  BY <1>5, <1>6, <1>7 DEF Blocks
<1>9. QED
  BY <1>4, <1>8 DEF g

\* FlattenSeq() puts the sequences one after the other.
LEMMA FlattenBlocks ==
    ASSUME NEW S, NEW ss \in Seq(Seq(S))
    PROVE  /\ FlattenSeq(ss) \in Seq(S) /\ Listed(FlattenSeq(ss))
           /\ Blocks(FlattenSeq(ss), ss, Len(ss))
<1>0. \A w \in Seq(S) : Listed(w)
  <2>1. ASSUME NEW w \in Seq(S)
        PROVE  Listed(w)
    <3>1. Len(w) \in Nat /\ w = [i \in 1..Len(w) |-> w[i]]
      BY LenProperties
    <3>2. QED
      BY <3>1, ListedFunction
  <2>2. QED
    BY <2>1
<1>1. FlattenSeq(ss) \in Seq(S)
  BY FlattenTyped
<1>2. CASE ss = <<>>
  <2>1. FlattenSeq(ss) = <<>> /\ Len(ss) = 0 /\ Len(<<>>) = 0
    BY <1>2, FlattenTyped, EmptySeq
  <2>2. Blocks(FlattenSeq(ss), ss, Len(ss))
    BY <2>1 DEF Blocks
  <2>3. QED
    BY <1>0, <1>1, <2>2
<1>3. CASE ss # <<>>
  <2>1. PICK f : Joins(f, ss, Len(ss)) /\ FlattenSeq(ss) = f[Len(ss)]
    BY <1>3, FlattenJoins
  <2>2. \A i \in 1..Len(ss) : f[i] \in Seq(S)
    BY <2>1, JoinsTyped
  <2>3. Len(ss) \in Nat /\ Len(ss) # 0
    BY <1>3, EmptySeq, LenProperties
  <2>4. /\ \A i \in 1..Len(ss) : i = 1 => f[i] = ss[i]
        /\ \A i \in 1..Len(ss) : i + 1 <= Len(ss) => f[i + 1] = f[i] \o ss[i + 1]
    BY <2>1, <2>3, JoinsStep
  <2>5. \A i \in 1..Len(ss) : ss[i] \in Seq(S)
    BY ElementOfSeq
  <2> DEFINE P == {n \in Nat : n \in 1..Len(ss) => Blocks(f[n], ss, n)}
  <2>6. 0 \in P
    OBVIOUS
  <2>7. ASSUME NEW n \in Nat, n \in P
        PROVE  n + 1 \in P
    <3>1. CASE n + 1 \notin 1..Len(ss)
      BY <3>1
    <3>2. CASE n + 1 \in 1..Len(ss) /\ n = 0
      <4>1. f[1] = ss[1] /\ ss[1] \in Seq(S)
        BY <2>4, <2>5, <3>2
      <4>2. Listed(f[1]) /\ Len(f[1]) \in Nat
        BY <1>0, <4>1, ListedLength
      <4> DEFINE g == f[1]
      <4>3. g = ss[1] /\ Len(g) \in Nat
        BY <4>1, <4>2
      <4> HIDE DEF g
      <4>4. \A p \in 1..Len(g) : \A m \in 1..p : (p - p) + m = m
        BY <4>3
      <4>5. \A p \in 1..Len(g) : p \in Nat /\ p <= p
        BY <4>3
      <4>6. Blocks(g, ss, 1)
        <5>1. \A i \in 1..1 : \A k \in 1..Len(ss[i]) : \E p \in 1..Len(g) : g[p] = ss[i][k]
          BY <4>3
        <5>2. ASSUME NEW p \in 1..Len(g)
              PROVE  \E i \in 1..1 : \E k \in 1..Len(ss[i]) :
                        k <= p /\ \A m \in 1..k : g[(p - k) + m] = ss[i][m]
          <6>1. p \in 1..Len(ss[1]) /\ \A m \in 1..p : g[(p - p) + m] = ss[1][m]
            BY <4>3, <4>4
          <6>2. QED
            BY <4>5, <6>1
        <5>3. ASSUME NEW p \in 1..Len(g)
              PROVE  \E i \in 1..1 : (\E k \in 1..Len(ss[i]) : g[p] = ss[i][k]) /\ Earlier(g, ss, i, p)
          <6>1. p \in 1..Len(ss[1]) /\ g[p] = ss[1][p]
            BY <4>3
          <6>2. Earlier(g, ss, 1, p)
            <7>1. \A h : h \notin 1..1 - 1
              OBVIOUS
            <7>2. QED
              BY <7>1, Zenon DEF Earlier
          <6>3. 1 \in 1..1 /\ \E k \in 1..Len(ss[1]) : g[p] = ss[1][k]
            BY <6>1
          <6>4. QED
            BY <6>2, <6>3
        <5>4. QED
          BY <5>1, <5>2, <5>3 DEF Blocks
      <4>7. QED
        BY <3>2, <4>6 DEF g
    <3>3. CASE n + 1 \in 1..Len(ss) /\ n # 0
      <4>1. n \in 1..Len(ss) /\ n + 1 <= Len(ss)
        BY <2>3, <3>3
      <4>2. Blocks(f[n], ss, n)
        BY <2>7, <4>1
      <4>3. f[n + 1] = f[n] \o ss[n + 1] /\ Listed(f[n]) /\ Listed(ss[n + 1])
        BY <1>0, <2>2, <2>4, <2>5, <3>3, <4>1
      <4>4. Blocks(f[n] \o ss[n + 1], ss, n + 1)
        BY <4>2, <4>3, OneMoreBlock
      <4>5. Blocks(f[n + 1], ss, n + 1)
        BY <4>3, <4>4, Zenon
      <4>6. QED
        BY <4>5
    <3>4. QED
      BY <3>1, <3>2, <3>3
  <2>8. Len(ss) \in P
    <3> HIDE DEF P
    <3>1. \A n \in Nat : n \in P
      BY <2>6, <2>7, SetInduction
    <3>2. QED
      BY <2>3, <3>1
  <2>9. Blocks(f[Len(ss)], ss, Len(ss))
    BY <2>3, <2>8
  <2>10. QED
    BY <1>0, <1>1, <2>1, <2>9
<1>4. QED
  BY <1>2, <1>3
=============================================================================
