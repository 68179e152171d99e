------------------------------- MODULE SeqFacts -------------------------------
(* Facts about sequences of anything, about the least element of a set of  *)
(* numbers, about ranks in a finite order, about sums over finite sets and *)
(* recursion over the natural numbers, in the form the proofs cite them.   *)
EXTENDS Integers, Sequences, SequencesExt, FiniteSetTheorems, TLAPS

(* A sequence, whatever its elements are.                                  *)
IsSeq(s) == s \in Seq(Range(s))

LEMMA SeqShape ==
  ASSUME NEW s, IsSeq(s)
  PROVE  Len(s) \in Nat /\ DOMAIN s = 1..Len(s) /\ s = [i \in 1..Len(s) |-> s[i]]
  BY DEF IsSeq

LEMMA ShapeSeq ==
  ASSUME NEW s, NEW n \in Nat, s = [i \in 1..n |-> s[i]]
  PROVE  IsSeq(s) /\ Len(s) = n
  <1>1. s \in [1..n -> Range(s)]
    BY DEF Range
  <1> QED
    BY <1>1 DEF IsSeq

LEMMA AnySeq ==
  ASSUME NEW S, NEW s \in Seq(S)
  PROVE  IsSeq(s)
  <1>1. Len(s) \in Nat /\ DOMAIN s = 1..Len(s)
    OBVIOUS
  <1>2. s = [i \in 1..Len(s) |-> s[i]]
    BY <1>1
  <1> QED
    BY <1>1, <1>2, ShapeSeq

LEMMA NoElements == IsSeq(<< >>) /\ Len(<< >>) = 0
  BY DEF IsSeq

(* Sequences of one length with the same elements are equal.               *)
LEMMA EqualSeqs ==
  ASSUME NEW s, NEW t, IsSeq(s), IsSeq(t), Len(s) = Len(t),
         \A i \in 1..Len(s) : s[i] = t[i]
  PROVE  s = t
  BY SeqShape

LEMMA ConcatSeq ==
  ASSUME NEW s, NEW t, IsSeq(s), IsSeq(t)
  PROVE  /\ IsSeq(s \o t) /\ Len(s \o t) = Len(s) + Len(t)
         /\ \A i \in 1..(Len(s) + Len(t)) :
              (s \o t)[i] = IF i <= Len(s) THEN s[i] ELSE t[i - Len(s)]
  <1> DEFINE R == Range(s) \cup Range(t)
  <1>1. s \in Seq(R) /\ t \in Seq(R)
    BY SeqShape DEF Range, IsSeq
  <1>2. s \o t \in Seq(R) /\ Len(s \o t) = Len(s) + Len(t)
    BY <1>1
  <1>3. \A i \in 1..(Len(s) + Len(t)) :
          (s \o t)[i] = IF i <= Len(s) THEN s[i] ELSE t[i - Len(s)]
    BY <1>1, SeqShape
  <1>4. IsSeq(s \o t)
    BY <1>2, AnySeq
  <1> QED
    BY <1>2, <1>3, <1>4

LEMMA ConcatEmpty ==
  ASSUME NEW s, IsSeq(s)
  PROVE  s \o << >> = s
  <1> QED
    BY NoElements, ConcatSeq, SeqShape, EqualSeqs

LEMMA ConcatRegroup ==
  ASSUME NEW s, NEW t, NEW u, IsSeq(s), IsSeq(t), IsSeq(u)
  PROVE  s \o (t \o u) = (s \o t) \o u
  <1>1. IsSeq(t \o u) /\ IsSeq(s \o t)
    BY ConcatSeq
  <1>2. IsSeq(s \o (t \o u)) /\ IsSeq((s \o t) \o u)
    BY <1>1, ConcatSeq
  <1>3. Len(s) \in Nat /\ Len(t) \in Nat /\ Len(u) \in Nat
    BY SeqShape
  <1>4. /\ Len(s \o (t \o u)) = Len(s) + Len(t) + Len(u)
        /\ Len((s \o t) \o u) = Len(s) + Len(t) + Len(u)
    BY <1>1, <1>3, ConcatSeq
  <1>5. ASSUME NEW i \in 1..(Len(s) + Len(t) + Len(u))
        PROVE  (s \o (t \o u))[i] = ((s \o t) \o u)[i]
    <2>1. (s \o (t \o u))[i] = IF i <= Len(s) THEN s[i] ELSE (t \o u)[i - Len(s)]
      BY <1>1, <1>3, ConcatSeq
    <2>2. ((s \o t) \o u)[i] =
            IF i <= Len(s) + Len(t) THEN (s \o t)[i] ELSE u[i - (Len(s) + Len(t))]
      BY <1>1, <1>3, ConcatSeq
    <2>3. i <= Len(s) + Len(t) =>
            (s \o t)[i] = IF i <= Len(s) THEN s[i] ELSE t[i - Len(s)]
      BY <1>3, ConcatSeq
    <2>4. i > Len(s) => (t \o u)[i - Len(s)] =
            IF i - Len(s) <= Len(t) THEN t[i - Len(s)] ELSE u[(i - Len(s)) - Len(t)]
      BY <1>3, ConcatSeq
    <2> QED
      BY <1>3, <2>1, <2>2, <2>3, <2>4
  <1> QED
    BY <1>2, <1>4, <1>5, EqualSeqs

LEMMA SubSeqSeq ==
  ASSUME NEW s, IsSeq(s), NEW m \in 1..(Len(s) + 1), NEW n \in 0..Len(s), m <= n + 1
  PROVE  /\ IsSeq(SubSeq(s, m, n)) /\ Len(SubSeq(s, m, n)) = n - m + 1
         /\ \A i \in 1..(n - m + 1) : SubSeq(s, m, n)[i] = s[i + m - 1]
  <1> DEFINE u == SubSeq(s, m, n)
  <1>1. s \in Seq(Range(s)) /\ Len(s) \in Nat
    BY SeqShape DEF IsSeq
  <1>2. /\ u \in Seq(Range(s)) /\ Len(u) = n - m + 1
        /\ \A i \in 1..(n - m + 1) : u[i] = s[i + m - 1]
    BY <1>1
  <1>3. u = [i \in 1..Len(u) |-> u[i]] /\ Len(u) \in Nat
    BY <1>2
  <1>4. IsSeq(u)
    BY <1>3, ShapeSeq
  <1> QED
    BY <1>2, <1>4

(* A sequence is what is in front of any cut and what is behind it.        *)
LEMMA CutSeq ==
  ASSUME NEW s, IsSeq(s), NEW n \in 0..Len(s)
  PROVE  SubSeq(s, 1, n) \o SubSeq(s, n + 1, Len(s)) = s
  <1> DEFINE a == SubSeq(s, 1, n)
             b == SubSeq(s, n + 1, Len(s))
  <1>1. Len(s) \in Nat
    BY SeqShape
  <1>2. /\ IsSeq(a) /\ Len(a) = n
        /\ \A i \in 1..n : a[i] = s[i]
    BY <1>1, SubSeqSeq
  <1>3. /\ IsSeq(b) /\ Len(b) = Len(s) - n
        /\ \A i \in 1..(Len(s) - n) : b[i] = s[i + n]
    <2>1. n + 1 \in 1..(Len(s) + 1) /\ Len(s) \in 0..Len(s) /\ n + 1 <= Len(s) + 1
      BY <1>1
    <2>2. /\ IsSeq(b) /\ Len(b) = Len(s) - (n + 1) + 1
          /\ \A i \in 1..(Len(s) - (n + 1) + 1) : b[i] = s[i + (n + 1) - 1]
      BY <2>1, SubSeqSeq
    <2>3. /\ Len(s) - (n + 1) + 1 = Len(s) - n
          /\ \A i \in 1..(Len(s) - n) : i + (n + 1) - 1 = i + n
      BY <1>1
    <2> HIDE DEF b
    <2>4. Len(b) = Len(s) - n
      BY <2>2, <2>3
    <2>5. ASSUME NEW i \in 1..(Len(s) - n) PROVE b[i] = s[i + n]
      <3>1. b[i] = s[i + (n + 1) - 1]
        BY <2>2, <2>3
      <3> QED
        BY <2>3, <3>1
    <2> QED
      BY <2>2, <2>4, <2>5
  <1> HIDE DEF a, b
  <1>4. IsSeq(a \o b) /\ Len(a \o b) = Len(s)
    BY <1>1, <1>2, <1>3, ConcatSeq
  <1>5. ASSUME NEW i \in 1..Len(s) PROVE (a \o b)[i] = s[i]
    <2>1. i \in 1..(Len(a) + Len(b))
      BY <1>1, <1>2, <1>3
    <2>2. (a \o b)[i] = IF i <= n THEN a[i] ELSE b[i - n]
      BY <1>2, <1>3, <2>1, ConcatSeq
    <2>3. CASE i <= n
      BY <1>2, <2>2, <2>3
    <2>4. CASE ~(i <= n)
      <3>1. i - n \in 1..(Len(s) - n) /\ (i - n) + n = i
        BY <1>1, <2>4
      <3> QED
        BY <1>3, <2>2, <2>4, <3>1
    <2> QED
      BY <2>3, <2>4
  <1> QED
    BY <1>4, <1>5, EqualSeqs DEF a, b

(* A prefix agrees with the sequence as far as it goes.                    *)
LEMMA PrefixPointwise ==
  ASSUME NEW s, NEW t, IsSeq(s), IsSeq(t)
  PROVE  IsPrefix(s, t) <=> Len(s) <= Len(t) /\ \A i \in 1..Len(s) : s[i] = t[i]
  <1>1. Len(s) \in Nat /\ Len(t) \in Nat
    BY SeqShape
  <1>2. ASSUME NEW u, IsSeq(u), Len(s) <= Len(u)
        PROVE  /\ IsSeq(SubSeq(u, 1, Len(s))) /\ Len(SubSeq(u, 1, Len(s))) = Len(s)
               /\ \A i \in 1..Len(s) : SubSeq(u, 1, Len(s))[i] = u[i]
    <2>1. Len(u) \in Nat
      BY <1>2, SeqShape
    <2>2. 1 \in 1..(Len(u) + 1) /\ Len(s) \in 0..Len(u) /\ 1 <= Len(s) + 1
      BY <1>1, <1>2, <2>1
    <2>3. Len(s) - 1 + 1 = Len(s) /\ \A i \in 1..Len(s) : i + 1 - 1 = i
      BY <1>1
    <2>4. /\ IsSeq(SubSeq(u, 1, Len(s))) /\ Len(SubSeq(u, 1, Len(s))) = Len(s) - 1 + 1
          /\ \A i \in 1..(Len(s) - 1 + 1) : SubSeq(u, 1, Len(s))[i] = u[i + 1 - 1]
      BY <1>2, <2>2, SubSeqSeq
    <2> QED
      BY <2>3, <2>4
  <1>3. Len(s) <= Len(s)
    BY <1>1
  <1> DEFINE a == SubSeq(s, 1, Len(s))
             b == SubSeq(t, 1, Len(s))
  <1>4. IsSeq(a) /\ Len(a) = Len(s) /\ \A i \in 1..Len(s) : a[i] = s[i]
    BY <1>2, <1>3
  <1>5. Len(s) <= Len(t) => IsSeq(b) /\ Len(b) = Len(s) /\ \A i \in 1..Len(s) : b[i] = t[i]
    BY <1>2
  <1>6. IsPrefix(s, t) <=> Len(s) <= Len(t) /\ a = b
    BY DEF IsPrefix
  <1> HIDE DEF a, b
  <1> QED
    BY <1>4, <1>5, <1>6, EqualSeqs

-----------------------------------------------------------------------------
(* Every non-empty set of natural numbers has a least element: the form of *)
(* induction used here.                                                    *)
LEMMA LeastElement ==
  ASSUME NEW T, T \subseteq Nat, T # {}
  PROVE  \E x \in T : \A y \in T : x <= y
  <1> DEFINE R == OpToRel(<, Nat)
  <1>1. IsWellFoundedOn(R, Nat)
    BY NatLessThanWellFounded
  <1>2. \A ss \in Nat \X Nat : ss[1] < ss[2] => ss \in R
    BY DEF OpToRel
  <1> HIDE DEF R
  <1>3. PICK x \in T : \A y \in T : ~(<<y, x>> \in R)
    BY <1>1, WFMin
  <1>4. \A y \in T : ~(y < x)
    BY <1>2, <1>3
  <1> QED
    BY <1>4
-----------------------------------------------------------------------------
(* FlattenSeq is defined by recursion: the function it is the last value   *)
(* of exists, and so flattening sequences over S gives a sequence over S.  *)
Flattens(seqs, f, n) ==
  f = [i \in 1..n |-> IF i = 1 THEN seqs[i] ELSE f[i - 1] \o seqs[i]]

LEMMA FlattensExists ==
  ASSUME NEW seqs, NEW n \in Nat
  PROVE  \E f : Flattens(seqs, f, n)
  <1> DEFINE T == {m \in Nat : ~\E f : Flattens(seqs, f, m)}
  <1>1. SUFFICES T = {}
    OBVIOUS
  <1>2. SUFFICES ASSUME T # {} PROVE FALSE
    OBVIOUS
  <1>3. PICK x \in T : \A y \in T : x <= y
    BY <1>2, LeastElement
  <1>4. x # 0
    <2> DEFINE e == [i \in 1..0 |-> seqs[i]]
    <2>1. Flattens(seqs, e, 0)
      BY DEF Flattens
    <2> QED
      BY <2>1
  <1>5. x - 1 \in Nat /\ x - 1 \notin T
    BY <1>3, <1>4
  <1>6. PICK f : Flattens(seqs, f, x - 1)
    BY <1>5
  <1> DEFINE g == [i \in 1..x |-> IF i < x THEN f[i]
                                 ELSE IF i = 1 THEN seqs[i] ELSE f[i - 1] \o seqs[i]]
  <1>7. ASSUME NEW i \in 1..x
        PROVE  g[i] = IF i = 1 THEN seqs[i] ELSE g[i - 1] \o seqs[i]
    <2>1. i < x => i \in 1..(x - 1)
      BY <1>5
    <2>2. i < x => f[i] = IF i = 1 THEN seqs[i] ELSE f[i - 1] \o seqs[i]
      BY <1>6, <2>1 DEF Flattens
    <2>3. i # 1 => i - 1 \in 1..x /\ i - 1 < x
      BY <1>5
    <2> QED
      BY <2>2, <2>3
  <1>8. Flattens(seqs, g, x)
    BY <1>7 DEF Flattens
  <1> QED
    BY <1>8

LEMMA FlattenSeqOver ==
  ASSUME NEW S, NEW seqs, IsSeq(seqs), \A i \in 1..Len(seqs) : seqs[i] \in Seq(S)
  PROVE  FlattenSeq(seqs) \in Seq(S)
  <1> DEFINE n == Len(seqs)
             F == CHOOSE f : Flattens(seqs, f, n)
  <1>1. n \in Nat
    BY SeqShape
  <1>2. CASE n = 0
    <2>1. seqs = << >>
      BY <1>2, NoElements, EqualSeqs
    <2> QED
      BY <1>2, <2>1 DEF FlattenSeq
  <1>3. CASE n # 0
    <2>1. Flattens(seqs, F, n)
      BY <1>1, FlattensExists
    <2>2. FlattenSeq(seqs) = F[n]
      BY <1>3 DEF FlattenSeq, Flattens
    <2> HIDE DEF F
    <2> DEFINE T == {m \in Nat : m \in 1..n /\ F[m] \notin Seq(S)}
    <2>3. T = {}
      <3>1. SUFFICES ASSUME T # {} PROVE FALSE
        OBVIOUS
      <3>2. PICK x \in T : \A y \in T : x <= y
        BY <3>1, LeastElement
      <3>3. F[x] = IF x = 1 THEN seqs[x] ELSE F[x - 1] \o seqs[x]
        BY <2>1 DEF Flattens
      <3>4. x # 1
        BY <3>3
      <3>5. x - 1 \in 1..n /\ x - 1 \in Nat /\ x - 1 \notin T
        BY <1>1, <3>2, <3>4
      <3>6. F[x - 1] \in Seq(S) /\ seqs[x] \in Seq(S)
        BY <3>5
      <3>7. F[x - 1] \o seqs[x] \in Seq(S)
        BY <3>6
      <3> QED
        BY <3>3, <3>4, <3>7
    <2>4. n \in 1..n
      BY <1>1, <1>3
    <2> QED
      BY <1>1, <2>2, <2>3, <2>4
  <1> QED
    BY <1>2, <1>3

-----------------------------------------------------------------------------
(* R orders S strictly and totally.  The rank of a member is the number of *)
(* those that precede it.                                                  *)
Orders(R, S) ==
  /\ \A x \in S : <<x, x>> \notin R
  /\ \A x, y \in S : x # y => <<x, y>> \in R \/ <<y, x>> \in R
  /\ \A x, y, z \in S : <<x, y>> \in R /\ <<y, z>> \in R => <<x, z>> \in R
Rank(R, S, x) == Cardinality({y \in S : <<y, x>> \in R})

LEMMA RankBounds ==
  ASSUME NEW S, IsFiniteSet(S), NEW R, Orders(R, S), NEW x \in S
  PROVE  Rank(R, S, x) \in 0..(Cardinality(S) - 1)
  <1> DEFINE below == {y \in S : <<y, x>> \in R}
  <1>1. x \notin below /\ below \subseteq S
    BY DEF Orders
  <1>2. /\ IsFiniteSet(below) /\ Cardinality(below) <= Cardinality(S)
        /\ Cardinality(S) = Cardinality(below) => S = below
    BY <1>1, FS_Subset
  <1>3. Cardinality(below) \in Nat /\ Cardinality(S) \in Nat
    BY <1>2, FS_CardinalityType
  <1> QED
    BY <1>1, <1>2, <1>3 DEF Rank

LEMMA RankGrows ==
  ASSUME NEW S, IsFiniteSet(S), NEW R, Orders(R, S), NEW x \in S, NEW y \in S, <<x, y>> \in R
  PROVE  Rank(R, S, x) < Rank(R, S, y)
  <1> DEFINE under == {z \in S : <<z, x>> \in R}
             below == {z \in S : <<z, y>> \in R}
  <1>1. under \subseteq below /\ x \in below /\ x \notin under /\ below \subseteq S
    BY DEF Orders
  <1>2. IsFiniteSet(below)
    BY <1>1, FS_Subset
  <1>3. /\ IsFiniteSet(under) /\ Cardinality(under) <= Cardinality(below)
        /\ Cardinality(below) = Cardinality(under) => below = under
    BY <1>1, <1>2, FS_Subset
  <1>4. Cardinality(under) \in Nat /\ Cardinality(below) \in Nat
    BY <1>2, <1>3, FS_CardinalityType
  <1> QED
    BY <1>1, <1>3, <1>4 DEF Rank

(* Every rank is somebody's: an injection into as many ranks as there are  *)
(* members.                                                                *)
LEMMA RankHit ==
  ASSUME NEW S, IsFiniteSet(S), NEW R, Orders(R, S)
  PROVE  \A k \in 0..(Cardinality(S) - 1) : \E x \in S : Rank(R, S, x) = k
  <1> DEFINE n == Cardinality(S)
             T == 0..(n - 1)
             f == [x \in S |-> Rank(R, S, x)]
  <1>1. n \in Nat
    BY FS_CardinalityType
  <1>2. IsFiniteSet(T) /\ Cardinality(T) = n
    BY <1>1, FS_Interval
  <1>3. f \in [S -> T]
    BY RankBounds
  <1>4. ASSUME NEW x \in S, NEW y \in S, f[x] = f[y]
        PROVE  x = y
    <2>1. SUFFICES ASSUME x # y PROVE FALSE
      OBVIOUS
    <2>2. Rank(R, S, x) = Rank(R, S, y) /\ Rank(R, S, x) \in T
      BY <1>3, <1>4, RankBounds
    <2>3. <<x, y>> \in R \/ <<y, x>> \in R
      BY <2>1 DEF Orders
    <2> QED
      BY <2>2, <2>3, RankGrows, <1>1
  <1>5. f \in Injection(S, T)
    BY <1>3, <1>4 DEF Injection, IsInjective
  <1>6. f \in Surjection(S, T)
    BY <1>2, <1>5, FS_Injection
  <1>7. \A k \in T : \E x \in S : f[x] = k
    BY <1>6 DEF Surjection
  <1> QED
    BY <1>7

(* q lists the members of S in the order R.                                *)
Lists(q, R, S) ==
  /\ IsSeq(q) /\ Len(q) = Cardinality(S)
  /\ \A k \in 1..Len(q) : q[k] \in S /\ Rank(R, S, q[k]) = k - 1

LEMMA ListsFacts ==
  ASSUME NEW S, IsFiniteSet(S), NEW R, Orders(R, S), NEW q, Lists(q, R, S)
  PROVE  /\ Len(q) \in Nat /\ \A k \in 1..Len(q) : q[k] \in S
         /\ \A x \in S : \E k \in 1..Len(q) : q[k] = x
         /\ \A k, m \in 1..Len(q) : k < m => <<q[k], q[m]>> \in R
         /\ \A k, m \in 1..Len(q) : q[k] = q[m] => k = m
  <1> DEFINE n == Len(q)
  <1>1. n \in Nat /\ n = Cardinality(S)
    BY SeqShape DEF Lists
  <1>2. \A k \in 1..n : q[k] \in S /\ Rank(R, S, q[k]) = k - 1
    BY DEF Lists
  <1> HIDE DEF n
  <1>3. ASSUME NEW x \in S, NEW y \in S, Rank(R, S, x) = Rank(R, S, y)
        PROVE  x = y
    <2>1. SUFFICES ASSUME x # y PROVE FALSE
      OBVIOUS
    <2>2. <<x, y>> \in R \/ <<y, x>> \in R
      BY <2>1 DEF Orders
    <2>3. Rank(R, S, x) \in Int
      BY <1>1, RankBounds
    <2> QED
      BY <1>3, <2>2, <2>3, RankGrows
  <1>4. ASSUME NEW x \in S PROVE \E k \in 1..n : q[k] = x
    <2> DEFINE k == Rank(R, S, x) + 1
    <2>1. Rank(R, S, x) \in 0..(n - 1)
      BY <1>1, RankBounds
    <2>2. k \in 1..n /\ k - 1 = Rank(R, S, x)
      BY <1>1, <2>1
    <2> HIDE DEF k
    <2>3. q[k] \in S /\ Rank(R, S, q[k]) = Rank(R, S, x)
      BY <1>2, <2>2
    <2> QED
      BY <1>3, <2>2, <2>3
  <1>5. ASSUME NEW k \in 1..n, NEW m \in 1..n, k < m PROVE <<q[k], q[m]>> \in R
    <2>1. q[k] \in S /\ q[m] \in S /\ Rank(R, S, q[k]) = k - 1 /\ Rank(R, S, q[m]) = m - 1
      BY <1>2
    <2>2. k - 1 < m - 1 /\ ~(m - 1 < k - 1) /\ k - 1 # m - 1
      BY <1>1, <1>5
    <2>3. q[k] # q[m] /\ <<q[m], q[k]>> \notin R
      BY <2>1, <2>2, RankGrows
    <2> QED
      BY <2>1, <2>3 DEF Orders
  <1>6. ASSUME NEW k \in 1..n, NEW m \in 1..n, q[k] = q[m] PROVE k = m
    <2>1. k - 1 = m - 1
      BY <1>2, <1>6
    <2> QED
      BY <1>1, <2>1
  <1> QED
    BY <1>1, <1>2, <1>4, <1>5, <1>6 DEF n

-----------------------------------------------------------------------------
(* The places from a start up to the next one.                             *)
Block(T, n, k) == {m \in k..n : ~\E b \in T : k < b /\ b <= m}

(* Every place is in the block of the last start before it, and in no      *)
(* other.                                                                  *)
LEMMA BlocksPart ==
  ASSUME NEW n \in Nat, NEW T \in SUBSET (1..n), 1 \in T \/ n = 0, NEW m \in 1..n
  PROVE  /\ \E k \in T : m \in Block(T, n, k)
         /\ \A k, b \in T : m \in Block(T, n, k) /\ m \in Block(T, n, b) => k = b
  <1> DEFINE D == {m - k : k \in {b \in T : b <= m}}
  <1>1. D \subseteq Nat
    OBVIOUS
  <1>2. D # {}
    <2>1. 1 \in T /\ 1 <= m
      OBVIOUS
    <2>2. m - 1 \in D
      BY <2>1
    <2> QED
      BY <2>2
  <1>3. PICK d \in D : \A e \in D : d <= e
    BY <1>1, <1>2, LeastElement
  <1>4. PICK k \in T : k <= m /\ d = m - k
    BY <1>3
  <1>5. \A b \in T : b <= m => b <= k
    <2>1. SUFFICES ASSUME NEW b \in T, b <= m PROVE b <= k
      OBVIOUS
    <2>2. m - b \in D
      BY <2>1
    <2>3. m - k <= m - b
      BY <1>3, <1>4, <2>2
    <2> QED
      BY <2>3
  <1>6. m \in Block(T, n, k)
    BY <1>4, <1>5 DEF Block
  <1>7. \A x, b \in T : m \in Block(T, n, x) /\ m \in Block(T, n, b) => x = b
    BY DEF Block
  <1> QED
    BY <1>6, <1>7

(* Places are in one block if no start lies between them.                  *)
LEMMA BlocksJoin ==
  ASSUME NEW n \in Nat, NEW T \in SUBSET (1..n), NEW k \in T,
         NEW m \in Block(T, n, k), NEW x \in 1..n,
         \A b \in T : ~(m < b /\ b <= x) /\ ~(x < b /\ b <= m)
  PROVE  x \in Block(T, n, k)
  <1>1. k \in 1..n /\ m \in k..n /\ \A b \in T : b \in 1..n /\ ~(k < b /\ b <= m)
    BY DEF Block
  <1>2. k <= m
    BY <1>1
  <1>3. k <= x
    BY <1>1, <1>2
  <1>4. \A b \in T : ~(k < b /\ b <= x)
    BY <1>1, <1>2
  <1> QED
    BY <1>1, <1>3, <1>4 DEF Block

(* What each place of a block passes on to the next, all have in common.   *)
LEMMA BlockStep ==
  ASSUME NEW n \in Nat, NEW T \in SUBSET (1..n), NEW k \in T, NEW P \in SUBSET Nat, k \in P,
         \A m \in 1..n : m - 1 \in P /\ m > 1 /\ m \notin T => m \in P
  PROVE  Block(T, n, k) \subseteq P
  <1> DEFINE bad == Block(T, n, k) \ P
  <1>1. k \in 1..n
    OBVIOUS
  <1>2. Block(T, n, k) \subseteq Nat /\ Block(T, n, k) \subseteq k..n
    BY <1>1 DEF Block
  <1>3. SUFFICES ASSUME bad # {} PROVE FALSE
    OBVIOUS
  <1>4. PICK m \in bad : \A x \in bad : m <= x
    BY <1>2, <1>3, LeastElement
  <1>5. m \in k..n /\ m # k /\ ~\E b \in T : k < b /\ b <= m
    BY <1>2, <1>4 DEF Block
  <1>6. m - 1 \in k..n /\ m \in 1..n /\ m > 1 /\ k < m
    BY <1>1, <1>5
  <1>7. m - 1 \in Block(T, n, k) /\ m \notin T
    BY <1>5, <1>6 DEF Block
  <1>8. m - 1 \in P
    <2>1. ~(m <= m - 1)
      BY <1>6
    <2> QED
      BY <1>4, <1>7, <2>1
  <1> QED
    BY <1>4, <1>6, <1>7, <1>8
-----------------------------------------------------------------------------
(* Induction over a finite set: of its subsets that are bad, some has no   *)
(* bad one below it.                                                       *)
LEMMA FewestElements ==
  ASSUME NEW S, IsFiniteSet(S), NEW Bad, Bad \subseteq SUBSET S, Bad # {}
  PROVE  \E t \in Bad : \A x \in t : t \ {x} \notin Bad
  <1> DEFINE sizes == {Cardinality(t) : t \in Bad}
  <1>1. \A t \in SUBSET S : IsFiniteSet(t) /\ Cardinality(t) \in Nat
    BY FS_Subset, FS_CardinalityType
  <1>2. sizes \subseteq Nat /\ sizes # {}
    BY <1>1
  <1>3. PICK n \in sizes : \A m \in sizes : n <= m
    <2> HIDE DEF sizes
    <2> QED
      BY <1>2, LeastElement
  <1>4. PICK t \in Bad : n = Cardinality(t)
    BY <1>3
  <1>5. ASSUME NEW x \in t PROVE t \ {x} \notin Bad
    <2>1. Cardinality(t \ {x}) = Cardinality(t) - 1
      BY <1>1, <1>4, FS_RemoveElement
    <2>2. Cardinality(t) \in Nat
      BY <1>1, <1>4
    <2>3. ASSUME t \ {x} \in Bad PROVE Cardinality(t) <= Cardinality(t \ {x})
      BY <1>3, <1>4, <2>3
    <2> QED
      BY <2>1, <2>2, <2>3
  <1> QED
    BY <1>5

(* Sums over finite sets: what the fold adds up does not depend on the     *)
(* order in which it takes the elements.                                   *)
SumOf(g, S) == SumFunctionOnSet(g, S)

FirstOf(s) == CHOOSE x \in s : TRUE
Summing(g, f, s) == IF s = {} THEN 0 ELSE g[FirstOf(s)] + f[s \ {FirstOf(s)}]
IsSum(f, g, S) == f = [s \in SUBSET S |-> Summing(g, f, s)]

LEMMA SumUnfolds ==
  ASSUME NEW g, NEW S
  PROVE  SumOf(g, S) = (CHOOSE f : IsSum(f, g, S))[S]
  BY DEF SumOf, SumFunctionOnSet, FoldFunctionOnSet, MapThenFoldSet, IsSum, Summing, FirstOf

LEMMA SumPointwise ==
  ASSUME NEW f, NEW g, NEW S
  PROVE  /\ IsSum(f, g, S) => \A s \in SUBSET S : f[s] = Summing(g, f, s)
         /\ f = [s \in SUBSET S |-> f[s]] /\ (\A s \in SUBSET S : f[s] = Summing(g, f, s)) =>
              IsSum(f, g, S)
  <1>1. ASSUME f = [s \in SUBSET S |-> f[s]], \A s \in SUBSET S : f[s] = Summing(g, f, s)
        PROVE  IsSum(f, g, S)
    BY <1>1 DEF IsSum
  <1>2. ASSUME IsSum(f, g, S), NEW s \in SUBSET S PROVE f[s] = Summing(g, f, s)
    BY <1>2 DEF IsSum
  <1> QED
    BY <1>1, <1>2

(* Two such functions agree where both are defined.                        *)
LEMMA SumsAgree ==
  ASSUME NEW S, IsFiniteSet(S), NEW T, T \subseteq S, NEW g, NEW f, NEW h,
         IsSum(f, g, S), IsSum(h, g, T)
  PROVE  f[T] = h[T]
  <1> DEFINE Bad == {s \in SUBSET T : f[s] # h[s]}
  <1>1. ASSUME Bad # {} PROVE FALSE
    <2>1. IsFiniteSet(T) /\ Bad \subseteq SUBSET T
      BY FS_Subset
    <2>2. PICK s \in Bad : \A x \in s : s \ {x} \notin Bad
      <3> HIDE DEF Bad
      <3> QED
        BY <1>1, <2>1, FewestElements
    <2>3. s \in SUBSET T /\ s \in SUBSET S /\ f[s] # h[s]
      BY <2>2
    <2>4. f[s] = Summing(g, f, s) /\ h[s] = Summing(g, h, s)
      BY <2>3, SumPointwise
    <2>5. s # {} => FirstOf(s) \in s
      BY DEF FirstOf
    <2>6. s # {} => f[s \ {FirstOf(s)}] = h[s \ {FirstOf(s)}]
      BY <2>2, <2>3, <2>5
    <2> QED
      BY <2>3, <2>4, <2>6 DEF Summing
  <1>2. T \in SUBSET T
    OBVIOUS
  <1> QED
    BY <1>1, <1>2

(* Such functions exist: one for a set and an element more takes the sum   *)
(* of the set for granted.                                                 *)
LEMMA SumExists ==
  ASSUME NEW S, IsFiniteSet(S), NEW g
  PROVE  \E f : IsSum(f, g, S)
  <1> DEFINE Upto(n) == \E f : /\ f = [s \in SUBSET S |-> f[s]]
                               /\ \A s \in SUBSET S : Cardinality(s) <= n => f[s] = Summing(g, f, s)
             bad == {n \in Nat : ~Upto(n)}
  <1>1. \A s \in SUBSET S : IsFiniteSet(s) /\ Cardinality(s) \in Nat /\ Cardinality(s) <= Cardinality(S)
    BY FS_Subset, FS_CardinalityType
  <1>2. \A s \in SUBSET S : s # {} =>
          s \ {FirstOf(s)} \in SUBSET S /\ Cardinality(s \ {FirstOf(s)}) = Cardinality(s) - 1
    <2>1. SUFFICES ASSUME NEW s \in SUBSET S, s # {}
                   PROVE  Cardinality(s \ {FirstOf(s)}) = Cardinality(s) - 1
      OBVIOUS
    <2>2. FirstOf(s) \in s
      BY <2>1 DEF FirstOf
    <2> QED
      BY <1>1, <2>2, FS_RemoveElement
  <1>3. bad = {}
    <2>1. SUFFICES ASSUME bad # {} PROVE FALSE
      OBVIOUS
    <2>2. PICK n \in bad : \A m \in bad : n <= m
      BY <2>1, LeastElement
    <2>3. \E f : /\ f = [s \in SUBSET S |-> f[s]]
                 /\ \A s \in SUBSET S : Cardinality(s) <= n - 1 => f[s] = Summing(g, f, s)
      <3>1. CASE n = 0
        <4> DEFINE f == [s \in SUBSET S |-> 0]
        <4>1. f = [s \in SUBSET S |-> f[s]]
          OBVIOUS
        <4>2. \A s \in SUBSET S : ~(Cardinality(s) <= n - 1)
          BY <1>1, <3>1
        <4> QED
          BY <4>1, <4>2
      <3>2. CASE n # 0
        <4>1. n - 1 \in Nat /\ ~(n <= n - 1)
          BY <3>2
        <4>2. Upto(n - 1)
          BY <2>2, <4>1
        <4> QED
          BY <4>2
      <3> QED
        BY <3>1, <3>2
    <2>4. PICK f : /\ f = [s \in SUBSET S |-> f[s]]
                   /\ \A s \in SUBSET S : Cardinality(s) <= n - 1 => f[s] = Summing(g, f, s)
      BY <2>3
    <2> DEFINE e == [s \in SUBSET S |-> IF Cardinality(s) <= n - 1 THEN f[s] ELSE Summing(g, f, s)]
    <2>5. \A s \in SUBSET S : Cardinality(s) <= n - 1 => e[s] = f[s]
      OBVIOUS
    <2>6. \A s \in SUBSET S : e[s] = Summing(g, f, s)
      BY <2>4
    <2>7. e = [s \in SUBSET S |-> e[s]]
      OBVIOUS
    <2> HIDE DEF e
    <2>8. ASSUME NEW s \in SUBSET S, Cardinality(s) <= n PROVE e[s] = Summing(g, e, s)
      <3>1. CASE s = {}
        BY <2>6, <3>1 DEF Summing
      <3>2. CASE s # {}
        <4>1. /\ s \ {FirstOf(s)} \in SUBSET S
              /\ Cardinality(s \ {FirstOf(s)}) = Cardinality(s) - 1
          BY <1>2, <3>2
        <4>2. Cardinality(s \ {FirstOf(s)}) <= n - 1
          BY <1>1, <2>8, <4>1
        <4>3. e[s \ {FirstOf(s)}] = f[s \ {FirstOf(s)}]
          BY <2>5, <4>1, <4>2
        <4> QED
          BY <2>6, <3>2, <4>3 DEF Summing
      <3> QED
        BY <3>1, <3>2
    <2>9. Upto(n)
      BY <2>7, <2>8
    <2> QED
      BY <2>2, <2>9
  <1>4. Cardinality(S) \in Nat
    BY FS_CardinalityType
  <1>5. Upto(Cardinality(S))
    BY <1>3, <1>4
  <1>6. PICK f : /\ f = [s \in SUBSET S |-> f[s]]
                 /\ \A s \in SUBSET S : Cardinality(s) <= Cardinality(S) => f[s] = Summing(g, f, s)
    BY <1>5
  <1>7. \A s \in SUBSET S : f[s] = Summing(g, f, s)
    BY <1>1, <1>6
  <1> QED
    BY <1>6, <1>7, SumPointwise

LEMMA SumIsSum ==
  ASSUME NEW S, IsFiniteSet(S), NEW g
  PROVE  \E f : IsSum(f, g, S) /\ SumOf(g, S) = f[S]
  <1>1. IsSum(CHOOSE f : IsSum(f, g, S), g, S)
    BY SumExists
  <1> QED
    BY <1>1, SumUnfolds

LEMMA SumStep ==
  ASSUME NEW S, IsFiniteSet(S), NEW g
  PROVE  /\ S = {} => SumOf(g, S) = 0
         /\ S # {} => /\ FirstOf(S) \in S
                      /\ SumOf(g, S) = g[FirstOf(S)] + SumOf(g, S \ {FirstOf(S)})
  <1>1. PICK f : IsSum(f, g, S) /\ SumOf(g, S) = f[S]
    BY SumIsSum
  <1>2. f[S] = Summing(g, f, S)
    BY <1>1, SumPointwise
  <1>3. ASSUME S # {} PROVE FirstOf(S) \in S
    BY <1>3 DEF FirstOf
  <1>4. ASSUME S # {} PROVE f[S \ {FirstOf(S)}] = SumOf(g, S \ {FirstOf(S)})
    <2> DEFINE T == S \ {FirstOf(S)}
    <2>1. T \subseteq S /\ IsFiniteSet(T)
      BY FS_Subset
    <2> HIDE DEF T
    <2>2. PICK h : IsSum(h, g, T) /\ SumOf(g, T) = h[T]
      BY <2>1, SumIsSum
    <2>3. f[T] = h[T]
      BY <1>1, <2>1, <2>2, SumsAgree
    <2> QED
      BY <2>2, <2>3 DEF T
  <1> QED
    BY <1>1, <1>2, <1>3, <1>4 DEF Summing

LEMMA SumTyped ==
  ASSUME NEW S, IsFiniteSet(S), NEW g, \A x \in S : g[x] \in Int
  PROVE  /\ SumOf(g, S) \in Int
         /\ (\A x \in S : g[x] >= 0) => SumOf(g, S) >= 0
  <1> DEFINE Fine(t) == /\ SumOf(g, t) \in Int
                        /\ (\A x \in t : g[x] >= 0) => SumOf(g, t) >= 0
             Bad == {t \in SUBSET S : ~Fine(t)}
  <1>1. ASSUME Bad # {} PROVE FALSE
    <2>1. PICK t \in Bad : \A x \in t : t \ {x} \notin Bad
      <3> HIDE DEF Fine
      <3>1. Bad \subseteq SUBSET S
        OBVIOUS
      <3> HIDE DEF Bad
      <3> QED
        BY <1>1, <3>1, FewestElements
    <2>2. t \in SUBSET S /\ ~Fine(t) /\ IsFiniteSet(t)
      BY <2>1, FS_Subset
    <2>3. CASE t = {}
      BY <2>2, <2>3, SumStep
    <2>4. CASE t # {}
      <3> DEFINE c == FirstOf(t)
      <3>1. c \in t /\ SumOf(g, t) = g[c] + SumOf(g, t \ {c})
        BY <2>2, <2>4, SumStep
      <3>2. Fine(t \ {c})
        BY <2>1, <2>2, <3>1
      <3> HIDE DEF c
      <3> QED
        BY <2>2, <3>1, <3>2
    <2> QED
      BY <2>3, <2>4
  <1>2. Fine(S)
    BY <1>1
  <1> QED
    BY <1>2

LEMMA SumTakes ==
  ASSUME NEW S, IsFiniteSet(S), NEW g, \A x \in S : g[x] \in Int, NEW e \in S
  PROVE  SumOf(g, S) = g[e] + SumOf(g, S \ {e})
  <1> DEFINE Fine(t) == \A x \in t : SumOf(g, t) = g[x] + SumOf(g, t \ {x})
             Bad == {t \in SUBSET S : ~Fine(t)}
  <1>1. ASSUME Bad # {} PROVE FALSE
    <2>1. PICK t \in Bad : \A x \in t : t \ {x} \notin Bad
      <3> HIDE DEF Fine
      <3>1. Bad \subseteq SUBSET S
        OBVIOUS
      <3> HIDE DEF Bad
      <3> QED
        BY <1>1, <3>1, FewestElements
    <2>2. t \in SUBSET S /\ ~Fine(t) /\ IsFiniteSet(t)
      BY <2>1, FS_Subset
    <2>3. \A x \in t : t \ {x} \in SUBSET S /\ Fine(t \ {x})
      BY <2>1, <2>2
    <2>4. ASSUME NEW x \in t PROVE SumOf(g, t) = g[x] + SumOf(g, t \ {x})
      <3> DEFINE c == FirstOf(t)
      <3>1. c \in t /\ SumOf(g, t) = g[c] + SumOf(g, t \ {c})
        BY <2>2, <2>4, SumStep
      <3> HIDE DEF c
      <3>2. CASE x = c
        BY <3>1, <3>2
      <3>3. CASE x # c
        <4>1. x \in t \ {c} /\ c \in t \ {x} /\ (t \ {c}) \ {x} = (t \ {x}) \ {c}
          BY <3>1, <3>3
        <4>2. /\ SumOf(g, t \ {c}) = g[x] + SumOf(g, (t \ {c}) \ {x})
              /\ SumOf(g, t \ {x}) = g[c] + SumOf(g, (t \ {x}) \ {c})
          BY <2>3, <3>1, <4>1
        <4>3. SumOf(g, (t \ {c}) \ {x}) \in Int
          <5> DEFINE u == (t \ {c}) \ {x}
          <5>1. IsFiniteSet(u) /\ \A y \in u : g[y] \in Int
            BY <2>2, FS_Subset
          <5> HIDE DEF u
          <5>2. SumOf(g, u) \in Int
            BY <5>1, SumTyped
          <5> QED
            BY <5>2 DEF u
        <4>4. g[c] \in Int /\ g[x] \in Int
          BY <2>2, <3>1
        <4>5. SumOf(g, t \ {x}) = g[c] + SumOf(g, (t \ {c}) \ {x})
          BY <4>1, <4>2
        <4>6. SumOf(g, t) = g[c] + (g[x] + SumOf(g, (t \ {c}) \ {x}))
          BY <3>1, <4>2
        <4> QED
          BY <4>3, <4>4, <4>5, <4>6
      <3> QED
        BY <3>2, <3>3
    <2> QED
      BY <2>2, <2>4
  <1>2. Fine(S)
    BY <1>1
  <1> QED
    BY <1>2

(* What is true of the empty set and survives one more element is true.    *)
LEMMA SumAdds ==
  ASSUME NEW S, IsFiniteSet(S), NEW g, NEW h, NEW k,
         \A x \in S : g[x] \in Int /\ h[x] \in Int /\ k[x] = g[x] + h[x]
  PROVE  SumOf(k, S) = SumOf(g, S) + SumOf(h, S)
  <1> DEFINE Fine(t) == SumOf(k, t) = SumOf(g, t) + SumOf(h, t)
             Bad == {t \in SUBSET S : ~Fine(t)}
  <1>1. ASSUME Bad # {} PROVE FALSE
    <2>1. PICK t \in Bad : \A x \in t : t \ {x} \notin Bad
      <3> HIDE DEF Fine
      <3>1. Bad \subseteq SUBSET S
        OBVIOUS
      <3> HIDE DEF Bad
      <3> QED
        BY <1>1, <3>1, FewestElements
    <2>2. t \in SUBSET S /\ ~Fine(t) /\ IsFiniteSet(t)
      BY <2>1, FS_Subset
    <2>3. CASE t = {}
      <3>1. SumOf(g, t) = 0 /\ SumOf(h, t) = 0 /\ SumOf(k, t) = 0
        BY <2>2, <2>3, SumStep
      <3> QED
        BY <2>2, <3>1
    <2>4. CASE t # {}
      <3>1. PICK x : x \in t
        BY <2>4
      <3>2. \A y \in t : g[y] \in Int /\ h[y] \in Int /\ k[y] \in Int
        BY <2>2
      <3>3. /\ SumOf(g, t) = g[x] + SumOf(g, t \ {x})
            /\ SumOf(h, t) = h[x] + SumOf(h, t \ {x})
            /\ SumOf(k, t) = k[x] + SumOf(k, t \ {x})
        BY <2>2, <3>1, <3>2, SumTakes
      <3>4. Fine(t \ {x})
        BY <2>1, <2>2, <3>1
      <3>5. SumOf(g, t \ {x}) \in Int /\ SumOf(h, t \ {x}) \in Int
        <4>1. IsFiniteSet(t \ {x}) /\ \A y \in t \ {x} : g[y] \in Int /\ h[y] \in Int
          BY <2>2, <3>2, FS_Subset
        <4> QED
          BY <4>1, SumTyped
      <3>6. k[x] = g[x] + h[x] /\ g[x] \in Int /\ h[x] \in Int
        BY <2>2, <3>1
      <3> QED
        BY <2>2, <3>3, <3>4, <3>5, <3>6
    <2> QED
      BY <2>3, <2>4
  <1>2. Fine(S)
    BY <1>1
  <1> QED
    BY <1>2

(* The sum of a set's indicator is its size.                              *)
LEMMA SumCounts ==
  ASSUME NEW S, IsFiniteSet(S), NEW T, NEW g,
         \A x \in S : g[x] = IF x \in T THEN 1 ELSE 0
  PROVE  SumOf(g, S) = Cardinality(S \cap T)
  <1> DEFINE Fine(t) == SumOf(g, t) = Cardinality(t \cap T)
             Bad == {t \in SUBSET S : ~Fine(t)}
  <1>1. ASSUME Bad # {} PROVE FALSE
    <2>1. PICK t \in Bad : \A x \in t : t \ {x} \notin Bad
      <3> HIDE DEF Fine
      <3>1. Bad \subseteq SUBSET S
        OBVIOUS
      <3> HIDE DEF Bad
      <3> QED
        BY <1>1, <3>1, FewestElements
    <2>2. t \in SUBSET S /\ ~Fine(t) /\ IsFiniteSet(t)
      BY <2>1, FS_Subset
    <2>3. CASE t = {}
      <3>1. SumOf(g, t) = 0 /\ t \cap T = {}
        BY <2>2, <2>3, SumStep
      <3> QED
        BY <2>2, <3>1, FS_EmptySet
    <2>4. CASE t # {}
      <3>1. PICK x : x \in t
        BY <2>4
      <3>2. Fine(t \ {x})
        BY <2>1, <2>2, <3>1
      <3>3. \A y \in t : g[y] \in Int
        BY <2>2
      <3>4. SumOf(g, t) = g[x] + SumOf(g, t \ {x})
        BY <2>2, <3>1, <3>3, SumTakes
      <3>5. IsFiniteSet(t \cap T) /\ Cardinality(t \cap T) \in Nat
        BY <2>2, FS_Subset, FS_CardinalityType
      <3>6. CASE x \in T
        <4>1. (t \ {x}) \cap T = (t \cap T) \ {x} /\ x \in t \cap T
          BY <3>1, <3>6
        <4>2. Cardinality((t \cap T) \ {x}) = Cardinality(t \cap T) - 1
          BY <3>5, <4>1, FS_RemoveElement
        <4>3. g[x] = 1
          BY <2>2, <3>1, <3>6
        <4> QED
          <5>1. SumOf(g, t \ {x}) = Cardinality((t \cap T) \ {x})
            BY <3>2, <4>1
          <5>2. SumOf(g, t) = Cardinality(t \cap T)
            BY <3>4, <3>5, <4>2, <4>3, <5>1
          <5> QED
            BY <2>2, <5>2
      <3>7. CASE x \notin T
        <4>1. (t \ {x}) \cap T = t \cap T
          BY <3>1, <3>7
        <4>2. g[x] = 0
          BY <2>2, <3>1, <3>7
        <4> QED
          BY <2>2, <3>2, <3>4, <3>5, <4>1, <4>2
      <3> QED
        BY <3>6, <3>7
    <2> QED
      BY <2>3, <2>4
  <1>2. Fine(S)
    BY <1>1
  <1> QED
    BY <1>2

LEMMA SumAtMost ==
  ASSUME NEW S, IsFiniteSet(S), NEW g, NEW h,
         \A x \in S : g[x] \in Int /\ h[x] \in Int /\ g[x] <= h[x]
  PROVE  SumOf(g, S) <= SumOf(h, S)
  <1> DEFINE Fine(t) == SumOf(g, t) <= SumOf(h, t)
             Bad == {t \in SUBSET S : ~Fine(t)}
  <1>1. ASSUME Bad # {} PROVE FALSE
    <2>1. PICK t \in Bad : \A x \in t : t \ {x} \notin Bad
      <3> HIDE DEF Fine
      <3>1. Bad \subseteq SUBSET S
        OBVIOUS
      <3> HIDE DEF Bad
      <3> QED
        BY <1>1, <3>1, FewestElements
    <2>2. t \in SUBSET S /\ ~Fine(t) /\ IsFiniteSet(t)
      BY <2>1, FS_Subset
    <2>3. CASE t = {}
      <3>1. SumOf(g, t) = 0 /\ SumOf(h, t) = 0
        BY <2>2, <2>3, SumStep
      <3> QED
        BY <2>2, <3>1
    <2>4. CASE t # {}
      <3>1. PICK x : x \in t
        BY <2>4
      <3>2. Fine(t \ {x})
        BY <2>1, <2>2, <3>1
      <3>3. \A y \in t : g[y] \in Int /\ h[y] \in Int
        BY <2>2
      <3>4. /\ SumOf(g, t) = g[x] + SumOf(g, t \ {x})
            /\ SumOf(h, t) = h[x] + SumOf(h, t \ {x})
        BY <2>2, <3>1, <3>3, SumTakes
      <3>5. SumOf(g, t \ {x}) \in Int /\ SumOf(h, t \ {x}) \in Int
        <4>1. IsFiniteSet(t \ {x}) /\ \A y \in t \ {x} : g[y] \in Int /\ h[y] \in Int
          BY <2>2, <3>3, FS_Subset
        <4> QED
          BY <4>1, SumTyped
      <3>6. g[x] \in Int /\ h[x] \in Int /\ g[x] <= h[x]
        BY <2>2, <3>1
      <3> QED
        BY <2>2, <3>2, <3>4, <3>5, <3>6
    <2> QED
      BY <2>3, <2>4
  <1>2. Fine(S)
    BY <1>1
  <1> QED
    BY <1>2

LEMMA SumEquals ==
  ASSUME NEW S, IsFiniteSet(S), NEW g, NEW h,
         \A x \in S : g[x] \in Int /\ h[x] = g[x]
  PROVE  SumOf(h, S) = SumOf(g, S)
  <1>1. SumOf(g, S) <= SumOf(h, S) /\ SumOf(h, S) <= SumOf(g, S)
    <2>1. \A x \in S : g[x] \in Int /\ h[x] \in Int /\ g[x] <= h[x] /\ h[x] <= g[x]
      OBVIOUS
    <2>2. SumOf(g, S) <= SumOf(h, S)
      BY <2>1, SumAtMost
    <2>3. SumOf(h, S) <= SumOf(g, S)
      BY <2>1, SumAtMost
    <2> QED
      BY <2>2, <2>3
  <1>2. SumOf(g, S) \in Int /\ SumOf(h, S) \in Int
    <2>1. \A x \in S : h[x] \in Int
      OBVIOUS
    <2> QED
      BY <2>1, SumTyped
  <1> QED
    BY <1>1, <1>2

LEMMA SumConstant ==
  ASSUME NEW S, IsFiniteSet(S), NEW g, NEW c \in Int, \A x \in S : g[x] = c
  PROVE  SumOf(g, S) = c * Cardinality(S)
  <1> DEFINE Fine(t) == SumOf(g, t) = c * Cardinality(t)
             Bad == {t \in SUBSET S : ~Fine(t)}
  <1>1. ASSUME Bad # {} PROVE FALSE
    <2>1. PICK t \in Bad : \A x \in t : t \ {x} \notin Bad
      <3> HIDE DEF Fine
      <3>1. Bad \subseteq SUBSET S
        OBVIOUS
      <3> HIDE DEF Bad
      <3> QED
        BY <1>1, <3>1, FewestElements
    <2>2. t \in SUBSET S /\ ~Fine(t) /\ IsFiniteSet(t)
      BY <2>1, FS_Subset
    <2>3. CASE t = {}
      <3>1. SumOf(g, t) = 0 /\ Cardinality(t) = 0
        BY <2>2, <2>3, SumStep, FS_EmptySet
      <3> QED
        BY <2>2, <3>1
    <2>4. CASE t # {}
      <3>1. PICK x : x \in t
        BY <2>4
      <3>2. Fine(t \ {x})
        BY <2>1, <2>2, <3>1
      <3>3. \A y \in t : g[y] \in Int
        BY <2>2
      <3>4. SumOf(g, t) = g[x] + SumOf(g, t \ {x})
        BY <2>2, <3>1, <3>3, SumTakes
      <3>5. Cardinality(t) \in Nat /\ Cardinality(t \ {x}) = Cardinality(t) - 1
        BY <2>2, <3>1, FS_RemoveElement, FS_CardinalityType
      <3>6. g[x] = c
        BY <2>2, <3>1
      <3>7. SumOf(g, t) = c + c * (Cardinality(t) - 1)
        BY <3>2, <3>4, <3>5, <3>6
      <3>8. c + c * (Cardinality(t) - 1) = c * Cardinality(t)
        BY <3>5
      <3> QED
        BY <2>2, <3>7, <3>8
    <2> QED
      BY <2>3, <2>4
  <1>2. Fine(S)
    BY <1>1
  <1> QED
    BY <1>2

(* Sums over a product are sums of sums.                                    *)
IsRow(g, a, h, S) == \A x \in S : h[x] \in Int /\ g[<<a, x>>] = h[x]

LEMMA SumRow ==
  ASSUME NEW S, IsFiniteSet(S), NEW a, NEW g, NEW h, IsRow(g, a, h, S)
  PROVE  SumOf(g, {a} \X S) = SumOf(h, S)
  <1> DEFINE Fine(t) == SumOf(g, {a} \X t) = SumOf(h, t)
             Bad == {t \in SUBSET S : ~Fine(t)}
  <1>0. \A x \in S : h[x] \in Int /\ g[<<a, x>>] = h[x]
    BY DEF IsRow
  <1>1. ASSUME Bad # {} PROVE FALSE
    <2>1. PICK t \in Bad : \A x \in t : t \ {x} \notin Bad
      <3> HIDE DEF Fine
      <3>1. Bad \subseteq SUBSET S
        OBVIOUS
      <3> HIDE DEF Bad
      <3> QED
        BY <1>1, <3>1, FewestElements
    <2>2. t \in SUBSET S /\ ~Fine(t) /\ IsFiniteSet(t)
      BY <2>1, FS_Subset
    <2>3. CASE t = {}
      <3>1. {a} \X t = {} /\ IsFiniteSet({})
        BY <2>3, FS_EmptySet
      <3>2. SumOf(g, {}) = 0 /\ SumOf(h, {}) = 0
        BY <3>1, SumStep
      <3> QED
        BY <2>2, <2>3, <3>1, <3>2
    <2>4. CASE t # {}
      <3>1. PICK x : x \in t
        BY <2>4
      <3>2. Fine(t \ {x})
        BY <2>1, <2>2, <3>1
      <3>3. \A y \in t : h[y] \in Int
        BY <1>0, <2>2
      <3>4. SumOf(h, t) = h[x] + SumOf(h, t \ {x})
        BY <2>2, <3>1, <3>3, SumTakes
      <3> DEFINE row == {a} \X t
      <3>5. IsFiniteSet(row)
        BY <2>2, FS_Singleton, FS_Product
      <3>6. <<a, x>> \in row /\ (\A p \in row : g[p] \in Int) /\ row \ {<<a, x>>} = {a} \X (t \ {x})
        BY <1>0, <2>2, <3>1
      <3> HIDE DEF row
      <3>7. SumOf(g, row) = g[<<a, x>>] + SumOf(g, row \ {<<a, x>>})
        BY <3>5, <3>6, SumTakes
      <3>8. g[<<a, x>>] = h[x]
        BY <1>0, <2>2, <3>1
      <3>9. SumOf(g, row) = h[x] + SumOf(h, t \ {x})
        BY <3>2, <3>6, <3>7, <3>8
      <3> QED
        BY <2>2, <3>4, <3>9 DEF row
    <2> QED
      BY <2>3, <2>4
  <1>2. Fine(S)
    BY <1>1
  <1> QED
    BY <1>2

LEMMA SumUnion ==
  ASSUME NEW S, IsFiniteSet(S), NEW R, IsFiniteSet(R), R \cap S = {}, NEW g,
         \A x \in R \cup S : g[x] \in Int
  PROVE  SumOf(g, R \cup S) = SumOf(g, R) + SumOf(g, S)
  <1> DEFINE Fine(t) == SumOf(g, R \cup t) = SumOf(g, R) + SumOf(g, t)
             Bad == {t \in SUBSET S : ~Fine(t)}
  <1>1. ASSUME Bad # {} PROVE FALSE
    <2>1. PICK t \in Bad : \A x \in t : t \ {x} \notin Bad
      <3> HIDE DEF Fine
      <3>1. Bad \subseteq SUBSET S
        OBVIOUS
      <3> HIDE DEF Bad
      <3> QED
        BY <1>1, <3>1, FewestElements
    <2>2. t \in SUBSET S /\ ~Fine(t) /\ IsFiniteSet(t)
      BY <2>1, FS_Subset
    <2>3. CASE t = {}
      <3>1. R \cup t = R
        BY <2>3
      <3>2. SumOf(g, t) = 0
        BY <2>2, <2>3, SumStep
      <3>3. SumOf(g, R) \in Int
        BY SumTyped
      <3>4. SumOf(g, R) = SumOf(g, R) + SumOf(g, t)
        BY <3>2, <3>3
      <3> QED
        BY <2>2, <3>1, <3>4
    <2>4. CASE t # {}
      <3>1. PICK x : x \in t
        BY <2>4
      <3>2. Fine(t \ {x})
        BY <2>1, <2>2, <3>1
      <3> DEFINE both == R \cup t
      <3>3. \A y \in t : g[y] \in Int
        BY <2>2
      <3>4. SumOf(g, t) = g[x] + SumOf(g, t \ {x})
        BY <2>2, <3>1, <3>3, SumTakes
      <3>5. IsFiniteSet(both)
        BY <2>2, FS_Union
      <3>6. x \in both /\ (\A y \in both : g[y] \in Int) /\ both \ {x} = R \cup (t \ {x})
        BY <2>2, <3>1
      <3> HIDE DEF both
      <3>7. SumOf(g, both) = g[x] + SumOf(g, both \ {x})
        BY <3>5, <3>6, SumTakes
      <3>8. SumOf(g, R) \in Int
        BY SumTyped
      <3>9. SumOf(g, t \ {x}) \in Int
        <4>1. IsFiniteSet(t \ {x}) /\ \A y \in t \ {x} : g[y] \in Int
          BY <2>2, <3>3, FS_Subset
        <4> QED
          BY <4>1, SumTyped
      <3>10. g[x] \in Int
        BY <3>1, <3>3
      <3>11. SumOf(g, both) = g[x] + (SumOf(g, R) + SumOf(g, t \ {x}))
        BY <3>2, <3>6, <3>7
      <3>12. SumOf(g, both) = SumOf(g, R) + SumOf(g, t)
        BY <3>4, <3>8, <3>9, <3>10, <3>11
      <3> QED
        BY <2>2, <3>12 DEF both
    <2> QED
      BY <2>3, <2>4
  <1>2. Fine(S)
    BY <1>1
  <1> QED
    BY <1>2

RowOf(g, x, R) == [y \in R |-> g[<<x, y>>]]
IsTable(g, h, S, R) ==
  /\ \A x \in S : \A y \in R : g[<<x, y>>] \in Int
  /\ \A x \in S : h[x] = SumOf(RowOf(g, x, R), R)

LEMMA SumProduct ==
  ASSUME NEW S, IsFiniteSet(S), NEW R, IsFiniteSet(R), NEW g, NEW h, IsTable(g, h, S, R)
  PROVE  SumOf(g, S \X R) = SumOf(h, S)
  <1> DEFINE Fine(t) == SumOf(g, t \X R) = SumOf(h, t)
             Bad == {t \in SUBSET S : ~Fine(t)}
  <1>a. /\ \A x \in S : \A y \in R : g[<<x, y>>] \in Int
        /\ \A x \in S : h[x] = SumOf([y \in R |-> g[<<x, y>>]], R)
    BY DEF IsTable, RowOf
  <1>0. \A x \in S : h[x] \in Int
    <2>1. ASSUME NEW x \in S PROVE h[x] \in Int
      <3> DEFINE k == [y \in R |-> g[<<x, y>>]]
      <3>1. \A y \in R : k[y] \in Int
        BY <1>a
      <3>2. h[x] = SumOf(k, R)
        BY <1>a
      <3> HIDE DEF k
      <3> QED
        BY <3>1, <3>2, SumTyped
    <2> QED
      BY <2>1
  <1>1. ASSUME Bad # {} PROVE FALSE
    <2>1. PICK t \in Bad : \A x \in t : t \ {x} \notin Bad
      <3> HIDE DEF Fine
      <3>1. Bad \subseteq SUBSET S
        OBVIOUS
      <3> HIDE DEF Bad
      <3> QED
        BY <1>1, <3>1, FewestElements
    <2>2. t \in SUBSET S /\ ~Fine(t) /\ IsFiniteSet(t)
      BY <2>1, FS_Subset
    <2>3. CASE t = {}
      <3>1. t \X R = {} /\ IsFiniteSet({})
        BY <2>3, FS_EmptySet
      <3>2. SumOf(g, {}) = 0 /\ SumOf(h, {}) = 0
        BY <3>1, SumStep
      <3> QED
        BY <2>2, <2>3, <3>1, <3>2
    <2>4. CASE t # {}
      <3>1. PICK x : x \in t
        BY <2>4
      <3>2. Fine(t \ {x})
        BY <2>1, <2>2, <3>1
      <3>3. \A y \in t : h[y] \in Int
        BY <1>0, <2>2
      <3>4. SumOf(h, t) = h[x] + SumOf(h, t \ {x})
        BY <2>2, <3>1, <3>3, SumTakes
      <3> DEFINE row == {x} \X R
                 rest == (t \ {x}) \X R
      <3>5. IsFiniteSet(row) /\ IsFiniteSet(rest)
        BY <2>2, FS_Singleton, FS_Product, FS_Subset
      <3>6. t \X R = rest \cup row /\ rest \cap row = {} /\ \A p \in rest \cup row : g[p] \in Int
        BY <1>a, <2>2, <3>1
      <3> HIDE DEF row, rest
      <3>7. SumOf(g, rest \cup row) = SumOf(g, rest) + SumOf(g, row)
        BY <3>5, <3>6, SumUnion
      <3>8. SumOf(g, row) = h[x]
        <4> DEFINE k == [y \in R |-> g[<<x, y>>]]
        <4>1. IsRow(g, x, k, R)
          BY <1>a, <2>2, <3>1 DEF IsRow
        <4>2. h[x] = SumOf(k, R)
          BY <1>a, <2>2, <3>1
        <4> HIDE DEF k
        <4>3. SumOf(g, {x} \X R) = SumOf(k, R)
          BY <4>1, SumRow
        <4> QED
          BY <4>2, <4>3 DEF row
      <3>9. SumOf(g, rest) = SumOf(h, t \ {x})
        BY <3>2 DEF rest
      <3>10. h[x] \in Int /\ SumOf(h, t \ {x}) \in Int
        <4>1. IsFiniteSet(t \ {x}) /\ \A y \in t \ {x} : h[y] \in Int
          BY <2>2, <3>3, FS_Subset
        <4> QED
          BY <3>1, <3>3, <4>1, SumTyped
      <3> QED
        <4>1. SumOf(g, t \X R) = SumOf(h, t \ {x}) + h[x]
          BY <3>6, <3>7, <3>8, <3>9
        <4>2. SumOf(g, t \X R) = SumOf(h, t)
          BY <3>4, <3>10, <4>1
        <4> QED
          BY <2>2, <4>2
    <2> QED
      BY <2>3, <2>4
  <1>2. Fine(S)
    BY <1>1
  <1> QED
    BY <1>2

(* The size of a union of disjoint sets.                                   *)
LEMMA DisjointSizes ==
  ASSUME NEW A, IsFiniteSet(A), NEW B, IsFiniteSet(B), A \cap B = {}
  PROVE  /\ IsFiniteSet(A \cup B) /\ Cardinality(A \cup B) \in Nat
         /\ Cardinality(A \cup B) = Cardinality(A) + Cardinality(B)
  <1>1. /\ IsFiniteSet(A \cup B)
        /\ Cardinality(A \cup B) = Cardinality(A) + Cardinality(B) - Cardinality(A \cap B)
    BY FS_Union
  <1>2. Cardinality(A \cap B) = 0
    BY FS_EmptySet
  <1>3. Cardinality(A) \in Nat /\ Cardinality(B) \in Nat
    BY FS_CardinalityType
  <1> QED
    BY <1>1, <1>2, <1>3

LEMMA CountUnion ==
  ASSUME NEW S, IsFiniteSet(S), NEW F, NEW g,
         \A x \in S : IsFiniteSet(F[x]) /\ g[x] = Cardinality(F[x]),
         \A x, y \in S : x # y => F[x] \cap F[y] = {}
  PROVE  /\ IsFiniteSet(UNION {F[x] : x \in S})
         /\ Cardinality(UNION {F[x] : x \in S}) = SumOf(g, S)
  <1> DEFINE All(t) == UNION {F[x] : x \in t}
             Fine(t) == IsFiniteSet(All(t)) /\ Cardinality(All(t)) = SumOf(g, t)
             Bad == {t \in SUBSET S : ~Fine(t)}
  <1>1. ASSUME Bad # {} PROVE FALSE
    <2>1. PICK t \in Bad : \A x \in t : t \ {x} \notin Bad
      <3> HIDE DEF Fine
      <3>1. Bad \subseteq SUBSET S
        OBVIOUS
      <3> HIDE DEF Bad
      <3> QED
        BY <1>1, <3>1, FewestElements
    <2>2. t \in SUBSET S /\ ~Fine(t) /\ IsFiniteSet(t)
      BY <2>1, FS_Subset
    <2>3. CASE t = {}
      <3>1. All(t) = {}
        BY <2>3
      <3>2. SumOf(g, t) = 0
        BY <2>2, <2>3, SumStep
      <3> HIDE DEF All
      <3> QED
        BY <2>2, <3>1, <3>2, FS_EmptySet
    <2>4. CASE t # {}
      <3>1. PICK x : x \in t
        BY <2>4
      <3>2. Fine(t \ {x})
        BY <2>1, <2>2, <3>1
      <3>3. All(t) = All(t \ {x}) \cup F[x]
        BY <3>1
      <3>4. All(t \ {x}) \cap F[x] = {}
        BY <2>2, <3>1
      <3>5. IsFiniteSet(F[x]) /\ g[x] = Cardinality(F[x]) /\ Cardinality(F[x]) \in Nat
        BY <2>2, <3>1, FS_CardinalityType
      <3>6. \A y \in t : g[y] \in Int
        BY <2>2, FS_CardinalityType
      <3>7. SumOf(g, t) = g[x] + SumOf(g, t \ {x})
        BY <2>2, <3>1, <3>6, SumTakes
      <3> HIDE DEF All
      <3>8. IsFiniteSet(All(t)) /\ Cardinality(All(t)) = Cardinality(All(t \ {x})) + Cardinality(F[x])
        <4> DEFINE A == All(t \ {x})
        <4>1. IsFiniteSet(A) /\ A \cap F[x] = {}
          BY <3>2, <3>4
        <4> HIDE DEF A
        <4>2. IsFiniteSet(A \cup F[x]) /\ Cardinality(A \cup F[x]) = Cardinality(A) + Cardinality(F[x])
          BY <3>5, <4>1, DisjointSizes
        <4>3. All(t) = A \cup F[x]
          BY <3>3 DEF A
        <4>4. Cardinality(All(t)) = Cardinality(A) + Cardinality(F[x])
          BY <4>2, <4>3
        <4> QED
          BY <4>2, <4>3, <4>4 DEF A
      <3>9. Cardinality(All(t \ {x})) \in Nat
        BY <3>2, FS_CardinalityType
      <3> QED
        BY <2>2, <3>2, <3>5, <3>7, <3>8, <3>9
    <2> QED
      BY <2>3, <2>4
  <1>2. Fine(S)
    BY <1>1
  <1> QED
    BY <1>2

(* The sets of two.                                                        *)
Couples(S) == {p \in SUBSET S : Cardinality(p) = 2}

LEMMA Doubletons ==
  ASSUME NEW p, IsFiniteSet(p)
  PROVE  Cardinality(p) = 2 <=> \E a, b : a # b /\ p = {a, b}
  <1>1. ASSUME NEW a, NEW b, a # b PROVE Cardinality({a, b}) = 2
    <2>1. Cardinality({a}) = 1 /\ IsFiniteSet({a})
      BY FS_Singleton
    <2>2. Cardinality({a} \cup {b}) = Cardinality({a}) + 1
      BY <1>1, <2>1, FS_AddElement
    <2>3. {a, b} = {a} \cup {b}
      OBVIOUS
    <2> QED
      BY <2>1, <2>2, <2>3
  <1>2. ASSUME Cardinality(p) = 2 PROVE \E a, b : a # b /\ p = {a, b}
    <2>1. p # {}
      BY <1>2, FS_EmptySet
    <2>2. PICK a : a \in p
      BY <2>1
    <2>3. Cardinality(p \ {a}) = 1 /\ IsFiniteSet(p \ {a})
      BY <1>2, <2>2, FS_RemoveElement
    <2>4. PICK b : p \ {a} = {b}
      BY <2>3, FS_Singleton
    <2> QED
      BY <2>2, <2>4
  <1> QED
    BY <1>1, <1>2

LEMMA CouplesCount ==
  ASSUME NEW S, IsFiniteSet(S)
  PROVE  /\ IsFiniteSet(Couples(S)) /\ Cardinality(Couples(S)) \in Nat
         /\ 2 * Cardinality(Couples(S)) = Cardinality(S) * (Cardinality(S) - 1)
  <1> DEFINE Fine(t) == 2 * Cardinality(Couples(t)) = Cardinality(t) * (Cardinality(t) - 1)
             Bad == {t \in SUBSET S : ~Fine(t)}
  <1>0. ASSUME NEW t \in SUBSET S
        PROVE  IsFiniteSet(t) /\ IsFiniteSet(Couples(t)) /\ Cardinality(Couples(t)) \in Nat
    <2>1. IsFiniteSet(t)
      BY FS_Subset
    <2>2. IsFiniteSet(SUBSET t)
      BY <2>1, FS_SUBSET
    <2>3. IsFiniteSet(Couples(t))
      BY <2>2, FS_Subset DEF Couples
    <2> QED
      BY <2>1, <2>3, FS_CardinalityType
  <1>1. ASSUME Bad # {} PROVE FALSE
    <2>1. PICK t \in Bad : \A x \in t : t \ {x} \notin Bad
      <3> HIDE DEF Fine
      <3>1. Bad \subseteq SUBSET S
        OBVIOUS
      <3> HIDE DEF Bad
      <3> QED
        BY <1>1, <3>1, FewestElements
    <2>2. t \in SUBSET S /\ ~Fine(t) /\ IsFiniteSet(t)
      BY <2>1, FS_Subset
    <2>3. CASE t = {}
      <3>1. Couples(t) = {}
        <4>1. ASSUME NEW p \in Couples(t) PROVE FALSE
          <5>1. p = {} /\ Cardinality(p) = 2
            BY <2>3, <4>1 DEF Couples
          <5> QED
            BY <5>1, FS_EmptySet
        <4> QED
          BY <4>1
      <3>2. Cardinality(t) = 0 /\ Cardinality(Couples(t)) = 0
        BY <2>3, <3>1, FS_EmptySet
      <3> QED
        BY <2>2, <3>2
    <2>4. CASE t # {}
      <3>1. PICK x : x \in t
        BY <2>4
      <3> DEFINE u == t \ {x}
                 news == {{x, b} : b \in u}
      <3>2. Fine(u) /\ u \in SUBSET S
        BY <2>1, <2>2, <3>1
      <3>3. Cardinality(t) \in Nat /\ Cardinality(u) = Cardinality(t) - 1
        BY <2>2, <3>1, FS_RemoveElement, FS_CardinalityType
      <3>4. IsFiniteSet(u) /\ IsFiniteSet(Couples(u)) /\ Cardinality(Couples(u)) \in Nat
        BY <1>0, <3>2
      <3>5. IsFiniteSet(news) /\ Cardinality(news) = Cardinality(u)
        <4> DEFINE f == [b \in u |-> {x, b}]
        <4>1. f \in [u -> news] /\ (\A b, c \in u : f[b] = f[c] => b = c) /\ \A e \in news : \E b \in u : f[b] = e
          OBVIOUS
        <4> HIDE DEF f, news, u
        <4>2. f \in Bijection(u, news)
          BY <4>1 DEF Bijection, Injection, Surjection, IsInjective
        <4> QED
          BY <3>4, <4>2, FS_Bijection DEF ExistsBijection
      <3>6. Couples(t) = Couples(u) \cup news
        <4>1. ASSUME NEW p \in Couples(t) PROVE p \in Couples(u) \cup news
          <5>1. p \in SUBSET t /\ Cardinality(p) = 2 /\ IsFiniteSet(p)
            BY <2>2, <4>1, FS_Subset DEF Couples
          <5>2. PICK a, b : a # b /\ p = {a, b}
            BY <5>1, Doubletons
          <5>3. CASE x \in p
            BY <5>1, <5>2, <5>3
          <5>4. CASE x \notin p
            BY <5>1, <5>4 DEF Couples
          <5> QED
            BY <5>3, <5>4
        <4>2. ASSUME NEW p \in news PROVE p \in Couples(t)
          <5>1. PICK b \in u : p = {x, b}
            BY <4>2
          <5>2. p \in SUBSET t /\ x # b
            BY <3>1, <5>1
          <5>3. IsFiniteSet(p)
            BY <2>2, <5>2, FS_Subset
          <5> QED
            BY <5>1, <5>2, <5>3, Doubletons DEF Couples
        <4>3. ASSUME NEW p \in Couples(u) PROVE p \in Couples(t)
          BY <4>3 DEF Couples
        <4> QED
          BY <4>1, <4>2, <4>3
      <3>7. Couples(u) \cap news = {}
        BY DEF Couples
      <3> HIDE DEF u, news
      <3>8. Cardinality(Couples(t)) = Cardinality(Couples(u)) + Cardinality(u)
        <4>1. Cardinality(Couples(t)) = Cardinality(Couples(u)) + Cardinality(news)
                                          - Cardinality(Couples(u) \cap news)
          BY <3>4, <3>5, <3>6, FS_Union
        <4>2. Cardinality(Couples(u) \cap news) = 0
          BY <3>7, FS_EmptySet
        <4> QED
          BY <3>3, <3>4, <3>5, <4>1, <4>2
      <3> DEFINE n == Cardinality(t)
      <3>9. 2 * Cardinality(Couples(t)) = (n - 1) * ((n - 1) - 1) + 2 * (n - 1)
        BY <3>2, <3>3, <3>4, <3>8
      <3>10. n \in Int
        BY <3>3
      <3> HIDE DEF n
      <3>11. (n - 1) * ((n - 1) - 1) + 2 * (n - 1) = n * (n - 1)
        BY <3>10
      <3>12. 2 * Cardinality(Couples(t)) = n * (n - 1)
        BY <3>9, <3>11
      <3> QED
        BY <2>2, <3>12 DEF n
    <2> QED
      BY <2>3, <2>4
  <1>2. Fine(S) /\ S \in SUBSET S
    BY <1>1
  <1> QED
    BY <1>0, <1>2

-----------------------------------------------------------------------------
(* The rank sum of a set among itself is a matter of its size: whatever    *)
(* the scores are, every couple of elements adds two, and each element two *)
(* for itself.                                                             *)
Lower(s, S, x) == {y \in S : s[y] < s[x]}
NotHigher(s, S, x) == {y \in S : s[y] <= s[x]}
Ranks(s, S, x) == 1 + Cardinality(Lower(s, S, x)) + Cardinality(NotHigher(s, S, x))
RanksIn(s, S) == [x \in S |-> Ranks(s, S, x)]

LEMMA RankSizes ==
  ASSUME NEW S, IsFiniteSet(S), NEW s, NEW x
  PROVE  /\ IsFiniteSet(Lower(s, S, x)) /\ Cardinality(Lower(s, S, x)) \in Nat
         /\ IsFiniteSet(NotHigher(s, S, x)) /\ Cardinality(NotHigher(s, S, x)) \in Nat
         /\ Ranks(s, S, x) \in Int
  <1>1. IsFiniteSet(Lower(s, S, x)) /\ IsFiniteSet(NotHigher(s, S, x))
    BY FS_Subset DEF Lower, NotHigher
  <1>2. Cardinality(Lower(s, S, x)) \in Nat /\ Cardinality(NotHigher(s, S, x)) \in Nat
    BY <1>1, FS_CardinalityType
  <1> QED
    BY <1>1, <1>2 DEF Ranks

(* What a further element adds to the rank of another.                     *)
Adds(s, e, x) == (IF s[e] < s[x] THEN 1 ELSE 0) + (IF s[e] <= s[x] THEN 1 ELSE 0)

LEMMA RankAdds ==
  ASSUME NEW t, IsFiniteSet(t), NEW s, NEW e \in t, NEW x \in t, \A y \in t : s[y] \in Int
  PROVE  Ranks(s, t, x) = Ranks(s, t \ {e}, x) + Adds(s, e, x)
  <1> DEFINE u == t \ {e}
  <1>1. IsFiniteSet(u)
    BY FS_Subset
  <1>2. s[e] < s[x] => Lower(s, t, x) = Lower(s, u, x) \cup {e}
    BY DEF Lower
  <1>3. ~(s[e] < s[x]) => Lower(s, t, x) = Lower(s, u, x)
    BY DEF Lower
  <1>4. s[e] <= s[x] => NotHigher(s, t, x) = NotHigher(s, u, x) \cup {e}
    BY DEF NotHigher
  <1>5. ~(s[e] <= s[x]) => NotHigher(s, t, x) = NotHigher(s, u, x)
    BY DEF NotHigher
  <1>6. e \notin Lower(s, u, x) /\ e \notin NotHigher(s, u, x)
    BY DEF Lower, NotHigher
  <1> HIDE DEF u
  <1>7. /\ IsFiniteSet(Lower(s, u, x)) /\ Cardinality(Lower(s, u, x)) \in Nat
        /\ IsFiniteSet(NotHigher(s, u, x)) /\ Cardinality(NotHigher(s, u, x)) \in Nat
    BY <1>1, RankSizes
  <1>8. /\ Cardinality(Lower(s, u, x) \cup {e}) = Cardinality(Lower(s, u, x)) + 1
        /\ Cardinality(NotHigher(s, u, x) \cup {e}) = Cardinality(NotHigher(s, u, x)) + 1
    BY <1>6, <1>7, FS_AddElement
  <1>9. Cardinality(Lower(s, t, x)) = Cardinality(Lower(s, u, x)) + (IF s[e] < s[x] THEN 1 ELSE 0)
    <2>1. CASE s[e] < s[x]
      BY <1>2, <1>8, <2>1
    <2>2. CASE ~(s[e] < s[x])
      BY <1>3, <1>7, <2>2
    <2> QED
      BY <2>1, <2>2
  <1>10. Cardinality(NotHigher(s, t, x)) =
           Cardinality(NotHigher(s, u, x)) + (IF s[e] <= s[x] THEN 1 ELSE 0)
    <2>1. CASE s[e] <= s[x]
      BY <1>4, <1>8, <2>1
    <2>2. CASE ~(s[e] <= s[x])
      BY <1>5, <1>7, <2>2
    <2> QED
      BY <2>1, <2>2
  <1>11. Ranks(s, t, x) = Ranks(s, u, x) + Adds(s, e, x)
    BY <1>7, <1>9, <1>10 DEF Ranks, Adds
  <1> QED
    BY <1>11 DEF u

(* A rank less one is how often the others add to it.                      *)
LEMMA RankCounts ==
  ASSUME NEW u, IsFiniteSet(u), NEW s, NEW g, NEW x, \A y \in u : g[y] = Adds(s, y, x)
  PROVE  Ranks(s, u, x) = 1 + SumOf(g, u)
  <1> DEFINE i == [y \in u |-> IF y \in Lower(s, u, x) THEN 1 ELSE 0]
             j == [y \in u |-> IF y \in NotHigher(s, u, x) THEN 1 ELSE 0]
  <1>1. \A y \in u : i[y] = IF y \in Lower(s, u, x) THEN 1 ELSE 0
    OBVIOUS
  <1>2. \A y \in u : j[y] = IF y \in NotHigher(s, u, x) THEN 1 ELSE 0
    OBVIOUS
  <1>3. \A y \in u : i[y] \in Int /\ j[y] \in Int /\ g[y] = i[y] + j[y]
    BY DEF Adds, Lower, NotHigher
  <1> HIDE DEF i, j
  <1>4. SumOf(g, u) = SumOf(i, u) + SumOf(j, u)
    BY <1>3, SumAdds
  <1>5. SumOf(i, u) = Cardinality(u \cap Lower(s, u, x))
    BY <1>1, SumCounts
  <1>6. SumOf(j, u) = Cardinality(u \cap NotHigher(s, u, x))
    BY <1>2, SumCounts
  <1>7. u \cap Lower(s, u, x) = Lower(s, u, x) /\ u \cap NotHigher(s, u, x) = NotHigher(s, u, x)
    BY DEF Lower, NotHigher
  <1>8. Cardinality(Lower(s, u, x)) \in Nat /\ Cardinality(NotHigher(s, u, x)) \in Nat
    BY RankSizes
  <1> QED
    BY <1>4, <1>5, <1>6, <1>7, <1>8 DEF Ranks

LEMMA OwnRanks ==
  ASSUME NEW S, IsFiniteSet(S), NEW s, \A x \in S : s[x] \in Int
  PROVE  SumOf(RanksIn(s, S), S) = Cardinality(S) * (Cardinality(S) + 1)
  <1> DEFINE Fine(t) == SumOf(RanksIn(s, t), t) = Cardinality(t) * (Cardinality(t) + 1)
             Bad == {t \in SUBSET S : ~Fine(t)}
  <1>1. ASSUME Bad # {} PROVE FALSE
    <2>1. PICK t \in Bad : \A x \in t : t \ {x} \notin Bad
      <3> HIDE DEF Fine
      <3>1. Bad \subseteq SUBSET S
        OBVIOUS
      <3> HIDE DEF Bad
      <3> QED
        BY <1>1, <3>1, FewestElements
    <2>2. t \in SUBSET S /\ ~Fine(t) /\ IsFiniteSet(t)
      BY <2>1, FS_Subset
    <2>3. CASE t = {}
      <3>1. SumOf(RanksIn(s, t), t) = 0 /\ Cardinality(t) = 0
        BY <2>2, <2>3, SumStep, FS_EmptySet
      <3> QED
        BY <2>2, <3>1
    <2>4. CASE t # {}
      <3>1. PICK e : e \in t
        BY <2>4
      <3> DEFINE u == t \ {e}
      <3>2. Fine(u) /\ u \in SUBSET S
        BY <2>1, <2>2, <3>1
      <3>3. /\ Cardinality(t) \in Nat /\ Cardinality(u) = Cardinality(t) - 1 /\ IsFiniteSet(u)
            /\ \A x \in t : s[x] \in Int
        BY <2>2, <3>1, FS_RemoveElement, FS_CardinalityType
      <3>4. \A x \in t : Ranks(s, t, x) = Ranks(s, u, x) + Adds(s, e, x)
        BY <2>2, <3>1, <3>3, RankAdds
      <3>5. u \subseteq t /\ e \notin u
        OBVIOUS
      <3> DEFINE all == RanksIn(s, t)
                 old == RanksIn(s, u)
                 to == [x \in u |-> Adds(s, e, x)]
                 from == [x \in u |-> Adds(s, x, e)]
                 two == [x \in u |-> 2]
                 new == [x \in u |-> old[x] + to[x]]
      <3>6. \A x \in t : all[x] = Ranks(s, t, x) /\ all[x] \in Int
        BY <2>2, RankSizes DEF RanksIn
      <3>7. \A x \in u : /\ old[x] = Ranks(s, u, x) /\ old[x] \in Int
                         /\ to[x] = Adds(s, e, x) /\ to[x] \in Int
                         /\ from[x] = Adds(s, x, e) /\ from[x] \in Int
                         /\ two[x] = 2 /\ two[x] = to[x] + from[x]
                         /\ new[x] = old[x] + to[x] /\ new[x] = all[x] /\ new[x] \in Int
        <4> HIDE DEF u
        <4>1. \A x \in u : Ranks(s, u, x) \in Int
          BY <3>3, RankSizes
        <4>2. \A x \in u : s[x] \in Int /\ s[e] \in Int /\ all[x] = Ranks(s, u, x) + Adds(s, e, x)
          BY <3>1, <3>3, <3>4, <3>5, <3>6
        <4> HIDE DEF all
        <4> QED
          BY <4>1, <4>2 DEF RanksIn, Adds
      <3> HIDE DEF u
      <3> HIDE DEF all, old, to, from, two, new
      <3>8. SumOf(all, t) = all[e] + SumOf(all, u)
        BY <2>2, <3>1, <3>6, SumTakes DEF u
      <3>9. SumOf(all, u) = SumOf(new, u)
        BY <3>3, <3>7, SumEquals
      <3>10. SumOf(new, u) = SumOf(old, u) + SumOf(to, u)
        <4>1. \A x \in u : old[x] \in Int /\ to[x] \in Int /\ new[x] = old[x] + to[x]
          BY <3>7
        <4> QED
          BY <3>3, <4>1, SumAdds
      <3>11. SumOf(two, u) = SumOf(to, u) + SumOf(from, u)
        <4>1. \A x \in u : to[x] \in Int /\ from[x] \in Int /\ two[x] = to[x] + from[x]
          BY <3>7
        <4> QED
          BY <3>3, <4>1, SumAdds
      <3>12. SumOf(two, u) = 2 * Cardinality(u)
        <4> DEFINE c == 2
        <4>1. c \in Int /\ \A x \in u : two[x] = c
          BY <3>7
        <4> HIDE DEF c
        <4>2. SumOf(two, u) = c * Cardinality(u)
          BY <3>3, <4>1, SumConstant
        <4> QED
          BY <4>2 DEF c
      <3>13. all[e] = 1 + SumOf(from, u) + 1
        <4>1. Ranks(s, u, e) = 1 + SumOf(from, u)
          <5>1. \A y \in u : from[y] = Adds(s, y, e)
            BY <3>7
          <5> QED
            BY <3>3, <5>1, RankCounts
        <4>2. Adds(s, e, e) = 1
          BY <3>1, <3>3 DEF Adds
        <4> QED
          BY <3>1, <3>4, <3>6, <4>1, <4>2
      <3>14. SumOf(to, u) \in Int /\ SumOf(from, u) \in Int
        BY <3>3, <3>7, SumTyped
      <3> DEFINE n == Cardinality(t)
      <3>15. SumOf(old, u) = (n - 1) * ((n - 1) + 1)
        BY <3>2, <3>3 DEF old
      <3>16. n \in Int /\ Cardinality(u) = n - 1
        BY <3>3
      <3> HIDE DEF n
      <3>17. SumOf(all, t) = (n - 1) * ((n - 1) + 1) + 2 * (n - 1) + 2
        <4>1. (n - 1) * ((n - 1) + 1) \in Int
          BY <3>16
        <4> HIDE DEF Fine
        <4> QED
          BY <3>8, <3>9, <3>10, <3>11, <3>12, <3>13, <3>14, <3>15, <3>16, <4>1
      <3>18. (n - 1) * ((n - 1) + 1) + 2 * (n - 1) + 2 = n * (n + 1)
        BY <3>16
      <3> QED
        BY <2>2, <3>17, <3>18 DEF n, all
    <2> QED
      BY <2>3, <2>4
  <1>2. Fine(S)
    BY <1>1
  <1> QED
    BY <1>2

(* The rank sum of a part P of D beyond what P has among itself is what    *)
(* the elements of the rest add to it, couple by couple.                   *)
LEMMA RanksSplit ==
  ASSUME NEW D, IsFiniteSet(D), NEW P, P \subseteq D, NEW s, NEW x, NEW k,
         \A z \in D \ P : k[z] = Adds(s, z, x)
  PROVE  Ranks(s, D, x) = Ranks(s, P, x) + SumOf(k, D \ P) /\ SumOf(k, D \ P) \in Int
  <1> DEFINE N == D \ P
             g == [z \in D |-> Adds(s, z, x)]
  <1>1. IsFiniteSet(P) /\ IsFiniteSet(N) /\ P \cap N = {} /\ D = P \cup N
    BY FS_Subset
  <1>2. \A z \in D : g[z] = Adds(s, z, x)
    OBVIOUS
  <1>3. \A z \in D : Adds(s, z, x) \in Int
    BY DEF Adds
  <1>4. \A z \in P \cup N : g[z] \in Int
    BY <1>1, <1>2, <1>3
  <1>5. \A z \in P : g[z] = Adds(s, z, x)
    BY <1>1, <1>2
  <1>6. \A z \in N : g[z] \in Int /\ k[z] = g[z]
    BY <1>1, <1>2, <1>3
  <1>7. \A z \in P : g[z] \in Int
    BY <1>1, <1>2, <1>3
  <1> HIDE DEF N, g
  <1>8. SumOf(g, P \cup N) = SumOf(g, P) + SumOf(g, N)
    BY <1>1, <1>4, SumUnion
  <1>9. Ranks(s, D, x) = 1 + SumOf(g, D)
    BY <1>2, RankCounts
  <1>10. Ranks(s, P, x) = 1 + SumOf(g, P)
    BY <1>1, <1>5, RankCounts
  <1>11. SumOf(k, N) = SumOf(g, N)
    BY <1>1, <1>6, SumEquals
  <1>12. SumOf(g, P) \in Int
    BY <1>1, <1>7, SumTyped
  <1>13. SumOf(g, N) \in Int
    BY <1>1, <1>6, SumTyped
  <1>14. SumOf(g, D) = SumOf(g, P) + SumOf(g, N)
    BY <1>1, <1>8
  <1>15. Ranks(s, D, x) = Ranks(s, P, x) + SumOf(k, N) /\ SumOf(k, N) \in Int
    BY <1>9, <1>10, <1>11, <1>12, <1>13, <1>14
  <1> QED
    BY <1>15 DEF N

LEMMA RankSum ==
  ASSUME NEW D, IsFiniteSet(D), NEW P, P \subseteq D, NEW s, \A x \in D : s[x] \in Int,
         NEW g, \A x \in P : g[x] = Ranks(s, D, x),
         NEW w, \A x \in P : \A z \in D \ P : w[<<x, z>>] = Adds(s, z, x)
  PROVE  SumOf(g, P) - Cardinality(P) * (Cardinality(P) + 1) = SumOf(w, P \X (D \ P))
  <1> DEFINE N == D \ P
             row(x) == [z \in N |-> w[<<x, z>>]]
             own == RanksIn(s, P)
             h == [x \in P |-> SumOf(row(x), N)]
  <1>1. IsFiniteSet(P) /\ IsFiniteSet(N) /\ Cardinality(P) \in Nat
    BY FS_Subset, FS_CardinalityType
  <1>2. \A z, x : Adds(s, z, x) \in Int
    BY DEF Adds
  <1>3. ASSUME NEW x \in P
        PROVE  /\ own[x] \in Int /\ h[x] \in Int /\ g[x] = own[x] + h[x]
               /\ h[x] = SumOf([z \in N |-> w[<<x, z>>]], N)
               /\ \A z \in N : w[<<x, z>>] \in Int
    <2> DEFINE k == row(x)
    <2>1. \A z \in N : k[z] = Adds(s, z, x) /\ w[<<x, z>>] \in Int
      BY <1>2
    <2>2. own[x] = Ranks(s, P, x) /\ h[x] = SumOf(k, N) /\ g[x] = Ranks(s, D, x)
      BY DEF RanksIn
    <2>3. own[x] \in Int
      BY <1>1, <2>2, RankSizes
    <2>4. h[x] = SumOf([z \in N |-> w[<<x, z>>]], N)
      OBVIOUS
    <2> HIDE DEF k, own, h
    <2>5. Ranks(s, D, x) = Ranks(s, P, x) + SumOf(k, N) /\ SumOf(k, N) \in Int
      BY <2>1, RanksSplit
    <2> QED
      BY <2>1, <2>2, <2>3, <2>4, <2>5
  <1> HIDE DEF N, own, h
  <1>4. SumOf(g, P) = SumOf(own, P) + SumOf(h, P)
    <2>1. \A x \in P : own[x] \in Int /\ h[x] \in Int /\ g[x] = own[x] + h[x]
      BY <1>3
    <2> QED
      BY <1>1, <2>1, SumAdds
  <1>5. SumOf(own, P) = Cardinality(P) * (Cardinality(P) + 1)
    BY <1>1, OwnRanks DEF own
  <1>6. SumOf(w, P \X N) = SumOf(h, P)
    <2>1. \A x \in P : \A z \in N : w[<<x, z>>] \in Int
      BY <1>3
    <2>2. \A x \in P : h[x] = SumOf(RowOf(w, x, N), N)
      BY <1>3 DEF RowOf
    <2>3. IsTable(w, h, P, N)
      BY <2>1, <2>2 DEF IsTable
    <2> QED
      BY <1>1, <2>3, SumProduct
  <1>7. SumOf(own, P) \in Int /\ SumOf(h, P) \in Int
    <2>1. \A x \in P : own[x] \in Int
      BY <1>3
    <2>2. \A x \in P : h[x] \in Int
      BY <1>3
    <2> QED
      BY <1>1, <2>1, <2>2, SumTyped
  <1>8. SumOf(g, P) - Cardinality(P) * (Cardinality(P) + 1) = SumOf(w, P \X N)
    BY <1>4, <1>5, <1>6, <1>7
  <1> QED
    BY <1>8 DEF N

-----------------------------------------------------------------------------
(* What is proportional stays so in sums.                                  *)
LEMMA SumScales ==
  ASSUME NEW S, IsFiniteSet(S), NEW c \in Int, NEW g, NEW h,
         \A x \in S : g[x] \in Int /\ h[x] = c * g[x]
  PROVE  SumOf(h, S) = c * SumOf(g, S)
  <1> DEFINE Fine(t) == SumOf(h, t) = c * SumOf(g, t)
             Bad == {t \in SUBSET S : ~Fine(t)}
  <1>1. ASSUME Bad # {} PROVE FALSE
    <2>1. PICK t \in Bad : \A x \in t : t \ {x} \notin Bad
      <3> HIDE DEF Fine
      <3>1. Bad \subseteq SUBSET S
        OBVIOUS
      <3> HIDE DEF Bad
      <3> QED
        BY <1>1, <3>1, FewestElements
    <2>2. t \in SUBSET S /\ ~Fine(t) /\ IsFiniteSet(t)
      BY <2>1, FS_Subset
    <2>3. CASE t = {}
      <3>1. SumOf(g, t) = 0 /\ SumOf(h, t) = 0
        BY <2>2, <2>3, SumStep
      <3> QED
        BY <2>2, <3>1
    <2>4. CASE t # {}
      <3>1. PICK x : x \in t
        BY <2>4
      <3>2. Fine(t \ {x})
        BY <2>1, <2>2, <3>1
      <3>3. \A y \in t : g[y] \in Int /\ h[y] \in Int
        BY <2>2
      <3>4. SumOf(g, t) = g[x] + SumOf(g, t \ {x}) /\ SumOf(h, t) = h[x] + SumOf(h, t \ {x})
        BY <2>2, <3>1, <3>3, SumTakes
      <3>5. SumOf(g, t \ {x}) \in Int /\ g[x] \in Int /\ h[x] = c * g[x]
        <4>1. IsFiniteSet(t \ {x}) /\ \A y \in t \ {x} : g[y] \in Int
          BY <2>2, <3>3, FS_Subset
        <4> QED
          BY <2>2, <3>1, <4>1, SumTyped
      <3>6. c * g[x] + c * SumOf(g, t \ {x}) = c * (g[x] + SumOf(g, t \ {x}))
        BY <3>5
      <3> QED
        BY <2>2, <3>2, <3>4, <3>5, <3>6
    <2> QED
      BY <2>3, <2>4
  <1>2. Fine(S)
    BY <1>1
  <1> QED
    BY <1>2

LEMMA SumChanges ==
  ASSUME NEW n \in Nat, NEW p, DOMAIN p = 1..n, \A k \in 1..n : p[k] \in Int,
         NEW i \in 1..n, NEW d \in Int
  PROVE  SumOf([p EXCEPT ![i] = @ + d], 1..n) = SumOf(p, 1..n) + d
  <1> DEFINE S == 1..n
             r == [p EXCEPT ![i] = @ + d]
             R == S \ {i}
  <1>1. IsFiniteSet(S)
    BY FS_Interval
  <1>2. IsFiniteSet(R)
    BY <1>1, FS_Subset
  <1>3. r[i] = p[i] + d /\ \A k \in R : r[k] = p[k]
    OBVIOUS
  <1>4. \A k \in S : r[k] \in Int
    BY <1>3
  <1> HIDE DEF r
  <1>5. SumOf(r, S) = r[i] + SumOf(r, R) /\ SumOf(p, S) = p[i] + SumOf(p, R)
    BY <1>1, <1>4, SumTakes
  <1>6. SumOf(r, R) = SumOf(p, R) /\ SumOf(p, R) \in Int
    <2>1. \A k \in R : p[k] \in Int /\ r[k] = p[k]
      BY <1>3
    <2> HIDE DEF R
    <2>2. SumOf(r, R) = SumOf(p, R)
      BY <1>2, <2>1, SumEquals
    <2> QED
      BY <1>2, <2>1, <2>2, SumTyped
  <1>7. p[i] \in Int
    OBVIOUS
  <1> QED
    BY <1>3, <1>5, <1>6, <1>7 DEF r

SumUpto(X, k) == SumOf(X, 1..k)

LEMMA PartialSums ==
  ASSUME NEW n \in Nat, NEW X, \A i \in 1..n : X[i] \in Nat
  PROVE  /\ SumUpto(X, 0) = 0
         /\ \A k \in 0..n : SumUpto(X, k) \in Nat /\ SumUpto(X, k) <= SumUpto(X, n)
         /\ \A k \in 0..(n - 1) : SumUpto(X, k + 1) = SumUpto(X, k) + X[k + 1]
  <1>1. ASSUME NEW k \in 0..n PROVE IsFiniteSet(1..k) /\ IsFiniteSet((k + 1)..n) /\ 1..k \subseteq 1..n
    <2>1. k \in Int /\ 1 \in Int /\ k + 1 \in Int /\ n \in Int
      OBVIOUS
    <2> QED
      BY <2>1, FS_Interval
  <1>2. SumUpto(X, 0) = 0
    <2>1. 1..0 = {}
      OBVIOUS
    <2>2. IsFiniteSet({})
      BY FS_EmptySet
    <2> QED
      BY <2>1, <2>2, SumStep DEF SumUpto
  <1>3. ASSUME NEW k \in 0..n PROVE SumUpto(X, k) \in Nat
    <2>1. \A i \in 1..k : X[i] \in Int /\ X[i] >= 0
      OBVIOUS
    <2> QED
      BY <1>1, <2>1, SumTyped DEF SumUpto
  <1>4. ASSUME NEW k \in 0..n PROVE SumUpto(X, k) <= SumUpto(X, n)
    <2>1. (1..k) \cup ((k + 1)..n) = 1..n /\ (1..k) \cap ((k + 1)..n) = {}
      OBVIOUS
    <2>2. \A i \in (1..k) \cup ((k + 1)..n) : X[i] \in Int
      BY <2>1
    <2>3. SumOf(X, 1..n) = SumOf(X, 1..k) + SumOf(X, (k + 1)..n)
      BY <1>1, <2>1, <2>2, SumUnion
    <2>4. \A i \in (k + 1)..n : X[i] \in Int /\ X[i] >= 0
      OBVIOUS
    <2>5. SumOf(X, (k + 1)..n) \in Int /\ SumOf(X, (k + 1)..n) >= 0
      BY <1>1, <2>4, SumTyped
    <2>6. SumUpto(X, k) \in Nat
      BY <1>3
    <2> QED
      BY <2>3, <2>5, <2>6 DEF SumUpto
  <1>5. ASSUME NEW k \in 0..(n - 1) PROVE SumUpto(X, k + 1) = SumUpto(X, k) + X[k + 1]
    <2>1. k + 1 \in 0..n /\ k \in 0..n /\ k + 1 \in 1..(k + 1) /\ (1..(k + 1)) \ {k + 1} = 1..k
      OBVIOUS
    <2>2. \A i \in 1..(k + 1) : X[i] \in Int
      OBVIOUS
    <2>3. IsFiniteSet(1..(k + 1))
      BY <1>1, <2>1
    <2>4. SumOf(X, 1..(k + 1)) = X[k + 1] + SumOf(X, (1..(k + 1)) \ {k + 1})
      BY <2>1, <2>2, <2>3, SumTakes
    <2>5. SumUpto(X, k) \in Int /\ X[k + 1] \in Int
      BY <1>3, <2>1
    <2>6. SumUpto(X, k + 1) = X[k + 1] + SumUpto(X, k)
      <3>1. SumOf(X, (1..(k + 1)) \ {k + 1}) = SumOf(X, 1..k)
        BY <2>1
      <3> QED
        BY <2>4, <3>1 DEF SumUpto
    <2>7. \A a, c \in Int : a + c = c + a
      OBVIOUS
    <2> QED
      BY <2>5, <2>6, <2>7
  <1> QED
    BY <1>2, <1>3, <1>4, <1>5

-----------------------------------------------------------------------------
(* Definition by recursion over the natural numbers, for a step that is a  *)
(* function: the values up to n exist, are unique, and join to a function. *)
Recurs(f, n, base, step) ==
  f[0] = base /\ \A i \in 0..(n - 1) : f[i + 1] = step[<<i, f[i]>>]

LEMMA RecursionAgrees ==
  ASSUME NEW base, NEW step, NEW n \in Nat, NEW m \in Nat, NEW f, NEW g,
         Recurs(f, n, base, step), Recurs(g, m, base, step), NEW i \in Nat, i <= n, i <= m
  PROVE  f[i] = g[i]
  <1> DEFINE bad == {k \in 0..i : f[k] # g[k]}
  <1>1. ASSUME bad # {} PROVE FALSE
    <2>1. PICK k \in bad : \A j \in bad : k <= j
      <3>1. bad \subseteq Nat
        OBVIOUS
      <3> HIDE DEF bad
      <3> QED
        BY <1>1, <3>1, LeastElement
    <2>2. k # 0
      BY <2>1 DEF Recurs
    <2>3. k - 1 \in 0..i /\ k - 1 \in 0..(n - 1) /\ k - 1 \in 0..(m - 1) /\ (k - 1) + 1 = k
      BY <2>1, <2>2
    <2>4. f[k - 1] = g[k - 1]
      BY <2>1, <2>3
    <2>5. f[k] = step[<<k - 1, f[k - 1]>>] /\ g[k] = step[<<k - 1, g[k - 1]>>]
      BY <2>3 DEF Recurs
    <2> QED
      BY <2>1, <2>4, <2>5
  <1> QED
    BY <1>1

StaysIn(step, V) == \A i \in Nat : \A v \in V : step[<<i, v>>] \in V

LEMMA RecursionUpto ==
  ASSUME NEW V, NEW base \in V, NEW step, StaysIn(step, V), NEW n \in Nat
  PROVE  \E f \in [Nat -> V] : Recurs(f, n, base, step)
  <1> DEFINE Upto(k) == \E f \in [Nat -> V] : Recurs(f, k, base, step)
             bad == {k \in Nat : ~Upto(k)}
  <1>1. ASSUME bad # {} PROVE FALSE
    <2>1. PICK k \in bad : \A j \in bad : k <= j
      BY <1>1, LeastElement
    <2>2. k # 0
      <3>1. [j \in Nat |-> base] \in [Nat -> V] /\ Recurs([j \in Nat |-> base], 0, base, step)
        BY DEF Recurs
      <3> QED
        BY <2>1, <3>1
    <2>3. PICK f \in [Nat -> V] : Recurs(f, k - 1, base, step)
      BY <2>1, <2>2
    <2> DEFINE e == [j \in Nat |-> IF j = k THEN step[<<k - 1, f[k - 1]>>] ELSE f[j]]
    <2>4. e \in [Nat -> V]
      BY <2>1, <2>2 DEF StaysIn
    <2>5. Recurs(e, k, base, step)
      <3>1. e[0] = base
        BY <2>2, <2>3 DEF Recurs
      <3>2. ASSUME NEW i \in 0..(k - 1) PROVE e[i + 1] = step[<<i, e[i]>>]
        <4>1. CASE i = k - 1
          BY <4>1, <2>1, <2>2
        <4>2. CASE i # k - 1
          <5>1. i \in 0..((k - 1) - 1) /\ i + 1 # k /\ i # k
            BY <4>2, <2>1
          <5>2. f[i + 1] = step[<<i, f[i]>>]
            BY <5>1, <2>3 DEF Recurs
          <5> QED
            BY <5>1, <5>2
        <4> QED
          BY <4>1, <4>2
      <3> HIDE DEF e
      <3> QED
        BY <3>1, <3>2 DEF Recurs
    <2>6. Upto(k)
      BY <2>4, <2>5
    <2> QED
      BY <2>1, <2>6
  <1> QED
    BY <1>1

Recursive(f, V, base, step) ==
  f \in [Nat -> V] /\ f[0] = base /\ \A i \in Nat : f[i + 1] = step[<<i, f[i]>>]

LEMMA RecursionExists ==
  ASSUME NEW V, NEW base \in V, NEW step, StaysIn(step, V)
  PROVE  \E f : Recursive(f, V, base, step)
  <1> DEFINE up == [n \in Nat |-> CHOOSE f \in [Nat -> V] : Recurs(f, n, base, step)]
             all == [n \in Nat |-> up[n][n]]
  <1>1. \A n \in Nat : up[n] \in [Nat -> V] /\ Recurs(up[n], n, base, step)
    BY RecursionUpto
  <1>2. all \in [Nat -> V]
    BY <1>1
  <1>3. all[0] = base
    BY <1>1 DEF Recurs
  <1>4. ASSUME NEW i \in Nat PROVE all[i + 1] = step[<<i, all[i]>>]
    <2>1. all[i] = up[i][i] /\ all[i + 1] = up[i + 1][i + 1]
      OBVIOUS
    <2>2. Recurs(up[i], i, base, step) /\ Recurs(up[i + 1], i + 1, base, step)
      BY <1>1
    <2> HIDE DEF up, all
    <2>3. up[i][i] = up[i + 1][i]
      <3>1. i + 1 \in Nat /\ i <= i /\ i <= i + 1
        OBVIOUS
      <3>2. ASSUME NEW f, NEW g, Recurs(f, i, base, step), Recurs(g, i + 1, base, step)
            PROVE  f[i] = g[i]
        BY <3>1, <3>2, RecursionAgrees
      <3> QED
        BY <2>2, <3>2
    <2>4. i \in 0..((i + 1) - 1)
      OBVIOUS
    <2>5. up[i + 1][i + 1] = step[<<i, up[i + 1][i]>>]
      BY <2>2, <2>4 DEF Recurs
    <2> QED
      BY <2>1, <2>3, <2>5
  <1> HIDE DEF all
  <1> QED
    BY <1>2, <1>3, <1>4 DEF Recursive

-----------------------------------------------------------------------------
(* Products of a bounded factor.                                           *)
LEMMA Scaled ==
  ASSUME NEW x \in Int, NEW e \in Int, -e <= x, x <= e, NEW m \in Nat
  PROVE  -(e * m) <= x * m /\ x * m <= e * m
  <1>1. (e - x) * m \in Nat /\ (e + x) * m \in Nat
    OBVIOUS
  <1>2. (e - x) * m = e * m - x * m /\ (e + x) * m = e * m + x * m
    OBVIOUS
  <1> QED
    BY <1>1, <1>2

LEMMA Cancelled ==
  ASSUME NEW d \in Nat \ {0}, NEW x \in Int, NEW e \in Int, d * x <= d * e
  PROVE  x <= e
  <1>1. SUFFICES ASSUME x > e PROVE FALSE
    OBVIOUS
  <1>2. x - e - 1 \in Nat /\ d * (x - e - 1) \in Nat
    BY <1>1
  <1>3. d * (x - e - 1) = d * x - d * e - d
    OBVIOUS
  <1>4. d * x \in Int /\ d * e \in Int
    OBVIOUS
  <1> QED
    BY <1>2, <1>3, <1>4

(* Factors on both sides of a bound.                                       *)
LEMMA Multiplied ==
  ASSUME NEW x \in Int, NEW y \in Int, x <= y, NEW c \in Nat
  PROVE  x * c <= y * c /\ c * x <= c * y
  <1>1. (y - x) * c >= 0 /\ (y - x) * c = y * c - x * c
    OBVIOUS
  <1>2. x * c \in Int /\ y * c \in Int /\ x * c = c * x /\ y * c = c * y
    OBVIOUS
  <1> QED
    BY <1>1, <1>2

LEMMA BothBound ==
  ASSUME NEW x \in Nat, NEW y \in Nat, NEW z \in Nat, NEW t \in Nat, x <= y, z <= t
  PROVE  x * z <= y * t
  <1>1. x * z <= y * z /\ y * z <= y * t
    BY Multiplied
  <1>2. x * z \in Int /\ y * z \in Int /\ y * t \in Int
    OBVIOUS
  <1> QED
    BY <1>1, <1>2

LEMMA DividedBy ==
  ASSUME NEW d \in Nat, NEW e \in Nat \ {0}
  PROVE  /\ d \div e \in Nat /\ (d \div e) * e <= d
         /\ d <= e => d \div e <= 1
         /\ d >= e => d \div e >= 1
  <1> DEFINE q == d \div e
             r == d % e
  <1>1. q \in Nat /\ r \in 0..(e - 1) /\ d = q * e + r
    OBVIOUS
  <1> HIDE DEF q, r
  <1>2. q * e \in Nat /\ q * e <= d
    BY <1>1
  <1>3. ASSUME d <= e PROVE q <= 1
    <2>1. q >= 2 => 2 * e <= q * e
      BY <1>1, Multiplied
    <2> QED
      BY <1>1, <1>2, <1>3, <2>1
  <1>4. ASSUME d >= e PROVE q >= 1
    <2>1. q = 0 => q * e = 0
      OBVIOUS
    <2> QED
      BY <1>1, <1>4, <2>1
  <1> QED
    BY <1>1, <1>2, <1>3, <1>4 DEF q

LEMMA OfTwo ==
  ASSUME NEW a \in Int, NEW b \in Int
  PROVE  /\ Max({a, b}) \in {a, b} /\ Max({a, b}) >= a /\ Max({a, b}) >= b
         /\ Min({a, b}) \in {a, b} /\ Min({a, b}) <= a /\ Min({a, b}) <= b
  <1>1. \E x \in {a, b} : \A y \in {a, b} : x >= y
    BY Z3
  <1>2. \E x \in {a, b} : \A y \in {a, b} : x <= y
    BY Z3
  <1>3. Max({a, b}) \in {a, b} /\ \A y \in {a, b} : Max({a, b}) >= y
    BY <1>1 DEF Max
  <1>4. Min({a, b}) \in {a, b} /\ \A y \in {a, b} : Min({a, b}) <= y
    BY <1>2 DEF Min
  <1> QED
    BY <1>3, <1>4

LEMMA OfThree ==
  ASSUME NEW a \in Int, NEW b \in Int, NEW c \in Int
  PROVE  Min({a, b, c}) \in {a, b, c} /\ Min({a, b, c}) <= a /\ Min({a, b, c}) <= b /\ Min({a, b, c}) <= c
  <1>1. \E x \in {a, b, c} : \A y \in {a, b, c} : x <= y
    BY Z3
  <1>2. Min({a, b, c}) \in {a, b, c} /\ \A y \in {a, b, c} : Min({a, b, c}) <= y
    BY <1>1 DEF Min
  <1> QED
    BY <1>2
=============================================================================
