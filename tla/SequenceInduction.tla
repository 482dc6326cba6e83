--------------------------- MODULE SequenceInduction ---------------------------
(****************************************************************************)
(* Induction over natural numbers, stated of sets instead of predicates so  *)
(* that first-order provers can use it, and what follows from it about the  *)
(* recursive functions over sequences the models use.                       *)
(****************************************************************************)
EXTENDS SequencesExt, FiniteSetTheorems, SequenceTheorems, WellFoundedInduction, TLAPS

-----------------------------------------------------------------------------
(* Induction.                                                               *)

LEMMA LeastNatural ==
  ASSUME NEW T \in SUBSET Nat, T # {}
  PROVE  \E m \in T : \A k \in T : m <= k
  <1> DEFINE R == StrictSubsetOrdering(Nat)
             U == {0..m : m \in T}
  <1>1. IsWellFoundedOn(R, FiniteSubsetsOf(Nat))
    BY FS_StrictSubsetOrderingWellFounded
  <1>2. U \subseteq FiniteSubsetsOf(Nat) /\ U # {}
    <2>1. \A m \in T : 0..m \in SUBSET Nat  OBVIOUS
    <2>2. \A m \in T : IsFiniteSet(0..m)
      <3>1. \A m \in T : 0 \in Int /\ m \in Int  OBVIOUS
      <3> QED  BY <3>1, FS_Interval
    <2> QED  BY <2>1, <2>2 DEF FiniteSubsetsOf
  <1>3. PICK x \in U : \A y \in U : ~ (<<y, x>> \in R)
    <2> HIDE DEF U, R
    <2> QED  BY <1>1, <1>2, WFMin
  <1>4. PICK m \in T : x = 0..m  OBVIOUS
  <1>5. ASSUME NEW k \in T, k < m PROVE FALSE
    <2>1. /\ 0..k \subseteq 0..m /\ 0..k # 0..m /\ 0..k \in U
          /\ 0..k \subseteq Nat /\ 0..m \subseteq Nat
      BY <1>5
    <2>2. <<0..k, 0..m>> \in R  BY <2>1 DEF StrictSubsetOrdering
    <2> QED  BY <1>3, <1>4, <2>1, <2>2
  <1> QED  BY <1>5

LEMMA Induction ==
  ASSUME NEW n \in Nat, NEW S, 0 \in S, \A i \in 0..(n - 1) : i \in S => i + 1 \in S
  PROVE  \A i \in 0..n : i \in S
  <1> SUFFICES ASSUME NEW j \in 0..n, j \notin S PROVE FALSE  OBVIOUS
  <1> DEFINE T == (0..n) \ S
  <1>1. PICK m \in T : \A k \in T : m <= k
    <2>1. T \in SUBSET Nat /\ T # {}  OBVIOUS
    <2> QED  BY <2>1, LeastNatural
  <1>2. m # 0 /\ m - 1 \in 0..(n - 1)  OBVIOUS
  <1>3. m - 1 \in S  BY <1>1, <1>2
  <1> QED  BY <1>2, <1>3

(* A function that is defined at 0 and from each number to the next.        *)
Folded(f, n, a, step) == f[0] = a /\ \A i \in 1..n : f[i] = step[i][f[i - 1]]

LEMMA Recursion ==
  ASSUME NEW V, NEW n \in Nat, NEW a \in V, NEW step \in [1..n -> [V -> V]]
  PROVE  \E f \in [0..n -> V] : Folded(f, n, a, step)
  <1> DEFINE S == {k \in 0..n : \E f \in [0..k -> V] : Folded(f, k, a, step)}
  <1>1. 0 \in S
    <2> DEFINE f == [i \in 0..0 |-> a]
    <2>1. f \in [0..0 -> V] /\ Folded(f, 0, a, step)  BY DEF Folded
    <2> QED  BY <2>1
  <1>2. ASSUME NEW k \in 0..(n - 1), k \in S PROVE k + 1 \in S
    <2>1. PICK f \in [0..k -> V] : Folded(f, k, a, step)  BY <1>2
    <2> DEFINE g == [i \in 0..(k + 1) |-> IF i <= k THEN f[i] ELSE step[k + 1][f[k]]]
    <2>2. f[k] \in V /\ k + 1 \in 1..n  OBVIOUS
    <2>3. step[k + 1][f[k]] \in V  BY <2>2
    <2>4. g \in [0..(k + 1) -> V]  BY <2>3
    <2>5. Folded(g, k + 1, a, step)
      <3>1. g[0] = a  BY <2>1 DEF Folded
      <3>2. ASSUME NEW i \in 1..(k + 1) PROVE g[i] = step[i][g[i - 1]]
        <4>1. g[i - 1] = f[i - 1]  BY <3>2
        <4>2. CASE i <= k  BY <2>1, <4>1, <4>2 DEF Folded
        <4>3. CASE i = k + 1  BY <4>1, <4>3
        <4> QED  BY <4>2, <4>3
      <3> QED  BY <3>1, <3>2 DEF Folded
    <2> QED  BY <2>4, <2>5
  <1>3. \A i \in 0..n : i \in S
    <2> HIDE DEF S
    <2> QED  BY <1>1, <1>2, Induction
  <1>4. n \in 0..n  OBVIOUS
  <1> QED  BY <1>3, <1>4

LEMMA RecursionUnique ==
  ASSUME NEW n \in Nat, NEW a, NEW step, NEW f, NEW g,
         Folded(f, n, a, step), Folded(g, n, a, step)
  PROVE  \A i \in 0..n : f[i] = g[i]
  <1> DEFINE S == {i \in 0..n : f[i] = g[i]}
  <1>1. 0 \in S  BY DEF Folded
  <1>2. \A i \in 0..(n - 1) : i \in S => i + 1 \in S  BY DEF Folded
  <1>3. \A i \in 0..n : i \in S
    <2> HIDE DEF S
    <2> QED  BY <1>1, <1>2, Induction
  <1> QED  BY <1>3

-----------------------------------------------------------------------------
(* FlattenSeq, from the front as well as from the back.                     *)

Joins(f, ss) == f[0] = <<>> /\ \A i \in 1..Len(ss) : f[i] = f[i - 1] \o ss[i]

LEMMA JoinsExists ==
  ASSUME NEW E, NEW ss \in Seq(Seq(E))
  PROVE  \E f \in [0..Len(ss) -> Seq(E)] : Joins(f, ss)
  <1> DEFINE V    == Seq(E)
             n    == Len(ss)
             step == [i \in 1..n |-> [v \in V |-> v \o ss[i]]]
  <1>1. n \in Nat /\ \A i \in 1..n : ss[i] \in V  BY LenProperties, ElementOfSeq
  <1>2. <<>> \in V  OBVIOUS
  <1>3. step \in [1..n -> [V -> V]]
    <2>1. \A i \in 1..n, v \in V : v \o ss[i] \in V
      BY <1>1, ConcatProperties
    <2> HIDE DEF V, n
    <2> QED  BY <2>1
  <1>4. PICK f \in [0..n -> V] : Folded(f, n, <<>>, step)
    <2> HIDE DEF V, n, step
    <2> QED  BY <1>1, <1>2, <1>3, Recursion
  <1>5. \A i \in 1..n : f[i] = f[i - 1] \o ss[i]
    <2> SUFFICES ASSUME NEW i \in 1..n PROVE f[i] = f[i - 1] \o ss[i]  OBVIOUS
    <2>1. f[i] = step[i][f[i - 1]]  BY <1>4 DEF Folded
    <2>2. f[i - 1] \in V
      <3>1. i - 1 \in 0..n  BY <1>1
      <3> HIDE DEF V, n
      <3> QED  BY <3>1
    <2> HIDE DEF V, n
    <2> QED  BY <2>1, <2>2
  <1>6. f[0] = <<>>  BY <1>4 DEF Folded
  <1> QED  BY <1>5, <1>6 DEF Joins

LEMMA FlattenIs ==
  ASSUME NEW E, NEW ss \in Seq(Seq(E)), NEW f \in [0..Len(ss) -> Seq(E)], Joins(f, ss)
  PROVE  FlattenSeq(ss) = f[Len(ss)] /\ FlattenSeq(ss) \in Seq(E)
  <1> DEFINE n       == Len(ss)
             eq(g)   == g = [i \in 1..n |-> IF i = 1 THEN ss[i] ELSE g[i - 1] \o ss[i]]
             flatten == CHOOSE g : eq(g)
             h       == [i \in 1..n |-> f[i]]
  <1>1. n \in Nat  BY LenProperties
  <1>2. CASE n = 0
    <2>1. ss = <<>>  BY <1>2, EmptySeq, LenProperties
    <2> QED  BY <1>2, <2>1 DEF Joins, FlattenSeq
  <1>3. CASE n # 0
    <2>1. FlattenSeq(ss) = flatten[n]  BY <1>3 DEF FlattenSeq
    <2>2. f[1] = ss[1]
      <3>1. 1 \in 1..n /\ ss[1] \in Seq(E)  BY <1>1, <1>3, ElementOfSeq
      <3>2. \A i \in 1..n : f[i] = f[i - 1] \o ss[i]  BY DEF Joins
      <3>3. f[1] = f[1 - 1] \o ss[1]  BY <3>1, <3>2
      <3>4. f[1] = f[0] \o ss[1]
        <4>1. 1 - 1 = 0  OBVIOUS
        <4> QED  BY ONLY <3>3, <4>1
      <3> QED  BY <3>1, <3>4, ConcatEmptySeq DEF Joins
    <2>3. eq(h)
      <3> DEFINE e(i) == IF i = 1 THEN ss[i] ELSE h[i - 1] \o ss[i]
      <3>1. \A i \in 1..n : h[i] = e(i)
        <4> SUFFICES ASSUME NEW i \in 1..n PROVE h[i] = e(i)  OBVIOUS
        <4>1. CASE i = 1  BY <2>2, <4>1
        <4>2. CASE i # 1
          <5>1. i - 1 \in 1..n  BY <1>1, <4>2
          <5>2. h[i - 1] = f[i - 1] /\ h[i] = f[i]  BY <5>1
          <5> QED  BY <4>2, <5>2 DEF Joins
        <4> QED  BY <4>1, <4>2
      <3>2. h = [i \in 1..n |-> h[i]]  OBVIOUS
      <3> HIDE DEF h, n
      <3> QED  BY <3>1, <3>2
    <2>4. eq(flatten)
      <3> HIDE DEF eq, h
      <3> QED  BY <2>3
    <2> DEFINE S == {i \in 0..n : i = 0 \/ flatten[i] = f[i]}
    <2>5. \A i \in 1..n : flatten[i] = IF i = 1 THEN ss[i] ELSE flatten[i - 1] \o ss[i]
      <3> HIDE DEF flatten, n
      <3> QED  BY <2>4
    <2>6. 0 \in S  BY <1>1
    <2>7. ASSUME NEW i \in 0..(n - 1), i \in S PROVE i + 1 \in S
      <3>1. i + 1 \in 1..n /\ i + 1 \in 0..n /\ (i + 1) - 1 = i  BY <1>1
      <3> HIDE DEF flatten
      <3>2. CASE i = 0  BY <2>2, <2>5, <3>1, <3>2
      <3>3. CASE i # 0
        <4>1. flatten[i + 1] = flatten[i] \o ss[i + 1]
          <5>1. flatten[i + 1] = IF i + 1 = 1 THEN ss[i + 1]
                                 ELSE flatten[(i + 1) - 1] \o ss[i + 1]
            BY <2>5, <3>1
          <5>2. i + 1 # 1  BY <3>3
          <5> QED  BY ONLY <5>1, <5>2, <3>1
        <4>2. f[i + 1] = f[i] \o ss[i + 1]  BY <3>1 DEF Joins
        <4> QED  BY <2>7, <3>1, <3>3, <4>1, <4>2
      <3> QED  BY <3>2, <3>3
    <2>8. \A i \in 0..n : i \in S
      <3> HIDE DEF S, flatten, n
      <3> QED  BY <1>1, <2>6, <2>7, Induction
    <2>9. flatten[n] = f[n]
      <3>1. n \in 0..n  BY <1>1
      <3> HIDE DEF flatten
      <3> QED  BY <1>3, <2>8, <3>1
    <2>10. f[n] \in Seq(E)
      <3>1. n \in 0..n  BY <1>1
      <3> QED  BY <3>1
    <2> HIDE DEF flatten
    <2> QED  BY <2>1, <2>9, <2>10
  <1> QED  BY <1>2, <1>3

LEMMA FlattenAppend ==
  ASSUME NEW E, NEW ss \in Seq(Seq(E)), NEW t \in Seq(E)
  PROVE  /\ FlattenSeq(ss) \in Seq(E)
         /\ FlattenSeq(Append(ss, t)) = FlattenSeq(ss) \o t
         /\ FlattenSeq(<<>>) = <<>>
  <1> DEFINE n  == Len(ss)
             st == Append(ss, t)
  <1>1. PICK f \in [0..n -> Seq(E)] : Joins(f, ss)  BY JoinsExists
  <1>2. FlattenSeq(ss) = f[n] /\ FlattenSeq(ss) \in Seq(E)  BY <1>1, FlattenIs
  <1> DEFINE g == [i \in 0..(n + 1) |-> IF i <= n THEN f[i] ELSE f[n] \o t]
  <1>3. n \in Nat  BY LenProperties
  <1>4. /\ st \in Seq(Seq(E)) /\ Len(st) = n + 1 /\ st[n + 1] = t
        /\ \A i \in 1..n : st[i] = ss[i]
    BY AppendProperties
  <1>5. f[n] \o t \in Seq(E)  BY <1>2, ConcatProperties
  <1> HIDE DEF st, n
  <1>6. g \in [0..Len(st) -> Seq(E)]  BY <1>3, <1>4, <1>5
  <1>7. Joins(g, st)
    <2>1. g[0] = <<>>  BY <1>1, <1>3 DEF Joins
    <2>2. ASSUME NEW i \in 1..(n + 1) PROVE g[i] = g[i - 1] \o st[i]
      <3>1. g[i - 1] = f[i - 1]  BY <1>3
      <3>2. CASE i <= n
        <4>1. i \in 1..n /\ i \in 1..Len(ss)  BY <1>3, <3>2 DEF n
        <4>2. f[i] = f[i - 1] \o ss[i]  BY <1>1, <4>1 DEF Joins
        <4>3. g[i] = f[i] /\ st[i] = ss[i]  BY <1>4, <3>2, <4>1
        <4> HIDE DEF g
        <4> QED  BY <3>1, <4>2, <4>3
      <3>3. CASE i = n + 1
        <4>1. g[i] = f[n] \o t /\ st[i] = t /\ i - 1 = n  BY <1>3, <1>4, <3>3
        <4> HIDE DEF g
        <4> QED  BY <3>1, <4>1
      <3>4. i <= n \/ i = n + 1  BY <1>3
      <3> QED  BY ONLY <3>2, <3>3, <3>4
    <2> HIDE DEF g
    <2> QED  BY <1>4, <2>1, <2>2 DEF Joins
  <1>8. FlattenSeq(st) = g[n + 1]  BY <1>4, <1>6, <1>7, FlattenIs
  <1>9. g[n + 1] = f[n] \o t  BY <1>3
  <1>10. FlattenSeq(<<>>) = <<>>  BY DEF FlattenSeq
  <1> QED  BY <1>2, <1>8, <1>9, <1>10 DEF st

LEMMA Associative ==
  ASSUME NEW E
  PROVE  \A a, b, c \in Seq(E) : (a \o b) \o c = a \o (b \o c)
  BY ConcatAssociative, SMTT(30)

LEMMA NaturalsAssociate ==
  ASSUME NEW s \in Seq(Nat), NEW t \in Seq(Nat), NEW u \in Seq(Nat)
  PROVE  (s \o t) \o u = s \o (t \o u)
  BY ConcatAssociative, SMTT(30)

LEMMA FlattenCons ==
  ASSUME NEW E, NEW ss \in Seq(Seq(E)), ss # <<>>
  PROVE  FlattenSeq(ss) = Head(ss) \o FlattenSeq(Tail(ss))
  <1>0. PICK h : h = Head(ss)  OBVIOUS
  <1> DEFINE t == Tail(ss)
             n == Len(t)
  <1>1. /\ h \in Seq(E) /\ t \in Seq(Seq(E)) /\ n = Len(ss) - 1 /\ h = ss[1]
        /\ \A i \in 1..n : t[i] = ss[i + 1]
    BY <1>0, HeadTailProperties
  <1>2. n \in Nat  BY <1>1, LenProperties
  <1>3. PICK f \in [0..n -> Seq(E)] : Joins(f, t)  BY <1>1, JoinsExists
  <1>4. FlattenSeq(t) = f[n]  BY <1>1, <1>3, FlattenIs
  <1>5. Len(ss) = n + 1
    <2>1. Len(ss) \in Nat  BY LenProperties
    <2> QED  BY <1>1, <2>1
  <1>6. \A i \in 1..n : t[i] \in Seq(E)  BY <1>1, ElementOfSeq
  <1>7. \A i \in 1..n : f[i] = f[i - 1] \o t[i]  BY <1>3 DEF Joins
  <1>8. f[0] = <<>>  BY <1>3 DEF Joins
  <1> HIDE DEF t, n
  <1>13. \A x, y \in Seq(E) : (h \o x) \o y = h \o (x \o y)
    <2>1. h \in Seq(E)  BY <1>1
    <2> QED  BY ONLY <2>1, Associative, SMTT(30)
  <1> DEFINE g == [i \in 0..(n + 1) |-> IF i = 0 THEN <<>> ELSE h \o f[i - 1]]
  <1>9. g \in [0..Len(ss) -> Seq(E)]
    <2>1. \A i \in 0..n : h \o f[i] \in Seq(E)  BY <1>1, ConcatProperties
    <2>2. ASSUME NEW i \in 0..(n + 1), i # 0 PROVE h \o f[i - 1] \in Seq(E)
      <3>1. i - 1 \in 0..n  BY <1>2, <2>2
      <3> QED  BY <2>1, <3>1
    <2>3. <<>> \in Seq(E)  OBVIOUS
    <2> QED  BY <1>5, <2>2, <2>3
  <1>10. Joins(g, ss)
    <2>1. g[0] = <<>>  BY <1>2
    <2>2. ASSUME NEW i \in 1..(n + 1) PROVE g[i] = g[i - 1] \o ss[i]
      <3>1. g[i] = h \o f[i - 1]  BY <1>2
      <3>2. CASE i = 1
        <4>1. g[i - 1] = <<>> /\ f[i - 1] = <<>>  BY <1>2, <1>8, <3>2
        <4>2. h \o f[i - 1] = h /\ <<>> \o ss[i] = ss[i] /\ h = ss[i]
          BY <1>1, <3>2, <4>1, ConcatEmptySeq
        <4> HIDE DEF g
        <4> QED  BY <3>1, <4>1, <4>2
      <3>3. CASE i # 1
        <4>1. i - 1 \in 1..n /\ i - 2 \in 0..n /\ (i - 1) - 1 = i - 2 /\ (i - 1) + 1 = i
          BY <1>2, <3>3
        <4>2. g[i - 1] = h \o f[i - 2]
          <5>1. i - 1 \in 0..(n + 1) /\ i - 1 # 0  BY <1>2, <4>1
          <5>2. g[i - 1] = h \o f[(i - 1) - 1]  BY <5>1
          <5> QED  BY ONLY <4>1, <5>2
        <4>3. f[i - 1] = f[i - 2] \o ss[i]
          BY <1>1, <1>7, <4>1
        <4>4. f[i - 2] \in Seq(E) /\ ss[i] \in Seq(E)  BY <1>1, <1>6, <4>1
        <4>5. (h \o f[i - 2]) \o ss[i] = h \o (f[i - 2] \o ss[i])
          BY <1>13, <4>4
        <4> HIDE DEF g
        <4> QED  BY <3>1, <4>2, <4>3, <4>5
      <3> QED  BY <3>2, <3>3
    <2> HIDE DEF g
    <2> QED  BY <1>5, <2>1, <2>2 DEF Joins
  <1>11. FlattenSeq(ss) = g[n + 1]  BY <1>5, <1>9, <1>10, FlattenIs
  <1>12. g[n + 1] = h \o f[n]  BY <1>2
  <1> QED  BY <1>0, <1>4, <1>11, <1>12 DEF t, n

-----------------------------------------------------------------------------
(* Induction over sequences, and a sequence that is put together from what  *)
(* a function gives for each element of another.                            *)

LEMMA SequenceInduct ==
  ASSUME NEW D, NEW S, <<>> \in S,
         \A s \in Seq(D), d \in D : s \in S => Append(s, d) \in S
  PROVE  Seq(D) \subseteq S
  <1> SUFFICES ASSUME NEW t \in Seq(D) PROVE t \in S  OBVIOUS
  <1> DEFINE n == Len(t)
             P == {k \in 0..n : SubSeq(t, 1, k) \in S}
  <1>1. n \in Nat  BY LenProperties
  <1>2. 0 \in P
    <2>1. SubSeq(t, 1, 0) = <<>>  BY SubSeqEmpty
    <2>2. 0 \in 0..n  BY <1>1
    <2>3. SubSeq(t, 1, 0) \in S  BY <2>1
    <2> HIDE DEF n
    <2> QED  BY <2>2, <2>3
  <1>3. ASSUME NEW k \in 0..(n - 1), k \in P PROVE k + 1 \in P
    <2> DEFINE s == SubSeq(t, 1, k)
               r == SubSeq(t, 1, k + 1)
               d == t[k + 1]
    <2>1. /\ k + 1 \in 1..n /\ k \in Nat /\ k + 1 \in 0..n
          /\ \A i \in 1..(k + 1) : i \in 1..n
      BY <1>1
    <2>2. \A i \in 1..n : t[i] \in D  BY ElementOfSeq
    <2>3. s \in Seq(D) /\ Len(s) = k /\ \A i \in 1..k : s[i] = t[i]
      BY <2>1, <2>2, SubSeqProperties
    <2>4. r \in Seq(D) /\ Len(r) = k + 1 /\ \A i \in 1..(k + 1) : r[i] = t[i]
      BY <2>1, <2>2, SubSeqProperties
    <2>5. d \in D  BY <2>1, <2>2
    <2>6. s \in S  BY <1>3
    <2> HIDE DEF s, r, d, n
    <2>7. Append(s, d) = r
      <3> DEFINE a == Append(s, d)
      <3>1. /\ a \in Seq(D) /\ Len(a) = k + 1 /\ a[k + 1] = d
            /\ \A i \in 1..k : a[i] = s[i]
        BY <2>3, <2>5, AppendProperties
      <3> HIDE DEF a
      <3>2. \A i \in 1..(k + 1) : a[i] = r[i]
        BY <2>1, <2>3, <2>4, <3>1 DEF d
      <3>3. a = r  BY <2>4, <3>1, <3>2, SeqEqual
      <3> QED  BY <3>3 DEF a
    <2>8. r \in S  BY <2>3, <2>5, <2>6, <2>7
    <2> QED  BY <2>1, <2>8 DEF r
  <1>4. \A k \in 0..n : k \in P
    <2> HIDE DEF P, n
    <2> QED  BY <1>1, <1>2, <1>3, Induction
  <1>5. n \in P  BY <1>1, <1>4
  <1>6. SubSeq(t, 1, n) = t  BY SubSeqFull
  <1> QED  BY <1>5, <1>6

Mapped(F, s) == [i \in DOMAIN s |-> F[s[i]]]

LEMMA MappedType ==
  ASSUME NEW D, NEW V, NEW F \in [D -> V], NEW s \in Seq(D)
  PROVE  Mapped(F, s) \in Seq(V)
  <1> DEFINE n == Len(s)
             m == Mapped(F, s)
  <1>1. n \in Nat /\ DOMAIN s = 1..n /\ \A i \in 1..n : s[i] \in D
    BY LenProperties, ElementOfSeq
  <1>2. m = [i \in 1..n |-> F[s[i]]]  BY <1>1 DEF Mapped
  <1>3. \A i \in 1..n : F[s[i]] \in V  BY <1>1
  <1> HIDE DEF m, n
  <1>4. m \in Seq(V)  BY <1>1, <1>2, <1>3
  <1> QED  BY <1>4 DEF m

LEMMA MappedLen ==
  ASSUME NEW D, NEW V, NEW F \in [D -> V], NEW s \in Seq(D)
  PROVE  Len(Mapped(F, s)) = Len(s)
  <1> DEFINE n == Len(s)
             m == Mapped(F, s)
  <1>1. n \in Nat /\ DOMAIN s = 1..n  BY LenProperties
  <1>2. m = [i \in 1..n |-> F[s[i]]]  BY <1>1 DEF Mapped
  <1> HIDE DEF m, n
  <1>3. Len(m) = n  BY <1>1, <1>2
  <1> QED  BY <1>3 DEF m, n

LEMMA MappedAppend ==
  ASSUME NEW D, NEW V, NEW F \in [D -> V], NEW s \in Seq(D), NEW d \in D
  PROVE  Mapped(F, Append(s, d)) = Append(Mapped(F, s), F[d])
  <1> DEFINE n == Len(s)
             t == Append(s, d)
             a == Mapped(F, t)
             m == Mapped(F, s)
             b == Append(m, F[d])
  <1>1. /\ n \in Nat /\ t \in Seq(D) /\ Len(t) = n + 1 /\ t[n + 1] = d
        /\ \A i \in 1..n : t[i] = s[i]
    BY LenProperties, AppendProperties
  <1>2. a \in Seq(V) /\ Len(a) = n + 1 /\ \A i \in 1..(n + 1) : a[i] = F[t[i]]
    <2>1. Mapped(F, t) \in Seq(V)  BY <1>1, MappedType
    <2>2. Len(Mapped(F, t)) = Len(t)  BY <1>1, MappedLen
    <2>3. DOMAIN t = 1..Len(t)  BY <1>1, LenProperties
    <2>4. \A i \in 1..Len(t) : Mapped(F, t)[i] = F[t[i]]  BY <2>3 DEF Mapped
    <2> HIDE DEF n, t
    <2> QED  BY <1>1, <2>1, <2>2, <2>4
  <1>3. m \in Seq(V) /\ Len(m) = n /\ \A i \in 1..n : m[i] = F[s[i]]
    <2>1. DOMAIN s = 1..n  BY LenProperties
    <2>2. \A i \in 1..n : m[i] = F[s[i]]  BY <2>1 DEF Mapped
    <2> HIDE DEF m, n
    <2>3. m \in Seq(V)  BY MappedType DEF m
    <2>4. Len(m) = n  BY MappedLen DEF m, n
    <2> QED  BY <2>2, <2>3, <2>4
  <1>4. F[d] \in V  OBVIOUS
  <1>5. /\ b \in Seq(V) /\ Len(b) = n + 1 /\ b[n + 1] = F[d]
        /\ \A i \in 1..n : b[i] = m[i]
    <2> HIDE DEF m, n
    <2> QED  BY <1>3, <1>4, AppendProperties
  <1> HIDE DEF t, a, m, b, n
  <1>6. \A i \in 1..(n + 1) : a[i] = b[i]
    <2> SUFFICES ASSUME NEW i \in 1..(n + 1) PROVE a[i] = b[i]  OBVIOUS
    <2>1. CASE i = n + 1  BY <1>1, <1>2, <1>5, <2>1
    <2>2. CASE i \in 1..n  BY <1>1, <1>2, <1>3, <1>5, <2>2
    <2> QED  BY <1>1, <2>1, <2>2
  <1>7. a = b  BY <1>2, <1>5, <1>6, SeqEqual
  <1> QED  BY <1>7 DEF a, b, m, t

LEMMA MappedTail ==
  ASSUME NEW D, NEW V, NEW F \in [D -> V], NEW s \in Seq(D), s # <<>>
  PROVE  Tail(Mapped(F, s)) = Mapped(F, Tail(s))
  <1> DEFINE n == Len(s)
             t == Tail(s)
             m == Mapped(F, s)
             a == Tail(m)
             b == Mapped(F, t)
  <1>1. n \in Nat /\ n > 0 /\ Head(s) = s[1] /\ t \in Seq(D) /\ Len(t) = n - 1
    BY EmptySeq, LenProperties, HeadTailProperties
  <1>2. \A i \in 1..(n - 1) : t[i] = s[i + 1]
    BY <1>1, HeadTailProperties
  <1>3. m \in Seq(V) /\ Len(m) = n /\ \A i \in 1..n : m[i] = F[s[i]]
    <2>1. DOMAIN s = 1..n  BY LenProperties
    <2>2. \A i \in 1..n : m[i] = F[s[i]]  BY <2>1 DEF Mapped
    <2> HIDE DEF m, n
    <2>3. m \in Seq(V)  BY MappedType DEF m
    <2>4. Len(m) = n  BY MappedLen DEF m, n
    <2> QED  BY <2>2, <2>3, <2>4
  <1>4. b \in Seq(V) /\ Len(b) = n - 1 /\ \A i \in 1..(n - 1) : b[i] = F[t[i]]
    <2>1. Mapped(F, t) \in Seq(V)  BY <1>1, MappedType
    <2>2. Len(Mapped(F, t)) = Len(t)  BY <1>1, MappedLen
    <2>3. DOMAIN t = 1..Len(t)  BY <1>1, LenProperties
    <2>4. \A i \in 1..Len(t) : Mapped(F, t)[i] = F[t[i]]  BY <2>3 DEF Mapped
    <2> HIDE DEF n, t
    <2> QED  BY <1>1, <2>1, <2>2, <2>4
  <1>5. m # <<>> /\ Head(m) = m[1]
    <2> HIDE DEF m, n
    <2>1. m # <<>>  BY <1>1, <1>3, EmptySeq
    <2> QED  BY <1>3, <2>1
  <1>6. a \in Seq(V) /\ Len(a) = n - 1 /\ \A i \in 1..(n - 1) : a[i] = m[i + 1]
    <2> HIDE DEF m, n
    <2> QED  BY <1>1, <1>3, <1>5, HeadTailProperties
  <1> HIDE DEF t, a, m, b, n
  <1>7. \A i \in 1..(n - 1) : a[i] = b[i]
    <2> SUFFICES ASSUME NEW i \in 1..(n - 1) PROVE a[i] = b[i]  OBVIOUS
    <2>1. i + 1 \in 1..n  BY <1>1
    <2>2. a[i] = m[i + 1] /\ b[i] = F[t[i]] /\ t[i] = s[i + 1]
      BY <1>2, <1>4, <1>6
    <2>3. m[i + 1] = F[s[i + 1]]  BY <1>3, <2>1
    <2> QED  BY ONLY <2>2, <2>3
  <1>8. a = b  BY <1>4, <1>6, <1>7, SeqEqual
  <1> QED  BY <1>8 DEF a, b, m, t

LEMMA MappedHead ==
  ASSUME NEW D, NEW V, NEW F \in [D -> V], NEW s \in Seq(D), s # <<>>
  PROVE  Mapped(F, s) # <<>> /\ Head(Mapped(F, s)) = F[Head(s)]
  <1> DEFINE n == Len(s)
             m == Mapped(F, s)
  <1>1. n \in Nat /\ n > 0 /\ Head(s) = s[1] /\ DOMAIN s = 1..n
    BY EmptySeq, LenProperties, HeadTailProperties
  <1>2. m[1] = F[s[1]]  BY <1>1 DEF Mapped
  <1>3. m \in Seq(V) /\ Len(m) = n
    <2>1. Mapped(F, s) \in Seq(V)  BY MappedType
    <2>2. Len(Mapped(F, s)) = Len(s)  BY MappedLen
    <2> QED  BY <2>1, <2>2
  <1> HIDE DEF m, n
  <1>4. m # <<>> /\ Head(m) = m[1]
    <2>1. m # <<>>  BY <1>1, <1>3, EmptySeq
    <2> QED  BY <1>3, <2>1
  <1> QED  BY <1>1, <1>2, <1>4 DEF m

LEMMA FlattenMapped ==
  ASSUME NEW D, NEW E, NEW F \in [D -> Seq(E)]
  PROVE  /\ FlattenSeq(Mapped(F, <<>>)) = <<>>
         /\ \A s \in Seq(D) : FlattenSeq(Mapped(F, s)) \in Seq(E)
         /\ \A s \in Seq(D), d \in D :
              FlattenSeq(Mapped(F, Append(s, d))) = FlattenSeq(Mapped(F, s)) \o F[d]
         /\ \A s \in Seq(D) : s # <<>> =>
              FlattenSeq(Mapped(F, s)) = F[Head(s)] \o FlattenSeq(Mapped(F, Tail(s)))
  <1>1. /\ Mapped(F, <<>>) = <<>>
        /\ \A s \in Seq(D) : Mapped(F, s) \in Seq(Seq(E))
        /\ \A s \in Seq(D), d \in D :
             Mapped(F, Append(s, d)) = Append(Mapped(F, s), F[d])
        /\ \A s \in Seq(D) : s # <<>> =>
             /\ Mapped(F, s) # <<>> /\ Head(Mapped(F, s)) = F[Head(s)]
             /\ Tail(Mapped(F, s)) = Mapped(F, Tail(s))
    <2> DEFINE V == Seq(E)
    <2>1. F \in [D -> V]  OBVIOUS
    <2> HIDE DEF V
    <2>2. Mapped(F, <<>>) = <<>>  BY DEF Mapped
    <2>3. \A s \in Seq(D) : Mapped(F, s) \in Seq(V)  BY <2>1, MappedType
    <2>4. \A s \in Seq(D), d \in D :
            Mapped(F, Append(s, d)) = Append(Mapped(F, s), F[d])
      BY <2>1, MappedAppend
    <2>5. ASSUME NEW s \in Seq(D), s # <<>>
          PROVE  /\ Mapped(F, s) # <<>> /\ Head(Mapped(F, s)) = F[Head(s)]
                 /\ Tail(Mapped(F, s)) = Mapped(F, Tail(s))
      <3>1. Mapped(F, s) # <<>> /\ Head(Mapped(F, s)) = F[Head(s)]
        BY ONLY <2>1, <2>5, MappedHead, ZenonT(30)
      <3>2. s \in Seq(D) /\ s # <<>>  BY <2>5
      <3>3. Tail(Mapped(F, s)) = Mapped(F, Tail(s))  BY ONLY <2>1, <3>2, MappedTail, ZenonT(30)
      <3> QED  BY <3>1, <3>3
    <2> QED  BY <2>2, <2>3, <2>4, <2>5 DEF V
  <1>2. FlattenSeq(Mapped(F, <<>>)) = <<>>
    BY <1>1 DEF FlattenSeq
  <1>3. ASSUME NEW s \in Seq(D) PROVE FlattenSeq(Mapped(F, s)) \in Seq(E)
    <2>1. Mapped(F, s) \in Seq(Seq(E)) /\ <<>> \in Seq(E)  BY <1>1
    <2> QED  BY ONLY <2>1, FlattenAppend, SMTT(30)
  <1>4. ASSUME NEW s \in Seq(D), NEW d \in D
        PROVE  FlattenSeq(Mapped(F, Append(s, d))) = FlattenSeq(Mapped(F, s)) \o F[d]
    <2>1. Mapped(F, s) \in Seq(Seq(E)) /\ F[d] \in Seq(E)  BY <1>1
    <2>2. FlattenSeq(Append(Mapped(F, s), F[d])) = FlattenSeq(Mapped(F, s)) \o F[d]
      BY <2>1, FlattenAppend
    <2> QED  BY <1>1, <2>2
  <1>5. ASSUME NEW s \in Seq(D), s # <<>>
        PROVE  FlattenSeq(Mapped(F, s)) = F[Head(s)] \o FlattenSeq(Mapped(F, Tail(s)))
    <2>1. Mapped(F, s) \in Seq(Seq(E)) /\ Mapped(F, s) # <<>>  BY <1>1, <1>5
    <2>2. FlattenSeq(Mapped(F, s))
            = Head(Mapped(F, s)) \o FlattenSeq(Tail(Mapped(F, s)))
      BY <2>1, FlattenCons
    <2> QED  BY <1>1, <1>5, <2>2
  <1> QED  BY <1>2, <1>3, <1>4, <1>5
=============================================================================
