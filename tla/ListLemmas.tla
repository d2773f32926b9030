----------------------------- MODULE ListLemmas -----------------------------
(***************************************************************************)
(* Induction over the naturals in a form with a set in the place of a      *)
(* predicate, and what it shows of lists that a for loop builds.           *)
(***************************************************************************)
EXTENDS SequencesExt, SequenceTheorems, FiniteSetTheorems, WellFoundedInduction, TLAPS

\* A set of naturals that is not empty has a smallest element.
LEMMA SmallestOf ==
    ASSUME NEW T \in SUBSET Nat, T # {}
    PROVE  \E n \in T : \A m \in T : n <= m
<1> DEFINE R == OpToRel(<, Nat)
<1>1. IsWellFoundedOn(R, Nat)
    BY NatLessThanWellFounded, Zenon
<1>2. \A x, y \in Nat : <<x, y>> \in R <=> x < y
    BY DEF OpToRel
<1> HIDE DEF R
<1>3. PICK n \in T : \A m \in T : ~(<<m, n>> \in R)
    BY <1>1, WFMin
<1>4. ASSUME NEW m \in T
      PROVE  n <= m
    <2>1. ~(<<m, n>> \in R)
        BY <1>3
    <2>2. ~(m < n)
        BY <1>2, <2>1
    <2> QED BY <2>2
<1> QED BY <1>4

\* A set with 0 and the successor of each of its elements has all naturals.
LEMMA SetInduction ==
    ASSUME NEW T, 0 \in T, \A n \in Nat : n \in T => n + 1 \in T
    PROVE  Nat \subseteq T
<1> SUFFICES ASSUME Nat \ T # {} PROVE FALSE
    OBVIOUS
<1>1. PICK n \in Nat \ T : \A m \in Nat \ T : n <= m
    BY SmallestOf
<1>2. n # 0 /\ n - 1 \in Nat
    BY <1>1
<1>3. n - 1 \in T
    BY <1>1, <1>2
<1> QED BY <1>1, <1>2, <1>3

-----------------------------------------------------------------------------
(* A list without some elements.                                           *)

\* What a loop over s has built after each round, when it appends the elements that
\* are not in gone.
IsKept(f, s, gone) ==
    f = [n \in 0 .. Len(s) |-> IF n = 0 THEN <<>>
                               ELSE IF s[n] \in gone THEN f[n - 1]
                               ELSE Append(f[n - 1], s[n])]

\* There is such a function, so that the recursive definition defines one.
LEMMA KeptExists ==
    ASSUME NEW S, NEW s \in Seq(S), NEW gone
    PROVE  \E f : IsKept(f, s, gone)
<1> DEFINE Step(f, n) == IF n = 0 THEN <<>>
                         ELSE IF s[n] \in gone THEN f[n - 1]
                         ELSE Append(f[n - 1], s[n])
           T == {m \in Nat : \E f : f = [n \in 0 .. m |-> Step(f, n)]}
<1>1. 0 \in T
    <2> DEFINE f == [n \in 0 .. 0 |-> <<>>]
    <2>1. f = [n \in 0 .. 0 |-> Step(f, n)]
        OBVIOUS
    <2> HIDE DEF f
    <2> QED BY <2>1
<1>2. ASSUME NEW m \in Nat, m \in T
      PROVE  m + 1 \in T
    <2>1. PICK f : f = [n \in 0 .. m |-> Step(f, n)]
        BY <1>2
    <2> DEFINE g == [n \in 0 .. m + 1 |-> IF n <= m THEN f[n] ELSE Step(f, n)]
    <2>2. ASSUME NEW n \in 0 .. m + 1
          PROVE  g[n] = Step(g, n)
        <3>1. CASE n = 0
            BY <2>1, <3>1
        <3>2. CASE n # 0
            <4>1. n - 1 \in 0 .. m /\ g[n - 1] = f[n - 1]
                BY <3>2
            <4>2. Step(g, n) = Step(f, n)
                BY <4>1
            <4>3. CASE n <= m
                <5>1. f[n] = Step(f, n)
                    <6> HIDE DEF Step
                    <6> QED BY <2>1, <4>3
                <5> QED BY <4>2, <4>3, <5>1
            <4>4. CASE n = m + 1
                BY <4>2, <4>4
            <4> QED BY <4>3, <4>4
        <3> QED BY <3>1, <3>2
    <2>3. g = [n \in 0 .. m + 1 |-> Step(g, n)]
        <3> HIDE DEF Step
        <3>1. g = [n \in 0 .. m + 1 |-> g[n]]
            OBVIOUS
        <3> HIDE DEF g
        <3> QED BY <2>2, <3>1
    <2> HIDE DEF g, Step
    <2> QED BY <2>3
<1> HIDE DEF T
<1>3. Len(s) \in T
    BY <1>1, <1>2, SetInduction
<1> QED BY <1>3 DEF T, IsKept

\* An appended element is added to those of a list.
LEMMA AppendElements ==
    ASSUME NEW S, NEW t \in Seq(S), NEW x \in S
    PROVE  /\ Append(t, x) \in Seq(S)
           /\ ToSet(Append(t, x)) = ToSet(t) \cup {x}
           /\ IsInjective(t) /\ x \notin ToSet(t) => IsInjective(Append(t, x))
<1> DEFINE n == Len(t)
           a == Append(t, x)
<1>1. n \in Nat /\ DOMAIN t = 1 .. n
    OBVIOUS
<1>2. /\ a \in Seq(S) /\ DOMAIN a = 1 .. n + 1
      /\ \A i \in 1 .. n : a[i] = t[i]
      /\ a[n + 1] = x
    BY AppendProperties
<1> HIDE DEF n, a
<1>3. \A i \in 1 .. n + 1 : i \in 1 .. n \/ i = n + 1
    BY <1>1
<1>4. n + 1 \in 1 .. n + 1 /\ \A i \in 1 .. n : i \in 1 .. n + 1
    BY <1>1
<1>5. ToSet(a) = ToSet(t) \cup {x}
    BY <1>1, <1>2, <1>3, <1>4 DEF ToSet
<1>6. ASSUME IsInjective(t), x \notin ToSet(t)
      PROVE  IsInjective(a)
    <2>1. \A i \in 1 .. n : a[i] # x
        BY <1>1, <1>2, <1>6 DEF ToSet
    <2>2. ASSUME NEW i \in 1 .. n + 1, NEW j \in 1 .. n + 1, a[i] = a[j]
          PROVE  i = j
        BY <1>1, <1>2, <1>3, <1>6, <2>1, <2>2 DEF IsInjective
    <2> QED BY <1>2, <2>2 DEF IsInjective
<1> QED BY <1>2, <1>5, <1>6 DEF a

\* It has the elements of s that are not in gone, and each of them only once when
\* s has.
LEMMA KeptProperties ==
    ASSUME NEW S, NEW s \in Seq(S), NEW gone, NEW f, IsKept(f, s, gone)
    PROVE  /\ f[Len(s)] \in Seq(S)
           /\ ToSet(f[Len(s)]) = ToSet(s) \ gone
           /\ IsInjective(s) => IsInjective(f[Len(s)])
<1> DEFINE Upto(m) == {s[i] : i \in 1 .. m}
           Good(m) == /\ f[m] \in Seq(S)
                      /\ ToSet(f[m]) = Upto(m) \ gone
                      /\ IsInjective(s) => IsInjective(f[m])
           T == {m \in Nat : m <= Len(s) => Good(m)}
<1>1. /\ Len(s) \in Nat /\ DOMAIN s = 1 .. Len(s)
      /\ \A i \in 1 .. Len(s) : s[i] \in S
    OBVIOUS
<1>2. f[0] = <<>>
    BY <1>1 DEF IsKept
<1>3. ASSUME NEW m \in Nat, m + 1 <= Len(s)
      PROVE  f[m + 1] = IF s[m + 1] \in gone THEN f[m] ELSE Append(f[m], s[m + 1])
    <2>1. m + 1 \in 0 .. Len(s) /\ m + 1 # 0 /\ (m + 1) - 1 = m
        BY <1>1, <1>3
    <2> QED BY <2>1 DEF IsKept
<1>4. Good(0)
    <2>1. Upto(0) = {}
        OBVIOUS
    <2>2. <<>> \in Seq(S) /\ ToSet(<<>>) = {} /\ IsInjective(<<>>)
        BY DEF ToSet, IsInjective
    <2> QED BY <1>2, <2>1, <2>2
<1>5. ASSUME NEW m \in Nat, m + 1 <= Len(s), Good(m)
      PROVE  Good(m + 1)
    <2> DEFINE x == s[m + 1]
               t == f[m]
    <2>1. m + 1 \in 1 .. Len(s) /\ x \in S
        BY <1>1, <1>5
    <2>2. Upto(m + 1) = Upto(m) \cup {x}
        <3>1. \A i \in 1 .. m + 1 : i \in 1 .. m \/ i = m + 1
            OBVIOUS
        <3> QED BY <3>1
    <2>3. ASSUME IsInjective(s)
          PROVE  x \notin Upto(m)
        <3>1. \A i \in 1 .. m : i \in DOMAIN s /\ m + 1 \in DOMAIN s /\ i # m + 1
            BY <1>1, <1>5
        <3> QED BY <2>3, <3>1 DEF IsInjective
    <2>4. t \in Seq(S) /\ ToSet(t) = Upto(m) \ gone /\ (IsInjective(s) => IsInjective(t))
        BY <1>5
    <2>5. f[m + 1] = IF x \in gone THEN t ELSE Append(t, x)
        BY <1>3, <1>5
    <2> HIDE DEF Upto, t, x
    <2>6. CASE x \in gone
        BY <2>2, <2>4, <2>5, <2>6
    <2>7. CASE x \notin gone
        <3>1. f[m + 1] = Append(t, x)
            BY <2>5, <2>7
        <3>2. /\ Append(t, x) \in Seq(S)
              /\ ToSet(Append(t, x)) = ToSet(t) \cup {x}
              /\ IsInjective(t) /\ x \notin ToSet(t) => IsInjective(Append(t, x))
            BY <2>1, <2>4, AppendElements
        <3> QED BY <2>2, <2>3, <2>4, <2>7, <3>1, <3>2
    <2> QED BY <2>6, <2>7
<1> HIDE DEF Good
<1>6. 0 \in T
    BY <1>4
<1>7. \A m \in Nat : m \in T => m + 1 \in T
    BY <1>1, <1>5
<1> HIDE DEF T
<1>8. Len(s) \in T
    BY <1>1, <1>6, <1>7, SetInduction
<1>9. Good(Len(s))
    BY <1>1, <1>8 DEF T
<1>10. Upto(Len(s)) = ToSet(s)
    BY <1>1 DEF ToSet
<1> QED BY <1>9, <1>10 DEF Good

-----------------------------------------------------------------------------
(* Putting a finite set in order.                                          *)

\* R, a set of pairs, puts the elements of S in a strict order.
IsOrder(R, S) ==
    /\ \A x, y \in S : x # y => <<x, y>> \in R \/ <<y, x>> \in R
    /\ \A x, y, z \in S : <<x, y>> \in R /\ <<y, z>> \in R => <<x, z>> \in R

\* A finite set that is not empty has a last element.
LEMMA LastExists ==
    ASSUME NEW S, NEW R, IsOrder(R, S),
           NEW U \in SUBSET S, IsFiniteSet(U), U # {}
    PROVE  \E m \in U : \A x \in U \ {m} : <<x, m>> \in R
<1> DEFINE HasLast(V) == \E m \in V : \A x \in V \ {m} : <<x, m>> \in R
           T == {n \in Nat : \A V \in SUBSET S :
                    IsFiniteSet(V) /\ Cardinality(V) = n + 1 => HasLast(V)}
<1>1. 0 \in T
    <2> SUFFICES ASSUME NEW V \in SUBSET S, IsFiniteSet(V), Cardinality(V) = 1
                 PROVE  HasLast(V)
        OBVIOUS
    <2>1. PICK m : V = {m}
        BY FS_Singleton
    <2> QED BY <2>1
<1>2. ASSUME NEW n \in Nat, n \in T
      PROVE  n + 1 \in T
    <2> SUFFICES ASSUME NEW V \in SUBSET S, IsFiniteSet(V), Cardinality(V) = (n + 1) + 1
                 PROVE  HasLast(V)
        OBVIOUS
    <2>1. V # {}
        BY FS_EmptySet
    <2>2. PICK x \in V : TRUE
        BY <2>1
    <2>3. IsFiniteSet(V \ {x}) /\ Cardinality(V \ {x}) = n + 1
        BY FS_RemoveElement
    <2>4. PICK m \in V \ {x} : \A y \in (V \ {x}) \ {m} : <<y, m>> \in R
        BY <1>2, <2>3
    <2>5. CASE <<x, m>> \in R
        BY <2>4, <2>5
    <2>6. CASE <<m, x>> \in R
        BY <2>2, <2>4, <2>6 DEF IsOrder
    <2> QED BY <2>2, <2>4, <2>5, <2>6 DEF IsOrder
<1> HIDE DEF T
<1>3. Cardinality(U) \in Nat /\ Cardinality(U) # 0
    BY FS_CardinalityType, FS_EmptySet
<1>4. Cardinality(U) - 1 \in T
    BY <1>1, <1>2, <1>3, SetInduction
<1> QED BY <1>3, <1>4 DEF T

\* A finite set can be listed in order.
LEMMA OrderExists ==
    ASSUME NEW S, NEW R, IsOrder(R, S), IsFiniteSet(S)
    PROVE  \E p \in [1 .. Cardinality(S) -> S] :
                /\ ToSet(p) = S
                /\ \A i, j \in DOMAIN p : i < j => <<p[i], p[j]>> \in R
<1> DEFINE Sorts(p, n, U) ==
               /\ p \in [1 .. n -> U] /\ ToSet(p) = U
               /\ \A i, j \in 1 .. n : i < j => <<p[i], p[j]>> \in R
           T == {n \in Nat : \A U \in SUBSET S :
                    IsFiniteSet(U) /\ Cardinality(U) = n => \E p : Sorts(p, n, U)}
<1>1. 0 \in T
    <2> SUFFICES ASSUME NEW U \in SUBSET S, IsFiniteSet(U), Cardinality(U) = 0
                 PROVE  \E p : Sorts(p, 0, U)
        OBVIOUS
    <2>1. U = {}
        BY FS_EmptySet
    <2> DEFINE p == [i \in 1 .. 0 |-> i]
    <2>2. Sorts(p, 0, U)
        BY <2>1 DEF ToSet
    <2> QED BY <2>2
<1>2. ASSUME NEW n \in Nat, n \in T
      PROVE  n + 1 \in T
    <2> SUFFICES ASSUME NEW U \in SUBSET S, IsFiniteSet(U), Cardinality(U) = n + 1
                 PROVE  \E p : Sorts(p, n + 1, U)
        OBVIOUS
    <2>1. U # {}
        BY FS_EmptySet
    <2>2. PICK m \in U : \A x \in U \ {m} : <<x, m>> \in R
        BY <2>1, LastExists
    <2>3. IsFiniteSet(U \ {m}) /\ Cardinality(U \ {m}) = n
        <3>1. IsFiniteSet(U \ {m}) /\ Cardinality(U \ {m}) = Cardinality(U) - 1
            BY FS_RemoveElement, Zenon
        <3> QED BY <3>1
    <2>4. PICK p : Sorts(p, n, U \ {m})
        BY <1>2, <2>3
    <2> DEFINE q == [i \in 1 .. n + 1 |-> IF i <= n THEN p[i] ELSE m]
    <2>5. /\ q[n + 1] = m /\ n + 1 \in 1 .. n + 1
          /\ \A i \in 1 .. n + 1 : i \in 1 .. n \/ i = n + 1
          /\ \A i \in 1 .. n : i \in 1 .. n + 1 /\ q[i] = p[i] /\ p[i] \in U \ {m}
        BY <2>4
    <2>6. q \in [1 .. n + 1 -> U]
        BY <2>4
    <2> HIDE DEF q
    <2>7. ToSet(q) = U
        <3>1. ToSet(p) = {p[i] : i \in 1 .. n}
            BY <2>4 DEF ToSet
        <3>2. ToSet(q) = {q[i] : i \in 1 .. n + 1}
            BY <2>6 DEF ToSet
        <3>3. ToSet(q) = ToSet(p) \cup {m}
            BY <2>5, <3>1, <3>2
        <3> QED BY <2>4, <3>3
    <2>8. ASSUME NEW i \in 1 .. n + 1, NEW j \in 1 .. n + 1, i < j
          PROVE  <<q[i], q[j]>> \in R
        <3>1. i \in 1 .. n
            BY <2>8
        <3>2. CASE j \in 1 .. n
            BY <2>4, <2>5, <2>8, <3>1, <3>2
        <3>3. CASE j = n + 1
            BY <2>2, <2>5, <3>1, <3>3
        <3> QED BY <2>5, <3>2, <3>3
    <2>9. Sorts(q, n + 1, U)
        BY <2>6, <2>7, <2>8
    <2> QED BY <2>9
<1> HIDE DEF T
<1>3. Cardinality(S) \in Nat /\ Cardinality(S) \in T
    BY <1>1, <1>2, FS_CardinalityType, SetInduction
<1>4. PICK p : Sorts(p, Cardinality(S), S)
    BY <1>3 DEF T
<1> QED BY <1>4

-----------------------------------------------------------------------------
(* Lists of lists, one after the other.                                   *)

\* What FlattenSeq has built after each element.
IsFlat(f, seqs) ==
    f = [i \in 1 .. Len(seqs) |-> IF i = 1 THEN seqs[i] ELSE f[i - 1] \o seqs[i]]

\* There is one.
LEMMA FlatExists ==
    ASSUME NEW seqs, Len(seqs) \in Nat
    PROVE  \E f : IsFlat(f, seqs)
<1> DEFINE Step(f, i) == IF i = 1 THEN seqs[i] ELSE f[i - 1] \o seqs[i]
           T == {m \in Nat : \E f : f = [i \in 1 .. m |-> Step(f, i)]}
<1>1. 0 \in T
    <2> DEFINE f == [i \in 1 .. 0 |-> i]
    <2>1. f = [i \in 1 .. 0 |-> Step(f, i)]
        OBVIOUS
    <2> HIDE DEF f
    <2> QED BY <2>1
<1>2. ASSUME NEW m \in Nat, m \in T
      PROVE  m + 1 \in T
    <2>1. PICK f : f = [i \in 1 .. m |-> Step(f, i)]
        BY <1>2
    <2> DEFINE g == [i \in 1 .. m + 1 |-> IF i <= m THEN f[i] ELSE Step(f, i)]
    <2>2. ASSUME NEW i \in 1 .. m + 1
          PROVE  g[i] = Step(g, i)
        <3>1. Step(g, i) = Step(f, i)
            <4>1. CASE i = 1
                BY <4>1
            <4>2. CASE i # 1
                <5>1. g[i - 1] = f[i - 1]
                    BY <4>2
                <5> HIDE DEF g
                <5> QED BY <4>2, <5>1
            <4> QED BY <4>1, <4>2
        <3> HIDE DEF Step
        <3>2. i <= m => f[i] = Step(f, i)
            BY <2>1
        <3> QED BY <3>1, <3>2
    <2> HIDE DEF Step
    <2>3. g = [i \in 1 .. m + 1 |-> g[i]]
        OBVIOUS
    <2> HIDE DEF g
    <2>4. g = [i \in 1 .. m + 1 |-> Step(g, i)]
        BY <2>2, <2>3
    <2> QED BY <2>4
<1> HIDE DEF T
<1>3. Len(seqs) \in T
    BY <1>1, <1>2, SetInduction
<1> QED BY <1>3 DEF T, IsFlat

\* Any such function gives the result.
LEMMA FlattenIsFlat ==
    ASSUME NEW seqs, Len(seqs) \in Nat \ {0}, NEW f, IsFlat(f, seqs)
    PROVE  FlattenSeq(seqs) = f[Len(seqs)]
<1> DEFINE flatten[i \in 1 .. Len(seqs)] ==
               IF i = 1 THEN seqs[i] ELSE flatten[i - 1] \o seqs[i]
           T == {m \in Nat : m + 1 <= Len(seqs) => flatten[m + 1] = f[m + 1]}
<1>1. FlattenSeq(seqs) = flatten[Len(seqs)]
    BY DEF FlattenSeq
<1>2. IsFlat(flatten, seqs)
    <2>1. \E g : IsFlat(g, seqs)
        BY FlatExists
    <2> QED BY <2>1, Zenon DEF IsFlat
<1> HIDE DEF flatten
<1>3. 0 \in T
    BY <1>2 DEF IsFlat
<1>4. ASSUME NEW m \in Nat, m \in T
      PROVE  m + 1 \in T
    <2> SUFFICES ASSUME (m + 1) + 1 <= Len(seqs)
                 PROVE  flatten[(m + 1) + 1] = f[(m + 1) + 1]
        OBVIOUS
    <2> DEFINE k == (m + 1) + 1
    <2>1. k \in 1 .. Len(seqs) /\ k # 1 /\ k - 1 = m + 1
        OBVIOUS
    <2>2. flatten[m + 1] = f[m + 1]
        BY <1>4
    <2> HIDE DEF T, k
    <2>3. \A g : IsFlat(g, seqs) => g[k] = g[k - 1] \o seqs[k]
        BY <2>1 DEF IsFlat
    <2>4. flatten[k] = f[k]
        BY <1>2, <2>1, <2>2, <2>3
    <2> QED BY <2>4 DEF k
<1> HIDE DEF T
<1>5. Len(seqs) - 1 \in T
    BY <1>3, <1>4, SetInduction
<1> QED BY <1>1, <1>5 DEF T

\* No lists, no elements.
LEMMA FlattenEmpty == FlattenSeq(<<>>) = <<>>
BY DEF FlattenSeq

\* The elements of the last list come last.
LEMMA FlattenAppend ==
    ASSUME NEW S, NEW seqs \in Seq(Seq(S)), NEW x \in Seq(S)
    PROVE  FlattenSeq(Append(seqs, x)) = FlattenSeq(seqs) \o x
<1> DEFINE n == Len(seqs)
           t == Append(seqs, x)
<1>1. /\ n \in Nat /\ t \in Seq(Seq(S)) /\ Len(t) = n + 1
      /\ \A i \in 1 .. n : t[i] = seqs[i]
      /\ t[n + 1] = x
    BY AppendProperties
<1> HIDE DEF t
<1>2. PICK g : IsFlat(g, t)
    BY <1>1, FlatExists
<1>3. FlattenSeq(t) = g[n + 1]
    BY <1>1, <1>2, FlattenIsFlat
<1>4. CASE n = 0
    <2>1. seqs = <<>>
        BY <1>4
    <2>2. FlattenSeq(seqs) = <<>>
        BY <2>1, FlattenEmpty
    <2>3. g[n + 1] = x
        BY <1>1, <1>2, <1>4 DEF IsFlat
    <2> QED BY <1>3, <2>2, <2>3, ConcatEmptySeq DEF t
<1>5. CASE n # 0
    <2> DEFINE f == [i \in 1 .. n |-> g[i]]
    <2>1. ASSUME NEW i \in 1 .. n
          PROVE  f[i] = IF i = 1 THEN seqs[i] ELSE f[i - 1] \o seqs[i]
        <3>1. g[i] = IF i = 1 THEN t[i] ELSE g[i - 1] \o t[i]
            <4>1. i \in 1 .. Len(t)
                BY <1>1
            <4> HIDE DEF n
            <4> QED BY <1>2, <4>1 DEF IsFlat
        <3>2. t[i] = seqs[i]
            BY <1>1
        <3>3. i # 1 => f[i - 1] = g[i - 1]
            BY <1>1
        <3>4. f[i] = g[i]
            OBVIOUS
        <3> HIDE DEF f
        <3> QED BY <3>1, <3>2, <3>3, <3>4
    <2>2. IsFlat(f, seqs)
        <3>1. f = [i \in 1 .. n |-> f[i]]
            OBVIOUS
        <3> HIDE DEF f
        <3> QED BY <2>1, <3>1 DEF IsFlat
    <2>3. FlattenSeq(seqs) = g[n]
        <3>1. f[n] = g[n]
            BY <1>1, <1>5
        <3> HIDE DEF f
        <3> QED BY <1>1, <1>5, <2>2, <3>1, FlattenIsFlat
    <2>4. g[n + 1] = g[n] \o x
        <3>1. n + 1 \in 1 .. Len(t) /\ n + 1 # 1 /\ (n + 1) - 1 = n
            BY <1>1, <1>5
        <3> QED BY <1>1, <1>2, <3>1 DEF IsFlat
    <2> QED BY <1>3, <2>3, <2>4 DEF t
<1> QED BY <1>4, <1>5

\* The result is a sequence of the elements of the sequences.
LEMMA FlattenElements ==
    ASSUME NEW S, NEW seqs \in Seq(Seq(S))
    PROVE  /\ FlattenSeq(seqs) \in Seq(S)
           /\ ToSet(FlattenSeq(seqs)) = UNION {ToSet(seqs[i]) : i \in DOMAIN seqs}
<1> DEFINE Good(t) == /\ FlattenSeq(t) \in Seq(S)
                      /\ ToSet(FlattenSeq(t)) = UNION {ToSet(t[i]) : i \in DOMAIN t}
           T == {n \in Nat : \A t \in Seq(Seq(S)) : Len(t) = n => Good(t)}
<1>1. 0 \in T
    <2> SUFFICES ASSUME NEW t \in Seq(Seq(S)), Len(t) = 0
                 PROVE  Good(t)
        OBVIOUS
    <2>1. t = <<>> /\ DOMAIN t = {}
        OBVIOUS
    <2>2. ToSet(<<>>) = {} /\ <<>> \in Seq(S)
        BY DEF ToSet
    <2>3. UNION {ToSet(t[i]) : i \in DOMAIN t} = {}
        BY <2>1
    <2>4. FlattenSeq(t) = <<>>
        BY <2>1, FlattenEmpty
    <2> QED BY <2>2, <2>3, <2>4
<1>2. ASSUME NEW n \in Nat, n \in T
      PROVE  n + 1 \in T
    <2> SUFFICES ASSUME NEW t \in Seq(Seq(S)), Len(t) = n + 1
                 PROVE  Good(t)
        OBVIOUS
    <2>1. PICK u \in Seq(Seq(S)), x \in Seq(S) : t = Append(u, x)
        <3>1. t # <<>>
            OBVIOUS
        <3> QED BY <3>1, SequenceEmptyOrAppend
    <2>2. /\ Len(u) = n /\ DOMAIN u = 1 .. n /\ DOMAIN t = 1 .. n + 1
          /\ \A i \in 1 .. n : t[i] = u[i]
          /\ t[n + 1] = x
        BY <2>1, AppendProperties
    <2>3. Good(u)
        BY <1>2, <2>2
    <2>4. FlattenSeq(t) = FlattenSeq(u) \o x
        BY <2>1, FlattenAppend
    <2>5. FlattenSeq(t) \in Seq(S)
        BY <2>3, <2>4, ConcatProperties
    <2>6. ToSet(FlattenSeq(t)) = ToSet(FlattenSeq(u)) \cup ToSet(x)
        <3> DEFINE y == FlattenSeq(u)
        <3>1. y \in Seq(S)
            BY <2>3
        <3> HIDE DEF y
        <3>2. Range(y \o x) = Range(y) \cup Range(x)
            BY <3>1, RangeConcatenation
        <3>3. \A s : ToSet(s) = Range(s)
            BY DEF ToSet, Range
        <3>4. ToSet(y \o x) = ToSet(y) \cup ToSet(x)
            BY <3>2, <3>3
        <3> QED BY <2>4, <3>4 DEF y
    <2>7. {ToSet(t[i]) : i \in DOMAIN t} = {ToSet(u[i]) : i \in DOMAIN u} \cup {ToSet(x)}
        <3>1. \A i \in 1 .. n + 1 : i \in 1 .. n \/ i = n + 1
            OBVIOUS
        <3>2. n + 1 \in 1 .. n + 1 /\ \A i \in 1 .. n : i \in 1 .. n + 1
            OBVIOUS
        <3> QED BY <2>2, <3>1, <3>2
    <2>8. ToSet(FlattenSeq(t)) = UNION {ToSet(t[i]) : i \in DOMAIN t}
        <3> DEFINE U == {ToSet(u[i]) : i \in DOMAIN u}
                   X == ToSet(x)
        <3>1. ToSet(FlattenSeq(u)) = UNION U
            BY <2>3
        <3>2. {ToSet(t[i]) : i \in DOMAIN t} = U \cup {X}
            BY <2>7
        <3> HIDE DEF U, X
        <3>3. UNION (U \cup {X}) = (UNION U) \cup X
            OBVIOUS
        <3> QED BY <2>6, <3>1, <3>2, <3>3 DEF X
    <2> QED BY <2>5, <2>8
<1> HIDE DEF Good, T
<1>3. Len(seqs) \in T
    BY <1>1, <1>2, SetInduction, SMTT(30)
<1> QED BY <1>3 DEF T, Good

\* Of three lists in a row it does not matter which two are joined first.
LEMMA ConcatInRow ==
    \A S : \A x, y, z \in Seq(S) : (x \o y) \o z = x \o (y \o z)
BY ConcatAssociative

\* Two sequences of sequences in a row.
LEMMA FlattenConcat ==
    ASSUME NEW S, NEW a \in Seq(Seq(S)), NEW b \in Seq(Seq(S))
    PROVE  FlattenSeq(a \o b) = FlattenSeq(a) \o FlattenSeq(b)
<1> DEFINE T == {n \in Nat : \A t \in Seq(Seq(S)) :
                    Len(t) = n => FlattenSeq(a \o t) = FlattenSeq(a) \o FlattenSeq(t)}
<1>1. 0 \in T
    <2> SUFFICES ASSUME NEW t \in Seq(Seq(S)), Len(t) = 0
                 PROVE  FlattenSeq(a \o t) = FlattenSeq(a) \o FlattenSeq(t)
        OBVIOUS
    <2>1. t = <<>>
        OBVIOUS
    <2>2. a \o <<>> = a /\ FlattenSeq(a) \o <<>> = FlattenSeq(a)
        BY ConcatEmptySeq, FlattenElements
    <2> QED BY <2>1, <2>2, FlattenEmpty
<1>2. ASSUME NEW n \in Nat, n \in T
      PROVE  n + 1 \in T
    <2> SUFFICES ASSUME NEW t \in Seq(Seq(S)), Len(t) = n + 1
                 PROVE  FlattenSeq(a \o t) = FlattenSeq(a) \o FlattenSeq(t)
        OBVIOUS
    <2>1. PICK u \in Seq(Seq(S)), x \in Seq(S) : t = Append(u, x)
        <3>1. t # <<>>
            OBVIOUS
        <3> QED BY <3>1, SequenceEmptyOrAppend
    <2>2. Len(u) = n
        BY <2>1, AppendProperties
    <2>3. FlattenSeq(a \o u) = FlattenSeq(a) \o FlattenSeq(u)
        BY <1>2, <2>2
    <2>4. a \o t = Append(a \o u, x)
        <3>1. t = u \o <<x>> /\ <<x>> \in Seq(Seq(S))
            BY <2>1, AppendIsConcat
        <3>2. a \o t = (a \o u) \o <<x>>
            BY <3>1, ConcatAssociative, SMTT(30)
        <3>3. a \o u \in Seq(Seq(S))
            BY ConcatProperties
        <3> QED BY <3>2, <3>3, AppendIsConcat
    <2>5. FlattenSeq(a \o t) = FlattenSeq(a \o u) \o x
        <3>1. a \o u \in Seq(Seq(S))
            BY ConcatProperties
        <3> QED BY <2>4, <3>1, FlattenAppend
    <2>6. FlattenSeq(t) = FlattenSeq(u) \o x
        BY <2>1, FlattenAppend
    <2>7. (FlattenSeq(a) \o FlattenSeq(u)) \o x = FlattenSeq(a) \o (FlattenSeq(u) \o x)
        <3>1. FlattenSeq(a) \in Seq(S) /\ FlattenSeq(u) \in Seq(S)
            BY FlattenElements
        <3> DEFINE y == FlattenSeq(a)
                   z == FlattenSeq(u)
        <3> HIDE DEF T, y, z
        <3>2. y \in Seq(S) /\ z \in Seq(S)
            BY <3>1 DEF y, z
        <3>3. x \in Seq(S)
            OBVIOUS
        <3>4. (y \o z) \o x = y \o (z \o x)
            BY ONLY <3>2, <3>3, ConcatInRow, SMTT(30)
        <3> QED BY <3>4 DEF y, z
    <2> QED BY <2>3, <2>5, <2>6, <2>7
<1> HIDE DEF T
<1>3. Len(b) \in Nat
    OBVIOUS
<1>4. Len(b) \in T
    BY <1>1, <1>2, <1>3, SetInduction
<1> QED BY <1>4 DEF T
=============================================================================
