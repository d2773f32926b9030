---------------------- MODULE GatewayAnonymizerProofs -----------------------
(***************************************************************************)
(* What the operators of GatewayAnonymizer do with any text and any spans  *)
(* found in it.                                                            *)
(***************************************************************************)
EXTENDS GatewayAnonymizer, ListLemmas

\* What a recognizer finds.
LEMMA FoundSpans ==
    ASSUME NEW text, NEW found \in FoundIn(text)
    PROVE  \A a \in ToSet(found) :
                /\ a \in Span /\ a.start \in Nat /\ a.end \in Nat
                /\ a.start < a.end /\ a.end <= Len(text)
<1> SUFFICES ASSUME NEW i \in DOMAIN found
             PROVE  /\ found[i] \in Span /\ found[i].start \in Nat /\ found[i].end \in Nat
                    /\ found[i].start < found[i].end /\ found[i].end <= Len(text)
    BY DEF ToSet
<1>1. found \in Seq(Span) /\ found[i].start < found[i].end /\ found[i].end <= Len(text)
    BY DEF FoundIn
<1>2. found[i] \in Span
    BY <1>1
<1> QED BY <1>1, <1>2 DEF Span

-----------------------------------------------------------------------------
(* Which spans are kept.                                                   *)

\* A set that can be put in order is.
LEMMA InOrderProperties ==
    ASSUME NEW S, NEW R, IsOrder(R, S), IsFiniteSet(S)
    PROVE  /\ InOrder(S, R) \in [1 .. Cardinality(S) -> S]
           /\ InOrder(S, R) \in Seq(S) /\ Len(InOrder(S, R)) = Cardinality(S)
           /\ ToSet(InOrder(S, R)) = S
           /\ \A i, j \in 1 .. Cardinality(S) :
                i < j => <<InOrder(S, R)[i], InOrder(S, R)[j]>> \in R
<1> DEFINE p == InOrder(S, R)
<1>1. /\ p \in [1 .. Cardinality(S) -> S] /\ ToSet(p) = S
      /\ \A i, j \in DOMAIN p : i < j => <<p[i], p[j]>> \in R
    <2>1. \E q \in [1 .. Cardinality(S) -> S] :
            /\ ToSet(q) = S
            /\ \A i, j \in DOMAIN q : i < j => <<q[i], q[j]>> \in R
        BY OrderExists
    <2> QED BY <2>1, Zenon DEF InOrder
<1> HIDE DEF p
<1>2. Cardinality(S) \in Nat
    BY FS_CardinalityType
<1>3. p \in Seq(S) /\ Len(p) = Cardinality(S) /\ DOMAIN p = 1 .. Cardinality(S)
    BY <1>1, <1>2
<1> QED BY <1>1, <1>3 DEF p

\* The spans are taken each once, a stronger one before a weaker one.
LEMMA ByStrengthProperties ==
    ASSUME NEW found \in Seq(Span)
    PROVE  LET order == ByStrength(found)
           IN  /\ order \in Seq(DOMAIN found)
               /\ ToSet(order) = DOMAIN found
               /\ \A i, j \in DOMAIN order :
                    i < j => ~Stronger(found[order[j]], found[order[i]])
<1> DEFINE D == DOMAIN found
           R == {ij \in D \X D :
                    \/ Stronger(found[ij[1]], found[ij[2]])
                    \/ ~Stronger(found[ij[2]], found[ij[1]]) /\ ij[1] < ij[2]}
           order == ByStrength(found)
<1>1. /\ D = 1 .. Len(found) /\ Len(found) \in Nat
      /\ \A i \in D : /\ found[i].score \in Nat /\ found[i].start \in Nat
                      /\ found[i].end \in Nat
    <2>1. D = 1 .. Len(found) /\ Len(found) \in Nat /\ \A i \in D : found[i] \in Span
        OBVIOUS
    <2> HIDE DEF D
    <2> QED BY <2>1 DEF Span
<1>2. IsFiniteSet(D)
    BY <1>1, FS_Interval
<1>3. order = InOrder(D, R)
    BY DEF ByStrength
<1> HIDE DEF D
<1>4. \A i, j \in D : <<i, j>> \in R <=>
        \/ Stronger(found[i], found[j])
        \/ ~Stronger(found[j], found[i]) /\ i < j
    OBVIOUS
<1> HIDE DEF R, order
<1>5. ASSUME NEW i \in D, NEW j \in D, i # j
      PROVE  <<i, j>> \in R \/ <<j, i>> \in R
    <2>1. i < j \/ j < i
        BY <1>1, <1>5
    <2> QED BY <1>4, <2>1
<1>6. ASSUME NEW i \in D, NEW j \in D, NEW k \in D, <<i, j>> \in R, <<j, k>> \in R
      PROVE  <<i, k>> \in R
    <2> DEFINE a == found[i]
               b == found[j]
               c == found[k]
    <2>1. /\ a.score \in Nat /\ b.score \in Nat /\ c.score \in Nat
          /\ a.end - a.start \in Int /\ b.end - b.start \in Int /\ c.end - c.start \in Int
        BY <1>1, SMTT(30)
    <2>2. i \in Nat /\ j \in Nat /\ k \in Nat
        BY <1>1
    <2>3. /\ Stronger(a, b) \/ (~Stronger(b, a) /\ i < j)
          /\ Stronger(b, c) \/ (~Stronger(c, b) /\ j < k)
        BY <1>4, <1>6
    <2> HIDE DEF a, b, c
    <2>4. Stronger(a, c) \/ (~Stronger(c, a) /\ i < k)
        BY <2>1, <2>2, <2>3 DEF Stronger
    <2> QED BY <1>4, <2>4 DEF a, c
<1>7. IsOrder(R, D)
    BY <1>5, <1>6 DEF IsOrder
<1>8. /\ order \in Seq(D) /\ ToSet(order) = D /\ Len(order) = Cardinality(D)
      /\ order \in [1 .. Cardinality(D) -> D]
      /\ \A i, j \in 1 .. Cardinality(D) : i < j => <<order[i], order[j]>> \in R
    BY <1>2, <1>3, <1>7, InOrderProperties
<1>9. ASSUME NEW i \in DOMAIN order, NEW j \in DOMAIN order, i < j
      PROVE  ~Stronger(found[order[j]], found[order[i]])
    <2>1. order[i] \in D /\ order[j] \in D /\ <<order[i], order[j]>> \in R
        BY <1>8, <1>9
    <2> DEFINE a == found[order[i]]
               b == found[order[j]]
    <2>2. Stronger(a, b) \/ ~Stronger(b, a)
        BY <1>4, <2>1
    <2>3. /\ a.score \in Nat /\ b.score \in Nat
          /\ a.end - a.start \in Int /\ b.end - b.start \in Int
        BY <1>1, <2>1
    <2> HIDE DEF a, b
    <2>4. ~Stronger(b, a)
        BY <2>2, <2>3 DEF Stronger
    <2> QED BY <2>4 DEF a, b
<1> QED BY <1>8, <1>9 DEF order, D

\* What the loop has kept after each round.
IsLoop(f, found, order) ==
    f = [n \in 0 .. Len(order) |->
            IF n = 0 THEN {}
            ELSE IF \E k \in f[n - 1] : Overlap(found[order[n]], k) THEN f[n - 1]
            ELSE f[n - 1] \cup {found[order[n]]}]

\* There is such a function, so that the recursive definition defines one.
LEMMA LoopExists ==
    ASSUME NEW found, NEW order, Len(order) \in Nat
    PROVE  \E f : IsLoop(f, found, order)
<1> DEFINE Step(f, n) == IF n = 0 THEN {}
                         ELSE IF \E k \in f[n - 1] : Overlap(found[order[n]], k) THEN f[n - 1]
                         ELSE f[n - 1] \cup {found[order[n]]}
           T == {m \in Nat : \E f : f = [n \in 0 .. m |-> Step(f, n)]}
<1>1. 0 \in T
    <2> DEFINE f == [n \in 0 .. 0 |-> {}]
    <2>1. f = [n \in 0 .. 0 |-> Step(f, n)]
        OBVIOUS
    <2> HIDE DEF f
    <2> QED BY <2>1
<1>2. ASSUME NEW m \in Nat, m \in T
      PROVE  m + 1 \in T
    <2>1. PICK f : f = [n \in 0 .. m |-> Step(f, n)]
        BY <1>2
    <2> DEFINE g == [n \in 0 .. m + 1 |-> IF n <= m THEN f[n] ELSE Step(f, n)]
    <2>2. ASSUME NEW n \in 0 .. m + 1
          PROVE  g[n] = Step(g, n)
        <3>1. Step(g, n) = Step(f, n)
            <4>1. CASE n = 0
                BY <4>1
            <4>2. CASE n # 0
                <5>1. g[n - 1] = f[n - 1]
                    BY <4>2
                <5> HIDE DEF g
                <5> QED BY <4>2, <5>1
            <4> QED BY <4>1, <4>2
        <3> HIDE DEF Step
        <3>2. n <= m => f[n] = Step(f, n)
            BY <2>1
        <3> QED BY <3>1, <3>2
    <2> HIDE DEF Step
    <2>3. g = [n \in 0 .. m + 1 |-> g[n]]
        OBVIOUS
    <2> HIDE DEF g
    <2>4. g = [n \in 0 .. m + 1 |-> Step(g, n)]
        BY <2>2, <2>3
    <2> QED BY <2>4
<1> HIDE DEF T
<1>3. Len(order) \in T
    BY <1>1, <1>2, SetInduction
<1> QED BY <1>3 DEF T, IsLoop

\* What the loop keeps of the spans it has seen: they do not overlap, and it has
\* dropped none for a weaker one.
LEMMA KeptOfProperties ==
    ASSUME NEW text, NEW found \in FoundIn(text)
    PROVE  LET kept == KeptOf(found, ByStrength(found))
           IN  /\ kept \subseteq ToSet(found) /\ IsFiniteSet(kept)
               /\ \A a, b \in kept : a # b => ~Overlap(a, b)
               /\ \A a \in ToSet(found) \ kept :
                    \E k \in kept : Overlap(a, k) /\ ~Stronger(a, k)
<1> DEFINE order == ByStrength(found)
           kept[n \in 0 .. Len(order)] ==
               IF n = 0 THEN {}
               ELSE IF \E k \in kept[n - 1] : Overlap(found[order[n]], k) THEN kept[n - 1]
               ELSE kept[n - 1] \cup {found[order[n]]}
           Taken(n) == {found[order[i]] : i \in 1 .. n}
           Good(n) == /\ kept[n] \subseteq Taken(n) /\ IsFiniteSet(kept[n])
                      /\ \A a, b \in kept[n] : a # b => ~Overlap(a, b)
                      /\ \A a \in Taken(n) : a \in kept[n] \/
                            \E k \in kept[n] : Overlap(a, k) /\ ~Stronger(a, k)
           T == {n \in Nat : n <= Len(order) => Good(n)}
<1>1. found \in Seq(Span) /\ DOMAIN found = 1 .. Len(found)
    BY DEF FoundIn
<1>2. /\ order \in Seq(DOMAIN found) /\ ToSet(order) = DOMAIN found
      /\ \A i, j \in DOMAIN order : i < j => ~Stronger(found[order[j]], found[order[i]])
    BY <1>1, ByStrengthProperties
<1>3. KeptOf(found, order) = kept[Len(order)]
    BY DEF KeptOf
<1> HIDE DEF order
<1>4. Len(order) \in Nat /\ DOMAIN order = 1 .. Len(order)
    BY <1>2
<1>5. IsLoop(kept, found, order)
    <2>1. \E f : IsLoop(f, found, order)
        BY <1>4, LoopExists
    <2> QED BY <2>1, Zenon DEF IsLoop
<1> HIDE DEF kept
<1>6. kept[0] = {}
    BY <1>4, <1>5 DEF IsLoop
<1>7. ASSUME NEW n \in Nat, n + 1 <= Len(order)
      PROVE  kept[n + 1] = IF \E k \in kept[n] : Overlap(found[order[n + 1]], k) THEN kept[n]
                           ELSE kept[n] \cup {found[order[n + 1]]}
    <2>1. n + 1 \in 0 .. Len(order) /\ n + 1 # 0 /\ (n + 1) - 1 = n
        BY <1>4, <1>7
    <2> QED BY <1>5, <2>1 DEF IsLoop
<1>8. Good(0)
    BY <1>6, FS_EmptySet
<1>9. ASSUME NEW n \in Nat, n + 1 <= Len(order), Good(n)
      PROVE  Good(n + 1)
    <2> DEFINE x == found[order[n + 1]]
    <2>1. Taken(n + 1) = Taken(n) \cup {x}
        <3>1. \A i \in 1 .. n + 1 : i \in 1 .. n \/ i = n + 1
            OBVIOUS
        <3> QED BY <3>1
    <2>2. \A a \in Taken(n) : ~Stronger(x, a)
        <3>1. \A i \in 1 .. n : i \in DOMAIN order /\ n + 1 \in DOMAIN order /\ i < n + 1
            BY <1>4, <1>9
        <3> QED BY <1>2, <3>1
    <2>3. ~Overlap(x, x) => FALSE
        <3>1. n + 1 \in DOMAIN order
            BY <1>4, <1>9
        <3>2. order[n + 1] \in DOMAIN found
            BY <1>2, <3>1
        <3>3. x \in Span /\ x.start < x.end
            BY <3>2 DEF FoundIn
        <3> HIDE DEF x
        <3> QED BY <3>3 DEF Overlap, Span
    <2>4. \A a, b \in ToSet(found) : Overlap(a, b) => Overlap(b, a)
        <3>1. \A a \in ToSet(found) : a.start \in Nat /\ a.end \in Nat
            BY FoundSpans
        <3> QED BY <3>1 DEF Overlap
    <2>5. Taken(n + 1) \subseteq ToSet(found)
        <3>1. \A i \in 1 .. n + 1 : order[i] \in DOMAIN found
            BY <1>2, <1>4, <1>9
        <3> QED BY <3>1 DEF ToSet
    <2>6. kept[n + 1] = IF \E k \in kept[n] : Overlap(x, k) THEN kept[n] ELSE kept[n] \cup {x}
        BY <1>7, <1>9
    <2> HIDE DEF x, Taken
    <2>7. CASE \E k \in kept[n] : Overlap(x, k)
        <3>1. PICK k \in kept[n] : Overlap(x, k)
            BY <2>7
        <3>2. k \in Taken(n) /\ ~Stronger(x, k)
            BY <1>9, <2>2
        <3> QED BY <1>9, <2>1, <2>6, <2>7, <3>1, <3>2
    <2>8. CASE ~\E k \in kept[n] : Overlap(x, k)
        <3>1. kept[n + 1] = kept[n] \cup {x}
            BY <2>6, <2>8
        <3>2. IsFiniteSet(kept[n + 1])
            BY <1>9, <3>1, FS_AddElement
        <3>3. \A k \in kept[n] : ~Overlap(x, k) /\ ~Overlap(k, x)
            BY <1>9, <2>1, <2>4, <2>5, <2>8
        <3>4. \A a, b \in kept[n + 1] : a # b => ~Overlap(a, b)
            BY <1>9, <3>1, <3>3
        <3>5. \A a \in Taken(n + 1) : a \in kept[n + 1] \/
                    \E k \in kept[n + 1] : Overlap(a, k) /\ ~Stronger(a, k)
            BY <1>9, <2>1, <3>1
        <3> QED BY <1>9, <2>1, <3>1, <3>2, <3>4, <3>5
    <2> QED BY <2>7, <2>8
<1> HIDE DEF Good
<1>10. 0 \in T /\ \A n \in Nat : n \in T => n + 1 \in T
    BY <1>4, <1>8, <1>9
<1> HIDE DEF T
<1>11. Len(order) \in T
    BY <1>4, <1>10, SetInduction
<1>12. Good(Len(order))
    BY <1>4, <1>11 DEF T
<1>13. Taken(Len(order)) = ToSet(found)
    <2>1. DOMAIN found = {order[i] : i \in 1 .. Len(order)}
        BY <1>2, <1>4 DEF ToSet
    <2> QED BY <2>1 DEF ToSet
<1> QED BY <1>3, <1>12, <1>13 DEF Good, order

\* The spans that are kept come in order and do not overlap, and every other one
\* found overlaps one of them that is at least as strong (engine.py 198-212).
THEOREM RemoveOverlapsProperties ==
    ASSUME NEW text, NEW found \in FoundIn(text)
    PROVE  LET kept == RemoveOverlaps(found)
           IN  /\ kept \in Seq(ToSet(found))
               /\ \A i, j \in 1 .. Len(kept) : i < j => kept[i].end <= kept[j].start
               /\ \A a \in ToSet(found) \ ToSet(kept) :
                    \E k \in ToSet(kept) : Overlap(a, k) /\ ~Stronger(a, k)
<1> DEFINE K == KeptOf(found, ByStrength(found))
           R == {ab \in K \X K : ab[1].start < ab[2].start}
           kept == RemoveOverlaps(found)
<1>1. /\ K \subseteq ToSet(found) /\ IsFiniteSet(K)
      /\ \A a, b \in K : a # b => ~Overlap(a, b)
      /\ \A a \in ToSet(found) \ K : \E k \in K : Overlap(a, k) /\ ~Stronger(a, k)
    BY KeptOfProperties
<1>2. kept = InOrder(K, R)
    BY DEF RemoveOverlaps, ByStart
<1> HIDE DEF K, kept
<1>3. \A a \in K : a.start \in Nat /\ a.end \in Nat /\ a.start < a.end
    BY <1>1, FoundSpans
<1>4. \A a, b \in K : <<a, b>> \in R <=> a.start < b.start
    OBVIOUS
<1> HIDE DEF R
<1>5. IsOrder(R, K)
    <2>1. ASSUME NEW a \in K, NEW b \in K, a # b
          PROVE  <<a, b>> \in R \/ <<b, a>> \in R
        BY <1>1, <1>3, <1>4, <2>1 DEF Overlap
    <2>2. ASSUME NEW a \in K, NEW b \in K, NEW c \in K, <<a, b>> \in R, <<b, c>> \in R
          PROVE  <<a, c>> \in R
        BY <1>3, <1>4, <2>2
    <2> QED BY <2>1, <2>2 DEF IsOrder
<1>6. /\ kept \in Seq(K) /\ Len(kept) = Cardinality(K) /\ ToSet(kept) = K
      /\ \A i, j \in 1 .. Cardinality(K) : i < j => <<kept[i], kept[j]>> \in R
    BY <1>1, <1>2, <1>5, InOrderProperties
<1>7. ASSUME NEW i \in 1 .. Len(kept), NEW j \in 1 .. Len(kept), i < j
      PROVE  kept[i].end <= kept[j].start
    <2>1. kept[i] \in K /\ kept[j] \in K /\ kept[i].start < kept[j].start
        <3>1. i \in DOMAIN kept /\ j \in DOMAIN kept
            BY <1>6
        <3>2. kept[i] \in K /\ kept[j] \in K
            BY <1>6, <3>1
        <3>3. <<kept[i], kept[j]>> \in R
            BY <1>6, <1>7
        <3> QED BY <1>4, <3>2, <3>3
    <2>2. kept[i] # kept[j]
        BY <1>3, <2>1
    <2>3. ~Overlap(kept[i], kept[j])
        BY <1>1, <2>1, <2>2
    <2> QED BY <1>3, <2>1, <2>3 DEF Overlap
<1>8. kept \in Seq(ToSet(found))
    BY <1>1, <1>6
<1> QED BY <1>1, <1>6, <1>7, <1>8 DEF kept

-----------------------------------------------------------------------------
(* What deanonymize does with the parts of a text.                         *)

\* What a text consists of when it is anonymized.
Placeholder == (STRING \ {"char"}) \X Nat
Symbol == Chars \cup Placeholder

\* A mapping of placeholders, which no character of a text is, to texts.
IsMapping(mapping) ==
    /\ mapping \in [DOMAIN mapping -> Seq(Chars)]
    /\ DOMAIN mapping \cap Chars = {}

\* A text is a sequence of symbols.
LEMMA CharsAreSymbols ==
    /\ Chars \subseteq Symbol
    /\ Seq(Chars) \subseteq Seq(Symbol)
<1>1. Chars \subseteq Symbol
    BY DEF Symbol
<1> HIDE DEF Chars, Symbol
<1> QED BY <1>1

\* What is put in the place of each symbol.
Pieces(text, mapping) ==
    [i \in DOMAIN text |-> IF text[i] \in DOMAIN mapping THEN mapping[text[i]] ELSE <<text[i]>>]

\* deanonymize joins these pieces.
LEMMA PiecesProperties ==
    ASSUME NEW text \in Seq(Symbol), NEW mapping, IsMapping(mapping)
    PROVE  /\ Pieces(text, mapping) \in Seq(Seq(Symbol))
           /\ Len(Pieces(text, mapping)) = Len(text)
           /\ Deanonymize(text, mapping) = FlattenSeq(Pieces(text, mapping))
           /\ Deanonymize(text, mapping) \in Seq(Symbol)
<1> DEFINE p == Pieces(text, mapping)
<1>1. ASSUME NEW i \in 1 .. Len(text)
      PROVE  (IF text[i] \in DOMAIN mapping THEN mapping[text[i]] ELSE <<text[i]>>) \in Seq(Symbol)
    <2>1. CASE text[i] \in DOMAIN mapping
        <3>1. mapping[text[i]] \in Seq(Chars)
            BY <2>1 DEF IsMapping
        <3> QED BY <2>1, <3>1, CharsAreSymbols
    <2>2. CASE text[i] \notin DOMAIN mapping
        <3>1. text[i] \in Symbol
            OBVIOUS
        <3>2. <<text[i]>> \in Seq(Symbol)
            BY <3>1
        <3> QED BY <2>2, <3>2
    <2> QED BY <2>1, <2>2
<1>2. p = [i \in 1 .. Len(text) |-> IF text[i] \in DOMAIN mapping THEN mapping[text[i]] ELSE <<text[i]>>]
    BY DEF Pieces
<1>3. p \in [1 .. Len(text) -> Seq(Symbol)]
    BY <1>1, <1>2
<1>4. p \in Seq(Seq(Symbol)) /\ Len(p) = Len(text)
    <2> HIDE DEF p
    <2> QED BY <1>3
<1>5. Deanonymize(text, mapping) = FlattenSeq(p)
    BY DEF Deanonymize, Pieces
<1> HIDE DEF p
<1>6. FlattenSeq(p) \in Seq(Symbol)
    BY <1>4, FlattenElements
<1> QED BY <1>4, <1>5, <1>6 DEF p

\* Two texts in a row are restored each by itself.
LEMMA DeanonymizeConcat ==
    ASSUME NEW x \in Seq(Symbol), NEW y \in Seq(Symbol), NEW mapping, IsMapping(mapping)
    PROVE  Deanonymize(x \o y, mapping) = Deanonymize(x, mapping) \o Deanonymize(y, mapping)
<1> DEFINE px == Pieces(x, mapping)
           py == Pieces(y, mapping)
           pxy == Pieces(x \o y, mapping)
<1>1. x \o y \in Seq(Symbol) /\ Len(x \o y) = Len(x) + Len(y)
    BY ConcatProperties
<1>2. /\ px \in Seq(Seq(Symbol)) /\ Len(px) = Len(x)
      /\ py \in Seq(Seq(Symbol)) /\ Len(py) = Len(y)
      /\ pxy \in Seq(Seq(Symbol)) /\ Len(pxy) = Len(x) + Len(y)
    BY <1>1, PiecesProperties
<1>3. /\ px \o py \in Seq(Seq(Symbol)) /\ Len(px \o py) = Len(x) + Len(y)
      /\ \A i \in 1 .. Len(x) + Len(y) :
            (px \o py)[i] = IF i <= Len(x) THEN px[i] ELSE py[i - Len(x)]
    <2> DEFINE S == Seq(Symbol)
    <2>1. px \in Seq(S) /\ py \in Seq(S)
        BY <1>2
    <2> HIDE DEF px, py, pxy, S
    <2>2. /\ px \o py \in Seq(S) /\ Len(px \o py) = Len(px) + Len(py)
          /\ \A i \in 1 .. Len(px) + Len(py) :
                (px \o py)[i] = IF i <= Len(px) THEN px[i] ELSE py[i - Len(px)]
        BY <2>1, ConcatProperties
    <2> QED BY <1>2, <2>2 DEF S
<1>4. ASSUME NEW i \in 1 .. Len(x) + Len(y)
      PROVE  pxy[i] = (px \o py)[i]
    <2>1. (x \o y)[i] = IF i <= Len(x) THEN x[i] ELSE y[i - Len(x)]
        BY ConcatProperties
    <2>2. i \in DOMAIN (x \o y)
        BY <1>1
    <2>3. pxy[i] = IF (x \o y)[i] \in DOMAIN mapping THEN mapping[(x \o y)[i]] ELSE <<(x \o y)[i]>>
        BY <2>2 DEF Pieces
    <2>4. CASE i <= Len(x)
        <3>1. i \in DOMAIN x
            BY <2>4
        <3>2. px[i] = IF x[i] \in DOMAIN mapping THEN mapping[x[i]] ELSE <<x[i]>>
            BY <3>1 DEF Pieces
        <3>3. (px \o py)[i] = px[i]
            BY <1>3, <2>4
        <3>4. (x \o y)[i] = x[i]
            BY <2>1, <2>4
        <3> HIDE DEF px, py, pxy
        <3> QED BY <2>3, <3>2, <3>3, <3>4
    <2>5. CASE ~(i <= Len(x))
        <3>1. i - Len(x) \in DOMAIN y
            BY <2>5
        <3>2. py[i - Len(x)] = IF y[i - Len(x)] \in DOMAIN mapping THEN mapping[y[i - Len(x)]] ELSE <<y[i - Len(x)]>>
            BY <3>1 DEF Pieces
        <3>3. (px \o py)[i] = py[i - Len(x)]
            BY <1>3, <2>5
        <3>4. (x \o y)[i] = y[i - Len(x)]
            BY <2>1, <2>5
        <3> HIDE DEF px, py, pxy
        <3> QED BY <2>3, <3>2, <3>3, <3>4
    <2> QED BY <2>4, <2>5
<1>5. pxy = px \o py
    <2> HIDE DEF px, py, pxy
    <2> DEFINE q == px \o py
               S == Seq(Symbol)
               k == Len(x) + Len(y)
    <2>1. /\ pxy \in Seq(S) /\ q \in Seq(S) /\ Len(pxy) = k /\ Len(q) = k
          /\ \A i \in 1 .. k : pxy[i] = q[i]
        BY <1>2, <1>3, <1>4
    <2> HIDE DEF q, S, k
    <2>2. pxy = q
        BY <2>1, SeqEqual
    <2> QED BY <2>2 DEF q
<1>6. /\ Deanonymize(x, mapping) = FlattenSeq(px)
      /\ Deanonymize(y, mapping) = FlattenSeq(py)
      /\ Deanonymize(x \o y, mapping) = FlattenSeq(pxy)
    BY <1>1, PiecesProperties
<1> HIDE DEF px, py, pxy
<1>7. FlattenSeq(px \o py) = FlattenSeq(px) \o FlattenSeq(py)
    BY <1>2, FlattenConcat
<1> QED BY <1>5, <1>6, <1>7

\* A placeholder becomes what it is mapped to.
LEMMA DeanonymizePlaceholder ==
    ASSUME NEW mapping, IsMapping(mapping), NEW ph \in Symbol \cap DOMAIN mapping
    PROVE  Deanonymize(<<ph>>, mapping) = mapping[ph]
<1>1. Deanonymize(<<ph>>, mapping) = FlattenSeq(<<mapping[ph]>>)
    BY DEF Deanonymize
<1>2. FlattenSeq(<<mapping[ph]>>) = mapping[ph]
    <2> DEFINE t == <<mapping[ph]>>
    <2>1. Len(t) = 1 /\ t[1] = mapping[ph]
        OBVIOUS
    <2> HIDE DEF t
    <2>2. PICK f : IsFlat(f, t)
        BY <2>1, FlatExists
    <2>3. f[1] = t[1]
        BY <2>1, <2>2 DEF IsFlat
    <2>4. FlattenSeq(t) = f[1]
        <3>1. Len(t) \in Nat \ {0}
            BY <2>1
        <3>2. FlattenSeq(t) = f[Len(t)]
            BY <2>2, <3>1, FlattenIsFlat
        <3> QED BY <2>1, <3>2
    <2> QED BY <2>1, <2>3, <2>4 DEF t
<1> QED BY <1>1, <1>2

\* A text without a placeholder stays as it is.
LEMMA DeanonymizeChars ==
    ASSUME NEW x \in Seq(Chars), NEW mapping, IsMapping(mapping)
    PROVE  Deanonymize(x, mapping) = x
<1> DEFINE T == {n \in Nat : \A t \in Seq(Chars) : Len(t) = n => Deanonymize(t, mapping) = t}
<1>1. 0 \in T
    <2> SUFFICES ASSUME NEW t \in Seq(Chars), Len(t) = 0
                 PROVE  Deanonymize(t, mapping) = t
        OBVIOUS
    <2>1. t = <<>>
        OBVIOUS
    <2>2. Deanonymize(<<>>, mapping) = FlattenSeq(<<>>)
        <3>1. [i \in DOMAIN <<>> |-> IF <<>>[i] \in DOMAIN mapping THEN mapping[<<>>[i]] ELSE <<<<>>[i]>>] = <<>>
            OBVIOUS
        <3> QED BY <3>1, Zenon DEF Deanonymize
    <2> QED BY <2>1, <2>2, FlattenEmpty
<1>2. ASSUME NEW n \in Nat, n \in T
      PROVE  n + 1 \in T
    <2> SUFFICES ASSUME NEW t \in Seq(Chars), Len(t) = n + 1
                 PROVE  Deanonymize(t, mapping) = t
        OBVIOUS
    <2>1. PICK u \in Seq(Chars), c \in Chars : t = Append(u, c)
        <3>1. t # <<>>
            OBVIOUS
        <3> QED BY <3>1, SequenceEmptyOrAppend
    <2>2. Len(u) = n
        BY <2>1, AppendProperties
    <2>3. Deanonymize(u, mapping) = u
        BY <1>2, <2>2
    <2>4. t = u \o <<c>>
        BY <2>1, AppendIsConcat
    <2>5. Deanonymize(<<c>>, mapping) = <<c>>
        <3>1. c \notin DOMAIN mapping
            BY DEF IsMapping
        <3>2. Deanonymize(<<c>>, mapping) = FlattenSeq(<<<<c>>>>)
            <4> DEFINE t1 == <<c>>
                       parts == [i \in DOMAIN t1 |->
                            IF t1[i] \in DOMAIN mapping THEN mapping[t1[i]] ELSE <<t1[i]>>]
            <4>1. DOMAIN t1 = 1 .. 1 /\ t1[1] = c
                OBVIOUS
            <4>2. parts = <<t1>>
                BY <3>1, <4>1
            <4>3. Deanonymize(t1, mapping) = FlattenSeq(parts)
                BY DEF Deanonymize
            <4> QED BY <4>2, <4>3
        <3>3. <<<<c>>>> = Append(<<>>, <<c>>) /\ <<>> \in Seq(Seq(Chars)) /\ <<c>> \in Seq(Chars)
            <4>1. <<<<c>>>> = Append(<<>>, <<c>>)
                OBVIOUS
            <4>2. <<>> \in Seq(Seq(Chars)) /\ <<c>> \in Seq(Chars)
                OBVIOUS
            <4> QED BY <4>1, <4>2
        <3>4. FlattenSeq(Append(<<>>, <<c>>)) = <<>> \o <<c>>
            BY <3>3, FlattenAppend, FlattenEmpty
        <3> QED BY <3>2, <3>3, <3>4
    <2>6. Deanonymize(u \o <<c>>, mapping) = Deanonymize(u, mapping) \o Deanonymize(<<c>>, mapping)
        <3>1. u \in Seq(Symbol) /\ <<c>> \in Seq(Symbol)
            BY CharsAreSymbols
        <3> QED BY <3>1, DeanonymizeConcat
    <2> QED BY <2>3, <2>4, <2>5, <2>6
<1> HIDE DEF T
<1>3. Len(x) \in T
    BY <1>1, <1>2, SetInduction
<1> QED BY <1>3 DEF T

-----------------------------------------------------------------------------
(* Parts of a text.                                                        *)

\* A part of a text, with its length and its characters.
LEMMA PartType ==
    ASSUME NEW S, NEW x \in Seq(S), NEW m \in Nat \ {0}, NEW n \in 0 .. Len(x)
    PROVE  /\ SubSeq(x, m, n) \in Seq(S)
           /\ Len(SubSeq(x, m, n)) = IF m <= n THEN n - m + 1 ELSE 0
           /\ \A i \in 1 .. n - m + 1 : SubSeq(x, m, n)[i] = x[m + i - 1]
<1>1. m \in Int /\ n \in Int /\ \A i \in m .. n : x[i] \in S
    OBVIOUS
<1> QED BY <1>1, SubSeqProperties

\* The beginning and the rest of two texts in a row, cut within the first.
LEMMA CutFirst ==
    ASSUME NEW S, NEW x \in Seq(S), NEW y \in Seq(S), NEW k \in 0 .. Len(x)
    PROVE  /\ SubSeq(x \o y, 1, k) = SubSeq(x, 1, k)
           /\ SubSeq(x \o y, k + 1, Len(x \o y)) = SubSeq(x, k + 1, Len(x)) \o y
<1> DEFINE xy == x \o y
           n == Len(x)
           l == Len(y)
<1>1. /\ n \in Nat /\ l \in Nat /\ k \in 0 .. n
      /\ xy \in Seq(S) /\ Len(xy) = n + l
      /\ \A i \in 1 .. n + l : xy[i] = IF i <= n THEN x[i] ELSE y[i - n]
    BY ConcatProperties
<1> DEFINE a == SubSeq(xy, 1, k)
           b == SubSeq(x, 1, k)
           c == SubSeq(xy, k + 1, n + l)
           d == SubSeq(x, k + 1, n)
           e == d \o y
<1> HIDE DEF xy
<1>2. /\ a \in Seq(S) /\ Len(a) = k /\ \A i \in 1 .. k : a[i] = xy[i]
    <2>1. 1 \in Nat \ {0} /\ k \in 0 .. Len(xy)
        BY <1>1
    <2>2. /\ a \in Seq(S) /\ Len(a) = (IF 1 <= k THEN k - 1 + 1 ELSE 0)
          /\ \A i \in 1 .. k - 1 + 1 : a[i] = xy[1 + i - 1]
        BY <1>1, <2>1, PartType
    <2> HIDE DEF a
    <2> QED BY <1>1, <2>2
<1>3. /\ b \in Seq(S) /\ Len(b) = k /\ \A i \in 1 .. k : b[i] = x[i]
    <2>1. 1 \in Nat \ {0} /\ k \in 0 .. Len(x)
        BY <1>1
    <2>2. /\ b \in Seq(S) /\ Len(b) = (IF 1 <= k THEN k - 1 + 1 ELSE 0)
          /\ \A i \in 1 .. k - 1 + 1 : b[i] = x[1 + i - 1]
        BY <2>1, PartType
    <2> HIDE DEF b
    <2> QED BY <1>1, <2>2
<1>4. /\ c \in Seq(S) /\ Len(c) = n + l - k
      /\ \A i \in 1 .. n + l - k : c[i] = xy[k + i]
    <2>1. k + 1 \in Nat \ {0} /\ n + l \in 0 .. Len(xy)
        BY <1>1
    <2>2. /\ c \in Seq(S)
          /\ Len(c) = (IF k + 1 <= n + l THEN (n + l) - (k + 1) + 1 ELSE 0)
          /\ \A i \in 1 .. (n + l) - (k + 1) + 1 : c[i] = xy[(k + 1) + i - 1]
        BY <1>1, <2>1, PartType
    <2> HIDE DEF c
    <2> QED BY <1>1, <2>2
<1>5. /\ d \in Seq(S) /\ Len(d) = n - k /\ \A i \in 1 .. n - k : d[i] = x[k + i]
    <2>1. k + 1 \in Nat \ {0} /\ n \in 0 .. Len(x)
        BY <1>1
    <2>2. /\ d \in Seq(S) /\ Len(d) = (IF k + 1 <= n THEN n - (k + 1) + 1 ELSE 0)
          /\ \A i \in 1 .. n - (k + 1) + 1 : d[i] = x[(k + 1) + i - 1]
        BY <2>1, PartType
    <2> HIDE DEF d
    <2> QED BY <1>1, <2>2
<1>6. a = b
    <2>1. \A i \in 1 .. k : a[i] = b[i]
        BY <1>1, <1>2, <1>3
    <2> HIDE DEF a, b
    <2> QED BY <1>2, <1>3, <2>1, SeqEqual
<1>7. c = e
    <2> HIDE DEF c, d
    <2>1. /\ e \in Seq(S) /\ Len(e) = (n - k) + l
          /\ \A i \in 1 .. (n - k) + l : e[i] = IF i <= n - k THEN d[i] ELSE y[i - (n - k)]
        <3>1. d \in Seq(S)
            BY <1>5
        <3>2. y \in Seq(S)
            OBVIOUS
        <3>3. /\ d \o y \in Seq(S) /\ Len(d \o y) = Len(d) + Len(y)
              /\ \A i \in 1 .. Len(d) + Len(y) :
                    (d \o y)[i] = IF i <= Len(d) THEN d[i] ELSE y[i - Len(d)]
            BY ONLY <3>1, <3>2, ConcatProperties
        <3> QED BY <1>5, <3>3
    <2> HIDE DEF e
    <2>2. \A i \in 1 .. n + l - k : c[i] = e[i]
        <3> SUFFICES ASSUME NEW i \in 1 .. n + l - k PROVE c[i] = e[i]
            OBVIOUS
        <3> HIDE DEF n, l
        <3>1. c[i] = xy[k + i] /\ k + i \in 1 .. n + l
            BY <1>1, <1>4
        <3>2. CASE i <= n - k
            BY <1>1, <1>5, <2>1, <3>1, <3>2, SMTT(30)
        <3>3. CASE ~(i <= n - k)
            <4>1. (k + i) - n = i - (n - k) /\ ~(k + i <= n) /\ i \in 1 .. (n - k) + l
                BY <1>1, <3>3
            <4> QED BY <1>1, <2>1, <3>1, <3>3, <4>1
        <3> QED BY <3>2, <3>3
    <2>3. Len(c) = Len(e)
        BY <1>1, <1>4, <2>1
    <2>4. \A i \in 1 .. Len(c) : c[i] = e[i]
        BY <1>4, <2>2
    <2> QED BY <1>4, <2>1, <2>3, <2>4, SeqEqual
<1> QED BY <1>1, <1>6, <1>7 DEF xy

\* A part of the beginning of a text.
LEMMA PrefixPart ==
    ASSUME NEW S, NEW text \in Seq(S), NEW b \in 0 .. Len(text)
    PROVE  /\ SubSeq(text, 1, b) \in Seq(S) /\ Len(SubSeq(text, 1, b)) = b
           /\ \A m \in Nat \ {0} : \A n \in 0 .. b :
                SubSeq(SubSeq(text, 1, b), m, n) = SubSeq(text, m, n)
<1> DEFINE x == SubSeq(text, 1, b)
<1>1. x \in Seq(S) /\ Len(x) = b /\ \A l \in 1 .. b : x[l] = text[l]
    <2>1. 1 \in Nat \ {0} /\ b \in 0 .. Len(text) /\ b \in Nat
        OBVIOUS
    <2>2. /\ x \in Seq(S) /\ Len(x) = (IF 1 <= b THEN b - 1 + 1 ELSE 0)
          /\ \A l \in 1 .. b - 1 + 1 : x[l] = text[1 + l - 1]
        BY <2>1, PartType
    <2> HIDE DEF x
    <2> QED BY <2>1, <2>2
<1> HIDE DEF x
<1>2. ASSUME NEW m \in Nat \ {0}, NEW n \in 0 .. b
      PROVE  SubSeq(x, m, n) = SubSeq(text, m, n)
    <2> DEFINE u == SubSeq(x, m, n)
               v == SubSeq(text, m, n)
               k == n - m + 1
    <2>1. n \in 0 .. Len(x) /\ n \in 0 .. Len(text)
        BY <1>1
    <2>2. /\ u \in Seq(S) /\ Len(u) = (IF m <= n THEN k ELSE 0)
          /\ \A l \in 1 .. k : u[l] = x[m + l - 1]
        BY <1>1, <2>1, PartType
    <2>3. /\ v \in Seq(S) /\ Len(v) = (IF m <= n THEN k ELSE 0)
          /\ \A l \in 1 .. k : v[l] = text[m + l - 1]
        BY <2>1, PartType
    <2> HIDE DEF u, v
    <2>4. ASSUME NEW l \in 1 .. Len(u)
          PROVE  u[l] = v[l]
        <3>1. m <= n /\ l \in 1 .. k
            BY <2>2
        <3>2. m + l - 1 \in 1 .. b
            BY <3>1
        <3>3. u[l] = x[m + l - 1] /\ v[l] = text[m + l - 1]
            BY <2>2, <2>3, <3>1
        <3> QED BY <1>1, <3>2, <3>3
    <2>5. Len(u) = Len(v)
        BY <2>2, <2>3
    <2>6. u = v
        BY <2>2, <2>3, <2>4, <2>5, SeqEqual
    <2> QED BY <2>6 DEF u, v
<1> QED BY <1>1, <1>2 DEF x

-----------------------------------------------------------------------------
(* What anonymize maps.                                                    *)

Item == Placeholder \X Seq(Chars)

OfType(items, t) == {i \in DOMAIN items : items[i][1][1] = t}

\* The placeholders of each type are numbered from one on, and none comes twice.
Numbered(items) ==
    /\ \A i \in DOMAIN items :
        items[i][1][2] <= Cardinality(OfType(items, items[i][1][1]))
    /\ \A i, j \in DOMAIN items : i # j => items[i][1] # items[j][1]

\* The next placeholder of a type is a new one.
LEMMA NumberedNext ==
    ASSUME NEW items \in Seq(Item), Numbered(items),
           NEW t \in STRING \ {"char"}, NEW original \in Seq(Chars)
    PROVE  LET item == <<<<t, 1 + Cardinality(OfType(items, t))>>, original>>
               next == Append(items, item)
           IN  item \in Item /\ next \in Seq(Item) /\ Numbered(next)
<1> DEFINE n == Len(items)
           k == Cardinality(OfType(items, t))
           item == <<<<t, 1 + k>>, original>>
           next == Append(items, item)
<1>1. n \in Nat /\ DOMAIN items = 1 .. n
    OBVIOUS
<1>2. \A u : IsFiniteSet(OfType(items, u)) /\ Cardinality(OfType(items, u)) \in Nat
    <2>1. IsFiniteSet(1 .. n)
        BY <1>1, FS_Interval
    <2>2. \A u : OfType(items, u) \subseteq 1 .. n
        BY <1>1 DEF OfType
    <2> QED BY <2>1, <2>2, FS_Subset, FS_CardinalityType
<1>3. item \in Item
    BY <1>2 DEF Item, Placeholder
<1>4. item[1] = <<t, 1 + k>> /\ item[1][1] = t /\ item[1][2] = 1 + k
    OBVIOUS
<1> HIDE DEF item
<1>5. /\ next \in Seq(Item) /\ DOMAIN next = 1 .. n + 1
      /\ \A i \in 1 .. n : next[i] = items[i]
      /\ next[n + 1] = item
    BY <1>3, AppendProperties
<1> HIDE DEF next, n
<1>6. /\ \A i \in 1 .. n + 1 : i \in 1 .. n \/ i = n + 1
      /\ \A i \in 1 .. n : i \in 1 .. n + 1 /\ i # n + 1
      /\ n + 1 \in 1 .. n + 1
    BY <1>1
<1>7. OfType(next, t) = OfType(items, t) \cup {n + 1} /\ n + 1 \notin OfType(items, t)
    BY <1>1, <1>4, <1>5, <1>6 DEF OfType
<1>8. \A u : u # t => OfType(next, u) = OfType(items, u)
    BY <1>1, <1>4, <1>5, <1>6 DEF OfType
<1>9. Cardinality(OfType(next, t)) = k + 1
    <2>1. Cardinality(OfType(items, t) \cup {n + 1}) = Cardinality(OfType(items, t)) + 1
        BY <1>2, <1>7, FS_AddElement
    <2> QED BY <1>7, <2>1
<1>10. ASSUME NEW i \in 1 .. n
       PROVE  /\ items[i][1][2] \in Nat
              /\ items[i][1][2] <= Cardinality(OfType(items, items[i][1][1]))
    <2>1. items[i] \in Item
        BY <1>1
    <2> QED BY <1>1, <2>1 DEF Item, Placeholder, Numbered
<1>11. ASSUME NEW i \in 1 .. n + 1
       PROVE  next[i][1][2] <= Cardinality(OfType(next, next[i][1][1]))
    <2>1. CASE i = n + 1
        BY <1>2, <1>4, <1>5, <1>9, <2>1
    <2>2. CASE i \in 1 .. n
        <3> DEFINE u == items[i][1][1]
                   v == items[i][1][2]
        <3>1. v \in Nat /\ v <= Cardinality(OfType(items, u)) /\ next[i][1][1] = u /\ next[i][1][2] = v
            BY <1>5, <1>10, <2>2
        <3> HIDE DEF u, v
        <3>2. CASE u = t
            BY <1>2, <1>9, <3>1, <3>2
        <3>3. CASE u # t
            BY <1>8, <3>1, <3>3
        <3> QED BY <3>2, <3>3
    <2> QED BY <1>6, <2>1, <2>2
<1>12. ASSUME NEW i \in 1 .. n
       PROVE  items[i][1] # item[1]
    <2> SUFFICES ASSUME items[i][1] = item[1] PROVE FALSE
        OBVIOUS
    <2>1. items[i][1][1] = t /\ items[i][1][2] = 1 + k
        BY <1>4
    <2>2. 1 + k <= k
        BY <1>10, <2>1
    <2> QED BY <1>2, <2>2
<1>13. ASSUME NEW i \in 1 .. n + 1, NEW j \in 1 .. n + 1, i # j
       PROVE  next[i][1] # next[j][1]
    <2>1. CASE i = n + 1
        BY <1>5, <1>6, <1>12, <1>13, <2>1
    <2>2. CASE j = n + 1
        BY <1>5, <1>6, <1>12, <1>13, <2>2
    <2>3. CASE i \in 1 .. n /\ j \in 1 .. n
        BY <1>1, <1>5, <1>13, <2>3 DEF Numbered
    <2> QED BY <1>6, <2>1, <2>2, <2>3
<1>14. Numbered(next)
    BY <1>5, <1>11, <1>13 DEF Numbered
<1> QED BY <1>3, <1>5, <1>14 DEF item, next

\* mapping has these items.
Restores(mapping, items) ==
    \A i \in DOMAIN items : items[i][1] \in DOMAIN mapping /\ mapping[items[i][1]] = items[i][2]

\* What the loop in anonymize has done after each replacement.
IsMasking(f, text, spans) ==
    f = [n \in 0 .. Len(spans) |-> IF n = 0 THEN [text |-> text, mapping |-> <<>>]
                                   ELSE Replace(text, f[n - 1], spans[n])]

\* There is such a function, so that the recursive definition defines one.
LEMMA MaskingExists ==
    ASSUME NEW text, NEW spans, Len(spans) \in Nat
    PROVE  \E f : IsMasking(f, text, spans)
<1> DEFINE Step(f, n) == IF n = 0 THEN [text |-> text, mapping |-> <<>>]
                         ELSE Replace(text, f[n - 1], spans[n])
           T == {m \in Nat : \E f : f = [n \in 0 .. m |-> Step(f, n)]}
<1>1. 0 \in T
    <2> DEFINE f == [n \in 0 .. 0 |-> [text |-> text, mapping |-> <<>>]]
    <2>1. f = [n \in 0 .. 0 |-> Step(f, n)]
        OBVIOUS
    <2> HIDE DEF f
    <2> QED BY <2>1
<1>2. ASSUME NEW m \in Nat, m \in T
      PROVE  m + 1 \in T
    <2>1. PICK f : f = [n \in 0 .. m |-> Step(f, n)]
        BY <1>2
    <2> DEFINE g == [n \in 0 .. m + 1 |-> IF n <= m THEN f[n] ELSE Step(f, n)]
    <2>2. ASSUME NEW n \in 0 .. m + 1
          PROVE  g[n] = Step(g, n)
        <3>1. Step(g, n) = Step(f, n)
            <4>1. CASE n = 0
                BY <4>1
            <4>2. CASE n # 0
                <5>1. g[n - 1] = f[n - 1]
                    BY <4>2
                <5> HIDE DEF g
                <5> QED BY <4>2, <5>1
            <4> QED BY <4>1, <4>2
        <3> HIDE DEF Step
        <3>2. n <= m => f[n] = Step(f, n)
            BY <2>1
        <3> QED BY <3>1, <3>2
    <2> HIDE DEF Step
    <2>3. g = [n \in 0 .. m + 1 |-> g[n]]
        OBVIOUS
    <2> HIDE DEF g
    <2>4. g = [n \in 0 .. m + 1 |-> Step(g, n)]
        BY <2>2, <2>3
    <2> QED BY <2>4
<1> HIDE DEF T
<1>3. Len(spans) \in T
    BY <1>1, <1>2, SetInduction
<1> QED BY <1>3 DEF T, IsMasking

\* The spans are in the text, each before the one taken before it.
FromRight(spans, text) ==
    /\ spans \in Seq(Span)
    /\ \A i \in DOMAIN spans : spans[i].start < spans[i].end /\ spans[i].end <= Len(text)
    /\ \A i, j \in DOMAIN spans : i < j => spans[j].end <= spans[i].start

\* A text that is masked from its b-th character on.
IsMasked(acc, text, b) ==
    /\ acc.mapping \in Seq(Item) /\ Numbered(acc.mapping)
    /\ \E tail \in Seq(Symbol) :
        /\ acc.text = SubSeq(text, 1, b) \o tail
        /\ \A mapping : IsMapping(mapping) /\ Restores(mapping, acc.mapping) =>
            Deanonymize(tail, mapping) = SubSeq(text, b + 1, Len(text))

\* One replacement, before everything that is masked.
LEMMA ReplaceMasks ==
    ASSUME NEW text \in Seq(Chars), NEW b \in 0 .. Len(text), NEW acc, IsMasked(acc, text, b),
           NEW r \in Span, r.start < r.end, r.end <= b
    PROVE  IsMasked(Replace(text, acc, r), text, r.start)
<1> DEFINE i == r.start
           j == r.end
           t == r.type
           k == Cardinality(OfType(acc.mapping, t))
           ph == <<t, 1 + k>>
           original == SubSeq(text, i + 1, j)
           between == SubSeq(text, j + 1, b)
           rest == SubSeq(text, b + 1, Len(text))
           next == Append(acc.mapping, <<ph, original>>)
<1>1. /\ i \in Nat /\ j \in Nat /\ b \in Nat /\ i < j /\ j <= b /\ b <= Len(text)
      /\ Len(text) \in Nat /\ t \in STRING \ {"char"}
    BY DEF Span
<1>2. /\ acc.mapping \in Seq(Item) /\ Numbered(acc.mapping)
    BY DEF IsMasked
<1>3. PICK tail \in Seq(Symbol) :
        /\ acc.text = SubSeq(text, 1, b) \o tail
        /\ \A mapping : IsMapping(mapping) /\ Restores(mapping, acc.mapping) =>
            Deanonymize(tail, mapping) = rest
    BY DEF IsMasked
<1>4. Replace(text, acc, r) =
        [text |-> SubSeq(acc.text, 1, i) \o <<ph>> \o SubSeq(acc.text, j + 1, Len(acc.text)),
         mapping |-> next]
    BY DEF Replace, OfType
<1> HIDE DEF i, j, t, k
<1>5. original \in Seq(Chars) /\ between \in Seq(Chars) /\ rest \in Seq(Chars)
    <2>1. /\ i + 1 \in Nat \ {0} /\ j + 1 \in Nat \ {0} /\ b + 1 \in Nat \ {0}
          /\ j \in 0 .. Len(text) /\ b \in 0 .. Len(text) /\ Len(text) \in 0 .. Len(text)
        BY <1>1
    <2>2. \A m \in Nat \ {0} : \A n \in 0 .. Len(text) : SubSeq(text, m, n) \in Seq(Chars)
        BY PartType
    <2> QED BY <2>1, <2>2
<1>6. <<ph, original>> \in Item /\ next \in Seq(Item) /\ Numbered(next)
    BY <1>1, <1>2, <1>5, NumberedNext DEF k
<1>7. ph \in Symbol
    BY <1>6 DEF Item, Symbol
<1> DEFINE x == SubSeq(text, 1, b)
           newTail == <<ph>> \o (between \o tail)
<1>8. /\ x \in Seq(Chars) /\ Len(x) = b
      /\ SubSeq(x, 1, i) = SubSeq(text, 1, i) /\ SubSeq(x, j + 1, b) = between
    <2>1. x \in Seq(Chars) /\ Len(x) = b
        BY PrefixPart
    <2>2. \A m \in Nat \ {0} : \A n \in 0 .. b : SubSeq(x, m, n) = SubSeq(text, m, n)
        BY PrefixPart
    <2> HIDE DEF x
    <2>3. 1 \in Nat \ {0} /\ j + 1 \in Nat \ {0} /\ i \in 0 .. b /\ b \in 0 .. b
        BY <1>1
    <2> QED BY <2>1, <2>2, <2>3
<1>9. Seq(Chars) \subseteq Seq(Symbol)
    BY CharsAreSymbols
<1>11. between \in Seq(Symbol) /\ <<ph>> \in Seq(Symbol) /\ between \o tail \in Seq(Symbol)
    <2>1. between \in Seq(Symbol)
        BY <1>5, <1>9
    <2> HIDE DEF between, ph
    <2> QED BY <1>7, <2>1, ConcatProperties
<1>10. SubSeq(acc.text, 1, i) \o <<ph>> \o SubSeq(acc.text, j + 1, Len(acc.text))
            = SubSeq(text, 1, i) \o newTail
    <2> DEFINE z == <<ph>>
    <2>1. x \in Seq(Symbol)
        BY <1>8, <1>9
    <2>2. z \in Seq(Symbol)
        BY <1>7
    <2>3. i \in 0 .. Len(x)
        BY <1>1, <1>8
    <2>4. j \in 0 .. Len(x)
        BY <1>1, <1>8
    <2>5. acc.text = x \o tail
        BY <1>3
    <2>6. tail \in Seq(Symbol)
        OBVIOUS
    <2> DEFINE a == SubSeq(text, 1, i)
               c == between \o tail
    <2> HIDE DEF x, z, ph
    <2>7. SubSeq(x \o tail, 1, i) = SubSeq(x, 1, i)
        BY ONLY <2>1, <2>3, <2>6, CutFirst
    <2>8. SubSeq(x \o tail, j + 1, Len(x \o tail)) = SubSeq(x, j + 1, Len(x)) \o tail
        BY ONLY <2>1, <2>4, <2>6, CutFirst
    <2>9. a \in Seq(Symbol)
        <3>1. a \in Seq(Chars)
            BY <1>1, PrefixPart
        <3> QED BY <1>9, <3>1
    <2>10. c \in Seq(Symbol)
        BY <1>11
    <2> HIDE DEF a, c, original, between, rest, next, newTail
    <2>11. SubSeq(acc.text, 1, i) \o z \o SubSeq(acc.text, j + 1, Len(acc.text)) = (a \o z) \o c
        BY <1>8, <2>5, <2>7, <2>8 DEF a, c
    <2>12. (a \o z) \o c = a \o (z \o c)
        BY ONLY <2>2, <2>9, <2>10, ConcatInRow, SMTT(60)
    <2> QED BY <2>11, <2>12 DEF a, c, z, newTail
<1> HIDE DEF x
<1>12. newTail \in Seq(Symbol)
    <2> HIDE DEF between, ph
    <2> QED BY <1>11, ConcatProperties
<1>13. ASSUME NEW mapping, IsMapping(mapping), Restores(mapping, next)
       PROVE  Deanonymize(newTail, mapping) = SubSeq(text, i + 1, Len(text))
    <2> DEFINE item == <<ph, original>>
    <2>1. item[1] = ph /\ item[2] = original /\ item \in Item
        BY <1>6
    <2> HIDE DEF item, ph, original, between, rest
    <2>2. /\ \A m \in DOMAIN acc.mapping : m \in DOMAIN next /\ next[m] = acc.mapping[m]
          /\ Len(acc.mapping) + 1 \in DOMAIN next /\ next[Len(acc.mapping) + 1] = item
        BY <1>2, <2>1, AppendProperties DEF item
    <2> HIDE DEF next
    <2>3. ph \in DOMAIN mapping /\ mapping[ph] = original
        BY <1>13, <2>1, <2>2 DEF Restores
    <2>4. Restores(mapping, acc.mapping)
        BY <1>13, <2>2 DEF Restores
    <2>5. Deanonymize(tail, mapping) = rest
        BY <1>3, <1>13, <2>4
    <2>6. Deanonymize(between, mapping) = between
        BY <1>5, <1>13, DeanonymizeChars
    <2>7. Deanonymize(<<ph>>, mapping) = original
        BY <1>7, <1>13, <2>3, DeanonymizePlaceholder
    <2> DEFINE z == <<ph>>
               w == between \o tail
    <2>12. between \in Seq(Symbol) /\ z \in Seq(Symbol) /\ w \in Seq(Symbol)
        BY <1>11
    <2>13. IsMapping(mapping)
        BY <1>13
    <2>14. tail \in Seq(Symbol)
        OBVIOUS
    <2>8. Deanonymize(w, mapping) = between \o rest
        <3>1. Deanonymize(between \o tail, mapping) = Deanonymize(between, mapping) \o Deanonymize(tail, mapping)
            BY ONLY <2>12, <2>13, <2>14, DeanonymizeConcat
        <3> QED BY <2>5, <2>6, <3>1
    <2>9. Deanonymize(newTail, mapping) = original \o (between \o rest)
        <3> HIDE DEF z, w
        <3>1. Deanonymize(z \o w, mapping) = Deanonymize(z, mapping) \o Deanonymize(w, mapping)
            BY ONLY <2>12, <2>13, DeanonymizeConcat, SMTT(30)
        <3>2. newTail = z \o w
            BY DEF z, w
        <3>3. Deanonymize(z, mapping) = original
            BY <2>7 DEF z
        <3> HIDE DEF newTail
        <3> QED BY <2>8, <3>1, <3>2, <3>3
    <2>10. between \o rest = SubSeq(text, j + 1, Len(text))
        <3>1. j + 1 \in 1 .. Len(text) + 1 /\ b \in (j + 1) - 1 .. Len(text) /\ Len(text) \in b .. Len(text)
            BY <1>1
        <3> QED BY <3>1, ConcatAdjacentSubSeq DEF between, rest
    <2>11. original \o SubSeq(text, j + 1, Len(text)) = SubSeq(text, i + 1, Len(text))
        <3>1. i + 1 \in 1 .. Len(text) + 1 /\ j \in (i + 1) - 1 .. Len(text) /\ Len(text) \in j .. Len(text)
            BY <1>1
        <3> QED BY <3>1, ConcatAdjacentSubSeq DEF original
    <2> QED BY <2>9, <2>10, <2>11
<1>14. IsMasked([text |-> SubSeq(text, 1, i) \o newTail, mapping |-> next], text, i)
    <2> HIDE DEF newTail, next
    <2> QED BY <1>6, <1>12, <1>13 DEF IsMasked
<1>15. Replace(text, acc, r) = [text |-> SubSeq(text, 1, i) \o newTail, mapping |-> next]
    BY <1>4, <1>10
<1> QED BY <1>14, <1>15 DEF i

\* Before the loop nothing is masked.
LEMMA NothingMasked ==
    ASSUME NEW text \in Seq(Chars)
    PROVE  IsMasked([text |-> text, mapping |-> <<>>], text, Len(text))
<1> DEFINE n == Len(text)
<1>1. n \in Nat /\ SubSeq(text, 1, n) = text
    BY SubSeqFull
<1>2. SubSeq(text, n + 1, n) = <<>>
    BY <1>1, SubSeqEmpty
<1>3. <<>> \in Seq(Item) /\ Numbered(<<>>) /\ <<>> \in Seq(Symbol) /\ <<>> \in Seq(Chars)
    BY DEF Numbered
<1>4. text = text \o <<>>
    BY ConcatEmptySeq
<1>5. \A mapping : IsMapping(mapping) => Deanonymize(<<>>, mapping) = <<>>
    BY <1>3, DeanonymizeChars
<1> QED BY <1>1, <1>2, <1>3, <1>4, <1>5 DEF IsMasked

\* After the whole loop the text is masked from some place on.
LEMMA MaskedIsMasked ==
    ASSUME NEW text \in Seq(Chars), NEW spans, FromRight(spans, text)
    PROVE  \E b \in 0 .. Len(text) : IsMasked(Masked(text, spans), text, b)
<1> DEFINE acc[n \in 0 .. Len(spans)] ==
               IF n = 0 THEN [text |-> text, mapping |-> <<>>]
               ELSE Replace(text, acc[n - 1], spans[n])
           From(n) == IF n = 0 THEN Len(text) ELSE spans[n].start
           T == {n \in Nat : n <= Len(spans) =>
                    From(n) \in 0 .. Len(text) /\ IsMasked(acc[n], text, From(n))}
<1>1. Masked(text, spans) = acc[Len(spans)]
    BY DEF Masked
<1>2. spans \in Seq(Span) /\ Len(spans) \in Nat /\ DOMAIN spans = 1 .. Len(spans) /\ Len(text) \in Nat
    BY DEF FromRight
<1>3. IsMasking(acc, text, spans)
    <2>1. \E f : IsMasking(f, text, spans)
        BY <1>2, MaskingExists
    <2> QED BY <2>1, Zenon DEF IsMasking
<1> HIDE DEF acc
<1>4. acc[0] = [text |-> text, mapping |-> <<>>]
    BY <1>2, <1>3 DEF IsMasking
<1>5. ASSUME NEW n \in Nat, n + 1 <= Len(spans)
      PROVE  acc[n + 1] = Replace(text, acc[n], spans[n + 1])
    <2>1. n + 1 \in 0 .. Len(spans) /\ n + 1 # 0 /\ (n + 1) - 1 = n
        BY <1>2, <1>5
    <2> QED BY <1>3, <2>1 DEF IsMasking
<1>6. 0 \in T
    <2>1. IsMasked(acc[0], text, Len(text))
        BY <1>4, NothingMasked
    <2> QED BY <1>2, <2>1
<1>7. ASSUME NEW n \in Nat, n \in T
      PROVE  n + 1 \in T
    <2> SUFFICES ASSUME n + 1 <= Len(spans)
                 PROVE  From(n + 1) \in 0 .. Len(text) /\ IsMasked(acc[n + 1], text, From(n + 1))
        OBVIOUS
    <2> DEFINE r == spans[n + 1]
               b == From(n)
    <2>1. b \in 0 .. Len(text) /\ IsMasked(acc[n], text, b)
        BY <1>2, <1>7
    <2>2. n + 1 \in DOMAIN spans /\ r \in Span
        BY <1>2
    <2>3. r.start < r.end /\ r.end <= b
        <3>1. r.start < r.end /\ r.end <= Len(text)
            BY <2>2 DEF FromRight
        <3>2. CASE n = 0
            BY <3>1, <3>2
        <3>3. CASE n # 0
            <4>1. n \in DOMAIN spans /\ n < n + 1
                BY <1>2, <3>3
            <4>2. r.end <= spans[n].start
                BY <2>2, <4>1 DEF FromRight
            <4> QED BY <3>1, <3>3, <4>2
        <3> QED BY <3>2, <3>3
    <2>4. From(n + 1) = r.start
        OBVIOUS
    <2> HIDE DEF r, b, T
    <2>5. IsMasked(Replace(text, acc[n], r), text, r.start)
        BY <2>1, <2>2, <2>3, ReplaceMasks
    <2>6. acc[n + 1] = Replace(text, acc[n], r)
        BY <1>5 DEF r
    <2>7. r.start \in 0 .. Len(text)
        BY <1>2, <2>1, <2>2, <2>3 DEF Span
    <2> HIDE DEF From
    <2> QED BY <2>4, <2>5, <2>6, <2>7
<1> HIDE DEF T
<1>8. Len(spans) \in T
    BY <1>2, <1>6, <1>7, SetInduction
<1>9. From(Len(spans)) \in 0 .. Len(text) /\ IsMasked(acc[Len(spans)], text, From(Len(spans)))
    BY <1>2, <1>8 DEF T
<1> HIDE DEF From
<1> QED BY <1>1, <1>9

\* The spans are replaced from the right.
LEMMA ReversedFromRight ==
    ASSUME NEW text, NEW found \in FoundIn(text)
    PROVE  FromRight(Reverse(RemoveOverlaps(found)), text)
<1> DEFINE kept == RemoveOverlaps(found)
           n == Len(kept)
           spans == Reverse(kept)
<1>1. /\ kept \in Seq(ToSet(found)) /\ n \in Nat
      /\ \A i, j \in 1 .. n : i < j => kept[i].end <= kept[j].start
    BY RemoveOverlapsProperties
<1> HIDE DEF kept
<1>2. \A a \in ToSet(found) : a \in Span /\ a.start < a.end /\ a.end <= Len(text)
    BY FoundSpans
<1>3. spans = [i \in 1 .. n |-> kept[(n - i) + 1]]
    BY DEF Reverse
<1>4. ASSUME NEW i \in 1 .. n
      PROVE  /\ (n - i) + 1 \in 1 .. n /\ spans[i] = kept[(n - i) + 1]
             /\ kept[(n - i) + 1] \in ToSet(found)
    <2>1. (n - i) + 1 \in 1 .. n
        BY <1>1
    <2>2. \A k \in 1 .. n : kept[k] \in ToSet(found)
        BY <1>1
    <2>3. spans[i] = kept[(n - i) + 1]
        BY <1>3
    <2> QED BY <2>1, <2>2, <2>3
<1> HIDE DEF spans, n
<1>5. spans \in Seq(Span) /\ DOMAIN spans = 1 .. n
    <2>1. \A i \in 1 .. n : kept[(n - i) + 1] \in Span
        BY <1>2, <1>4
    <2>2. spans \in [1 .. n -> Span]
        BY <1>3, <2>1
    <2> QED BY <1>1, <2>2
<1>6. \A i \in 1 .. n : spans[i].start < spans[i].end /\ spans[i].end <= Len(text)
    BY <1>2, <1>4
<1>7. ASSUME NEW i \in 1 .. n, NEW j \in 1 .. n, i < j
      PROVE  spans[j].end <= spans[i].start
    <2>1. (n - j) + 1 < (n - i) + 1
        BY <1>1, <1>7
    <2> QED BY <1>1, <1>4, <2>1
<1> QED BY <1>5, <1>6, <1>7 DEF FromRight, spans, kept

\* A masked text whose placeholders are mapped to the originals becomes itself again,
\* and no placeholder is given twice in a text (engine.py 217-252).
THEOREM AnonymizeProperties ==
    ASSUME NEW text \in Seq(Chars), NEW found \in FoundIn(text)
    PROVE  LET masked == Anonymize(text, found)
           IN  /\ masked.mapping \in Seq(Item) /\ Numbered(masked.mapping)
               /\ \A mapping : IsMapping(mapping) /\ Restores(mapping, masked.mapping) =>
                    Deanonymize(masked.text, mapping) = text
<1> DEFINE acc == Anonymize(text, found)
<1>1. PICK b \in 0 .. Len(text) : IsMasked(acc, text, b)
    <2>1. FromRight(Reverse(RemoveOverlaps(found)), text)
        BY ReversedFromRight
    <2> QED BY <2>1, MaskedIsMasked DEF Anonymize
<1> HIDE DEF acc
<1>2. acc.mapping \in Seq(Item) /\ Numbered(acc.mapping)
    BY <1>1 DEF IsMasked
<1>3. PICK tail \in Seq(Symbol) :
        /\ acc.text = SubSeq(text, 1, b) \o tail
        /\ \A mapping : IsMapping(mapping) /\ Restores(mapping, acc.mapping) =>
            Deanonymize(tail, mapping) = SubSeq(text, b + 1, Len(text))
    BY <1>1 DEF IsMasked
<1>4. ASSUME NEW mapping, IsMapping(mapping), Restores(mapping, acc.mapping)
      PROVE  Deanonymize(acc.text, mapping) = text
    <2> DEFINE x == SubSeq(text, 1, b)
               y == SubSeq(text, b + 1, Len(text))
    <2>1. x \in Seq(Chars)
        BY PrefixPart
    <2>2. x \in Seq(Symbol)
        BY <2>1, CharsAreSymbols
    <2>3. x \o y = text
        <3>1. 1 \in 1 .. Len(text) + 1 /\ b \in 1 - 1 .. Len(text) /\ Len(text) \in b .. Len(text)
            OBVIOUS
        <3>2. x \o y = SubSeq(text, 1, Len(text))
            BY <3>1, ConcatAdjacentSubSeq
        <3> QED BY <3>2, SubSeqFull
    <2>4. Deanonymize(tail, mapping) = y /\ acc.text = x \o tail
        BY <1>3, <1>4
    <2> HIDE DEF x, y
    <2>5. Deanonymize(x, mapping) = x
        BY <1>4, <2>1, DeanonymizeChars
    <2>6. Deanonymize(x \o tail, mapping) = Deanonymize(x, mapping) \o Deanonymize(tail, mapping)
        BY <1>4, <2>2, DeanonymizeConcat
    <2> QED BY <2>3, <2>4, <2>5, <2>6
<1> QED BY <1>2, <1>4 DEF acc
=============================================================================
