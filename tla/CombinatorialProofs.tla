------------------------- MODULE CombinatorialProofs -------------------------
(* Proofs about the combinatorial executor, for any INI files with any number *)
(* of sections, options and lists, any names and wild cards, any number of    *)
(* descriptors, and any results of the combinations.                          *)
EXTENDS Combinatorial, FiniteSetTheorems, WellFoundedInduction, TLAPS

\* Of some numbers there is a least one.
LEMMA Least ==
    ASSUME NEW T \in SUBSET Nat, T # {}
    PROVE  \E x \in T : \A y \in T : x <= y
<1>1. IsWellFoundedOn(OpToRel(<, Nat), Nat)
    BY NatLessThanWellFounded
<1>2. PICK x \in T : \A y \in T : ~(<<y, x>> \in OpToRel(<, Nat))
    BY <1>1, WFMin
<1>3. ASSUME NEW y \in T PROVE x <= y
    <2>1. x \in Nat /\ y \in Nat
        OBVIOUS
    <2>2. y < x => <<y, x>> \in OpToRel(<, Nat)
        BY <2>1 DEF OpToRel
    <2>3. ~(y < x)
        BY <1>2, <2>2
    <2>. QED
        BY <2>1, <2>3
<1>. QED
    BY <1>3

\* What is so of none, and of one more whenever it is so of some, is so of all
\* up to a bound.
LEMMA Induction ==
    ASSUME NEW n \in Nat, NEW T \in SUBSET (0 .. n), 0 \in T,
           \A i \in 0 .. n : i \in T /\ i < n => i + 1 \in T
    PROVE  T = 0 .. n
<1> SUFFICES ASSUME T # 0 .. n PROVE FALSE
    OBVIOUS
<1> DEFINE Rest == (0 .. n) \ T
<1>1. Rest \in SUBSET Nat /\ Rest # {}
    <2>1. Rest \in SUBSET Nat
        OBVIOUS
    <2>2. PICK y : ~(y \in T <=> y \in 0 .. n)
        BY Zenon
    <2>3. y \in Rest
        BY <2>2, Zenon
    <2>. QED
        BY <2>1, <2>3
<1>2. PICK x \in Rest : \A y \in Rest : x <= y
    BY <1>1, Least
<1>3. x \in Nat /\ x # 0 /\ x <= n
    BY <1>2
<1>4. x - 1 \in 0 .. n /\ x - 1 \notin Rest /\ x - 1 < n
    BY <1>2, <1>3
<1>5. x - 1 + 1 \in T
    BY <1>4
<1>. QED
    BY <1>2, <1>3, <1>5

\* A value for each number up to a bound, from the one before it.
IsRecursion(g, n, base, h) == g[0] = base /\ \A i \in 1 .. n : g[i] = h[i][g[i - 1]]

LEMMA Recursion ==
    ASSUME NEW n \in Nat, NEW S, NEW base \in S, NEW h,
           \A i \in 1 .. n, t \in S : h[i][t] \in S
    PROVE  \E g \in [0 .. n -> S] : IsRecursion(g, n, base, h)
<1> DEFINE T == {m \in 0 .. n : \E g \in [0 .. m -> S] : IsRecursion(g, m, base, h)}
<1>1. 0 \in T
    <2> DEFINE g == [i \in 0 .. 0 |-> base]
    <2>1. g \in [0 .. 0 -> S] /\ g[0] = base
        OBVIOUS
    <2>2. \A i \in 1 .. 0 : FALSE
        OBVIOUS
    <2> HIDE DEF g
    <2>3. IsRecursion(g, 0, base, h)
        BY <2>1, <2>2 DEF IsRecursion
    <2>. QED
        BY <2>1, <2>3
<1>2. ASSUME NEW m \in 0 .. n, m \in T, m < n PROVE m + 1 \in T
    <2>1. PICK g \in [0 .. m -> S] : IsRecursion(g, m, base, h)
        BY <1>2
    <2> HIDE DEF T
    <2> DEFINE k == [i \in 0 .. m + 1 |-> IF i = m + 1 THEN h[m + 1][g[m]] ELSE g[i]]
    <2>2. m \in Nat /\ m \in 0 .. m /\ m + 1 \in 1 .. n /\ m + 1 \in 0 .. n /\ 0 \in 0 .. m
        BY <1>2
    <2>3. g[m] \in S
        BY <2>2
    <2>4. h[m + 1][g[m]] \in S
        BY <2>2, <2>3
    <2>5. \A i \in 0 .. m + 1 : i # m + 1 => i \in 0 .. m
        BY <2>2
    <2>6. k \in [0 .. m + 1 -> S]
        BY <2>4, <2>5
    <2>7. \A i \in 0 .. m : k[i] = g[i]
        BY <2>2
    <2>8. k[m + 1] = h[m + 1][g[m]]
        BY <2>2
    <2> HIDE DEF k
    <2>9. k[0] = base
        BY <2>1, <2>2, <2>7 DEF IsRecursion
    <2>10. ASSUME NEW i \in 1 .. m + 1 PROVE k[i] = h[i][k[i - 1]]
        <3>1. CASE i = m + 1
            <4>1. i - 1 = m
                BY <2>2, <3>1
            <4>. QED
                BY <2>2, <2>7, <2>8, <3>1, <4>1
        <3>2. CASE i # m + 1
            <4>1. i \in 1 .. m /\ i \in 0 .. m /\ i - 1 \in 0 .. m
                BY <2>2, <3>2
            <4>. QED
                BY <2>1, <2>7, <4>1 DEF IsRecursion
        <3>. QED
            BY <3>1, <3>2
    <2>11. IsRecursion(k, m + 1, base, h)
        BY <2>9, <2>10 DEF IsRecursion
    <2>. QED
        BY <2>2, <2>6, <2>11 DEF T
<1>3. T \in SUBSET (0 .. n)
    OBVIOUS
<1>4. T = 0 .. n
    <2> HIDE DEF T
    <2>. QED
        BY <1>1, <1>2, <1>3, Induction
<1>5. n \in T
    <2> HIDE DEF T
    <2>. QED
        BY <1>4
<1>. QED
    BY <1>5

\* What is so of the first of some values, and of the next whenever it is so of
\* one, is so of all of them.
LEMMA RecursionType ==
    ASSUME NEW n \in Nat, NEW S, NEW g, g[0] \in S,
           \A i \in 1 .. n : g[i - 1] \in S => g[i] \in S
    PROVE  \A i \in 0 .. n : g[i] \in S
<1> DEFINE T == {m \in 0 .. n : g[m] \in S}
<1>1. 0 \in T
    OBVIOUS
<1>2. ASSUME NEW m \in 0 .. n, m \in T, m < n PROVE m + 1 \in T
    <2>1. m + 1 \in 1 .. n /\ m + 1 - 1 = m /\ m + 1 \in 0 .. n
        BY <1>2
    <2>2. g[m] \in S
        BY <1>2
    <2>. QED
        BY <2>1, <2>2
<1>3. T \in SUBSET (0 .. n)
    OBVIOUS
<1>4. T = 0 .. n
    <2> HIDE DEF T
    <2>. QED
        BY <1>1, <1>2, <1>3, Induction
<1>. QED
    BY <1>4
-----------------------------------------------------------------------------
(* Those of a list that are in a set                                         *)

Upto(list, X) ==
    LET upTo[i \in 0 .. Len(list)] ==
            IF i = 0 THEN <<>>
            ELSE IF list[i] \in X THEN Append(upTo[i - 1], list[i]) ELSE upTo[i - 1]
    IN  upTo

IsUpto(g, list, X) ==
    g = [i \in 0 .. Len(list) |->
            IF i = 0 THEN <<>>
            ELSE IF list[i] \in X THEN Append(g[i - 1], list[i]) ELSE g[i - 1]]

LEMMA UptoFacts ==
    ASSUME NEW S, NEW list \in Seq(S), NEW X
    PROVE  /\ Those(list, X) = Upto(list, X)[Len(list)]
           /\ Upto(list, X)[0] = <<>>
           /\ \A i \in 1 .. Len(list) : Upto(list, X)[i] =
                 IF list[i] \in X THEN Append(Upto(list, X)[i - 1], list[i])
                 ELSE Upto(list, X)[i - 1]
<1> DEFINE n == Len(list)
           h == [i \in 1 .. n |-> [t \in Seq(S) |->
                    IF list[i] \in X THEN Append(t, list[i]) ELSE t]]
<1>1. n \in Nat /\ \A i \in 1 .. n : list[i] \in S
    OBVIOUS
<1>2. \A i \in 1 .. n, t \in Seq(S) : h[i][t] \in Seq(S)
    BY <1>1
<1>3. \A i \in 1 .. n, t \in Seq(S) :
          h[i][t] = IF list[i] \in X THEN Append(t, list[i]) ELSE t
    OBVIOUS
<1>4. <<>> \in Seq(S)
    OBVIOUS
<1> HIDE DEF n, h
<1>5. PICK g \in [0 .. n -> Seq(S)] : IsRecursion(g, n, <<>>, h)
    BY <1>1, <1>2, <1>4, Recursion
<1>6. ASSUME NEW i \in 0 .. n
      PROVE  g[i] = IF i = 0 THEN <<>>
                    ELSE IF list[i] \in X THEN Append(g[i - 1], list[i]) ELSE g[i - 1]
    <2>1. CASE i = 0
        BY <1>5, <2>1 DEF IsRecursion
    <2>2. CASE i # 0
        <3>1. i \in 1 .. n /\ i - 1 \in 0 .. n
            BY <1>1, <2>2
        <3>2. g[i] = h[i][g[i - 1]] /\ g[i - 1] \in Seq(S)
            BY <1>5, <3>1 DEF IsRecursion
        <3>. QED
            BY <1>3, <2>2, <3>1, <3>2
    <2>. QED
        BY <2>1, <2>2
<1>7. IsUpto(g, list, X)
    <2>1. g = [i \in 0 .. n |-> g[i]]
        OBVIOUS
    <2>. QED
        BY <1>6, <2>1 DEF IsUpto, n
<1>8. Upto(list, X) = CHOOSE u : IsUpto(u, list, X)
    BY DEF Upto, IsUpto
<1>9. IsUpto(Upto(list, X), list, X)
    BY <1>7, <1>8
<1> DEFINE u == Upto(list, X)
<1>10. \A i \in 0 .. n :
          u[i] = IF i = 0 THEN <<>>
                 ELSE IF list[i] \in X THEN Append(u[i - 1], list[i]) ELSE u[i - 1]
    BY <1>9 DEF IsUpto, n
<1> HIDE DEF u
<1>11. u[0] = <<>>
    BY <1>1, <1>10
<1>12. ASSUME NEW i \in 1 .. n
       PROVE  u[i] = IF list[i] \in X THEN Append(u[i - 1], list[i]) ELSE u[i - 1]
    <2>1. i \in 0 .. n /\ i # 0
        BY <1>1
    <2>. QED
        BY <1>10, <2>1
<1>13. Those(list, X) = u[n]
    BY DEF Those, Upto, u, n
<1>. QED
    BY <1>11, <1>12, <1>13 DEF u, n

\* Where they are in the list: in their order, and none is left out.
Places(e, few, list, X, n) ==
    /\ e \in [1 .. Len(few) -> 1 .. n]
    /\ \A k, m \in 1 .. Len(few) : k < m => e[k] < e[m]
    /\ \A k \in 1 .. Len(few) : few[k] = list[e[k]] /\ few[k] \in X
    /\ \A j \in 1 .. n : list[j] \in X => \E k \in 1 .. Len(few) : e[k] = j

LEMMA ThosePlaces ==
    ASSUME NEW S, NEW list \in Seq(S), NEW X
    PROVE  /\ Those(list, X) \in Seq(S \cap X)
           /\ \E e : Places(e, Those(list, X), list, X, Len(list))
<1> DEFINE n == Len(list)
           g == Upto(list, X)
           T == {m \in 0 .. n : g[m] \in Seq(S \cap X) /\ \E e : Places(e, g[m], list, X, m)}
<1>1. n \in Nat /\ \A i \in 1 .. n : list[i] \in S
    OBVIOUS
<1>2. g[0] = <<>> /\ \A i \in 1 .. n :
          g[i] = IF list[i] \in X THEN Append(g[i - 1], list[i]) ELSE g[i - 1]
    BY UptoFacts
<1> HIDE DEF n, g
<1>3. 0 \in T
    <2>1. g[0] \in Seq(S \cap X) /\ Len(g[0]) = 0
        BY <1>2
    <2>2. Places([k \in 1 .. 0 |-> 0], g[0], list, X, 0)
        BY <2>1 DEF Places
    <2>. QED
        BY <1>1, <2>1, <2>2
<1>4. ASSUME NEW m \in 0 .. n, m \in T, m < n PROVE m + 1 \in T
    <2>1. g[m] \in Seq(S \cap X) /\ \E e : Places(e, g[m], list, X, m)
        BY <1>4
    <2> HIDE DEF T
    <2>2. PICK e : Places(e, g[m], list, X, m)
        BY <2>1
    <2>3. m \in Nat /\ m + 1 \in 1 .. n /\ m + 1 \in 0 .. n /\ m + 1 - 1 = m
        BY <1>1, <1>4
    <2>4. CASE list[m + 1] \notin X
        <3>1. g[m + 1] = g[m]
            BY <1>2, <2>3, <2>4
        <3>2. Places(e, g[m + 1], list, X, m + 1)
            <4>1. 1 .. m \subseteq 1 .. m + 1 /\ \A j \in 1 .. m + 1 : j = m + 1 \/ j \in 1 .. m
                BY <2>3
            <4>. QED
                BY <2>2, <2>4, <3>1, <4>1 DEF Places
        <3>. QED
            BY <2>1, <2>3, <3>1, <3>2 DEF T
    <2>5. CASE list[m + 1] \in X
        <3> DEFINE few == g[m]
                   more == Append(few, list[m + 1])
                   l == Len(few)
                   d == [k \in 1 .. l + 1 |-> IF k = l + 1 THEN m + 1 ELSE e[k]]
        <3>1. g[m + 1] = more
            <4>1. g[m + 1] = IF list[m + 1] \in X THEN Append(g[m + 1 - 1], list[m + 1])
                             ELSE g[m + 1 - 1]
                BY <1>2, <2>3
            <4>. QED
                BY <2>3, <2>5, <4>1
        <3>2. more \in Seq(S \cap X)
            BY <1>1, <2>1, <2>3, <2>5
        <3>3. /\ l \in Nat /\ Len(more) = l + 1 /\ more[l + 1] = list[m + 1]
              /\ \A k \in 1 .. l : more[k] = few[k]
            BY <2>1
        <3>4. d[l + 1] = m + 1 /\ \A k \in 1 .. l : d[k] = e[k]
            BY <3>3
        <3>5. \A k \in 1 .. l + 1 : k = l + 1 \/ k \in 1 .. l
            BY <3>3
        <3>6. d = [k \in 1 .. l + 1 |-> d[k]]
            OBVIOUS
        <3> HIDE DEF few, more, l, d
        <3>7. /\ \A k \in 1 .. l : e[k] \in 1 .. m /\ few[k] = list[e[k]] /\ few[k] \in X
              /\ \A k, j \in 1 .. l : k < j => e[k] < e[j]
              /\ \A j \in 1 .. m : list[j] \in X => \E k \in 1 .. l : e[k] = j
            BY <2>2 DEF Places, few, l
        <3>8. ASSUME NEW k \in 1 .. l + 1
              PROVE  d[k] \in 1 .. m + 1 /\ more[k] = list[d[k]] /\ more[k] \in X
            <4>1. CASE k = l + 1
                BY <2>3, <2>5, <3>3, <3>4, <4>1
            <4>2. CASE k \in 1 .. l
                BY <2>3, <3>3, <3>4, <3>7, <4>2
            <4>. QED
                BY <3>5, <4>1, <4>2
        <3>9. ASSUME NEW k \in 1 .. l + 1, NEW j \in 1 .. l + 1, k < j PROVE d[k] < d[j]
            <4>1. k \in 1 .. l /\ e[k] \in 1 .. m
                BY <3>3, <3>7, <3>9
            <4>2. CASE j = l + 1
                BY <2>3, <3>4, <4>1, <4>2
            <4>3. CASE j \in 1 .. l
                BY <3>4, <3>7, <3>9, <4>1, <4>3
            <4>. QED
                BY <3>5, <4>2, <4>3
        <3>10. ASSUME NEW j \in 1 .. m + 1, list[j] \in X PROVE \E k \in 1 .. l + 1 : d[k] = j
            <4>1. CASE j = m + 1
                BY <3>3, <3>4, <4>1
            <4>2. CASE j # m + 1
                <5>1. j \in 1 .. m
                    BY <2>3, <4>2
                <5>2. PICK k \in 1 .. l : e[k] = j
                    BY <3>7, <3>10, <5>1
                <5>3. k \in 1 .. l + 1
                    BY <3>3
                <5>. QED
                    BY <3>4, <5>2, <5>3
            <4>. QED
                BY <4>1, <4>2
        <3>11. Places(d, more, list, X, m + 1)
            BY <3>3, <3>6, <3>8, <3>9, <3>10 DEF Places
        <3>. QED
            BY <2>3, <3>1, <3>2, <3>11 DEF T
    <2>. QED
        BY <2>4, <2>5
<1>5. T \in SUBSET (0 .. n)
    OBVIOUS
<1>6. n \in T
    <2> HIDE DEF T
    <2>1. T = 0 .. n
        BY <1>1, <1>3, <1>4, <1>5, Induction
    <2>. QED
        BY <1>1, <2>1
<1>7. Those(list, X) = g[n]
    BY UptoFacts DEF g, n
<1>. QED
    BY <1>6, <1>7 DEF n

\* They are all there, and nothing else is; of different ones each is once.
LEMMA ThoseFacts ==
    ASSUME NEW S, NEW list \in Seq(S), NEW X
    PROVE  /\ Those(list, X) \in Seq(S \cap X)
           /\ \A s : Contains(Those(list, X), s) <=> s \in X /\ s \in ToSet(list)
           /\ \A k \in DOMAIN Those(list, X) :
                 Those(list, X)[k] \in X /\ Those(list, X)[k] \in ToSet(list)
<1> DEFINE few == Those(list, X)
<1>1. few \in Seq(S \cap X)
    BY ThosePlaces
<1>2. PICK e : Places(e, few, list, X, Len(list))
    BY ThosePlaces
<1>3. Len(few) \in Nat /\ DOMAIN few = 1 .. Len(few) /\ DOMAIN list = 1 .. Len(list)
    BY <1>1
<1> HIDE DEF few
<1>4. ASSUME NEW k \in DOMAIN few PROVE few[k] \in X /\ few[k] \in ToSet(list)
    BY <1>2, <1>3 DEF Places, ToSet
<1>5. ASSUME NEW s, s \in X, s \in ToSet(list) PROVE Contains(few, s)
    <2>1. PICK j \in 1 .. Len(list) : list[j] = s
        BY <1>3, <1>5 DEF ToSet
    <2>2. PICK k \in 1 .. Len(few) : e[k] = j
        BY <1>2, <1>5, <2>1 DEF Places
    <2>. QED
        BY <1>2, <2>1, <2>2 DEF Places, Contains
<1>6. ASSUME NEW s, Contains(few, s) PROVE s \in X /\ s \in ToSet(list)
    BY <1>3, <1>4, <1>6 DEF Contains
<1>. QED
    BY <1>1, <1>4, <1>5, <1>6 DEF few
-----------------------------------------------------------------------------
(* Lists one after the other                                                 *)

Flat(ss) ==
    LET flatten[i \in 1 .. Len(ss)] == IF i = 1 THEN ss[i] ELSE flatten[i - 1] \o ss[i]
    IN  flatten

IsFlat(g, ss) ==
    g = [i \in 1 .. Len(ss) |-> IF i = 1 THEN ss[i] ELSE g[i - 1] \o ss[i]]

LEMMA FlatFacts ==
    ASSUME NEW S, NEW ss \in Seq(Seq(S))
    PROVE  /\ Len(ss) = 0 => FlattenSeq(ss) = <<>>
           /\ Len(ss) # 0 => FlattenSeq(ss) = Flat(ss)[Len(ss)]
           /\ \A i \in 1 .. Len(ss) :
                 Flat(ss)[i] = IF i = 1 THEN ss[i] ELSE Flat(ss)[i - 1] \o ss[i]
<1> DEFINE n == Len(ss)
           h == [i \in 1 .. n |-> [t \in Seq(S) |-> t \o ss[i]]]
<1>1. n \in Nat /\ \A i \in 1 .. n : ss[i] \in Seq(S)
    OBVIOUS
<1>2. \A i \in 1 .. n, t \in Seq(S) : h[i][t] \in Seq(S)
    BY <1>1
<1>3. \A i \in 1 .. n, t \in Seq(S) : h[i][t] = t \o ss[i]
    OBVIOUS
<1>4. <<>> \in Seq(S)
    OBVIOUS
<1> HIDE DEF n, h
<1>5. PICK g \in [0 .. n -> Seq(S)] : IsRecursion(g, n, <<>>, h)
    BY <1>1, <1>2, <1>4, Recursion
<1> DEFINE f == [i \in 1 .. n |-> g[i]]
<1>6. ASSUME NEW i \in 1 .. n PROVE f[i] = IF i = 1 THEN ss[i] ELSE f[i - 1] \o ss[i]
    <2>1. i - 1 \in 0 .. n /\ g[i] = g[i - 1] \o ss[i] /\ f[i] = g[i]
        <3>1. i - 1 \in 0 .. n
            BY <1>1
        <3>2. g[i] = h[i][g[i - 1]] /\ g[i - 1] \in Seq(S)
            BY <1>5, <3>1 DEF IsRecursion
        <3>. QED
            BY <1>3, <3>1, <3>2
    <2>2. CASE i = 1
        <3>1. g[i - 1] = <<>>
            BY <1>5, <2>2 DEF IsRecursion
        <3>2. <<>> \o ss[i] = ss[i]
            BY <1>1
        <3>. QED
            BY <2>1, <2>2, <3>1, <3>2
    <2>3. CASE i # 1
        <3>1. i - 1 \in 1 .. n
            BY <1>1, <2>3
        <3>2. f[i - 1] = g[i - 1]
            BY <3>1
        <3>. QED
            BY <2>1, <2>3, <3>2
    <2>. QED
        BY <2>2, <2>3
<1>7. f = [i \in 1 .. n |-> f[i]]
    OBVIOUS
<1> HIDE DEF f
<1>8. IsFlat(f, ss)
    BY <1>6, <1>7 DEF IsFlat, n
<1>9. Flat(ss) = CHOOSE u : IsFlat(u, ss)
    BY DEF Flat, IsFlat
<1>10. IsFlat(Flat(ss), ss)
    BY <1>8, <1>9
<1> DEFINE u == Flat(ss)
<1>11. \A i \in 1 .. n : u[i] = IF i = 1 THEN ss[i] ELSE u[i - 1] \o ss[i]
    BY <1>10 DEF IsFlat, n
<1>12. n = 0 => FlattenSeq(ss) = <<>>
    BY DEF FlattenSeq, n
<1>13. n # 0 => FlattenSeq(ss) = u[n]
    BY DEF FlattenSeq, Flat, n, u
<1>. QED
    BY <1>11, <1>12, <1>13 DEF u, n

\* Where they come from: list a and place b of it, in their order, none left out.
Origins(a, b, all, ss, n) ==
    /\ \A m \in 1 .. Len(all) :
          a[m] \in 1 .. n /\ b[m] \in 1 .. Len(ss[a[m]]) /\ all[m] = ss[a[m]][b[m]]
    /\ \A l, m \in 1 .. Len(all) : l # m => a[l] # a[m] \/ b[l] # b[m]
    /\ \A k \in 1 .. n : \A i \in 1 .. Len(ss[k]) :
          \E m \in 1 .. Len(all) : a[m] = k /\ b[m] = i

LEMMA FlattenOrigins ==
    ASSUME NEW S, NEW ss \in Seq(Seq(S))
    PROVE  FlattenSeq(ss) \in Seq(S)
           /\ \E a, b : Origins(a, b, FlattenSeq(ss), ss, Len(ss))
<1> DEFINE n == Len(ss)
           g == [i \in 0 .. n |-> IF i = 0 THEN <<>> ELSE Flat(ss)[i]]
           T == {m \in 0 .. n : g[m] \in Seq(S) /\ \E a, b : Origins(a, b, g[m], ss, m)}
<1>1. n \in Nat /\ \A i \in 1 .. n : ss[i] \in Seq(S)
    OBVIOUS
<1>2. g[0] = <<>>
    BY <1>1
<1>3. ASSUME NEW i \in 0 .. n, i < n, g[i] \in Seq(S)
      PROVE  i + 1 \in 1 .. n /\ g[i + 1] = g[i] \o ss[i + 1]
    <2>1. i + 1 \in 1 .. n /\ i + 1 - 1 = i
        BY <1>1, <1>3
    <2>2. Flat(ss)[i + 1] = IF i + 1 = 1 THEN ss[i + 1] ELSE Flat(ss)[i] \o ss[i + 1]
        <3>1. \A j \in 1 .. n :
                  Flat(ss)[j] = IF j = 1 THEN ss[j] ELSE Flat(ss)[j - 1] \o ss[j]
            BY FlatFacts
        <3>. QED
            BY <2>1, <3>1
    <2>3. g[i + 1] = Flat(ss)[i + 1]
        BY <2>1
    <2>4. i # 0 => g[i] = Flat(ss)[i]
        OBVIOUS
    <2> HIDE DEF g
    <2>5. CASE i = 0
        <3>1. i + 1 = 1 /\ g[i] = <<>>
            BY <1>2, <2>5
        <3>2. ss[i + 1] \in Seq(S)
            BY <1>1, <2>1
        <3>3. <<>> \o ss[i + 1] = ss[i + 1]
            BY <3>2
        <3>4. g[i + 1] = ss[i + 1]
            BY <2>2, <2>3, <3>1
        <3>. QED
            BY <2>1, <3>1, <3>3, <3>4
    <2>6. CASE i # 0
        <3>1. i + 1 # 1
            BY <2>6
        <3>. QED
            BY <2>1, <2>2, <2>3, <2>4, <2>6, <3>1
    <2>. QED
        BY <2>5, <2>6
<1>4. FlattenSeq(ss) = g[n]
    BY <1>1, FlatFacts
<1> HIDE DEF n, g
<1>5. 0 \in T
    <2>1. g[0] \in Seq(S) /\ Len(g[0]) = 0
        BY <1>2
    <2>2. Origins(<<>>, <<>>, g[0], ss, 0)
        BY <2>1 DEF Origins
    <2>. QED
        BY <1>1, <2>1, <2>2
<1>6. ASSUME NEW k \in 0 .. n, k \in T, k < n PROVE k + 1 \in T
    <2>1. g[k] \in Seq(S) /\ \E a, b : Origins(a, b, g[k], ss, k)
        BY <1>6
    <2> HIDE DEF T
    <2>2. PICK a, b : Origins(a, b, g[k], ss, k)
        BY <2>1
    <2>3. k \in Nat /\ k + 1 \in 1 .. n /\ k + 1 \in 0 .. n /\ g[k + 1] = g[k] \o ss[k + 1]
        <3>1. g[k] \in Seq(S)
            BY <2>1
        <3>2. k + 1 \in 1 .. n /\ g[k + 1] = g[k] \o ss[k + 1]
            BY <1>3, <1>6, <3>1
        <3>3. k \in Nat /\ k + 1 \in 0 .. n
            BY <1>1, <1>6
        <3>. QED
            BY <3>2, <3>3
    <2> DEFINE some == g[k]
               more == g[k + 1]
               next == ss[k + 1]
               x == Len(some)
               y == Len(next)
               c == [m \in 1 .. x + y |-> IF m \in 1 .. x THEN a[m] ELSE k + 1]
               d == [m \in 1 .. x + y |-> IF m \in 1 .. x THEN b[m] ELSE m - x]
    <2>4. /\ x \in Nat /\ y \in Nat /\ some \in Seq(S) /\ next \in Seq(S)
          /\ more \in Seq(S) /\ more = some \o next
        BY <1>1, <2>1, <2>3
    <2> HIDE DEF some, more, next
    <2>5. /\ Len(more) = x + y
          /\ \A m \in 1 .. x : more[m] = some[m]
          /\ \A m \in 1 .. x + y : m \notin 1 .. x => m - x \in 1 .. y /\ more[m] = next[m - x]
        BY <2>4
    <2>6. /\ \A m \in 1 .. x : c[m] = a[m] /\ d[m] = b[m]
          /\ \A m \in 1 .. x + y : m \notin 1 .. x => c[m] = k + 1 /\ d[m] = m - x
        BY <2>4
    <2> HIDE DEF c, d, x, y
    <2>7. /\ \A m \in 1 .. x :
                a[m] \in 1 .. k /\ b[m] \in 1 .. Len(ss[a[m]]) /\ some[m] = ss[a[m]][b[m]]
          /\ \A l, m \in 1 .. x : l # m => a[l] # a[m] \/ b[l] # b[m]
          /\ \A j \in 1 .. k : \A i \in 1 .. Len(ss[j]) :
                \E m \in 1 .. x : a[m] = j /\ b[m] = i
        BY <2>2 DEF Origins, some, x
    <2>8. ASSUME NEW m \in 1 .. x + y
          PROVE  /\ c[m] \in 1 .. k + 1 /\ d[m] \in 1 .. Len(ss[c[m]])
                 /\ more[m] = ss[c[m]][d[m]]
        <3>1. CASE m \in 1 .. x
            <4>1. c[m] = a[m] /\ d[m] = b[m] /\ more[m] = some[m]
                BY <2>5, <2>6, <3>1
            <4>2. a[m] \in 1 .. k /\ b[m] \in 1 .. Len(ss[a[m]]) /\ some[m] = ss[a[m]][b[m]]
                BY <2>7, <3>1
            <4>3. a[m] \in 1 .. k + 1
                BY <2>3, <4>2
            <4>. QED
                BY <4>1, <4>2, <4>3
        <3>2. CASE m \notin 1 .. x
            <4>1. c[m] = k + 1 /\ d[m] = m - x /\ m - x \in 1 .. y /\ more[m] = next[m - x]
                BY <2>5, <2>6, <3>2
            <4>. QED
                BY <2>3, <4>1 DEF next, y
        <3>. QED
            BY <3>1, <3>2
    <2>9. ASSUME NEW l \in 1 .. x + y, NEW m \in 1 .. x + y, l # m
          PROVE  c[l] # c[m] \/ d[l] # d[m]
        <3>1. CASE l \in 1 .. x /\ m \in 1 .. x
            BY <2>6, <2>7, <2>9, <3>1
        <3>2. CASE l \in 1 .. x /\ m \notin 1 .. x
            <4>1. a[l] \in 1 .. k /\ c[l] = a[l] /\ c[m] = k + 1
                BY <2>6, <2>7, <3>2
            <4>. QED
                BY <2>3, <4>1
        <3>3. CASE l \notin 1 .. x /\ m \in 1 .. x
            <4>1. a[m] \in 1 .. k /\ c[m] = a[m] /\ c[l] = k + 1
                BY <2>6, <2>7, <3>3
            <4>. QED
                BY <2>3, <4>1
        <3>4. CASE l \notin 1 .. x /\ m \notin 1 .. x
            <4>1. d[l] = l - x /\ d[m] = m - x
                BY <2>6, <3>4
            <4>. QED
                BY <2>4, <2>9, <4>1
        <3>. QED
            BY <3>1, <3>2, <3>3, <3>4
    <2>10. ASSUME NEW j \in 1 .. k + 1, NEW i \in 1 .. Len(ss[j])
           PROVE  \E m \in 1 .. x + y : c[m] = j /\ d[m] = i
        <3>1. CASE j \in 1 .. k
            <4>1. PICK m \in 1 .. x : a[m] = j /\ b[m] = i
                BY <2>7, <3>1
            <4>2. m \in 1 .. x + y
                BY <2>4
            <4>. QED
                BY <2>6, <4>1, <4>2
        <3>2. CASE j \notin 1 .. k
            <4>1. j = k + 1 /\ i \in 1 .. y
                BY <2>3, <3>2 DEF y, next
            <4>2. PICK z \in 1 .. x + y : z \notin 1 .. x /\ z - x = i
                <5>1. PICK z \in Nat : z = x + i
                    BY <2>4, <4>1
                <5>2. z \in 1 .. x + y /\ z \notin 1 .. x /\ z - x = i
                    BY <2>4, <4>1, <5>1
                <5>. QED
                    BY <5>2
            <4>3. c[z] = k + 1 /\ d[z] = i
                BY <2>6, <4>2
            <4>. QED
                BY <4>1, <4>3
        <3>. QED
            BY <3>1, <3>2
    <2>11. Origins(c, d, more, ss, k + 1)
        <3>1. Len(more) = x + y
            BY <2>5
        <3> DEFINE z == x + y
        <3> HIDE DEF z
        <3>2. Len(more) = z /\ \A m \in 1 .. z : c[m] \in 1 .. k + 1
                  /\ d[m] \in 1 .. Len(ss[c[m]]) /\ more[m] = ss[c[m]][d[m]]
            BY <2>8, <3>1 DEF z
        <3>3. \A l, m \in 1 .. z : l # m => c[l] # c[m] \/ d[l] # d[m]
            BY <2>9 DEF z
        <3>4. \A j \in 1 .. k + 1 : \A i \in 1 .. Len(ss[j]) :
                  \E m \in 1 .. z : c[m] = j /\ d[m] = i
            BY <2>10 DEF z
        <3>. QED
            BY <3>2, <3>3, <3>4, Zenon DEF Origins
    <2>12. g[k + 1] \in Seq(S) /\ Origins(c, d, g[k + 1], ss, k + 1)
        BY <2>4, <2>11 DEF more
    <2>. QED
        BY <2>3, <2>12 DEF T
<1>7. T \in SUBSET (0 .. n)
    OBVIOUS
<1>8. n \in T
    <2> HIDE DEF T
    <2>1. T = 0 .. n
        BY <1>1, <1>5, <1>6, <1>7, Induction
    <2>. QED
        BY <1>1, <2>1
<1>. QED
    BY <1>4, <1>8 DEF n

\* What is in one of the lists, and nothing else.
LEMMA FlattenHas ==
    ASSUME NEW S, NEW ss \in Seq(Seq(S)), NEW s
    PROVE  Contains(FlattenSeq(ss), s) <=> \E k \in DOMAIN ss : Contains(ss[k], s)
<1> DEFINE all == FlattenSeq(ss)
<1>1. all \in Seq(S) /\ DOMAIN ss = 1 .. Len(ss)
    BY FlattenOrigins
<1>2. PICK a, b : Origins(a, b, all, ss, Len(ss))
    BY FlattenOrigins
<1> HIDE DEF all
<1>3. ASSUME Contains(all, s) PROVE \E k \in DOMAIN ss : Contains(ss[k], s)
    <2>1. PICK m \in 1 .. Len(all) : all[m] = s
        BY <1>3 DEF Contains
    <2>2. a[m] \in 1 .. Len(ss) /\ b[m] \in 1 .. Len(ss[a[m]]) /\ all[m] = ss[a[m]][b[m]]
        BY <1>2, <2>1 DEF Origins
    <2>3. Contains(ss[a[m]], s)
        BY <2>1, <2>2 DEF Contains
    <2>. QED
        BY <1>1, <2>2, <2>3
<1>4. ASSUME NEW k \in DOMAIN ss, Contains(ss[k], s) PROVE Contains(all, s)
    <2>1. PICK i \in 1 .. Len(ss[k]) : ss[k][i] = s
        BY <1>4 DEF Contains
    <2>2. PICK m \in 1 .. Len(all) : a[m] = k /\ b[m] = i
        BY <1>1, <1>2 DEF Origins
    <2>. QED
        BY <1>2, <2>1, <2>2 DEF Origins, Contains
<1>. QED
    BY <1>3, <1>4 DEF all
-----------------------------------------------------------------------------
(* Types                                                                     *)

Section == [name : Seq(Letter), options : Seq(Option \X Seq(Item))]
ListOption == Seq(Letter) \X Option \X Seq(Item)

LEMMA InputFacts ==
    ASSUME input \in Inputs
    PROVE  /\ input.mode \in {"section", "skip", "all"}
           /\ input.given \in Seq(Seq(Letter \cup {Star}))
           /\ input.sections \in Seq(Section)
           /\ OnceEach(input.sections)
BY CombinatorialAssumption DEF Section

LEMMA NamesFacts ==
    ASSUME input \in Inputs
    PROVE  Names \in Seq(Seq(Letter))
<1>1. input.sections \in Seq(Section)
    BY InputFacts
<1>2. DOMAIN input.sections = 1 .. Len(input.sections) /\ Len(input.sections) \in Nat
    BY <1>1
<1>3. \A k \in 1 .. Len(input.sections) : input.sections[k].name \in Seq(Letter)
    <2>1. \A k \in 1 .. Len(input.sections) : input.sections[k] \in Section
        BY <1>1
    <2>. QED
        BY <2>1 DEF Section
<1>4. [k \in DOMAIN input.sections |-> input.sections[k].name] \in Seq(Seq(Letter))
    BY <1>2, <1>3
<1>. QED
    BY <1>4, CombinatorialAssumption DEF Names

LEMMA KindsType ==
    ASSUME input \in Inputs
    PROVE  Gets \in Seq(Section) /\ Runs \in Seq(Section) /\ Others \in Seq(Section)
<1> DEFINE all == input.sections
           g == {x \in ToSet(all) : IsGet(x)}
           r == {x \in ToSet(all) : IsRun(x)}
           o == {x \in ToSet(all) : IsOther(x)}
<1>1. all \in Seq(Section)
    BY InputFacts
<1>2. Gets = Those(all, g) /\ Runs = Those(all, r) /\ Others = Those(all, o)
    BY DEF Gets, Runs, Others
<1> HIDE DEF all, g, r, o
<1>3. \A X : Those(all, X) \in Seq(Section)
    <2>1. ASSUME NEW X PROVE Those(all, X) \in Seq(Section)
        <3>1. Those(all, X) \in Seq(Section \cap X)
            BY <1>1, ThosePlaces
        <3>. QED
            BY <3>1
    <2>. QED
        BY <2>1
<1>. QED
    BY <1>2, <1>3

LEMMA OptionsType ==
    ASSUME NEW section \in Section
    PROVE  /\ ListsOf(section) \in Seq(Option \X Seq(Item))
           /\ PlainOf(section) \in Seq(Option \X Seq(Item))
<1> DEFINE all == section.options
           T == Option \X Seq(Item)
           l == {o \in ToSet(all) : IsList(o)}
           p == {o \in ToSet(all) : ~IsList(o)}
<1>1. all \in Seq(T)
    BY DEF Section
<1>2. ListsOf(section) = Those(all, l) /\ PlainOf(section) = Those(all, p)
    BY DEF ListsOf, PlainOf
<1> HIDE DEF all, l, p, T
<1>3. Those(all, l) \in Seq(T \cap l) /\ Those(all, p) \in Seq(T \cap p)
    BY <1>1, ThosePlaces
<1>4. Those(all, l) \in Seq(T) /\ Those(all, p) \in Seq(T)
    BY <1>3
<1>. QED
    BY <1>2, <1>4 DEF T

\* The lists of each section, as they are put one after the other.
PerSection ==
    [k \in DOMAIN Others |->
        LET lists == ListsOf(Others[k])
        IN  [i \in DOMAIN lists |-> <<Others[k].name, lists[i][1], lists[i][2]>>]]

LEMMA PerSectionFacts ==
    ASSUME input \in Inputs
    PROVE  /\ Lists = FlattenSeq(PerSection)
           /\ PerSection \in Seq(Seq(ListOption))
           /\ Len(PerSection) = Len(Others)
           /\ \A k \in DOMAIN Others :
                 /\ Len(PerSection[k]) = Len(ListsOf(Others[k]))
                 /\ \A i \in 1 .. Len(ListsOf(Others[k])) :
                       PerSection[k][i] = <<Others[k].name, ListsOf(Others[k])[i][1],
                                                            ListsOf(Others[k])[i][2]>>
<1>1. Others \in Seq(Section)
    BY KindsType
<1>2. DOMAIN Others = 1 .. Len(Others) /\ Len(Others) \in Nat
    BY <1>1
<1>3. ASSUME NEW k \in DOMAIN Others
      PROVE  /\ PerSection[k] \in Seq(ListOption)
             /\ Len(PerSection[k]) = Len(ListsOf(Others[k]))
             /\ \A i \in 1 .. Len(ListsOf(Others[k])) :
                   PerSection[k][i] = <<Others[k].name, ListsOf(Others[k])[i][1],
                                                        ListsOf(Others[k])[i][2]>>
    <2> DEFINE lists == ListsOf(Others[k])
               name == Others[k].name
               it == [i \in DOMAIN lists |-> <<name, lists[i][1], lists[i][2]>>]
    <2>1. Others[k] \in Section
        BY <1>1
    <2>2. name \in Seq(Letter) /\ lists \in Seq(Option \X Seq(Item))
        BY <2>1, OptionsType DEF Section
    <2>3. PerSection[k] = it
        BY DEF PerSection
    <2> HIDE DEF lists, name
    <2>4. DOMAIN lists = 1 .. Len(lists) /\ Len(lists) \in Nat
        BY <2>2
    <2>5. \A i \in 1 .. Len(lists) : lists[i][1] \in Option /\ lists[i][2] \in Seq(Item)
        BY <2>2
    <2>6. \A i \in 1 .. Len(lists) : <<name, lists[i][1], lists[i][2]>> \in ListOption
        BY <2>2, <2>5 DEF ListOption
    <2>7. /\ it \in Seq(ListOption) /\ Len(it) = Len(lists)
          /\ \A i \in 1 .. Len(lists) : it[i] = <<name, lists[i][1], lists[i][2]>>
        BY <2>4, <2>6
    <2>. QED
        BY <2>3, <2>7 DEF lists, name
<1>4. PerSection = [k \in 1 .. Len(Others) |-> PerSection[k]]
    BY <1>2 DEF PerSection
<1>5. PerSection \in Seq(Seq(ListOption)) /\ Len(PerSection) = Len(Others)
    BY <1>2, <1>3, <1>4
<1>6. Lists = FlattenSeq(PerSection)
    BY DEF Lists, PerSection
<1>. QED
    BY <1>3, <1>5, <1>6

LEMMA ListsType == ASSUME input \in Inputs PROVE Lists \in Seq(ListOption)
BY PerSectionFacts, FlattenOrigins

\* TypeOK, and what the types rest on: the lists that are left, the files, and
\* what has been run.
Types ==
    /\ TypeOK
    /\ runLog \in Seq(ToSet(runLog))
    /\ csv \in Seq(ListOption)
    /\ ended \in Seq([file : ToSet(runLog), status : {0, 1}])
    /\ pc \in {"config", "sort", "multiply"} => ended = <<>>
    /\ pc = "test" => config \in ToSet(runLog)

LEMMA MadeSequence ==
    ASSUME NEW n \in Nat, NEW f, f = [k \in 1 .. n |-> f[k]]
    PROVE  f \in Seq(ToSet(f)) /\ Len(f) = n
<1>1. \A k \in 1 .. n : f[k] \in ToSet(f)
    BY DEF ToSet
<1>. QED
    BY <1>1

\* The names of the sections that configTest finds.
Known == {Names[k] : k \in DOMAIN Names}

\* What is in the scratch directory has a section that is known, and a number.
LEMMA WrittenFacts ==
    ASSUME Types, NEW sections \in SUBSET Writers
    PROVE  /\ Written(sections) \subseteq Known \X (1 .. Len(ended) + 1)
           /\ \A r \in Written(sections) :
                \/ r \in scratch /\ r[1] \notin sections
                \/ r[1] \in sections /\ r[2] = Len(ended) + 1 /\ r = <<r[1], r[2]>>
<1>1. Len(ended) \in Nat /\ Len(ended) + 1 \in 1 .. Len(ended) + 1
    <2>1. Len(ended) \in Nat
        BY DEF Types
    <2>. QED
        BY <2>1
<1>2. sections \subseteq Known
    BY DEF Types, TypeOK, Writers, Known
<1> DEFINE n == Len(ended) + 1
           old == {r \in scratch : r[1] \notin sections}
           new == sections \X {n}
<1>3. Written(sections) = old \cup new
    BY DEF Written
<1>4. old \subseteq Known \X (1 .. n)
    BY DEF Types, TypeOK, ScratchOK, Known
<1>5. n \in 1 .. n
    BY <1>1
<1> HIDE DEF n
<1>6. new \subseteq Known \X (1 .. n)
    BY <1>2, <1>5
<1>7. \A r \in new : r[1] \in sections /\ r[2] = n /\ r = <<r[1], r[2]>>
    OBVIOUS
<1>. QED
    BY <1>3, <1>4, <1>6, <1>7 DEF n

LEMMA InitTypes == Init => Types
<1> SUFFICES ASSUME Init PROVE Types
    OBVIOUS
<1>1. TypeOK
    BY CombinatorialAssumption DEF Init, TypeOK, ScratchOK
<1>. QED
    BY <1>1 DEF Init, Types

LEMMA StepTypes == Types /\ [Next]_vars => Types'
<1> SUFFICES ASSUME Types, [Next]_vars PROVE Types'
    OBVIOUS
<1>1. /\ input \in Inputs /\ opened \in Nat /\ Len(ended) \in Nat /\ MaxOpen \in Nat
      /\ Len(runLog) \in Nat /\ DOMAIN runLog = 1 .. Len(runLog)
    BY CombinatorialAssumption DEF Types, TypeOK
<1> USE DEF Types, TypeOK, Final
\* The scratch directory is not written to.
<1>11. ASSUME UNCHANGED <<input, ended, scratch>> PROVE ScratchOK' /\ Names' = Names
    <2>1. Names' = Names
        BY <1>11 DEF Names
    <2>. QED
        BY <1>11, <2>1 DEF ScratchOK
<1>2. CASE ConfigTest
    <2>1. input' = input /\ Names' = Names
        BY <1>2 DEF ConfigTest, Names
    <2>2. {actives'[k] : k \in DOMAIN actives'} \subseteq {Names[k] : k \in DOMAIN Names}
        <3>1. CASE actives' = actives
            BY <3>1
        <3>2. CASE actives' = Choose(input.mode, input.given, Names)
            <4>1. PICK X : Choose(input.mode, input.given, Names) = Those(Names, X)
                BY DEF Choose
            <4>2. Names \in Seq(Seq(Letter))
                BY <1>1, NamesFacts
            <4>3. \A k \in DOMAIN Those(Names, X) : Those(Names, X)[k] \in ToSet(Names)
                BY <4>2, ThoseFacts
            <4>. QED
                BY <3>2, <4>1, <4>3 DEF ToSet
        <3>. QED
            BY <1>2, <3>1, <3>2 DEF ConfigTest
    <2>3. UNCHANGED <<runLog, csv, opened, tempDir, config, ended, scratch>>
        BY <1>2 DEF ConfigTest, Quit
    <2>4. pc = "config" /\ pc' \in {"exit", "sort"}
        BY <1>2 DEF ConfigTest, Quit
    <2>5. ScratchOK'
        BY <1>11, <2>1, <2>3
    <2>. QED
        BY <2>1, <2>2, <2>3, <2>4, <2>5
<1>3. CASE Sort
    <2>1. Gets \in Seq(Section) /\ Runs \in Seq(Section) /\ Others \in Seq(Section)
        BY <1>1, KindsType
    <2>2. /\ Len(Gets) \in Nat /\ Len(Runs) \in Nat /\ Len(Gets) * Len(Runs) \in Nat
          /\ Len(Gets \o Runs \o Others) \in Nat
        BY <2>1
    <2>3. opened' \in Nat /\ (pc' # "raised" => opened' <= MaxOpen)
        BY <1>1, <1>3, <2>2 DEF Sort, Quit
    <2>4. /\ input' = input /\ actives' = actives /\ Names' = Names
          /\ UNCHANGED <<tempDir, config, ended, scratch>>
          /\ pc = "sort" /\ pc' \in {"exit", "raised", "multiply"}
        BY <1>3 DEF Sort, Quit, Names
    <2>5. runLog' \in Seq(ToSet(runLog')) /\ csv' \in Seq(ListOption)
        <3>1. CASE UNCHANGED <<runLog, csv>>
            BY <3>1
        <3>2. CASE ~ UNCHANGED <<runLog, csv>>
            <4> DEFINE n == Len(Gets) * Len(Runs)
            <4>1. /\ csv' = Lists
                  /\ runLog' = [k \in 1 .. n |->
                    File(Gets[((k - 1) \div Len(Runs)) + 1], Runs[((k - 1) % Len(Runs)) + 1])]
                BY <1>3, <3>2 DEF Sort
            <4>2. runLog' = [k \in 1 .. n |-> runLog'[k]]
                BY <4>1
            <4>3. n \in Nat
                BY <2>2
            <4> HIDE DEF n
            <4>4. runLog' \in Seq(ToSet(runLog'))
                BY <4>2, <4>3, MadeSequence
            <4>. QED
                BY <1>1, <4>1, <4>4, ListsType
        <3>. QED
            BY <3>1, <3>2
    <2>6. ended' = <<>>
        BY <2>4
    <2>10. ScratchOK'
        BY <1>11, <2>4
    <2>7. TypeOK'
        BY <2>3, <2>4, <2>5, <2>6, <2>10, Zenon
    <2>8. ended' \in Seq([file : ToSet(runLog'), status : {0, 1}])
        BY <2>6
    <2>. QED
        BY <2>4, <2>5, <2>6, <2>7, <2>8, Zenon
<1>4. CASE Multiply
    <2> DEFINE items == csv[1][3]
               n == Len(items)
               m == Len(runLog) * n
    <2>1. csv \in Seq(ListOption) /\ csv # <<>> /\ csv[1] \in ListOption
        BY <1>4 DEF Multiply
    <2>2. items \in Seq(Item) /\ n \in Nat /\ m \in Nat /\ Tail(csv) \in Seq(ListOption)
        <3>1. items \in Seq(Item) /\ Tail(csv) \in Seq(ListOption)
            BY <2>1 DEF ListOption
        <3>. QED
            BY <1>1, <3>1
    <2>3. /\ input' = input /\ actives' = actives /\ Names' = Names
          /\ UNCHANGED <<tempDir, config, ended, scratch>>
          /\ pc = "multiply" /\ pc' \in {"raised", "multiply"}
          /\ opened' = opened + m
        BY <1>4 DEF Multiply, Quit, Names
    <2>6. pc' # "raised" => opened' <= MaxOpen
        <3>1. opened' > MaxOpen => pc' = "raised"
            BY <1>4 DEF Multiply, Quit
        <3>2. opened' \in Nat
            BY <1>1, <2>2, <2>3
        <3>. QED
            BY <1>1, <3>1, <3>2
    <2>4. runLog' \in Seq(ToSet(runLog')) /\ csv' \in Seq(ListOption)
        <3>1. CASE UNCHANGED <<runLog, csv>>
            BY <3>1
        <3>2. CASE ~ UNCHANGED <<runLog, csv>>
            <4>1. /\ csv' = Tail(csv)
                  /\ runLog' = [k \in 1 .. m |->
                        Put(runLog[((k - 1) \div n) + 1], csv[1][1], csv[1][2],
                            items[((k - 1) % n) + 1])]
                BY <1>4, <3>2 DEF Multiply
            <4>2. runLog' = [k \in 1 .. m |-> runLog'[k]]
                BY <4>1
            <4> HIDE DEF m
            <4>3. runLog' \in Seq(ToSet(runLog'))
                BY <2>2, <4>2, MadeSequence
            <4>. QED
                BY <2>2, <4>1, <4>3
        <3>. QED
            BY <3>1, <3>2
    <2>5. opened' \in Nat /\ ended' = <<>>
        BY <1>1, <2>2, <2>3
    <2>10. ScratchOK'
        BY <1>11, <2>3
    <2>7. TypeOK'
        BY <2>3, <2>4, <2>5, <2>6, <2>10, Zenon
    <2>8. ended' \in Seq([file : ToSet(runLog'), status : {0, 1}])
        BY <2>5
    <2>9. pc' # "test"
        BY <2>3
    <2>. QED
        BY <2>4, <2>5, <2>7, <2>8, <2>9, Zenon
<1>5. CASE Created
    <2>1. ScratchOK' /\ Names' = Names
        BY <1>5, <1>11 DEF Created
    <2>. QED
        BY <1>5, <2>1 DEF Created
<1>6. CASE ConfigNewTest
    <2>1. Len(ended) + 1 \in DOMAIN runLog
        BY <1>1, <1>6 DEF ConfigNewTest
    <2>2. config' \in ToSet(runLog)
        BY <1>6, <2>1 DEF ConfigNewTest, ToSet
    <2>3. pc' \in {"test", "raised"} /\ tempDir' \in BOOLEAN
        BY <1>6 DEF ConfigNewTest, Leave
    <2>4. ScratchOK' /\ Names' = Names
        BY <1>6, <1>11 DEF ConfigNewTest
    <2>. QED
        BY <1>6, <2>2, <2>3, <2>4 DEF ConfigNewTest
<1>7. CASE ExecuteTest
    <2>1. PICK status \in {0, 1}, sections \in SUBSET Writers :
              /\ ended' = Append(ended, [file |-> config, status |-> status])
              /\ scratch' = IF status = 0 /\ input.clean THEN {} ELSE Written(sections)
        BY <1>7 DEF ExecuteTest
    <2>2. /\ UNCHANGED <<input, actives, runLog, csv, opened, tempDir, config>>
          /\ pc = "test" /\ pc' = "run" /\ Names' = Names
        BY <1>7 DEF ExecuteTest, Names
    <2>3. [file |-> config, status |-> status] \in [file : ToSet(runLog), status : {0, 1}]
        BY <2>2
    <2>4. /\ ended' \in Seq([file : ToSet(runLog), status : {0, 1}])
          /\ Len(ended') = Len(ended) + 1
        BY <2>1, <2>3
    <2>5. Written(sections) \subseteq Known \X (1 .. Len(ended) + 1)
        BY WrittenFacts
    <2>6. 1 .. Len(ended) + 1 \subseteq 1 .. Len(ended') + 1
        BY <1>1, <2>4
    <2>7. scratch' \subseteq Known \X (1 .. Len(ended') + 1)
        BY <2>1, <2>5, <2>6
    <2>8. Known' = Known
        BY <2>2 DEF Known
    <2>9. ScratchOK'
        BY <2>7, <2>8 DEF ScratchOK, Known
    <2>. QED
        BY <2>2, <2>4, <2>9
<1>8. CASE ExecuteTestExits
    <2>1. /\ UNCHANGED <<input, actives, runLog, csv, opened, config, ended>>
          /\ pc = "test" /\ pc' = "exit" /\ tempDir' = FALSE /\ Names' = Names
        BY <1>8 DEF ExecuteTestExits, Leave, Names
    <2>2. PICK sections \in SUBSET Writers : scratch' = Written(sections)
        BY <1>8 DEF ExecuteTestExits
    <2>3. scratch' \subseteq Known \X (1 .. Len(ended) + 1)
        BY <2>2, WrittenFacts
    <2>4. Known' = Known
        BY <2>1 DEF Known
    <2>5. ScratchOK'
        BY <2>1, <2>3, <2>4 DEF ScratchOK, Known
    <2>. QED
        BY <2>1, <2>5
<1>9. CASE Finish
    <2>1. ScratchOK' /\ Names' = Names
        BY <1>9, <1>11 DEF Finish, Leave
    <2>. QED
        BY <1>9, <2>1 DEF Finish, Leave
<1>10. CASE UNCHANGED vars
    <2>1. ScratchOK' /\ Names' = Names
        BY <1>10, <1>11 DEF vars
    <2>. QED
        BY <1>10, <2>1 DEF vars
<1>. QED
    BY <1>2, <1>3, <1>4, <1>5, <1>6, <1>7, <1>8, <1>9, <1>10 DEF Next, Work, Over

LEMMA SpecTypes == Spec => []Types
BY InitTypes, StepTypes, PTL DEF Spec

\* The types of the variables, and nothing is run before the lists are through.
THEOREM SpecTypeOK == Spec => []TypeOK
<1>1. Types => TypeOK
    BY DEF Types
<1>. QED
    BY SpecTypes, <1>1, PTL
-----------------------------------------------------------------------------
(* Names, character by character                                             *)

\* p is in s from place k on.
At(p, s, k) == k + Len(p) - 1 <= Len(s) /\ \A i \in 1 .. Len(p) : s[k + i - 1] = p[i]

LEMMA AtSubSeq ==
    ASSUME NEW S, NEW p \in Seq(S), NEW s \in Seq(S), NEW k \in Nat \ {0},
           k + Len(p) - 1 <= Len(s)
    PROVE  SubSeq(s, k, k + Len(p) - 1) = p <=> At(p, s, k)
<1> DEFINE l == Len(p)
           t == SubSeq(s, k, k + l - 1)
<1>1. l \in Nat /\ Len(s) \in Nat /\ p \in Seq(S) /\ DOMAIN p = 1 .. l
    OBVIOUS
<1>2. t \in Seq(S) /\ Len(t) = l /\ \A i \in 1 .. l : t[i] = s[k + i - 1]
    <2>1. \A i \in k .. k + l - 1 : s[i] \in S
        BY <1>1
    <2>2. k + l - 1 + 1 - k = l
        BY <1>1
    <2>3. Len(t) = l
        BY <1>1, <2>2
    <2>. QED
        BY <1>1, <2>1, <2>3
<1> HIDE DEF t
<1>3. t = p => At(p, s, k)
    BY <1>1, <1>2 DEF At
<1>4. ASSUME At(p, s, k) PROVE t = p
    <2>1. \A i \in 1 .. l : t[i] = p[i]
        BY <1>2, <1>4 DEF At
    <2>. QED
        BY <1>1, <1>2, <2>1
<1>. QED
    BY <1>3, <1>4 DEF t

LEMMA PrefixAt ==
    ASSUME NEW S, NEW p \in Seq(S), NEW s \in Seq(S)
    PROVE  IsPrefix(p, s) <=> At(p, s, 1)
<1>1. Len(p) \in Nat /\ Len(s) \in Nat /\ 1 + Len(p) - 1 = Len(p)
    OBVIOUS
<1>2. SubSeq(p, 1, Len(p)) = p
    OBVIOUS
<1>3. ASSUME Len(p) <= Len(s) PROVE IsPrefix(p, s) <=> At(p, s, 1)
    <2>1. SubSeq(s, 1, 1 + Len(p) - 1) = p <=> At(p, s, 1)
        <3>1. 1 \in Nat \ {0} /\ 1 + Len(p) - 1 <= Len(s)
            BY <1>1, <1>3
        <3>. QED
            BY <3>1, AtSubSeq
    <2>. QED
        BY <1>1, <1>2, <1>3, <2>1 DEF IsPrefix
<1>4. ASSUME ~(Len(p) <= Len(s)) PROVE ~IsPrefix(p, s) /\ ~At(p, s, 1)
    BY <1>1, <1>4 DEF IsPrefix, At
<1>. QED
    BY <1>3, <1>4

LEMMA ReverseFacts ==
    ASSUME NEW S, NEW s \in Seq(S)
    PROVE  /\ Reverse(s) \in Seq(S) /\ Len(Reverse(s)) = Len(s)
           /\ \A i \in 1 .. Len(s) : Reverse(s)[i] = s[Len(s) - i + 1]
<1>1. Len(s) \in Nat /\ \A i \in 1 .. Len(s) : s[i] \in S
    OBVIOUS
<1>2. \A i \in 1 .. Len(s) : Len(s) - i + 1 \in 1 .. Len(s)
    BY <1>1
<1>. QED
    BY <1>1, <1>2 DEF Reverse

LEMMA SuffixAt ==
    ASSUME NEW S, NEW p \in Seq(S), NEW s \in Seq(S)
    PROVE  IsSuffix(p, s) <=> Len(p) <= Len(s) /\ At(p, s, Len(s) - Len(p) + 1)
<1> DEFINE l == Len(p)
           m == Len(s)
           rp == Reverse(p)
           rs == Reverse(s)
<1>1. l \in Nat /\ m \in Nat
    OBVIOUS
<1>2. /\ rp \in Seq(S) /\ Len(rp) = l /\ \A i \in 1 .. l : rp[i] = p[l - i + 1]
      /\ rs \in Seq(S) /\ Len(rs) = m /\ \A i \in 1 .. m : rs[i] = s[m - i + 1]
    BY ReverseFacts
<1>3. IsSuffix(p, s) <=> At(rp, rs, 1)
    BY <1>2, PrefixAt DEF IsSuffix
<1> HIDE DEF l, m, rp, rs
<1>4. At(rp, rs, 1) <=> l <= m /\ \A i \in 1 .. l : rs[i] = rp[i]
    BY <1>1, <1>2 DEF At
<1>5. At(p, s, m - l + 1) <=> \A i \in 1 .. l : s[m - l + i] = p[i]
    <2>1. m - l + 1 + l - 1 <= m
        BY <1>1
    <2>2. \A i \in 1 .. l : m - l + 1 + i - 1 = m - l + i
        BY <1>1
    <2>. QED
        BY <2>1, <2>2 DEF At, l, m
<1>6. ASSUME l <= m, \A i \in 1 .. l : rs[i] = rp[i], NEW i \in 1 .. l
      PROVE  s[m - l + i] = p[i]
    <2>1. PICK j \in 1 .. l : j = l - i + 1
        BY <1>1
    <2>2. j \in 1 .. m /\ l - j + 1 = i /\ m - j + 1 = m - l + i
        BY <1>1, <1>6, <2>1
    <2>3. rp[j] = p[i]
        BY <1>2, <2>2
    <2>4. rs[j] = s[m - l + i]
        BY <1>2, <2>2
    <2>. QED
        BY <1>6, <2>3, <2>4
<1>7. ASSUME l <= m, \A i \in 1 .. l : s[m - l + i] = p[i], NEW i \in 1 .. l
      PROVE  rs[i] = rp[i]
    <2>1. PICK j \in 1 .. l : j = l - i + 1
        BY <1>1
    <2>2. i \in 1 .. m /\ m - i + 1 = m - l + j
        BY <1>1, <1>7, <2>1
    <2>3. rp[i] = p[j]
        BY <1>2, <2>1
    <2>4. rs[i] = s[m - l + j]
        BY <1>2, <2>2
    <2>. QED
        BY <1>7, <2>3, <2>4
<1>8. l <= m => (At(rp, rs, 1) <=> At(p, s, m - l + 1))
    BY <1>4, <1>5, <1>6, <1>7
<1>. QED
    BY <1>3, <1>4, <1>8 DEF l, m

\* A piece is found where it is first, from a place on.
LEMMA FindFacts ==
    ASSUME NEW S, NEW p \in Seq(S), NEW s \in Seq(S), NEW i \in Nat \ {0}
    PROVE  /\ Find(p, s, i) \in Nat
           /\ Find(p, s, i) # 0 => i <= Find(p, s, i) /\ At(p, s, Find(p, s, i))
           /\ \A k \in Nat : i <= k /\ At(p, s, k) => Find(p, s, i) # 0 /\ Find(p, s, i) <= k
<1> DEFINE l == Len(p)
           m == Len(s)
           at == {k \in i .. m - l + 1 : SubSeq(s, k, k + l - 1) = p}
<1>1. l \in Nat /\ m \in Nat
    OBVIOUS
<1>2. ASSUME NEW k \in Nat PROVE k \in at <=> i <= k /\ At(p, s, k)
    <2>1. CASE k \in i .. m - l + 1
        <3>1. k \in Nat \ {0} /\ k + l - 1 <= m /\ i <= k
            BY <1>1, <2>1
        <3>2. SubSeq(s, k, k + l - 1) = p <=> At(p, s, k)
            BY <3>1, AtSubSeq
        <3>. QED
            BY <2>1, <3>1, <3>2
    <2>2. CASE k \notin i .. m - l + 1
        <3>1. ~(i <= k /\ k + l - 1 <= m)
            BY <1>1, <2>2
        <3>. QED
            BY <2>2, <3>1 DEF At
    <2>. QED
        BY <2>1, <2>2
<1>3. at \in SUBSET Nat /\ 0 \notin at
    BY <1>1
<1>4. Find(p, s, i) = IF at = {} THEN 0 ELSE CHOOSE k \in at : \A j \in at : k <= j
    BY DEF Find
<1> HIDE DEF at
<1>5. ASSUME at # {} PROVE Find(p, s, i) \in at /\ \A j \in at : Find(p, s, i) <= j
    <2>1. \E k \in at : \A j \in at : k <= j
        BY <1>3, <1>5, Least
    <2>. QED
        BY <1>4, <1>5, <2>1
<1>6. at = {} => Find(p, s, i) = 0
    BY <1>4
<1> DEFINE found == Find(p, s, i)
<1>7. found \in Nat /\ (found # 0 => i <= found /\ At(p, s, found))
    <2>1. CASE at = {}
        BY <1>6, <2>1
    <2>2. CASE at # {}
        <3>1. found \in at /\ found \in Nat
            BY <1>3, <1>5, <2>2
        <3> HIDE DEF found
        <3>. QED
            BY <1>2, <3>1
    <2>. QED
        BY <2>1, <2>2
<1>8. ASSUME NEW k \in Nat, i <= k, At(p, s, k) PROVE found # 0 /\ found <= k
    <2>1. k \in at
        BY <1>2, <1>8
    <2>2. found \in at /\ found <= k
        BY <1>5, <2>1
    <2> HIDE DEF found
    <2>. QED
        BY <1>3, <2>2
<1>. QED
    BY <1>7, <1>8

\* Where to go on after a piece.
Past(p, s, from) ==
    LET at == IF from = 0 THEN 0 ELSE Find(p, s, from)
    IN  IF at = 0 THEN 0 ELSE at + Len(p)

IsAfter(g, pieces, s) ==
    g = [k \in 1 .. Len(pieces) - 1 |->
            IF k = 1 THEN 1 ELSE Past(pieces[k], s, g[k - 1])]

LEMMA PastType ==
    ASSUME NEW S, NEW p \in Seq(S), NEW s \in Seq(S), NEW from \in Nat
    PROVE  Past(p, s, from) \in Nat
<1>1. from # 0 => Find(p, s, from) \in Nat
    BY FindFacts
<1>. QED
    BY <1>1 DEF Past

LEMMA AfterFacts ==
    ASSUME NEW S, NEW pieces \in Seq(Seq(S)), Len(pieces) >= 2, NEW s \in Seq(S)
    PROVE  /\ After(pieces, s)[1] = 1
           /\ \A k \in 1 .. Len(pieces) - 1 : After(pieces, s)[k] \in Nat
           /\ \A k \in 2 .. Len(pieces) - 1 :
                 After(pieces, s)[k] = Past(pieces[k], s, After(pieces, s)[k - 1])
<1> DEFINE l == Len(pieces)
           n == l - 2
           h == [i \in 1 .. n |-> [t \in Nat |-> Past(pieces[i + 1], s, t)]]
<1>1. l \in Nat /\ l >= 2 /\ n \in Nat /\ l - 1 = n + 1
    OBVIOUS
<1>2. \A i \in 1 .. n : i + 1 \in 1 .. l /\ pieces[i + 1] \in Seq(S)
    BY <1>1
<1>3. \A i \in 1 .. n, t \in Nat : h[i][t] = Past(pieces[i + 1], s, t) /\ h[i][t] \in Nat
    BY <1>2, PastType
<1> HIDE DEF l, n, h
<1>4. PICK g \in [0 .. n -> Nat] : IsRecursion(g, n, 1, h)
    BY <1>1, <1>3, Recursion
<1> DEFINE f == [k \in 1 .. n + 1 |-> g[k - 1]]
<1>5. ASSUME NEW k \in 1 .. n + 1
      PROVE  f[k] = IF k = 1 THEN 1 ELSE Past(pieces[k], s, f[k - 1])
    <2>1. f[k] = g[k - 1]
        OBVIOUS
    <2>2. k \in 2 .. n + 1 => f[k - 1] = g[k - 1 - 1]
        BY <1>1
    <2> HIDE DEF f
    <2>3. CASE k = 1
        <3>1. k - 1 = 0
            BY <2>3
        <3>. QED
            BY <1>4, <2>1, <2>3, <3>1 DEF IsRecursion
    <2>4. CASE k # 1
        <3>1. k - 1 \in 1 .. n /\ k - 1 + 1 = k /\ k - 1 - 1 \in 0 .. n /\ k \in 2 .. n + 1
            BY <1>1, <2>4
        <3>2. g[k - 1] = h[k - 1][g[k - 1 - 1]] /\ g[k - 1 - 1] \in Nat
            BY <1>4, <3>1 DEF IsRecursion
        <3>3. h[k - 1][g[k - 1 - 1]] = Past(pieces[k - 1 + 1], s, g[k - 1 - 1])
            BY <1>3, <3>1, <3>2
        <3>. QED
            BY <2>1, <2>2, <2>4, <3>1, <3>2, <3>3
    <2>. QED
        BY <2>3, <2>4
<1>6. f = [k \in 1 .. n + 1 |-> f[k]]
    OBVIOUS
<1> HIDE DEF f
<1>7. IsAfter(f, pieces, s)
    BY <1>1, <1>5, <1>6 DEF IsAfter, l
<1>8. After(pieces, s) = CHOOSE u : IsAfter(u, pieces, s)
    BY DEF After, IsAfter, Past
<1>9. IsAfter(After(pieces, s), pieces, s)
    BY <1>7, <1>8
<1> DEFINE u == After(pieces, s)
<1>10. \A k \in 1 .. n + 1 : u[k] = IF k = 1 THEN 1 ELSE Past(pieces[k], s, u[k - 1])
    BY <1>1, <1>9 DEF IsAfter, l
<1> HIDE DEF u
<1>11. u[1] = 1
    BY <1>1, <1>10
<1>12. ASSUME NEW k \in 2 .. n + 1 PROVE u[k] = Past(pieces[k], s, u[k - 1])
    <2>1. k \in 1 .. n + 1 /\ k # 1
        BY <1>1
    <2>. QED
        BY <1>10, <2>1
<1>13. \A k \in 1 .. n + 1 : u[k] \in Nat
    <2> DEFINE v == [i \in 0 .. n |-> u[i + 1]]
    <2>1. \A i \in 0 .. n : v[i] = u[i + 1]
        OBVIOUS
    <2> HIDE DEF v
    <2>2. v[0] \in Nat
        BY <1>1, <1>11, <2>1
    <2>3. ASSUME NEW i \in 1 .. n, v[i - 1] \in Nat PROVE v[i] \in Nat
        <3>1. i - 1 \in 0 .. n /\ i \in 0 .. n /\ i + 1 \in 2 .. n + 1 /\ i + 1 - 1 = i
            BY <1>1
        <3>2. i - 1 + 1 = i
            OBVIOUS
        <3>3. v[i - 1] = u[i] /\ v[i] = u[i + 1]
            BY <2>1, <3>1, <3>2
        <3>4. u[i + 1] = Past(pieces[i + 1], s, u[i])
            <4>1. u[i + 1] = Past(pieces[i + 1], s, u[i + 1 - 1])
                BY <1>12, <3>1
            <4>. QED
                BY <3>1, <4>1
        <3>5. u[i] \in Nat
            BY <2>3, <3>3
        <3>. QED
            BY <1>2, <3>3, <3>4, <3>5, PastType
    <2>4. \A i \in 0 .. n : v[i] \in Nat
        BY <1>1, <2>2, <2>3, RecursionType
    <2>5. ASSUME NEW k \in 1 .. n + 1 PROVE u[k] \in Nat
        <3>1. k - 1 \in 0 .. n /\ k - 1 + 1 = k
            BY <1>1
        <3>. QED
            BY <2>1, <2>4, <3>1
    <2>. QED
        BY <2>5
<1>. QED
    BY <1>1, <1>11, <1>12, <1>13 DEF u, l
-----------------------------------------------------------------------------
(* The pieces of a wild card                                                 *)

Character == Letter \cup {Star}

\* The stars before and after each piece, with one before and one after the
\* whole wild card.
Cuts(c, w) ==
    LET pieces == Split(w)
        n == Len(pieces)
    IN  /\ n \in Nat \ {0} /\ pieces \in Seq(Seq(Letter))
        /\ c \in [1 .. n + 1 -> 0 .. Len(w) + 1] /\ c[1] = 0 /\ c[n + 1] = Len(w) + 1
        /\ \A k \in 1 .. n :
              /\ c[k] < c[k + 1] /\ Len(pieces[k]) = c[k + 1] - 1 - c[k]
              /\ \A i \in 1 .. Len(pieces[k]) : pieces[k][i] = w[c[k] + i] /\ w[c[k] + i] # Star
        /\ \A k \in 2 .. n : w[c[k]] = Star
        /\ \A i \in DOMAIN w : w[i] = Star => \E k \in 2 .. n : c[k] = i

LEMMA SplitCuts == ASSUME NEW w \in Seq(Character) PROVE \E c : Cuts(c, w)
<1> DEFINE l == Len(w)
           ids == [i \in DOMAIN w |-> i]
           X == {i \in DOMAIN w : w[i] = Star}
           stars == Those(ids, X)
           cuts == <<0>> \o stars \o <<l + 1>>
           n == Len(stars) + 1
           pieces == Split(w)
<1>1. l \in Nat /\ DOMAIN w = 1 .. l /\ \A i \in 1 .. l : w[i] \in Letter \/ w[i] = Star
    BY DEF Character
<1>2. ids \in Seq(1 .. l) /\ Len(ids) = l /\ \A i \in 1 .. l : ids[i] = i
    BY <1>1
<1>3. pieces = [k \in 1 .. n |-> SubSeq(w, cuts[k] + 1, cuts[k + 1] - 1)]
    BY DEF Split
<1>4. \A i \in 1 .. l : i \in X <=> w[i] = Star
    BY <1>1
<1> HIDE DEF l, ids, X, pieces
<1>5. stars \in Seq((1 .. l) \cap X) /\ \E e : Places(e, stars, ids, X, l)
    BY <1>2, ThosePlaces
<1> HIDE DEF stars
<1>6. PICK e : Places(e, stars, ids, X, l)
    BY <1>5
<1>7. Len(stars) \in Nat /\ stars \in Seq(Int) /\ n \in Nat \ {0}
    <2>1. Len(stars) \in Nat /\ stars = [k \in 1 .. Len(stars) |-> stars[k]]
        BY <1>5
    <2>2. \A k \in 1 .. Len(stars) : stars[k] \in Int
        BY <1>5
    <2>3. stars \in Seq(Int)
        BY <2>1, <2>2
    <2>. QED
        BY <2>1, <2>3
<1>8. ASSUME NEW k \in 1 .. Len(stars)
      PROVE  stars[k] = e[k] /\ stars[k] \in 1 .. l /\ w[stars[k]] = Star
    <2>1. stars[k] = ids[e[k]] /\ e[k] \in 1 .. l /\ stars[k] \in X
        BY <1>6 DEF Places
    <2>. QED
        BY <1>2, <1>4, <2>1
<1>9. ASSUME NEW k \in 1 .. Len(stars), NEW m \in 1 .. Len(stars), k < m
      PROVE  stars[k] < stars[m]
    BY <1>6, <1>8, <1>9 DEF Places
<1>10. ASSUME NEW i \in 1 .. l, w[i] = Star PROVE \E k \in 1 .. Len(stars) : stars[k] = i
    <2>1. ids[i] \in X
        BY <1>2, <1>4, <1>10
    <2>2. PICK k \in 1 .. Len(stars) : e[k] = i
        BY <1>6, <2>1 DEF Places
    <2>. QED
        BY <1>8, <2>2
<1> DEFINE c == [k \in 1 .. n + 1 |->
                    IF k = 1 THEN 0 ELSE IF k = n + 1 THEN l + 1 ELSE stars[k - 1]]
<1>11. \A k \in 1 .. n + 1 : cuts[k] = c[k]
    <2>1. <<0>> \o stars \in Seq(Int) /\ Len(<<0>> \o stars) = n
        <3>1. <<0>> \in Seq(Int) /\ Len(<<0>>) = 1
            OBVIOUS
        <3>2. Len(<<0>> \o stars) = 1 + Len(stars)
            BY <1>7, <3>1
        <3>. QED
            BY <1>7, <3>1, <3>2
    <2>2. \A k \in 1 .. n : (<<0>> \o stars)[k] = IF k = 1 THEN 0 ELSE stars[k - 1]
        BY <1>7
    <2>3. \A k \in 1 .. n + 1 : cuts[k] = IF k = n + 1 THEN l + 1 ELSE (<<0>> \o stars)[k]
        <3> DEFINE some == <<0>> \o stars
        <3>1. some \in Seq(Int) /\ Len(some) = n
            BY <2>1
        <3> HIDE DEF some, n
        <3>2. \A k \in 1 .. n + 1 : (some \o <<l + 1>>)[k] = IF k = n + 1 THEN l + 1 ELSE some[k]
            BY <1>1, <1>7, <3>1
        <3>. QED
            BY <3>2 DEF some
    <2> HIDE DEF cuts
    <2>. QED
        BY <1>7, <2>2, <2>3
<1> HIDE DEF cuts
<1>12. /\ c \in [1 .. n + 1 -> 0 .. l + 1] /\ c[1] = 0 /\ c[n + 1] = l + 1
       /\ \A k \in 2 .. n : k - 1 \in 1 .. Len(stars) /\ c[k] = stars[k - 1]
       /\ \A k \in 1 .. n : k \in 1 .. n + 1 /\ k + 1 \in 1 .. n + 1
    <2>1. \A k \in 2 .. n : k - 1 \in 1 .. Len(stars) /\ k \in 1 .. n + 1 /\ k # 1 /\ k # n + 1
        BY <1>7
    <2>2. \A k \in 1 .. n : k \in 1 .. n + 1 /\ k + 1 \in 1 .. n + 1
        BY <1>7
    <2>3. 1 \in 1 .. n + 1 /\ n + 1 \in 1 .. n + 1 /\ n + 1 # 1
        BY <1>7
    <2>4. c[1] = 0 /\ c[n + 1] = l + 1 /\ \A k \in 2 .. n : c[k] = stars[k - 1]
        BY <2>1, <2>3
    <2>5. \A k \in 1 .. n + 1 : k = 1 \/ k = n + 1 \/ k \in 2 .. n
        BY <1>7
    <2>6. c = [k \in 1 .. n + 1 |-> c[k]]
        OBVIOUS
    <2> HIDE DEF c
    <2>7. 0 \in 0 .. l + 1 /\ l + 1 \in 0 .. l + 1 /\ 1 .. l \subseteq 0 .. l + 1
        BY <1>1
    <2>8. \A k \in 2 .. n : c[k] \in 0 .. l + 1
        BY <1>8, <2>1, <2>4, <2>7
    <2>9. \A k \in 1 .. n + 1 : c[k] \in 0 .. l + 1
        BY <2>4, <2>5, <2>7, <2>8
    <2>. QED
        BY <2>1, <2>2, <2>4, <2>6, <2>9
<1>13. ASSUME NEW k \in 1 .. n + 1, NEW m \in 1 .. n + 1, k < m PROVE c[k] < c[m]
    <2>1. CASE k = 1
        <3>1. c[m] \in 1 .. l + 1
            BY <1>1, <1>7, <1>8, <1>13, <2>1
        <3>. QED
            BY <1>12, <2>1, <3>1
    <2>2. CASE k # 1 /\ m = n + 1
        <3>1. k \in 2 .. n
            BY <1>7, <1>13, <2>2
        <3>2. c[k] \in 1 .. l
            BY <1>8, <1>12, <3>1
        <3>. QED
            BY <1>1, <1>12, <2>2, <3>2
    <2>3. CASE k # 1 /\ m # n + 1
        <3>1. k \in 2 .. n /\ m \in 2 .. n /\ k - 1 < m - 1
            BY <1>7, <1>13, <2>3
        <3>. QED
            BY <1>9, <1>12, <3>1
    <2>. QED
        BY <2>1, <2>2, <2>3
<1>14. ASSUME NEW k \in 2 .. n PROVE w[c[k]] = Star
    BY <1>8, <1>12
<1>15. ASSUME NEW i \in 1 .. l, w[i] = Star PROVE \E k \in 2 .. n : c[k] = i
    <2>1. PICK k \in 1 .. Len(stars) : stars[k] = i
        BY <1>10, <1>15
    <2>2. PICK m \in 2 .. n : m - 1 = k
        BY <1>7
    <2>. QED
        BY <1>12, <2>1, <2>2
<1> HIDE DEF c, n
<1>16. Len(pieces) = n /\ \A k \in 1 .. n : pieces[k] = SubSeq(w, c[k] + 1, c[k + 1] - 1)
    <2>1. \A k \in 1 .. n : cuts[k] = c[k] /\ cuts[k + 1] = c[k + 1]
        BY <1>11, <1>12
    <2>2. Len(pieces) = n
        BY <1>3, <1>7
    <2>3. \A k \in 1 .. n : pieces[k] = SubSeq(w, cuts[k] + 1, cuts[k + 1] - 1)
        BY <1>3
    <2>. QED
        BY <2>1, <2>2, <2>3
<1>17. ASSUME NEW k \in 1 .. n
       PROVE  /\ pieces[k] \in Seq(Letter)
              /\ c[k] < c[k + 1] /\ Len(pieces[k]) = c[k + 1] - 1 - c[k]
              /\ \A i \in 1 .. Len(pieces[k]) :
                    pieces[k][i] = w[c[k] + i] /\ w[c[k] + i] # Star
    <2> DEFINE a == c[k]
               b == c[k + 1]
    <2>1. a \in 0 .. l + 1 /\ b \in 0 .. l + 1 /\ a < b
        <3>1. k < k + 1
            BY <1>7
        <3>. QED
            BY <1>12, <1>13, <3>1
    <2>2. ASSUME NEW i \in a + 1 .. b - 1 PROVE i \in 1 .. l /\ w[i] # Star
        <3>1. i \in 1 .. l
            BY <1>1, <2>1
        <3>2. ASSUME w[i] = Star PROVE FALSE
            <4>1. PICK m \in 2 .. n : c[m] = i
                BY <1>15, <3>1, <3>2
            <4>2. m \in 1 .. n + 1 /\ k \in 1 .. n + 1 /\ k + 1 \in 1 .. n + 1
                BY <1>7, <1>12
            <4>3. a < i /\ i < b
                BY <1>1, <2>1
            <4>4. CASE m < k
                <5>1. c[m] < c[k]
                    BY <1>13, <4>2, <4>4
                <5>. QED
                    BY <2>1, <3>1, <4>1, <4>3, <5>1
            <4>5. CASE m = k
                BY <2>1, <3>1, <4>1, <4>3, <4>5
            <4>6. CASE m = k + 1
                BY <2>1, <3>1, <4>1, <4>3, <4>6
            <4>7. CASE k + 1 < m
                <5>1. c[k + 1] < c[m]
                    BY <1>13, <4>2, <4>7
                <5>. QED
                    BY <2>1, <3>1, <4>1, <4>3, <5>1
            <4>8. m \in Nat /\ k \in Nat
                BY <1>7
            <4>. QED
                BY <4>4, <4>5, <4>6, <4>7, <4>8
        <3>. QED
            BY <3>1, <3>2
    <2>3. pieces[k] = SubSeq(w, a + 1, b - 1)
        BY <1>16
    <2> HIDE DEF a, b
    <2>4. \A i \in a + 1 .. b - 1 : w[i] \in Letter
        BY <1>1, <2>2
    <2>5. Len(pieces[k]) = b - 1 - a
        BY <1>1, <2>1, <2>3
    <2>6. \A i \in 1 .. b - 1 - a : pieces[k][i] = w[a + i] /\ a + i \in a + 1 .. b - 1
        BY <1>1, <2>1, <2>3
    <2>7. pieces[k] \in Seq(Letter)
        BY <2>1, <2>3, <2>4
    <2>8. \A i \in 1 .. b - 1 - a : w[a + i] # Star
        BY <2>2, <2>6
    <2>. QED
        BY <2>1, <2>5, <2>6, <2>7, <2>8 DEF a, b
<1>18. pieces \in Seq(Seq(Letter))
    <2>1. pieces = [k \in 1 .. n |-> pieces[k]]
        BY <1>3 DEF n
    <2>2. \A k \in 1 .. n : pieces[k] \in Seq(Letter)
        BY <1>17
    <2> HIDE DEF pieces
    <2>. QED
        BY <1>7, <2>1, <2>2
<1>19. Cuts(c, w)
    BY <1>1, <1>7, <1>12, <1>14, <1>15, <1>16, <1>17, <1>18 DEF Cuts, pieces, l
<1>. QED
    BY <1>19
-----------------------------------------------------------------------------
(* What wild cards match                                                     *)

IsMatch(to, w, s) ==
    /\ to \in [0 .. Len(w) -> 0 .. Len(s)]
    /\ to[0] = 0 /\ to[Len(w)] = Len(s)
    /\ \A i \in 1 .. Len(w) :
          IF w[i] = Star THEN to[i - 1] <= to[i]
          ELSE to[i] = to[i - 1] + 1 /\ w[i] = s[to[i]]

LEMMA GlobIsMatch ==
    ASSUME NEW w \in Seq(Character), NEW s
    PROVE  Glob(w, s) <=> \E to : IsMatch(to, w, s)
<1>1. DOMAIN w = 1 .. Len(w)
    OBVIOUS
<1>. QED
    BY <1>1 DEF Glob, IsMatch

NoStar(w, a, d) == \A i \in 1 .. d : w[a + i] # Star

\* Without a star, a stretch of the wild card is a stretch of the name.
Along(to, w, s, a, d) ==
    /\ \A i \in 0 .. d : to[a + i] = to[a] + i
    /\ \A i \in 1 .. d : s[to[a] + i] = w[a + i]

LEMMA Stretch ==
    ASSUME NEW w \in Seq(Character), NEW s \in Seq(Letter), NEW to, IsMatch(to, w, s),
           NEW a \in 0 .. Len(w), NEW d \in Nat, a + d <= Len(w), NoStar(w, a, d)
    PROVE  Along(to, w, s, a, d)
<1> DEFINE T == {i \in 0 .. d : to[a + i] = to[a] + i}
<1>1. a \in Nat /\ Len(w) \in Nat /\ Len(s) \in Nat /\ to[a] \in 0 .. Len(s)
    BY DEF IsMatch
<1>2. 0 \in T
    <2>1. a + 0 = a /\ to[a] + 0 = to[a]
        BY <1>1
    <2>. QED
        BY <2>1
<1>3. ASSUME NEW i \in 0 .. d, i < d
      PROVE  /\ i + 1 \in 1 .. d /\ i + 1 \in 0 .. d
             /\ to[a + (i + 1)] = to[a + i] + 1 /\ w[a + (i + 1)] = s[to[a + (i + 1)]]
    <2>1. i + 1 \in 1 .. d /\ i + 1 \in 0 .. d
        BY <1>3
    <2>2. PICK j \in 1 .. Len(w) : j = a + (i + 1) /\ j - 1 = a + i
        BY <1>1, <1>3
    <2>3. w[j] # Star
        BY <2>1, <2>2 DEF NoStar
    <2>4. to[j] = to[j - 1] + 1 /\ w[j] = s[to[j]]
        BY <2>3 DEF IsMatch
    <2>. QED
        BY <2>1, <2>2, <2>4
<1>4. ASSUME NEW i \in 0 .. d, i \in T, i < d PROVE i + 1 \in T
    <2>1. to[a + i] = to[a] + i
        BY <1>4
    <2>2. to[a + (i + 1)] = to[a] + i + 1 /\ i + 1 \in 0 .. d
        BY <1>3, <1>4, <2>1
    <2>3. to[a] + i + 1 = to[a] + (i + 1)
        BY <1>1
    <2>. QED
        BY <2>2, <2>3
<1>5. T \in SUBSET (0 .. d)
    OBVIOUS
<1>6. T = 0 .. d
    <2> HIDE DEF T
    <2>. QED
        BY <1>2, <1>4, <1>5, Induction
<1>7. ASSUME NEW i \in 1 .. d PROVE s[to[a] + i] = w[a + i]
    <2>1. PICK j \in 0 .. d : i = j + 1 /\ j < d
        BY <1>7
    <2>2. w[a + (j + 1)] = s[to[a + (j + 1)]] /\ j + 1 \in 0 .. d
        BY <1>3, <2>1
    <2>3. to[a + i] = to[a] + i
        BY <1>6, <2>1, <2>2
    <2>. QED
        BY <2>1, <2>2, <2>3
<1>. QED
    BY <1>6, <1>7 DEF Along

\* What a wild card should match, it does.
LEMMA GlobMatches ==
    ASSUME NEW w \in Seq(Character), NEW s \in Seq(Letter), HasStar(w), Glob(w, s)
    PROVE  Matches(w, s)
<1> DEFINE pieces == Split(w)
           n == Len(pieces)
<1>1. PICK to : IsMatch(to, w, s)
    BY GlobIsMatch
<1>2. PICK c : Cuts(c, w)
    BY SplitCuts
<1> HIDE DEF pieces
<1>3. /\ n \in Nat \ {0} /\ pieces \in Seq(Seq(Letter)) /\ Len(w) \in Nat /\ Len(s) \in Nat
      /\ c \in [1 .. n + 1 -> 0 .. Len(w) + 1] /\ c[1] = 0 /\ c[n + 1] = Len(w) + 1
      /\ \A k \in 1 .. n :
            /\ c[k] < c[k + 1] /\ Len(pieces[k]) = c[k + 1] - 1 - c[k]
            /\ \A i \in 1 .. Len(pieces[k]) : pieces[k][i] = w[c[k] + i] /\ w[c[k] + i] # Star
      /\ \A k \in 2 .. n : w[c[k]] = Star
    BY <1>2 DEF Cuts, pieces
<1>4. n >= 2
    <2>1. PICK i \in 1 .. Len(w) : w[i] = Star
        BY DEF HasStar, Contains
    <2>2. i \in DOMAIN w
        OBVIOUS
    <2>3. \E k \in 2 .. n : c[k] = i
        BY <1>2, <2>1, <2>2 DEF Cuts, pieces
    <2>. QED
        BY <1>3, <2>3
<1> HIDE DEF n
<1>5. ASSUME NEW k \in 1 .. n
      PROVE  /\ c[k] \in 0 .. Len(w) /\ c[k + 1] - 1 \in 0 .. Len(w)
             /\ to[c[k]] \in 0 .. Len(s) /\ to[c[k + 1] - 1] = to[c[k]] + Len(pieces[k])
             /\ pieces[k] \in Seq(Letter) /\ At(pieces[k], s, to[c[k]] + 1)
    <2> DEFINE a == c[k]
               b == c[k + 1]
               d == Len(pieces[k])
    <2>1. k \in 1 .. n + 1 /\ k + 1 \in 1 .. n + 1
        BY <1>3
    <2>2. a \in 0 .. Len(w) + 1 /\ b \in 0 .. Len(w) + 1 /\ a < b /\ d = b - 1 - a
        BY <1>3, <2>1
    <2>3. pieces[k] \in Seq(Letter) /\ d \in Nat
        BY <1>3 DEF n
    <2>4. \A i \in 1 .. d : pieces[k][i] = w[a + i] /\ w[a + i] # Star
        BY <1>3
    <2> HIDE DEF a, b, d
    <2>5. a \in 0 .. Len(w) /\ b - 1 \in 0 .. Len(w) /\ a + d = b - 1 /\ a + d <= Len(w)
        BY <1>3, <2>2
    <2>6. /\ \A i \in 0 .. d : to[a + i] = to[a] + i
          /\ \A i \in 1 .. d : s[to[a] + i] = w[a + i]
        <3>1. NoStar(w, a, d)
            BY <2>4 DEF NoStar
        <3>2. Along(to, w, s, a, d)
            BY <1>1, <2>3, <2>5, <3>1, Stretch
        <3>. QED
            BY <3>2 DEF Along
    <2>7. to[a] \in 0 .. Len(s) /\ to[b - 1] \in 0 .. Len(s)
        BY <1>1, <2>5 DEF IsMatch
    <2>8. to[b - 1] = to[a] + d
        BY <2>3, <2>5, <2>6
    <2>9. At(pieces[k], s, to[a] + 1)
        <3>1. to[a] + 1 + d - 1 <= Len(s)
            BY <1>3, <2>3, <2>7, <2>8
        <3>2. ASSUME NEW i \in 1 .. d PROVE s[to[a] + 1 + i - 1] = pieces[k][i]
            <4>1. to[a] + 1 + i - 1 = to[a] + i
                BY <2>7
            <4>2. s[to[a] + i] = pieces[k][i]
                BY <2>4, <2>6
            <4>. QED
                BY <4>1, <4>2
        <3>. QED
            BY <3>1, <3>2 DEF At, d
    <2>. QED
        BY <2>3, <2>5, <2>7, <2>8, <2>9 DEF a, b, d
<1>6. IsPrefix(pieces[1], s)
    <2>1. to[c[1]] + 1 = 1
        BY <1>1, <1>3 DEF IsMatch
    <2>2. 1 \in 1 .. n
        BY <1>3
    <2>3. pieces[1] \in Seq(Letter) /\ At(pieces[1], s, to[c[1]] + 1)
        BY <1>5, <2>2
    <2>. QED
        BY <2>1, <2>3, PrefixAt
<1>7. IsSuffix(pieces[n], s)
    <2>1. n \in 1 .. n
        BY <1>3
    <2> DEFINE a == to[c[n]]
               d == Len(pieces[n])
    <2>2. pieces[n] \in Seq(Letter) /\ At(pieces[n], s, a + 1) /\ a \in 0 .. Len(s)
        BY <1>5, <2>1
    <2>3. d \in Nat
        BY <2>2
    <2>4. Len(s) = a + d
        <3>1. c[n + 1] - 1 = Len(w)
            BY <1>3
        <3>2. to[c[n + 1] - 1] = a + d
            BY <1>5, <2>1
        <3>. QED
            BY <1>1, <3>1, <3>2 DEF IsMatch
    <2> HIDE DEF a, d
    <2>5. d <= Len(s) /\ Len(s) - d + 1 = a + 1
        BY <1>3, <2>2, <2>3, <2>4
    <2>6. Len(pieces[n]) <= Len(s) /\ At(pieces[n], s, Len(s) - Len(pieces[n]) + 1)
        BY <2>2, <2>5 DEF d
    <2>. QED
        BY <2>2, <2>6, SuffixAt
<1> DEFINE after == After(pieces, s)
<1>8. /\ after[1] = 1 /\ \A k \in 1 .. n - 1 : after[k] \in Nat
      /\ \A k \in 2 .. n - 1 : after[k] = Past(pieces[k], s, after[k - 1])
    BY <1>3, <1>4, AfterFacts DEF n
<1> HIDE DEF after
<1> DEFINE Good(k) == after[k] # 0 /\ after[k] <= to[c[k + 1] - 1] + 1
           T == {i \in 0 .. n - 2 : Good(i + 1)}
<1>9. 0 \in T
    <2>1. 1 \in 1 .. n /\ 0 \in 0 .. n - 2
        BY <1>3, <1>4
    <2>2. pieces[1] \in Seq(Letter)
        BY <1>5, <2>1
    <2>3. to[c[2] - 1] \in Nat
        <3>1. to[c[1 + 1] - 1] = to[c[1]] + Len(pieces[1]) /\ to[c[1]] \in 0 .. Len(s)
            BY <1>5, <2>1
        <3>. QED
            BY <2>2, <3>1
    <2>4. Good(1)
        <3>1. after[1] <= to[c[2] - 1] + 1
            BY <1>8, <2>3
        <3>. QED
            BY <1>8, <3>1
    <2>. QED
        BY <2>1, <2>4
<1>10. ASSUME NEW i \in 0 .. n - 2, i \in T, i < n - 2 PROVE i + 1 \in T
    <2>1. PICK k \in 2 .. n - 1 : k = i + 2 /\ k - 1 = i + 1 /\ k \in 1 .. n
        BY <1>3, <1>10
    <2>2. Good(k - 1)
        BY <1>10, <2>1
    <2>3. k - 1 \in 1 .. n /\ k - 1 \in 1 .. n - 1 /\ k \in 1 .. n - 1 /\ k - 1 + 1 = k
          /\ i + 1 \in 0 .. n - 2
        BY <1>3, <1>10, <2>1
    <2> DEFINE p == pieces[k]
               a == to[c[k]]
               b == to[c[k] - 1]
               d == Len(p)
               from == after[k - 1]
               z == to[c[k + 1] - 1]
    <2>4. /\ p \in Seq(Letter) /\ At(p, s, a + 1) /\ a \in 0 .. Len(s) /\ z = a + d
          /\ c[k] \in 0 .. Len(w)
        BY <1>5, <2>1
    <2>5. d \in Nat
        BY <2>4
    <2>6. b \in 0 .. Len(s) /\ b <= a
        <3>1. c[k] \in 1 .. Len(w)
            <4>1. c[k - 1] < c[k] /\ c[k - 1] \in 0 .. Len(w)
                BY <1>3, <1>5, <2>3
            <4>. QED
                BY <1>3, <2>4, <4>1
        <3>2. w[c[k]] = Star
            <4>1. k \in 2 .. n
                BY <1>3, <2>1
            <4>. QED
                BY <1>3, <4>1
        <3>3. PICK j \in 1 .. Len(w) : j = c[k]
            BY <3>1
        <3>4. j - 1 \in 0 .. Len(w) /\ j \in 0 .. Len(w)
            OBVIOUS
        <3>6. w[j] = Star
            BY <3>2, <3>3
        <3>5. to[j - 1] <= to[j] /\ to[j - 1] \in 0 .. Len(s)
            BY <1>1, <3>4, <3>6 DEF IsMatch
        <3>. QED
            BY <3>3, <3>5
    <2>7. from # 0 /\ from \in Nat /\ from <= b + 1
        BY <1>8, <2>2, <2>3
    <2>8. after[k] = Past(p, s, from)
        BY <1>8, <2>1
    <2> HIDE DEF p, a, b, d, from, z
    <2>9. from \in Nat \ {0} /\ a + 1 \in Nat /\ from <= a + 1
        BY <1>3, <2>4, <2>6, <2>7
    <2>10. Find(p, s, from) \in Nat /\ Find(p, s, from) # 0 /\ Find(p, s, from) <= a + 1
        BY <2>4, <2>9, FindFacts
    <2>11. after[k] = Find(p, s, from) + d
        BY <2>7, <2>8, <2>10 DEF Past, d
    <2>12. after[k] # 0 /\ after[k] <= z + 1
        BY <2>4, <2>5, <2>10, <2>11
    <2>13. Good(k)
        BY <2>12 DEF z
    <2>14. i + 1 + 1 = k
        BY <2>1
    <2> HIDE DEF Good
    <2>. QED
        BY <2>3, <2>13, <2>14
<1>11. T \in SUBSET (0 .. n - 2)
    OBVIOUS
<1>12. Good(n - 1)
    <2> HIDE DEF T
    <2>1. n - 2 \in Nat /\ n - 2 \in 0 .. n - 2 /\ n - 2 + 1 = n - 1
        BY <1>3, <1>4
    <2>2. T = 0 .. n - 2
        BY <1>9, <1>10, <1>11, <2>1, Induction
    <2>3. n - 2 \in T
        BY <2>1, <2>2
    <2> HIDE DEF Good
    <2>. QED
        BY <2>1, <2>3 DEF T
<1>13. after[n - 1] # 0
    BY <1>12
<1>. QED
    BY <1>6, <1>7, <1>13 DEF Matches, Ends, pieces, n, after

\* A wild card without a star matches itself.
LEMMA GlobPlain ==
    ASSUME NEW w \in Seq(Character), NEW s \in Seq(Letter), ~HasStar(w)
    PROVE  Glob(w, s) <=> w = s
<1>1. Len(w) \in Nat /\ Len(s) \in Nat /\ \A i \in 1 .. Len(w) : w[i] # Star
    BY DEF HasStar, Contains
<1>2. ASSUME Glob(w, s) PROVE w = s
    <2>1. PICK to : IsMatch(to, w, s)
        BY <1>2, GlobIsMatch
    <2>2. to[0] = 0 /\ to[Len(w)] = Len(s)
        BY <2>1 DEF IsMatch
    <2>3. PICK a \in 0 .. Len(w) : a = 0
        BY <1>1
    <2>4. /\ \A i \in 0 .. Len(w) : to[a + i] = to[a] + i
          /\ \A i \in 1 .. Len(w) : s[to[a] + i] = w[a + i]
        <3>1. NoStar(w, a, Len(w))
            BY <1>1, <2>3 DEF NoStar
        <3>2. a + Len(w) <= Len(w)
            BY <1>1, <2>3
        <3>3. Along(to, w, s, a, Len(w))
            BY <1>1, <2>1, <3>1, <3>2, Stretch
        <3>. QED
            BY <3>3 DEF Along
    <2>5. Len(w) = Len(s)
        <3>1. Len(w) \in 0 .. Len(w) /\ a + Len(w) = Len(w)
            BY <1>1, <2>3
        <3>2. to[Len(w)] = to[a] + Len(w)
            BY <2>4, <3>1
        <3>. QED
            BY <1>1, <2>2, <2>3, <3>2
    <2>6. \A i \in 1 .. Len(w) : s[i] = w[i]
        <3>1. \A i \in 1 .. Len(w) : to[a] + i = i /\ a + i = i
            BY <2>2, <2>3
        <3>. QED
            BY <2>4, <3>1
    <2>. QED
        BY <2>5, <2>6
<1>3. ASSUME w = s PROVE Glob(w, s)
    <2> DEFINE to == [i \in 0 .. Len(w) |-> i]
    <2>1. to \in [0 .. Len(w) -> 0 .. Len(s)]
        BY <1>3
    <2>2. \A i \in 0 .. Len(w) : to[i] = i
        OBVIOUS
    <2> HIDE DEF to
    <2>3. to[0] = 0 /\ to[Len(w)] = Len(s)
        BY <1>1, <1>3, <2>2
    <2>4. ASSUME NEW i \in 1 .. Len(w) PROVE to[i] = to[i - 1] + 1 /\ w[i] = s[to[i]]
        <3>1. i \in 0 .. Len(w) /\ i - 1 \in 0 .. Len(w) /\ i = i - 1 + 1
            BY <1>1
        <3>. QED
            BY <1>3, <2>2, <3>1
    <2>5. IsMatch(to, w, s)
        BY <1>1, <2>1, <2>3, <2>4 DEF IsMatch
    <2>. QED
        BY <2>5, GlobIsMatch
<1>. QED
    BY <1>2, <1>3

\* A wild card with one star matches what it should only, in a name that is long
\* enough for its beginning and its end.
LEMMA MatchesGlob ==
    ASSUME NEW w \in Seq(Character), NEW s \in Seq(Letter), Matches(w, s),
           Cardinality({i \in DOMAIN w : w[i] = Star}) = 1, Len(s) >= Len(w) - 1
    PROVE  Glob(w, s)
<1> DEFINE pieces == Split(w)
           n == Len(pieces)
           stars == {i \in DOMAIN w : w[i] = Star}
<1>1. Len(w) \in Nat /\ Len(s) \in Nat /\ DOMAIN w = 1 .. Len(w)
    OBVIOUS
<1>2. PICK p \in 1 .. Len(w) : \A i \in 1 .. Len(w) : w[i] = Star <=> i = p
    <2>1. IsFiniteSet(1 .. Len(w)) /\ stars \subseteq 1 .. Len(w)
        BY <1>1, FS_Interval
    <2>2. IsFiniteSet(stars)
        BY <2>1, FS_Subset
    <2> HIDE DEF stars
    <2>3. Cardinality(stars) = 1
        BY DEF stars
    <2>4. \E x : stars = {x}
        BY <2>2, <2>3, FS_Singleton
    <2>5. PICK x : stars = {x}
        BY <2>4
    <2>6. x \in 1 .. Len(w)
        BY <2>1, <2>5
    <2>7. \A i \in 1 .. Len(w) : i \in stars <=> w[i] = Star
        BY <1>1 DEF stars
    <2>. QED
        BY <2>5, <2>6, <2>7
<1>3. PICK c : Cuts(c, w)
    BY SplitCuts
<1> HIDE DEF pieces, stars
<1>4. /\ n \in Nat \ {0} /\ pieces \in Seq(Seq(Letter))
      /\ c \in [1 .. n + 1 -> 0 .. Len(w) + 1] /\ c[1] = 0 /\ c[n + 1] = Len(w) + 1
      /\ \A k \in 1 .. n :
            /\ c[k] < c[k + 1] /\ Len(pieces[k]) = c[k + 1] - 1 - c[k]
            /\ \A i \in 1 .. Len(pieces[k]) : pieces[k][i] = w[c[k] + i] /\ w[c[k] + i] # Star
      /\ \A k \in 2 .. n : w[c[k]] = Star
      /\ \A i \in DOMAIN w : w[i] = Star => \E k \in 2 .. n : c[k] = i
    BY <1>3 DEF Cuts, pieces
<1> HIDE DEF n
<1>5. n = 2 /\ c[2] = p
    <2>1. PICK k \in 2 .. n : c[k] = p
        BY <1>1, <1>2, <1>4
    <2>2. ASSUME NEW j \in 2 .. n PROVE c[j] = p
        <3>1. j \in 1 .. n /\ j \in 1 .. n + 1 /\ j + 1 \in 1 .. n + 1 /\ j - 1 \in 1 .. n
              /\ j - 1 \in 1 .. n + 1 /\ j - 1 + 1 = j
            BY <1>4
        <3>2. c[j] < c[j + 1] /\ c[j - 1] < c[j - 1 + 1]
            BY <1>4, <3>1
        <3>3. c[j] \in 0 .. Len(w) + 1 /\ c[j + 1] \in 0 .. Len(w) + 1
              /\ c[j - 1] \in 0 .. Len(w) + 1
            BY <1>4, <3>1
        <3>4. c[j] \in 1 .. Len(w)
            BY <1>1, <3>1, <3>2, <3>3
        <3>. QED
            BY <1>2, <1>4, <3>4
    <2>3. ASSUME 3 <= n PROVE FALSE
        <3>1. 2 \in 2 .. n /\ 3 \in 2 .. n /\ 2 \in 1 .. n /\ 2 + 1 = 3
            BY <1>4, <2>3
        <3>2. c[2] = p /\ c[3] = p /\ c[2] < c[2 + 1]
            BY <1>4, <2>2, <3>1
        <3>. QED
            BY <3>1, <3>2
    <2>4. n = 2
        BY <1>4, <2>1, <2>3
    <2>. QED
        BY <2>2, <2>4
<1> DEFINE b == pieces[1]
           e == pieces[2]
           x == Len(w)
           y == Len(s)
<1>6. /\ b \in Seq(Letter) /\ e \in Seq(Letter)
      /\ Len(b) = p - 1 /\ Len(e) = x - p
      /\ \A i \in 1 .. p - 1 : b[i] = w[i]
      /\ \A i \in 1 .. x - p : e[i] = w[p + i]
    <2>1. 1 \in 1 .. n /\ 2 \in 1 .. n /\ 1 + 1 = 2 /\ 2 + 1 = n + 1
        BY <1>5
    <2>2. b \in Seq(Letter) /\ e \in Seq(Letter)
        BY <1>4, <2>1 DEF n
    <2>3. Len(b) = c[2] - 1 - c[1] /\ \A i \in 1 .. Len(b) : b[i] = w[c[1] + i]
        BY <1>4, <2>1
    <2>4. Len(e) = c[3] - 1 - c[2] /\ \A i \in 1 .. Len(e) : e[i] = w[c[2] + i]
        BY <1>4, <2>1
    <2>5. c[1] = 0 /\ c[2] = p /\ c[3] = x + 1
        BY <1>4, <1>5, <2>1
    <2>6. Len(b) = p - 1 /\ Len(e) = x - p
        <3>1. x \in Nat
            BY <1>1
        <3>2. p - 1 - 0 = p - 1 /\ x + 1 - 1 - p = x - p
            BY <3>1
        <3>3. Len(b) = p - 1 - 0
            BY <2>3, <2>5, Zenon
        <3>4. c[3] = x + 1 /\ c[2] = p /\ Len(e) = c[3] - 1 - c[2]
            BY <2>4, <2>5
        <3> HIDE DEF b, e, x
        <3>5. Len(e) = x - p
            BY <3>1, <3>4
        <3>. QED
            BY <3>2, <3>3, <3>5
    <2>7. \A i \in 1 .. p - 1 : c[1] + i = i
        BY <2>5
    <2>. QED
        BY <2>2, <2>3, <2>4, <2>5, <2>6, <2>7
<1>7. IsPrefix(b, s) /\ IsSuffix(e, s)
    BY <1>5 DEF Matches, Ends, pieces, n
<1> HIDE DEF b, e, x, y
<1>8. x \in Nat /\ y \in Nat /\ p \in 1 .. x /\ y >= x - 1
    BY <1>1 DEF x, y
<1>9. \A i \in 1 .. p - 1 : s[i] = w[i]
    <2>1. At(b, s, 1)
        BY <1>6, <1>7, PrefixAt
    <2>2. \A i \in 1 .. p - 1 : 1 + i - 1 = i
        OBVIOUS
    <2>. QED
        BY <1>6, <2>1, <2>2 DEF At
<1>10. \A i \in 1 .. x - p : s[y - x + p + i] = w[p + i]
    <2>1. At(e, s, y - (x - p) + 1)
        BY <1>6, <1>7, SuffixAt DEF y
    <2>2. ASSUME NEW i \in 1 .. x - p PROVE y - (x - p) + 1 + i - 1 = y - x + p + i
        BY <1>8
    <2>. QED
        BY <1>6, <2>1, <2>2 DEF At
<1> DEFINE to == [i \in 0 .. x |-> IF i < p THEN i ELSE y - x + i]
<1>11. \A i \in 0 .. x : to[i] = IF i < p THEN i ELSE y - x + i
    OBVIOUS
<1>12. to \in [0 .. x -> 0 .. y]
    <2>1. \A i \in 0 .. x : (IF i < p THEN i ELSE y - x + i) \in 0 .. y
        BY <1>8
    <2>. QED
        BY <2>1
<1> HIDE DEF to
<1>13. to[0] = 0 /\ to[x] = y
    BY <1>8, <1>11
<1>14. ASSUME NEW i \in 1 .. x
       PROVE  IF w[i] = Star THEN to[i - 1] <= to[i]
              ELSE to[i] = to[i - 1] + 1 /\ w[i] = s[to[i]]
    <2>1. i \in 0 .. x /\ i - 1 \in 0 .. x
        BY <1>8
    <2>2. w[i] = Star <=> i = p
        BY <1>2 DEF x
    <2>3. CASE i < p
        <3>1. to[i] = i /\ to[i - 1] = i - 1 /\ i \in 1 .. p - 1 /\ i # p
            BY <1>8, <1>11, <2>1, <2>3
        <3>. QED
            BY <1>9, <2>2, <3>1
    <2>4. CASE i = p
        <3>1. to[i] = y - x + i /\ to[i - 1] = i - 1
            BY <1>8, <1>11, <2>1, <2>4
        <3>2. to[i - 1] <= to[i]
            BY <1>8, <2>4, <3>1
        <3>. QED
            BY <2>2, <2>4, <3>2
    <2>5. CASE i > p
        <3>1. to[i] = y - x + i /\ to[i - 1] = y - x + (i - 1) /\ i # p
            BY <1>8, <1>11, <2>1, <2>5
        <3>2. PICK j \in 1 .. x - p : j = i - p
            BY <1>8, <2>5
        <3>3. p + j = i /\ y - x + p + j = y - x + i
            BY <1>8, <3>2
        <3>4. s[y - x + i] = w[i]
            BY <1>10, <3>3
        <3>5. to[i] = to[i - 1] + 1
            BY <1>8, <3>1
        <3>. QED
            BY <2>2, <3>1, <3>4, <3>5
    <2>. QED
        BY <1>8, <2>3, <2>4, <2>5
<1>15. IsMatch(to, w, s)
    BY <1>12, <1>13, <1>14 DEF IsMatch, x, y
<1>. QED
    BY <1>15, GlobIsMatch
-----------------------------------------------------------------------------
(* The sections that are active                                              *)

LEMMA ConcatHas ==
    ASSUME NEW S, NEW a \in Seq(S), NEW b \in Seq(S), NEW s
    PROVE  Contains(a \o b, s) <=> Contains(a, s) \/ Contains(b, s)
<1> DEFINE x == Len(a)
           y == Len(b)
           c == a \o b
<1>1. /\ x \in Nat /\ y \in Nat /\ Len(c) = x + y
      /\ \A i \in 1 .. x : c[i] = a[i]
      /\ \A i \in 1 .. y : c[x + i] = b[i]
    OBVIOUS
<1> HIDE DEF x, y, c
<1>2. ASSUME Contains(c, s) PROVE Contains(a, s) \/ Contains(b, s)
    <2>1. PICK i \in 1 .. x + y : c[i] = s
        BY <1>1, <1>2 DEF Contains
    <2>2. CASE i \in 1 .. x
        <3>1. a[i] = s
            BY <1>1, <2>1, <2>2
        <3>. QED
            BY <2>2, <3>1 DEF Contains, x
    <2>3. CASE i \notin 1 .. x
        <3>1. PICK j \in 1 .. y : x + j = i
            <4>1. i - x \in 1 .. y /\ x + (i - x) = i
                BY <1>1, <2>3
            <4>. QED
                BY <4>1
        <3>2. b[j] = s
            BY <1>1, <2>1, <3>1
        <3>. QED
            BY <3>2 DEF Contains, y
    <2>. QED
        BY <2>2, <2>3
<1>3. ASSUME Contains(a, s) PROVE Contains(c, s)
    <2>1. PICK i \in 1 .. x : a[i] = s
        BY <1>3 DEF Contains, x
    <2>2. i \in 1 .. Len(c) /\ c[i] = s
        BY <1>1, <2>1
    <2>. QED
        BY <2>2 DEF Contains
<1>4. ASSUME Contains(b, s) PROVE Contains(c, s)
    <2>1. PICK j \in 1 .. y : b[j] = s
        BY <1>4 DEF Contains, y
    <2>2. PICK i \in 1 .. Len(c) : i = x + j
        BY <1>1
    <2>3. c[i] = s
        BY <1>1, <2>1, <2>2
    <2>. QED
        BY <2>3 DEF Contains
<1>. QED
    BY <1>2, <1>3, <1>4 DEF c

\* What is asked for: a name that is given, or one that a wild card matches.
LEMMA AskedHas ==
    ASSUME NEW given \in Seq(Seq(Character)), NEW names \in Seq(Seq(Letter)), NEW s
    PROVE  /\ ExpandWildCards(given, names) \in Seq(Seq(Character))
           /\ Contains(ExpandWildCards(given, names), s) <=>
                 \/ \E k \in DOMAIN given : ~HasStar(given[k]) /\ given[k] = s
                 \/ \E k \in DOMAIN given :
                       HasStar(given[k]) /\ s \in ToSet(names) /\ Matches(given[k], s)
<1> DEFINE S == Seq(Character)
           wild == Those(given, Wild(given))
           plain == Those(given, ToSet(given) \ Wild(given))
           expand(w) == Those(names, {t \in ToSet(names) : Matches(w, t)})
           all == [k \in DOMAIN wild |-> expand(wild[k])]
<1>1. given \in Seq(S) /\ names \in Seq(S)
    <2>1. Seq(Letter) \subseteq S
        BY DEF Character
    <2> HIDE DEF S
    <2>2. names \in Seq(S)
        BY <2>1
    <2>. QED
        BY <2>2 DEF S
<1>2. ExpandWildCards(given, names) = plain \o FlattenSeq(all)
    BY DEF ExpandWildCards
<1>3. /\ \A w : w \in Wild(given) <=> HasStar(w) /\ w \in ToSet(given)
      /\ \A w : w \in ToSet(given) <=> \E k \in DOMAIN given : given[k] = w
    BY DEF Wild, ToSet
<1> HIDE DEF S
<1>4. plain \in Seq(S) /\ (Contains(plain, s) <=> s \in ToSet(given) \ Wild(given))
    <2>1. plain \in Seq(S \cap (ToSet(given) \ Wild(given)))
        BY <1>1, ThosePlaces
    <2>2. plain \in Seq(S)
        BY <2>1
    <2>3. Contains(plain, s) <=> s \in ToSet(given) \ Wild(given) /\ s \in ToSet(given)
        BY <1>1, ThoseFacts
    <2>. QED
        BY <2>2, <2>3
<1>5. wild \in Seq(S) /\ \A w : Contains(wild, w) <=> w \in Wild(given)
    <2>1. wild \in Seq(S \cap Wild(given))
        BY <1>1, ThosePlaces
    <2>2. wild \in Seq(S)
        BY <2>1
    <2>3. \A w : Contains(wild, w) <=> w \in Wild(given) /\ w \in ToSet(given)
        BY <1>1, ThoseFacts
    <2>. QED
        BY <1>3, <2>2, <2>3
<1>6. ASSUME NEW w
      PROVE  expand(w) \in Seq(S)
             /\ (Contains(expand(w), s) <=> s \in ToSet(names) /\ Matches(w, s))
    <2> DEFINE X == {t \in ToSet(names) : Matches(w, t)}
    <2>1. Those(names, X) \in Seq(S \cap X)
        BY <1>1, ThosePlaces
    <2>2. Contains(Those(names, X), s) <=> s \in X /\ s \in ToSet(names)
        BY <1>1, ThoseFacts
    <2>3. s \in X <=> s \in ToSet(names) /\ Matches(w, s)
        OBVIOUS
    <2> HIDE DEF X
    <2>4. Those(names, X) \in Seq(S)
        BY <2>1
    <2>. QED
        BY <2>2, <2>3, <2>4 DEF X
<1> HIDE DEF plain, wild, expand
<1>7. all \in Seq(Seq(S)) /\ DOMAIN all = DOMAIN wild /\ \A k \in DOMAIN wild : all[k] = expand(wild[k])
    <2>1. DOMAIN wild = 1 .. Len(wild) /\ Len(wild) \in Nat
        BY <1>5
    <2>. QED
        BY <1>6, <2>1
<1> HIDE DEF all
<1>8. Contains(FlattenSeq(all), s) <=>
         \E w : w \in Wild(given) /\ s \in ToSet(names) /\ Matches(w, s)
    <2>1. Contains(FlattenSeq(all), s) <=> \E k \in DOMAIN all : Contains(all[k], s)
        BY <1>7, FlattenHas
    <2>2. DOMAIN wild = 1 .. Len(wild)
        BY <1>5
    <2>3. ASSUME NEW k \in DOMAIN all, Contains(all[k], s)
          PROVE  wild[k] \in Wild(given) /\ s \in ToSet(names) /\ Matches(wild[k], s)
        <3>1. Contains(wild, wild[k])
            BY <1>7, <2>2 DEF Contains
        <3>. QED
            BY <1>5, <1>6, <1>7, <2>3, <3>1
    <2>4. ASSUME NEW w, w \in Wild(given), s \in ToSet(names), Matches(w, s)
          PROVE  \E k \in DOMAIN all : Contains(all[k], s)
        <3>1. PICK k \in 1 .. Len(wild) : wild[k] = w
            BY <1>5, <2>4 DEF Contains
        <3>2. k \in DOMAIN all /\ all[k] = expand(w)
            BY <1>7, <2>2, <3>1
        <3>. QED
            BY <1>6, <2>4, <3>2
    <2>. QED
        BY <2>1, <2>3, <2>4
<1>9. FlattenSeq(all) \in Seq(S)
    BY <1>7, FlattenOrigins
<1>10. Contains(ExpandWildCards(given, names), s) <=>
          Contains(plain, s) \/ Contains(FlattenSeq(all), s)
    BY <1>2, <1>4, <1>9, ConcatHas
<1>11. s \in ToSet(given) \ Wild(given) <=>
          \E k \in DOMAIN given : ~HasStar(given[k]) /\ given[k] = s
    BY <1>3
<1>12. (\E w : w \in Wild(given) /\ s \in ToSet(names) /\ Matches(w, s)) <=>
          \E k \in DOMAIN given :
             HasStar(given[k]) /\ s \in ToSet(names) /\ Matches(given[k], s)
    BY <1>3
<1>13. ExpandWildCards(given, names) \in Seq(S)
    BY <1>2, <1>4, <1>9
<1>. QED
    BY <1>4, <1>8, <1>10, <1>11, <1>12, <1>13 DEF S

LEMMA ChooseHas ==
    ASSUME NEW mode, NEW given, NEW names \in Seq(Seq(Letter)), NEW s
    PROVE  Contains(Choose(mode, given, names), s) <=>
              /\ s \in ToSet(names) /\ Live(s)
              /\ mode = "all" \/ Contains(Asked(mode, given, names), s) = (mode = "section")
<1> DEFINE takeus(t) ==
              mode = "all" \/ Contains(Asked(mode, given, names), t) = (mode = "section")
           X == {t \in ToSet(names) : Live(t) /\ takeus(t)}
<1>1. Choose(mode, given, names) = Those(names, X)
    BY DEF Choose
<1>2. s \in X <=> s \in ToSet(names) /\ Live(s) /\ takeus(s)
    OBVIOUS
<1> HIDE DEF X, takeus
<1>3. Contains(Those(names, X), s) <=> s \in X /\ s \in ToSet(names)
    BY ThoseFacts
<1>. QED
    BY <1>1, <1>2, <1>3 DEF takeus

\* The choice is made once, and for good.
Chosen ==
    pc \notin {"config", "exit"} =>
       /\ actives = Choose(input.mode, input.given, Names)
       /\ ~Refuses(input.mode, input.given, Names)

LEMMA InitChosen == Init => Chosen
BY DEF Init, Chosen

LEMMA StepChosen == Chosen /\ [Next]_vars => Chosen'
<1> SUFFICES ASSUME Chosen, [Next]_vars PROVE Chosen'
    OBVIOUS
<1>1. CASE ConfigTest
    <2>1. input' = input /\ Names' = Names
        BY <1>1 DEF ConfigTest, Names
    <2>2. CASE pc' = "exit"
        BY <2>2 DEF Chosen
    <2>3. CASE pc' # "exit"
        <3>1. ~Refuses(input.mode, input.given, Names)
              /\ actives' = Choose(input.mode, input.given, Names)
            BY <1>1, <2>3 DEF ConfigTest, Quit
        <3>. QED
            BY <2>1, <3>1 DEF Chosen
    <2>. QED
        BY <2>2, <2>3
<1>2. ASSUME input' = input, actives' = actives, pc \notin {"config", "exit"} \/ pc' = pc
      PROVE  Chosen'
    <2>1. Names' = Names
        BY <1>2 DEF Names
    <2>. QED
        BY <1>2, <2>1 DEF Chosen
<1>3. CASE Sort
    BY <1>2, <1>3 DEF Sort
<1>4. CASE Multiply
    BY <1>2, <1>4 DEF Multiply
<1>5. CASE Created
    BY <1>2, <1>5 DEF Created
<1>6. CASE ConfigNewTest
    BY <1>2, <1>6 DEF ConfigNewTest
<1>7. CASE ExecuteTest
    BY <1>2, <1>7 DEF ExecuteTest
<1>8. CASE ExecuteTestExits
    BY <1>2, <1>8 DEF ExecuteTestExits
<1>9. CASE Finish
    BY <1>2, <1>9 DEF Finish
<1>10. CASE UNCHANGED vars
    BY <1>2, <1>10 DEF vars
<1>. QED
    BY <1>1, <1>3, <1>4, <1>5, <1>6, <1>7, <1>8, <1>9, <1>10 DEF Next, Work, Over

LEMMA ChosenRight == Types /\ Chosen => SectionsRight
<1> SUFFICES ASSUME Types, Chosen, pc \notin {"config", "exit"} PROVE SectionsRight
    BY DEF SectionsRight, ActivesRight, MissingRefused
<1> DEFINE given == input.given
           mode == input.mode
           asked == Asked(mode, given, Names)
<1>1. /\ mode \in {"section", "skip", "all"} /\ given \in Seq(Seq(Character))
      /\ Names \in Seq(Seq(Letter))
    BY InputFacts, NamesFacts DEF Types, TypeOK, Character
<1>2. actives = Choose(mode, given, Names) /\ ~Refuses(mode, given, Names)
    BY DEF Chosen
<1> HIDE DEF given, mode
<1>3. \A s : Contains(actives, s) <=>
          /\ s \in ToSet(Names) /\ Live(s)
          /\ mode = "all" \/ Contains(asked, s) = (mode = "section")
    BY <1>1, <1>2, ChooseHas
<1>4. mode # "all" => \A s : Contains(asked, s) <=>
          \/ \E k \in DOMAIN given : ~HasStar(given[k]) /\ given[k] = s
          \/ \E k \in DOMAIN given :
                HasStar(given[k]) /\ s \in ToSet(Names) /\ Matches(given[k], s)
    BY <1>1, AskedHas DEF Asked
<1> HIDE DEF asked
<1>5. ASSUME NEW k \in DOMAIN Names
      PROVE  LET s == Names[k]
                 active == Contains(actives, s)
             IN  IF IsPrefix(SkipMark, s) THEN ~active
                 ELSE IF mode = "all" THEN active
                 ELSE /\ Given(s) => (active = (mode = "section"))
                      /\ ~Given(s) /\ Clear(s) => (active = (mode = "skip"))
    <2> DEFINE s == Names[k]
    <2>1. s \in Seq(Letter) /\ s \in ToSet(Names)
        BY <1>1 DEF ToSet
    <2> HIDE DEF s
    <2>2. CASE ~Live(s) \/ mode = "all"
        BY <1>3, <2>1, <2>2 DEF Live, s
    <2>3. CASE Live(s) /\ mode # "all"
        <3>1. Contains(actives, s) <=> Contains(asked, s) = (mode = "section")
            BY <1>3, <2>1, <2>3
        <3>2. ASSUME Given(s) PROVE Contains(asked, s)
            <4>1. PICK j \in DOMAIN given : Glob(given[j], s)
                BY <3>2 DEF Given, given
            <4>2. given[j] \in Seq(Character)
                BY <1>1
            <4>3. CASE HasStar(given[j])
                <5>1. Matches(given[j], s)
                    BY <2>1, <4>1, <4>2, <4>3, GlobMatches
                <5>. QED
                    BY <1>4, <2>1, <2>3, <4>3, <5>1
            <4>4. CASE ~HasStar(given[j])
                <5>1. given[j] = s
                    BY <2>1, <4>1, <4>2, <4>4, GlobPlain
                <5>. QED
                    BY <1>4, <2>3, <4>4, <5>1
            <4>. QED
                BY <4>3, <4>4
        <3>3. ASSUME ~Given(s), Clear(s) PROVE ~Contains(asked, s)
            <4>1. ASSUME NEW j \in DOMAIN given, ~HasStar(given[j]), given[j] = s PROVE FALSE
                <5>1. given[j] \in Seq(Character)
                    BY <1>1
                <5>2. Glob(given[j], s)
                    BY <2>1, <4>1, <5>1, GlobPlain
                <5>. QED
                    BY <3>3, <5>2 DEF Given, given
            <4>2. ASSUME NEW j \in DOMAIN given, HasStar(given[j]), Matches(given[j], s)
                  PROVE  FALSE
                <5>1. given[j] \in Seq(Character)
                    BY <1>1
                <5>2. /\ Cardinality({i \in DOMAIN given[j] : given[j][i] = Star}) = 1
                      /\ Len(s) >= Len(given[j]) - 1
                    BY <3>3, <4>2 DEF Clear, given
                <5>3. Glob(given[j], s)
                    BY <2>1, <4>2, <5>1, <5>2, MatchesGlob
                <5>. QED
                    BY <3>3, <5>3 DEF Given, given
            <4>. QED
                BY <1>4, <2>3, <4>1, <4>2
        <3>4. Contains(actives, s) \in BOOLEAN /\ Contains(asked, s) \in BOOLEAN
            BY DEF Contains
        <3>5. Given(s) => (Contains(actives, s) = (mode = "section"))
            BY <3>1, <3>2, <3>4
        <3>6. ~Given(s) /\ Clear(s) => (Contains(actives, s) = (mode = "skip"))
            BY <1>1, <2>3, <3>1, <3>3, <3>4
        <3>. QED
            BY <2>3, <3>5, <3>6 DEF Live, s
    <2>. QED
        BY <2>2, <2>3
<1>6. ASSUME mode = "section", NEW k \in DOMAIN given, ~HasStar(given[k])
      PROVE  Contains(actives, given[k])
    <2>1. Contains(asked, given[k])
        BY <1>4, <1>6
    <2>2. PICK m \in 1 .. Len(asked) : asked[m] = given[k]
        BY <2>1 DEF Contains
    <2>3. m \in DOMAIN asked
        <3>1. asked \in Seq(Seq(Character))
            <4>1. asked = ExpandWildCards(given, Names)
                BY <1>6 DEF asked, Asked
            <4>. QED
                BY <1>1, <4>1, AskedHas
        <3>. QED
            BY <2>2, <3>1
    <2>4. Contains(Names, asked[m]) /\ Live(asked[m])
        BY <1>2, <1>6, <2>3 DEF Refuses, asked
    <2>5. given[k] \in ToSet(Names)
        BY <1>1, <2>2, <2>4 DEF Contains, ToSet
    <2>. QED
        BY <1>3, <1>6, <2>1, <2>2, <2>4, <2>5
<1>7. ActivesRight
    BY <1>5 DEF ActivesRight, mode
<1>8. MissingRefused
    BY <1>6 DEF MissingRefused, mode, given
<1>. QED
    BY <1>7, <1>8 DEF SectionsRight

\* The sections that are asked for, by their names or by wild cards, are active,
\* and a name that is not there is refused.
THEOREM SpecSectionsRight == Spec => []SectionsRight
<1>1. Spec => []Chosen
    BY InitChosen, StepChosen, PTL DEF Spec
<1>. QED
    BY <1>1, SpecTypes, ChosenRight, PTL
-----------------------------------------------------------------------------
(* Sections, options and lists                                               *)

LEMMA ThoseOnce ==
    ASSUME NEW S, NEW list \in Seq(S), NEW X
    PROVE  LET few == Those(list, X)
           IN  /\ \A i \in DOMAIN few : \E p \in DOMAIN list : few[i] = list[p] /\ list[p] \in X
               /\ \A p \in DOMAIN list : list[p] \in X => \E i \in DOMAIN few : few[i] = list[p]
               /\ \A i, j \in DOMAIN few : i # j =>
                     \E p, q \in DOMAIN list : p # q /\ few[i] = list[p] /\ few[j] = list[q]
<1> DEFINE few == Those(list, X)
<1>1. few \in Seq(S \cap X) /\ \E e : Places(e, few, list, X, Len(list))
    BY ThosePlaces
<1>2. PICK e : Places(e, few, list, X, Len(list))
    BY <1>1
<1>3. DOMAIN few = 1 .. Len(few) /\ DOMAIN list = 1 .. Len(list) /\ Len(few) \in Nat
    BY <1>1
<1> HIDE DEF few
<1>4. \A i \in 1 .. Len(few) : e[i] \in 1 .. Len(list) /\ few[i] = list[e[i]] /\ few[i] \in X
    BY <1>2 DEF Places
<1>5. ASSUME NEW p \in DOMAIN list, list[p] \in X PROVE \E i \in DOMAIN few : few[i] = list[p]
    <2>1. PICK i \in 1 .. Len(few) : e[i] = p
        BY <1>2, <1>3, <1>5 DEF Places
    <2>. QED
        BY <1>3, <1>4, <2>1
<1>6. ASSUME NEW i \in DOMAIN few, NEW j \in DOMAIN few, i # j
      PROVE  \E p, q \in DOMAIN list : p # q /\ few[i] = list[p] /\ few[j] = list[q]
    <2>1. e[i] \in 1 .. Len(list) /\ e[j] \in 1 .. Len(list)
        BY <1>3, <1>4
    <2>2. i < j \/ j < i
        BY <1>3, <1>6
    <2>3. e[i] < e[j] \/ e[j] < e[i]
        BY <1>2, <1>3, <2>2 DEF Places
    <2>4. e[i] # e[j]
        BY <2>1, <2>3
    <2>. QED
        BY <1>3, <1>4, <2>1, <2>4
<1>7. \A i \in DOMAIN few : \E p \in DOMAIN list : few[i] = list[p] /\ list[p] \in X
    BY <1>3, <1>4
<1>. QED
    BY <1>5, <1>6, <1>7 DEF few

\* Sections of different names.
Distinct(sections) ==
    \A i, j \in DOMAIN sections : sections[i].name = sections[j].name => i = j

LEMMA KindsFacts ==
    ASSUME input \in Inputs
    PROVE  /\ Distinct(Gets) /\ Distinct(Runs) /\ Distinct(Others)
           /\ \A i \in DOMAIN Gets, j \in DOMAIN Runs : Gets[i].name # Runs[j].name
           /\ \A i \in DOMAIN Gets, k \in DOMAIN Others : Gets[i].name # Others[k].name
           /\ \A j \in DOMAIN Runs, k \in DOMAIN Others : Runs[j].name # Others[k].name
           /\ \A k \in DOMAIN Others : \A p, q \in DOMAIN Others[k].options :
                 Others[k].options[p][1] = Others[k].options[q][1] => p = q
<1> DEFINE all == input.sections
           g == {x \in ToSet(all) : IsGet(x)}
           r == {x \in ToSet(all) : IsRun(x)}
           o == {x \in ToSet(all) : IsOther(x)}
<1>1. all \in Seq(Section) /\ OnceEach(all)
    BY InputFacts
<1>2. Gets = Those(all, g) /\ Runs = Those(all, r) /\ Others = Those(all, o)
    BY DEF Gets, Runs, Others
<1>3. \A x : /\ x \in g => IsGet(x)
             /\ x \in r => IsRun(x)
             /\ x \in o => IsOther(x)
    OBVIOUS
<1> HIDE DEF all, g, r, o
<1>4. \A p, q \in DOMAIN all : all[p].name = all[q].name => p = q
    BY <1>1 DEF OnceEach
<1>5. ASSUME NEW X PROVE Distinct(Those(all, X))
    <2> DEFINE few == Those(all, X)
    <2>1. \A i, j \in DOMAIN few : i # j =>
             \E p, q \in DOMAIN all : p # q /\ few[i] = all[p] /\ few[j] = all[q]
        BY <1>1, ThoseOnce
    <2> HIDE DEF few
    <2>2. ASSUME NEW i \in DOMAIN few, NEW j \in DOMAIN few, few[i].name = few[j].name
          PROVE  i = j
        BY <1>4, <2>1, <2>2
    <2>. QED
        BY <2>2 DEF Distinct, few
<1>6. ASSUME NEW X, NEW Y,
             \A x : x \in X => x \notin Y,
             NEW i \in DOMAIN Those(all, X), NEW j \in DOMAIN Those(all, Y)
      PROVE  Those(all, X)[i].name # Those(all, Y)[j].name
    <2>1. PICK p \in DOMAIN all : Those(all, X)[i] = all[p] /\ all[p] \in X
        BY <1>1, ThoseOnce
    <2>2. PICK q \in DOMAIN all : Those(all, Y)[j] = all[q] /\ all[q] \in Y
        BY <1>1, ThoseOnce
    <2>3. p # q
        BY <1>6, <2>1, <2>2
    <2>. QED
        BY <1>4, <2>1, <2>2, <2>3
<1>7. /\ \A x : x \in g => x \notin r
      /\ \A x : x \in g => x \notin o
      /\ \A x : x \in r => x \notin o
    <2>1. \A x : ~(IsGet(x) /\ IsRun(x)) /\ ~(IsGet(x) /\ IsOther(x)) /\ ~(IsRun(x) /\ IsOther(x))
        BY DEF IsRun, IsOther
    <2>. QED
        BY <1>3, <2>1
<1>8. ASSUME NEW k \in DOMAIN Others, NEW p \in DOMAIN Others[k].options,
             NEW q \in DOMAIN Others[k].options,
             Others[k].options[p][1] = Others[k].options[q][1]
      PROVE  p = q
    <2>1. PICK m \in DOMAIN all : Others[k] = all[m]
        <3>1. \A i \in DOMAIN Those(all, o) :
                  \E m \in DOMAIN all : Those(all, o)[i] = all[m] /\ all[m] \in o
            BY <1>1, ThoseOnce
        <3>. QED
            BY <1>2, <3>1
    <2>2. \A i, j \in DOMAIN all[m].options :
              all[m].options[i][1] = all[m].options[j][1] => i = j
        BY <1>1 DEF OnceEach
    <2>. QED
        BY <1>8, <2>1, <2>2
<1>9. Distinct(Gets) /\ Distinct(Runs) /\ Distinct(Others)
    BY <1>2, <1>5
<1>10. \A i \in DOMAIN Gets, j \in DOMAIN Runs : Gets[i].name # Runs[j].name
    BY <1>2, <1>6, <1>7
<1>11. \A i \in DOMAIN Gets, k \in DOMAIN Others : Gets[i].name # Others[k].name
    BY <1>2, <1>6, <1>7
<1>12. \A j \in DOMAIN Runs, k \in DOMAIN Others : Runs[j].name # Others[k].name
    BY <1>2, <1>6, <1>7
<1>. QED
    BY <1>8, <1>9, <1>10, <1>11, <1>12

\* The options of the k-th of the other sections.
Opts(k) == Others[k].options

\* The ones that are lists are taken out of the section, and the others stay.
LEMMA OptionsFacts ==
    ASSUME input \in Inputs, NEW k \in DOMAIN Others
    PROVE  LET l == ListsOf(Others[k])
               p == PlainOf(Others[k])
           IN  /\ Others[k] \in Section /\ Opts(k) \in Seq(Option \X Seq(Item))
               /\ l \in Seq(Option \X Seq(Item)) /\ p \in Seq(Option \X Seq(Item))
               /\ \A i \in DOMAIN l : \E q \in DOMAIN Opts(k) : l[i] = Opts(k)[q] /\ IsList(Opts(k)[q])
               /\ \A q \in DOMAIN Opts(k) : IsList(Opts(k)[q]) => \E i \in DOMAIN l : l[i] = Opts(k)[q]
               /\ \A i, j \in DOMAIN l : l[i][1] = l[j][1] => i = j
               /\ \A i \in DOMAIN p : \E q \in DOMAIN Opts(k) : p[i] = Opts(k)[q] /\ ~IsList(Opts(k)[q])
               /\ \A q \in DOMAIN Opts(k) : ~IsList(Opts(k)[q]) => \E i \in DOMAIN p : p[i] = Opts(k)[q]
               /\ \A i, j \in DOMAIN p : p[i][1] = p[j][1] => i = j
<1> DEFINE T == Option \X Seq(Item)
           opts == Others[k].options
           X == {x \in ToSet(opts) : IsList(x)}
           Y == {x \in ToSet(opts) : ~IsList(x)}
           l == ListsOf(Others[k])
           p == PlainOf(Others[k])
<1>1. Others[k] \in Section
    BY KindsType
<1>2. opts \in Seq(T) /\ l \in Seq(T) /\ p \in Seq(T)
    BY <1>1, OptionsType DEF Section
<1>3. l = Those(opts, X) /\ p = Those(opts, Y)
    BY DEF ListsOf, PlainOf
<1>4. /\ \A q \in DOMAIN opts : opts[q] \in X <=> IsList(opts[q])
      /\ \A q \in DOMAIN opts : opts[q] \in Y <=> ~IsList(opts[q])
    BY DEF ToSet
<1>5. \A i, j \in DOMAIN opts : opts[i][1] = opts[j][1] => i = j
    BY KindsFacts
<1> HIDE DEF opts, T, X, Y, l, p
<1>6. /\ \A i \in DOMAIN l : \E q \in DOMAIN opts : l[i] = opts[q] /\ opts[q] \in X
      /\ \A q \in DOMAIN opts : opts[q] \in X => \E i \in DOMAIN l : l[i] = opts[q]
      /\ \A i, j \in DOMAIN l : i # j =>
            \E a, b \in DOMAIN opts : a # b /\ l[i] = opts[a] /\ l[j] = opts[b]
    BY <1>2, <1>3, ThoseOnce
<1>7. /\ \A i \in DOMAIN p : \E q \in DOMAIN opts : p[i] = opts[q] /\ opts[q] \in Y
      /\ \A q \in DOMAIN opts : opts[q] \in Y => \E i \in DOMAIN p : p[i] = opts[q]
      /\ \A i, j \in DOMAIN p : i # j =>
            \E a, b \in DOMAIN opts : a # b /\ p[i] = opts[a] /\ p[j] = opts[b]
    BY <1>2, <1>3, ThoseOnce
<1>8. \A i, j \in DOMAIN l : l[i][1] = l[j][1] => i = j
    BY <1>5, <1>6
<1>9. \A i, j \in DOMAIN p : p[i][1] = p[j][1] => i = j
    BY <1>5, <1>7
<1>10. Opts(k) = opts
    BY DEF Opts, opts
<1>. QED
    BY <1>1, <1>2, <1>4, <1>6, <1>7, <1>8, <1>9, <1>10 DEF T, l, p

\* Each list of a section is one of the lists, once, and there are no others.
ListAt(m, k, q) ==
    k \in DOMAIN Others /\ q \in DOMAIN Opts(k) /\ IsList(Opts(k)[q])
      /\ Lists[m] = <<Others[k].name, Opts(k)[q][1], Opts(k)[q][2]>>

LEMMA ListsFacts ==
    ASSUME input \in Inputs
    PROVE  /\ Lists \in Seq(ListOption)
           /\ \A m \in DOMAIN Lists : \E k, q : ListAt(m, k, q)
           /\ \A k \in DOMAIN Others : \A q \in DOMAIN Opts(k) :
                 IsList(Opts(k)[q]) => \E m \in DOMAIN Lists : ListAt(m, k, q)
           /\ \A m, n \in DOMAIN Lists :
                 Lists[m][1] = Lists[n][1] /\ Lists[m][2] = Lists[n][2] => m = n
<1> DEFINE ss == PerSection
           lists(k) == ListsOf(Others[k])
<1>1. /\ Lists = FlattenSeq(ss) /\ ss \in Seq(Seq(ListOption)) /\ Len(ss) = Len(Others)
      /\ \A k \in DOMAIN Others :
            /\ Len(ss[k]) = Len(lists(k))
            /\ \A i \in 1 .. Len(lists(k)) :
                  ss[k][i] = <<Others[k].name, lists(k)[i][1], lists(k)[i][2]>>
    BY PerSectionFacts
<1>2. Lists \in Seq(ListOption) /\ DOMAIN Lists = 1 .. Len(Lists)
    BY ListsType
<1>3. Others \in Seq(Section) /\ DOMAIN Others = 1 .. Len(Others)
    BY KindsType
<1> HIDE DEF ss
<1>4. \E a, b : Origins(a, b, Lists, ss, Len(ss))
    BY <1>1, FlattenOrigins
<1>5. PICK a, b : Origins(a, b, Lists, ss, Len(ss))
    BY <1>4
<1>6. \A k \in DOMAIN Others : lists(k) \in Seq(Option \X Seq(Item)) /\ DOMAIN lists(k) = 1 .. Len(lists(k))
    <2>1. ASSUME NEW k \in DOMAIN Others PROVE lists(k) \in Seq(Option \X Seq(Item))
        BY OptionsFacts
    <2> HIDE DEF lists
    <2>. QED
        BY <2>1
<1>7. \A k \in DOMAIN Others :
          /\ \A i \in DOMAIN lists(k) : \E q \in DOMAIN Opts(k) :
                lists(k)[i] = Opts(k)[q] /\ IsList(Opts(k)[q])
          /\ \A q \in DOMAIN Opts(k) : IsList(Opts(k)[q]) => \E i \in DOMAIN lists(k) : lists(k)[i] = Opts(k)[q]
          /\ \A i, j \in DOMAIN lists(k) : lists(k)[i][1] = lists(k)[j][1] => i = j
    BY OptionsFacts
<1> HIDE DEF lists
<1>8. \A m \in DOMAIN Lists :
          /\ a[m] \in DOMAIN Others /\ b[m] \in DOMAIN lists(a[m])
          /\ Lists[m] = <<Others[a[m]].name, lists(a[m])[b[m]][1], lists(a[m])[b[m]][2]>>
    <2>1. ASSUME NEW m \in DOMAIN Lists
          PROVE  /\ a[m] \in DOMAIN Others /\ b[m] \in DOMAIN lists(a[m])
                 /\ Lists[m] = <<Others[a[m]].name, lists(a[m])[b[m]][1], lists(a[m])[b[m]][2]>>
        <3>1. a[m] \in 1 .. Len(ss) /\ b[m] \in 1 .. Len(ss[a[m]]) /\ Lists[m] = ss[a[m]][b[m]]
            BY <1>2, <1>5 DEF Origins
        <3>2. a[m] \in DOMAIN Others
            BY <1>1, <1>3, <3>1
        <3>. QED
            BY <1>1, <1>6, <3>1, <3>2
    <2>. QED
        BY <2>1
<1>9. ASSUME NEW m \in DOMAIN Lists PROVE \E k, q : ListAt(m, k, q)
    <2>1. PICK q \in DOMAIN Opts(a[m]) :
              lists(a[m])[b[m]] = Opts(a[m])[q] /\ IsList(Opts(a[m])[q])
        BY <1>7, <1>8
    <2>2. ListAt(m, a[m], q)
        BY <1>8, <2>1 DEF ListAt
    <2>. QED
        BY <2>2
<1>10. ASSUME NEW k \in DOMAIN Others, NEW q \in DOMAIN Opts(k), IsList(Opts(k)[q])
       PROVE  \E m \in DOMAIN Lists : ListAt(m, k, q)
    <2>1. PICK i \in DOMAIN lists(k) : lists(k)[i] = Opts(k)[q]
        BY <1>7, <1>10
    <2>2. k \in 1 .. Len(ss) /\ i \in 1 .. Len(ss[k])
        BY <1>1, <1>3, <1>6, <2>1
    <2>3. PICK m \in DOMAIN Lists : a[m] = k /\ b[m] = i
        <3>1. \A j \in 1 .. Len(ss) : \A h \in 1 .. Len(ss[j]) :
                  \E m \in 1 .. Len(Lists) : a[m] = j /\ b[m] = h
            BY <1>5 DEF Origins
        <3>2. \E m \in 1 .. Len(Lists) : a[m] = k /\ b[m] = i
            BY <2>2, <3>1
        <3>. QED
            BY <1>2, <3>2
    <2>4. ListAt(m, k, q)
        BY <1>8, <1>10, <2>1, <2>3 DEF ListAt
    <2>. QED
        BY <2>4
<1>11. ASSUME NEW m \in DOMAIN Lists, NEW n \in DOMAIN Lists,
              Lists[m][1] = Lists[n][1], Lists[m][2] = Lists[n][2]
       PROVE  m = n
    <2>1. /\ Lists[m][1] = Others[a[m]].name /\ Lists[m][2] = lists(a[m])[b[m]][1]
          /\ Lists[n][1] = Others[a[n]].name /\ Lists[n][2] = lists(a[n])[b[n]][1]
        BY <1>8
    <2>2. a[m] \in DOMAIN Others /\ a[n] \in DOMAIN Others
          /\ b[m] \in DOMAIN lists(a[m]) /\ b[n] \in DOMAIN lists(a[n])
        BY <1>8
    <2>3. a[m] = a[n]
        BY <1>11, <2>1, <2>2, KindsFacts DEF Distinct
    <2>4. b[m] = b[n]
        <3>1. PICK k \in DOMAIN Others : k = a[m]
            BY <2>2
        <3>2. b[m] \in DOMAIN lists(k) /\ b[n] \in DOMAIN lists(k)
            BY <2>2, <2>3, <3>1
        <3>3. lists(k)[b[m]][1] = lists(k)[b[n]][1]
            BY <1>11, <2>1, <2>3, <3>1
        <3>4. \A i, j \in DOMAIN lists(k) : lists(k)[i][1] = lists(k)[j][1] => i = j
            BY <1>7
        <3>. QED
            BY <3>2, <3>3, <3>4
    <2>. QED
        BY <1>2, <1>5, <2>3, <2>4 DEF Origins
<1>. QED
    BY <1>2, <1>9, <1>10, <1>11

\* What a section has, option by option.
LEMMA ContentFacts ==
    ASSUME NEW opts, \A i, j \in DOMAIN opts : opts[i][1] = opts[j][1] => i = j
    PROVE  /\ DOMAIN Content(opts) = {opts[k][1] : k \in DOMAIN opts}
           /\ \A k \in DOMAIN opts : Content(opts)[opts[k][1]] = opts[k][2]
           /\ Content(opts) = [o \in DOMAIN Content(opts) |-> Content(opts)[o]]
<1> DEFINE D == {opts[k][1] : k \in DOMAIN opts}
           v(o) == opts[CHOOSE k \in DOMAIN opts : opts[k][1] = o][2]
<1>1. Content(opts) = [o \in D |-> v(o)]
    BY DEF Content
<1>2. ASSUME NEW k \in DOMAIN opts PROVE opts[k][1] \in D /\ v(opts[k][1]) = opts[k][2]
    <2>1. (CHOOSE j \in DOMAIN opts : opts[j][1] = opts[k][1]) = k
        OBVIOUS
    <2>. QED
        BY <2>1
<1> HIDE DEF D, v
<1>3. DOMAIN Content(opts) = D
    BY <1>1
<1>4. \A o \in D : Content(opts)[o] = v(o)
    BY <1>1
<1>. QED
    BY <1>1, <1>2, <1>3, <1>4 DEF D
-----------------------------------------------------------------------------
(* Files with some of the lists in them                                      *)

\* The options that are no lists, and the sections that have one.
Plain(k) == {q \in DOMAIN Opts(k) : ~IsList(Opts(k)[q])}
Rest == {k \in DOMAIN Others : Plain(k) # {}}
FileNames(i, j) == {Gets[i].name, Runs[j].name} \cup {Others[k].name : k \in Rest}
OptionNames(k, d) ==
    {Opts(k)[q][1] : q \in Plain(k)}
      \cup {Lists[m][2] : m \in {l \in 1 .. d : Lists[l][1] = Others[k].name}}

\* A file for the i-th MiddlewareGet and the j-th TestRun section, with an item
\* of each of the first d lists.
Partial(file, i, j, d) ==
    /\ file = [s \in FileNames(i, j) |-> file[s]]
    /\ file[Gets[i].name] = Content(Gets[i].options)
    /\ file[Runs[j].name] = Content(Runs[j].options)
    /\ \A k \in Rest :
          /\ file[Others[k].name] = [o \in OptionNames(k, d) |-> file[Others[k].name][o]]
          /\ \A q \in Plain(k) : file[Others[k].name][Opts(k)[q][1]] = Opts(k)[q][2]
          /\ \A m \in 1 .. d : Lists[m][1] = Others[k].name =>
                \E n \in DOMAIN Lists[m][3] :
                   file[Others[k].name][Lists[m][2]] = <<Lists[m][3][n]>>
    /\ \A m \in 1 .. d : Lists[m][1] \in FileNames(i, j)

PartialFile(file, d) == \E i \in DOMAIN Gets, j \in DOMAIN Runs : Partial(file, i, j, d)

LEMMA EmptyDomain ==
    ASSUME NEW S, NEW p \in Seq(S)
    PROVE  p # <<>> <=> DOMAIN p # {}
<1>1. DOMAIN p = 1 .. Len(p) /\ Len(p) \in Nat
    OBVIOUS
<1>2. p = <<>> <=> Len(p) = 0
    OBVIOUS
<1>3. 1 .. Len(p) = {} <=> Len(p) = 0
    <2>1. Len(p) # 0 => 1 \in 1 .. Len(p)
        BY <1>1
    <2>. QED
        BY <1>1, <2>1
<1>. QED
    BY <1>1, <1>2, <1>3

LEMMA PlainFacts ==
    ASSUME input \in Inputs, NEW k \in DOMAIN Others
    PROVE  /\ PlainOf(Others[k]) # <<>> <=> k \in Rest
           /\ DOMAIN Content(PlainOf(Others[k])) = {Opts(k)[q][1] : q \in Plain(k)}
           /\ \A q \in Plain(k) : Content(PlainOf(Others[k]))[Opts(k)[q][1]] = Opts(k)[q][2]
           /\ Content(PlainOf(Others[k])) =
                 [o \in {Opts(k)[q][1] : q \in Plain(k)} |-> Content(PlainOf(Others[k]))[o]]
<1> DEFINE p == PlainOf(Others[k])
           c == Content(p)
<1>1. /\ p \in Seq(Option \X Seq(Item))
      /\ \A i \in DOMAIN p : \E q \in DOMAIN Opts(k) : p[i] = Opts(k)[q] /\ ~IsList(Opts(k)[q])
      /\ \A q \in DOMAIN Opts(k) : ~IsList(Opts(k)[q]) => \E i \in DOMAIN p : p[i] = Opts(k)[q]
      /\ \A i, j \in DOMAIN p : p[i][1] = p[j][1] => i = j
    BY OptionsFacts
<1> HIDE DEF p
<1>2. /\ DOMAIN c = {p[i][1] : i \in DOMAIN p}
      /\ \A i \in DOMAIN p : c[p[i][1]] = p[i][2]
      /\ c = [o \in DOMAIN c |-> c[o]]
    BY <1>1, ContentFacts
<1> HIDE DEF c
<1>3. \A i \in DOMAIN p : \E q \in Plain(k) : p[i] = Opts(k)[q]
    BY <1>1 DEF Plain
<1>4. \A q \in Plain(k) : \E i \in DOMAIN p : p[i] = Opts(k)[q]
    BY <1>1 DEF Plain
<1>5. p # <<>> <=> k \in Rest
    <2>1. p # <<>> <=> DOMAIN p # {}
        BY <1>1, EmptyDomain
    <2>. QED
        BY <1>3, <1>4, <2>1 DEF Rest
<1>6. DOMAIN c = {Opts(k)[q][1] : q \in Plain(k)}
    BY <1>2, <1>3, <1>4
<1>7. \A q \in Plain(k) : c[Opts(k)[q][1]] = Opts(k)[q][2]
    BY <1>2, <1>4
<1>. QED
    BY <1>2, <1>5, <1>6, <1>7 DEF c, p

\* Who has which name.
LEMMA NamesApart ==
    ASSUME input \in Inputs, NEW i \in DOMAIN Gets, NEW j \in DOMAIN Runs
    PROVE  /\ Gets[i].name # Runs[j].name
           /\ \A k \in DOMAIN Others :
                 /\ Others[k].name # Gets[i].name /\ Others[k].name # Runs[j].name
                 /\ Others[k].name \in FileNames(i, j) <=> k \in Rest
           /\ \A k, l \in DOMAIN Others : Others[k].name = Others[l].name => k = l
<1>1. /\ Distinct(Others) /\ Gets[i].name # Runs[j].name
      /\ \A k \in DOMAIN Others : Others[k].name # Gets[i].name /\ Others[k].name # Runs[j].name
    BY KindsFacts
<1>2. \A k, l \in DOMAIN Others : Others[k].name = Others[l].name => k = l
    BY <1>1 DEF Distinct
<1>3. \A k \in DOMAIN Others : Others[k].name \in FileNames(i, j) <=> k \in Rest
    BY <1>1, <1>2 DEF FileNames, Rest
<1>. QED
    BY <1>1, <1>2, <1>3

\* The files of two sections have none of the lists.
LEMMA FilePartial ==
    ASSUME input \in Inputs, NEW i \in DOMAIN Gets, NEW j \in DOMAIN Runs
    PROVE  Partial(File(Gets[i], Runs[j]), i, j, 0)
<1> DEFINE g == Gets[i]
           r == Runs[j]
           rest == {section \in ToSet(Others) : PlainOf(section) # <<>>}
           plain(s) == Content(PlainOf(CHOOSE x \in rest : x.name = s))
           names == {g.name, r.name} \cup {x.name : x \in rest}
           file == File(g, r)
<1>1. file = [s \in names |->
                 IF s = g.name THEN Content(g.options)
                 ELSE IF s = r.name THEN Content(r.options) ELSE plain(s)]
    BY DEF File
<1>2. /\ g.name # r.name
      /\ \A k \in DOMAIN Others : Others[k].name # g.name /\ Others[k].name # r.name
      /\ \A k, l \in DOMAIN Others : Others[k].name = Others[l].name => k = l
    BY NamesApart
<1>3. /\ \A k \in Rest : k \in DOMAIN Others /\ Others[k] \in rest
      /\ \A x \in rest : \E k \in Rest : x = Others[k]
    <2>1. \A k \in DOMAIN Others : PlainOf(Others[k]) # <<>> <=> k \in Rest
        BY PlainFacts
    <2>. QED
        BY <2>1 DEF Rest, ToSet
<1>4. names = FileNames(i, j)
    BY <1>3 DEF FileNames
<1>5. ASSUME NEW k \in Rest PROVE plain(Others[k].name) = Content(PlainOf(Others[k]))
    <2>1. (CHOOSE x \in rest : x.name = Others[k].name) = Others[k]
        <3>1. \A x \in rest : x.name = Others[k].name => x = Others[k]
            BY <1>2, <1>3
        <3>. QED
            BY <1>3, <3>1
    <2>. QED
        BY <2>1
<1> HIDE DEF rest, plain, file, names, g, r
<1>6. file = [s \in names |-> file[s]]
    BY <1>1
<1>7. g.name \in names /\ r.name \in names /\ \A k \in Rest : Others[k].name \in names
    BY <1>4 DEF FileNames, g, r
<1>8. /\ file[g.name] = Content(g.options)
      /\ file[r.name] = Content(r.options)
    BY <1>1, <1>2, <1>7
<1>9. ASSUME NEW k \in Rest PROVE file[Others[k].name] = Content(PlainOf(Others[k]))
    <2>1. k \in DOMAIN Others
        BY <1>3
    <2>2. file[Others[k].name] = plain(Others[k].name)
        BY <1>1, <1>2, <1>7, <2>1
    <2>. QED
        BY <1>5, <2>2
<1>10. ASSUME NEW k \in Rest
       PROVE  /\ file[Others[k].name] = [o \in OptionNames(k, 0) |-> file[Others[k].name][o]]
              /\ \A q \in Plain(k) : file[Others[k].name][Opts(k)[q][1]] = Opts(k)[q][2]
    <2> DEFINE c == Content(PlainOf(Others[k]))
               D == {Opts(k)[q][1] : q \in Plain(k)}
    <2>1. k \in DOMAIN Others
        BY <1>3
    <2>2. c = [o \in D |-> c[o]] /\ \A q \in Plain(k) : c[Opts(k)[q][1]] = Opts(k)[q][2]
        BY <2>1, PlainFacts
    <2>3. OptionNames(k, 0) = D
        BY DEF OptionNames
    <2> HIDE DEF c, D
    <2>4. file[Others[k].name] = c
        BY <1>9 DEF c
    <2>. QED
        BY <2>2, <2>3, <2>4
<1>11. Partial(file, i, j, 0)
    BY <1>4, <1>6, <1>8, <1>10 DEF Partial, g, r
<1>. QED
    BY <1>11 DEF file, g, r

IsPut(put, file, s, o, item) ==
    /\ put = [x \in DOMAIN file |-> put[x]]
    /\ \A x \in DOMAIN file : x # s => put[x] = file[x]
    /\ put[s] = [p \in DOMAIN file[s] \cup {o} |-> put[s][p]]
    /\ put[s][o] = <<item>>
    /\ \A p \in DOMAIN file[s] : p # o => put[s][p] = file[s][p]

LEMMA PutFacts ==
    ASSUME NEW file, NEW s \in DOMAIN file, NEW o, NEW item
    PROVE  IsPut(Put(file, s, o, item), file, s, o, item)
<1> DEFINE v == [p \in DOMAIN file[s] \cup {o} |-> IF p = o THEN <<item>> ELSE file[s][p]]
           put == Put(file, s, o, item)
<1>1. put = [file EXCEPT ![s] = v]
    BY DEF Put
<1>2. /\ v = [p \in DOMAIN file[s] \cup {o} |-> v[p]] /\ v[o] = <<item>>
      /\ \A p \in DOMAIN file[s] : p # o => v[p] = file[s][p]
    OBVIOUS
<1> HIDE DEF v, put
<1>3. put[s] = v /\ (\A x \in DOMAIN file : x # s => put[x] = file[x])
      /\ put = [x \in DOMAIN file |-> put[x]]
    BY <1>1
<1>4. IsPut(put, file, s, o, item)
    BY <1>2, <1>3 DEF IsPut
<1>. QED
    BY <1>4 DEF put

\* The next list is of a section that is there, and was not there itself.
LEMMA NextList ==
    ASSUME input \in Inputs, NEW i \in DOMAIN Gets, NEW j \in DOMAIN Runs,
           NEW d \in Nat, d + 1 \in DOMAIN Lists, Lists[d + 1][1] \in FileNames(i, j)
    PROVE  \E k \in Rest : Lists[d + 1][1] = Others[k].name
                             /\ Lists[d + 1][2] \notin OptionNames(k, d)
<1>1. PICK k, q : ListAt(d + 1, k, q)
    BY ListsFacts
<1>2. /\ k \in DOMAIN Others /\ q \in DOMAIN Opts(k) /\ IsList(Opts(k)[q])
      /\ Lists[d + 1][1] = Others[k].name /\ Lists[d + 1][2] = Opts(k)[q][1]
    BY <1>1 DEF ListAt
<1>3. k \in Rest
    BY <1>2, NamesApart
<1>4. \A p \in Plain(k) : Opts(k)[p][1] # Lists[d + 1][2]
    <2>1. \A p \in DOMAIN Opts(k) : Opts(k)[p][1] = Opts(k)[q][1] => p = q
        BY <1>2, KindsFacts DEF Opts
    <2>. QED
        BY <1>2, <2>1 DEF Plain
<1>5. ASSUME NEW m \in 1 .. d, Lists[m][1] = Others[k].name PROVE Lists[m][2] # Lists[d + 1][2]
    <2>1. DOMAIN Lists = 1 .. Len(Lists) /\ Len(Lists) \in Nat
        BY ListsType
    <2>2. m \in DOMAIN Lists /\ m # d + 1
        BY <2>1
    <2>. QED
        BY <1>2, <1>5, <2>2, ListsFacts
<1>6. Lists[d + 1][2] \notin OptionNames(k, d)
    BY <1>4, <1>5 DEF OptionNames
<1>. QED
    BY <1>2, <1>3, <1>6

\* An item of the next list is put in.
LEMMA PutPartial ==
    ASSUME input \in Inputs, NEW i \in DOMAIN Gets, NEW j \in DOMAIN Runs,
           NEW d \in Nat, d + 1 \in DOMAIN Lists, NEW file, Partial(file, i, j, d),
           Lists[d + 1][1] \in DOMAIN file, NEW n \in DOMAIN Lists[d + 1][3]
    PROVE  Partial(Put(file, Lists[d + 1][1], Lists[d + 1][2], Lists[d + 1][3][n]), i, j, d + 1)
<1> DEFINE s == Lists[d + 1][1]
           o == Lists[d + 1][2]
           items == Lists[d + 1][3]
           put == Put(file, s, o, items[n])
           names == FileNames(i, j)
<1>1. /\ file = [x \in names |-> file[x]] /\ DOMAIN file = names
      /\ file[Gets[i].name] = Content(Gets[i].options)
      /\ file[Runs[j].name] = Content(Runs[j].options)
      /\ \A k \in Rest :
            /\ file[Others[k].name] = [p \in OptionNames(k, d) |-> file[Others[k].name][p]]
            /\ \A q \in Plain(k) : file[Others[k].name][Opts(k)[q][1]] = Opts(k)[q][2]
            /\ \A m \in 1 .. d : Lists[m][1] = Others[k].name =>
                  \E h \in DOMAIN Lists[m][3] :
                     file[Others[k].name][Lists[m][2]] = <<Lists[m][3][h]>>
      /\ \A m \in 1 .. d : Lists[m][1] \in names
    BY DEF Partial
<1>2. s \in DOMAIN file
    OBVIOUS
<1>3. /\ put = [x \in DOMAIN file |-> put[x]]
      /\ \A x \in DOMAIN file : x # s => put[x] = file[x]
      /\ put[s] = [p \in DOMAIN file[s] \cup {o} |-> put[s][p]]
      /\ put[s][o] = <<items[n]>>
      /\ \A p \in DOMAIN file[s] : p # o => put[s][p] = file[s][p]
    <2>1. IsPut(put, file, s, o, items[n])
        BY <1>2, PutFacts
    <2> HIDE DEF put, s, o, items
    <2>. QED
        BY <2>1 DEF IsPut
<1>4. PICK l \in Rest : s = Others[l].name /\ o \notin OptionNames(l, d)
    BY <1>1, <1>2, NextList
<1>5. Rest \subseteq DOMAIN Others
    BY DEF Rest
<1>6. \A m \in 1 .. d + 1 : m \in 1 .. d \/ m = d + 1
    OBVIOUS
<1>7. \A m \in 1 .. d : m \in 1 .. d + 1
    OBVIOUS
<1>8. d + 1 \in 1 .. d + 1
    OBVIOUS
<1>9. /\ \A k \in Rest : k # l => OptionNames(k, d + 1) = OptionNames(k, d)
      /\ OptionNames(l, d + 1) = OptionNames(l, d) \cup {o}
    <2>1. \A k \in Rest : k # l => Others[k].name # s
        BY <1>4, <1>5, NamesApart
    <2>2. \A k \in Rest : k # l =>
             {m \in 1 .. d + 1 : Lists[m][1] = Others[k].name}
               = {m \in 1 .. d : Lists[m][1] = Others[k].name}
        BY <1>6, <1>7, <2>1
    <2>3. {m \in 1 .. d + 1 : Lists[m][1] = Others[l].name}
             = {m \in 1 .. d : Lists[m][1] = Others[l].name} \cup {d + 1}
        BY <1>4, <1>6, <1>7, <1>8
    <2>4. \A k \in Rest : k # l => OptionNames(k, d + 1) = OptionNames(k, d)
        BY <2>2 DEF OptionNames
    <2>5. OptionNames(l, d + 1) = OptionNames(l, d) \cup {o}
        BY <2>3 DEF OptionNames
    <2>. QED
        BY <2>4, <2>5
<1> HIDE DEF put, s, o, items, names
<1>10. put = [x \in names |-> put[x]]
    BY <1>1, <1>3
<1>11. put[Gets[i].name] = Content(Gets[i].options) /\ put[Runs[j].name] = Content(Runs[j].options)
    <2>1. Gets[i].name # s /\ Runs[j].name # s
        BY <1>4, <1>5, NamesApart
    <2>2. Gets[i].name \in names /\ Runs[j].name \in names
        BY DEF names, FileNames
    <2>. QED
        BY <1>1, <1>3, <2>1, <2>2
<1>12. \A k \in Rest : Others[k].name \in names
    BY DEF names, FileNames
<1>13. ASSUME NEW k \in Rest
       PROVE  /\ put[Others[k].name] = [p \in OptionNames(k, d + 1) |-> put[Others[k].name][p]]
              /\ \A q \in Plain(k) : put[Others[k].name][Opts(k)[q][1]] = Opts(k)[q][2]
              /\ \A m \in 1 .. d + 1 : Lists[m][1] = Others[k].name =>
                    \E h \in DOMAIN Lists[m][3] :
                       put[Others[k].name][Lists[m][2]] = <<Lists[m][3][h]>>
    <2>1. CASE k # l
        <3>1. Others[k].name # s
            BY <1>4, <1>5, <2>1, NamesApart
        <3> DEFINE old == file[Others[k].name]
                   new == put[Others[k].name]
        <3>2. /\ old = [p \in OptionNames(k, d) |-> old[p]]
              /\ \A q \in Plain(k) : old[Opts(k)[q][1]] = Opts(k)[q][2]
              /\ \A m \in 1 .. d : Lists[m][1] = Others[k].name =>
                    \E h \in DOMAIN Lists[m][3] : old[Lists[m][2]] = <<Lists[m][3][h]>>
            BY <1>1
        <3>3. new = old
            BY <1>1, <1>3, <1>12, <3>1
        <3> HIDE DEF old, new
        <3>4. new = [p \in OptionNames(k, d + 1) |-> new[p]]
            BY <1>9, <2>1, <3>2, <3>3
        <3>5. ASSUME NEW m \in 1 .. d + 1, Lists[m][1] = Others[k].name
              PROVE  \E h \in DOMAIN Lists[m][3] : new[Lists[m][2]] = <<Lists[m][3][h]>>
            <4>1. m # d + 1
                BY <3>1, <3>5 DEF s
            <4>2. m \in 1 .. d
                BY <1>6, <4>1
            <4>. QED
                BY <3>2, <3>3, <3>5, <4>2
        <3>. QED
            BY <3>2, <3>3, <3>4, <3>5 DEF new
    <2>2. CASE k = l
        <3> DEFINE old == file[Others[l].name]
                   new == put[Others[l].name]
        <3>1. /\ old = [p \in OptionNames(l, d) |-> old[p]] /\ DOMAIN old = OptionNames(l, d)
              /\ \A q \in Plain(l) : old[Opts(l)[q][1]] = Opts(l)[q][2]
              /\ \A m \in 1 .. d : Lists[m][1] = Others[l].name =>
                    \E h \in DOMAIN Lists[m][3] : old[Lists[m][2]] = <<Lists[m][3][h]>>
            BY <1>1
        <3>2. /\ new = [p \in OptionNames(l, d) \cup {o} |-> new[p]]
              /\ new[o] = <<items[n]>>
              /\ \A p \in OptionNames(l, d) : new[p] = old[p]
            <4>1. old = file[s] /\ new = put[s]
                BY <1>4
            <4> HIDE DEF old, new
            <4>. QED
                BY <1>3, <1>4, <3>1, <4>1
        <3> HIDE DEF old, new
        <3>3. new = [p \in OptionNames(l, d + 1) |-> new[p]]
            BY <1>9, <3>2
        <3>4. \A q \in Plain(l) : new[Opts(l)[q][1]] = Opts(l)[q][2]
            <4>1. \A q \in Plain(l) : Opts(l)[q][1] \in OptionNames(l, d)
                BY DEF OptionNames
            <4>. QED
                BY <3>1, <3>2, <4>1
        <3>5. ASSUME NEW m \in 1 .. d + 1, Lists[m][1] = Others[l].name
              PROVE  \E h \in DOMAIN Lists[m][3] : new[Lists[m][2]] = <<Lists[m][3][h]>>
            <4>1. CASE m = d + 1
                BY <3>2, <4>1 DEF items, o
            <4>2. CASE m \in 1 .. d
                <5>1. Lists[m][2] \in OptionNames(l, d)
                    BY <3>5, <4>2 DEF OptionNames
                <5>. QED
                    BY <3>1, <3>2, <3>5, <4>2, <5>1
            <4>. QED
                BY <1>6, <4>1, <4>2
        <3>. QED
            BY <2>2, <3>3, <3>4, <3>5 DEF new
    <2>. QED
        BY <2>1, <2>2
<1>14. ASSUME NEW m \in 1 .. d + 1 PROVE Lists[m][1] \in names
    <2>1. CASE m = d + 1
        BY <1>1, <1>2, <2>1 DEF s
    <2>. QED
        BY <1>1, <1>6, <2>1
<1>15. Partial(put, i, j, d + 1)
    BY <1>10, <1>11, <1>13, <1>14 DEF Partial, names
<1>. QED
    BY <1>15 DEF put, s, o, items

\* Different files, or different items, make different files.
LEMMA PutSame ==
    ASSUME input \in Inputs, NEW d \in Nat, d + 1 \in DOMAIN Lists,
           NEW e, PartialFile(e, d), Lists[d + 1][1] \in DOMAIN e,
           NEW f, PartialFile(f, d), Lists[d + 1][1] \in DOMAIN f,
           NEW x, NEW y,
           Put(e, Lists[d + 1][1], Lists[d + 1][2], x) = Put(f, Lists[d + 1][1], Lists[d + 1][2], y)
    PROVE  e = f /\ x = y
<1> DEFINE s == Lists[d + 1][1]
           o == Lists[d + 1][2]
           pe == Put(e, s, o, x)
           pf == Put(f, s, o, y)
<1>a. PICK i \in DOMAIN Gets, j \in DOMAIN Runs : Partial(e, i, j, d)
    BY DEF PartialFile
<1>b. PICK a \in DOMAIN Gets, b \in DOMAIN Runs : Partial(f, a, b, d)
    BY DEF PartialFile
<1>1. /\ pe = [z \in DOMAIN e |-> pe[z]]
      /\ \A z \in DOMAIN e : z # s => pe[z] = e[z]
      /\ pe[s] = [p \in DOMAIN e[s] \cup {o} |-> pe[s][p]]
      /\ pe[s][o] = <<x>>
      /\ \A p \in DOMAIN e[s] : p # o => pe[s][p] = e[s][p]
    <2>1. IsPut(pe, e, s, o, x)
        BY PutFacts
    <2> HIDE DEF pe, s, o
    <2>. QED
        BY <2>1 DEF IsPut
<1>2. /\ pf = [z \in DOMAIN f |-> pf[z]]
      /\ \A z \in DOMAIN f : z # s => pf[z] = f[z]
      /\ pf[s] = [p \in DOMAIN f[s] \cup {o} |-> pf[s][p]]
      /\ pf[s][o] = <<y>>
      /\ \A p \in DOMAIN f[s] : p # o => pf[s][p] = f[s][p]
    <2>1. IsPut(pf, f, s, o, y)
        BY PutFacts
    <2> HIDE DEF pf, s, o
    <2>. QED
        BY <2>1 DEF IsPut
<1>3. /\ e = [z \in FileNames(i, j) |-> e[z]] /\ f = [z \in FileNames(a, b) |-> f[z]]
      /\ \A k \in Rest :
            /\ e[Others[k].name] = [p \in OptionNames(k, d) |-> e[Others[k].name][p]]
            /\ f[Others[k].name] = [p \in OptionNames(k, d) |-> f[Others[k].name][p]]
    BY <1>a, <1>b DEF Partial
<1>4. DOMAIN e = FileNames(i, j) /\ DOMAIN f = FileNames(a, b)
    BY <1>3
<1>5. PICK k \in Rest : s = Others[k].name /\ o \notin OptionNames(k, d)
    BY <1>4, NextList
<1>6. pe = pf
    OBVIOUS
<1> HIDE DEF pe, pf, s, o
<1>7. DOMAIN e = DOMAIN f
    BY <1>1, <1>2, <1>6
<1>8. x = y
    <2>1. <<x>> = <<y>>
        BY <1>1, <1>2, <1>6
    <2>. QED
        BY <2>1
<1>9. e[s] = [p \in OptionNames(k, d) |-> e[s][p]] /\ f[s] = [p \in OptionNames(k, d) |-> f[s][p]]
    BY <1>3, <1>5
<1>10. DOMAIN e[s] = OptionNames(k, d) /\ DOMAIN f[s] = OptionNames(k, d)
    BY <1>9
<1>11. \A p \in OptionNames(k, d) : e[s][p] = f[s][p]
    <2>1. ASSUME NEW p \in OptionNames(k, d) PROVE e[s][p] = f[s][p]
        <3>1. p # o
            BY <1>5
        <3>2. pe[s][p] = e[s][p] /\ pf[s][p] = f[s][p]
            BY <1>1, <1>2, <1>10, <3>1
        <3>. QED
            BY <1>6, <3>2
    <2>. QED
        BY <2>1
<1>12. e[s] = f[s]
    BY <1>9, <1>11
<1>13. \A z \in DOMAIN e : e[z] = f[z]
    BY <1>1, <1>2, <1>6, <1>7, <1>12
<1>14. e = f
    BY <1>3, <1>4, <1>7, <1>13
<1>. QED
    BY <1>8, <1>14

\* Files of different sections are different.
LEMMA PartialSame ==
    ASSUME input \in Inputs, NEW i \in DOMAIN Gets, NEW j \in DOMAIN Runs,
           NEW a \in DOMAIN Gets, NEW b \in DOMAIN Runs, NEW d, NEW e,
           Partial(e, i, j, d), Partial(e, a, b, d)
    PROVE  i = a /\ j = b
<1>1. FileNames(i, j) = FileNames(a, b)
    <2>1. e = [s \in FileNames(i, j) |-> e[s]] /\ e = [s \in FileNames(a, b) |-> e[s]]
        BY DEF Partial
    <2>2. DOMAIN e = FileNames(i, j) /\ DOMAIN e = FileNames(a, b)
        BY <2>1
    <2>. QED
        BY <2>2
<1>2. Gets[i].name \in FileNames(a, b) /\ Runs[j].name \in FileNames(a, b)
    BY <1>1 DEF FileNames
<1>3. Rest \subseteq DOMAIN Others
    BY DEF Rest
<1>4. Gets[i].name = Gets[a].name /\ Runs[j].name = Runs[b].name
    BY <1>2, <1>3, KindsFacts DEF FileNames
<1>. QED
    BY <1>4, KindsFacts DEF Distinct

\* With an item of each list, a file is a combination.
LEMMA WholeIsCombination ==
    ASSUME input \in Inputs, NEW i \in DOMAIN Gets, NEW j \in DOMAIN Runs,
           NEW file, Partial(file, i, j, Len(Lists))
    PROVE  IsCombination(file)
<1> DEFINE get == Gets[i]
           run == Runs[j]
           d == Len(Lists)
           rest == {k \in DOMAIN Others : Others[k].options # <<>>}
<1>1. d \in Nat /\ DOMAIN Lists = 1 .. d
    BY ListsType
<1>2. /\ file = [s \in FileNames(i, j) |-> file[s]]
      /\ file[get.name] = Content(get.options) /\ file[run.name] = Content(run.options)
      /\ \A k \in Rest :
            /\ file[Others[k].name] = [o \in OptionNames(k, d) |-> file[Others[k].name][o]]
            /\ \A q \in Plain(k) : file[Others[k].name][Opts(k)[q][1]] = Opts(k)[q][2]
            /\ \A m \in 1 .. d : Lists[m][1] = Others[k].name =>
                  \E n \in DOMAIN Lists[m][3] :
                     file[Others[k].name][Lists[m][2]] = <<Lists[m][3][n]>>
      /\ \A m \in 1 .. d : Lists[m][1] \in FileNames(i, j)
    BY DEF Partial
<1> HIDE DEF d
<1>3. DOMAIN file = FileNames(i, j)
    BY <1>2
<1>4. ASSUME NEW k \in DOMAIN Others PROVE k \in rest <=> k \in Rest
    <2>1. Opts(k) \in Seq(Option \X Seq(Item)) /\ Opts(k) = Others[k].options
        BY OptionsFacts DEF Opts
    <2>2. k \in rest <=> DOMAIN Opts(k) # {}
        BY <2>1, EmptyDomain
    <2>3. ASSUME NEW q \in DOMAIN Opts(k), IsList(Opts(k)[q]) PROVE k \in Rest
        <3>1. PICK m \in DOMAIN Lists : ListAt(m, k, q)
            BY <2>3, ListsFacts
        <3>2. Lists[m][1] = Others[k].name
            BY <3>1 DEF ListAt
        <3>3. Others[k].name \in FileNames(i, j)
            BY <1>1, <1>2, <3>2
        <3>. QED
            BY <3>3, NamesApart
    <2>. QED
        BY <2>2, <2>3 DEF Rest, Plain
<1>5. rest = Rest
    BY <1>4 DEF Rest
<1>6. DOMAIN file = {get.name, run.name} \cup {Others[k].name : k \in rest}
    BY <1>3, <1>5 DEF FileNames
<1>7. ASSUME NEW k \in rest
      PROVE  LET all == Content(Others[k].options)
                 one == file[Others[k].name]
             IN  /\ DOMAIN one = DOMAIN all
                 /\ \A o \in DOMAIN all :
                       IF Len(all[o]) > 1 THEN \E n \in DOMAIN all[o] : one[o] = <<all[o][n]>>
                       ELSE one[o] = all[o]
    <2> DEFINE opts == Opts(k)
               all == Content(opts)
               one == file[Others[k].name]
    <2>1. k \in Rest /\ k \in DOMAIN Others /\ opts = Others[k].options
        BY <1>5 DEF Opts
    <2>2. \A p, q \in DOMAIN opts : opts[p][1] = opts[q][1] => p = q
        BY <2>1, KindsFacts DEF Opts
    <2>3. /\ DOMAIN all = {opts[q][1] : q \in DOMAIN opts}
          /\ \A q \in DOMAIN opts : all[opts[q][1]] = opts[q][2]
        BY <2>2, ContentFacts
    <2>4. /\ one = [o \in OptionNames(k, d) |-> one[o]] /\ DOMAIN one = OptionNames(k, d)
          /\ \A q \in Plain(k) : one[opts[q][1]] = opts[q][2]
          /\ \A m \in 1 .. d : Lists[m][1] = Others[k].name =>
                \E n \in DOMAIN Lists[m][3] : one[Lists[m][2]] = <<Lists[m][3][n]>>
        <3>1. /\ one = [o \in OptionNames(k, d) |-> one[o]]
              /\ \A q \in Plain(k) : one[opts[q][1]] = opts[q][2]
              /\ \A m \in 1 .. d : Lists[m][1] = Others[k].name =>
                    \E n \in DOMAIN Lists[m][3] : one[Lists[m][2]] = <<Lists[m][3][n]>>
            BY <1>2, <2>1
        <3> HIDE DEF one
        <3>2. DOMAIN one = OptionNames(k, d)
            BY <3>1
        <3>. QED
            BY <3>1, <3>2
    <2> HIDE DEF all, one
    <2>5. ASSUME NEW q \in DOMAIN opts, IsList(opts[q])
          PROVE  \E m \in 1 .. d : Lists[m][1] = Others[k].name /\ Lists[m][2] = opts[q][1]
                                     /\ Lists[m][3] = opts[q][2]
        <3>1. PICK m \in DOMAIN Lists : ListAt(m, k, q)
            BY <2>1, <2>5, ListsFacts
        <3>. QED
            BY <1>1, <3>1 DEF ListAt
    <2>6. ASSUME NEW m \in 1 .. d, Lists[m][1] = Others[k].name
          PROVE  \E q \in DOMAIN opts : Lists[m][2] = opts[q][1]
        <3>1. PICK l, q : ListAt(m, l, q)
            BY <1>1, ListsFacts
        <3>2. l \in DOMAIN Others /\ Others[l].name = Others[k].name
              /\ q \in DOMAIN Opts(l) /\ Lists[m][2] = Opts(l)[q][1]
            BY <2>6, <3>1 DEF ListAt
        <3>3. l = k
            BY <2>1, <3>2, NamesApart
        <3>. QED
            BY <3>2, <3>3
    <2>7. DOMAIN one = DOMAIN all
        <3>1. ASSUME NEW o \in DOMAIN one PROVE o \in DOMAIN all
            <4>1. CASE \E q \in Plain(k) : o = opts[q][1]
                BY <2>3, <4>1 DEF Plain
            <4>2. CASE \E m \in 1 .. d : Lists[m][1] = Others[k].name /\ o = Lists[m][2]
                BY <2>3, <2>6, <4>2
            <4>. QED
                BY <2>4, <4>1, <4>2 DEF OptionNames
        <3>2. ASSUME NEW o \in DOMAIN all PROVE o \in DOMAIN one
            <4>1. PICK q \in DOMAIN opts : o = opts[q][1]
                BY <2>3
            <4>2. CASE IsList(opts[q])
                <5>1. PICK m \in 1 .. d : Lists[m][1] = Others[k].name /\ Lists[m][2] = opts[q][1]
                    BY <2>5, <4>2
                <5>. QED
                    BY <2>4, <4>1, <5>1 DEF OptionNames
            <4>3. CASE ~IsList(opts[q])
                <5>1. q \in Plain(k)
                    BY <4>3 DEF Plain
                <5>. QED
                    BY <2>4, <4>1, <5>1 DEF OptionNames
            <4>. QED
                BY <4>2, <4>3
        <3>. QED
            BY <3>1, <3>2
    <2>8. ASSUME NEW o \in DOMAIN all
          PROVE  IF Len(all[o]) > 1 THEN \E n \in DOMAIN all[o] : one[o] = <<all[o][n]>>
                 ELSE one[o] = all[o]
        <3>1. PICK q \in DOMAIN opts : o = opts[q][1]
            BY <2>3
        <3>2. all[o] = opts[q][2]
            BY <2>3, <3>1
        <3>3. CASE IsList(opts[q])
            <4>1. Len(all[o]) > 1
                BY <3>2, <3>3 DEF IsList
            <4>2. PICK m \in 1 .. d : Lists[m][1] = Others[k].name /\ Lists[m][2] = o
                                        /\ Lists[m][3] = all[o]
                BY <2>5, <3>1, <3>2, <3>3
            <4>3. \E n \in DOMAIN Lists[m][3] : one[Lists[m][2]] = <<Lists[m][3][n]>>
                BY <2>4, <4>2
            <4>. QED
                BY <4>1, <4>2, <4>3
        <3>4. CASE ~IsList(opts[q])
            <4>1. ~(Len(all[o]) > 1)
                BY <3>2, <3>4 DEF IsList
            <4>2. q \in Plain(k)
                BY <3>4 DEF Plain
            <4>3. one[o] = all[o]
                BY <2>4, <3>1, <3>2, <4>2
            <4>. QED
                BY <4>1, <4>3
        <3>. QED
            BY <3>3, <3>4
    <2>. QED
        BY <2>1, <2>7, <2>8 DEF all, one
<1>. QED
    BY <1>2, <1>6, <1>7 DEF IsCombination
-----------------------------------------------------------------------------
(* All combinations, each of them once                                       *)

\* The k-th of m times n pairs has a first and a second member.
LEMMA DivFacts ==
    ASSUME NEW m \in Nat, NEW n \in Nat, NEW k \in 1 .. m * n
    PROVE  /\ n \in Nat \ {0}
           /\ ((k - 1) \div n) + 1 \in 1 .. m
           /\ ((k - 1) % n) + 1 \in 1 .. n
<1>1. n # 0
    <2>1. m * 0 = 0
        OBVIOUS
    <2>2. m * n >= 1
        <3>1. m * n \in Nat
            OBVIOUS
        <3>. QED
            BY <3>1
    <2>. QED
        BY <2>1, <2>2
<1>2. m * n \in Nat
    OBVIOUS
<1>3. PICK h \in Nat : h = k - 1
    BY <1>2
<1>4. h < m * n
    BY <1>2, <1>3
<1>5. h \div n \in Nat /\ h \div n < m
    BY <1>1, <1>4
<1>6. h % n \in 0 .. n - 1
    BY <1>1
<1>. QED
    BY <1>1, <1>3, <1>5, <1>6

\* No two pairs have the same members.
LEMMA DivSame ==
    ASSUME NEW n \in Nat \ {0}, NEW a \in Nat \ {0}, NEW b \in Nat \ {0},
           ((a - 1) \div n) + 1 = ((b - 1) \div n) + 1,
           ((a - 1) % n) + 1 = ((b - 1) % n) + 1
    PROVE  a = b
<1>1. PICK x \in Nat : x = a - 1
    OBVIOUS
<1>2. PICK y \in Nat : y = b - 1
    OBVIOUS
<1>3. x \div n = y \div n /\ x % n = y % n
    <2>1. x \div n \in Int /\ y \div n \in Int /\ x % n \in Int /\ y % n \in Int
        OBVIOUS
    <2>. QED
        BY <1>1, <1>2, <2>1
<1>4. x = y
    BY <1>3
<1>. QED
    BY <1>1, <1>2, <1>4

\* How many files there are with the first k lists.
Product ==
    LET files[k \in 0 .. Len(Lists)] ==
            IF k = 0 THEN Len(Gets) * Len(Runs) ELSE files[k - 1] * Len(Lists[k][3])
    IN  files

IsProduct(g) ==
    g = [k \in 0 .. Len(Lists) |->
            IF k = 0 THEN Len(Gets) * Len(Runs) ELSE g[k - 1] * Len(Lists[k][3])]

LEMMA ProductFacts ==
    ASSUME input \in Inputs
    PROVE  /\ Combinations = Product[Len(Lists)]
           /\ Product[0] = Len(Gets) * Len(Runs)
           /\ \A k \in 1 .. Len(Lists) : Product[k] = Product[k - 1] * Len(Lists[k][3])
           /\ \A k \in 0 .. Len(Lists) : Product[k] \in Nat
<1> DEFINE n == Len(Lists)
           base == Len(Gets) * Len(Runs)
           c(k) == Len(Lists[k][3])
           h == [k \in 1 .. n |-> [t \in Nat |-> t * c(k)]]
<1>1. n \in Nat /\ \A k \in 1 .. n : c(k) \in Nat
    <2>1. Lists \in Seq(ListOption)
        BY ListsType
    <2>2. \A k \in 1 .. n : Lists[k] \in ListOption
        BY <2>1
    <2>. QED
        BY <2>1, <2>2 DEF ListOption
<1>2. base \in Nat
    <2>1. Len(Gets) \in Nat /\ Len(Runs) \in Nat
        BY KindsType
    <2>. QED
        BY <2>1
<1> HIDE DEF n, base, c
<1>3. \A k \in 1 .. n, t \in Nat : h[k][t] \in Nat /\ h[k][t] = t * c(k)
    BY <1>1
<1> HIDE DEF h
<1>4. PICK g \in [0 .. n -> Nat] : IsRecursion(g, n, base, h)
    BY <1>1, <1>2, <1>3, Recursion
<1>5. ASSUME NEW k \in 0 .. n
      PROVE  g[k] = IF k = 0 THEN base ELSE g[k - 1] * c(k)
    <2>1. CASE k = 0
        BY <1>4, <2>1 DEF IsRecursion
    <2>2. CASE k # 0
        <3>1. k \in 1 .. n /\ k - 1 \in 0 .. n
            BY <1>1, <2>2
        <3>2. g[k] = h[k][g[k - 1]] /\ g[k - 1] \in Nat
            BY <1>4, <3>1 DEF IsRecursion
        <3>. QED
            BY <1>3, <2>2, <3>1, <3>2
    <2>. QED
        BY <2>1, <2>2
<1>6. IsProduct(g)
    <2>1. g = [k \in 0 .. n |-> g[k]]
        OBVIOUS
    <2>. QED
        BY <1>5, <2>1 DEF IsProduct, n, base, c
<1>7. Product = CHOOSE u : IsProduct(u)
    BY DEF Product, IsProduct
<1>8. IsProduct(Product)
    BY <1>6, <1>7
<1>9. \A k \in 0 .. n : Product[k] = IF k = 0 THEN base ELSE Product[k - 1] * c(k)
    BY <1>8 DEF IsProduct, n, base, c
<1>10. Product[0] = base
    BY <1>1, <1>9
<1>11. ASSUME NEW k \in 1 .. n PROVE Product[k] = Product[k - 1] * c(k)
    <2>1. k \in 0 .. n /\ k # 0
        BY <1>1
    <2>. QED
        BY <1>9, <2>1
<1>12. \A k \in 0 .. n : Product[k] \in Nat
    <2>1. ASSUME NEW k \in 1 .. n, Product[k - 1] \in Nat PROVE Product[k] \in Nat
        BY <1>1, <1>11, <2>1
    <2>. QED
        BY <1>1, <1>2, <1>10, <2>1, RecursionType
<1>13. Combinations = Product[n]
    BY DEF Combinations, Product, n
<1>. QED
    BY <1>10, <1>11, <1>12, <1>13 DEF n, base, c

\* All files with an item of each of the first d lists.
ItemsOnce == \A m \in DOMAIN Lists : IsInjective(Lists[m][3])
Made(log, d) ==
    /\ DOMAIN log = 1 .. Len(log) /\ Len(log) = Product[d]
    /\ \A k \in DOMAIN log : PartialFile(log[k], d)
    /\ ItemsOnce => \A x, y \in DOMAIN log : log[x] = log[y] => x = y

LEMMA MadeFirst ==
    ASSUME input \in Inputs, NEW log,
           log = [k \in 1 .. Len(Gets) * Len(Runs) |->
                    File(Gets[((k - 1) \div Len(Runs)) + 1], Runs[((k - 1) % Len(Runs)) + 1])]
    PROVE  Made(log, 0)
<1> DEFINE g == Len(Gets)
           r == Len(Runs)
           n == g * r
           a(k) == ((k - 1) \div r) + 1
           b(k) == ((k - 1) % r) + 1
<1>1. /\ g \in Nat /\ r \in Nat /\ n \in Nat
      /\ DOMAIN Gets = 1 .. g /\ DOMAIN Runs = 1 .. r
    <2>1. Gets \in Seq(Section) /\ Runs \in Seq(Section)
        BY KindsType
    <2>. QED
        BY <2>1
<1>2. log = [k \in 1 .. n |-> File(Gets[a(k)], Runs[b(k)])]
    OBVIOUS
<1>3. \A k \in 1 .. n : r \in Nat \ {0} /\ a(k) \in DOMAIN Gets /\ b(k) \in DOMAIN Runs
    BY <1>1, DivFacts
<1>4. \A k, l \in 1 .. n : a(k) = a(l) /\ b(k) = b(l) => k = l
    <2>1. ASSUME NEW k \in 1 .. n, NEW l \in 1 .. n, a(k) = a(l), b(k) = b(l) PROVE k = l
        <3>1. r \in Nat \ {0} /\ k \in Nat \ {0} /\ l \in Nat \ {0}
            BY <1>1, <1>3
        <3> HIDE DEF r
        <3>. QED
            BY <2>1, <3>1, DivSame
    <2>. QED
        BY <2>1
<1>5. Product[0] = n
    BY ProductFacts
<1> HIDE DEF g, r, n, a, b
<1>6. DOMAIN log = 1 .. n /\ Len(log) = n
    BY <1>1, <1>2
<1>7. ASSUME NEW k \in 1 .. n PROVE Partial(log[k], a(k), b(k), 0)
    <2>1. log[k] = File(Gets[a(k)], Runs[b(k)])
        BY <1>2
    <2>2. PICK i \in DOMAIN Gets, j \in DOMAIN Runs : i = a(k) /\ j = b(k)
        BY <1>3
    <2>3. Partial(File(Gets[i], Runs[j]), i, j, 0)
        BY FilePartial
    <2>. QED
        BY <2>1, <2>2, <2>3
<1>8. ASSUME NEW x \in 1 .. n, NEW y \in 1 .. n, log[x] = log[y] PROVE x = y
    <2>1. Partial(log[x], a(x), b(x), 0) /\ Partial(log[x], a(y), b(y), 0)
        BY <1>7, <1>8
    <2>2. /\ a(x) \in DOMAIN Gets /\ b(x) \in DOMAIN Runs
          /\ a(y) \in DOMAIN Gets /\ b(y) \in DOMAIN Runs
        BY <1>3
    <2>3. a(x) = a(y) /\ b(x) = b(y)
        BY <2>1, <2>2, PartialSame
    <2>. QED
        BY <1>4, <2>3
<1>9. \A k \in 1 .. n : PartialFile(log[k], 0)
    BY <1>3, <1>7 DEF PartialFile
<1>. QED
    BY <1>5, <1>6, <1>8, <1>9 DEF Made

\* Files, with each of the items of an option.
Times(log, s, o, items) ==
    [k \in 1 .. Len(log) * Len(items) |->
        Put(log[((k - 1) \div Len(items)) + 1], s, o, items[((k - 1) % Len(items)) + 1])]

LEMMA MadeNext ==
    ASSUME input \in Inputs, NEW d \in Nat, d + 1 \in DOMAIN Lists, NEW log,
           Made(log, d), \A k \in DOMAIN log : Lists[d + 1][1] \in DOMAIN log[k]
    PROVE  Made(Times(log, Lists[d + 1][1], Lists[d + 1][2], Lists[d + 1][3]), d + 1)
<1> DEFINE new == Times(log, Lists[d + 1][1], Lists[d + 1][2], Lists[d + 1][3])
           s == Lists[d + 1][1]
           o == Lists[d + 1][2]
           items == Lists[d + 1][3]
           l == Len(log)
           r == Len(items)
           n == l * r
           a(k) == ((k - 1) \div r) + 1
           b(k) == ((k - 1) % r) + 1
<1>1. /\ d + 1 \in 1 .. Len(Lists) /\ d \in 0 .. Len(Lists) /\ Len(Lists) \in Nat
      /\ items \in Seq(Item)
    <2>1. Lists \in Seq(ListOption)
        BY ListsType
    <2>2. Lists[d + 1] \in ListOption
        BY <2>1
    <2>. QED
        BY <2>1, <2>2 DEF ListOption
<1>2. /\ DOMAIN log = 1 .. l /\ l = Product[d]
      /\ \A k \in DOMAIN log : PartialFile(log[k], d)
      /\ ItemsOnce => \A x, y \in DOMAIN log : log[x] = log[y] => x = y
    BY DEF Made
<1>3. l \in Nat /\ r \in Nat /\ n \in Nat /\ DOMAIN items = 1 .. r
    <2>1. Product[d] \in Nat
        BY <1>1, ProductFacts
    <2>2. r \in Nat /\ DOMAIN items = 1 .. r
        BY <1>1
    <2>. QED
        BY <1>2, <2>1, <2>2
<1>4. Product[d + 1] = n
    <2>1. Product[d + 1] = Product[d + 1 - 1] * r
        BY <1>1, ProductFacts
    <2>2. d + 1 - 1 = d
        OBVIOUS
    <2>. QED
        BY <1>2, <2>1, <2>2
<1>5. new = [k \in 1 .. n |-> Put(log[a(k)], s, o, items[b(k)])]
    BY DEF Times
<1>6. \A k \in 1 .. n : r \in Nat \ {0} /\ a(k) \in DOMAIN log /\ b(k) \in DOMAIN items
    <2> HIDE DEF l, r, items
    <2>. QED
        BY <1>2, <1>3, DivFacts
<1>7. ASSUME NEW x \in 1 .. n, NEW y \in 1 .. n, a(x) = a(y), b(x) = b(y) PROVE x = y
    <2>1. r \in Nat \ {0} /\ x \in Nat \ {0} /\ y \in Nat \ {0}
        BY <1>3, <1>6
    <2> HIDE DEF r
    <2>. QED
        BY <1>7, <2>1, DivSame
<1>8. \A k \in DOMAIN log : s \in DOMAIN log[k]
    OBVIOUS
<1> HIDE DEF new, s, o, items, l, r, n, a, b
<1>9. DOMAIN new = 1 .. n /\ Len(new) = n
    BY <1>3, <1>5
<1>10. ASSUME NEW k \in 1 .. n PROVE PartialFile(new[k], d + 1)
    <2>1. new[k] = Put(log[a(k)], s, o, items[b(k)])
        BY <1>5
    <2>2. PICK file : file = log[a(k)] /\ PartialFile(file, d) /\ s \in DOMAIN file
        BY <1>2, <1>6, <1>8
    <2>3. PICK i \in DOMAIN Gets, j \in DOMAIN Runs : Partial(file, i, j, d)
        BY <2>2 DEF PartialFile
    <2>4. PICK q \in DOMAIN items : q = b(k)
        BY <1>6
    <2>5. Partial(Put(file, s, o, items[q]), i, j, d + 1)
        BY <2>2, <2>3, PutPartial DEF s, o, items
    <2>. QED
        BY <2>1, <2>2, <2>4, <2>5 DEF PartialFile
<1>11. ASSUME ItemsOnce, NEW x \in 1 .. n, NEW y \in 1 .. n, new[x] = new[y] PROVE x = y
    <2>1. /\ new[x] = Put(log[a(x)], s, o, items[b(x)])
          /\ new[y] = Put(log[a(y)], s, o, items[b(y)])
        BY <1>5
    <2>2. PICK e : e = log[a(x)] /\ PartialFile(e, d) /\ s \in DOMAIN e
        BY <1>2, <1>6, <1>8
    <2>3. PICK f : f = log[a(y)] /\ PartialFile(f, d) /\ s \in DOMAIN f
        BY <1>2, <1>6, <1>8
    <2>6. PICK v : v = items[b(x)]
        OBVIOUS
    <2>7. PICK w : w = items[b(y)]
        OBVIOUS
    <2>8. Put(e, s, o, v) = Put(f, s, o, w)
        BY <1>11, <2>1, <2>2, <2>3, <2>6, <2>7
    <2>9. e = f /\ v = w
        <3>1. /\ Lists[d + 1][1] \in DOMAIN e /\ Lists[d + 1][1] \in DOMAIN f
              /\ Put(e, Lists[d + 1][1], Lists[d + 1][2], v)
                    = Put(f, Lists[d + 1][1], Lists[d + 1][2], w)
            BY <2>2, <2>3, <2>8 DEF s, o
        <3>. QED
            BY <2>2, <2>3, <3>1, PutSame
    <2>10. a(x) = a(y)
        BY <1>2, <1>6, <1>11, <2>2, <2>3, <2>9
    <2>11. b(x) = b(y)
        <3>1. IsInjective(items)
            BY <1>11 DEF ItemsOnce, items
        <3>. QED
            BY <1>6, <2>6, <2>7, <2>9, <3>1 DEF IsInjective
    <2>. QED
        BY <1>7, <2>10, <2>11
<1>12. Made(new, d + 1)
    BY <1>4, <1>9, <1>10, <1>11 DEF Made
<1>. QED
    BY <1>12 DEF new

LEMMA WholeMade ==
    ASSUME input \in Inputs, NEW log, Made(log, Len(Lists))
    PROVE  /\ Len(log) = Combinations
           /\ \A k \in DOMAIN log : IsCombination(log[k])
           /\ (\A m \in DOMAIN Lists : IsInjective(Lists[m][3])) => IsInjective(log)
<1>1. Len(log) = Combinations
    BY ProductFacts DEF Made
<1>2. ASSUME NEW k \in DOMAIN log PROVE IsCombination(log[k])
    <2>1. PICK i \in DOMAIN Gets, j \in DOMAIN Runs : Partial(log[k], i, j, Len(Lists))
        BY DEF Made, PartialFile
    <2>. QED
        BY <2>1, WholeIsCombination
<1>3. ItemsOnce => IsInjective(log)
    BY DEF Made, IsInjective
<1>. QED
    BY <1>1, <1>2, <1>3 DEF ItemsOnce

\* With d lists gone through the files are those of the first d lists; after
\* the last they stay as they are.
MadeUp ==
    /\ pc = "multiply" =>
          \E d \in 0 .. Len(Lists) :
             /\ Len(csv) = Len(Lists) - d
             /\ \A k \in 1 .. Len(csv) : csv[k] = Lists[d + k]
             /\ Made(runLog, d)
    /\ pc \in {"run", "test", "failed", "passed"} => Made(runLog, Len(Lists))

\* They are run one after the other.
Ordered ==
    /\ Len(ended) <= Len(runLog)
    /\ \A k \in DOMAIN ended : ended[k].file = runLog[k]
    /\ pc = "test" => Len(ended) < Len(runLog) /\ config = runLog[Len(ended) + 1]
    /\ pc \in {"failed", "passed"} =>
          /\ Len(ended) = Len(runLog)
          /\ (pc = "failed") = (\E k \in DOMAIN ended : ended[k].status # 0)

\* The results, and the directory.
Kept ==
    /\ ScratchRight
    /\ TempRemoved
    /\ pc \in {"config", "sort", "multiply"} => config = NoFile /\ scratch = {}

CombinatorialInv == Types /\ MadeUp /\ Ordered /\ Kept

\* The files that are run are the combinations, and each of them is run once.
LEMMA InvCombinationsRight == CombinatorialInv => CombinationsRight
<1> SUFFICES ASSUME CombinatorialInv PROVE CombinationsRight
    OBVIOUS
<1>1. input \in Inputs
    BY DEF CombinatorialInv, Types, TypeOK
<1>2. AllCombinations
    <2> SUFFICES ASSUME pc \in {"run", "test"} PROVE Made(runLog, Len(Lists))
        BY <1>1, WholeMade DEF AllCombinations
    <2>. QED
        BY DEF CombinatorialInv, MadeUp
<1>3. OneByOne
    BY DEF CombinatorialInv, Ordered, OneByOne
<1>. QED
    BY <1>2, <1>3 DEF CombinationsRight

LEMMA InvOutcome == CombinatorialInv => Outcome
<1> SUFFICES ASSUME CombinatorialInv PROVE Outcome
    OBVIOUS
<1>1. input \in Inputs
    BY DEF CombinatorialInv, Types, TypeOK
<1>2. ASSUME pc \in {"failed", "passed"} PROVE Len(runLog) = Combinations
    BY <1>1, <1>2, WholeMade DEF CombinatorialInv, MadeUp
<1>3. StatusTells
    BY <1>2 DEF StatusTells, CombinatorialInv, Ordered
<1>. QED
    BY <1>3 DEF Outcome, CombinatorialInv, Kept

\* What is read of the files does not change.
LEMMA InputSame ==
    ASSUME input' = input
    PROVE  /\ Lists' = Lists
           /\ \A log, d : Made(log, d) => Made(log, d)'
<1>1. Gets' = Gets /\ Runs' = Runs /\ Others' = Others
    BY DEF Gets, Runs, Others
<1>2. Lists' = Lists
    BY <1>1 DEF Lists
<1>3. Product' = Product
    BY <1>1, <1>2 DEF Product
<1>4. Rest' = Rest /\ \A k : Opts(k)' = Opts(k) /\ Plain(k)' = Plain(k)
    BY <1>1 DEF Rest, Plain, Opts
<1>5. \A file, i, j, d : Partial(file, i, j, d)' <=> Partial(file, i, j, d)
    <2>1. \A i, j : FileNames(i, j)' = FileNames(i, j)
        BY <1>1, <1>4 DEF FileNames
    <2>2. \A k, d : OptionNames(k, d)' = OptionNames(k, d)
        BY <1>1, <1>2, <1>4 DEF OptionNames
    <2> SUFFICES ASSUME NEW file, NEW i, NEW j, NEW d
                 PROVE  Partial(file, i, j, d)' <=> Partial(file, i, j, d)
        OBVIOUS
    <2>3. FileNames(i, j)' = FileNames(i, j)
        BY <2>1
    <2>4. ASSUME NEW k PROVE OptionNames(k, d)' = OptionNames(k, d)
        BY <2>2
    <2>5. /\ \A k : Opts(k)' = Opts(k) /\ Plain(k)' = Plain(k) /\ OptionNames(k, d)' = OptionNames(k, d)
          /\ Rest' = Rest
        BY <1>4, <2>4
    <2>6. (\A k \in Rest :
             /\ file[Others[k].name] = [o \in OptionNames(k, d) |-> file[Others[k].name][o]]
             /\ \A q \in Plain(k) : file[Others[k].name][Opts(k)[q][1]] = Opts(k)[q][2]
             /\ \A m \in 1 .. d : Lists[m][1] = Others[k].name =>
                   \E n \in DOMAIN Lists[m][3] :
                      file[Others[k].name][Lists[m][2]] = <<Lists[m][3][n]>>)'
          <=>
           \A k \in Rest :
             /\ file[Others[k].name] = [o \in OptionNames(k, d) |-> file[Others[k].name][o]]
             /\ \A q \in Plain(k) : file[Others[k].name][Opts(k)[q][1]] = Opts(k)[q][2]
             /\ \A m \in 1 .. d : Lists[m][1] = Others[k].name =>
                   \E n \in DOMAIN Lists[m][3] :
                      file[Others[k].name][Lists[m][2]] = <<Lists[m][3][n]>>
        BY <1>1, <1>2, <2>5
    <2>. QED
        BY <1>1, <1>2, <2>3, <2>6 DEF Partial
<1>6. \A file, d : PartialFile(file, d)' <=> PartialFile(file, d)
    BY <1>1, <1>5 DEF PartialFile
<1>7. ItemsOnce' <=> ItemsOnce
    BY <1>2 DEF ItemsOnce
<1>8. \A log, d : Made(log, d) => Made(log, d)'
    BY <1>3, <1>6, <1>7 DEF Made
<1>. QED
    BY <1>2, <1>8

LEMMA InitInv == Init => CombinatorialInv
<1> SUFFICES ASSUME Init PROVE CombinatorialInv
    OBVIOUS
<1>1. pc = "config" /\ runLog = <<>> /\ ended = <<>> /\ config = NoFile
    BY DEF Init
<1>2. MadeUp
    BY <1>1 DEF MadeUp
<1>3. Ordered
    BY <1>1 DEF Ordered
<1>4. Kept
    BY <1>1 DEF Init, Kept, ScratchRight, TempRemoved, Final
<1>. QED
    BY <1>2, <1>3, <1>4, InitTypes DEF CombinatorialInv

LEMMA StepMadeUp == CombinatorialInv /\ [Next]_vars => MadeUp'
<1> SUFFICES ASSUME CombinatorialInv, [Next]_vars PROVE MadeUp'
    OBVIOUS
<1>1. input \in Inputs /\ MadeUp
    BY DEF CombinatorialInv, Types, TypeOK
<1>2. input' = input
    BY DEF Next, Work, Over, vars, ConfigTest, Sort, Multiply, Created, ConfigNewTest,
           ExecuteTest, ExecuteTestExits, Finish
<1>3. Lists' = Lists /\ \A log, d : Made(log, d) => Made(log, d)'
    BY <1>2, InputSame
<1>4. Lists \in Seq(ListOption) /\ Len(Lists) \in Nat /\ DOMAIN Lists = 1 .. Len(Lists)
    <2>1. Lists \in Seq(ListOption)
        BY <1>1, ListsType
    <2>. QED
        BY <2>1
<1>5. csv \in Seq(ListOption) /\ Len(csv) \in Nat
    <2>1. csv \in Seq(ListOption)
        BY DEF CombinatorialInv, Types
    <2>. QED
        BY <2>1
<1>6. ASSUME pc' \notin {"multiply", "run", "test", "failed", "passed"} PROVE MadeUp'
    BY <1>6 DEF MadeUp
<1>7. ASSUME NEW d \in 0 .. Len(Lists), Len(csv') = Len(Lists) - d,
             \A k \in 1 .. Len(csv') : csv'[k] = Lists[d + k],
             NEW log, log = runLog', Made(log, d), pc' = "multiply"
      PROVE  MadeUp'
    <2>1. Made(log, d)'
        BY <1>3, <1>7
    <2>2. Made(runLog, d)'
        BY <1>7, <2>1 DEF Made
    <2>. QED
        BY <1>3, <1>7, <2>2 DEF MadeUp
<1>8. ASSUME NEW log, log = runLog', Made(log, Len(Lists)), pc' # "multiply" PROVE MadeUp'
    <2>1. PICK d : d = Len(Lists)
        OBVIOUS
    <2>2. Made(log, d)'
        BY <1>3, <1>8, <2>1
    <2>3. Made(runLog, d)'
        BY <1>8, <2>2 DEF Made
    <2>4. Made(runLog, Len(Lists))'
        BY <1>3, <2>1, <2>3 DEF Made
    <2>. QED
        BY <1>8, <2>4 DEF MadeUp
<1>9. CASE ConfigTest
    BY <1>6, <1>9 DEF ConfigTest, Quit
<1>10. CASE Sort
    <2>1. CASE pc' # "multiply"
        BY <1>6, <1>10, <2>1 DEF Sort, Quit
    <2>2. CASE pc' = "multiply"
        <3>1. /\ csv' = Lists
              /\ runLog' = [k \in 1 .. Len(Gets) * Len(Runs) |->
                    File(Gets[((k - 1) \div Len(Runs)) + 1], Runs[((k - 1) % Len(Runs)) + 1])]
            BY <1>10, <2>2 DEF Sort, Quit
        <3>2. PICK log : log = runLog'
            OBVIOUS
        <3>3. Made(log, 0)
            BY <1>1, <3>1, <3>2, MadeFirst
        <3>4. /\ 0 \in 0 .. Len(Lists) /\ Len(csv') = Len(Lists) - 0
              /\ \A k \in 1 .. Len(csv') : csv'[k] = Lists[0 + k]
            BY <1>4, <3>1
        <3>. QED
            BY <1>7, <2>2, <3>2, <3>3, <3>4
    <2>. QED
        BY <2>1, <2>2
<1>11. CASE Multiply
    <2>1. pc = "multiply" /\ csv # <<>> /\ pc' \in {"multiply", "raised"}
        BY <1>11 DEF Multiply, Quit
    <2>2. CASE pc' = "raised"
        BY <1>6, <2>2
    <2>3. CASE pc' = "multiply"
        <3>1. /\ \A k \in DOMAIN runLog : csv[1][1] \in DOMAIN runLog[k]
              /\ runLog' = Times(runLog, csv[1][1], csv[1][2], csv[1][3])
              /\ csv' = Tail(csv)
            BY <1>11, <2>3 DEF Multiply, Quit, Times
        <3>2. PICK d \in 0 .. Len(Lists) :
                  /\ Len(csv) = Len(Lists) - d
                  /\ \A k \in 1 .. Len(csv) : csv[k] = Lists[d + k]
                  /\ Made(runLog, d)
            BY <1>1, <2>1 DEF MadeUp
        <3>3. Len(csv) >= 1
            BY <1>5, <2>1
        <3>4. d \in Nat /\ d + 1 \in DOMAIN Lists /\ d + 1 \in 0 .. Len(Lists)
            BY <1>4, <3>2, <3>3
        <3>5. csv[1] = Lists[d + 1]
            BY <1>5, <3>2, <3>3
        <3>6. PICK log : log = Times(runLog, Lists[d + 1][1], Lists[d + 1][2], Lists[d + 1][3])
            OBVIOUS
        <3>7. log = runLog'
            BY <3>1, <3>5, <3>6
        <3>8. Made(log, d + 1)
            <4>1. PICK old : old = runLog
                OBVIOUS
            <4>2. \A k \in DOMAIN old : Lists[d + 1][1] \in DOMAIN old[k]
                BY <3>1, <3>5, <4>1
            <4>3. Made(Times(old, Lists[d + 1][1], Lists[d + 1][2], Lists[d + 1][3]), d + 1)
                BY <1>1, <3>2, <3>4, <4>1, <4>2, MadeNext
            <4>. QED
                BY <3>6, <4>1, <4>3
        <3>9. PICK e : e = d + 1
            OBVIOUS
        <3>10. Len(csv') = Len(Lists) - e /\ \A k \in 1 .. Len(csv') : csv'[k] = Lists[e + k]
            <4>1. /\ Len(csv') = Len(csv) - 1
                  /\ \A k \in 1 .. Len(csv') : csv'[k] = csv[k + 1]
                BY <1>5, <2>1, <3>1
            <4>2. Len(csv') = Len(Lists) - e
                BY <1>4, <3>2, <3>4, <3>9, <4>1
            <4>3. ASSUME NEW k \in 1 .. Len(csv') PROVE csv'[k] = Lists[e + k]
                <5>1. k + 1 \in 1 .. Len(csv)
                    BY <1>5, <4>1
                <5>2. d + (k + 1) = e + k
                    BY <3>4, <3>9, <5>1
                <5>3. csv[k + 1] = Lists[d + (k + 1)]
                    BY <3>2, <5>1
                <5>. QED
                    BY <4>1, <5>2, <5>3
            <4>. QED
                BY <4>2, <4>3
        <3>. QED
            BY <1>7, <2>3, <3>4, <3>7, <3>8, <3>9, <3>10
    <2>. QED
        BY <2>1, <2>2, <2>3
<1>12. CASE Created
    <2>1. pc = "multiply" /\ csv = <<>> /\ pc' = "run" /\ runLog' = runLog
        BY <1>12 DEF Created
    <2>2. PICK d \in 0 .. Len(Lists) : Len(csv) = Len(Lists) - d /\ Made(runLog, d)
        BY <1>1, <2>1 DEF MadeUp
    <2>3. d = Len(Lists)
        <3>1. Len(csv) = 0
            BY <2>1
        <3>2. PICK l \in Nat : l = Len(Lists)
            BY <1>4
        <3>3. d \in Int /\ l - d = 0
            BY <2>2, <3>1, <3>2
        <3>. QED
            BY <3>2, <3>3
    <2>4. PICK log : log = runLog
        OBVIOUS
    <2>5. Made(log, Len(Lists))
        BY <2>2, <2>3, <2>4
    <2>. QED
        BY <1>8, <2>1, <2>4, <2>5
<1>13. ASSUME runLog' = runLog, pc \in {"run", "test", "failed", "passed"}, pc' # "multiply"
       PROVE  MadeUp'
    <2>1. PICK log : log = runLog
        OBVIOUS
    <2>2. Made(log, Len(Lists))
        BY <1>1, <1>13, <2>1 DEF MadeUp
    <2>. QED
        BY <1>8, <1>13, <2>1, <2>2
<1>14. CASE ConfigNewTest
    BY <1>13, <1>14 DEF ConfigNewTest, Leave
<1>15. CASE ExecuteTest
    BY <1>13, <1>15 DEF ExecuteTest
<1>16. CASE ExecuteTestExits
    BY <1>13, <1>16 DEF ExecuteTestExits, Leave
<1>17. CASE Finish
    BY <1>13, <1>17 DEF Finish, Leave
<1>18. CASE UNCHANGED vars
    <2>1. pc' = pc /\ csv' = csv /\ runLog' = runLog
        BY <1>18 DEF vars
    <2>2. CASE pc = "multiply"
        <3>1. PICK d \in 0 .. Len(Lists) :
                  /\ Len(csv) = Len(Lists) - d
                  /\ \A k \in 1 .. Len(csv) : csv[k] = Lists[d + k]
                  /\ Made(runLog, d)
            BY <1>1, <2>2 DEF MadeUp
        <3>2. PICK log : log = runLog
            OBVIOUS
        <3>. QED
            BY <1>7, <2>1, <2>2, <3>1, <3>2
    <2>3. CASE pc \in {"run", "test", "failed", "passed"}
        BY <1>13, <2>1, <2>3
    <2>. QED
        BY <1>6, <2>1, <2>2, <2>3
<1>. QED
    BY <1>9, <1>10, <1>11, <1>12, <1>14, <1>15, <1>16, <1>17, <1>18 DEF Next, Work, Over

LEMMA StepOrdered == CombinatorialInv /\ [Next]_vars => Ordered'
<1> SUFFICES ASSUME CombinatorialInv, [Next]_vars PROVE Ordered'
    OBVIOUS
<1>1. /\ Ordered
      /\ ended \in Seq([file : ToSet(runLog), status : {0, 1}])
      /\ pc \in {"config", "sort", "multiply"} => ended = <<>>
    BY DEF CombinatorialInv, Types
<1>2. /\ Len(ended) \in Nat /\ DOMAIN ended = 1 .. Len(ended)
      /\ Len(runLog) \in Nat /\ Len(runLog') \in Nat
    <2>1. Types'
        BY StepTypes DEF CombinatorialInv
    <2>2. runLog \in Seq(ToSet(runLog)) /\ runLog' \in Seq(ToSet(runLog'))
        BY <2>1 DEF CombinatorialInv, Types
    <2>. QED
        BY <1>1, <2>2
\* As long as nothing has been run there is nothing to go wrong.
<1>3. ASSUME ended = <<>>, ended' = ended, pc' \notin {"test", "failed", "passed"}
      PROVE  Ordered'
    <2>1. Len(ended') = 0 /\ ~ \E k \in DOMAIN ended' : TRUE
        BY <1>3
    <2>2. Len(ended') <= Len(runLog')
        BY <1>2, <2>1
    <2>3. pc' # "test" /\ pc' # "failed" /\ pc' # "passed"
        BY <1>3
    <2>. QED
        BY <2>1, <2>2, <2>3 DEF Ordered
<1>4. CASE ConfigTest
    BY <1>1, <1>3, <1>4 DEF ConfigTest, Quit
<1>5. CASE Sort
    BY <1>1, <1>3, <1>5 DEF Sort, Quit
<1>6. CASE Multiply
    BY <1>1, <1>3, <1>6 DEF Multiply, Quit
<1>7. CASE Created
    BY <1>1, <1>3, <1>7 DEF Created
<1>8. CASE ConfigNewTest
    <2>1. /\ UNCHANGED <<runLog, ended>> /\ pc' # "failed" /\ pc' # "passed"
          /\ Len(ended) < Len(runLog) /\ config' = runLog[Len(ended) + 1]
        BY <1>8 DEF ConfigNewTest, Leave
    <2>. QED
        BY <1>1, <1>2, <2>1 DEF Ordered
<1>9. CASE ExecuteTest
    <2>1. PICK status \in {0, 1} : ended' = Append(ended, [file |-> config, status |-> status])
        BY <1>9 DEF ExecuteTest
    <2>2. runLog' = runLog /\ pc = "test" /\ pc' = "run"
        BY <1>9 DEF ExecuteTest
    <2>3. Len(ended) < Len(runLog) /\ config = runLog[Len(ended) + 1]
        BY <1>1, <2>2 DEF Ordered
    <2>4. /\ Len(ended') = Len(ended) + 1 /\ DOMAIN ended' = 1 .. Len(ended) + 1
          /\ \A k \in 1 .. Len(ended) : ended'[k] = ended[k]
          /\ ended'[Len(ended) + 1].file = config
        BY <1>1, <2>1
    <2>5. ASSUME NEW k \in DOMAIN ended' PROVE ended'[k].file = runLog[k]
        <3>1. CASE k = Len(ended) + 1
            BY <2>3, <2>4, <3>1
        <3>2. CASE k \in 1 .. Len(ended)
            BY <1>1, <1>2, <2>4, <3>2 DEF Ordered
        <3>. QED
            BY <1>2, <2>4, <3>1, <3>2
    <2>6. Len(ended') <= Len(runLog)
        BY <1>2, <2>3, <2>4
    <2>. QED
        BY <2>2, <2>5, <2>6 DEF Ordered
<1>10. CASE ExecuteTestExits
    BY <1>1, <1>10 DEF ExecuteTestExits, Leave, Ordered
<1>11. CASE Finish
    <2>1. /\ UNCHANGED <<runLog, ended>> /\ Len(ended) = Len(runLog)
          /\ pc' = IF \E k \in DOMAIN ended : ended[k].status # 0 THEN "failed" ELSE "passed"
        BY <1>11 DEF Finish, Leave
    <2>. QED
        BY <1>1, <1>2, <2>1 DEF Ordered
<1>12. CASE UNCHANGED vars
    BY <1>1, <1>12 DEF vars, Ordered
<1>. QED
    BY <1>4, <1>5, <1>6, <1>7, <1>8, <1>9, <1>10, <1>11, <1>12 DEF Next, Work, Over

LEMMA StepKept == CombinatorialInv /\ [Next]_vars => Kept'
<1> SUFFICES ASSUME CombinatorialInv, [Next]_vars PROVE Kept'
    OBVIOUS
<1>1. /\ ScratchRight /\ TempRemoved /\ Types
      /\ ended \in Seq([file : ToSet(runLog), status : {0, 1}])
      /\ pc \in {"config", "sort", "multiply"} =>
            ended = <<>> /\ config = NoFile /\ scratch = {}
      /\ scratch \subseteq Known \X (1 .. Len(ended) + 1)
    BY DEF CombinatorialInv, Types, TypeOK, ScratchOK, Kept, Known
<1>2. Len(ended) \in Nat /\ DOMAIN ended = 1 .. Len(ended)
    BY <1>1
<1>3. input' = input
    BY DEF Next, Work, Over, vars, ConfigTest, Sort, Multiply, Created, ConfigNewTest,
           ExecuteTest, ExecuteTestExits, Finish
<1>4. ASSUME UNCHANGED <<ended, scratch, runLog>> PROVE ScratchRight'
    BY <1>1, <1>3, <1>4 DEF ScratchRight
\* Before the first file has been read.
<1>5. ASSUME pc \in {"config", "sort", "multiply"}, UNCHANGED <<ended, scratch, config>>
      PROVE  Kept'
    <2>1. ScratchRight'
        BY <1>1, <1>5 DEF ScratchRight
    <2>. QED
        BY <1>1, <1>5, <2>1 DEF Kept, TempRemoved
<1>6. CASE ConfigTest
    BY <1>5, <1>6 DEF ConfigTest, Quit
<1>7. CASE Sort
    BY <1>5, <1>7 DEF Sort, Quit
<1>8. CASE Multiply
    BY <1>5, <1>8 DEF Multiply, Quit
<1>9. CASE Created
    <2>1. UNCHANGED <<ended, scratch, runLog>> /\ pc' = "run"
        BY <1>9 DEF Created
    <2>. QED
        BY <1>4, <2>1 DEF Kept, TempRemoved, Final
<1>10. CASE ConfigNewTest
    <2>1. /\ UNCHANGED <<ended, scratch, runLog>>
          /\ pc' = "test" \/ (pc' = "raised" /\ tempDir' = FALSE)
        BY <1>10 DEF ConfigNewTest, Leave
    <2>. QED
        BY <1>4, <2>1 DEF Kept, TempRemoved, Final
\* Some of the sections of this combination have written.
<1>11. ASSUME pc = "test", runLog' = runLog,
              NEW sections \in SUBSET Writers, scratch' = Written(sections)
       PROVE  \A r \in scratch' :
                /\ r[1] \in DOMAIN runLog'[r[2]]
                /\ \A q \in scratch' : q[1] = r[1] => q = r
                /\ r[2] = Len(ended) + 1 \/ r \in scratch
    <2> DEFINE n == Len(ended) + 1
    <2>1. config = runLog[n]
        BY <1>11 DEF CombinatorialInv, Ordered
    <2>2. sections \subseteq DOMAIN config
        BY DEF Writers
    <2>3. \A r \in scratch' :
             \/ r \in scratch /\ r[1] \notin sections
             \/ r[1] \in sections /\ r[2] = n /\ r = <<r[1], r[2]>>
        BY <1>1, <1>11, WrittenFacts
    <2> HIDE DEF n
    <2>4. ASSUME NEW r \in scratch' PROVE r[1] \in DOMAIN runLog'[r[2]]
        BY <1>1, <1>11, <2>1, <2>2, <2>3 DEF ScratchRight
    <2>5. ASSUME NEW r \in scratch', NEW q \in scratch', q[1] = r[1] PROVE q = r
        <3>1. CASE r \in scratch /\ r[1] \notin sections
            BY <1>1, <2>3, <2>5, <3>1 DEF ScratchRight
        <3>2. CASE r[1] \in sections /\ r[2] = n /\ r = <<r[1], r[2]>>
            BY <2>3, <2>5, <3>2
        <3>. QED
            BY <2>3, <3>1, <3>2
    <2>. QED
        BY <2>3, <2>4, <2>5 DEF n
<1>12. CASE ExecuteTest
    <2>1. PICK status \in {0, 1}, sections \in SUBSET Writers :
              /\ ended' = Append(ended, [file |-> config, status |-> status])
              /\ scratch' = IF status = 0 /\ input.clean THEN {} ELSE Written(sections)
        BY <1>12 DEF ExecuteTest
    <2>2. pc = "test" /\ runLog' = runLog /\ pc' = "run"
        BY <1>12 DEF ExecuteTest
    <2> DEFINE n == Len(ended) + 1
    <2>3. /\ DOMAIN ended' = 1 .. n /\ n \in Nat /\ n > Len(ended)
          /\ \A k \in 1 .. Len(ended) : ended'[k] = ended[k]
          /\ ended'[n].status = status
        BY <1>1, <2>1
    <2>4. \A m \in 1 .. n : m = n \/ m \in 1 .. Len(ended)
        BY <1>2
    <2>5. \A m \in 1 .. Len(ended) : m < n
        BY <1>2
    <2> HIDE DEF n
    <2>6. ScratchRight'
        <3>1. CASE status = 0 /\ input.clean
            BY <2>1, <3>1 DEF ScratchRight
        <3>2. CASE ~(status = 0 /\ input.clean)
            <4>1. \A r \in scratch' :
                    /\ r[1] \in DOMAIN runLog'[r[2]]
                    /\ \A q \in scratch' : q[1] = r[1] => q = r
                    /\ r[2] = n \/ r \in scratch
                BY <1>11, <2>1, <2>2, <3>2 DEF n
            <4>2. ASSUME NEW r \in scratch', NEW m \in DOMAIN ended', input.clean,
                         ended'[m].status = 0
                  PROVE  m < r[2]
                <5>1. m \in 1 .. Len(ended) /\ ended[m].status = 0
                    BY <2>3, <2>4, <3>2, <4>2
                <5>2. CASE r[2] = n
                    BY <2>5, <5>1, <5>2
                <5>3. CASE r \in scratch
                    BY <1>1, <1>2, <4>2, <5>1, <5>3 DEF ScratchRight
                <5>. QED
                    BY <4>1, <5>2, <5>3
            <4>. QED
                BY <1>3, <4>1, <4>2 DEF ScratchRight
        <3>. QED
            BY <3>1, <3>2
    <2>. QED
        BY <2>2, <2>6 DEF Kept, TempRemoved, Final
<1>13. CASE ExecuteTestExits
    <2>1. /\ ended' = ended /\ tempDir' = FALSE /\ pc' = "exit" /\ pc = "test"
          /\ runLog' = runLog
        BY <1>13 DEF ExecuteTestExits, Leave
    <2>2. PICK sections \in SUBSET Writers : scratch' = Written(sections)
        BY <1>13 DEF ExecuteTestExits
    <2>3. \A r \in scratch' :
             /\ r[1] \in DOMAIN runLog'[r[2]]
             /\ \A q \in scratch' : q[1] = r[1] => q = r
             /\ r[2] = Len(ended) + 1 \/ r \in scratch
        BY <1>11, <2>1, <2>2
    <2>4. ASSUME NEW r \in scratch', NEW m \in DOMAIN ended, input.clean, ended[m].status = 0
          PROVE  m < r[2]
        <3>1. CASE r[2] = Len(ended) + 1
            BY <1>2, <3>1
        <3>2. CASE r \in scratch
            BY <1>1, <2>4, <3>2 DEF ScratchRight
        <3>. QED
            BY <2>3, <3>1, <3>2
    <2>5. ScratchRight'
        BY <1>3, <2>1, <2>3, <2>4 DEF ScratchRight
    <2>. QED
        BY <2>1, <2>5 DEF Kept, TempRemoved
<1>14. CASE Finish
    <2>1. /\ UNCHANGED <<ended, scratch, runLog>> /\ tempDir' = FALSE
          /\ pc' \in {"failed", "passed"}
        BY <1>14 DEF Finish, Leave
    <2>. QED
        BY <1>4, <2>1 DEF Kept, TempRemoved
<1>15. CASE UNCHANGED vars
    BY <1>1, <1>4, <1>15 DEF vars, Kept, TempRemoved
<1>. QED
    BY <1>6, <1>7, <1>8, <1>9, <1>10, <1>12, <1>13, <1>14, <1>15 DEF Next, Work, Over

LEMMA SpecInv == Spec => []CombinatorialInv
<1>1. CombinatorialInv /\ [Next]_vars => CombinatorialInv'
    <2>1. CombinatorialInv /\ [Next]_vars => Types'
        BY StepTypes DEF CombinatorialInv
    <2>. QED
        BY <2>1, StepMadeUp, StepOrdered, StepKept DEF CombinatorialInv
<1>. QED
    BY InitInv, <1>1, PTL DEF Spec

\* All combinations of the sections and the items of the lists are made, each
\* of them once if no list has an item twice, and they are run one by one, with
\* nothing of the one before (createIniLog, configNewTest).
THEOREM SpecCombinationsRight == Spec => []CombinationsRight
BY SpecInv, InvCombinationsRight, PTL

\* However mtt ends, its status is that of all the combinations, what is in the
\* scratch directory is of one combination each, with clean_after of none before
\* the last that passed, and the temporary directory is not there (execute).
THEOREM SpecOutcome == Spec => []Outcome
BY SpecInv, InvOutcome, PTL
=============================================================================
