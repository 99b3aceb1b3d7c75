----------------------------- MODULE BuildProofs -----------------------------
(* Proofs about the sections that provision, build and run, for any requests, *)
(* any number of them, failures and exceptions anywhere, and mtt killed any   *)
(* number of times.                                                           *)
EXTENDS Build, WellFoundedInduction, TLAPS

(* Environment modules: the types of what the operations leave.              *)

\* The lists of options and of records.
LEMMA SwapFacts ==
    ASSUME NEW ms \in Pairs
    PROVE  /\ ms \in Seq(Module)
           /\ ms # None => ms[1] \in Module /\ ms[2] \in Module /\ Len(ms) = 2
                           /\ DOMAIN ms = {1, 2} /\ ms = <<ms[1], ms[2]>>
<1>1. CASE ms = None
    BY <1>1 DEF None
<1>2. CASE ms \in Module \X Module
    <2>1. PICK m \in Module, n \in Module : ms = <<m, n>>
        BY <1>2
    <2>2. <<m, n>> \in Seq(Module) /\ Len(<<m, n>>) = 2
        OBVIOUS
    <2>. QED
        BY <2>1, <2>2
<1>. QED
    BY <1>1, <1>2 DEF Pairs

\* The modules of a list are modules.
LEMMA ElemsType == ASSUME NEW ms \in Seq(Module) PROVE Elems(ms) \subseteq Module
BY DEF Elems

\* An operation changes what is loaded, and nothing else.
LEMMA EffectType ==
    ASSUME NEW op \in Operations, NEW e, IsEnv(e), NEW ms \in Seq(Module),
           op = "swap" => ms \in Pairs \ {None}, NEW D \in SUBSET Elems(ms)
    PROVE  /\ IsEnv(Effect(op, e, ms, D))
           /\ Effect(op, e, ms, D).recorded = e.recorded
           /\ Effect(op, e, ms, D).muted = e.muted
<1>1. D \subseteq Module
    BY ElemsType
<1>2. op = "swap" => ms[1] \in Module /\ ms[2] \in Module
    BY SwapFacts
<1>3. e.loaded \subseteq Module /\ e \in ModuleEnv
    BY DEF IsEnv, ModuleEnv
<1>4. CASE op = "load"
    <2>1. Effect(op, e, ms, D) = [e EXCEPT !.loaded = @ \cup D]
        BY <1>4 DEF Effect
    <2>. QED
        BY <1>1, <1>3, <2>1 DEF IsEnv, ModuleEnv
<1>5. CASE op = "unload"
    <2>1. Effect(op, e, ms, D) = [e EXCEPT !.loaded = @ \ D]
        BY <1>5 DEF Effect
    <2>. QED
        BY <1>3, <2>1 DEF IsEnv, ModuleEnv
<1>6. CASE op = "swap"
    <2>1. Effect(op, e, ms, D) =
              [e EXCEPT !.loaded = IF D = {} THEN @ ELSE (@ \ {ms[1]}) \cup {ms[2]}]
        BY <1>6 DEF Effect
    <2>. QED
        BY <1>2, <1>3, <1>6, <2>1 DEF IsEnv, ModuleEnv
<1>. QED
    BY <1>4, <1>5, <1>6 DEF Operations

\* A call keeps the records, and ends with a status.
LEMMA CallType ==
    ASSUME NEW op \in Operations, NEW e, IsEnv(e), NEW ms \in Seq(Module),
           op = "swap" => ms \in Pairs \ {None}, NEW o \in Call(op, e, ms)
    PROVE  /\ o = <<o[1], o[2]>> /\ IsEnv(o[1]) /\ o[2] \in {0, 1}
           /\ o[1].recorded = e.recorded
<1>1. CASE o = <<e, 1>>
    BY <1>1
<1>2. CASE o = <<Effect(op, e, ms, Elems(ms)), 0>>
    BY <1>2, EffectType
<1>3. ASSUME NEW D \in Parts(op, ms), o = <<Effect(op, e, ms, D), 1>>
      PROVE  o = <<o[1], o[2]>> /\ IsEnv(o[1]) /\ o[2] \in {0, 1} /\ o[1].recorded = e.recorded
    <2>1. D \in SUBSET Elems(ms)
        BY <1>3 DEF Parts
    <2>. QED
        BY <1>3, <2>1, EffectType
<1>4. ASSUME NEW b \in Broken(op, e, ms), o = <<b, 1>>
      PROVE  o = <<o[1], o[2]>> /\ IsEnv(o[1]) /\ o[2] \in {0, 1} /\ o[1].recorded = e.recorded
    <2>1. PICK D \in SUBSET Elems(ms) : b = [Effect(op, e, ms, D) EXCEPT !.muted = TRUE]
        <3>1. CASE op = "swap"
            BY <3>1 DEF Broken
        <3>2. CASE op # "swap"
            <4>1. \A k \in DOMAIN ms : Elems(SubSeq(ms, 1, k - 1)) \subseteq Elems(ms)
                <5>1. ASSUME NEW k \in DOMAIN ms, NEW i \in DOMAIN SubSeq(ms, 1, k - 1)
                      PROVE  i \in DOMAIN ms /\ SubSeq(ms, 1, k - 1)[i] = ms[i]
                    <6>1. k \in Nat /\ k <= Len(ms) /\ Len(ms) \in Nat /\ DOMAIN ms = 1 .. Len(ms)
                        OBVIOUS
                    <6>2. DOMAIN SubSeq(ms, 1, k - 1) = 1 .. k - 1
                        BY <6>1
                    <6>. QED
                        BY <6>1, <6>2
                <5>. QED
                    BY <5>1 DEF Elems
            <4>. QED
                BY <3>2, <4>1 DEF Broken
        <3>. QED
            BY <3>1, <3>2
    <2>2. IsEnv(Effect(op, e, ms, D)) /\ Effect(op, e, ms, D).recorded = e.recorded
        BY EffectType
    <2>3. IsEnv(b) /\ b.recorded = e.recorded
        BY <2>1, <2>2 DEF IsEnv, ModuleEnv
    <2>. QED
        BY <1>4, <2>3
<1>. QED
    BY <1>1, <1>2, <1>3, <1>4 DEF Call
\* One of the three parts of applyModules.
LEMMA ApplyOneType ==
    ASSUME NEW op \in Operations, NEW s \in Section, NEW ms \in Seq(Module),
           op = "swap" => ms \in Pairs, NEW o, IsEnv(o[1]), o[2] \in {0, 1},
           NEW q \in ApplyOne(op, s, ms, o)
    PROVE  IsEnv(q[1]) /\ q[2] \in {0, 1}
<1>1. CASE ms = None
    BY <1>1 DEF ApplyOne
<1>2. CASE ms # None
    <2>1. PICK c \in Call(op, o[1], ms) :
              q = IF c[2] = 0 THEN <<[c[1] EXCEPT !.recorded[op][s] = ms], 0>> ELSE c
        BY <1>2 DEF ApplyOne
    <2>2. IsEnv(c[1]) /\ c[2] \in {0, 1}
        BY <1>2, CallType
    <2>3. IsEnv([c[1] EXCEPT !.recorded[op][s] = ms])
        BY <2>2 DEF IsEnv, ModuleEnv, Operations
    <2>. QED
        BY <2>1, <2>2, <2>3
<1>. QED
    BY <1>1, <1>2

\* applyModules keeps the types.
LEMMA ApplyType ==
    ASSUME NEW s \in Section, NEW m, IsOptions(m), NEW e, IsEnv(e),
           NEW o \in ApplyModules(s, m, e)
    PROVE  IsEnv(o[1]) /\ o[2] \in {0, 1}
<1>1. /\ m["unload"] \in Seq(Module) /\ m["load"] \in Seq(Module)
      /\ m["swap"] \in Seq(Module) /\ m["swap"] \in Pairs
    BY DEF IsOptions, ModuleOptions, Operations
<1>2. PICK p \in ApplyOne("unload", s, m["unload"], <<e, 0>>) :
          \E q \in ApplyOne("load", s, m["load"], p) : o \in ApplyOne("swap", s, m["swap"], q)
    BY DEF ApplyModules
<1>3. PICK q \in ApplyOne("load", s, m["load"], p) : o \in ApplyOne("swap", s, m["swap"], q)
    BY <1>2
<1>4. IsEnv(p[1]) /\ p[2] \in {0, 1}
    BY <1>1, ApplyOneType DEF Operations
<1>5. IsEnv(q[1]) /\ q[2] \in {0, 1}
    BY <1>1, <1>4, ApplyOneType DEF Operations
<1>. QED
    BY <1>1, <1>3, <1>5, ApplyOneType DEF Operations

\* The list that mods.reverse() leaves.
LEMMA BackwardsType ==
    ASSUME NEW ms \in Pairs, ms # None
    PROVE  /\ Backwards(ms) \in Pairs \ {None}
           /\ Backwards(ms)[1] = ms[2] /\ Backwards(ms)[2] = ms[1]
<1>1. /\ ms[1] \in Module /\ ms[2] \in Module /\ Len(ms) = 2 /\ DOMAIN ms = {1, 2}
    BY SwapFacts
<1>2. Backwards(ms) = [i \in {1, 2} |-> ms[3 - i]]
    BY <1>1 DEF Backwards
<1>3. Backwards(ms) = <<ms[2], ms[1]>>
    BY <1>1, <1>2
<1>. QED
    BY <1>1, <1>3 DEF Pairs, None

\* One of the three parts of revertModules.
LEMMA RevertOneType ==
    ASSUME NEW op \in Operations, NEW inverse \in Operations,
           op = "swap" <=> inverse = "swap",
           NEW s \in Section, NEW o, IsEnv(o[1]), o[2] \in {0, 1},
           NEW q \in RevertOne(op, inverse, s, o)
    PROVE  IsEnv(q[1]) /\ q[2] \in {0, 1}
<1> DEFINE ms == o[1].recorded[op][s]
           to == IF op = "swap" THEN Backwards(ms) ELSE ms
<1>1. ms \in Seq(Module) /\ (op = "swap" => ms \in Pairs)
    BY DEF IsEnv, ModuleEnv
<1>2. CASE ms = None
    BY <1>2 DEF RevertOne
<1>3. CASE ms # None
    <2>1. to \in Seq(Module) /\ (op = "swap" => to \in Pairs \ {None})
        BY <1>1, <1>3, BackwardsType, SwapFacts
    <2>2. IsEnv([o[1] EXCEPT !.recorded[op][s] = to])
        BY <2>1 DEF IsEnv, ModuleEnv, Operations
    <2>3. q \in Call(inverse, [o[1] EXCEPT !.recorded[op][s] = to], to)
        BY <1>3 DEF RevertOne
    <2>. QED
        BY <2>1, <2>2, <2>3, CallType
<1>. QED
    BY <1>2, <1>3

\* revertModules keeps the types.
LEMMA RevertType ==
    ASSUME NEW s \in Section, NEW e, IsEnv(e), NEW o \in RevertModules(s, e)
    PROVE  IsEnv(o[1]) /\ o[2] \in {0, 1}
<1>1. PICK p \in RevertOne("swap", "swap", s, <<e, 0>>) :
          \E q \in RevertOne("load", "unload", s, p) : o \in RevertOne("unload", "load", s, q)
    BY DEF RevertModules
<1>2. PICK q \in RevertOne("load", "unload", s, p) : o \in RevertOne("unload", "load", s, q)
    BY <1>1
<1>3. IsEnv(p[1]) /\ p[2] \in {0, 1}
    BY RevertOneType DEF Operations
<1>4. IsEnv(q[1]) /\ q[2] \in {0, 1}
    BY <1>3, RevertOneType DEF Operations
<1>. QED
    BY <1>2, <1>4, RevertOneType DEF Operations
-----------------------------------------------------------------------------
(* Counting.                                                                 *)

\* Of some numbers there is a least one.
LEMMA Least ==
    ASSUME NEW T \in SUBSET Nat, T # {}
    PROVE  \E x \in T : \A y \in T : x <= y
<1>1. IsWellFoundedOn(OpToRel(<, Nat), Nat)
    BY NatLessThanWellFounded
<1>2. PICK x \in T : \A y \in T : ~(<<y, x>> \in OpToRel(<, Nat))
    BY <1>1, WFMin
<1>3. ASSUME NEW y \in T PROVE x <= y
    <2>1. x \in Nat /\ y \in Nat
        OBVIOUS
    <2>2. y < x => <<y, x>> \in OpToRel(<, Nat)
        BY <2>1 DEF OpToRel
    <2>3. ~(y < x)
        BY <1>2, <2>2
    <2>. QED
        BY <2>1, <2>3
<1>. QED
    BY <1>3

\* What is so of none, and of one more whenever it is so of some, is so of all
\* up to a bound.
LEMMA Induction ==
    ASSUME NEW n \in Nat, NEW T \in SUBSET (0 .. n), 0 \in T,
           \A i \in 0 .. n : i \in T /\ i < n => i + 1 \in T
    PROVE  T = 0 .. n
<1> SUFFICES ASSUME T # 0 .. n PROVE FALSE
    OBVIOUS
<1> DEFINE Rest == (0 .. n) \ T
<1>1. Rest \in SUBSET Nat /\ Rest # {}
    <2>1. Rest \in SUBSET Nat
        OBVIOUS
    <2>2. PICK y : ~(y \in T <=> y \in 0 .. n)
        BY Zenon
    <2>3. y \in Rest
        BY <2>2, Zenon
    <2>. QED
        BY <2>1, <2>3
<1>2. PICK x \in Rest : \A y \in Rest : x <= y
    BY <1>1, Least
<1>3. x \in Nat /\ x # 0 /\ x <= n
    BY <1>2
<1>4. x - 1 \in 0 .. n /\ x - 1 \notin Rest /\ x - 1 < n
    BY <1>2, <1>3
<1>5. x - 1 + 1 \in T
    BY <1>4
<1>. QED
    BY <1>2, <1>3, <1>5
-----------------------------------------------------------------------------
(* The members of a list that are in a set                                   *)

\* Those of a list up to each of its places.
UpTo(list, X) ==
    LET upTo[i \in 0 .. Len(list)] ==
            IF i = 0 THEN <<>>
            ELSE IF list[i] \in X THEN Append(upTo[i - 1], list[i]) ELSE upTo[i - 1]
    IN  upTo

Extends(g, list, X, n) ==
    g = [i \in 0 .. n |->
            IF i = 0 THEN <<>>
            ELSE IF list[i] \in X THEN Append(g[i - 1], list[i]) ELSE g[i - 1]]

\* There is such a function.
LEMMA UpToExists ==
    ASSUME NEW list, Len(list) \in Nat, NEW X
    PROVE  \E g : Extends(g, list, X, Len(list))
<1> DEFINE N == Len(list)
           T == {n \in 0 .. N : \E g : Extends(g, list, X, n)}
<1>1. 0 \in T
    <2>1. Extends([i \in 0 .. 0 |-> <<>>], list, X, 0)
        BY DEF Extends
    <2>. QED
        BY <2>1
<1>2. ASSUME NEW n \in 0 .. N, n \in T, n < N PROVE n + 1 \in T
    <2>1. PICK g : Extends(g, list, X, n)
        BY <1>2
    <2> DEFINE next == IF list[n + 1] \in X THEN Append(g[n], list[n + 1]) ELSE g[n]
               h == [i \in 0 .. n + 1 |-> IF i = n + 1 THEN next ELSE g[i]]
    <2>2. h[n] = g[n] /\ n + 1 \in 0 .. n + 1 /\ n + 1 # 0 /\ n + 1 - 1 = n
        OBVIOUS
    <2>3. ASSUME NEW i \in 0 .. n + 1
          PROVE  h[i] = IF i = 0 THEN <<>>
                        ELSE IF list[i] \in X THEN Append(h[i - 1], list[i]) ELSE h[i - 1]
        <3>1. CASE i = n + 1
            BY <2>2, <3>1
        <3>2. CASE i # n + 1
            <4>1. i \in 0 .. n /\ h[i] = g[i]
                BY <3>2
            <4>2. i # 0 => i - 1 \in 0 .. n + 1 /\ i - 1 # n + 1 /\ h[i - 1] = g[i - 1]
                BY <4>1
            <4>3. g[i] = IF i = 0 THEN <<>>
                         ELSE IF list[i] \in X THEN Append(g[i - 1], list[i]) ELSE g[i - 1]
                BY <2>1, <4>1 DEF Extends
            <4> HIDE DEF h
            <4>. QED
                BY <4>1, <4>2, <4>3
        <3>. QED
            BY <3>1, <3>2
    <2>4. h = [i \in 0 .. n + 1 |-> h[i]]
        OBVIOUS
    <2> HIDE DEF h
    <2>5. Extends(h, list, X, n + 1)
        BY <2>3, <2>4 DEF Extends
    <2>. QED
        BY <2>5, <1>2
<1>3. T = 0 .. N
    <2>1. N \in Nat /\ T \in SUBSET (0 .. N)
        OBVIOUS
    <2> HIDE DEF T
    <2>. QED
        BY <1>1, <1>2, <2>1, Induction
<1>4. N \in T
    BY <1>3
<1>. QED
    BY <1>4

LEMMA UpToFacts ==
    ASSUME NEW S, NEW list \in Seq(S), NEW X
    PROVE  /\ Those(list, X) = UpTo(list, X)[Len(list)]
           /\ UpTo(list, X)[0] = <<>>
           /\ \A i \in 1 .. Len(list) :
                 /\ list[i] \in X => UpTo(list, X)[i] = Append(UpTo(list, X)[i - 1], list[i])
                 /\ list[i] \notin X => UpTo(list, X)[i] = UpTo(list, X)[i - 1]
<1>1. Those(list, X) = UpTo(list, X)[Len(list)]
    BY DEF Those, UpTo
<1>2. Len(list) \in Nat
    OBVIOUS
<1>3. UpTo(list, X) = CHOOSE g : Extends(g, list, X, Len(list))
    BY DEF UpTo, Extends
<1>4. Extends(UpTo(list, X), list, X, Len(list))
    BY <1>2, <1>3, UpToExists
<1> DEFINE g == UpTo(list, X)
<1>5. \A i \in 0 .. Len(list) :
          g[i] = IF i = 0 THEN <<>>
                 ELSE IF list[i] \in X THEN Append(g[i - 1], list[i]) ELSE g[i - 1]
    BY <1>4 DEF Extends
<1> HIDE DEF g
<1>6. g[0] = <<>>
    BY <1>2, <1>5
<1>7. ASSUME NEW i \in 1 .. Len(list)
      PROVE  /\ list[i] \in X => g[i] = Append(g[i - 1], list[i])
             /\ list[i] \notin X => g[i] = g[i - 1]
    <2>1. i \in 0 .. Len(list) /\ i # 0
        BY <1>2
    <2>. QED
        BY <1>5, <2>1
<1>. QED
    BY <1>1, <1>6, <1>7 DEF g

\* They are all there, and nothing else is.
LEMMA UpToType ==
    ASSUME NEW S, NEW list \in Seq(S), NEW X
    PROVE  \A i \in 0 .. Len(list) :
               /\ UpTo(list, X)[i] \in Seq(S \cap X)
               /\ \A j \in 1 .. i : list[j] \in X => list[j] \in Elems(UpTo(list, X)[i])
<1> DEFINE N == Len(list)
           g == UpTo(list, X)
           T == {n \in 0 .. N : /\ g[n] \in Seq(S \cap X)
                                /\ \A j \in 1 .. n : list[j] \in X => list[j] \in Elems(g[n])}
<1>1. 0 \in T
    <2>1. g[0] = <<>>
        BY UpToFacts
    <2> HIDE DEF g
    <2>2. 0 \in 0 .. N /\ g[0] \in Seq(S \cap X) /\ \A j \in 1 .. 0 : FALSE
        BY <2>1
    <2>. QED
        BY <2>2
<1>2. ASSUME NEW n \in 0 .. N, n \in T, n < N PROVE n + 1 \in T
    <2>1. n + 1 \in 1 .. N /\ n + 1 \in 0 .. N /\ n + 1 - 1 = n /\ list[n + 1] \in S
        BY <1>2
    <2>2. /\ list[n + 1] \in X => g[n + 1] = Append(g[n], list[n + 1])
          /\ list[n + 1] \notin X => g[n + 1] = g[n]
        BY <2>1, UpToFacts
    <2>3. g[n] \in Seq(S \cap X)
        BY <1>2
    <2>4. \A j \in 1 .. n : list[j] \in X => list[j] \in Elems(g[n])
        BY <1>2
    <2> HIDE DEF g
    <2>5. g[n + 1] \in Seq(S \cap X)
        <3>1. CASE list[n + 1] \in X
            <4>1. list[n + 1] \in S \cap X
                BY <2>1, <3>1
            <4>2. g[n + 1] = Append(g[n], list[n + 1])
                BY <2>2, <3>1
            <4>. QED
                BY <2>3, <4>1, <4>2
        <3>2. CASE list[n + 1] \notin X
            BY <2>2, <2>3, <3>2
        <3>. QED
            BY <3>1, <3>2
    <2>6. ASSUME NEW j \in 1 .. n + 1, list[j] \in X PROVE list[j] \in Elems(g[n + 1])
        <3>1. CASE list[n + 1] \notin X
            BY <2>2, <2>4, <2>6, <3>1
        <3>2. CASE list[n + 1] \in X
            <4>1. g[n + 1] = Append(g[n], list[n + 1])
                BY <2>2, <3>2
            <4>2. CASE j = n + 1
                <5>1. Len(g[n]) + 1 \in DOMAIN g[n + 1] /\ g[n + 1][Len(g[n]) + 1] = list[j]
                    BY <2>1, <2>3, <4>1, <4>2
                <5>. QED
                    BY <5>1 DEF Elems
            <4>3. CASE j # n + 1
                <5>1. list[j] \in Elems(g[n])
                    BY <2>4, <2>6, <4>3
                <5>2. PICK k \in DOMAIN g[n] : list[j] = g[n][k]
                    BY <5>1 DEF Elems
                <5>3. k \in DOMAIN g[n + 1] /\ g[n + 1][k] = g[n][k]
                    BY <2>3, <4>1, <5>2
                <5>. QED
                    BY <5>2, <5>3 DEF Elems
            <4>. QED
                BY <4>2, <4>3
        <3>. QED
            BY <3>1, <3>2
    <2>. QED
        BY <2>1, <2>5, <2>6
<1>3. T = 0 .. N
    <2>1. N \in Nat /\ T \in SUBSET (0 .. N)
        OBVIOUS
    <2> HIDE DEF T
    <2>. QED
        BY <1>1, <1>2, <2>1, Induction
<1>. QED
    BY <1>3

\* A member is in the set or it is not.
LEMMA UpToBoth ==
    ASSUME NEW S, NEW list \in Seq(S), NEW X
    PROVE  \A i \in 0 .. Len(list) : Len(UpTo(list, X)[i]) + Len(UpTo(list, S \ X)[i]) = i
<1> DEFINE N == Len(list)
           g == UpTo(list, X)
           h == UpTo(list, S \ X)
           T == {n \in 0 .. N : Len(g[n]) + Len(h[n]) = n}
<1>1. 0 \in T
    <2>1. g[0] = <<>> /\ h[0] = <<>>
        BY UpToFacts
    <2> HIDE DEF g, h
    <2>2. Len(g[0]) = 0 /\ Len(h[0]) = 0
        BY <2>1
    <2>3. Len(g[0]) + Len(h[0]) = 0
        BY <2>2
    <2>4. 0 \in 0 .. N
        OBVIOUS
    <2>. QED
        BY <2>3, <2>4
<1>2. ASSUME NEW n \in 0 .. N, n \in T, n < N PROVE n + 1 \in T
    <2>1. n + 1 \in 1 .. N /\ n + 1 \in 0 .. N /\ n + 1 - 1 = n /\ list[n + 1] \in S
        BY <1>2
    <2>2. /\ list[n + 1] \in X => g[n + 1] = Append(g[n], list[n + 1])
          /\ list[n + 1] \notin X => g[n + 1] = g[n]
        BY <2>1, UpToFacts
    <2>3. /\ list[n + 1] \in S \ X => h[n + 1] = Append(h[n], list[n + 1])
          /\ list[n + 1] \notin S \ X => h[n + 1] = h[n]
        BY <2>1, UpToFacts
    <2>4. g[n] \in Seq(S \cap X) /\ h[n] \in Seq(S \cap (S \ X))
        BY UpToType
    <2>5. Len(g[n]) + Len(h[n]) = n
        BY <1>2
    <2> HIDE DEF g, h
    <2>6. Len(g[n]) \in Nat /\ Len(h[n]) \in Nat
        BY <2>4
    <2>7. CASE list[n + 1] \in X
        <3>1. g[n + 1] = Append(g[n], list[n + 1]) /\ h[n + 1] = h[n]
            BY <2>1, <2>2, <2>3, <2>7
        <3>2. Len(g[n + 1]) = Len(g[n]) + 1
            BY <2>4, <3>1
        <3>3. Len(g[n + 1]) + Len(h[n + 1]) = n + 1
            <4> DEFINE a == Len(g[n])
                       b == Len(h[n])
            <4>1. Len(g[n + 1]) + Len(h[n + 1]) = (a + 1) + b
                BY <3>1, <3>2
            <4>2. a \in Nat /\ b \in Nat /\ a + b = n
                BY <2>5, <2>6, Zenon
            <4> HIDE DEF a, b
            <4>3. (a + 1) + b = n + 1
                BY <4>2
            <4>. QED
                BY <4>1, <4>3
        <3>. QED
            BY <2>1, <3>3
    <2>8. CASE list[n + 1] \notin X
        <3>1. h[n + 1] = Append(h[n], list[n + 1]) /\ g[n + 1] = g[n]
            BY <2>1, <2>2, <2>3, <2>8
        <3>2. Len(h[n + 1]) = Len(h[n]) + 1
            BY <2>4, <3>1
        <3>3. Len(g[n + 1]) + Len(h[n + 1]) = n + 1
            <4> DEFINE a == Len(g[n])
                       b == Len(h[n])
            <4>1. Len(g[n + 1]) + Len(h[n + 1]) = a + (b + 1)
                BY <3>1, <3>2
            <4>2. a \in Nat /\ b \in Nat /\ a + b = n
                BY <2>5, <2>6, Zenon
            <4> HIDE DEF a, b
            <4>3. a + (b + 1) = n + 1
                BY <4>2
            <4>. QED
                BY <4>1, <4>3
        <3>. QED
            BY <2>1, <3>3
    <2>. QED
        BY <2>7, <2>8
<1>3. T = 0 .. N
    <2>1. N \in Nat
        OBVIOUS
    <2>2. T \in SUBSET (0 .. N)
        BY Zenon
    <2> HIDE DEF T
    <2>. QED
        BY <1>1, <1>2, <2>1, <2>2, Induction
<1>. QED
    BY <1>3

\* Those of a list.
LEMMA ThoseFacts ==
    ASSUME NEW S, NEW list \in Seq(S), NEW X
    PROVE  /\ Those(list, X) \in Seq(S \cap X)
           /\ Those(list, X) \in Seq(S)
           /\ Elems(list) \cap X \subseteq Elems(Those(list, X))
           /\ Len(Those(list, X)) + Len(Those(list, S \ X)) = Len(list)
<1>1. Len(list) \in 0 .. Len(list) /\ DOMAIN list = 1 .. Len(list)
    OBVIOUS
<1>2. /\ Those(list, X) = UpTo(list, X)[Len(list)]
      /\ Those(list, S \ X) = UpTo(list, S \ X)[Len(list)]
    BY UpToFacts
<1>3. Those(list, X) \in Seq(S \cap X)
    BY <1>1, <1>2, UpToType
<1>4. Those(list, X) \in Seq(S)
    BY <1>3
<1>5. \A j \in 1 .. Len(list) : list[j] \in X => list[j] \in Elems(Those(list, X))
    BY <1>1, <1>2, UpToType
<1>6. Elems(list) \cap X \subseteq Elems(Those(list, X))
    BY <1>1, <1>5 DEF Elems
<1>7. Len(Those(list, X)) + Len(Those(list, S \ X)) = Len(list)
    <2>1. Len(UpTo(list, X)[Len(list)]) + Len(UpTo(list, S \ X)[Len(list)]) = Len(list)
        BY <1>1, UpToBoth
    <2>. QED
        BY <1>2, <2>1
<1>. QED
    BY <1>3, <1>4, <1>6, <1>7
-----------------------------------------------------------------------------
(* Steps                                                                     *)

\* What a plugin does, and an exception that meets it.
Inner == Execute \/ Strike

\* Whoever may have been there.
StageStart == StageBegin /\ loaded' = <<>> /\ status' = {} /\ result' = 0
                         /\ UNCHANGED <<nodeVars, harassed, hosts, history>>
StagePass == StageSkip /\ UNCHANGED <<loaded, shellVars, hostVars, history>>

LEMMA NextCases ==
    ASSUME Next
    PROVE  \/ Execute /\ struck' = (struck \/ pc' = "raising") /\ Ends
           \/ Strike /\ struck' = TRUE /\ UNCHANGED latest
           \/ StageStart \/ StagePass \/ Restart
BY Zenon DEF Next, Step, StageStart, StagePass

\* Each step of a plugin, with what belongs to other plugins.
OfAuto == UNCHANGED <<shellVars, hostVars>>
OfShell == UNCHANGED <<loaded, hostVars>>
OfUnit == UNCHANGED <<loaded, shellVars, hostVars>>
OfNodes == UNCHANGED loaded

LEMMA ExecuteCases ==
    ASSUME Execute
    PROVE  \/ TestBuildStart /\ OfAuto
           \/ TestBuildEnd /\ OfAuto
           \/ AutoStart /\ OfAuto
           \/ AutoMiddleware /\ OfAuto
           \/ AutoPrefix /\ OfAuto
           \/ Autogen /\ OfAuto
           \/ Configure /\ OfAuto
           \/ SetEnvars /\ OfAuto
           \/ MakeClean /\ OfAuto
           \/ MakeAll /\ OfAuto
           \/ MakeInstall /\ OfAuto
           \/ Finish /\ OfAuto
           \/ ShellStart /\ OfShell
           \/ ShellMiddleware /\ OfShell
           \/ ShellMove /\ OfShell
           \/ ShellAllocate /\ OfShell
           \/ ShellHarass /\ OfShell
           \/ ShellRun /\ OfShell
           \/ ShellRelease /\ OfShell
           \/ ShellAbandon /\ OfShell
           \/ ShellFailed /\ OfShell
           \/ ShellPassed /\ OfShell
           \/ UnitStart /\ OfUnit
           \/ UnitPaths /\ OfUnit
           \/ UnitNeeds /\ OfUnit
           \/ UnitModules /\ OfUnit
           \/ UnitTests /\ OfUnit
           \/ UnitRevert /\ OfUnit
           \/ WWulf3Start /\ OfNodes
           \/ WWulf3Allocate /\ OfNodes
           \/ WWulf3Provision /\ OfNodes
           \/ WWulf3Cycle /\ OfNodes
           \/ HostStart /\ OfNodes
           \/ HostAsk /\ OfNodes
           \/ HostWrite /\ OfNodes
           \/ Deactivate /\ OfShell
BY Zenon DEF Execute, AutoNext, ShellNext, UnitNext, ProvisionNext, OfAuto, OfShell, OfUnit,
       OfNodes

\* Where each variable can change.
Frames ==
    /\ UNCHANGED <<cur, entry, left, logs, dry>>
    /\ pc \notin {"start", "middleware", "finish", "unwind", "paths", "verdict", "revert"}
          => paths' = paths
    /\ pc \notin {"clean", "all", "install", "move", "run", "ask"} => built' = built
    /\ pc # "finish" => complete' = complete
    /\ pc \notin {"autogen", "configure", "envars", "clean", "all", "finish"}
          => envars' = envars /\ loaded' = loaded
    /\ pc \notin {"start", "middleware", "needs"} => mods' = mods
    /\ pc # "middleware" => todo' = todo
    /\ pc \notin {"start", "middleware", "paths"} => save' = save
    /\ pc \notin {"move", "allocate", "release", "abandon", "provision", "cycle", "raising"}
          => UNCHANGED <<allocated, held, excused>>
    /\ pc # "raising" /\ ~At("Shell", "start") => shell' = shell
    /\ pc \notin {"harass", "run"} => harassed' = harassed
    /\ pc # "run" => result' = result
    /\ pc # "write" => hosts' = hosts
    /\ pc # "ask" => status' = status

\* What the steps of Autotools share.
LEMMA StepFrame ==
           /\ StepFails => UNCHANGED <<cur, entry, left, logs, dry, paths, mods, todo, save>>
           /\ \A p : StepDone(p) =>
                 UNCHANGED <<cur, entry, left, logs, dry, paths, mods, todo, save, envars, loaded,
                             env, log>> /\ pc' = p
           /\ UNCHANGED found <=> UNCHANGED <<logs, dry>>
           /\ UNCHANGED wanted <=> UNCHANGED <<mods, todo, save>>
           /\ UNCHANGED onDisk <=> UNCHANGED <<built, complete>>
           /\ OfAuto <=> UNCHANGED <<allocated, held, shell, excused, harassed, result, hosts,
                                     status>>
<1>1. /\ UNCHANGED found <=> UNCHANGED <<logs, dry>>
      /\ UNCHANGED wanted <=> UNCHANGED <<mods, todo, save>>
      /\ UNCHANGED onDisk <=> UNCHANGED <<built, complete>>
      /\ OfAuto <=> UNCHANGED <<allocated, held, shell, excused, harassed, result, hosts, status>>
    BY DEF found, wanted, onDisk, OfAuto, shellVars, nodeVars, hostVars
<1>2. StepFails => UNCHANGED <<cur, entry, left, logs, dry, paths, mods, todo, save>>
    BY <1>1 DEF StepFails, Go
<1>3. \A p : StepDone(p) =>
          UNCHANGED <<cur, entry, left, logs, dry, paths, mods, todo, save, envars, loaded, env,
                      log>> /\ pc' = p
    BY <1>1 DEF StepDone, Go
<1>. QED
    BY <1>1, <1>2, <1>3

LEMMA FramesHold ==
    ASSUME Inner
    PROVE  Frames
<1>1. CASE TestBuildStart /\ OfAuto
    BY <1>1 DEF TestBuildStart, Frames, OfAuto, OfShell, OfUnit, OfNodes, stageVars, onDisk,
          found, wanted, autoVars, shellVars, nodeVars, hostVars, At, AutoAt, Go, Return, Fail,
          Throw, AutoFail, Leaves, Chdir, Apply
<1>2. CASE TestBuildEnd /\ OfAuto
    BY <1>2 DEF TestBuildEnd, Frames, OfAuto, OfShell, OfUnit, OfNodes, stageVars, onDisk,
          found, wanted, autoVars, shellVars, nodeVars, hostVars, At, AutoAt, Go, Return, Fail,
          Throw, AutoFail, Leaves, Chdir, Apply
<1>3. CASE AutoStart /\ OfAuto
    BY <1>3 DEF AutoStart, Frames, OfAuto, OfShell, OfUnit, OfNodes, stageVars, onDisk,
          found, wanted, autoVars, shellVars, nodeVars, hostVars, At, AutoAt, Go, Return, Fail,
          Throw, AutoFail, Leaves, Chdir, Apply
<1>4. CASE AutoMiddleware /\ OfAuto
    <2>1. pc = "middleware" /\ UNCHANGED <<cur, entry, left, logs, dry, built, complete, envars, loaded>>
        BY <1>4 DEF AutoMiddleware, PointTo, ApplyWanted, Apply, Go, Throw, stageVars, onDisk, found,
                     AutoAt, At
    <2>2. UNCHANGED <<allocated, held, shell, excused, harassed, result, hosts, status>>
        BY <1>4 DEF AutoMiddleware, OfAuto, OfShell, shellVars, nodeVars, hostVars
    <2>. QED
        BY <2>1, <2>2 DEF Frames, At
<1>5. CASE AutoPrefix /\ OfAuto
    BY <1>5 DEF AutoPrefix, Frames, OfAuto, OfShell, OfUnit, OfNodes, stageVars, onDisk,
          found, wanted, autoVars, shellVars, nodeVars, hostVars, At, AutoAt, Go, Return, Fail,
          Throw, AutoFail, Leaves, Chdir, Apply
<1>6. CASE Autogen /\ OfAuto
    <2>1. pc = "autogen" /\ UNCHANGED <<cur, entry, left, logs, dry, paths, mods, todo, save>>
        BY <1>6, StepFrame DEF Autogen, AutoAt
    <2>2. UNCHANGED <<allocated, held, shell, excused, harassed, result, hosts, status>>
        BY <1>6, StepFrame
    <2>3. UNCHANGED <<built, complete>>
        BY <1>6, StepFrame DEF Autogen
    <2>. QED
        BY <2>1, <2>2, <2>3 DEF Frames, At
<1>7. CASE Configure /\ OfAuto
    <2>1. pc = "configure" /\ UNCHANGED <<cur, entry, left, logs, dry, paths, mods, todo, save>>
        BY <1>7, StepFrame DEF Configure, AutoAt, AutoFail, Go
    <2>2. UNCHANGED <<allocated, held, shell, excused, harassed, result, hosts, status>>
        BY <1>7, StepFrame
    <2>3. UNCHANGED <<built, complete>>
        BY <1>7, StepFrame DEF Configure, AutoFail, Go
    <2>. QED
        BY <2>1, <2>2, <2>3 DEF Frames, At
<1>8. CASE SetEnvars /\ OfAuto
    <2>1. pc = "envars" /\ UNCHANGED <<cur, entry, left, logs, dry, paths, mods, todo, save>>
        BY <1>8, StepFrame DEF SetEnvars, AutoAt, Go
    <2>2. UNCHANGED <<allocated, held, shell, excused, harassed, result, hosts, status>>
        BY <1>8, StepFrame
    <2>3. UNCHANGED <<built, complete>>
        BY <1>8, StepFrame DEF SetEnvars, Go
    <2>. QED
        BY <2>1, <2>2, <2>3 DEF Frames, At
<1>9. CASE MakeClean /\ OfAuto
    <2>1. pc = "clean" /\ UNCHANGED <<cur, entry, left, logs, dry, paths, mods, todo, save>>
        BY <1>9, StepFrame DEF MakeClean, AutoAt
    <2>2. UNCHANGED <<allocated, held, shell, excused, harassed, result, hosts, status>>
        BY <1>9, StepFrame
    <2>3. complete' = complete
        BY <1>9, StepFrame DEF MakeClean
    <2>. QED
        BY <2>1, <2>2, <2>3 DEF Frames, At
<1>10. CASE MakeAll /\ OfAuto
    <2>1. pc = "all" /\ UNCHANGED <<cur, entry, left, logs, dry, paths, mods, todo, save>>
        BY <1>10, StepFrame DEF MakeAll, AutoAt
    <2>2. UNCHANGED <<allocated, held, shell, excused, harassed, result, hosts, status>>
        BY <1>10, StepFrame
    <2>3. complete' = complete
        BY <1>10, StepFrame DEF MakeAll
    <2>. QED
        BY <2>1, <2>2, <2>3 DEF Frames, At
<1>11. CASE MakeInstall /\ OfAuto
    <2>1. pc = "install" /\ UNCHANGED <<cur, entry, left, logs, dry, paths, mods, todo, save>>
        BY <1>11, StepFrame DEF MakeInstall, AutoAt, Go
    <2>2. UNCHANGED <<allocated, held, shell, excused, harassed, result, hosts, status>>
        BY <1>11, StepFrame
    <2>3. UNCHANGED <<complete, envars, loaded>>
        BY <1>11, StepFrame DEF MakeInstall, Go
    <2>. QED
        BY <2>1, <2>2, <2>3 DEF Frames, At
<1>12. CASE Finish /\ OfAuto
    <2>1. pc = "finish" /\ UNCHANGED <<cur, entry, left, logs, dry, mods, todo, save>>
        BY <1>12, StepFrame DEF Finish, AutoAt, Go
    <2>2. UNCHANGED <<allocated, held, shell, excused, harassed, result, hosts, status>>
        BY <1>12, StepFrame
    <2>3. built' = built
        BY <1>12, StepFrame DEF Finish, Go
    <2>. QED
        BY <2>1, <2>2, <2>3 DEF Frames, At
<1>13. CASE ShellStart /\ OfShell
    BY <1>13 DEF ShellStart, Frames, OfAuto, OfShell, OfUnit, OfNodes, stageVars, onDisk,
          found, wanted, autoVars, shellVars, nodeVars, hostVars, At, AutoAt, Go, Return, Fail,
          Throw, AutoFail, Leaves, Chdir, Apply
<1>14. CASE ShellMiddleware /\ OfShell
    <2>1. pc = "middleware" /\ UNCHANGED <<cur, entry, left, logs, dry, built, complete, envars, loaded>>
        BY <1>14 DEF ShellMiddleware, PointTo, ApplyWanted, Apply, Go, Throw, stageVars, onDisk, found,
                     AutoAt, At, OfShell
    <2>2. UNCHANGED <<allocated, held, shell, excused, harassed, result, hosts, status>>
        BY <1>14 DEF ShellMiddleware, OfAuto, OfShell, shellVars, nodeVars, hostVars
    <2>. QED
        BY <2>1, <2>2 DEF Frames, At
<1>15. CASE ShellMove /\ OfShell
    BY <1>15 DEF ShellMove, Frames, OfAuto, OfShell, OfUnit, OfNodes, stageVars, onDisk,
          found, wanted, autoVars, shellVars, nodeVars, hostVars, At, AutoAt, Go, Return, Fail,
          Throw, AutoFail, Leaves, Chdir, Apply
<1>16. CASE ShellAllocate /\ OfShell
    BY <1>16 DEF ShellAllocate, Frames, OfAuto, OfShell, OfUnit, OfNodes, stageVars, onDisk,
          found, wanted, autoVars, shellVars, nodeVars, hostVars, At, AutoAt, Go, Return, Fail,
          Throw, AutoFail, Leaves, Chdir, Apply
<1>17. CASE ShellHarass /\ OfShell
    BY <1>17 DEF ShellHarass, Frames, OfAuto, OfShell, OfUnit, OfNodes, stageVars, onDisk,
          found, wanted, autoVars, shellVars, nodeVars, hostVars, At, AutoAt, Go, Return, Fail,
          Throw, AutoFail, Leaves, Chdir, Apply
<1>18. CASE ShellRun /\ OfShell
    BY <1>18 DEF ShellRun, Frames, OfAuto, OfShell, OfUnit, OfNodes, stageVars, onDisk,
          found, wanted, autoVars, shellVars, nodeVars, hostVars, At, AutoAt, Go, Return, Fail,
          Throw, AutoFail, Leaves, Chdir, Apply
<1>19. CASE ShellRelease /\ OfShell
    BY <1>19 DEF ShellRelease, Deallocate, Returned, Refused, Frames, OfAuto, OfShell, OfUnit, OfNodes, stageVars, onDisk,
          found, wanted, autoVars, shellVars, nodeVars, hostVars, At, AutoAt, Go, Return, Fail,
          Throw, AutoFail, Leaves, Chdir, Apply
<1>20. CASE ShellAbandon /\ OfShell
    BY <1>20 DEF ShellAbandon, Frames, OfAuto, OfShell, OfUnit, OfNodes, stageVars, onDisk,
          found, wanted, autoVars, shellVars, nodeVars, hostVars, At, AutoAt, Go, Return, Fail,
          Throw, AutoFail, Leaves, Chdir, Apply
<1>21. CASE ShellFailed /\ OfShell
    BY <1>21 DEF ShellFailed, Frames, OfAuto, OfShell, OfUnit, OfNodes, stageVars, onDisk,
          found, wanted, autoVars, shellVars, nodeVars, hostVars, At, AutoAt, Go, Return, Fail,
          Throw, AutoFail, Leaves, Chdir, Apply
<1>22. CASE ShellPassed /\ OfShell
    BY <1>22 DEF ShellPassed, Frames, OfAuto, OfShell, OfUnit, OfNodes, stageVars, onDisk,
          found, wanted, autoVars, shellVars, nodeVars, hostVars, At, AutoAt, Go, Return, Fail,
          Throw, AutoFail, Leaves, Chdir, Apply
<1>23. CASE UnitStart /\ OfUnit
    BY <1>23 DEF UnitStart, Frames, OfAuto, OfShell, OfUnit, OfNodes, stageVars, onDisk,
          found, wanted, autoVars, shellVars, nodeVars, hostVars, At, AutoAt, Go, Return, Fail,
          Throw, AutoFail, Leaves, Chdir, Apply
<1>24. CASE UnitPaths /\ OfUnit
    BY <1>24 DEF UnitPaths, Frames, OfAuto, OfShell, OfUnit, OfNodes, stageVars, onDisk,
          found, wanted, autoVars, shellVars, nodeVars, hostVars, At, AutoAt, Go, Return, Fail,
          Throw, AutoFail, Leaves, Chdir, Apply
<1>25. CASE UnitNeeds /\ OfUnit
    BY <1>25 DEF UnitNeeds, Frames, OfAuto, OfShell, OfUnit, OfNodes, stageVars, onDisk,
          found, wanted, autoVars, shellVars, nodeVars, hostVars, At, AutoAt, Go, Return, Fail,
          Throw, AutoFail, Leaves, Chdir, Apply
<1>26. CASE UnitModules /\ OfUnit
    BY <1>26 DEF UnitModules, Frames, OfAuto, OfShell, OfUnit, OfNodes, stageVars, onDisk,
          found, wanted, autoVars, shellVars, nodeVars, hostVars, At, AutoAt, Go, Return, Fail,
          Throw, AutoFail, Leaves, Chdir, Apply
<1>27. CASE UnitTests /\ OfUnit
    BY <1>27 DEF UnitTests, Frames, OfAuto, OfShell, OfUnit, OfNodes, stageVars, onDisk,
          found, wanted, autoVars, shellVars, nodeVars, hostVars, At, AutoAt, Go, Return, Fail,
          Throw, AutoFail, Leaves, Chdir, Apply
<1>28. CASE UnitRevert /\ OfUnit
    BY <1>28 DEF UnitRevert, Frames, OfAuto, OfShell, OfUnit, OfNodes, stageVars, onDisk,
          found, wanted, autoVars, shellVars, nodeVars, hostVars, At, AutoAt, Go, Return, Fail,
          Throw, AutoFail, Leaves, Chdir, Apply
<1>29. CASE WWulf3Start /\ OfNodes
    BY <1>29 DEF WWulf3Start, Frames, OfAuto, OfShell, OfUnit, OfNodes, stageVars, onDisk,
          found, wanted, autoVars, shellVars, nodeVars, hostVars, At, AutoAt, Go, Return, Fail,
          Throw, AutoFail, Leaves, Chdir, Apply
<1>30. CASE WWulf3Allocate /\ OfNodes
    BY <1>30 DEF WWulf3Allocate, Frames, OfAuto, OfShell, OfUnit, OfNodes, stageVars, onDisk,
          found, wanted, autoVars, shellVars, nodeVars, hostVars, At, AutoAt, Go, Return, Fail,
          Throw, AutoFail, Leaves, Chdir, Apply
<1>31. CASE WWulf3Provision /\ OfNodes
    BY <1>31 DEF WWulf3Provision, Frames, OfAuto, OfShell, OfUnit, OfNodes, stageVars, onDisk,
          found, wanted, autoVars, shellVars, nodeVars, hostVars, At, AutoAt, Go, Return, Fail,
          Throw, AutoFail, Leaves, Chdir, Apply
<1>32. CASE WWulf3Cycle /\ OfNodes
    BY <1>32 DEF WWulf3Cycle, Frames, OfAuto, OfShell, OfUnit, OfNodes, stageVars, onDisk,
          found, wanted, autoVars, shellVars, nodeVars, hostVars, At, AutoAt, Go, Return, Fail,
          Throw, AutoFail, Leaves, Chdir, Apply
<1>33. CASE HostStart /\ OfNodes
    BY <1>33 DEF HostStart, Frames, OfAuto, OfShell, OfUnit, OfNodes, stageVars, onDisk,
          found, wanted, autoVars, shellVars, nodeVars, hostVars, At, AutoAt, Go, Return, Fail,
          Throw, AutoFail, Leaves, Chdir, Apply
<1>34. CASE HostAsk /\ OfNodes
    BY <1>34 DEF HostAsk, Frames, OfAuto, OfShell, OfUnit, OfNodes, stageVars, onDisk,
          found, wanted, autoVars, shellVars, nodeVars, hostVars, At, AutoAt, Go, Return, Fail,
          Throw, AutoFail, Leaves, Chdir, Apply
<1>35. CASE HostWrite /\ OfNodes
    BY <1>35 DEF HostWrite, Frames, OfAuto, OfShell, OfUnit, OfNodes, stageVars, onDisk,
          found, wanted, autoVars, shellVars, nodeVars, hostVars, At, AutoAt, Go, Return, Fail,
          Throw, AutoFail, Leaves, Chdir, Apply
<1>36. CASE Deactivate /\ OfShell
    BY <1>36 DEF Deactivate, Frames, OfAuto, OfShell, OfUnit, OfNodes, stageVars, onDisk,
          found, wanted, autoVars, shellVars, nodeVars, hostVars, At, AutoAt, Go, Return, Fail,
          Throw, AutoFail, Leaves, Chdir, Apply
<1>37. CASE Strike
    BY <1>37 DEF Strike, AtRest, At, Frames, Throw, Go, autoVars, stageVars, onDisk, found, wanted,
          hostVars
<1>. QED
    BY <1>1, <1>2, <1>3, <1>4, <1>5, <1>6, <1>7, <1>8, <1>9, <1>10, <1>11, <1>12,
       <1>13, <1>14, <1>15, <1>16, <1>17, <1>18, <1>19, <1>20, <1>21, <1>22, <1>23,
       <1>24, <1>25, <1>26, <1>27, <1>28, <1>29, <1>30, <1>31, <1>32, <1>33, <1>34,
       <1>35, <1>36, <1>37, ExecuteCases, Zenon DEF Inner
-----------------------------------------------------------------------------
(* Places                                                                    *)

\* Who is where, and that the location is known by then.
Building == {"prefix", "autogen", "configure", "envars", "clean", "all", "install", "finish"}
Testing == {"paths", "needs", "modules", "tests", "revert"}
Commanding == {"move", "harass", "run", "release", "abandon", "verdict"}

PlaceInv ==
    /\ pc \in Places
    /\ pc \in {"autotools", "unwind"} => cur.plugin = "DefaultTestBuild"
    /\ pc \in Building => cur.plugin \in Builders
    /\ pc = "middleware" => cur.plugin \in Builders \cup {"Shell"}
    /\ pc \in Commanding => cur.plugin = "Shell"
    /\ pc = "allocate" => cur.plugin \in Holders
    /\ pc \in {"provision", "cycle"} => cur.plugin = "WWulf3"
    /\ pc \in Testing => cur.plugin = "PMIxUnit" /\ cur.parent # NoSection
    /\ pc \in {"ask", "write"} => cur.plugin = "Hostfile"
    /\ \/ pc \in Building \cup {"middleware"} \cup Commanding \cup Testing \cup {"ask", "write"}
       \/ At("Shell", "allocate")
       => Source # NoPlace

\* Where a step leads to.
Moves ==
    /\ ~AtRest
    /\ pc = "start" =>
          \/ pc' = "autotools" /\ cur.plugin = "DefaultTestBuild"
          \/ pc' = "middleware" /\ cur.plugin \in {"Autotools", "Shell"} /\ Source # NoPlace
          \/ pc' = "paths" /\ cur.plugin = "PMIxUnit" /\ cur.parent # NoSection /\ Source # NoPlace
          \/ pc' = "ask" /\ cur.plugin = "Hostfile" /\ Source # NoPlace
          \/ pc' = "allocate" /\ cur.plugin = "WWulf3"
          \/ pc' = "returned" /\ cur.plugin # "DefaultTestBuild"
          \/ pc' = "raising"
    /\ pc = "autotools" =>
          \/ pc' = "middleware" /\ Source # NoPlace
          \/ pc' \in {"unwind", "raising"}
    /\ pc = "middleware" =>
          \/ pc' = "middleware" \/ pc' = Caller \/ pc' = "raising"
          \/ pc' = "prefix" /\ cur.plugin \in Builders
          \/ pc' = "move" /\ cur.plugin = "Shell"
    /\ pc = "prefix" => pc' \in {"autogen", Caller, "raising"}
    /\ pc = "autogen" => pc' \in {"configure", Caller, "raising"}
    /\ pc = "configure" => pc' \in {"envars", Caller, "raising"}
    /\ pc = "envars" => pc' \in {"clean", "raising"}
    /\ pc = "clean" => pc' \in {"all", Caller, "raising"}
    /\ pc = "all" => pc' \in {"install", Caller, "raising"}
    /\ pc = "install" => pc' \in {"finish", "raising"}
    /\ pc = "finish" => pc' \in {Caller, "raising"}
    /\ pc = "unwind" => pc' \in {"returned", "raising"}
    /\ pc = "move" => pc' \in {"allocate", "harass", "raising"}
    /\ pc = "allocate" =>
          \/ pc' \in {"harass", "returned"} /\ cur.plugin = "Shell"
          \/ pc' = "provision" /\ cur.plugin = "WWulf3"
          \/ pc' = "raising"
    /\ pc = "harass" => pc' \in {"run", "abandon", "raising"}
    /\ pc = "run" => pc' \in {"release", "raising"}
    /\ pc = "release" => pc' \in {"verdict", "raising"}
    /\ pc \in {"abandon", "verdict"} => pc' \in {"returned", "raising"}
    /\ pc = "provision" => pc' \in {"cycle", "returned", "raising"}
    /\ pc = "cycle" => pc' \in {"returned", "raising"}
    /\ pc = "paths" => pc' \in {"needs", "raising"}
    /\ pc = "needs" => pc' \in {"modules", "raising"}
    /\ pc = "modules" => pc' \in {"tests", "returned", "raising"}
    /\ pc = "tests" => pc' \in {"revert", "raising"}
    /\ pc = "revert" => pc' \in {"returned", "raising"}
    /\ pc = "ask" => pc' \in {"write", "returned", "raising"}
    /\ pc = "write" => pc' \in {"returned", "raising"}
    /\ pc = "raising" => pc' = "raised"

LEMMA MovesHold ==
    ASSUME Inner
    PROVE  Moves
<1> USE DEF Moves, AtRest, At, AutoAt, Go, Return, Fail, Throw, Caller, Builders
<1>1. CASE TestBuildStart
    BY <1>1 DEF TestBuildStart
<1>2. CASE TestBuildEnd
    BY <1>2 DEF TestBuildEnd
<1>3. CASE AutoStart
    BY <1>3 DEF AutoStart, AutoFail
<1>4. CASE AutoMiddleware
    BY <1>4 DEF AutoMiddleware, PointTo, ApplyWanted, Apply
<1>5. CASE AutoPrefix
    BY <1>5 DEF AutoPrefix
<1>6. CASE Autogen
    BY <1>6 DEF Autogen, StepFails, StepDone
<1>7. CASE Configure
    BY <1>7 DEF Configure, AutoFail, StepFails, StepDone
<1>8. CASE SetEnvars
    BY <1>8 DEF SetEnvars
<1>9. CASE MakeClean
    BY <1>9 DEF MakeClean, StepFails, StepDone
<1>10. CASE MakeAll
    BY <1>10 DEF MakeAll, StepFails, StepDone
<1>11. CASE MakeInstall
    BY <1>11 DEF MakeInstall
<1>12. CASE Finish
    BY <1>12 DEF Finish
<1>13. CASE ShellStart
    BY <1>13 DEF ShellStart
<1>14. CASE ShellMiddleware
    BY <1>14 DEF ShellMiddleware, PointTo, ApplyWanted, Apply
<1>15. CASE ShellMove
    BY <1>15 DEF ShellMove
<1>16. CASE ShellAllocate
    BY <1>16 DEF ShellAllocate
<1>17. CASE ShellHarass
    BY <1>17 DEF ShellHarass
<1>18. CASE ShellRun
    BY <1>18 DEF ShellRun
<1>19. CASE ShellRelease
    BY <1>19 DEF ShellRelease
<1>20. CASE ShellAbandon
    BY <1>20 DEF ShellAbandon
<1>21. CASE ShellFailed
    BY <1>21 DEF ShellFailed
<1>22. CASE ShellPassed
    BY <1>22 DEF ShellPassed
<1>23. CASE UnitStart
    BY <1>23 DEF UnitStart
<1>24. CASE UnitPaths
    BY <1>24 DEF UnitPaths
<1>25. CASE UnitNeeds
    BY <1>25 DEF UnitNeeds
<1>26. CASE UnitModules
    BY <1>26 DEF UnitModules, Apply
<1>27. CASE UnitTests
    BY <1>27 DEF UnitTests
<1>28. CASE UnitRevert
    BY <1>28 DEF UnitRevert
<1>29. CASE WWulf3Start
    BY <1>29 DEF WWulf3Start
<1>30. CASE WWulf3Allocate
    BY <1>30 DEF WWulf3Allocate
<1>31. CASE WWulf3Provision
    BY <1>31 DEF WWulf3Provision
<1>32. CASE WWulf3Cycle
    BY <1>32 DEF WWulf3Cycle
<1>33. CASE HostStart
    BY <1>33 DEF HostStart
<1>34. CASE HostAsk
    BY <1>34 DEF HostAsk
<1>35. CASE HostWrite
    BY <1>35 DEF HostWrite
<1>36. CASE Deactivate
    BY <1>36 DEF Deactivate
<1>37. CASE Strike
    BY <1>37 DEF Strike
<1> HIDE DEF Moves, AtRest, At, AutoAt, Go, Return, Fail, Throw, Caller, Builders
<1>. QED
    BY <1>1, <1>2, <1>3, <1>4, <1>5, <1>6, <1>7, <1>8, <1>9, <1>10, <1>11, <1>12,
       <1>13, <1>14, <1>15, <1>16, <1>17, <1>18, <1>19, <1>20, <1>21, <1>22, <1>23,
       <1>24, <1>25, <1>26, <1>27, <1>28, <1>29, <1>30, <1>31, <1>32, <1>33, <1>34,
       <1>35, <1>36, <1>37, ExecuteCases, Zenon DEF Inner
-----------------------------------------------------------------------------
(* Invariants                                                                *)

\* What is noted of the modules, and that what is not known has no location.
KnownInv ==
    /\ IsOptions(mods)
    /\ \A s \in Section :
          IsOptions(logs[s].mods) /\ (~logs[s].known => logs[s].loc = NoPlace)

\* No section allocates nodes more than once.
HeldInv ==
    \A p \in Holders :
        /\ held[p] + left <= MaxRuns
        /\ cur.plugin = p /\ pc \in {"start", "middleware", "move", "allocate"}
              => held[p] + left < MaxRuns

\* The paths that a section put aside.
SaveInv ==
    /\ save.paths.inc = save.outer.inc
    /\ cur.plugin # "DefaultTestBuild" => save.paths = save.outer
    /\ pc = "start" => paths = save.outer /\ save.paths = save.outer /\ ~save.mid
    /\ pc \notin {"idle", "returned", "raised", "raising", "unwind", "needs", "modules",
                  "tests", "revert"}
          => save.mid \/ paths = save.paths
    /\ pc \in {"ask", "write"} => paths = save.outer
    /\ pc \in {"paths", "needs", "modules", "tests", "revert"} => paths.inc = save.outer.inc

\* The middleware still to point to is all of it.
TodoInv == pc \in {"start", "autotools"} => todo = cur.middleware

\* A section that has done its work, if there was any.
Done == log.status = 0 /\ ~log.memo /\ ~dry

\* What there is to put back.
BackInv ==
    /\ pc \in {"needs", "modules", "tests", "revert"}
          => save.mid \/ paths = save.outer \/ Middle # <<>>
    /\ pc = "unwind" /\ Done => env.cwd = entry.cwd /\ paths = save.paths
    /\ pc \in {"move", "harass", "run", "release"} \/ At("Shell", "allocate")
          => log.status = 0
    /\ pc = "verdict" => log.status = 0 \/ "Shell" \in excused
    /\ pc = "abandon" => log.status = 1

\* DefaultTestBuild with one middleware at most, which has no location.
NothingInv ==
    /\ cur.plugin = "DefaultTestBuild" /\ Len(cur.middleware) <= 1
    /\ pc \in Building \cup {"autotools", "middleware", "unwind"} /\ save.paths = save.outer
    => /\ paths.bin = save.outer.bin
       /\ \A i \in DOMAIN todo : logs[todo[i]].loc = NoPlace

\* Variables of make_envars are those that will be deleted.
EnvInv ==
    ~struck => \A v \in Envar :
        envars[v] = "section" => pc \in {"clean", "all", "install", "finish"} /\ v \in Elems(loaded)

\* What is built, and claimed.
BuiltInv ==
    /\ ~AtRest /\ pc \notin {"raising", "unwind"} => ~log.memo
    /\ pc \in Building \ {"prefix"} => log.located /\ ~dry
    /\ pc = "install" => built[Source] = "whole"
    /\ pc = "finish" /\ log.status = 0 => built[Prefix] = "whole"
    /\ pc = "unwind" /\ Done => log.located /\ built[Prefix] = "whole"

\* Nodes are held by the section that has allocated them.
NodeInv ==
    /\ pc \in {"raising", "raised"} => struck
    /\ cur.plugin = "Shell" /\ pc \in Commanding \cup {"middleware", "allocate"}
          => shell = [activated |-> TRUE, commands |-> cur.allocates]
    /\ At("Shell", "allocate") => cur.allocates /\ allocated["Shell"]
    /\ held["Shell"] > 0 /\ "Shell" \notin excused =>
          /\ held["Shell"] = 1 /\ allocated["Shell"] /\ shell.activated /\ shell.commands
          /\ cur.plugin = "Shell" /\ pc \in {"harass", "run", "release", "abandon", "raising"}
    /\ held["WWulf3"] > 0 /\ "WWulf3" \notin excused /\ ~struck =>
          /\ held["WWulf3"] = 1 /\ allocated["WWulf3"]
          /\ pc \in {"provision", "cycle"}

\* Harassers run for the section that has started them.
HarassInv ==
    /\ \A h \in harassed : h >= left
    /\ left \in harassed =>
          \/ pc \in {"run", "abandon", "raising", "raised", "idle"}
          \/ pc = "returned" /\ log.status # 0

\* A list backwards leads another.
Leads(s, p) ==
    /\ Len(s) <= Len(p)
    /\ \A i \in 1 .. Len(s) : p[i] = s[Len(s) + 1 - i]

\* The locations of the first k of a section's middleware, the last one first,
\* lead the paths.
Middleware == {m \in Section : logs[m].loc # NoPlace}
Own(k) == UpTo(cur.middleware, Middleware)[k]
Lead(k) == \A names \in {"bin", "inc"} : Leads(Own(k), paths[names])

\* To Shell a list of middleware is one name, which nobody has.
Listed == cur.plugin = "Shell" /\ Len(cur.middleware) > 1

OwnInv ==
    ~Listed =>
    /\ pc = "middleware" =>
          \E k \in 0 .. Len(cur.middleware) :
             todo = SubSeq(cur.middleware, k + 1, Len(cur.middleware)) /\ Lead(k)
    /\ pc \in (Building \ {"finish"}) \cup {"move", "harass", "run"} \/ At("Shell", "allocate")
          => Lead(Len(cur.middleware))
-----------------------------------------------------------------------------
(* Types                                                                     *)

\* What a section asks for, and where it is to be.
LEMMA Asked ==
    ASSUME TypeOK
    PROVE  /\ cur \in Requests /\ cur.section \in Section /\ Me \in Section /\ IsOptions(cur.mods)
           /\ cur.parent \in Section \cup {NoSection} /\ cur.middleware \in Seq(Section)
           /\ cur.envars \in Seq(Envar) /\ cur.allocates \in BOOLEAN
           /\ cur.nodes \in Seq(Node) /\ cur.num \in Nat /\ cur.den \in Nat
           /\ Source \in Place \cup {NoPlace} /\ Prefix \in Place \cup {NoPlace}
           /\ Source # NoPlace => Source \in Place /\ Prefix \in Place
           /\ entry.cwd \in Place /\ MaxRuns \in Nat /\ left \in Nat
<1>1. cur \in Requests /\ left \in 0 .. MaxRuns /\ MaxRuns \in Nat
    BY PluginAssumption DEF TypeOK, StageTypeOK, SharedTypeOK
<1>2. cur.section \in Section /\ IsOptions(cur.mods)
    BY <1>1, PluginAssumption
<1>3. cur.parent \in Section \cup {NoSection} /\ cur.middleware \in Seq(Section)
    BY <1>1, SectionsAssumption
<1>4. cur.envars \in Seq(Envar)
    BY <1>1, EnvarsAssumption
<1>5. cur.allocates \in BOOLEAN
    BY <1>1, ShellAssumption
<1>6. cur.nodes \in Seq(Node) /\ cur.num \in Nat /\ cur.den \in Nat
    BY <1>1, HostfileAssumption
<1>7. Scratch(Me) \in Place /\ Me \in Section
    BY <1>2 DEF Scratch, Place, Me
<1>8. Source \in Place \cup {NoPlace}
    <2>1. CASE cur.parent = NoSection
        BY <1>7, <2>1 DEF Source
    <2>2. CASE cur.parent # NoSection
        <3>1. cur.parent \in Section /\ logs \in [Section -> Logs]
            BY <1>3, <2>2 DEF TypeOK, StageTypeOK
        <3>2. logs[cur.parent] \in Logs
            BY <3>1
        <3>3. logs[cur.parent].loc \in Place \cup {NoPlace}
            BY <3>2 DEF Logs
        <3>. QED
            BY <2>2, <3>3 DEF Source
    <2>. QED
        BY <2>1, <2>2
<1>9. Prefix = Source \/ Prefix = Scratch(Me)
    BY DEF Prefix
<1>10. entry.cwd \in Place
    BY DEF TypeOK, StageTypeOK, SharedTypeOK
<1>. QED
    BY <1>1, <1>2, <1>3, <1>4, <1>5, <1>6, <1>7, <1>8, <1>9, <1>10

SectionLog == [status : {0, 1}, located : BOOLEAN, memo : BOOLEAN]
Process == [modules : ModuleEnv, cwd : Place]

\* What a step may do to the process and the log.
LEMMA SharesFacts ==
    ASSUME TypeOK, UNCHANGED <<cur, entry, left>>,
           log' \in SectionLog,
           \/ env' = env
           \/ \E p \in Place : env' = [env EXCEPT !.cwd = p]
           \/ \E m \in ModuleEnv, p \in Place : IsEnv(m) /\ env' = [modules |-> m, cwd |-> p]
    PROVE  SharedTypeOK'
<1>1. /\ env \in Process /\ IsEnv(env.modules) /\ entry \in Process /\ cur \in Requests
      /\ log \in SectionLog /\ left \in 0 .. MaxRuns
    BY DEF TypeOK, StageTypeOK, SharedTypeOK, Process, SectionLog
<1>2. log' \in SectionLog
    OBVIOUS
<1>3. env' \in Process /\ IsEnv(env'.modules)
    <2>1. CASE env' = env
        BY <1>1, <2>1
    <2>2. CASE \E p \in Place : env' = [env EXCEPT !.cwd = p]
        BY <1>1, <2>2 DEF Process
    <2>3. CASE \E m \in ModuleEnv, p \in Place : IsEnv(m) /\ env' = [modules |-> m, cwd |-> p]
        BY <2>3 DEF Process
    <2>. QED
        BY <2>1, <2>2, <2>3
<1>. QED
    BY <1>1, <1>2, <1>3 DEF SharedTypeOK, Process, SectionLog

\* The ways to write the log.
LEMMA LogFacts ==
    ASSUME TypeOK
    PROVE  /\ log \in SectionLog
           /\ log.status \in {0, 1} /\ log.located \in BOOLEAN /\ log.memo \in BOOLEAN
           /\ \A s \in {0, 1} : [log EXCEPT !.status = s] \in SectionLog
           /\ \A s \in {0, 1}, l \in BOOLEAN :
                 [log EXCEPT !.status = s, !.located = l] \in SectionLog
           /\ \A s \in {0, 1}, l \in BOOLEAN, m \in BOOLEAN :
                 [log EXCEPT !.status = s, !.located = l, !.memo = m] \in SectionLog
           /\ \A s \in {0, 1}, m \in BOOLEAN :
                 [log EXCEPT !.status = s, !.memo = m] \in SectionLog
           /\ \A l \in BOOLEAN : [log EXCEPT !.located = l] \in SectionLog
<1>1. log \in SectionLog
    BY DEF TypeOK, StageTypeOK, SharedTypeOK, SectionLog
<1>2. log.status \in {0, 1} /\ log.located \in BOOLEAN /\ log.memo \in BOOLEAN
    BY <1>1 DEF SectionLog
<1>3. \A s \in {0, 1} : [log EXCEPT !.status = s] \in SectionLog
    BY <1>1 DEF SectionLog
<1>4. \A s \in {0, 1}, l \in BOOLEAN :
          [log EXCEPT !.status = s, !.located = l] \in SectionLog
    BY <1>1 DEF SectionLog
<1>5. \A s \in {0, 1}, l \in BOOLEAN, m \in BOOLEAN :
          [log EXCEPT !.status = s, !.located = l, !.memo = m] \in SectionLog
    BY <1>1 DEF SectionLog
<1>6. \A s \in {0, 1}, m \in BOOLEAN : [log EXCEPT !.status = s, !.memo = m] \in SectionLog
    BY <1>1 DEF SectionLog
<1>7. \A l \in BOOLEAN : [log EXCEPT !.located = l] \in SectionLog
    BY <1>1 DEF SectionLog
<1>. QED
    BY <1>1, <1>2, <1>3, <1>4, <1>5, <1>6, <1>7

\* To Shell a list of middleware has no log.
ShellList ==
    /\ Len(todo) > 1 /\ todo' = <<>> /\ pc' = "middleware"
    /\ UNCHANGED <<env, log, logs, built, complete, paths, envars, dry, mods, save>>

\* What happens where middleware is pointed to.
LEMMA MiddleCases ==
    ASSUME AutoMiddleware \/ ShellMiddleware
    PROVE  \/ PointTo({"bin", "inc"}, "middleware")
           \/ ShellList /\ cur.plugin = "Shell"
           \/ ApplyWanted("prefix", Caller) /\ AutoMiddleware
           \/ ApplyWanted("move", "returned") /\ ShellMiddleware
BY DEF AutoMiddleware, ShellMiddleware, ShellList, Go, onDisk, found, At

\* applyModules as the plugins call it.
LEMMA ApplyFacts ==
    ASSUME TypeOK, NEW m, IsOptions(m), NEW next, NEW out, Apply(m, next, out)
    PROVE  /\ SharedTypeOK' /\ UNCHANGED <<cur, entry, left>>
           /\ env'.cwd = env.cwd
           /\ log'.located = log.located /\ log'.memo = log.memo
           /\ \/ log'.status = 0 /\ pc' = next
              \/ log'.status = 1 /\ pc' = out
<1>1. PICK o \in ApplyModules(cur.section, m, env.modules) :
          /\ env' = [env EXCEPT !.modules = o[1]]
          /\ log' = [log EXCEPT !.status = o[2]]
          /\ Go(IF o[2] = 0 THEN next ELSE out)
    BY DEF Apply
<1>2. IsEnv(o[1]) /\ o[2] \in {0, 1}
    <2>1. cur.section \in Section /\ IsEnv(env.modules)
        BY Asked DEF TypeOK, StageTypeOK, SharedTypeOK
    <2>. QED
        BY <2>1, ApplyType
<1>3. UNCHANGED <<cur, entry, left>> /\ pc' = IF o[2] = 0 THEN next ELSE out
    BY <1>1 DEF Go
<1>4. env \in Process
    BY DEF TypeOK, StageTypeOK, SharedTypeOK, Process
<1>5. o[1] \in ModuleEnv /\ env.cwd \in Place /\ env' = [modules |-> o[1], cwd |-> env.cwd]
    BY <1>1, <1>2, <1>4 DEF Process, IsEnv
<1>6. log' \in SectionLog
    BY <1>1, <1>2, LogFacts
<1>7. \E e \in ModuleEnv, p \in Place : IsEnv(e) /\ env' = [modules |-> e, cwd |-> p]
    BY <1>2, <1>5
<1>8. SharedTypeOK'
    BY <1>3, <1>6, <1>7, SharesFacts
<1>9. log'.status = o[2] /\ log'.located = log.located /\ log'.memo = log.memo
    BY <1>1, LogFacts DEF SectionLog
<1>. QED
    BY <1>2, <1>3, <1>5, <1>8, <1>9

\* revertModules as the plugins call it.
LEMMA RevertFacts ==
    ASSUME TypeOK, NEW o \in RevertModules(Me, env.modules)
    PROVE  o[1] \in ModuleEnv /\ IsEnv(o[1]) /\ o[2] \in {0, 1}
BY Asked, RevertType DEF TypeOK, StageTypeOK, SharedTypeOK, IsEnv

\* A step that fails puts the modules and the directory back.
LEMMA StepFailsFacts ==
    ASSUME TypeOK, StepFails
    PROVE  /\ SharedTypeOK' /\ env'.cwd = entry.cwd
           /\ log'.status = 1 /\ log'.located = log.located /\ log'.memo = log.memo
           /\ pc' = IF Twice THEN "raising" ELSE Caller
<1>1. PICK o \in RevertModules(Me, env.modules) : env' = [modules |-> o[1], cwd |-> entry.cwd]
    BY DEF StepFails
<1>2. \E m \in ModuleEnv, p \in Place : IsEnv(m) /\ env' = [modules |-> m, cwd |-> p]
    BY <1>1, RevertFacts, Asked
<1>3. /\ log' = [log EXCEPT !.status = 1] /\ UNCHANGED <<cur, entry, left>>
      /\ pc' = IF Twice THEN "raising" ELSE Caller
    BY DEF StepFails, Go
<1>4. log' \in SectionLog
    BY <1>3, LogFacts
<1>5. SharedTypeOK'
    BY <1>2, <1>3, <1>4, SharesFacts
<1>6. log'.status = 1 /\ log'.located = log.located /\ log'.memo = log.memo
    BY <1>3, LogFacts DEF SectionLog
<1>. QED
    BY <1>1, <1>3, <1>5, <1>6

\* The process and the log keep their types.
LEMMA SharedHolds ==
    ASSUME TypeOK, PlaceInv, IsOptions(mods), Inner
    PROVE  SharedTypeOK'
<1>0. UNCHANGED <<cur, entry, left>>
    BY FramesHold DEF Frames
<1> DEFINE OldEnv == \/ env' = env
                     \/ \E p \in Place : env' = [env EXCEPT !.cwd = p]
                     \/ \E m \in ModuleEnv, p \in Place :
                           IsEnv(m) /\ env' = [modules |-> m, cwd |-> p]
<1>s. ASSUME log' \in SectionLog, OldEnv PROVE SharedTypeOK'
    BY <1>0, <1>s, SharesFacts
<1>p. /\ pc \in Building \cup Commanding \cup Testing \cup {"ask", "write"} => Source \in Place
      /\ entry.cwd \in Place
    BY Asked DEF PlaceInv
<1>l. /\ log \in SectionLog
      /\ \A s \in {0, 1} : [log EXCEPT !.status = s] \in SectionLog
    BY LogFacts
<1>1. CASE TestBuildStart
    <2>1. log' \in SectionLog
        BY <1>1, <1>l, LogFacts DEF TestBuildStart, Return, Fail, Throw, Go, AutoFail
    <2>2. OldEnv
        BY <1>1, <1>p DEF TestBuildStart, At, AutoAt, Chdir, Building, Commanding, Testing, autoVars
    <2>. QED
        BY <2>1, <2>2, <1>s
<1>2. CASE TestBuildEnd
    <2>1. log' \in SectionLog
        BY <1>2, <1>l, LogFacts DEF TestBuildEnd, Return, Fail, Throw, Go, AutoFail
    <2>2. OldEnv
        BY <1>2, <1>p DEF TestBuildEnd, At, AutoAt, Chdir, Building, Commanding, Testing, autoVars
    <2>. QED
        BY <2>1, <2>2, <1>s
<1>3. CASE AutoStart
    <2>1. log' \in SectionLog
        BY <1>3, <1>l, LogFacts DEF AutoStart, Return, Fail, Throw, Go, AutoFail
    <2>2. OldEnv
        BY <1>3, <1>p DEF AutoStart, At, AutoAt, Chdir, Building, Commanding, Testing, autoVars
    <2>. QED
        BY <2>1, <2>2, <1>s
<1>4. CASE AutoMiddleware
    <2>1. CASE PointTo({"bin", "inc"}, "middleware")
        BY <2>1, <1>l, <1>s DEF PointTo
    <2>2. CASE ApplyWanted("prefix", Caller)
        BY <2>2, ApplyFacts DEF ApplyWanted
    <2>. QED
        BY <1>4, <2>1, <2>2 DEF AutoMiddleware
<1>5. CASE AutoPrefix
    <2>1. log' \in SectionLog
        BY <1>5, <1>l, LogFacts DEF AutoPrefix, Return, Fail, Throw, Go, AutoFail
    <2>2. OldEnv
        BY <1>5, <1>p DEF AutoPrefix, At, AutoAt, Chdir, Building, Commanding, Testing, autoVars
    <2>. QED
        BY <2>1, <2>2, <1>s
<1>6. CASE Autogen
    <2>1. CASE StepFails
        BY <2>1, StepFailsFacts
    <2>2. CASE ~StepFails
        <3>1. env' = env
            BY <1>6, <2>2 DEF Autogen, StepDone
        <3>2. log' = log \/ log' = [log EXCEPT !.status = 1]
            BY <1>6, <2>2 DEF Autogen, StepDone
        <3>3. log' \in SectionLog
            BY <3>2, <1>l
        <3>. QED
            BY <3>1, <3>3, <1>s
    <2>. QED
        BY <2>1, <2>2
<1>7. CASE Configure
    <2>1. CASE StepFails
        BY <2>1, StepFailsFacts
    <2>2. CASE ~StepFails
        <3>1. env' = env
            BY <1>7, <2>2 DEF Configure, StepDone, AutoFail
        <3>2. log' = log \/ log' = [log EXCEPT !.status = 1]
            BY <1>7, <2>2 DEF Configure, StepDone, AutoFail
        <3>3. log' \in SectionLog
            BY <3>2, <1>l
        <3>. QED
            BY <3>1, <3>3, <1>s
    <2>. QED
        BY <2>1, <2>2
<1>8. CASE SetEnvars
    <2>1. log' \in SectionLog
        BY <1>8, <1>l, LogFacts DEF SetEnvars, Return, Fail, Throw, Go, AutoFail
    <2>2. OldEnv
        BY <1>8, <1>p DEF SetEnvars, At, AutoAt, Chdir, Building, Commanding, Testing, autoVars
    <2>. QED
        BY <2>1, <2>2, <1>s
<1>9. CASE MakeClean
    <2>1. CASE StepFails
        BY <2>1, StepFailsFacts
    <2>2. CASE ~StepFails
        <3>1. env' = env
            BY <1>9, <2>2 DEF MakeClean, StepDone
        <3>2. log' = log \/ log' = [log EXCEPT !.status = 1]
            BY <1>9, <2>2 DEF MakeClean, StepDone
        <3>3. log' \in SectionLog
            BY <3>2, <1>l
        <3>. QED
            BY <3>1, <3>3, <1>s
    <2>. QED
        BY <2>1, <2>2
<1>10. CASE MakeAll
    <2>1. CASE StepFails
        BY <2>1, StepFailsFacts
    <2>2. CASE ~StepFails
        <3>1. env' = env
            BY <1>10, <2>2 DEF MakeAll, StepDone
        <3>2. log' = log \/ log' = [log EXCEPT !.status = 1]
            BY <1>10, <2>2 DEF MakeAll, StepDone
        <3>3. log' \in SectionLog
            BY <3>2, <1>l
        <3>. QED
            BY <3>1, <3>3, <1>s
    <2>. QED
        BY <2>1, <2>2
<1>11. CASE MakeInstall
    <2>1. log' \in SectionLog
        BY <1>11, <1>l, LogFacts DEF MakeInstall, Return, Fail, Throw, Go, AutoFail
    <2>2. OldEnv
        BY <1>11, <1>p DEF MakeInstall, At, AutoAt, Chdir, Building, Commanding, Testing, autoVars
    <2>. QED
        BY <2>1, <2>2, <1>s
<1>12. CASE Finish
    <2>1. PICK o \in RevertModules(Me, env.modules) :
              IF o[2] # 0
              THEN env' = [env EXCEPT !.modules = o[1]] /\ log' = [log EXCEPT !.status = 1]
              ELSE env' = [modules |-> o[1], cwd |-> entry.cwd] /\ log' = log
        BY <1>12 DEF Finish
    <2>2. o[1] \in ModuleEnv /\ IsEnv(o[1]) /\ o[2] \in {0, 1}
        BY RevertFacts
    <2>3. env \in Process
        BY DEF TypeOK, StageTypeOK, SharedTypeOK, Process
    <2>4. env.cwd \in Place /\ [env EXCEPT !.modules = o[1]] = [modules |-> o[1], cwd |-> env.cwd]
        BY <2>3 DEF Process
    <2>5. OldEnv
        BY <2>1, <2>2, <2>4, <1>p
    <2>6. log' \in SectionLog
        BY <2>1, <1>l
    <2>. QED
        BY <2>5, <2>6, <1>s
<1>13. CASE ShellStart
    <2>1. log' \in SectionLog
        BY <1>13, <1>l, LogFacts DEF ShellStart, Return, Fail, Throw, Go, AutoFail
    <2>2. OldEnv
        BY <1>13, <1>p DEF ShellStart, At, AutoAt, Chdir, Building, Commanding, Testing, autoVars
    <2>. QED
        BY <2>1, <2>2, <1>s
<1>14. CASE ShellMiddleware
    <2>1. CASE PointTo({"bin", "inc"}, "middleware")
        BY <2>1, <1>l, <1>s DEF PointTo
    <2>2. CASE ApplyWanted("move", "returned")
        BY <2>2, ApplyFacts DEF ApplyWanted
    <2>3. CASE ShellList
        BY <2>3, <1>l, <1>s DEF ShellList
    <2>. QED
        BY <1>14, <2>1, <2>2, <2>3, MiddleCases DEF ApplyWanted, AutoMiddleware, AutoAt, At,
           ShellMiddleware, PointTo
<1>15. CASE ShellMove
    <2>1. log' \in SectionLog
        BY <1>15, <1>l, LogFacts DEF ShellMove, Return, Fail, Throw, Go, AutoFail
    <2>2. OldEnv
        BY <1>15, <1>p DEF ShellMove, At, AutoAt, Chdir, Building, Commanding, Testing, autoVars
    <2>. QED
        BY <2>1, <2>2, <1>s
<1>16. CASE ShellAllocate
    <2>1. log' \in SectionLog
        BY <1>16, <1>l, LogFacts DEF ShellAllocate, Return, Fail, Throw, Go, AutoFail
    <2>2. OldEnv
        BY <1>16, <1>p DEF ShellAllocate, At, AutoAt, Chdir, Building, Commanding, Testing, autoVars
    <2>. QED
        BY <2>1, <2>2, <1>s
<1>17. CASE ShellHarass
    <2>1. log' \in SectionLog
        BY <1>17, <1>l, LogFacts DEF ShellHarass, Return, Fail, Throw, Go, AutoFail
    <2>2. OldEnv
        BY <1>17, <1>p DEF ShellHarass, At, AutoAt, Chdir, Building, Commanding, Testing, autoVars
    <2>. QED
        BY <2>1, <2>2, <1>s
<1>18. CASE ShellRun
    <2>1. log' \in SectionLog
        BY <1>18, <1>l, LogFacts DEF ShellRun, Return, Fail, Throw, Go, AutoFail
    <2>2. OldEnv
        BY <1>18, <1>p DEF ShellRun, At, AutoAt, Chdir, Building, Commanding, Testing, autoVars
    <2>. QED
        BY <2>1, <2>2, <1>s
<1>19. CASE ShellRelease
    <2>1. log' \in SectionLog
        BY <1>19, <1>l, LogFacts DEF ShellRelease, Deallocate
    <2>2. OldEnv
        BY <1>19, <1>p DEF ShellRelease, At, AutoAt, Chdir, Building, Commanding, Testing, autoVars
    <2>. QED
        BY <2>1, <2>2, <1>s
<1>20. CASE ShellAbandon
    <2>1. log' \in SectionLog
        BY <1>20, <1>l, LogFacts DEF ShellAbandon, Return, Fail, Throw, Go, AutoFail
    <2>2. OldEnv
        BY <1>20, <1>p DEF ShellAbandon, At, AutoAt, Chdir, Building, Commanding, Testing, autoVars
    <2>. QED
        BY <2>1, <2>2, <1>s
<1>21. CASE ShellFailed
    <2>0. PICK s : log' = [log EXCEPT !.status = s] /\ s = IF log.status = 0 THEN 1 ELSE result
        BY <1>21 DEF ShellFailed
    <2>1. log' \in SectionLog
        <3>1. s \in {0, 1}
            BY <2>0 DEF TypeOK, ShellTypeOK
        <3>. QED
            BY <2>0, <3>1, <1>l
    <2>2. OldEnv
        BY <1>21, <1>p DEF ShellFailed, At, AutoAt, Chdir, Building, Commanding, Testing, autoVars
    <2>. QED
        BY <2>1, <2>2, <1>s
<1>22. CASE ShellPassed
    <2>1. PICK o \in RevertModules(Me, env.modules) :
              /\ env' = [modules |-> o[1], cwd |-> entry.cwd]
              /\ log' = [log EXCEPT !.status = o[2], !.located = TRUE]
        BY <1>22 DEF ShellPassed
    <2>2. o[1] \in ModuleEnv /\ IsEnv(o[1]) /\ o[2] \in {0, 1}
        BY RevertFacts
    <2>3. OldEnv
        BY <2>1, <2>2, <1>p
    <2>4. log' \in SectionLog
        BY <2>1, <2>2, LogFacts
    <2>. QED
        BY <2>3, <2>4, <1>s
<1>23. CASE UnitStart
    <2>1. log' \in SectionLog
        BY <1>23, <1>l, LogFacts DEF UnitStart, Return, Fail, Throw, Go, AutoFail
    <2>2. OldEnv
        BY <1>23, <1>p DEF UnitStart, At, AutoAt, Chdir, Building, Commanding, Testing, autoVars
    <2>. QED
        BY <2>1, <2>2, <1>s
<1>24. CASE UnitPaths
    <2>1. log' \in SectionLog
        BY <1>24, <1>l, LogFacts DEF UnitPaths, Return, Fail, Throw, Go, AutoFail
    <2>2. OldEnv
        BY <1>24, <1>p DEF UnitPaths, At, AutoAt, Chdir, Building, Commanding, Testing, autoVars
    <2>. QED
        BY <2>1, <2>2, <1>s
<1>25. CASE UnitNeeds
    <2>1. log' \in SectionLog
        BY <1>25, <1>l, LogFacts DEF UnitNeeds, Return, Fail, Throw, Go, AutoFail
    <2>2. OldEnv
        BY <1>25, <1>p DEF UnitNeeds, At, AutoAt, Chdir, Building, Commanding, Testing, autoVars
    <2>. QED
        BY <2>1, <2>2, <1>s
<1>26. CASE UnitModules
    BY <1>26, ApplyFacts DEF UnitModules
<1>27. CASE UnitTests
    <2>1. log' \in SectionLog
        BY <1>27, <1>l, LogFacts DEF UnitTests, Return, Fail, Throw, Go, AutoFail
    <2>2. OldEnv
        BY <1>27, <1>p DEF UnitTests, At, AutoAt, Chdir, Building, Commanding, Testing, autoVars
    <2>. QED
        BY <2>1, <2>2, <1>s
<1>28. CASE UnitRevert
    <2>1. PICK o \in RevertModules(Me, env.modules) :
              /\ env' = [modules |-> o[1], cwd |-> IF o[2] # 0 THEN env.cwd ELSE entry.cwd]
              /\ log' = [log EXCEPT !.status = o[2]]
        BY <1>28 DEF UnitRevert
    <2>2. o[1] \in ModuleEnv /\ IsEnv(o[1]) /\ o[2] \in {0, 1}
        BY RevertFacts
    <2>3. env.cwd \in Place
        BY DEF TypeOK, StageTypeOK, SharedTypeOK
    <2>4. OldEnv
        BY <2>1, <2>2, <2>3, <1>p
    <2>5. log' \in SectionLog
        BY <2>1, <2>2, <1>l
    <2>. QED
        BY <2>4, <2>5, <1>s
<1>29. CASE WWulf3Start
    <2>1. log' \in SectionLog
        BY <1>29, <1>l, LogFacts DEF WWulf3Start, Return, Fail, Throw, Go, AutoFail
    <2>2. OldEnv
        BY <1>29, <1>p DEF WWulf3Start, At, AutoAt, Chdir, Building, Commanding, Testing, autoVars
    <2>. QED
        BY <2>1, <2>2, <1>s
<1>30. CASE WWulf3Allocate
    <2>1. log' \in SectionLog
        BY <1>30, <1>l, LogFacts DEF WWulf3Allocate, Return, Fail, Throw, Go, AutoFail
    <2>2. OldEnv
        BY <1>30, <1>p DEF WWulf3Allocate, At, AutoAt, Chdir, Building, Commanding, Testing, autoVars
    <2>. QED
        BY <2>1, <2>2, <1>s
<1>31. CASE WWulf3Provision
    <2>1. log' \in SectionLog
        BY <1>31, <1>l, LogFacts DEF WWulf3Provision, Return, Fail, Throw, Go, AutoFail
    <2>2. OldEnv
        BY <1>31, <1>p DEF WWulf3Provision, At, AutoAt, Chdir, Building, Commanding, Testing, autoVars
    <2>. QED
        BY <2>1, <2>2, <1>s
<1>32. CASE WWulf3Cycle
    <2>1. log' \in SectionLog
        BY <1>32, <1>l, LogFacts DEF WWulf3Cycle, Return, Fail, Throw, Go, AutoFail
    <2>2. OldEnv
        BY <1>32, <1>p DEF WWulf3Cycle, At, AutoAt, Chdir, Building, Commanding, Testing, autoVars
    <2>. QED
        BY <2>1, <2>2, <1>s
<1>33. CASE HostStart
    <2>1. log' \in SectionLog
        BY <1>33, <1>l, LogFacts DEF HostStart, Return, Fail, Throw, Go, AutoFail
    <2>2. OldEnv
        BY <1>33, <1>p DEF HostStart, At, AutoAt, Chdir, Building, Commanding, Testing, autoVars
    <2>. QED
        BY <2>1, <2>2, <1>s
<1>34. CASE HostAsk
    <2>1. log' \in SectionLog
        BY <1>34, <1>l, LogFacts DEF HostAsk, Return, Fail, Throw, Go, AutoFail
    <2>2. OldEnv
        BY <1>34, <1>p DEF HostAsk, At, AutoAt, Chdir, Building, Commanding, Testing, autoVars
    <2>. QED
        BY <2>1, <2>2, <1>s
<1>35. CASE HostWrite
    <2>1. log' \in SectionLog
        BY <1>35, <1>l, LogFacts DEF HostWrite, Return, Fail, Throw, Go, AutoFail
    <2>2. OldEnv
        BY <1>35, <1>p DEF HostWrite, At, AutoAt, Chdir, Building, Commanding, Testing, autoVars
    <2>. QED
        BY <2>1, <2>2, <1>s
<1>36. CASE Deactivate
    <2>1. log' \in SectionLog
        BY <1>36, <1>l, LogFacts DEF Deactivate, Return, Fail, Throw, Go, AutoFail
    <2>2. OldEnv
        BY <1>36, <1>p DEF Deactivate, At, AutoAt, Chdir, Building, Commanding, Testing, autoVars
    <2>. QED
        BY <2>1, <2>2, <1>s
<1>37. CASE Strike
    BY <1>37, <1>l, <1>s DEF Strike
<1>. QED
    BY <1>1, <1>2, <1>3, <1>4, <1>5, <1>6, <1>7, <1>8, <1>9, <1>10, <1>11, <1>12,
       <1>13, <1>14, <1>15, <1>16, <1>17, <1>18, <1>19, <1>20, <1>21, <1>22, <1>23,
       <1>24, <1>25, <1>26, <1>27, <1>28, <1>29, <1>30, <1>31, <1>32, <1>33, <1>34,
       <1>35, <1>36, <1>37, ExecuteCases, Zenon DEF Inner

\* A location before the paths.
LEMMA PrependFacts ==
    ASSUME TypeOK, NEW names, NEW m \in Section
    PROVE  /\ Prepend(names, m) \in Paths
           /\ Prepend(names, m).bin = IF "bin" \in names /\ logs[m].loc # NoPlace
                                      THEN <<m>> \o paths.bin ELSE paths.bin
           /\ Prepend(names, m).inc = IF "inc" \in names /\ logs[m].loc # NoPlace
                                      THEN <<m>> \o paths.inc ELSE paths.inc
           /\ logs[m].loc = NoPlace => Prepend(names, m) = paths
<1>1. /\ paths \in Paths /\ paths.bin \in Seq(Entries) /\ paths.inc \in Seq(Entries)
      /\ m \in Entries
    BY DEF TypeOK, StageTypeOK, Paths, Entries
<1> DEFINE p == Prepend(names, m)
<1>2. /\ p = [b \in {"bin", "inc"} |-> p[b]]
      /\ p.bin = IF "bin" \in names /\ logs[m].loc # NoPlace
                 THEN <<m>> \o paths.bin ELSE paths.bin
      /\ p.inc = IF "inc" \in names /\ logs[m].loc # NoPlace
                 THEN <<m>> \o paths.inc ELSE paths.inc
    BY DEF Prepend
<1>3. p.bin \in Seq(Entries) /\ p.inc \in Seq(Entries)
    <2>1. <<m>> \o paths.bin \in Seq(Entries)
        BY <1>1
    <2>2. <<m>> \o paths.inc \in Seq(Entries)
        BY <1>1
    <2> HIDE DEF p
    <2>. QED
        BY <1>1, <1>2, <2>1, <2>2
<1>4. p \in Paths
    <2> HIDE DEF p
    <2>. QED
        BY <1>2, <1>3 DEF Paths
<1>5. logs[m].loc = NoPlace => p = paths
    <2>1. paths = [bin |-> paths.bin, inc |-> paths.inc]
        BY <1>1 DEF Paths
    <2>2. p = [bin |-> p.bin, inc |-> p.inc]
        BY <1>4 DEF Paths
    <2> HIDE DEF p
    <2>. QED
        BY <1>2, <2>1, <2>2
<1>. QED
    BY <1>2, <1>4, <1>5

\* What checkForModules makes of two lists of which at most one swaps.
LEMMA CheckFacts ==
    ASSUME NEW a, NEW b, IsOptions(a), IsOptions(b), ~SwapConflict(a, b)
    PROVE  IsOptions(CheckForModules(a, b))
<1>1. \A op \in Operations : a[op] \in Seq(Module) /\ b[op] \in Seq(Module)
    BY DEF IsOptions, ModuleOptions
<1>2. CheckForModules(a, b) \in ModuleOptions
    BY <1>1 DEF CheckForModules, ModuleOptions
<1>3. "swap" \in Operations
    BY DEF Operations
<1>4. CheckForModules(a, b)["swap"] = a["swap"] \o b["swap"]
    BY <1>3 DEF CheckForModules
<1>5. a["swap"] \in Pairs /\ b["swap"] \in Pairs /\ (a["swap"] = None \/ b["swap"] = None)
    BY DEF IsOptions, SwapConflict
<1>6. a["swap"] \o b["swap"] \in {a["swap"], b["swap"]}
    <2>1. a["swap"] \in Seq(Module) /\ b["swap"] \in Seq(Module)
        BY <1>1, <1>3
    <2>2. CASE a["swap"] = <<>>
        <3>1. a["swap"] \o b["swap"] = b["swap"]
            BY <2>1, <2>2
        <3>. QED
            BY <3>1
    <2>3. CASE b["swap"] = <<>>
        <3>1. a["swap"] \o b["swap"] = a["swap"]
            BY <2>1, <2>3
        <3>. QED
            BY <3>1
    <2>. QED
        BY <1>5, <2>2, <2>3 DEF None
<1>. QED
    BY <1>2, <1>4, <1>5, <1>6 DEF IsOptions

LEMMA NoModulesType == IsOptions(NoModules)
BY DEF IsOptions, NoModules, ModuleOptions, Pairs, None, Operations

LEMMA LoadOnly ==
    ASSUME NEW a, IsOptions(a)
    PROVE  IsOptions([NoModules EXCEPT !["load"] = a["load"]])
<1>1. a["load"] \in Seq(Module) /\ "load" \in Operations /\ "swap" # "load" /\ "swap" \in Operations
    BY DEF IsOptions, ModuleOptions, Operations
<1>2. NoModules \in ModuleOptions /\ NoModules["swap"] \in Pairs
    BY NoModulesType DEF IsOptions
<1>3. [NoModules EXCEPT !["load"] = a["load"]] \in ModuleOptions
    BY <1>1, <1>2 DEF ModuleOptions
<1>4. [NoModules EXCEPT !["load"] = a["load"]]["swap"] = NoModules["swap"]
    BY <1>1, <1>2 DEF ModuleOptions
<1>. QED
    BY <1>2, <1>3, <1>4 DEF IsOptions

\* One of the middleware.
LEMMA PointFacts ==
    ASSUME TypeOK, KnownInv, NEW names, NEW next, PointTo(names, next)
    PROVE  /\ paths' \in Paths /\ IsOptions(mods') /\ todo' \in Seq(Section)
           /\ save' \in [paths : Paths, outer : Paths, mid : BOOLEAN]
           /\ Head(todo) \in Section /\ todo # <<>>
<1>1. todo # <<>> /\ todo \in Seq(Section)
    BY DEF PointTo, TypeOK, StageTypeOK
<1>2. Head(todo) \in Section /\ Tail(todo) \in Seq(Section)
    BY <1>1
<1>3. Prepend(names, Head(todo)) \in Paths /\ paths \in Paths
    BY <1>2, PrependFacts DEF TypeOK, StageTypeOK
<1>4. paths' = paths \/ paths' = Prepend(names, Head(todo))
    BY DEF PointTo
<1>5. todo' = todo \/ todo' = Tail(todo)
    BY DEF PointTo
<1>6. \/ mods' = mods
      \/ /\ ~SwapConflict(logs[Head(todo)].mods, mods)
         /\ mods' = CheckForModules(logs[Head(todo)].mods, mods)
    BY DEF PointTo
<1>7. IsOptions(mods')
    BY <1>2, <1>6, CheckFacts DEF KnownInv
<1>8. save' = save \/ \E b \in BOOLEAN : save' = [save EXCEPT !.mid = b]
    <2>1. CASE ~logs[Head(todo)].known
        BY <2>1 DEF PointTo
    <2>2. CASE logs[Head(todo)].known
        <3>1. save' = [save EXCEPT !.mid = save.mid \/ logs[Head(todo)].loc # NoPlace]
            BY <2>2 DEF PointTo
        <3>2. (save.mid \/ logs[Head(todo)].loc # NoPlace) \in BOOLEAN
            OBVIOUS
        <3>. QED
            BY <3>1, <3>2
    <2>. QED
        BY <2>1, <2>2
<1>9. save' \in [paths : Paths, outer : Paths, mid : BOOLEAN]
    <2>1. save \in [paths : Paths, outer : Paths, mid : BOOLEAN]
        BY DEF TypeOK, StageTypeOK
    <2>. QED
        BY <1>8, <2>1
<1>. QED
    BY <1>1, <1>2, <1>3, <1>4, <1>5, <1>7, <1>9

\* What happens at each place.
Acts ==
    /\ pc = "start" => TestBuildStart \/ AutoStart \/ ShellStart \/ UnitStart \/ WWulf3Start \/ HostStart
    /\ pc = "autotools" => AutoStart
    /\ pc = "middleware" => AutoMiddleware \/ ShellMiddleware
    /\ pc = "prefix" => AutoPrefix
    /\ pc = "autogen" => Autogen
    /\ pc = "configure" => Configure
    /\ pc = "envars" => SetEnvars
    /\ pc = "clean" => MakeClean
    /\ pc = "all" => MakeAll
    /\ pc = "install" => MakeInstall
    /\ pc = "finish" => Finish
    /\ pc = "unwind" => TestBuildEnd
    /\ pc = "move" => ShellMove
    /\ pc = "allocate" => ShellAllocate \/ WWulf3Allocate
    /\ pc = "harass" => ShellHarass
    /\ pc = "run" => ShellRun
    /\ pc = "release" => ShellRelease
    /\ pc = "abandon" => ShellAbandon
    /\ pc = "verdict" => ShellFailed \/ ShellPassed
    /\ pc = "provision" => WWulf3Provision
    /\ pc = "cycle" => WWulf3Cycle
    /\ pc = "paths" => UnitPaths
    /\ pc = "needs" => UnitNeeds
    /\ pc = "modules" => UnitModules
    /\ pc = "tests" => UnitTests
    /\ pc = "revert" => UnitRevert
    /\ pc = "ask" => HostAsk
    /\ pc = "write" => HostWrite
    /\ pc = "raising" => Deactivate

LEMMA ActsHold ==
    ASSUME Inner
    PROVE  Strike \/ Acts
<1>1. CASE TestBuildStart
    BY <1>1 DEF Acts, TestBuildStart, At, AutoAt
<1>2. CASE TestBuildEnd
    BY <1>2 DEF Acts, TestBuildEnd, At, AutoAt
<1>3. CASE AutoStart
    BY <1>3 DEF Acts, AutoStart, At, AutoAt
<1>4. CASE AutoMiddleware
    BY <1>4 DEF Acts, AutoMiddleware, At, AutoAt
<1>5. CASE AutoPrefix
    BY <1>5 DEF Acts, AutoPrefix, At, AutoAt
<1>6. CASE Autogen
    BY <1>6 DEF Acts, Autogen, At, AutoAt
<1>7. CASE Configure
    BY <1>7 DEF Acts, Configure, At, AutoAt
<1>8. CASE SetEnvars
    BY <1>8 DEF Acts, SetEnvars, At, AutoAt
<1>9. CASE MakeClean
    BY <1>9 DEF Acts, MakeClean, At, AutoAt
<1>10. CASE MakeAll
    BY <1>10 DEF Acts, MakeAll, At, AutoAt
<1>11. CASE MakeInstall
    BY <1>11 DEF Acts, MakeInstall, At, AutoAt
<1>12. CASE Finish
    BY <1>12 DEF Acts, Finish, At, AutoAt
<1>13. CASE ShellStart
    BY <1>13 DEF Acts, ShellStart, At, AutoAt
<1>14. CASE ShellMiddleware
    BY <1>14 DEF Acts, ShellMiddleware, At, AutoAt
<1>15. CASE ShellMove
    BY <1>15 DEF Acts, ShellMove, At, AutoAt
<1>16. CASE ShellAllocate
    BY <1>16 DEF Acts, ShellAllocate, At, AutoAt
<1>17. CASE ShellHarass
    BY <1>17 DEF Acts, ShellHarass, At, AutoAt
<1>18. CASE ShellRun
    BY <1>18 DEF Acts, ShellRun, At, AutoAt
<1>19. CASE ShellRelease
    BY <1>19 DEF Acts, ShellRelease, At, AutoAt
<1>20. CASE ShellAbandon
    BY <1>20 DEF Acts, ShellAbandon, At, AutoAt
<1>21. CASE ShellFailed
    BY <1>21 DEF Acts, ShellFailed, At, AutoAt
<1>22. CASE ShellPassed
    BY <1>22 DEF Acts, ShellPassed, At, AutoAt
<1>23. CASE UnitStart
    BY <1>23 DEF Acts, UnitStart, At, AutoAt
<1>24. CASE UnitPaths
    BY <1>24 DEF Acts, UnitPaths, At, AutoAt
<1>25. CASE UnitNeeds
    BY <1>25 DEF Acts, UnitNeeds, At, AutoAt
<1>26. CASE UnitModules
    BY <1>26 DEF Acts, UnitModules, At, AutoAt
<1>27. CASE UnitTests
    BY <1>27 DEF Acts, UnitTests, At, AutoAt
<1>28. CASE UnitRevert
    BY <1>28 DEF Acts, UnitRevert, At, AutoAt
<1>29. CASE WWulf3Start
    BY <1>29 DEF Acts, WWulf3Start, At, AutoAt
<1>30. CASE WWulf3Allocate
    BY <1>30 DEF Acts, WWulf3Allocate, At, AutoAt
<1>31. CASE WWulf3Provision
    BY <1>31 DEF Acts, WWulf3Provision, At, AutoAt
<1>32. CASE WWulf3Cycle
    BY <1>32 DEF Acts, WWulf3Cycle, At, AutoAt
<1>33. CASE HostStart
    BY <1>33 DEF Acts, HostStart, At, AutoAt
<1>34. CASE HostAsk
    BY <1>34 DEF Acts, HostAsk, At, AutoAt
<1>35. CASE HostWrite
    BY <1>35 DEF Acts, HostWrite, At, AutoAt
<1>36. CASE Deactivate
    BY <1>36 DEF Acts, Deactivate, At, AutoAt
<1>. QED
    BY <1>1, <1>2, <1>3, <1>4, <1>5, <1>6, <1>7, <1>8, <1>9, <1>10, <1>11, <1>12,
       <1>13, <1>14, <1>15, <1>16, <1>17, <1>18, <1>19, <1>20, <1>21, <1>22, <1>23,
       <1>24, <1>25, <1>26, <1>27, <1>28, <1>29, <1>30, <1>31, <1>32, <1>33, <1>34,
       <1>35, <1>36, ExecuteCases, Zenon DEF Inner

\* The middleware of a test.
LEMMA MiddleType ==
    ASSUME TypeOK, PlaceInv, pc \in Testing
    PROVE  Middle \in Seq(Section)
<1>1. CASE cur.middleware # <<>>
    BY <1>1, Asked DEF Middle
<1>2. CASE cur.middleware = <<>>
    <2>1. cur.parent \in Section /\ logs \in [Section -> Logs]
        BY Asked DEF PlaceInv, TypeOK, StageTypeOK
    <2>2. logs[cur.parent].middleware \in Seq(Section)
        BY <2>1 DEF Logs
    <2>. QED
        BY <1>2, <2>2 DEF Middle
<1>. QED
    BY <1>1, <1>2

\* A path that is kept as a string.
LEMMA AsStringType ==
    ASSUME NEW path \in Seq(Entries)
    PROVE  AsString(path) \in Seq(Entries)
<1>1. <<Blank>> \in Seq(Entries)
    BY DEF Entries
<1>. QED
    BY <1>1 DEF AsString

\* Paths, and what was put aside.
LEMMA PathsType ==
    ASSUME TypeOK, KnownInv, PlaceInv, Inner
    PROVE  paths' \in Paths /\ save' \in [paths : Paths, outer : Paths, mid : BOOLEAN]
<1> DEFINE Aside == [paths : Paths, outer : Paths, mid : BOOLEAN]
<1>0. /\ paths \in Paths /\ save \in Aside
      /\ save.paths \in Paths /\ save.outer \in Paths /\ save.mid \in BOOLEAN
    BY DEF TypeOK, StageTypeOK
<1>1. CASE Strike
    BY <1>0, <1>1 DEF Strike, autoVars, stageVars
<1>2. CASE Acts
    <2>f. Frames
        BY FramesHold
    <2>1. CASE pc = "start"
        <3>1. CASE TestBuildStart
            <4>1. CASE Len(cur.middleware) # 1 \/ ~logs[Head(cur.middleware)].known
                BY <1>0, <3>1, <4>1 DEF TestBuildStart
            <4>2. CASE ~(Len(cur.middleware) # 1 \/ ~logs[Head(cur.middleware)].known)
                <5>1. Head(cur.middleware) \in Section
                    BY <4>2, Asked
                <5>2. paths' = Prepend({"bin"}, Head(cur.middleware))
                      /\ save' = [save EXCEPT !.paths = paths']
                    BY <3>1, <4>2 DEF TestBuildStart
                <5>3. paths' \in Paths
                    BY <5>1, <5>2, PrependFacts
                <5>. QED
                    BY <1>0, <5>2, <5>3
            <4>. QED
                BY <4>1, <4>2
        <3>2. CASE ~TestBuildStart
            <4>1. paths' = paths /\ save' = save
                BY <1>2, <2>1, <3>2 DEF Acts, AutoStart, ShellStart, UnitStart, WWulf3Start,
                   HostStart, autoVars, stageVars
            <4>. QED
                BY <1>0, <4>1
        <3>. QED
            BY <3>1, <3>2
    <2>2. CASE pc = "middleware"
        <3>1. CASE PointTo({"bin", "inc"}, "middleware")
            BY <3>1, PointFacts
        <3>2. CASE ~PointTo({"bin", "inc"}, "middleware")
            <4>1. UNCHANGED <<paths, save>>
                BY <1>2, <2>2, <3>2, MiddleCases DEF Acts, ShellList, ApplyWanted, stageVars
            <4>. QED
                BY <1>0, <4>1
        <3>. QED
            BY <3>1, <3>2
    <2>3. CASE pc = "paths"
        <3>1. UnitPaths
            BY <1>2, <2>3 DEF Acts
        <3>2. CASE Middle = <<>> \/ logs[Middle[1]].loc = NoPlace
            BY <1>0, <3>1, <3>2 DEF UnitPaths
        <3>3. CASE ~(Middle = <<>> \/ logs[Middle[1]].loc = NoPlace)
            <4>1. paths' = Prepend({"bin"}, Middle[1])
                  /\ \E b \in BOOLEAN : save' = [save EXCEPT !.mid = b]
                BY <3>1, <3>3 DEF UnitPaths
            <4>2. Middle \in Seq(Section)
                BY <2>3, MiddleType DEF Testing
            <4>3. Middle[1] \in Section
                BY <3>3, <4>2
            <4>4. Prepend({"bin"}, Middle[1]) \in Paths
                BY <4>3, PrependFacts
            <4>5. save' \in Aside
                BY <1>0, <4>1
            <4>. QED
                BY <4>1, <4>4, <4>5
        <3>. QED
            BY <3>2, <3>3
    <2>4. CASE pc \in {"finish", "verdict", "revert"}
        <3>1. \/ paths' = paths \/ paths' = save.paths
              \/ paths' = [bin |-> AsString(save.paths.bin), inc |-> AsString(save.paths.inc)]
              \/ paths' = [paths EXCEPT !.bin = AsString(save.paths.bin)]
            BY <1>2, <2>4 DEF Acts, Finish, ShellFailed, ShellPassed, UnitRevert, PathsBack,
               stageVars
        <3>2. save' = save
            BY <2>4, <2>f DEF Frames
        <3>3. AsString(save.paths.bin) \in Seq(Entries) /\ AsString(save.paths.inc) \in Seq(Entries)
            BY <1>0, AsStringType DEF Paths
        <3> DEFINE a == AsString(save.paths.bin)
                   b == AsString(save.paths.inc)
        <3>4. [bin |-> a, inc |-> b] \in Paths /\ [paths EXCEPT !.bin = a] \in Paths
            <4>1. a \in Seq(Entries) /\ b \in Seq(Entries)
                BY <3>3
            <4> HIDE DEF a, b
            <4>. QED
                BY <1>0, <4>1 DEF Paths
        <3>5. paths' \in Paths
            BY <1>0, <3>1, <3>4
        <3>. QED
            BY <1>0, <3>2, <3>5
    <2>5. CASE pc = "unwind"
        <3>1. paths' = paths \/ paths' = [paths EXCEPT !.bin = AsString(save.outer.bin)]
            BY <1>2, <2>5 DEF Acts, TestBuildEnd
        <3>2. save' = save
            BY <2>5, <2>f DEF Frames
        <3>4. AsString(save.outer.bin) \in Seq(Entries)
            BY <1>0, AsStringType DEF Paths
        <3>3. paths' \in Paths
            BY <1>0, <3>1, <3>4 DEF Paths
        <3>. QED
            BY <1>0, <3>2, <3>3
    <2>6. CASE pc \notin {"start", "middleware", "finish", "unwind", "paths", "verdict", "revert"}
        BY <1>0, <2>6, <2>f DEF Frames
    <2>. QED
        BY <2>1, <2>2, <2>3, <2>4, <2>5, <2>6
<1>. QED
    BY <1>1, <1>2, ActsHold

\* Modules wanted, and middleware to point to.
LEMMA WantedType ==
    ASSUME TypeOK, KnownInv, PlaceInv, Inner
    PROVE  IsOptions(mods') /\ mods' \in ModuleOptions /\ todo' \in Seq(Section)
<1>0. IsOptions(mods) /\ todo \in Seq(Section)
    BY DEF TypeOK, StageTypeOK, KnownInv
<1>f. Frames
    BY FramesHold
<1>1. IsOptions(mods')
    <2>1. CASE Strike
        BY <1>0, <2>1 DEF Strike, autoVars, stageVars
    <2>2. CASE Acts /\ pc = "start"
        <3>1. CASE TestBuildStart
            <4>1. CASE Len(cur.middleware) # 1 \/ ~logs[Head(cur.middleware)].known
                BY <1>0, <3>1, <4>1 DEF TestBuildStart
            <4>2. CASE ~(Len(cur.middleware) # 1 \/ ~logs[Head(cur.middleware)].known)
                <5>1. Head(cur.middleware) \in Section
                    BY <4>2, Asked
                <5>2. mods' = [NoModules EXCEPT !["load"] = logs[Head(cur.middleware)].mods["load"]]
                    BY <3>1, <4>2 DEF TestBuildStart
                <5>3. IsOptions(logs[Head(cur.middleware)].mods)
                    BY <5>1 DEF KnownInv
                <5>. QED
                    BY <5>2, <5>3, LoadOnly
            <4>. QED
                BY <4>1, <4>2
        <3>2. CASE UnitStart
            <4>1. \/ mods' = mods
                  \/ /\ cur.parent # NoSection /\ ~SwapConflict(logs[cur.parent].mods, mods)
                     /\ mods' = CheckForModules(logs[cur.parent].mods, mods)
                BY <3>2 DEF UnitStart
            <4>2. cur.parent # NoSection => IsOptions(logs[cur.parent].mods)
                BY Asked DEF KnownInv
            <4>. QED
                BY <1>0, <4>1, <4>2, CheckFacts
        <3>3. CASE ~TestBuildStart /\ ~UnitStart
            <4>1. mods' = mods
                BY <2>2, <3>3 DEF Acts, AutoStart, ShellStart, WWulf3Start, HostStart, autoVars,
                   stageVars
            <4>. QED
                BY <1>0, <4>1
        <3>. QED
            BY <3>1, <3>2, <3>3
    <2>3. CASE Acts /\ pc = "middleware"
        <3>1. CASE PointTo({"bin", "inc"}, "middleware")
            BY <3>1, PointFacts
        <3>2. CASE ~PointTo({"bin", "inc"}, "middleware")
            <4>1. mods' = mods
                BY <2>3, <3>2, MiddleCases DEF Acts, ShellList, ApplyWanted, stageVars
            <4>. QED
                BY <1>0, <4>1
        <3>. QED
            BY <3>1, <3>2
    <2>4. CASE Acts /\ pc = "needs"
        <3>1. UnitNeeds
            BY <2>4 DEF Acts
        <3>2. \/ mods' = mods
              \/ /\ cur.middleware # <<>> /\ ~SwapConflict(logs[Middle[1]].mods, mods)
                 /\ mods' = CheckForModules(logs[Middle[1]].mods, mods)
            BY <3>1 DEF UnitNeeds
        <3>3. cur.middleware # <<>> => Middle[1] \in Section
            BY Asked DEF Middle
        <3>4. cur.middleware # <<>> => IsOptions(logs[Middle[1]].mods)
            BY <3>3 DEF KnownInv
        <3>. QED
            BY <1>0, <3>2, <3>4, CheckFacts
    <2>5. CASE pc \notin {"start", "middleware", "needs"}
        BY <1>0, <1>f, <2>5 DEF Frames
    <2>. QED
        BY <2>1, <2>2, <2>3, <2>4, <2>5, ActsHold
<1>2. todo' \in Seq(Section)
    <2>1. CASE Strike
        BY <1>0, <2>1 DEF Strike, autoVars, stageVars
    <2>2. CASE Acts /\ pc = "middleware"
        <3>1. CASE PointTo({"bin", "inc"}, "middleware")
            BY <3>1, PointFacts
        <3>2. CASE ~PointTo({"bin", "inc"}, "middleware")
            <4>1. todo' = todo \/ todo' = <<>>
                BY <2>2, <3>2, MiddleCases DEF Acts, ShellList, ApplyWanted, stageVars
            <4>2. <<>> \in Seq(Section)
                OBVIOUS
            <4>. QED
                BY <1>0, <4>1, <4>2
        <3>. QED
            BY <3>1, <3>2
    <2>3. CASE pc # "middleware"
        BY <1>0, <1>f, <2>3 DEF Frames
    <2>. QED
        BY <2>1, <2>2, <2>3, ActsHold
<1>. QED
    BY <1>1, <1>2 DEF IsOptions

\* Wherever something is made there is a place for it.
LEMMA SourceIsPlace ==
    ASSUME TypeOK, PlaceInv
    PROVE  pc \in Building \cup Commanding \cup Testing \cup {"middleware", "ask", "write"}
              => Source \in Place /\ Prefix \in Place
BY Asked DEF PlaceInv

\* What is on the disk.
LEMMA DiskType ==
    ASSUME TypeOK, PlaceInv, Inner
    PROVE  built' \in [Place -> {"none", "partial", "whole"}] /\ complete' \subseteq Place
<1> DEFINE Made == {"none", "partial", "whole"}
<1>0. built \in [Place -> Made] /\ complete \subseteq Place
    BY DEF TypeOK, StageTypeOK
<1>f. Frames
    BY FramesHold
<1>p. pc \in Building \cup Commanding \cup Testing \cup {"middleware", "ask", "write"}
         => Source \in Place /\ Prefix \in Place
    BY SourceIsPlace
<1>l. ASSUME NEW p \in Place, NEW x \in Made, Leaves(p, x) PROVE built' \in [Place -> Made]
    BY <1>0, <1>l DEF Leaves
<1>1. built' \in [Place -> Made]
    <2>1. CASE Strike
        BY <1>0, <2>1 DEF Strike, autoVars, stageVars
    <2>2. CASE Acts /\ pc = "clean"
        <3>1. Source \in Place
            BY <1>p, <2>2 DEF Building
        <3>2. \E x \in {"none", "partial", built[Source]} : Leaves(Source, x)
            BY <2>2 DEF Acts, MakeClean
        <3>. QED
            BY <1>0, <1>l, <3>1, <3>2
    <2>3. CASE Acts /\ pc = "all"
        <3>1. Source \in Place
            BY <1>p, <2>3 DEF Building
        <3>2. \E x \in {"whole", "partial"} : Leaves(Source, x)
            BY <2>3 DEF Acts, MakeAll
        <3>. QED
            BY <1>l, <3>1, <3>2
    <2>4. CASE Acts /\ pc = "install"
        <3>1. Prefix \in Place
            BY <1>p, <2>4 DEF Building
        <3>2. built' = built \/ \E x \in {"whole", "partial", built[Prefix]} : Leaves(Prefix, x)
            BY <2>4 DEF Acts, MakeInstall
        <3>. QED
            BY <1>0, <1>l, <3>1, <3>2
    <2>5. CASE Acts /\ pc \in {"move", "ask"}
        <3>1. Source \in Place
            BY <1>p, <2>5 DEF Commanding
        <3>2. Leaves(Source, IF built[Source] = "none" THEN "partial" ELSE built[Source])
            BY <2>5 DEF Acts, ShellMove, HostAsk
        <3>3. (IF built[Source] = "none" THEN "partial" ELSE built[Source]) \in Made
            BY <1>0, <3>1
        <3>. QED
            BY <1>l, <3>1, <3>2, <3>3
    <2>6. CASE Acts /\ pc = "run"
        <3>1. Source \in Place
            BY <1>p, <2>6 DEF Commanding
        <3>2. \E x \in {"partial", "whole"} : Leaves(Source, x)
            BY <2>6 DEF Acts, ShellRun
        <3>. QED
            BY <1>l, <3>1, <3>2
    <2>7. CASE pc \notin {"clean", "all", "install", "move", "run", "ask"}
        BY <1>0, <1>f, <2>7 DEF Frames
    <2>. QED
        BY <2>1, <2>2, <2>3, <2>4, <2>5, <2>6, <2>7, ActsHold
<1>2. complete' \subseteq Place
    <2>1. CASE Strike
        BY <1>0, <2>1 DEF Strike, autoVars, stageVars
    <2>2. CASE Acts /\ pc = "finish"
        <3>1. Prefix \in Place
            BY <1>p, <2>2 DEF Building
        <3>2. complete' \subseteq complete \cup {Prefix}
            BY <2>2 DEF Acts, Finish
        <3>. QED
            BY <1>0, <3>1, <3>2
    <2>3. CASE pc # "finish"
        BY <1>0, <1>f, <2>3 DEF Frames
    <2>. QED
        BY <2>1, <2>2, <2>3, ActsHold
<1>. QED
    BY <1>1, <1>2

\* Variables of make_envars.
LEMMA EnvarsType ==
    ASSUME TypeOK, Inner
    PROVE  envars' \in [Envar -> {"none", "user", "section"}] /\ loaded' \in Seq(Envar)
<1>0. envars \in [Envar -> {"none", "user", "section"}] /\ loaded \in Seq(Envar)
    BY DEF TypeOK, StageTypeOK
<1>f. Frames
    BY FramesHold
<1>u. UnsetEnvars => /\ envars' \in [Envar -> {"none", "user", "section"}]
                     /\ loaded' \in Seq(Envar)
    BY <1>0 DEF UnsetEnvars
<1>k. ASSUME envars' = envars, loaded' = loaded
      PROVE  envars' \in [Envar -> {"none", "user", "section"}] /\ loaded' \in Seq(Envar)
    BY <1>0, <1>k
<1>1. CASE Strike
    BY <1>1, <1>k DEF Strike, autoVars, stageVars
<1>2. CASE Acts /\ pc \in {"autogen", "configure", "clean", "all"}
    <2>1. CASE StepFails
        BY <2>1, <1>u DEF StepFails
    <2>2. CASE ~StepFails
        BY <1>2, <1>k, <2>2 DEF Acts, Autogen, Configure, MakeClean, MakeAll, StepDone
    <2>. QED
        BY <2>1, <2>2
<1>3. CASE Acts /\ pc = "envars"
    <2>1. /\ loaded' = cur.envars
          /\ envars' = [v \in Envar |-> IF v \in Elems(cur.envars) THEN "section" ELSE envars[v]]
        BY <1>3 DEF Acts, SetEnvars
    <2>. QED
        BY <1>0, <2>1, Asked
<1>4. CASE Acts /\ pc = "finish"
    BY <1>4, <1>u DEF Acts, Finish
<1>5. CASE pc \notin {"autogen", "configure", "envars", "clean", "all", "finish"}
    BY <1>f, <1>k, <1>5 DEF Frames
<1>. QED
    BY <1>1, <1>2, <1>3, <1>4, <1>5, ActsHold

\* How many allocations there are after a step.
LEMMA HeldStep ==
    ASSUME PlaceInv, Inner
    PROVE  \/ held' = held
           \/ \E p \in Holders : held' = [held EXCEPT ![p] = IF @ > 0 THEN @ - 1 ELSE 0]
           \/ /\ pc = "allocate" /\ pc' # "allocate" /\ cur.plugin \in Holders
              /\ held' = [held EXCEPT ![cur.plugin] = @ + 1]
<1>f. Frames
    BY FramesHold
<1>h. {"Shell", "WWulf3"} \subseteq Holders
    BY DEF Holders
<1>1. CASE Strike
    <2>1. CASE held' = held
        BY <2>1
    <2>2. CASE held' # held
        <3>1. pc = "allocate" /\ held' = [held EXCEPT ![cur.plugin] = @ + 1] /\ pc' = "raising"
            BY <1>1, <2>2 DEF Strike, Throw, Go
        <3>. QED
            BY <3>1 DEF PlaceInv
    <2>. QED
        BY <2>1, <2>2
<1>2. CASE Acts /\ pc = "allocate"
    <2>1. CASE ShellAllocate
        BY <1>2, <2>1, <1>h DEF ShellAllocate, At, Go, Fail, Return
    <2>2. CASE WWulf3Allocate
        BY <1>2, <2>2, <1>h DEF WWulf3Allocate, At, Go, Throw
    <2>. QED
        BY <1>2, <2>1, <2>2 DEF Acts
<1>3. CASE Acts /\ pc \in {"move", "release", "abandon", "provision", "cycle", "raising"}
    <2>1. CASE ShellMove
        BY <2>1 DEF ShellMove
    <2>2. CASE ShellRelease
        BY <2>2, <1>h DEF ShellRelease, Deallocate, Returned, Refused
    <2>3. CASE ShellAbandon
        BY <2>3, <1>h DEF ShellAbandon, Returned, Refused
    <2>4. CASE WWulf3Provision
        BY <2>4, <1>h DEF WWulf3Provision, Returned, Refused
    <2>5. CASE WWulf3Cycle
        BY <2>5, <1>h DEF WWulf3Cycle, Returned, Refused
    <2>6. CASE Deactivate
        BY <2>6, <1>h DEF Deactivate, Returned, Refused
    <2>. QED
        BY <1>3, <2>1, <2>2, <2>3, <2>4, <2>5, <2>6 DEF Acts
<1>4. CASE pc \notin {"move", "allocate", "release", "abandon", "provision", "cycle", "raising"}
    BY <1>f, <1>4 DEF Frames
<1>. QED
    BY <1>1, <1>2, <1>3, <1>4, ActsHold

\* No more than one for each section, whoever returns them.
LEMMA HeldHolds ==
    ASSUME TypeOK, PlaceInv, HeldInv, Inner, Moves
    PROVE  held' \in [Holders -> 0 .. MaxRuns] /\ HeldInv'
<1>0. /\ held \in [Holders -> 0 .. MaxRuns] /\ MaxRuns \in Nat /\ left \in Nat
      /\ \A p \in Holders : held[p] \in Nat /\ held[p] + left <= MaxRuns
    BY Asked DEF TypeOK, ShellTypeOK, HeldInv
<1>1. cur' = cur /\ left' = left
    BY FramesHold DEF Frames
<1>2. ASSUME NEW p \in Holders
      PROVE  /\ held'[p] \in Nat /\ held'[p] + left <= MaxRuns
             /\ cur.plugin = p /\ pc' \in {"start", "middleware", "move", "allocate"}
                   => held'[p] + left < MaxRuns
    <2>1. CASE pc = "allocate" /\ pc' # "allocate" /\ cur.plugin \in Holders
               /\ held' = [held EXCEPT ![cur.plugin] = @ + 1]
        <3>1. cur.plugin = p => held[p] + left < MaxRuns /\ held'[p] = held[p] + 1
            BY <1>0, <2>1 DEF HeldInv
        <3>2. cur.plugin # p => held'[p] = held[p]
            BY <1>0, <2>1
        <3>3. pc' \notin {"start", "middleware", "move", "allocate"}
            BY <2>1 DEF Moves
        <3>. QED
            BY <1>0, <3>1, <3>2, <3>3
    <2>2. CASE \/ held' = held
               \/ \E q \in Holders : held' = [held EXCEPT ![q] = IF @ > 0 THEN @ - 1 ELSE 0]
        <3>1. held'[p] \in Nat /\ held'[p] <= held[p]
            BY <1>0, <2>2
        <3>2. pc' \in {"start", "middleware", "move", "allocate"} /\ cur.plugin = p
                 => pc \in {"start", "middleware", "move", "allocate"}
            BY DEF Moves, Caller, PlaceInv, Places, AtRest, Holders
        <3>3. pc' \in {"start", "middleware", "move", "allocate"} /\ cur.plugin = p
                 => held[p] + left < MaxRuns
            BY <3>2 DEF HeldInv
        <3>. QED
            BY <1>0, <3>1, <3>3
    <2>. QED
        BY <2>1, <2>2, HeldStep
<1>3. held' \in [Holders -> 0 .. MaxRuns]
    <2>1. \A p \in Holders : held'[p] \in 0 .. MaxRuns
        BY <1>0, <1>2
    <2>2. DOMAIN held' = Holders /\ held' = [p \in Holders |-> held'[p]]
        BY <1>0, HeldStep
    <2>. QED
        BY <2>1, <2>2
<1>. QED
    BY <1>1, <1>2, <1>3 DEF HeldInv

\* What is known of nodes and of harassers.
LEMMA NodesType ==
    ASSUME TypeOK, PlaceInv, HeldInv, Inner, Moves
    PROVE  ShellTypeOK'
<1>0. /\ allocated \in [Holders -> BOOLEAN] /\ excused \subseteq Holders
      /\ shell \in [activated : BOOLEAN, commands : BOOLEAN]
      /\ harassed \subseteq 0 .. MaxRuns /\ left \in 0 .. MaxRuns /\ result \in {0, 1}
      /\ cur.allocates \in BOOLEAN /\ {"Shell", "WWulf3"} \subseteq Holders
    BY Asked DEF TypeOK, ShellTypeOK, StageTypeOK, SharedTypeOK, Holders
<1>f. Frames
    BY FramesHold
<1>1. allocated' \in [Holders -> BOOLEAN]
    <2>1. \/ allocated' = allocated
          \/ \E p \in Holders, b \in BOOLEAN : allocated' = [allocated EXCEPT ![p] = b]
        <3>1. CASE Strike
            BY <3>1 DEF Strike
        <3>2. CASE Acts /\ pc = "move"
            BY <1>0, <3>2 DEF Acts, ShellMove
        <3>3. CASE Acts /\ pc = "allocate"
            BY <1>0, <3>3 DEF Acts, ShellAllocate, WWulf3Allocate
        <3>4. CASE Acts /\ pc = "release"
            BY <1>0, <3>4 DEF Acts, ShellRelease, Deallocate, Returned, Refused
        <3>5. CASE Acts /\ pc = "abandon"
            BY <1>0, <3>5 DEF Acts, ShellAbandon, Returned, Refused
        <3>6. CASE Acts /\ pc = "provision"
            BY <1>0, <3>6 DEF Acts, WWulf3Provision, Returned, Refused
        <3>7. CASE Acts /\ pc = "cycle"
            BY <1>0, <3>7 DEF Acts, WWulf3Cycle, Returned, Refused
        <3>8. CASE Acts /\ pc = "raising"
            BY <1>0, <3>8 DEF Acts, Deactivate, Returned, Refused
        <3>9. CASE pc \notin {"move", "allocate", "release", "abandon", "provision", "cycle",
                              "raising"}
            BY <1>f, <3>9 DEF Frames
        <3>. QED
            BY <3>1, <3>2, <3>3, <3>4, <3>5, <3>6, <3>7, <3>8, <3>9, ActsHold
    <2>. QED
        BY <1>0, <2>1
<1>2. excused' \subseteq Holders
    <2>1. excused' = excused \/ \E p \in Holders : excused' = excused \cup {p}
        <3>1. CASE Strike
            BY <3>1 DEF Strike
        <3>2. CASE Acts /\ pc = "move"
            BY <1>0, <3>2 DEF Acts, ShellMove
        <3>3. CASE Acts /\ pc = "allocate"
            BY <1>0, <3>3 DEF Acts, ShellAllocate, WWulf3Allocate
        <3>4. CASE Acts /\ pc = "release"
            BY <1>0, <3>4 DEF Acts, ShellRelease, Deallocate, Returned, Refused
        <3>5. CASE Acts /\ pc = "abandon"
            BY <1>0, <3>5 DEF Acts, ShellAbandon, Returned, Refused
        <3>6. CASE Acts /\ pc = "provision"
            BY <1>0, <3>6 DEF Acts, WWulf3Provision, Returned, Refused
        <3>7. CASE Acts /\ pc = "cycle"
            BY <1>0, <3>7 DEF Acts, WWulf3Cycle, Returned, Refused
        <3>8. CASE Acts /\ pc = "raising"
            BY <1>0, <3>8 DEF Acts, Deactivate, Returned, Refused
        <3>9. CASE pc \notin {"move", "allocate", "release", "abandon", "provision", "cycle",
                              "raising"}
            BY <1>f, <3>9 DEF Frames
        <3>. QED
            BY <3>1, <3>2, <3>3, <3>4, <3>5, <3>6, <3>7, <3>8, <3>9, ActsHold
    <2>. QED
        BY <1>0, <2>1
<1>3. shell' \in [activated : BOOLEAN, commands : BOOLEAN]
    <2>1. CASE Strike
        BY <1>0, <2>1 DEF Strike
    <2>2. CASE Acts /\ pc = "start"
        <3>1. CASE ShellStart
            <4>1. shell' = [activated |-> TRUE, commands |-> cur.allocates]
                BY <3>1 DEF ShellStart
            <4>2. cur.allocates = TRUE \/ cur.allocates = FALSE
                BY <1>0
            <4>. QED
                BY <4>1, <4>2
        <3>2. CASE ~ShellStart
            <4>1. ~At("Shell", "start")
                BY <2>2, <3>2 DEF Acts, At, TestBuildStart, AutoStart, UnitStart, WWulf3Start,
                   HostStart
            <4>. QED
                BY <1>0, <1>f, <2>2, <4>1 DEF Frames
        <3>. QED
            BY <3>1, <3>2
    <2>3. CASE Acts /\ pc = "raising"
        BY <1>0, <2>3 DEF Acts, Deactivate
    <2>4. CASE pc \notin {"start", "raising"}
        BY <1>0, <1>f, <2>4 DEF Frames, At
    <2>. QED
        BY <2>1, <2>2, <2>3, <2>4, ActsHold
<1>4. harassed' \subseteq 0 .. MaxRuns
    <2>1. CASE Strike
        BY <1>0, <2>1 DEF Strike
    <2>2. CASE Acts /\ pc = "harass"
        BY <1>0, <2>2 DEF Acts, ShellHarass
    <2>3. CASE Acts /\ pc = "run"
        BY <1>0, <2>3 DEF Acts, ShellRun
    <2>4. CASE pc \notin {"harass", "run"}
        BY <1>0, <1>f, <2>4 DEF Frames
    <2>. QED
        BY <2>1, <2>2, <2>3, <2>4, ActsHold
<1>5. result' \in {0, 1}
    <2>1. CASE Strike
        BY <1>0, <2>1 DEF Strike
    <2>2. CASE Acts /\ pc = "run"
        BY <2>2 DEF Acts, ShellRun
    <2>3. CASE pc # "run"
        BY <1>0, <1>f, <2>3 DEF Frames
    <2>. QED
        BY <2>1, <2>2, <2>3, ActsHold
<1>. QED
    BY <1>1, <1>2, <1>3, <1>4, <1>5, HeldHolds DEF ShellTypeOK

\* Hosts that are chosen are hosts.
LEMMA ChosenType ==
    ASSUME TypeOK
    PROVE  /\ Chosen \in Seq(Node)
           /\ cur.den # 0 =>
                 /\ Wanted \in Nat
                 /\ Len(Chosen) = IF Wanted < Len(cur.nodes) THEN Wanted ELSE Len(cur.nodes)
<1> DEFINE A == Those(cur.nodes, status)
           B == Those(cur.nodes, Node \ status)
           n == IF Wanted < Len(A \o B) THEN Wanted ELSE Len(A \o B)
<1>1. cur.nodes \in Seq(Node) /\ cur.num \in Nat /\ cur.den \in Nat
    BY Asked
<1>2. /\ A \in Seq(Node) /\ B \in Seq(Node) /\ Len(A) + Len(B) = Len(cur.nodes)
    BY <1>1, ThoseFacts
<1>3. CASE cur.den = 0
    BY <1>1, <1>3 DEF Chosen
<1>4. CASE cur.den # 0
    <2>1. Wanted \in Nat
        <3>1. Len(cur.nodes) * cur.num \in Nat
            BY <1>1
        <3>2. Len(cur.nodes) * cur.num + cur.den - 1 \in Nat /\ cur.den \in Nat /\ cur.den > 0
            BY <1>1, <1>4, <3>1
        <3>. QED
            BY <3>2 DEF Wanted
    <2>2. Chosen = SubSeq(A \o B, 1, n)
        BY <1>4 DEF Chosen, First
    <2> HIDE DEF A, B
    <2>3. A \o B \in Seq(Node) /\ Len(A \o B) = Len(cur.nodes)
        BY <1>2
    <2>4. n \in 0 .. Len(A \o B)
        BY <2>1, <2>3
    <2>5. n = IF Wanted < Len(cur.nodes) THEN Wanted ELSE Len(cur.nodes)
        BY <2>3
    <2> HIDE DEF n
    <2>6. SubSeq(A \o B, 1, n) \in Seq(Node) /\ Len(SubSeq(A \o B, 1, n)) = n
        BY <2>3, <2>4
    <2>. QED
        BY <2>1, <2>2, <2>5, <2>6
<1>. QED
    BY <1>3, <1>4

\* A step within a section leads to a place that is its plugin's.
LEMMA PlaceStep ==
    ASSUME TypeOK, PlaceInv, Inner
    PROVE  PlaceInv' /\ Source' = Source /\ Prefix' = Prefix
<1>1. cur' = cur /\ logs' = logs
    BY FramesHold DEF Frames
<1>2. Source' = Source /\ Prefix' = Prefix
    BY <1>1 DEF Source, Prefix, Me
<1>3. Moves
    BY MovesHold
<1> USE <1>1, <1>2, <1>3 DEF Moves, AtRest, Caller, Builders
<1>4. pc' \in Places
    BY DEF PlaceInv, Places
<1>5. pc' \in {"autotools", "unwind"} => cur.plugin = "DefaultTestBuild"
    BY DEF PlaceInv, Places
<1>6. pc' \in Building => cur.plugin \in Builders
    BY DEF PlaceInv, Places, Building
<1>7. pc' = "middleware" => cur.plugin \in Builders \cup {"Shell"}
    BY DEF PlaceInv, Places
<1>8. pc' \in Commanding => cur.plugin = "Shell"
    BY DEF PlaceInv, Places, Commanding
<1>9. pc' = "allocate" => cur.plugin \in Holders
    BY DEF PlaceInv, Places, Commanding, Holders
<1>10. pc' \in {"provision", "cycle"} => cur.plugin = "WWulf3"
    BY DEF PlaceInv, Places
<1>11. pc' \in Testing => cur.plugin = "PMIxUnit" /\ cur.parent # NoSection
    BY DEF PlaceInv, Places, Testing
<1>12. pc' \in {"ask", "write"} => cur.plugin = "Hostfile"
    BY DEF PlaceInv, Places
<1>13. \/ pc' \in Building \cup {"middleware"} \cup Commanding \cup Testing \cup {"ask", "write"}
       \/ cur.plugin = "Shell" /\ pc' = "allocate"
       => Source # NoPlace
    BY DEF PlaceInv, Places, Building, Commanding, Testing, At
<1> HIDE <1>3 DEF Moves, AtRest, Caller, Builders
<1>. QED
    BY <1>4, <1>5, <1>6, <1>7, <1>8, <1>9, <1>10, <1>11, <1>12, <1>13 DEF PlaceInv, At

\* The hostfiles, and the nodes that are idle.
LEMMA HostsType ==
    ASSUME TypeOK, PlaceInv, Inner
    PROVE  hosts' \in [Place -> Seq(Node) \cup {NoFile}] /\ status' \subseteq Node
<1>0. hosts \in [Place -> Seq(Node) \cup {NoFile}] /\ status \subseteq Node
    BY DEF TypeOK
<1>f. Frames
    BY FramesHold
<1>1. CASE Strike
    BY <1>0, <1>1 DEF Strike, hostVars
<1>2. CASE Acts /\ pc = "ask"
    BY <1>0, <1>2 DEF Acts, HostAsk
<1>3. CASE Acts /\ pc = "write"
    <2>1. hosts' = hosts \/ hosts' = [hosts EXCEPT ![Source] = Chosen]
        BY <1>3 DEF Acts, HostWrite
    <2>2. status' = status
        BY <1>3 DEF Acts, HostWrite
    <2>3. Chosen \in Seq(Node)
        BY ChosenType
    <2>4. hosts' \in [Place -> Seq(Node) \cup {NoFile}]
        BY <1>0, <2>1, <2>3
    <2>. QED
        BY <1>0, <2>2, <2>4
<1>4. CASE pc \notin {"ask", "write"}
    BY <1>0, <1>f, <1>4 DEF Frames
<1>. QED
    BY <1>1, <1>2, <1>3, <1>4, ActsHold

\* What the invariants of types need of each other.
TInv == TypeOK /\ PlaceInv /\ KnownInv /\ HeldInv

LEMMA InnerTypes ==
    ASSUME TInv, Inner, struck' \in BOOLEAN, latest' \in [Section -> {"none", "good", "failed"}],
           ran' \subseteq Section
    PROVE  TInv'
<1>t. TypeOK /\ PlaceInv /\ KnownInv /\ HeldInv /\ IsOptions(mods)
    BY DEF TInv, KnownInv
<1>m. Moves /\ UNCHANGED <<cur, entry, left, logs, dry>>
    BY MovesHold, FramesHold DEF Frames
<1>1. SharedTypeOK'
    BY <1>t, SharedHolds
<1>2. logs' \in [Section -> Logs] /\ dry' \in BOOLEAN
    BY <1>t, <1>m DEF TypeOK, StageTypeOK
<1>3. paths' \in Paths /\ save' \in [paths : Paths, outer : Paths, mid : BOOLEAN]
    BY <1>t, PathsType
<1>4. envars' \in [Envar -> {"none", "user", "section"}] /\ loaded' \in Seq(Envar)
    BY <1>t, EnvarsType
<1>5. built' \in [Place -> {"none", "partial", "whole"}] /\ complete' \subseteq Place
    BY <1>t, DiskType
<1>6. IsOptions(mods') /\ mods' \in ModuleOptions /\ todo' \in Seq(Section)
    BY <1>t, WantedType
<1>7. ShellTypeOK' /\ HeldInv'
    BY <1>t, <1>m, NodesType, HeldHolds
<1>8. hosts' \in [Place -> Seq(Node) \cup {NoFile}] /\ status' \subseteq Node
    BY <1>t, HostsType
<1>9. PlaceInv' /\ pc' \in Places
    BY <1>t, PlaceStep DEF PlaceInv
<1>10. KnownInv'
    BY <1>t, <1>m, <1>6 DEF KnownInv
<1>11. StageTypeOK'
    BY <1>1, <1>2, <1>3, <1>4, <1>5, <1>6 DEF StageTypeOK
<1>12. TypeOK'
    BY <1>4, <1>7, <1>8, <1>9, <1>11 DEF TypeOK
<1>. QED
    BY <1>7, <1>9, <1>10, <1>12 DEF TInv

\* The log of the section that ended.
LEMMA LogResultsType ==
    ASSUME TInv
    PROVE  /\ LogResults \in [Section -> Logs]
           /\ \A s \in Section : /\ IsOptions(LogResults[s].mods)
                                 /\ ~LogResults[s].known => LogResults[s].loc = NoPlace
<1> DEFINE st == IF pc = "raised" THEN 1 ELSE log.status
           l == IF log.located THEN Prefix ELSE NoPlace
           m == IF cur.plugin = "PMIxUnit" \/ (cur.plugin = "Shell" /\ log.memo)
                THEN <<>> ELSE cur.middleware
           r == [known |-> TRUE, status |-> st, loc |-> l, mods |-> cur.mods, middleware |-> m]
<1>1. /\ st \in {0, 1} /\ l \in Place \cup {NoPlace} /\ m \in Seq(Section)
      /\ IsOptions(cur.mods) /\ cur.mods \in ModuleOptions /\ Me \in Section
    <2>1. TypeOK
        BY DEF TInv
    <2>2. st \in {0, 1}
        BY <2>1, LogFacts
    <2>3. l \in Place \cup {NoPlace}
        BY <2>1, Asked
    <2>4. m \in Seq(Section)
        BY <2>1, Asked
    <2> HIDE DEF st, l, m
    <2>. QED
        BY <2>1, <2>2, <2>3, <2>4, Asked DEF IsOptions
<1>2. /\ logs \in [Section -> Logs]
      /\ \A s \in Section : IsOptions(logs[s].mods) /\ (~logs[s].known => logs[s].loc = NoPlace)
    BY DEF TInv, TypeOK, StageTypeOK, KnownInv
<1>3. LogResults = logs \/ LogResults = [logs EXCEPT ![Me] = r]
    BY DEF LogResults, Record
<1> HIDE DEF st, l, m
<1>4. r \in Logs /\ r.mods = cur.mods /\ r.known
    BY <1>1 DEF Logs
<1> HIDE DEF r
<1>5. LogResults \in [Section -> Logs]
    BY <1>1, <1>2, <1>3, <1>4
<1>6. \A s \in Section : LogResults[s] = logs[s] \/ LogResults[s] = r
    BY <1>1, <1>2, <1>3
<1>. QED
    BY <1>1, <1>2, <1>4, <1>5, <1>6

\* The next section.
LEMMA StartFrame ==
    ASSUME StageStart
    PROVE  /\ AtRest /\ left > 0 /\ left' = left - 1 /\ cur' \in Requests /\ pc' = "start"
           /\ log' = FreshLog /\ entry' = env /\ env' = env /\ logs' = LogResults
           /\ mods' = cur'.mods /\ todo' = cur'.middleware
           /\ save' = [paths |-> paths, outer |-> paths, mid |-> FALSE]
           /\ UNCHANGED <<paths, envars, built, complete, dry, allocated, held, shell, excused,
                          harassed, hosts, struck, latest>>
           /\ loaded' = <<>> /\ status' = {} /\ result' = 0
BY DEF StageStart, StageBegin, Begin, onDisk, nodeVars, history

\* A section that is not run.
LEMMA PassFrame ==
    ASSUME StagePass
    PROVE  /\ pc' = "idle" /\ AtRest
           /\ UNCHANGED <<env, cur, log, entry, left, paths, envars, built, complete, dry, mods,
                          todo, save, loaded, allocated, held, shell, excused, harassed, result,
                          hosts, status, struck, latest>>
BY DEF StagePass, StageSkip, onDisk, wanted, shellVars, nodeVars, hostVars, history

\* A new mtt.
LEMMA RestartFrame ==
    ASSUME Restart
    PROVE  /\ env' = FreshEnv /\ entry' = FreshEnv /\ pc' = "idle" /\ log' = FreshLog
           /\ logs' = FirstLogs /\ dry' \in BOOLEAN /\ paths' = UserPaths /\ envars' = UserEnvars
           /\ mods' = NoModules /\ todo' = <<>> /\ loaded' = <<>>
           /\ save' = [paths |-> UserPaths, outer |-> UserPaths, mid |-> FALSE]
           /\ allocated' = [p \in Holders |-> FALSE]
           /\ shell' = [activated |-> FALSE, commands |-> FALSE]
           /\ excused' = excused \cup {p \in Holders : held[p] > 0}
           /\ status' = {} /\ result' = 0 /\ struck' = FALSE
           /\ latest' = [s \in Section |-> "none"]
           /\ UNCHANGED <<cur, left, complete, held, harassed, hosts>>
BY DEF Restart

\* No step of this process.
LEMMA StutterFrame ==
    ASSUME UNCHANGED vars
    PROVE  UNCHANGED <<env, pc, cur, log, entry, left, logs, paths, envars, built, complete, dry,
                       mods, todo, save, loaded, allocated, held, shell, excused, harassed, result,
                       hosts, status, struck, latest>>
BY DEF vars, shared, autoVars, stageVars, shellVars, nodeVars, hostVars, history

LEMMA StartTypes ==
    ASSUME TInv, StageStart, ran' \subseteq Section
    PROVE  TInv'
<1>0. /\ AtRest /\ left > 0 /\ left' = left - 1 /\ cur' \in Requests /\ pc' = "start"
      /\ log' = FreshLog /\ entry' = env /\ env' = env /\ logs' = LogResults
      /\ mods' = cur'.mods /\ todo' = cur'.middleware
      /\ save' = [paths |-> paths, outer |-> paths, mid |-> FALSE]
      /\ UNCHANGED <<paths, envars, built, complete, dry, allocated, held, shell, excused,
                     harassed, hosts, struck, latest>>
      /\ loaded' = <<>> /\ status' = {} /\ result' = 0
    BY StartFrame
<1>1. /\ IsOptions(cur'.mods) /\ cur'.mods \in ModuleOptions /\ cur'.middleware \in Seq(Section)
    BY <1>0, PluginAssumption, SectionsAssumption DEF IsOptions
<1>t. TypeOK
    BY DEF TInv
<1>2. SharedTypeOK'
    <2>1. /\ env \in [modules : ModuleEnv, cwd : Place] /\ IsEnv(env.modules)
          /\ left \in 0 .. MaxRuns /\ MaxRuns \in Nat
        BY <1>t, Asked DEF TypeOK, StageTypeOK, SharedTypeOK
    <2>2. FreshLog \in [status : {0, 1}, located : BOOLEAN, memo : BOOLEAN]
        BY DEF FreshLog
    <2>3. left - 1 \in 0 .. MaxRuns
        BY <1>0, <2>1
    <2>. QED
        BY <1>0, <2>1, <2>2, <2>3 DEF SharedTypeOK
<1>3. StageTypeOK'
    <2>1. /\ paths \in Paths /\ envars \in [Envar -> {"none", "user", "section"}]
          /\ built \in [Place -> {"none", "partial", "whole"}]
          /\ complete \subseteq Place /\ dry \in BOOLEAN
        BY <1>t DEF TypeOK, StageTypeOK
    <2>2. save' \in [paths : Paths, outer : Paths, mid : BOOLEAN]
        BY <1>0, <2>1
    <2>3. logs' \in [Section -> Logs]
        BY <1>0, LogResultsType
    <2>. QED
        BY <1>0, <1>1, <1>2, <2>1, <2>2, <2>3 DEF StageTypeOK
<1>4. ShellTypeOK'
    BY <1>0, <1>t DEF TypeOK, ShellTypeOK
<1>5. TypeOK'
    <2>1. pc' \in Places
        BY <1>0 DEF Places
    <2>2. loaded' \in Seq(Envar) /\ status' \subseteq Node
        BY <1>0
    <2>. QED
        BY <1>0, <1>3, <1>4, <1>t, <2>1, <2>2 DEF TypeOK
<1>6. PlaceInv'
    BY <1>0 DEF PlaceInv, Places, Building, Testing, Commanding, At
<1>7. KnownInv'
    BY <1>0, <1>1, LogResultsType DEF KnownInv
<1>8. HeldInv'
    <2>1. \A p \in Holders : held[p] \in Nat /\ held[p] + left <= MaxRuns
        BY <1>t DEF TInv, HeldInv, TypeOK, ShellTypeOK
    <2>2. left \in Nat /\ MaxRuns \in Nat
        BY <1>t, Asked
    <2>. QED
        BY <1>0, <2>1, <2>2 DEF HeldInv
<1>. QED
    BY <1>5, <1>6, <1>7, <1>8 DEF TInv

LEMMA PassTypes ==
    ASSUME TInv, StagePass, ran' \subseteq Section
    PROVE  TInv'
<1>0. /\ pc' = "idle"
      /\ UNCHANGED <<env, cur, log, entry, left, paths, envars, built, complete, dry, mods, todo,
                     save, loaded, allocated, held, shell, excused, harassed, result, hosts,
                     status, struck, latest>>
    BY PassFrame
<1>t. TypeOK
    BY DEF TInv
<1>1. /\ logs' \in [Section -> Logs]
      /\ \A s \in Section : IsOptions(logs'[s].mods) /\ (~logs'[s].known => logs'[s].loc = NoPlace)
    <2>1. PICK r \in Requests :
              logs' = Record(LogResults, r.section,
                          [NoLog EXCEPT !.known = TRUE, !.status = 1, !.mods = r.mods])
        BY DEF StagePass, StageSkip
    <2> DEFINE n == [NoLog EXCEPT !.known = TRUE, !.status = 1, !.mods = r.mods]
    <2>2. IsOptions(r.mods) /\ r.mods \in ModuleOptions /\ r.section \in Section
        BY PluginAssumption DEF IsOptions
    <2>3. n \in Logs /\ n.known /\ n.mods = r.mods
        <3>1. NoModules \in ModuleOptions
            BY NoModulesType DEF IsOptions
        <3>2. NoLog \in Logs
            BY <3>1 DEF NoLog, Logs
        <3>. QED
            BY <2>2, <3>2 DEF Logs
    <2>4. logs' = LogResults \/ logs' = [LogResults EXCEPT ![r.section] = n]
        BY <2>1 DEF Record
    <2> HIDE DEF n
    <2>5. logs' \in [Section -> Logs]
        BY <2>2, <2>3, <2>4, LogResultsType
    <2>6. \A s \in Section : logs'[s] = LogResults[s] \/ logs'[s] = n
        BY <2>2, <2>4, LogResultsType
    <2>. QED
        BY <2>2, <2>3, <2>5, <2>6, LogResultsType
<1>2. SharedTypeOK'
    BY <1>0, <1>t DEF TypeOK, StageTypeOK, SharedTypeOK
<1>3. StageTypeOK'
    BY <1>0, <1>1, <1>2, <1>t DEF TypeOK, StageTypeOK
<1>4. ShellTypeOK'
    BY <1>0, <1>t DEF TypeOK, ShellTypeOK
<1>5. TypeOK'
    <2>1. pc' \in Places
        BY <1>0 DEF Places
    <2>. QED
        BY <1>0, <1>3, <1>4, <1>t, <2>1 DEF TypeOK
<1>6. PlaceInv'
    BY <1>0 DEF PlaceInv, Places, Building, Testing, Commanding, At
<1>7. KnownInv'
    BY <1>0, <1>1 DEF TInv, KnownInv
<1>8. HeldInv'
    BY <1>0 DEF TInv, HeldInv
<1>. QED
    BY <1>5, <1>6, <1>7, <1>8 DEF TInv

\* What a new process has.
LEMMA FreshFacts ==
    /\ FreshEnv \in [modules : ModuleEnv, cwd : Place] /\ IsEnv(FreshEnv.modules)
    /\ FreshLog \in [status : {0, 1}, located : BOOLEAN, memo : BOOLEAN]
    /\ FirstLogs \in [Section -> Logs]
    /\ \A s \in Section : /\ IsOptions(FirstLogs[s].mods)
                          /\ ~FirstLogs[s].known => FirstLogs[s].loc = NoPlace
    /\ UserPaths \in Paths /\ UserEnvars \in [Envar -> {"none", "user", "section"}]
    /\ IsOptions(NoModules) /\ NoModules \in ModuleOptions
<1>1. FreshEnv.modules \in ModuleEnv /\ IsEnv(FreshEnv.modules)
    <2>1. [s \in Section |-> None] \in [Section -> Pairs] /\ None \in Seq(Module)
        BY DEF Pairs, None
    <2>2. CleanModules \in ModuleEnv /\ CleanModules.recorded["swap"] = [s \in Section |-> None]
        BY <2>1 DEF CleanModules, ModuleEnv, Operations
    <2>3. FreshEnv.modules = [CleanModules EXCEPT !.loaded = Preloaded]
        BY DEF FreshEnv
    <2>4. FreshEnv.modules \in ModuleEnv /\ FreshEnv.modules.recorded = CleanModules.recorded
        BY <2>2, <2>3, PluginAssumption DEF ModuleEnv
    <2>. QED
        BY <2>1, <2>2, <2>4 DEF IsEnv
<1>2. FreshEnv \in [modules : ModuleEnv, cwd : Place]
    BY <1>1 DEF FreshEnv, Place
<1>3. IsOptions(NoModules) /\ NoModules \in ModuleOptions
    BY NoModulesType DEF IsOptions
<1>4. NoLog \in Logs /\ NoLog.mods = NoModules /\ NoLog.loc = NoPlace
    BY <1>3 DEF NoLog, Logs
<1>5. ASSUME NEW s \in Section
      PROVE  /\ FirstLogs[s] \in Logs /\ FirstLogs[s].mods = NoModules
             /\ ~FirstLogs[s].known => FirstLogs[s].loc = NoPlace
    <2>1. CASE s \in Getter
        <3>1. PICK l \in Place \cup {NoPlace} :
                  FirstLogs[s] = [NoLog EXCEPT !.known = TRUE, !.loc = l]
            BY <2>1 DEF FirstLogs, Package, Place
        <3>. QED
            BY <1>4, <3>1 DEF Logs
    <2>2. CASE s \notin Getter
        BY <1>4, <2>2 DEF FirstLogs
    <2>. QED
        BY <2>1, <2>2
<1>6. FirstLogs \in [Section -> Logs]
    BY <1>5 DEF FirstLogs
<1>7. UserPaths \in Paths
    <2>1. <<UserOwn>> \in Seq(Entries)
        BY DEF Entries
    <2>. QED
        BY <2>1 DEF UserPaths, UserHas, Paths
<1>8. UserEnvars \in [Envar -> {"none", "user", "section"}]
    BY DEF UserEnvars
<1>9. FreshLog \in [status : {0, 1}, located : BOOLEAN, memo : BOOLEAN]
    BY DEF FreshLog
<1>. QED
    BY <1>1, <1>2, <1>3, <1>5, <1>6, <1>7, <1>8, <1>9

LEMMA RestartTypes ==
    ASSUME TInv, Restart, ran' \subseteq Section
    PROVE  TInv'
<1>0. /\ env' = FreshEnv /\ entry' = FreshEnv /\ pc' = "idle" /\ log' = FreshLog
      /\ logs' = FirstLogs /\ dry' \in BOOLEAN /\ paths' = UserPaths /\ envars' = UserEnvars
      /\ mods' = NoModules /\ todo' = <<>> /\ loaded' = <<>>
      /\ save' = [paths |-> UserPaths, outer |-> UserPaths, mid |-> FALSE]
      /\ allocated' = [p \in Holders |-> FALSE]
      /\ shell' = [activated |-> FALSE, commands |-> FALSE]
      /\ excused' = excused \cup {p \in Holders : held[p] > 0}
      /\ status' = {} /\ result' = 0 /\ struck' = FALSE
      /\ latest' = [s \in Section |-> "none"]
      /\ UNCHANGED <<cur, left, complete, held, harassed, hosts>>
    BY RestartFrame
<1>t. TypeOK
    BY DEF TInv
<1>1. built' \in [Place -> {"none", "partial", "whole"}]
    <2>1. built \in [Place -> {"none", "partial", "whole"}]
        BY <1>t DEF TypeOK, StageTypeOK
    <2>2. pc \in Building => Source \in Place /\ Prefix \in Place
        BY SourceIsPlace DEF TInv
    <2>3. \/ built' = built
          \/ pc \in {"clean", "all"} /\ built' = [built EXCEPT ![Source] = "partial"]
          \/ pc = "install" /\ built' = [built EXCEPT ![Prefix] = "partial"]
        BY DEF Restart, Halfway
    <2>. QED
        BY <2>1, <2>2, <2>3 DEF Building
<1>2. SharedTypeOK'
    BY <1>0, <1>t, FreshFacts DEF TypeOK, StageTypeOK, SharedTypeOK
<1>3. StageTypeOK'
    <2>1. save' \in [paths : Paths, outer : Paths, mid : BOOLEAN]
        BY <1>0, FreshFacts
    <2>2. complete' \subseteq Place
        BY <1>0, <1>t DEF TypeOK, StageTypeOK
    <2>. QED
        BY <1>0, <1>1, <1>2, <2>1, <2>2, FreshFacts DEF StageTypeOK
<1>4. ShellTypeOK'
    <2>1. allocated' \in [Holders -> BOOLEAN]
        BY <1>0
    <2>2. shell' \in [activated : BOOLEAN, commands : BOOLEAN]
        BY <1>0
    <2>. QED
        BY <1>0, <1>t, <2>1, <2>2 DEF TypeOK, ShellTypeOK
<1>5. TypeOK'
    <2>1. pc' \in Places
        BY <1>0 DEF Places
    <2>2. loaded' \in Seq(Envar) /\ status' \subseteq Node
        BY <1>0
    <2>4. struck' \in BOOLEAN
        BY <1>0
    <2>3. latest' \in [Section -> {"none", "good", "failed"}]
        BY <1>0
    <2>. QED
        BY <1>0, <1>3, <1>4, <1>t, <2>1, <2>2, <2>3, <2>4 DEF TypeOK
<1>6. PlaceInv'
    BY <1>0 DEF PlaceInv, Places, Building, Testing, Commanding, At
<1>7. KnownInv'
    BY <1>0, FreshFacts DEF KnownInv
<1>8. HeldInv'
    BY <1>0 DEF TInv, HeldInv
<1>. QED
    BY <1>5, <1>6, <1>7, <1>8 DEF TInv

LEMMA InitTypes == Init => TInv
<1> SUFFICES ASSUME Init PROVE TInv
    OBVIOUS
<1>0. SharedInit /\ StageInit /\ ShellInit /\ HostInit /\ loaded = <<>> /\ struck = FALSE
      /\ latest = [s \in Section |-> "none"]
    BY DEF Init
<1>1. SharedTypeOK
    <2>1. cur \in Requests /\ MaxRuns \in 0 .. MaxRuns
        BY <1>0, PluginAssumption DEF SharedInit
    <2>. QED
        BY <1>0, <2>1, FreshFacts DEF SharedInit, SharedTypeOK
<1>2. StageTypeOK
    <2>1. save \in [paths : Paths, outer : Paths, mid : BOOLEAN]
        BY <1>0, FreshFacts DEF StageInit
    <2>2. built \in [Place -> {"none", "partial", "whole"}]
        BY <1>0 DEF StageInit
    <2>. QED
        BY <1>0, <1>1, <2>1, <2>2, FreshFacts DEF StageInit, StageTypeOK
<1>3. ShellTypeOK
    <2>1. MaxRuns \in Nat
        BY PluginAssumption
    <2>. QED
        BY <1>0, <2>1 DEF ShellInit, ShellTypeOK
<1>4. TypeOK
    <2>1. pc \in Places
        BY <1>0 DEF SharedInit, Places
    <2>2. hosts \in [Place -> Seq(Node) \cup {NoFile}] /\ status \subseteq Node
        BY <1>0 DEF HostInit
    <2>3. latest \in [Section -> {"none", "good", "failed"}]
        BY <1>0
    <2>4. loaded \in Seq(Envar)
        BY <1>0
    <2>5. struck \in BOOLEAN
        BY <1>0
    <2>. QED
        BY <1>2, <1>3, <2>1, <2>2, <2>3, <2>4, <2>5 DEF TypeOK
<1>5. PlaceInv
    BY <1>0 DEF SharedInit, PlaceInv, Places, Building, Testing, Commanding, At
<1>6. KnownInv
    BY <1>0, FreshFacts DEF StageInit, KnownInv
<1>7. HeldInv
    BY <1>0, PluginAssumption DEF SharedInit, ShellInit, HeldInv
<1>. QED
    BY <1>4, <1>5, <1>6, <1>7 DEF TInv

\* Whose turn it has been.
LEMMA RanType ==
    ASSUME TypeOK, [Next]_vars
    PROVE  ran' \subseteq Section
<1>1. ran \subseteq Section
    BY DEF TypeOK, StageTypeOK
<1>2. ASSUME NEW s \in Section, Turn(s)
      PROVE  ran' \subseteq Section
    BY <1>1, <1>2 DEF Turn
<1>3. CASE StageBegin
    <2>1. cur'.section \in Section /\ Turn(cur'.section)
        BY <1>3, PluginAssumption DEF StageBegin, Begin
    <2>. QED
        BY <1>2, <2>1
<1>4. CASE StageSkip
    <2>1. \E r \in Requests : Turn(r.section)
        BY <1>4 DEF StageSkip
    <2>. QED
        BY <1>2, <2>1, PluginAssumption
<1>5. CASE UNCHANGED ran
    BY <1>1, <1>5
<1>6. CASE Restart
    BY <1>6 DEF Restart
<1>. QED
    BY <1>3, <1>4, <1>5, <1>6 DEF Next, vars

\* The types are kept by every step.
LEMMA TypesStep == TInv /\ [Next]_vars => TInv'
<1> SUFFICES ASSUME TInv, [Next]_vars PROVE TInv'
    OBVIOUS
<1>r. ran' \subseteq Section
    BY RanType DEF TInv
<1>1. CASE Execute /\ struck' = (struck \/ pc' = "raising") /\ Ends
    <2>1. struck' \in BOOLEAN
        BY <1>1
    <2>2. latest' \in [Section -> {"none", "good", "failed"}]
        <3>1. latest \in [Section -> {"none", "good", "failed"}]
            BY DEF TInv, TypeOK
        <3>2. \E x \in {latest[Me], "good", "failed"} : latest' = [latest EXCEPT ![Me] = x]
            BY <1>1 DEF Ends
        <3>3. Me \in Section
            BY Asked DEF TInv
        <3>. QED
            BY <3>1, <3>2, <3>3
    <2>. QED
        BY <1>1, <1>r, <2>1, <2>2, InnerTypes DEF Inner
<1>2. CASE Strike /\ struck' = TRUE /\ UNCHANGED latest
    <2>1. latest' \in [Section -> {"none", "good", "failed"}]
        BY <1>2 DEF TInv, TypeOK
    <2>. QED
        BY <1>2, <1>r, <2>1, InnerTypes DEF Inner
<1>3. CASE StageStart
    BY <1>3, <1>r, StartTypes
<1>4. CASE StagePass
    BY <1>4, <1>r, PassTypes
<1>5. CASE Restart
    BY <1>5, <1>r, RestartTypes
<1>6. CASE UNCHANGED vars
    <2>1. UNCHANGED <<env, pc, cur, log, entry, left, logs, paths, envars, built, complete, dry,
                      mods, todo, save, loaded, allocated, held, shell, excused, harassed, result,
                      hosts, status, struck, latest>>
        BY <1>6, StutterFrame
    <2>2. SharedTypeOK'
        BY <2>1 DEF TInv, TypeOK, StageTypeOK, SharedTypeOK
    <2>3. StageTypeOK'
        BY <1>r, <2>1, <2>2 DEF TInv, TypeOK, StageTypeOK
    <2>4. ShellTypeOK'
        BY <2>1 DEF TInv, TypeOK, ShellTypeOK
    <2>5. TypeOK'
        BY <2>1, <2>3, <2>4 DEF TInv, TypeOK
    <2>6. PlaceInv'
        BY <2>1 DEF TInv, PlaceInv, At, Source, Me
    <2>7. KnownInv' /\ HeldInv'
        BY <2>1 DEF TInv, KnownInv, HeldInv
    <2>. QED
        BY <2>5, <2>6, <2>7 DEF TInv
<1>. QED
    BY <1>1, <1>2, <1>3, <1>4, <1>5, <1>6, NextCases

\* Every variable keeps its type, whatever sections do, fail at or leave.
THEOREM SpecTypeOK == Spec => []TypeOK
<1>1. Init => TInv
    BY InitTypes
<1>2. TInv /\ [Next]_vars => TInv'
    BY TypesStep
<1>3. TInv => TypeOK
    BY DEF TInv
<1>. QED
    BY <1>1, <1>2, <1>3, PTL DEF Spec

\* The invariant of types is one.
LEMMA SpecTInv == Spec => []TInv
BY InitTypes, TypesStep, PTL DEF Spec
-----------------------------------------------------------------------------
(* What is logged as built is built                                          *)

\* How the log of a section grows.
LEMMA LogStep ==
    ASSUME TInv, Inner
    PROVE  /\ log' \in SectionLog
           /\ log'.memo = log.memo \/ pc' \in {"returned", "unwind"}
           /\ log.located => log'.located
<1>t. TypeOK /\ PlaceInv /\ IsOptions(mods)
    BY DEF TInv, KnownInv
<1>k. log' \in SectionLog
    BY <1>t, SharedHolds DEF SharedTypeOK, SectionLog
<1>l. log \in SectionLog
    BY <1>t, LogFacts
<1>a. ASSUME NEW m, NEW next, NEW out, Apply(m, next, out)
      PROVE  log'.memo = log.memo /\ log'.located = log.located
    BY <1>l, <1>a DEF Apply, SectionLog
<1>f. StepFails => log'.memo = log.memo /\ log'.located = log.located
    BY <1>l DEF StepFails, SectionLog
<1> DEFINE G == /\ log'.memo = log.memo \/ pc' \in {"returned", "unwind"}
                /\ log.located => log'.located
<1>1. TestBuildStart => G
    BY <1>l DEF TestBuildStart, Go, SectionLog
<1>2. TestBuildEnd => G
    BY <1>l DEF TestBuildEnd, Return, Go, SectionLog
<1>3. AutoStart => G
    BY <1>l DEF AutoStart, AutoFail, Caller, Go, SectionLog
<1>4. AutoMiddleware => G
    BY <1>l, <1>a DEF AutoMiddleware, PointTo, ApplyWanted, SectionLog
<1>5. AutoPrefix => G
    BY <1>l DEF AutoPrefix, Caller, Go, SectionLog
<1>6. Autogen => G
    BY <1>l, <1>f DEF Autogen, StepDone, SectionLog
<1>7. Configure => G
    BY <1>l, <1>f DEF Configure, StepDone, AutoFail, SectionLog
<1>8. SetEnvars => G
    BY <1>l DEF SetEnvars, Go, SectionLog
<1>9. MakeClean => G
    BY <1>l, <1>f DEF MakeClean, StepDone, SectionLog
<1>10. MakeAll => G
    BY <1>l, <1>f DEF MakeAll, StepDone, SectionLog
<1>11. MakeInstall => G
    BY <1>l DEF MakeInstall, Go, SectionLog
<1>12. Finish => G
    BY <1>l DEF Finish, Go, SectionLog
<1>13. ShellStart => G
    BY <1>l DEF ShellStart, Return, Fail, Go, SectionLog
<1>14. ShellMiddleware => G
    BY <1>l, <1>a DEF ShellMiddleware, PointTo, ApplyWanted, SectionLog
<1>15. ShellMove => G
    BY <1>l DEF ShellMove, Go, SectionLog
<1>16. ShellAllocate => G
    BY <1>l DEF ShellAllocate, Fail, Go, Return, SectionLog
<1>17. ShellHarass => G
    BY <1>l DEF ShellHarass, Go, SectionLog
<1>18. ShellRun => G
    BY <1>l DEF ShellRun, Go, SectionLog
<1>19. ShellRelease => G
    BY <1>l DEF ShellRelease, Deallocate, Go, SectionLog
<1>20. ShellAbandon => G
    BY <1>l DEF ShellAbandon, Return, Throw, Go, SectionLog
<1>21. ShellFailed => G
    BY <1>l DEF ShellFailed, Return, Go, SectionLog
<1>22. ShellPassed => G
    BY <1>l DEF ShellPassed, Return, Go, SectionLog
<1>23. UnitStart => G
    BY <1>l DEF UnitStart, Fail, Throw, Go, Return, SectionLog
<1>24. UnitPaths => G
    BY <1>l DEF UnitPaths, Go, SectionLog
<1>25. UnitNeeds => G
    BY <1>l DEF UnitNeeds, Throw, Go, SectionLog
<1>26. UnitModules => G
    BY <1>l, <1>a DEF UnitModules, SectionLog
<1>27. UnitTests => G
    BY <1>l DEF UnitTests, Go, SectionLog
<1>28. UnitRevert => G
    BY <1>l DEF UnitRevert, Return, Go, SectionLog
<1>29. WWulf3Start => G
    BY <1>l DEF WWulf3Start, Fail, Go, Return, SectionLog
<1>30. WWulf3Allocate => G
    BY <1>l DEF WWulf3Allocate, Throw, Go, SectionLog
<1>31. WWulf3Provision => G
    BY <1>l DEF WWulf3Provision, Fail, Go, Return, SectionLog
<1>32. WWulf3Cycle => G
    BY <1>l DEF WWulf3Cycle, Return, Throw, Go, SectionLog
<1>33. HostStart => G
    BY <1>l DEF HostStart, Return, Fail, Go, SectionLog
<1>34. HostAsk => G
    BY <1>l DEF HostAsk, Fail, Throw, Go, Return, SectionLog
<1>35. HostWrite => G
    BY <1>l DEF HostWrite, Return, Fail, Go, SectionLog
<1>36. Deactivate => G
    BY <1>l DEF Deactivate, Go, SectionLog
<1>37. Strike => G
    BY DEF Strike
<1>g. G
    BY <1>1, <1>2, <1>3, <1>4, <1>5, <1>6, <1>7, <1>8, <1>9, <1>10, <1>11, <1>12,
       <1>13, <1>14, <1>15, <1>16, <1>17, <1>18, <1>19, <1>20, <1>21, <1>22, <1>23,
       <1>24, <1>25, <1>26, <1>27, <1>28, <1>29, <1>30, <1>31, <1>32, <1>33, <1>34,
       <1>35, <1>36, <1>37, ExecuteCases, Zenon DEF Inner
<1>. QED
    BY <1>k, <1>g
-----------------------------------------------------------------------------
(* A success is true                                                         *)

\* Before the last step Autotools returns only what has failed, was skipped or
\* is a dry run.
LEMMA NotDone ==
    ASSUME TInv, Inner, cur.plugin \in Builders, pc \notin {"finish", "unwind"}, pc' = Caller
    PROVE  ~Done'
<1>t. TypeOK /\ PlaceInv /\ IsOptions(mods) /\ dry' = dry
    BY FramesHold DEF TInv, KnownInv, Frames
<1>c. Caller \in {"returned", "unwind"}
    BY DEF Caller
<1>m. Moves
    BY MovesHold
<1>0. ~Strike
    BY <1>c DEF Strike, Throw, Go
<1>a. Acts
    BY <1>0, ActsHold
<1>l. log \in SectionLog
    BY <1>t, LogFacts
<1>s. ASSUME log' = [log EXCEPT !.status = 1] PROVE ~Done'
    BY <1>s, <1>l DEF Done, SectionLog
<1>f. ASSUME StepFails PROVE ~Done'
    BY <1>f, <1>s DEF StepFails
<1>1. pc \in {"start", "autotools", "middleware", "prefix", "autogen", "configure", "clean", "all"}
    BY <1>t, <1>c, <1>m DEF Moves, AtRest, PlaceInv, Places, Commanding, Testing, Builders, Holders
<1>2. CASE pc \in {"start", "autotools"}
    <2>1. AutoStart
        BY <1>2, <1>a, <1>c DEF Acts, Builders, TestBuildStart, ShellStart, UnitStart, WWulf3Start,
           HostStart, At, Go
    <2>. QED
        BY <2>1, <1>c, <1>s DEF AutoStart, AutoFail, Go
<1>3. CASE pc = "middleware"
    <2>1. AutoMiddleware
        BY <1>3, <1>a DEF Acts, ShellMiddleware, At, Builders
    <2>2. ApplyWanted("prefix", Caller)
        BY <2>1, <1>c DEF AutoMiddleware, PointTo, Throw, Go
    <2>3. log'.status = 1
        BY <2>2, <1>t, <1>c, ApplyFacts DEF ApplyWanted
    <2>. QED
        BY <2>3 DEF Done
<1>4. CASE pc = "prefix"
    <2>1. AutoPrefix
        BY <1>4, <1>a DEF Acts
    <2>2. CASE log' = [log EXCEPT !.status = 0, !.located = TRUE, !.memo = TRUE]
        BY <2>2, <1>l DEF Done, SectionLog
    <2>3. CASE dry
        BY <2>3, <1>t DEF Done
    <2>4. CASE log' = [log EXCEPT !.status = 1, !.located = TRUE]
        BY <2>4, <1>l DEF Done, SectionLog
    <2>. QED
        BY <2>1, <2>2, <2>3, <2>4, <1>c DEF AutoPrefix, Go
<1>5. CASE pc = "autogen"
    BY <1>5, <1>a, <1>c, <1>f DEF Acts, Autogen, StepDone, Go
<1>6. CASE pc = "configure"
    BY <1>6, <1>a, <1>c, <1>f, <1>s DEF Acts, Configure, AutoFail, StepDone, Go
<1>7. CASE pc = "clean"
    BY <1>7, <1>a, <1>c, <1>f DEF Acts, MakeClean, StepDone, Go
<1>8. CASE pc = "all"
    BY <1>8, <1>a, <1>c, <1>f DEF Acts, MakeAll, StepDone, Go
<1>. QED
    BY <1>1, <1>2, <1>3, <1>4, <1>5, <1>6, <1>7, <1>8

\* What the last step of Autotools leaves if the build is a success.
LEMMA FinishFacts ==
    ASSUME TInv, Finish, Done'
    PROVE  /\ log' = log /\ built' = built /\ dry' = dry
           /\ env'.cwd = entry.cwd
           /\ paths' = IF save.mid THEN save.paths ELSE paths
<1>t. TypeOK /\ log \in SectionLog
    BY LogFacts DEF TInv
<1>1. PICK o \in RevertModules(Me, env.modules) :
          IF o[2] # 0
          THEN /\ env' = [env EXCEPT !.modules = o[1]]
               /\ log' = [log EXCEPT !.status = 1]
               /\ UNCHANGED <<paths, complete>>
          ELSE /\ env' = [modules |-> o[1], cwd |-> entry.cwd]
               /\ PathsBack
               /\ complete' = complete \cup
                    (IF cur.inplace \/ built[Prefix] # "none" THEN {Prefix} ELSE {})
               /\ UNCHANGED log
    BY DEF Finish
<1>2. o[2] = 0
    <2>1. CASE o[2] # 0
        <3>1. log' = [log EXCEPT !.status = 1]
            BY <1>1, <2>1
        <3>2. log'.status = 1
            BY <3>1, <1>t DEF SectionLog
        <3>. QED
            BY <3>2 DEF Done
    <2>. QED
        BY <2>1
<1>3. env' = [modules |-> o[1], cwd |-> entry.cwd] /\ PathsBack /\ log' = log
    BY <1>1, <1>2
<1>4. built' = built /\ dry' = dry
    BY DEF Finish, found
<1>. QED
    BY <1>3, <1>4 DEF PathsBack

\* Where a builder's section ends.
LEMMA Ending ==
    ASSUME TInv, Inner, cur.plugin \in Builders, pc' \in {"returned", "unwind"}
    PROVE  \/ pc' = Caller
           \/ pc = "unwind" /\ pc' = "returned" /\ cur.plugin = "DefaultTestBuild"
<1>1. Moves /\ PlaceInv
    BY MovesHold DEF TInv
<1>2. CASE cur.plugin = "Autotools"
    <2>1. pc' # "unwind"
        BY <1>1, <1>2, PlaceStep, FramesHold DEF TInv, PlaceInv, Frames
    <2>2. Caller = "returned" /\ pc' = "returned"
        BY <1>2, <2>1 DEF Caller
    <2>. QED
        BY <2>2
<1>3. CASE cur.plugin = "DefaultTestBuild"
    <2>c. Caller = "unwind"
        BY <1>3 DEF Caller
    <2>1. pc \notin Commanding \cup Testing \cup {"allocate", "provision", "cycle", "ask", "write"}
        BY <1>1, <1>3 DEF PlaceInv, Holders
    <2>2. ~AtRest /\ pc \in Places
        BY <1>1 DEF Moves, PlaceInv
    <2>3. pc' = "returned" => pc = "unwind"
        BY <1>1, <1>3, <2>c, <2>1, <2>2 DEF Moves, AtRest, Places, Commanding, Testing
    <2>. QED
        BY <1>3, <2>c, <2>3
<1>. QED
    BY <1>2, <1>3 DEF Builders

\* What is done is there.
LEMMA WholeWhenDone ==
    ASSUME TInv, BuiltInv, Inner, cur.plugin \in Builders, pc' = Caller, Done'
    PROVE  log'.located /\ built'[Prefix] = "whole"
<1>c. Caller \in {"returned", "unwind"}
    BY DEF Caller
<1>1. pc # "unwind"
    BY MovesHold, <1>c DEF TInv, PlaceInv, Moves, Caller
<1>2. pc = "finish"
    BY <1>1, NotDone
<1>3. Finish
    BY <1>2, <1>c, ActsHold DEF Acts, Strike, Throw, Go
<1>4. log' = log /\ built' = built
    BY <1>3, FinishFacts
<1>. QED
    BY <1>2, <1>4 DEF BuiltInv, Building, Done

LEMMA BuiltStep ==
    ASSUME TInv, BuiltInv, Inner
    PROVE  BuiltInv'
<1>t. TypeOK /\ PlaceInv /\ Source' = Source /\ Prefix' = Prefix
    BY PlaceStep DEF TInv
<1>m. Moves /\ Frames /\ cur' = cur /\ dry' = dry
    BY MovesHold, FramesHold DEF Frames
<1>l. /\ log \in SectionLog /\ log' \in SectionLog
      /\ log'.memo = log.memo \/ pc' \in {"returned", "unwind"}
      /\ log.located => log'.located
    BY <1>t, LogStep, LogFacts
<1>1. ~AtRest' /\ pc' \notin {"raising", "unwind"} => ~log'.memo
    <2>1. ASSUME ~AtRest', pc' \notin {"raising", "unwind"}
          PROVE  ~AtRest /\ pc \notin {"raising", "unwind"} /\ pc' # "returned"
        BY <2>1, <1>m DEF Moves, AtRest
    <2>. QED
        BY <2>1, <1>l DEF BuiltInv
<1>2. pc' \in Building \ {"prefix"} => log'.located /\ ~dry'
    <2>1. CASE pc' \in Building \ {"prefix"}
        <3>1. CASE pc = "prefix"
            <4>1. AutoPrefix
                BY <3>1, <2>1, ActsHold DEF Acts, Strike, Throw, Go, Building
            <4>2. log' = [log EXCEPT !.located = TRUE] /\ ~dry
                BY <4>1, <2>1 DEF AutoPrefix, Go, Caller, Building
            <4>. QED
                BY <4>2, <1>l, <1>m DEF SectionLog
        <3>2. CASE pc # "prefix"
            <4>1. pc \in Building \ {"prefix"}
                BY <1>t, <1>m, <2>1, <3>2 DEF Building, Moves, AtRest, PlaceInv, Places, Caller
            <4>. QED
                BY <4>1, <1>l, <1>m DEF BuiltInv
        <3>. QED
            BY <3>1, <3>2
    <2>. QED
        BY <2>1
<1>b. built \in [Place -> {"none", "partial", "whole"}]
    BY <1>t DEF TypeOK, StageTypeOK
<1>p. pc \in Building => Source \in Place /\ Prefix \in Place /\ cur.plugin \in Builders
    BY <1>t, Asked DEF PlaceInv
<1>3. pc' = "install" => built'[Source] = "whole"
    <2>1. CASE pc' = "install"
        <3>1. pc = "all"
            BY <2>1, <1>t, <1>m DEF Moves, AtRest, PlaceInv, Places, Caller
        <3>2. MakeAll
            BY <3>1, <2>1, ActsHold DEF Acts, Strike, Throw, Go
        <3>3. Leaves(Source, "whole")
            BY <3>2, <2>1 DEF MakeAll, StepFails, Go, Caller
        <3>4. Source \in Place
            BY <3>1, <1>p DEF Building
        <3>. QED
            BY <3>3, <3>4, <1>b DEF Leaves
    <2>. QED
        BY <2>1
<1>4. pc' = "finish" /\ log'.status = 0 => built'[Prefix] = "whole"
    <2>1. CASE pc' = "finish" /\ log'.status = 0
        <3>1. pc = "install"
            BY <2>1, <1>t, <1>m DEF Moves, AtRest, PlaceInv, Places, Caller
        <3>2. MakeInstall
            BY <3>1, <2>1, ActsHold DEF Acts, Strike, Throw, Go
        <3>3. log' # [log EXCEPT !.status = 1]
            BY <2>1, <1>l DEF SectionLog
        <3>4. IF cur.inplace THEN UNCHANGED built ELSE Leaves(Prefix, "whole")
            BY <3>2, <3>3 DEF MakeInstall
        <3>5. CASE cur.inplace
            BY <3>1, <3>4, <3>5 DEF BuiltInv, Prefix
        <3>6. CASE ~cur.inplace
            BY <3>1, <3>4, <3>6, <1>b, <1>p DEF Leaves, Building
        <3>. QED
            BY <3>5, <3>6
    <2>. QED
        BY <2>1
<1>5. pc' = "unwind" /\ Done' => log'.located /\ built'[Prefix] = "whole"
    <2>1. ASSUME pc' = "unwind" PROVE cur.plugin \in Builders /\ pc' = Caller
        BY <2>1, <1>t, <1>m, PlaceStep DEF TInv, PlaceInv, Builders, Caller
    <2>. QED
        BY <2>1, WholeWhenDone
<1>. QED
    BY <1>t, <1>1, <1>2, <1>3, <1>4, <1>5 DEF BuiltInv

LEMMA BuiltEnds ==
    ASSUME TInv, BuiltInv, Inner
    PROVE  BuiltAsLogged'
<1>1. SUFFICES ASSUME pc' = "returned", cur.plugin \in Builders, Done'
               PROVE  log'.located /\ built'[Prefix] = "whole"
    <2>1. cur' = cur /\ Prefix' = Prefix
        BY FramesHold, PlaceStep DEF Frames, TInv
    <2>. QED
        BY <2>1 DEF BuiltAsLogged, Worked, Done
<1>2. CASE pc' = Caller
    BY <1>1, <1>2, WholeWhenDone
<1>3. CASE pc = "unwind"
    <2>1. TestBuildEnd
        BY <1>1, <1>3, ActsHold DEF Acts, Strike, Throw, Go
    <2>2. log' = log /\ built' = built /\ dry' = dry
        BY <2>1 DEF TestBuildEnd, onDisk, found
    <2>. QED
        BY <1>1, <1>3, <2>2 DEF BuiltInv, Done
<1>. QED
    BY <1>1, <1>2, <1>3, Ending

\* Of a share of the nodes those that are busy are chosen last.
LEMMA BusyLast ==
    ASSUME TypeOK, cur.den # 0, Elems(Chosen) \ status # {}
    PROVE  Elems(cur.nodes) \cap status \subseteq Elems(Chosen)
<1> DEFINE A == Those(cur.nodes, status)
           B == Those(cur.nodes, Node \ status)
           n == Len(Chosen)
           m == IF Wanted < Len(A \o B) THEN Wanted ELSE Len(A \o B)
<1>1. cur.nodes \in Seq(Node) /\ status \subseteq Node /\ Wanted \in Nat
    BY Asked, ChosenType DEF TypeOK
<1>2. /\ A \in Seq(Node \cap status) /\ A \in Seq(Node) /\ B \in Seq(Node)
      /\ Elems(cur.nodes) \cap status \subseteq Elems(A)
    BY <1>1, ThoseFacts
<1>3. Chosen = SubSeq(A \o B, 1, m)
    BY DEF Chosen, First
<1> HIDE DEF A, B
<1>4. A \o B \in Seq(Node) /\ Len(A \o B) = Len(A) + Len(B) /\ Len(A) \in Nat /\ Len(B) \in Nat
    BY <1>2
<1>5. m \in 0 .. Len(A \o B) /\ m \in Nat
    BY <1>1, <1>4
<1> HIDE DEF m
<1>6. Chosen \in Seq(Node) /\ Len(Chosen) = m /\ \A i \in 1 .. m : Chosen[i] = (A \o B)[i]
    BY <1>3, <1>4, <1>5
<1>7. PICK j \in 1 .. m : Chosen[j] \notin status
    BY <1>6 DEF Elems
<1>8. ~(j <= Len(A))
    <2>1. ASSUME j <= Len(A) PROVE FALSE
        <3>1. (A \o B)[j] = A[j] /\ j \in 1 .. Len(A)
            BY <1>2, <1>4, <1>5, <1>7, <2>1
        <3>2. A[j] \in Node \cap status
            BY <1>2, <3>1
        <3>. QED
            BY <1>6, <1>7, <3>1, <3>2
    <2>. QED
        BY <2>1
<1>9. \A i \in 1 .. Len(A) : i \in 1 .. m /\ Chosen[i] = A[i]
    <2>1. TAKE i \in 1 .. Len(A)
    <2>2. i \in 1 .. m
        BY <1>4, <1>5, <1>7, <1>8
    <2>3. (A \o B)[i] = A[i]
        BY <1>2, <1>4
    <2>. QED
        BY <1>6, <2>2, <2>3
<1>10. Elems(A) \subseteq Elems(Chosen)
    <2>1. DOMAIN A = 1 .. Len(A) /\ DOMAIN Chosen = 1 .. m
        BY <1>2, <1>6
    <2>. QED
        BY <1>9, <2>1 DEF Elems
<1>. QED
    BY <1>2, <1>10

\* The only way for Hostfile to succeed by its own work.
LEMMA HostDone ==
    ASSUME TInv, Inner, cur.plugin = "Hostfile", pc' = "returned", Done'
    PROVE  pc = "write" /\ HostWrite /\ ~Fail
<1>t. TypeOK /\ PlaceInv /\ log \in SectionLog
    BY LogFacts DEF TInv
<1>m. Moves
    BY MovesHold
<1>a. Acts
    BY ActsHold DEF Strike, Throw, Go
<1>2. pc \in {"start", "ask", "write"}
    <2>1. pc \notin Building \cup Commanding \cup Testing
                    \cup {"autotools", "unwind", "middleware", "allocate", "provision", "cycle"}
        BY <1>t DEF PlaceInv, Builders, Holders
    <2>2. ~AtRest /\ pc \in Places /\ pc # "raising"
        BY <1>m, <1>t DEF Moves, PlaceInv
    <2>. QED
        BY <2>1, <2>2 DEF AtRest, Places, Building, Commanding, Testing
<1>f. ASSUME Fail PROVE FALSE
    <2>1. log' = [log EXCEPT !.status = 1]
        BY <1>f DEF Fail
    <2>2. log'.status = 1
        BY <2>1, <1>t DEF SectionLog
    <2>. QED
        BY <2>2 DEF Done
<1>3. pc # "start"
    <2>1. ASSUME pc = "start" PROVE FALSE
        <3>1. HostStart
            BY <2>1, <1>a DEF Acts, TestBuildStart, AutoStart, ShellStart, UnitStart, WWulf3Start,
               At
        <3>2. ~(log' = [log EXCEPT !.status = 0, !.memo = TRUE])
            BY <1>t DEF Done, SectionLog
        <3>3. ~(log' = [log EXCEPT !.status = 0, !.located = TRUE, !.memo = TRUE])
            BY <1>t DEF Done, SectionLog
        <3>. QED
            BY <3>1, <3>2, <3>3, <1>f DEF HostStart, Go
    <2>. QED
        BY <2>1
<1>4. pc # "ask"
    BY <1>a, <1>f DEF Acts, HostAsk, Throw, Go
<1>. QED
    BY <1>2, <1>3, <1>4, <1>a, <1>f DEF Acts

\* The hostfile of a success.
LEMMA HostsEnd ==
    ASSUME TInv, Inner
    PROVE  HostsChosen'
<1>t. TypeOK /\ PlaceInv
    BY DEF TInv
<1>m. cur' = cur /\ Source' = Source
    BY FramesHold, PlaceStep, <1>t DEF Frames
<1>1. SUFFICES ASSUME pc' = "returned", cur.plugin = "Hostfile", Done', cur.den # 0
               PROVE  LET file == Elems(hosts'[Source])
                      IN  /\ Len(hosts'[Source]) =
                                IF Wanted' < Len(cur.nodes) THEN Wanted' ELSE Len(cur.nodes)
                          /\ file \ status' # {} => Elems(cur.nodes) \cap status' \subseteq file
    BY <1>m DEF HostsChosen, Worked, Done
<1>2. pc = "write" /\ HostWrite /\ ~Fail
    BY <1>1, HostDone
<1>3. hosts' = [hosts EXCEPT ![Source] = Chosen] /\ status' = status
    BY <1>2 DEF HostWrite
<1>4. Source \in Place /\ hosts \in [Place -> Seq(Node) \cup {NoFile}]
    BY <1>2, <1>t, Asked DEF TypeOK, PlaceInv
<1>5. hosts'[Source] = Chosen
    BY <1>3, <1>4
<1>6. Wanted' = Wanted
    BY <1>m DEF Wanted
<1>. QED
    BY <1>1, <1>3, <1>5, <1>6, <1>t, ChosenType, BusyLast

\* What a section that succeeds claims is so: its build and its hostfile.
THEOREM SpecSuccessTrue == Spec => []SuccessTrue
<1> DEFINE I == BuiltInv /\ SuccessTrue
<1>a. ASSUME pc' \in {"start", "idle"}, log' = FreshLog \/ pc' = "idle" PROVE I'
    BY <1>a DEF BuiltInv, SuccessTrue, BuiltAsLogged, HostsChosen, Worked, AtRest, Building, FreshLog
<1>1. Init => I
    BY DEF Init, SharedInit, BuiltInv, SuccessTrue, BuiltAsLogged, HostsChosen, Worked, AtRest,
       Building
<1>2. TInv /\ I /\ [Next]_vars => I'
    <2> SUFFICES ASSUME TInv, I, [Next]_vars PROVE I'
        OBVIOUS
    <2>1. CASE Inner
        BY <2>1, BuiltStep, BuiltEnds, HostsEnd DEF SuccessTrue
    <2>2. CASE StageStart
        BY <2>2, <1>a, StartFrame
    <2>3. CASE StagePass
        BY <2>3, <1>a, PassFrame
    <2>4. CASE Restart
        BY <2>4, <1>a, RestartFrame
    <2>5. CASE UNCHANGED vars
        <3>1. Source' = Source /\ Prefix' = Prefix /\ Wanted' = Wanted
            BY <2>5, StutterFrame DEF Source, Prefix, Me, Wanted
        <3>2. BuiltInv'
            BY <2>5, <3>1, StutterFrame DEF BuiltInv, AtRest, Done
        <3>3. BuiltAsLogged'
            BY <2>5, <3>1, StutterFrame DEF SuccessTrue, BuiltAsLogged, Worked
        <3>4. HostsChosen'
            BY <2>5, <3>1, StutterFrame DEF SuccessTrue, HostsChosen, Worked
        <3>. QED
            BY <3>2, <3>3, <3>4 DEF SuccessTrue
    <2> HIDE DEF I
    <2>. QED
        BY <2>1, <2>2, <2>3, <2>4, <2>5, NextCases DEF Inner
<1>3. I => SuccessTrue
    OBVIOUS
<1> HIDE DEF I
<1>. QED
    BY <1>1, <1>2, <1>3, SpecTInv, PTL DEF Spec
-----------------------------------------------------------------------------
(* A section leaves the process as it was                                    *)

SaveRecord == [paths : Paths, outer : Paths, mid : BOOLEAN]

\* What is put aside, and when.
LEMMA SaveFacts ==
    ASSUME TInv, Inner
    PROVE  /\ save \in SaveRecord /\ save' \in SaveRecord /\ paths \in Paths /\ paths' \in Paths
           /\ save'.outer = save.outer
           /\ pc # "paths" /\ save.mid => save'.mid
           /\ \/ save'.paths = save.paths
              \/ pc = "start" /\ TestBuildStart /\ save'.paths = paths'
<1>t. TypeOK /\ PlaceInv /\ KnownInv
    BY DEF TInv
<1>1. save \in SaveRecord /\ save' \in SaveRecord /\ paths \in Paths /\ paths' \in Paths
    BY <1>t, PathsType DEF TypeOK, StageTypeOK, SaveRecord
<1> DEFINE Aside == /\ save'.outer = save.outer
                    /\ pc # "paths" /\ save.mid => save'.mid
                    /\ \/ save'.paths = save.paths
                       \/ pc = "start" /\ TestBuildStart /\ save'.paths = paths'
<1> SUFFICES Aside
    BY <1>1
<1>2. ASSUME save' = save PROVE Aside
    BY <1>2
<1>s. CASE Strike
    BY <1>s, <1>2 DEF Strike, autoVars, stageVars
<1>3. ASSUME NEW b \in BOOLEAN, save' = [save EXCEPT !.mid = b], save.mid => b
      PROVE  save'.outer = save.outer /\ save'.paths = save.paths /\ (save.mid => save'.mid)
    BY <1>1, <1>3 DEF SaveRecord
<1>p. ASSUME NEW names, NEW next, PointTo(names, next)
      PROVE  save'.outer = save.outer /\ save'.paths = save.paths /\ (save.mid => save'.mid)
    <2>1. CASE ~logs[Head(todo)].known
        BY <1>p, <2>1 DEF PointTo
    <2>2. CASE logs[Head(todo)].known
        <3>1. save' = [save EXCEPT !.mid = save.mid \/ logs[Head(todo)].loc # NoPlace]
            BY <1>p, <2>2 DEF PointTo
        <3>2. (save.mid \/ logs[Head(todo)].loc # NoPlace) \in BOOLEAN
            OBVIOUS
        <3>. QED
            BY <1>3, <3>1, <3>2
    <2>. QED
        BY <2>1, <2>2
<1>q. ASSUME save'.outer = save.outer /\ save'.paths = save.paths /\ (save.mid => save'.mid)
      PROVE  Aside
    BY <1>q
<1>4. CASE pc = "start" /\ Acts
    <2>1. CASE TestBuildStart
        <3>1. save' = save \/ save' = [save EXCEPT !.paths = paths']
            BY <2>1 DEF TestBuildStart
        <3>. QED
            BY <1>1, <1>4, <2>1, <3>1 DEF SaveRecord
    <2>2. CASE ~TestBuildStart
        <3>1. save' = save
            BY <1>4, <2>2 DEF Acts, AutoStart, ShellStart, UnitStart, WWulf3Start,
               HostStart, autoVars, stageVars
        <3>. QED
            BY <1>2, <3>1
    <2>. QED
        BY <2>1, <2>2
<1>5. CASE pc = "middleware" /\ Acts
    <2>1. \/ PointTo({"bin", "inc"}, "middleware")
          \/ save' = save
        BY <1>5, MiddleCases DEF Acts, ShellList, ApplyWanted, stageVars
    <2> HIDE DEF Aside
    <2>. QED
        BY <2>1, <1>2, <1>p, <1>q
<1>6. CASE pc = "paths" /\ Acts
    <2>1. save' = save \/ \E b \in BOOLEAN : save' = [save EXCEPT !.mid = b]
        BY <1>6 DEF Acts, UnitPaths
    <2>2. save'.outer = save.outer /\ save'.paths = save.paths
        BY <1>1, <2>1 DEF SaveRecord
    <2>. QED
        BY <1>6, <2>2
<1>7. CASE pc \notin {"start", "middleware", "paths"}
    <2>1. save' = save
        BY <1>7, FramesHold DEF Frames
    <2>. QED
        BY <1>2, <2>1
<1> HIDE DEF Aside
<1>. QED
    BY <1>s, <1>4, <1>5, <1>6, <1>7, ActsHold

\* The paths that DefaultTestBuild adds to.
LEMMA TestPaths ==
    ASSUME TInv, SaveInv, TestBuildStart
    PROVE  /\ paths'.inc = paths.inc
           /\ save'.paths = paths'
           /\ \/ paths' = paths
              \/ /\ Len(cur.middleware) = 1 /\ cur.middleware[1] \in Section
                 /\ logs[cur.middleware[1]].loc # NoPlace
                 /\ paths'.bin = <<cur.middleware[1]>> \o paths.bin
<1>t. TypeOK /\ cur.middleware \in Seq(Section) /\ pc = "start"
    BY Asked DEF TInv, TestBuildStart, At
<1>1. paths = save.paths
    BY <1>t DEF SaveInv
<1>2. CASE UNCHANGED <<paths, mods, save>>
    BY <1>1, <1>2
<1>3. CASE ~UNCHANGED <<paths, mods, save>>
    <2>1. /\ Len(cur.middleware) = 1 /\ paths' = Prepend({"bin"}, Head(cur.middleware))
          /\ save' = [save EXCEPT !.paths = paths']
        BY <1>3 DEF TestBuildStart
    <2>2. Head(cur.middleware) = cur.middleware[1] /\ cur.middleware[1] \in Section
        BY <1>t, <2>1
    <2>3. save'.paths = paths'
        BY <1>t, <2>1 DEF TypeOK, StageTypeOK
    <2> DEFINE m == Head(cur.middleware)
    <2>4. /\ paths'.inc = paths.inc
          /\ logs[m].loc = NoPlace => paths' = paths
          /\ logs[m].loc # NoPlace => paths'.bin = <<m>> \o paths.bin
        BY <1>t, <2>1, <2>2, PrependFacts
    <2>. QED
        BY <2>1, <2>2, <2>3, <2>4
<1>. QED
    BY <1>2, <1>3

\* Paths that were changed are marked as changed.
LEMMA PointMarks ==
    ASSUME TInv, NEW names, NEW next, PointTo(names, next)
    PROVE  save'.mid \/ (paths' = paths /\ save' = save)
<1>t. TypeOK /\ KnownInv /\ save \in SaveRecord /\ Head(todo) \in Section
    BY PointFacts DEF TInv, TypeOK, StageTypeOK, SaveRecord
<1>1. CASE ~logs[Head(todo)].known
    BY <1>1 DEF PointTo
<1>2. CASE logs[Head(todo)].known
    <2> DEFINE l == logs[Head(todo)].loc
    <2>1. /\ paths' = Prepend(names, Head(todo))
          /\ save' = [save EXCEPT !.mid = save.mid \/ l # NoPlace]
        BY <1>2 DEF PointTo
    <2>2. CASE l # NoPlace
        <3>1. save' = [save EXCEPT !.mid = TRUE]
            BY <2>1, <2>2
        <3>. QED
            BY <1>t, <3>1 DEF SaveRecord
    <2>3. CASE l = NoPlace
        <3>1. paths' = paths
            BY <1>t, <2>1, <2>3, PrependFacts
        <3>2. CASE save.mid
            <4>1. save' = [save EXCEPT !.mid = TRUE]
                BY <2>1, <3>2
            <4>. QED
                BY <1>t, <4>1 DEF SaveRecord
        <3>3. CASE ~save.mid
            <4>1. save' = [save EXCEPT !.mid = FALSE] /\ save.mid = FALSE
                BY <1>t, <2>1, <2>3, <3>3 DEF SaveRecord
            <4>2. save' = save
                BY <1>t, <4>1 DEF SaveRecord
            <4>. QED
                BY <3>1, <4>2
        <3>. QED
            BY <3>2, <3>3
    <2>. QED
        BY <2>2, <2>3
<1>. QED
    BY <1>1, <1>2

LEMMA SaveStep ==
    ASSUME TInv, SaveInv, Inner
    PROVE  SaveInv'
<1>t. TypeOK /\ PlaceInv /\ pc \in Places
    BY DEF TInv, PlaceInv
<1>m. Moves /\ Frames /\ cur' = cur
    BY MovesHold, FramesHold DEF Frames
<1>s. /\ save \in SaveRecord /\ save' \in SaveRecord /\ save'.outer = save.outer
      /\ \/ save'.paths = save.paths
         \/ pc = "start" /\ TestBuildStart /\ save'.paths = paths'
    BY SaveFacts
<1>1. save'.paths.inc = save'.outer.inc
    <2>1. CASE save'.paths = save.paths
        BY <1>s, <2>1 DEF SaveInv
    <2>2. CASE pc = "start" /\ TestBuildStart /\ save'.paths = paths'
        <3>1. save'.paths.inc = paths.inc /\ paths = save.outer
            BY <2>2, TestPaths DEF SaveInv
        <3>. QED
            BY <1>s, <3>1
    <2>. QED
        BY <1>s, <2>1, <2>2
<1>2. cur.plugin # "DefaultTestBuild" => save'.paths = save'.outer
    BY <1>s DEF SaveInv, TestBuildStart, At
<1>3. pc' # "start"
    BY <1>m, <1>t DEF Moves, AtRest, Places, Caller
<1>a. pc = "start" => \/ TestBuildStart
                      \/ Strike
                      \/ paths' = paths /\ save' = save
    BY ActsHold DEF Acts, AutoStart, ShellStart, UnitStart, WWulf3Start, HostStart, autoVars,
       stageVars
<1>4. ASSUME pc' \notin {"idle", "returned", "raised", "raising", "unwind", "needs", "modules",
                         "tests", "revert"}
      PROVE  save'.mid \/ paths' = save'.paths
    <2>0. ~Strike
        BY <1>4 DEF Strike, Throw, Go
    <2>1. CASE pc = "start"
        <3>1. CASE TestBuildStart
            BY <3>1, TestPaths
        <3>2. CASE paths' = paths /\ save' = save
            BY <2>1, <3>2 DEF SaveInv
        <3>. QED
            BY <2>0, <2>1, <3>1, <3>2, <1>a
    <2>2. CASE pc = "middleware"
        <3>1. AutoMiddleware \/ ShellMiddleware
            BY <2>0, <2>2, ActsHold DEF Acts
        <3>2. CASE PointTo({"bin", "inc"}, "middleware")
            BY <2>2, <3>2, PointMarks DEF SaveInv
        <3>3. CASE ~PointTo({"bin", "inc"}, "middleware")
            <4>1. paths' = paths /\ save' = save
                BY <3>1, <3>3, MiddleCases DEF ShellList, ApplyWanted, stageVars
            <4>. QED
                BY <2>2, <4>1 DEF SaveInv
        <3>. QED
            BY <3>2, <3>3
    <2>3. CASE pc \notin {"start", "middleware"}
        <3>1. pc \notin {"idle", "returned", "raised", "raising", "unwind", "needs", "modules",
                         "tests", "revert", "finish", "paths", "verdict"}
            BY <1>4, <1>m, <1>t DEF Moves, AtRest, Caller
        <3>2. paths' = paths /\ save' = save
            BY <2>3, <3>1, <1>m DEF Frames
        <3>. QED
            BY <3>1, <3>2 DEF SaveInv
    <2>. QED
        BY <2>1, <2>2, <2>3
<1>5. ASSUME pc' \in {"ask", "write"} PROVE paths' = save'.outer
    <2>1. pc \in {"start", "ask"} /\ ~Strike /\ ~TestBuildStart
        BY <1>5, <1>m, <1>t DEF Moves, AtRest, Places, Caller, Strike, Throw, TestBuildStart, Go
    <2>2. paths' = paths
        BY <1>a, <1>m, <2>1 DEF Frames
    <2>. QED
        BY <1>s, <2>1, <2>2 DEF SaveInv
<1>6. ASSUME pc' \in {"paths", "needs", "modules", "tests", "revert"}
      PROVE  paths'.inc = save'.outer.inc
    <2>1. pc \in {"start", "paths", "needs", "modules", "tests"} /\ ~Strike
        BY <1>6, <1>m, <1>t DEF Moves, AtRest, Places, Caller, Strike, Throw, Go
    <2>2. CASE pc = "start"
        <3>1. ~TestBuildStart
            BY <1>6 DEF TestBuildStart, Go
        <3>. QED
            BY <1>a, <1>s, <2>1, <2>2, <3>1 DEF SaveInv
    <2>3. CASE pc = "paths"
        <3>1. UnitPaths
            BY <2>1, <2>3, ActsHold DEF Acts
        <3>2. CASE paths' = paths
            BY <1>s, <2>3, <3>2 DEF SaveInv
        <3>3. CASE paths' # paths
            <4>1. Middle # <<>> /\ paths' = Prepend({"bin"}, Middle[1])
                BY <3>1, <3>3 DEF UnitPaths
            <4>2. Middle[1] \in Section
                BY <1>t, <2>3, <4>1, MiddleType DEF Testing
            <4>3. paths'.inc = paths.inc
                BY <1>t, <4>1, <4>2, PrependFacts
            <4>. QED
                BY <1>s, <2>3, <4>3 DEF SaveInv
        <3>. QED
            BY <3>2, <3>3
    <2>4. CASE pc \in {"needs", "modules", "tests"}
        BY <1>m, <1>s, <2>4 DEF Frames, SaveInv
    <2>. QED
        BY <2>1, <2>2, <2>3, <2>4
<1>. QED
    BY <1>m, <1>1, <1>2, <1>3, <1>4, <1>5, <1>6 DEF SaveInv

LEMMA TodoStep ==
    ASSUME TInv, TodoInv, Inner
    PROVE  TodoInv'
<1>1. Moves /\ Frames /\ pc \in Places
    BY MovesHold, FramesHold DEF TInv, PlaceInv
<1>2. pc' \in {"start", "autotools"} => pc = "start"
    BY <1>1 DEF Moves, AtRest, Places, Caller
<1>. QED
    BY <1>1, <1>2 DEF TodoInv, Frames

LEMMA BackStep ==
    ASSUME TInv, SaveInv, BackInv, Inner
    PROVE  BackInv'
<1>t. TypeOK /\ PlaceInv /\ pc \in Places /\ IsOptions(mods) /\ log \in SectionLog
    BY LogFacts DEF TInv, PlaceInv, KnownInv
<1>m. Moves /\ Frames /\ cur' = cur /\ entry' = entry /\ logs' = logs
    BY MovesHold, FramesHold DEF Frames
<1>s. /\ save.outer = save'.outer
      /\ Middle' = Middle
    BY <1>m, SaveFacts DEF Middle
<1>0. pc' # "raising" => ~Strike
    BY DEF Strike, Throw, Go
<1>1. pc' \in {"needs", "modules", "tests", "revert"}
          => save'.mid \/ paths' = save'.outer \/ Middle' # <<>>
    <2> SUFFICES ASSUME pc' \in {"needs", "modules", "tests", "revert"}
                 PROVE  save'.mid \/ paths' = save'.outer \/ Middle # <<>>
        BY <1>s
    <2>1. pc \in {"paths", "needs", "modules", "tests"}
        BY <1>m, <1>t DEF Moves, AtRest, Places, Caller
    <2>2. CASE pc = "paths"
        <3>1. UnitPaths /\ cur.plugin = "PMIxUnit"
            BY <1>0, <2>2, ActsHold DEF Acts, UnitPaths, At
        <3>2. CASE Middle = <<>>
            <4>1. paths' = paths /\ save' = save
                BY <3>1, <3>2 DEF UnitPaths
            <4>. QED
                BY <2>2, <3>1, <4>1 DEF SaveInv
        <3>. QED
            BY <3>2
    <2>3. CASE pc # "paths"
        BY <1>m, <2>1, <2>3 DEF BackInv, Frames
    <2>. QED
        BY <2>2, <2>3
<1>2. pc' = "unwind" /\ Done' => env'.cwd = entry'.cwd /\ paths' = save'.paths
    <2> SUFFICES ASSUME pc' = "unwind", Done'
                 PROVE  env'.cwd = entry'.cwd /\ paths' = save'.paths
        OBVIOUS
    <2>1. cur.plugin \in Builders /\ pc' = Caller /\ pc # "unwind"
        BY <1>t, <1>m, PlaceStep DEF TInv, PlaceInv, Builders, Caller, Moves
    <2>2. pc = "finish"
        BY <2>1, NotDone
    <2>3. Finish
        BY <1>0, <2>2, ActsHold DEF Acts
    <2>4. env'.cwd = entry.cwd /\ paths' = IF save.mid THEN save.paths ELSE paths
        BY <2>3, FinishFacts
    <2>5. save' = save /\ (save.mid \/ paths = save.paths)
        BY <2>2, <1>m DEF Frames, SaveInv
    <2>. QED
        BY <1>m, <2>4, <2>5
<1>3. pc' \in {"move", "harass", "run", "release"} \/ At("Shell", "allocate")' => log'.status = 0
    <2> SUFFICES ASSUME pc' \in {"move", "harass", "run", "release"}
                        \/ (cur.plugin = "Shell" /\ pc' = "allocate")
                 PROVE  log'.status = 0
        BY <1>m DEF At
    <2>1. /\ pc \in {"middleware", "move", "allocate", "harass", "run"} /\ cur.plugin = "Shell"
          /\ pc = "middleware" <=> pc' = "move"
        BY <1>m, <1>t, PlaceStep DEF TInv, PlaceInv, Commanding, Moves, AtRest, Places, Caller
    <2>a. Acts
        BY <1>0, ActsHold
    <2>2. CASE pc = "middleware"
        <3>1. ShellMiddleware
            BY <2>1, <2>2, <2>a DEF Acts, AutoMiddleware, AutoAt, Builders
        <3>2. ApplyWanted("move", "returned")
            BY <2>1, <2>2, <3>1 DEF ShellMiddleware, PointTo, Throw, Go
        <3>. QED
            BY <1>t, <2>1, <2>2, <3>2, ApplyFacts DEF ApplyWanted
    <2>3. CASE pc = "move"
        BY <2>a, <2>3, <2>1 DEF Acts, ShellMove, BackInv
    <2>4. CASE pc = "allocate"
        <3>1. ShellAllocate
            BY <2>1, <2>4, <2>a DEF Acts, WWulf3Allocate, At
        <3>. QED
            BY <2>1, <2>4, <3>1 DEF ShellAllocate, Fail, Return, Go, BackInv, At
    <2>5. CASE pc = "harass"
        BY <2>1, <2>5, <2>a DEF Acts, ShellHarass, Go, BackInv
    <2>6. CASE pc = "run"
        BY <2>1, <2>6, <2>a DEF Acts, ShellRun, BackInv
    <2>. QED
        BY <2>1, <2>2, <2>3, <2>4, <2>5, <2>6
<1>4. pc' = "verdict" => log'.status = 0 \/ "Shell" \in excused'
    <2> SUFFICES ASSUME pc' = "verdict" PROVE log'.status = 0 \/ "Shell" \in excused'
        OBVIOUS
    <2>1. pc = "release"
        BY <1>m, <1>t DEF Moves, AtRest, Places, Caller
    <2>2. ShellRelease
        BY <1>0, <2>1, ActsHold DEF Acts
    <2>3. log' = log \/ "Shell" \in excused'
        BY <2>2 DEF ShellRelease, Deallocate, Refused
    <2>. QED
        BY <2>1, <2>3 DEF BackInv
<1>5. pc' = "abandon" => log'.status = 1
    <2> SUFFICES ASSUME pc' = "abandon" PROVE log'.status = 1
        OBVIOUS
    <2>1. pc = "harass"
        BY <1>m, <1>t DEF Moves, AtRest, Places, Caller
    <2>2. ShellHarass
        BY <1>0, <2>1, ActsHold DEF Acts
    <2>3. log' = [log EXCEPT !.status = 1]
        BY <2>2 DEF ShellHarass, Go
    <2>. QED
        BY <1>t, <2>3 DEF SectionLog
<1>. QED
    BY <1>1, <1>2, <1>3, <1>4, <1>5 DEF BackInv

LEMMA NothingStep ==
    ASSUME TInv, SaveInv, TodoInv, NothingInv, Inner
    PROVE  NothingInv'
<1>t. /\ TypeOK /\ PlaceInv /\ KnownInv /\ pc \in Places /\ cur.middleware \in Seq(Section)
      /\ todo \in Seq(Section)
    BY Asked DEF TInv, PlaceInv, TypeOK, StageTypeOK
<1>m. Moves /\ Frames /\ cur' = cur /\ logs' = logs
    BY MovesHold, FramesHold DEF Frames
<1>s. /\ save \in SaveRecord /\ save' \in SaveRecord /\ paths \in Paths /\ save'.outer = save.outer
      /\ \/ save'.paths = save.paths
         \/ pc = "start" /\ TestBuildStart /\ save'.paths = paths'
    BY SaveFacts
<1>1. SUFFICES ASSUME cur.plugin = "DefaultTestBuild", Len(cur.middleware) <= 1,
                      pc' \in Building \cup {"autotools", "middleware", "unwind"},
                      save'.paths = save.outer
               PROVE  /\ paths'.bin = save.outer.bin
                      /\ \A i \in DOMAIN todo' : logs[todo'[i]].loc = NoPlace
    BY <1>m, <1>s DEF NothingInv
<1>a. Acts
    BY <1>1, ActsHold DEF Strike, Throw, Go, Building
<1>2. CASE pc = "start"
    <2>1. TestBuildStart
        BY <1>1, <1>2, <1>a DEF Acts, AutoStart, ShellStart, UnitStart, WWulf3Start, HostStart, At
    <2>2. todo' = todo /\ todo = cur.middleware
        BY <1>2, <2>1 DEF TestBuildStart, TodoInv
    <2>3. paths = save.outer /\ paths' = save.outer
        BY <1>1, <1>2, <2>1, TestPaths DEF SaveInv
    <2>4. ASSUME NEW i \in DOMAIN cur.middleware PROVE logs[cur.middleware[i]].loc = NoPlace
        <3> DEFINE m == cur.middleware[1]
        <3>0. DOMAIN cur.middleware = 1 .. Len(cur.middleware) /\ Len(cur.middleware) \in Nat
            BY <1>t
        <3>1. i = 1 /\ Len(cur.middleware) = 1 /\ Head(cur.middleware) = m /\ m \in Section
            <4> DEFINE n == Len(cur.middleware)
            <4>0. i \in 1 .. n /\ n \in Nat /\ n <= 1
                BY <1>1, <2>4, <3>0, Zenon
            <4> HIDE DEF n
            <4>2. i = 1 /\ n = 1
                BY <4>0
            <4>1. i = 1 /\ Len(cur.middleware) = 1
                BY <4>2 DEF n
            <4>. QED
                BY <1>t, <3>0, <4>1
        <3>2. CASE ~logs[m].known
            BY <1>t, <3>1, <3>2 DEF KnownInv
        <3>3. CASE logs[m].known
            <4>1. paths' = Prepend({"bin"}, m)
                BY <2>1, <3>1, <3>3 DEF TestBuildStart
            <4>2. CASE logs[m].loc # NoPlace
                <5>1. paths'.bin = <<m>> \o paths.bin
                    BY <1>t, <3>1, <4>1, <4>2, PrependFacts
                <5>2. paths.bin \in Seq(Entries)
                    BY <1>s DEF Paths
                <5>3. Len(<<m>> \o paths.bin) = 1 + Len(paths.bin) /\ Len(paths.bin) \in Nat
                    BY <3>1, <5>2 DEF Entries
                <5>. QED
                    BY <2>3, <5>1, <5>3
            <4>. QED
                BY <3>1, <4>2
        <3>. QED
            BY <3>2, <3>3
    <2>. QED
        BY <2>2, <2>3, <2>4
<1>3. CASE pc = "middleware"
    <2>1. save.paths = save.outer
        BY <1>1, <1>3, <1>s
    <2>2. /\ paths.bin = save.outer.bin
          /\ \A i \in DOMAIN todo : logs[todo[i]].loc = NoPlace
        BY <1>1, <1>3, <2>1 DEF NothingInv
    <2>3. AutoMiddleware
        BY <1>1, <1>3, <1>a DEF Acts, ShellMiddleware, At
    <2>4. CASE PointTo({"bin", "inc"}, "middleware")
        <3>1. todo # <<>> /\ Head(todo) = todo[1] /\ 1 \in DOMAIN todo /\ Head(todo) \in Section
            BY <1>t, <2>4 DEF PointTo
        <3>2. paths' = paths
            BY <1>t, <2>2, <2>4, <3>1, PrependFacts DEF PointTo
        <3>3. todo' = todo \/ todo' = Tail(todo)
            BY <2>4 DEF PointTo
        <3>4. \A i \in DOMAIN Tail(todo) : i + 1 \in DOMAIN todo /\ Tail(todo)[i] = todo[i + 1]
            BY <1>t, <3>1
        <3>. QED
            BY <2>2, <3>2, <3>3, <3>4
    <2>5. CASE ~PointTo({"bin", "inc"}, "middleware")
        <3>1. paths' = paths /\ todo' = todo
            BY <2>3, <2>5 DEF AutoMiddleware, ApplyWanted, stageVars
        <3>. QED
            BY <2>2, <3>1
    <2>. QED
        BY <2>4, <2>5
<1>4. CASE pc \notin {"start", "middleware"}
    <2>1. pc \in Building \cup {"autotools"}
        BY <1>1, <1>4, <1>m, <1>t DEF Moves, AtRest, Places, Building, PlaceInv, Commanding,
           Testing, Holders, Caller
    <2>2. save' = save /\ todo' = todo
        BY <1>4, <1>m, <2>1 DEF Frames, Building
    <2>3. /\ paths.bin = save.outer.bin
          /\ \A i \in DOMAIN todo : logs[todo[i]].loc = NoPlace
        BY <1>1, <2>1, <2>2 DEF NothingInv
    <2>4. paths' = paths \/ paths' = save.paths
        <3>1. CASE pc = "finish"
            BY <1>a, <3>1 DEF Acts, Finish, PathsBack
        <3>2. CASE pc # "finish"
            BY <1>m, <2>1, <3>2 DEF Frames, Building
        <3>. QED
            BY <3>1, <3>2
    <2>. QED
        BY <1>1, <2>2, <2>3, <2>4
<1>. QED
    BY <1>2, <1>3, <1>4

LEMMA EnvStep ==
    ASSUME TInv, EnvInv, Inner, struck' = (struck \/ pc' = "raising")
    PROVE  EnvInv'
<1>t. TypeOK /\ pc \in Places /\ envars \in [Envar -> {"none", "user", "section"}]
    BY DEF TInv, PlaceInv, TypeOK, StageTypeOK
<1>m. Moves /\ Frames
    BY MovesHold, FramesHold
<1>1. SUFFICES ASSUME ~struck, pc' # "raising", NEW v \in Envar, envars'[v] = "section"
               PROVE  pc' \in {"clean", "all", "install", "finish"} /\ v \in Elems(loaded')
    BY DEF EnvInv
<1>a. Acts
    BY <1>1, ActsHold DEF Strike, Throw, Go
<1>2. envars[v] = "section" => pc \in {"clean", "all", "install", "finish"} /\ v \in Elems(loaded)
    BY <1>1 DEF EnvInv
<1>3. ~UnsetEnvars
    BY <1>1, <1>2 DEF UnsetEnvars
<1>4. ~StepFails
    BY <1>3 DEF StepFails
<1>5. CASE pc \notin {"autogen", "configure", "envars", "clean", "all", "finish"}
    <2>1. envars' = envars /\ loaded' = loaded
        BY <1>5, <1>m DEF Frames
    <2>2. pc = "install" /\ pc' = "finish"
        BY <1>1, <1>2, <1>5, <1>m, <2>1 DEF Moves
    <2>. QED
        BY <1>1, <1>2, <2>1, <2>2
<1>6. CASE pc \in {"autogen", "configure"}
    <2>1. envars' = envars
        BY <1>4, <1>6, <1>a DEF Acts, Autogen, Configure, StepDone
    <2>. QED
        BY <1>1, <1>2, <1>6, <2>1
<1>7. CASE pc = "envars"
    <2>1. SetEnvars
        BY <1>7, <1>a DEF Acts
    <2>. QED
        BY <1>1, <1>2, <1>7, <2>1 DEF SetEnvars, Go
<1>8. CASE pc \in {"clean", "all"}
    <2>1. envars' = envars /\ loaded' = loaded /\ pc' \in {"all", "install"}
        BY <1>4, <1>8, <1>a DEF Acts, MakeClean, MakeAll, StepDone, Go
    <2>. QED
        BY <1>1, <1>2, <2>1
<1>9. CASE pc = "finish"
    BY <1>3, <1>9, <1>a DEF Acts, Finish
<1>. QED
    BY <1>5, <1>6, <1>7, <1>8, <1>9

\* What of the paths is not put back.
PathsLost ==
    \/ cur.plugin = "PMIxUnit" /\ ~save.mid /\ Middle # <<>>
    \/ cur.plugin = "Shell" /\ ~Passes /\ "Shell" \in excused

\* The paths are as they were found.
PathsFound == AsFound(paths.bin, save.outer.bin) /\ AsFound(paths.inc, save.outer.inc)

\* The plugins that return one by one.
LEMMA BuilderRestores ==
    ASSUME TInv, SaveInv, BackInv, Inner, cur.plugin \in Builders, pc' = "returned", Done'
    PROVE  env'.cwd = entry.cwd /\ PathsFound'
<1>0. ~Strike
    BY DEF Strike, Throw, Go
<1>s. save \in SaveRecord /\ paths \in Paths /\ paths' \in Paths /\ cur' = cur
    BY SaveFacts, FramesHold DEF Frames
<1>1. CASE pc = "unwind"
    <2>1. TestBuildEnd /\ save' = save /\ env' = env /\ log' = log /\ dry' = dry
        BY <1>0, <1>1, ActsHold DEF Acts, TestBuildEnd, wanted, found
    <2>2. env.cwd = entry.cwd /\ paths = save.paths
        BY <1>1, <2>1 DEF BackInv, Done
    <2>3. CASE save.paths = save.outer
        BY <2>1, <2>2, <2>3 DEF TestBuildEnd, PathsFound, AsFound
    <2>4. CASE save.paths # save.outer
        <3>1. paths' = [save.paths EXCEPT !.bin = AsString(save.outer.bin)]
            BY <2>1, <2>2, <2>4 DEF TestBuildEnd
        <3>2. /\ save.paths \in Paths /\ save.outer \in Paths
              /\ save.paths.inc = save.outer.inc
            BY <1>s DEF SaveRecord, SaveInv
        <3>3. paths'.bin = AsString(save.outer.bin) /\ paths'.inc = save.outer.inc
            BY <3>1, <3>2 DEF Paths
        <3>4. cur.plugin = "DefaultTestBuild"
            BY <2>1 DEF TestBuildEnd, At
        <3>5. PathsFound'
            BY <1>s, <2>1, <3>3, <3>4 DEF PathsFound, AsFound, AsString
        <3>. QED
            BY <2>1, <2>2, <3>5
    <2>. QED
        BY <2>1, <2>2, <2>3, <2>4
<1>2. CASE pc # "unwind"
    <2>1. pc' = Caller
        BY <1>2, Ending
    <2>2. pc = "finish"
        BY <1>2, <2>1, NotDone
    <2>3. Finish
        BY <1>0, <2>2, ActsHold DEF Acts
    <2>4. env'.cwd = entry.cwd /\ paths' = IF save.mid THEN save.paths ELSE paths
        BY <2>3, FinishFacts
    <2>5. save' = save /\ (save.mid \/ paths = save.paths)
        BY <2>2, FramesHold DEF Frames, SaveInv
    <2>6. cur.plugin # "DefaultTestBuild"
        BY <2>1 DEF Caller
    <2>7. paths' = save'.outer
        BY <2>4, <2>5, <2>6 DEF SaveInv
    <2>. QED
        BY <2>4, <2>7 DEF PathsFound, AsFound
<1>. QED
    BY <1>1, <1>2

LEMMA ShellRestores ==
    ASSUME TInv, SaveInv, BackInv, Inner, cur.plugin = "Shell", pc' = "returned", Done'
    PROVE  env'.cwd = entry.cwd /\ (PathsFound' \/ PathsLost')
<1>t. TypeOK /\ PlaceInv /\ pc \in Places /\ IsOptions(mods) /\ log \in SectionLog
    BY LogFacts DEF TInv, PlaceInv, KnownInv
<1>m. Moves /\ Frames
    BY MovesHold, FramesHold
<1>a. Acts
    BY ActsHold DEF Strike, Throw, Go
<1>1. pc \in {"start", "middleware", "allocate", "abandon", "verdict"}
    <2>1. pc \notin Building \cup Testing \cup {"autotools", "unwind", "provision", "cycle",
                                                "ask", "write"}
        BY <1>t DEF PlaceInv, Builders
    <2>. QED
        BY <1>t, <1>m, <2>1 DEF Moves, AtRest, Places, Building, Testing
<1>f. ASSUME log' = [log EXCEPT !.status = 1] PROVE FALSE
    <2>1. log'.status = 1
        BY <1>f, <1>t DEF SectionLog
    <2>. QED
        BY <2>1 DEF Done
<1>2. pc # "start"
    <2>1. ASSUME pc = "start" PROVE FALSE
        <3>1. ShellStart
            BY <1>a, <2>1 DEF Acts, TestBuildStart, AutoStart, UnitStart, WWulf3Start, HostStart,
               At
        <3>2. CASE log' = [log EXCEPT !.status = 0, !.memo = TRUE]
            BY <1>t, <3>2 DEF Done, SectionLog
        <3>3. CASE log' = [log EXCEPT !.status = 0, !.located = TRUE, !.memo = TRUE]
            BY <1>t, <3>3 DEF Done, SectionLog
        <3>. QED
            BY <1>f, <3>1, <3>2, <3>3 DEF ShellStart, Fail, Go
    <2>. QED
        BY <2>1
<1>3. pc # "middleware"
    <2>1. ASSUME pc = "middleware" PROVE FALSE
        <3>1. ApplyWanted("move", "returned")
            BY <1>a, <2>1, MiddleCases DEF Acts, AutoMiddleware, AutoAt, Builders, PointTo,
               ShellList, Throw, Go
        <3>. QED
            BY <1>t, <3>1, ApplyFacts DEF ApplyWanted, Done
    <2>. QED
        BY <2>1
<1>4. pc # "allocate"
    <2>1. ASSUME pc = "allocate" PROVE FALSE
        BY <1>a, <1>f, <2>1 DEF Acts, WWulf3Allocate, ShellAllocate, At, Go, Fail
    <2>. QED
        BY <2>1
<1>5. pc # "abandon"
    BY <1>a DEF Acts, ShellAbandon, BackInv, Done
<1>6. pc = "verdict"
    BY <1>1, <1>2, <1>3, <1>4, <1>5
<1>7. CASE ShellFailed
    <2>1. env' = [env EXCEPT !.cwd = entry.cwd]
        BY <1>7 DEF ShellFailed
    <2>2. env'.cwd = entry.cwd
        BY <1>t, <2>1 DEF TypeOK, StageTypeOK, SharedTypeOK
    <2>3. log.status # 0
        <3>1. ASSUME log.status = 0 PROVE FALSE
            BY <1>7, <1>f, <3>1 DEF ShellFailed
        <3>. QED
            BY <3>1
    <2>4. "Shell" \in excused /\ ~Passes
        BY <1>6, <1>7, <2>3 DEF BackInv, ShellFailed
    <2>5. excused' = excused /\ result' = result /\ cur' = cur
        BY <1>7 DEF ShellFailed, shellVars, nodeVars, Return, Go
    <2>6. "Shell" \in excused' /\ ~Passes' /\ cur'.plugin = "Shell"
        BY <2>4, <2>5 DEF Passes
    <2>. QED
        BY <2>2, <2>6 DEF PathsLost
<1>8. CASE ShellPassed
    <2>1. PICK o \in RevertModules(Me, env.modules) : env' = [modules |-> o[1], cwd |-> entry.cwd]
        BY <1>8 DEF ShellPassed
    <2>2. /\ save' = save /\ cur' = cur
          /\ paths' = IF save.mid
                      THEN [bin |-> AsString(save.paths.bin), inc |-> AsString(save.paths.inc)]
                      ELSE paths
        BY <1>8, <1>m DEF ShellPassed, wanted, Frames
    <2>3. save.paths = save.outer /\ (save.mid \/ paths = save.paths)
        BY <1>6 DEF SaveInv
    <2>4. PathsFound'
        BY <2>2, <2>3 DEF PathsFound, AsFound, AsString
    <2>. QED
        BY <2>1, <2>4
<1>. QED
    BY <1>a, <1>6, <1>7, <1>8 DEF Acts

LEMMA UnitRestores ==
    ASSUME TInv, SaveInv, BackInv, Inner, cur.plugin = "PMIxUnit", pc' = "returned", Done'
    PROVE  env'.cwd = entry.cwd /\ (PathsFound' \/ PathsLost')
<1>t. TypeOK /\ PlaceInv /\ pc \in Places /\ IsOptions(mods) /\ log \in SectionLog
    BY LogFacts DEF TInv, PlaceInv, KnownInv
<1>m. Moves /\ Frames
    BY MovesHold, FramesHold
<1>a. Acts
    BY ActsHold DEF Strike, Throw, Go
<1>1. pc \in {"start", "modules", "revert"}
    <2>1. pc \notin Building \cup Commanding \cup {"autotools", "unwind", "middleware", "allocate",
                                                   "provision", "cycle", "ask", "write"}
        BY <1>t DEF PlaceInv, Builders, Holders
    <2>. QED
        BY <1>t, <1>m, <2>1 DEF Moves, AtRest, Places, Building, Commanding
<1>2. pc # "start"
    <2>1. ASSUME pc = "start" PROVE FALSE
        <3>1. UnitStart
            BY <1>a, <2>1 DEF Acts, TestBuildStart, AutoStart, ShellStart, WWulf3Start, HostStart,
               At
        <3>2. log' = [log EXCEPT !.status = 1]
            BY <3>1 DEF UnitStart, Fail, Throw, Go
        <3>3. log'.status = 1
            BY <1>t, <3>2 DEF SectionLog
        <3>. QED
            BY <3>3 DEF Done
    <2>. QED
        BY <2>1
<1>3. pc # "modules"
    <2>1. ASSUME pc = "modules" PROVE FALSE
        <3>1. Apply(mods, "tests", "returned")
            BY <1>a, <2>1 DEF Acts, UnitModules
        <3>. QED
            BY <1>t, <3>1, ApplyFacts DEF Done
    <2>. QED
        BY <2>1
<1>4. pc = "revert" /\ UnitRevert
    BY <1>1, <1>2, <1>3, <1>a DEF Acts
<1>5. PICK o \in RevertModules(Me, env.modules) :
          /\ env' = [modules |-> o[1], cwd |-> IF o[2] # 0 THEN env.cwd ELSE entry.cwd]
          /\ log' = [log EXCEPT !.status = o[2]]
          /\ paths' = IF o[2] = 0 /\ save.mid
                      THEN [paths EXCEPT !.bin = AsString(save.paths.bin)] ELSE paths
    BY <1>4 DEF UnitRevert
<1>6. o[2] \in {0, 1}
    BY <1>t, RevertFacts
<1>7. log'.status = o[2]
    BY <1>t, <1>5, <1>6 DEF SectionLog
<1>8. o[2] = 0
    BY <1>7 DEF Done
<1>9. /\ env'.cwd = entry.cwd
      /\ paths' = IF save.mid THEN [paths EXCEPT !.bin = AsString(save.paths.bin)] ELSE paths
    BY <1>5, <1>8
<1>10. save' = save /\ cur' = cur /\ logs' = logs /\ save.paths = save.outer
    BY <1>4, <1>m DEF Frames, SaveInv
<1>11. Middle' = Middle
    BY <1>10 DEF Middle
<1>12. /\ save.mid \/ paths = save.outer \/ Middle # <<>>
       /\ paths.inc = save.outer.inc /\ paths \in Paths
    BY <1>4, <1>t DEF BackInv, SaveInv, UnitRevert, At, TypeOK, StageTypeOK
<1>13. CASE save.mid
    <2>1. paths'.bin = AsString(save.outer.bin) /\ paths'.inc = save.outer.inc
        BY <1>9, <1>10, <1>12, <1>13 DEF Paths
    <2>. QED
        BY <1>9, <1>10, <2>1 DEF PathsFound, AsFound, AsString
<1>14. CASE ~save.mid /\ paths = save.outer
    BY <1>9, <1>10, <1>14 DEF PathsFound, AsFound
<1>15. CASE ~save.mid /\ Middle # <<>>
    BY <1>9, <1>10, <1>11, <1>15 DEF PathsLost
<1>. QED
    BY <1>12, <1>13, <1>14, <1>15

LEMMA HostRestores ==
    ASSUME TInv, SaveInv, Inner, cur.plugin = "Hostfile", pc' = "returned", Done'
    PROVE  env'.cwd = entry.cwd /\ PathsFound'
<1>1. pc = "write" /\ HostWrite
    BY HostDone
<1>2. env' = [env EXCEPT !.cwd = entry.cwd] /\ paths' = paths /\ save' = save
    BY <1>1 DEF HostWrite, stageVars
<1>3. env'.cwd = entry.cwd
    BY <1>2 DEF TInv, TypeOK, StageTypeOK, SharedTypeOK
<1>4. paths' = save'.outer
    BY <1>1, <1>2 DEF SaveInv
<1>. QED
    BY <1>3, <1>4 DEF PathsFound, AsFound

LEMMA RestoresEnds ==
    ASSUME TInv, SaveInv, BackInv, Inner
    PROVE  Restores'
<1>1. cur' = cur /\ entry' = entry
    BY FramesHold DEF Frames
<1>2. SUFFICES ASSUME cur.plugin \in Builders \cup {"Shell", "PMIxUnit", "Hostfile"},
                      pc' = "returned", Done'
               PROVE  env'.cwd = entry.cwd /\ (PathsFound' \/ PathsLost')
    BY <1>1 DEF Restores, PathsFound, PathsLost, Worked, Done
<1>. QED
    BY <1>2, BuilderRestores, ShellRestores, UnitRestores, HostRestores

LEMMA TestBuildEnds ==
    ASSUME TInv, NothingInv, Inner
    PROVE  TestBuildRestores'
<1>1. SUFFICES ASSUME pc' = "returned", cur.plugin = "DefaultTestBuild", Len(cur.middleware) <= 1
               PROVE  \/ paths'.bin = save'.outer.bin
                      \/ paths'.bin = AsString(save'.outer.bin)
    BY FramesHold DEF Frames, TestBuildRestores, AsFound, AsString
<1>2. pc = "unwind"
    BY <1>1, Ending DEF Builders, Caller
<1>3. TestBuildEnd
    BY <1>1, <1>2, ActsHold DEF Acts, Strike, Throw, Go
<1>4. save' = save /\ paths \in Paths
    BY <1>3, SaveFacts DEF TestBuildEnd, wanted
<1>5. CASE save.paths # save.outer
    BY <1>3, <1>4, <1>5 DEF TestBuildEnd, Paths
<1>6. CASE save.paths = save.outer
    BY <1>1, <1>2, <1>3, <1>4, <1>6 DEF TestBuildEnd, NothingInv
<1>. QED
    BY <1>5, <1>6

\* What is to be put back can be put back.
Kept == SaveInv /\ TodoInv /\ BackInv /\ NothingInv /\ EnvInv

LEMMA SpecKept == Spec => [](Kept /\ Restores /\ TestBuildRestores)
<1> DEFINE I == Kept /\ Restores /\ TestBuildRestores
<1> USE DEF Kept
<1>1. Init => I
    <2> SUFFICES ASSUME Init PROVE I
        OBVIOUS
    <2>1. pc = "idle" /\ save = [paths |-> UserPaths, outer |-> UserPaths, mid |-> FALSE]
          /\ envars = UserEnvars
        BY DEF Init, SharedInit, StageInit
    <2>2. SaveInv
        BY <2>1 DEF SaveInv
    <2>3. TodoInv /\ BackInv /\ NothingInv
        BY <2>1 DEF TodoInv, BackInv, NothingInv, At, Building
    <2>4. EnvInv
        BY <2>1 DEF EnvInv, UserEnvars
    <2>. QED
        BY <2>1, <2>2, <2>3, <2>4 DEF Restores, TestBuildRestores, Worked
<1>2. TInv /\ I /\ [Next]_vars => I'
    <2> SUFFICES ASSUME TInv, I, [Next]_vars PROVE I'
        OBVIOUS
    <2>1. CASE Inner /\ struck' = (struck \/ pc' = "raising")
        BY <2>1, SaveStep, TodoStep, BackStep, NothingStep, EnvStep, RestoresEnds, TestBuildEnds
    <2>2. CASE StageStart
        <3> USE <2>2, StartFrame
        <3>1. SaveInv'
            BY DEF SaveInv
        <3>2. TodoInv' /\ BackInv' /\ NothingInv'
            BY DEF TodoInv, BackInv, NothingInv, At, Building
        <3>3. EnvInv'
            BY DEF EnvInv, AtRest
        <3>. QED
            BY <3>1, <3>2, <3>3 DEF Restores, TestBuildRestores, Worked
    <2>3. CASE StagePass
        <3> USE <2>3, PassFrame
        <3>1. SaveInv'
            BY DEF SaveInv
        <3>2. TodoInv' /\ BackInv' /\ NothingInv'
            BY DEF TodoInv, BackInv, NothingInv, At, Building
        <3>3. EnvInv'
            BY DEF EnvInv, AtRest
        <3>. QED
            BY <3>1, <3>2, <3>3 DEF Restores, TestBuildRestores, Worked
    <2>4. CASE Restart
        <3> USE <2>4, RestartFrame
        <3>1. SaveInv'
            BY DEF SaveInv
        <3>2. TodoInv' /\ BackInv' /\ NothingInv'
            BY DEF TodoInv, BackInv, NothingInv, At, Building
        <3>3. EnvInv'
            BY DEF EnvInv, UserEnvars
        <3>. QED
            BY <3>1, <3>2, <3>3 DEF Restores, TestBuildRestores, Worked
    <2>5. CASE UNCHANGED vars
        <3>1. Source' = Source /\ Middle' = Middle /\ Passes' = Passes
            BY <2>5, StutterFrame DEF Source, Me, Middle, Passes
        <3> USE <2>5, <3>1, StutterFrame
        <3>2. SaveInv' /\ TodoInv'
            BY DEF SaveInv, TodoInv
        <3>3. BackInv'
            BY DEF BackInv, At, Done
        <3>4. NothingInv'
            BY DEF NothingInv
        <3>5. EnvInv'
            BY DEF EnvInv
        <3>6. Restores' /\ TestBuildRestores'
            BY DEF Restores, TestBuildRestores, Worked, AsFound
        <3>. QED
            BY <3>2, <3>3, <3>4, <3>5, <3>6
    <2>6. Strike => pc' = "raising"
        BY DEF Strike, Throw, Go
    <2> HIDE DEF I
    <2>. QED
        BY <2>1, <2>2, <2>3, <2>4, <2>5, <2>6, NextCases DEF Inner
<1> HIDE DEF I
<1>3. Spec => []I
    BY <1>1, <1>2, SpecTInv, PTL DEF Spec
<1>. QED
    BY <1>3 DEF I

\* A section leaves the process as it was: directory, paths and variables; but
\* a path that was not set may be left as an empty string.
THEOREM SpecProcessRestored == Spec => []ProcessRestored
<1>1. Kept /\ Restores /\ TestBuildRestores => ProcessRestored
    BY DEF Kept, EnvInv, EnvarsGone, AtRest, ProcessRestored
<1>. QED
    BY <1>1, SpecKept, PTL
-----------------------------------------------------------------------------
(* What a section takes it gives back                                        *)

\* How allocations change, away from the place where they are made.
LEMMA HeldMoves ==
    ASSUME TInv, Inner
    PROVE  /\ excused \subseteq excused'
           /\ pc = "move" => held' = held
           /\ pc \in {"harass", "run"} => UNCHANGED <<allocated, held, excused>>
           /\ Strike /\ pc # "allocate" => held' = held
           /\ Strike => allocated' = allocated /\ excused' = excused /\ shell' = shell
           /\ pc \in {"release", "abandon", "raising"} /\ ~Strike =>
                 \/ UNCHANGED <<allocated, held, excused>>
                    /\ (pc # "raising" => ~allocated["Shell"])
                    /\ (pc = "raising" => ~(shell.activated /\ shell.commands /\ allocated["Shell"]))
                 \/ allocated["Shell"] /\ Returned("Shell")
                 \/ allocated["Shell"] /\ Refused("Shell")
           /\ pc \in {"provision", "cycle"} /\ ~Strike =>
                 \/ UNCHANGED <<allocated, held, excused>> /\ pc' \in {"cycle", "raising"}
                 \/ UNCHANGED <<allocated, held, excused>> /\ ~allocated["WWulf3"]
                 \/ allocated["WWulf3"] /\ Returned("WWulf3")
                 \/ allocated["WWulf3"] /\ Refused("WWulf3")
<1>f. Frames
    BY FramesHold
<1>1. CASE Strike
    BY <1>f, <1>1 DEF Strike, Frames
<1>2. CASE ~Strike /\ Acts /\ pc \in {"move", "allocate"}
    BY <1>f, <1>2 DEF Acts, ShellMove, ShellAllocate, WWulf3Allocate, Frames
<1>3. CASE ~Strike /\ Acts /\ pc = "release"
    BY <1>3 DEF Acts, ShellRelease, Deallocate, Returned, Refused
<1>4. CASE ~Strike /\ Acts /\ pc = "abandon"
    BY <1>4 DEF Acts, ShellAbandon, Returned, Refused
<1>5. CASE ~Strike /\ Acts /\ pc = "raising"
    BY <1>5 DEF Acts, Deactivate, Returned, Refused
<1>6. CASE ~Strike /\ Acts /\ pc = "provision"
    BY <1>6 DEF Acts, WWulf3Provision, Returned, Refused, Go
<1>7. CASE ~Strike /\ Acts /\ pc = "cycle"
    BY <1>7 DEF Acts, WWulf3Cycle, Returned, Refused, Throw, Go
<1>8. CASE ~Strike /\ pc \notin {"move", "allocate", "release", "abandon", "provision", "cycle",
                                 "raising"}
    BY <1>f, <1>8 DEF Frames
<1>. QED
    BY <1>1, <1>2, <1>3, <1>4, <1>5, <1>6, <1>7, <1>8, ActsHold

\* One allocation that is returned.
LEMMA ReturnedFacts ==
    ASSUME TypeOK, NEW p \in Holders, Returned(p)
    PROVE  /\ held[p] <= 1 => held'[p] = 0
           /\ \A q \in Holders \ {p} : held'[q] = held[q] /\ allocated'[q] = allocated[q]
           /\ excused' = excused
<1>1. held \in [Holders -> 0 .. MaxRuns] /\ allocated \in [Holders -> BOOLEAN] /\ MaxRuns \in Nat
    BY Asked DEF TypeOK, ShellTypeOK
<1>2. held' = [held EXCEPT ![p] = IF held[p] > 0 THEN held[p] - 1 ELSE 0]
      /\ allocated' = [allocated EXCEPT ![p] = FALSE] /\ excused' = excused
    BY DEF Returned
<1>. QED
    BY <1>1, <1>2

LEMMA NodeStep ==
    ASSUME TInv, NodeInv, Inner, struck' = (struck \/ pc' = "raising")
    PROVE  NodeInv'
<1>t. TypeOK /\ PlaceInv /\ pc \in Places /\ {"Shell", "WWulf3"} \subseteq Holders
    BY DEF TInv, PlaceInv, Holders
<1>n. /\ held \in [Holders -> 0 .. MaxRuns] /\ allocated \in [Holders -> BOOLEAN]
      /\ MaxRuns \in Nat /\ held["Shell"] \in Nat /\ held["WWulf3"] \in Nat
    BY <1>t, Asked DEF TypeOK, ShellTypeOK
<1>m. Moves /\ Frames /\ cur' = cur
    BY MovesHold, FramesHold DEF Frames
<1>h. excused \subseteq excused'
    BY HeldMoves
<1>1. pc' \in {"raising", "raised"} => struck'
    BY <1>m, <1>t DEF Moves, AtRest, Places, NodeInv, Caller
<1>a. ASSUME pc' # "raising" PROVE Acts /\ ~Strike
    BY <1>a, ActsHold DEF Strike, Throw, Go
<1>2. cur'.plugin = "Shell" /\ pc' \in Commanding \cup {"middleware", "allocate"}
          => shell' = [activated |-> TRUE, commands |-> cur'.allocates]
    <2> SUFFICES ASSUME cur.plugin = "Shell", pc' \in Commanding \cup {"middleware", "allocate"}
                 PROVE  shell' = [activated |-> TRUE, commands |-> cur.allocates]
        BY <1>m
    <2>1. CASE pc = "start"
        <3>1. ShellStart
            BY <1>a, <2>1 DEF Acts, TestBuildStart, AutoStart, UnitStart, WWulf3Start, HostStart,
               At, Commanding
        <3>. QED
            BY <3>1 DEF ShellStart
    <2>2. CASE pc # "start"
        <3>1. pc \in Commanding \cup {"middleware", "allocate"}
            BY <1>m, <1>t, <2>2 DEF Moves, AtRest, Places, Commanding, Caller, PlaceInv, Building,
               Testing, Builders
        <3>2. shell' = shell
            BY <1>m, <2>2, <3>1 DEF Frames, At, Commanding
        <3>. QED
            BY <3>1, <3>2 DEF NodeInv
    <2>. QED
        BY <2>1, <2>2
<1>3. At("Shell", "allocate")' => cur'.allocates /\ allocated'["Shell"]
    <2> SUFFICES ASSUME cur.plugin = "Shell", pc' = "allocate"
                 PROVE  cur.allocates /\ allocated'["Shell"]
        BY <1>m DEF At
    <2>1. pc = "move"
        BY <1>m, <1>t DEF Moves, AtRest, Places, Caller
    <2>2. ShellMove
        BY <1>a, <2>1 DEF Acts
    <2>3. cur.allocates
        BY <2>2 DEF ShellMove, Go
    <2>4. allocated' = [allocated EXCEPT !["Shell"] = cur.allocates]
        BY <2>2 DEF ShellMove
    <2>. QED
        BY <1>n, <1>t, <2>3, <2>4
<1>4. held'["Shell"] > 0 /\ "Shell" \notin excused' =>
          /\ held'["Shell"] = 1 /\ allocated'["Shell"] /\ shell'.activated /\ shell'.commands
          /\ cur'.plugin = "Shell" /\ pc' \in {"harass", "run", "release", "abandon", "raising"}
    <2> SUFFICES ASSUME held'["Shell"] > 0, "Shell" \notin excused'
                 PROVE  /\ held'["Shell"] = 1 /\ allocated'["Shell"]
                        /\ shell'.activated /\ shell'.commands /\ cur.plugin = "Shell"
                        /\ pc' \in {"harass", "run", "release", "abandon", "raising"}
        BY <1>m
    <2>e. "Shell" \notin excused
        BY <1>h
    <2>o. held["Shell"] > 0 =>
             /\ held["Shell"] = 1 /\ allocated["Shell"] /\ shell.activated /\ shell.commands
             /\ cur.plugin = "Shell" /\ pc \in {"harass", "run", "release", "abandon", "raising"}
        BY <2>e DEF NodeInv
    <2>z. held["Shell"] <= 1
        BY <1>n, <2>o
    <2>1. CASE pc = "allocate"
        <3>1. held["Shell"] = 0
            BY <1>n, <2>o, <2>1
        <3>2. /\ cur.plugin = "Shell" /\ held' = [held EXCEPT !["Shell"] = held["Shell"] + 1]
              /\ allocated' = allocated /\ pc' \in {"harass", "raising"}
            <4>1. CASE Strike
                <5>1. cur.plugin = "Shell" /\ held' = [held EXCEPT ![cur.plugin] = held[cur.plugin] + 1]
                    <6>1. held' = held \/ held' = [held EXCEPT ![cur.plugin] = held[cur.plugin] + 1]
                        BY <2>1, <4>1 DEF Strike
                    <6>2. held'["Shell"] # held["Shell"]
                        BY <3>1
                    <6>. QED
                        BY <1>n, <1>t, <6>1, <6>2
                <5>2. allocated' = allocated /\ pc' = "raising"
                    BY <4>1 DEF Strike, Throw, Go
                <5>. QED
                    BY <5>1, <5>2
            <4>2. CASE ShellAllocate
                <5>1. held' # held
                    BY <3>1
                <5>. QED
                    BY <4>2, <5>1 DEF ShellAllocate, At, Go
            <4>3. CASE WWulf3Allocate
                <5>1. held' = held \/ held' = [held EXCEPT !["WWulf3"] = held["WWulf3"] + 1]
                    BY <4>3 DEF WWulf3Allocate
                <5>2. held'["Shell"] = held["Shell"]
                    BY <1>n, <1>t, <5>1
                <5>. QED
                    BY <3>1, <5>2
            <4>. QED
                BY <2>1, <4>1, <4>2, <4>3, ActsHold DEF Acts
        <3>3. held'["Shell"] = 1
            BY <1>n, <1>t, <3>1, <3>2
        <3>4. shell = [activated |-> TRUE, commands |-> cur.allocates]
              /\ cur.allocates /\ allocated["Shell"]
            BY <2>1, <3>2 DEF NodeInv, At
        <3>5. shell' = shell
            BY <1>m, <2>1 DEF Frames, At
        <3>. QED
            BY <3>2, <3>3, <3>4, <3>5
    <2>2. CASE pc \in {"provision", "cycle"}
        <3>1. held["Shell"] = 0
            BY <1>n, <2>o, <2>2
        <3>2. held' = held \/ Returned("WWulf3")
            BY <2>2, HeldMoves DEF Refused
        <3>3. held'["Shell"] = held["Shell"]
            BY <1>t, <3>2, ReturnedFacts
        <3>. QED
            BY <3>1, <3>3
    <2>3. CASE pc \in {"harass", "run", "release", "abandon", "raising"} /\ Strike
        <3>1. UNCHANGED <<allocated, held, shell>> /\ pc' = "raising"
            BY <2>3, HeldMoves DEF Strike, Throw, Go
        <3>. QED
            BY <2>o, <3>1
    <2>4. CASE pc \in {"harass", "run"} /\ ~Strike
        <3>1. UNCHANGED <<allocated, held, shell>>
            BY <1>m, <2>4, HeldMoves DEF Frames, At
        <3>2. pc' \in {"run", "abandon", "release", "raising"}
            BY <1>m, <2>4 DEF Moves
        <3>. QED
            BY <2>o, <3>1, <3>2
    <2>5. CASE pc \in {"release", "abandon", "raising"} /\ ~Strike
        <3>1. CASE UNCHANGED <<allocated, held, excused>>
            BY <2>5, <2>o, <3>1, HeldMoves, ReturnedFacts, <1>t, <2>z DEF Refused
        <3>2. CASE Returned("Shell")
            BY <1>t, <2>z, <3>2, ReturnedFacts
        <3>3. CASE Refused("Shell")
            BY <3>3 DEF Refused
        <3>. QED
            BY <2>5, <3>1, <3>2, <3>3, HeldMoves
    <2>6. CASE pc \notin {"allocate", "provision", "cycle", "harass", "run", "release", "abandon",
                          "raising"}
        <3>1. held' = held
            BY <1>m, <2>6, HeldMoves DEF Frames
        <3>. QED
            BY <2>6, <2>o, <3>1
    <2>. QED
        BY <2>1, <2>2, <2>3, <2>4, <2>5, <2>6
<1>5. held'["WWulf3"] > 0 /\ "WWulf3" \notin excused' /\ ~struck' =>
          held'["WWulf3"] = 1 /\ allocated'["WWulf3"] /\ pc' \in {"provision", "cycle"}
    <2> SUFFICES ASSUME held'["WWulf3"] > 0, "WWulf3" \notin excused', ~struck'
                 PROVE  /\ held'["WWulf3"] = 1 /\ allocated'["WWulf3"]
                        /\ pc' \in {"provision", "cycle"}
        OBVIOUS
    <2>e. "WWulf3" \notin excused /\ ~struck /\ pc' # "raising"
        BY <1>h
    <2>a. Acts /\ ~Strike
        BY <1>a, <2>e
    <2>o. held["WWulf3"] > 0 =>
             held["WWulf3"] = 1 /\ allocated["WWulf3"] /\ pc \in {"provision", "cycle"}
        BY <2>e DEF NodeInv
    <2>z. held["WWulf3"] <= 1
        BY <1>n, <2>o
    <2>1. CASE pc = "allocate"
        <3>1. held["WWulf3"] = 0
            BY <1>n, <2>o, <2>1
        <3>2. CASE ShellAllocate
            <4>1. held' = held \/ held' = [held EXCEPT !["Shell"] = held["Shell"] + 1]
                BY <3>2 DEF ShellAllocate
            <4>2. held'["WWulf3"] = held["WWulf3"]
                BY <1>n, <1>t, <4>1
            <4>. QED
                BY <3>1, <4>2
        <3>3. CASE WWulf3Allocate
            <4>1. held' # held
                BY <3>1
            <4>2. /\ held' = [held EXCEPT !["WWulf3"] = held["WWulf3"] + 1]
                  /\ allocated' = [allocated EXCEPT !["WWulf3"] = TRUE] /\ pc' = "provision"
                BY <3>3, <4>1 DEF WWulf3Allocate, Go
            <4>. QED
                BY <1>n, <1>t, <3>1, <4>2
        <3>. QED
            BY <2>a, <2>1, <3>2, <3>3 DEF Acts
    <2>2. CASE pc \in {"provision", "cycle"}
        <3>1. CASE UNCHANGED <<allocated, held, excused>> /\ pc' \in {"cycle", "raising"}
            BY <2>e, <2>o, <3>1
        <3>2. CASE UNCHANGED <<allocated, held, excused>> /\ ~allocated["WWulf3"]
            BY <2>o, <3>2
        <3>3. CASE Returned("WWulf3")
            BY <1>t, <2>z, <3>3, ReturnedFacts
        <3>4. CASE Refused("WWulf3")
            BY <3>4 DEF Refused
        <3>. QED
            BY <2>a, <2>2, <3>1, <3>2, <3>3, <3>4, HeldMoves
    <2>3. CASE pc \in {"release", "abandon"}
        <3>1. held' = held \/ Returned("Shell")
            BY <2>3, <2>a, HeldMoves DEF Refused
        <3>2. held'["WWulf3"] = held["WWulf3"]
            BY <1>t, <3>1, ReturnedFacts
        <3>. QED
            BY <2>o, <2>3, <3>2
    <2>4. CASE pc \notin {"allocate", "provision", "cycle", "release", "abandon"}
        <3>1. pc # "raising"
            BY <2>e DEF NodeInv
        <3>2. held' = held
            BY <1>m, <2>4, <3>1, HeldMoves DEF Frames
        <3>. QED
            BY <2>4, <2>o, <3>2
    <2>. QED
        BY <2>1, <2>2, <2>3, <2>4
<1>. QED
    BY <1>1, <1>2, <1>3, <1>4, <1>5 DEF NodeInv

LEMMA HarassStep ==
    ASSUME TInv, BackInv, HarassInv, Inner
    PROVE  HarassInv'
<1>t. TypeOK /\ pc \in Places
    BY DEF TInv, PlaceInv
<1>m. Moves /\ Frames /\ left' = left /\ left \in Nat
    BY <1>t, MovesHold, FramesHold, Asked DEF Frames
<1>a. ASSUME pc' # "raising" PROVE Acts
    BY <1>a, ActsHold DEF Strike, Throw, Go
<1>h. harassed' \subseteq harassed \cup {left}
    <2>1. CASE pc \in {"harass", "run"}
        BY <2>1, ActsHold DEF Acts, Strike, ShellHarass, ShellRun
    <2>2. CASE pc \notin {"harass", "run"}
        BY <1>m, <2>2 DEF Frames
    <2>. QED
        BY <2>1, <2>2
<1>1. \A h \in harassed' : h >= left'
    BY <1>h, <1>m DEF HarassInv
<1>2. left' \in harassed' => \/ pc' \in {"run", "abandon", "raising", "raised", "idle"}
                             \/ pc' = "returned" /\ log'.status # 0
    <2> SUFFICES ASSUME left \in harassed', pc' \notin {"run", "abandon", "raising"}
                 PROVE  pc' = "raised" \/ (pc' = "returned" /\ log'.status # 0)
        BY <1>m
    <2>1. CASE pc = "harass"
        BY <1>a, <2>1 DEF Acts, ShellHarass, Go
    <2>2. CASE pc = "run"
        BY <1>a, <2>2 DEF Acts, ShellRun
    <2>3. CASE pc \notin {"harass", "run"}
        <3>1. left \in harassed
            BY <1>m, <2>3 DEF Frames
        <3>2. pc \in {"abandon", "raising"}
            BY <1>m, <2>3, <3>1 DEF HarassInv, Moves, AtRest
        <3>3. CASE pc = "abandon"
            <4>1. log' = log /\ pc' = "returned"
                BY <1>a, <3>3 DEF Acts, ShellAbandon, Return, Throw, Go
            <4>. QED
                BY <3>3, <4>1 DEF BackInv
        <3>4. CASE pc = "raising"
            BY <1>m, <3>4 DEF Moves
        <3>. QED
            BY <3>2, <3>3, <3>4
    <2>. QED
        BY <2>1, <2>2, <2>3
<1>. QED
    BY <1>1, <1>2 DEF HarassInv

\* What a section has started for its command ends with it: the allocation of
\* nodes, and the harassers.
THEOREM SpecResourcesReturned == Spec => []ResourcesReturned
<1> DEFINE I == NodeInv /\ HarassInv
<1>1. Init => I
    <2> SUFFICES ASSUME Init PROVE I
        OBVIOUS
    <2>1. pc = "idle" /\ held = [p \in Holders |-> 0] /\ harassed = {}
        BY DEF Init, SharedInit, ShellInit
    <2>2. NodeInv
        BY <2>1 DEF NodeInv, At, Commanding, Holders
    <2>3. HarassInv
        BY <2>1 DEF HarassInv
    <2>. QED
        BY <2>2, <2>3
<1>2. TInv /\ Kept /\ I /\ [Next]_vars => I'
    <2> SUFFICES ASSUME TInv, BackInv, I, [Next]_vars PROVE I'
        BY DEF Kept
    <2>1. CASE Inner /\ struck' = (struck \/ pc' = "raising")
        BY <2>1, NodeStep, HarassStep
    <2>2. CASE StageStart
        <3> USE <2>2, StartFrame
        <3>1. NodeInv'
            BY DEF NodeInv, At, Commanding, AtRest
        <3>2. HarassInv'
            <4>1. left \in Nat /\ harassed \subseteq 0 .. MaxRuns /\ MaxRuns \in Nat
                BY Asked DEF TInv, TypeOK, ShellTypeOK
            <4>2. \A h \in harassed : h \in Nat /\ h >= left
                BY <4>1 DEF HarassInv
            <4>3. left' = left - 1 /\ harassed' = harassed
                OBVIOUS
            <4>4. \A h \in harassed : h >= left - 1 /\ h # left - 1
                BY <4>1, <4>2
            <4>. QED
                BY <4>3, <4>4 DEF HarassInv
        <3>. QED
            BY <3>1, <3>2
    <2>3. CASE StagePass
        <3> USE <2>3, PassFrame
        <3>1. NodeInv'
            BY DEF NodeInv, At, Commanding, AtRest
        <3>2. HarassInv'
            BY DEF HarassInv
        <3>. QED
            BY <3>1, <3>2
    <2>4. CASE Restart
        <3> USE <2>4, RestartFrame
        <3>1. \A p \in Holders : held'[p] > 0 => p \in excused'
            OBVIOUS
        <3>2. NodeInv'
            BY <3>1 DEF NodeInv, At, Commanding, Holders
        <3>3. HarassInv'
            BY DEF HarassInv
        <3>. QED
            BY <3>2, <3>3
    <2>5. CASE UNCHANGED vars
        <3> USE <2>5, StutterFrame
        <3>1. NodeInv'
            BY DEF NodeInv, At
        <3>2. HarassInv'
            BY DEF HarassInv
        <3>. QED
            BY <3>1, <3>2
    <2>6. Strike => pc' = "raising"
        BY DEF Strike, Throw, Go
    <2> HIDE DEF I
    <2>. QED
        BY <2>1, <2>2, <2>3, <2>4, <2>5, <2>6, NextCases DEF Inner
<1>3. I => ResourcesReturned
    <2> SUFFICES ASSUME I PROVE NodesReturned /\ HarassedIfFailed
        BY DEF ResourcesReturned
    <2>1. NodesReturned
        BY DEF NodesReturned, NodeInv, AtRest, Holders
    <2>2. HarassedIfFailed
        BY DEF HarassedIfFailed, HarassInv
    <2>. QED
        BY <2>1, <2>2
<1> HIDE DEF I
<1>4. Spec => []Kept
    <2>1. Kept /\ Restores /\ TestBuildRestores => Kept
        OBVIOUS
    <2>. QED
        BY <2>1, SpecKept, PTL
<1>. QED
    BY <1>1, <1>2, <1>3, <1>4, SpecTInv, PTL DEF Spec
-----------------------------------------------------------------------------
(* A section's own middleware is first                                       *)

\* One more in front.
LEMMA LeadOne ==
    ASSUME NEW S, NEW s \in Seq(S), NEW p \in Seq(S), NEW m \in S, Leads(s, p)
    PROVE  Leads(Append(s, m), <<m>> \o p)
<1> DEFINE q == <<m>> \o p
           r == Append(s, m)
<1>1. Len(s) \in Nat /\ Len(p) \in Nat /\ Len(s) <= Len(p)
    BY DEF Leads
<1>2. Len(r) = Len(s) + 1 /\ r[Len(s) + 1] = m /\ \A i \in 1 .. Len(s) : r[i] = s[i]
    BY <1>1
<1>3. Len(q) = Len(p) + 1 /\ q[1] = m /\ \A i \in 1 .. Len(p) : q[i + 1] = p[i]
    BY <1>1
<1> HIDE DEF q, r
<1>4. ASSUME NEW i \in 1 .. Len(s) + 1 PROVE q[i] = r[Len(s) + 2 - i]
    <2>1. CASE i = 1
        BY <1>1, <1>2, <1>3, <2>1
    <2>2. CASE i # 1
        <3> DEFINE j == i - 1
                   n == Len(s) + 1 - j
        <3>1. j \in 1 .. Len(s) /\ j \in 1 .. Len(p) /\ i = j + 1
            BY <1>1, <1>4, <2>2
        <3>2. n \in 1 .. Len(s) /\ n = Len(s) + 2 - i
            BY <1>1, <1>4, <2>2
        <3> HIDE DEF j
        <3>3. p[j] = s[n]
            BY <3>1 DEF Leads
        <3> HIDE DEF n
        <3>4. q[i] = p[j] /\ r[n] = s[n]
            BY <1>2, <1>3, <3>1, <3>2
        <3>. QED
            BY <3>2, <3>3, <3>4
    <2>. QED
        BY <2>1, <2>2
<1>5. Len(r) <= Len(q)
    BY <1>1, <1>2, <1>3
<1>6. \A i \in 1 .. Len(r) : q[i] = r[Len(r) + 1 - i]
    <2>1. TAKE i \in 1 .. Len(r)
    <2>2. i \in 1 .. Len(s) + 1 /\ Len(r) + 1 - i = Len(s) + 2 - i
        BY <1>1, <1>2
    <2>. QED
        BY <1>4, <2>2
<1>7. Leads(r, q)
    BY <1>5, <1>6 DEF Leads
<1>. QED
    BY <1>7 DEF r, q

\* What leads is a prefix.
LEMMA LeadIsPrefix ==
    ASSUME NEW S, NEW s \in Seq(S), NEW p \in Seq(S), Leads(s, p)
    PROVE  /\ Len(p) >= Len(Backwards(s))
           /\ SubSeq(p, 1, Len(Backwards(s))) = Backwards(s)
<1> DEFINE b == Backwards(s)
           n == Len(s)
<1>1. n \in Nat /\ Len(p) \in Nat /\ n <= Len(p) /\ \A i \in 1 .. n : p[i] = s[n + 1 - i]
    BY DEF Leads
<1>2. b = [i \in 1 .. n |-> s[n + 1 - i]]
    BY DEF Backwards
<1> HIDE DEF b
<1>3. \A i \in 1 .. n : s[n + 1 - i] \in S
    <2>1. TAKE i \in 1 .. n
    <2>2. n + 1 - i \in 1 .. n
        BY <1>1
    <2>. QED
        BY <2>2
<1> HIDE DEF n
<1>4. b \in Seq(S) /\ Len(b) = n
    BY <1>1, <1>2, <1>3
<1>5. /\ SubSeq(p, 1, n) \in Seq(S) /\ Len(SubSeq(p, 1, n)) = n
      /\ \A i \in 1 .. n : SubSeq(p, 1, n)[i] = p[i]
    BY <1>1
<1>6. \A i \in 1 .. n : SubSeq(p, 1, n)[i] = b[i]
    BY <1>1, <1>2, <1>5
<1>7. SubSeq(p, 1, n) = b
    <2>1. /\ SubSeq(p, 1, n) = [i \in 1 .. n |-> SubSeq(p, 1, n)[i]]
          /\ b = [i \in 1 .. n |-> b[i]]
        BY <1>4, <1>5
    <2>. QED
        BY <1>6, <2>1
<1>. QED
    BY <1>1, <1>4, <1>7 DEF b

\* The middleware that has been pointed to, and the next.
LEMMA OwnFacts ==
    ASSUME TInv
    PROVE  /\ cur.middleware \in Seq(Section) /\ Len(cur.middleware) \in Nat
           /\ Own(0) = <<>>
           /\ \A k \in 0 .. Len(cur.middleware) : Own(k) \in Seq(Entries)
           /\ \A k \in 0 .. Len(cur.middleware) - 1 :
                 /\ logs[cur.middleware[k + 1]].loc # NoPlace
                       => Own(k + 1) = Append(Own(k), cur.middleware[k + 1])
                 /\ logs[cur.middleware[k + 1]].loc = NoPlace => Own(k + 1) = Own(k)
           /\ Located(cur.middleware) = Own(Len(cur.middleware))
           /\ paths["bin"] \in Seq(Entries) /\ paths["inc"] \in Seq(Entries)
<1>1. cur.middleware \in Seq(Section) /\ Len(cur.middleware) \in Nat
    BY Asked DEF TInv
<1>2. Own(0) = <<>>
    BY <1>1, UpToFacts DEF Own
<1>3. ASSUME NEW k \in 0 .. Len(cur.middleware) PROVE Own(k) \in Seq(Entries)
    <2>1. Own(k) \in Seq(Section \cap Middleware)
        BY <1>1, UpToType DEF Own
    <2>2. \A x \in Section \cap Middleware : x \in Entries
        BY DEF Entries
    <2>. QED
        BY <2>1, <2>2
<1>4. ASSUME NEW k \in 0 .. Len(cur.middleware) - 1
      PROVE  /\ logs[cur.middleware[k + 1]].loc # NoPlace
                   => Own(k + 1) = Append(Own(k), cur.middleware[k + 1])
             /\ logs[cur.middleware[k + 1]].loc = NoPlace => Own(k + 1) = Own(k)
    <2> DEFINE i == k + 1
               g == UpTo(cur.middleware, Middleware)
    <2>1. cur.middleware[i] \in Section /\ i \in 1 .. Len(cur.middleware) /\ i - 1 = k
        BY <1>1
    <2>2. cur.middleware[i] \in Middleware <=> logs[cur.middleware[i]].loc # NoPlace
        BY <2>1 DEF Middleware
    <2>3. /\ cur.middleware[i] \in Middleware => g[i] = Append(g[i - 1], cur.middleware[i])
          /\ cur.middleware[i] \notin Middleware => g[i] = g[i - 1]
        <3>1. \A j \in 1 .. Len(cur.middleware) :
                 /\ cur.middleware[j] \in Middleware
                       => g[j] = Append(g[j - 1], cur.middleware[j])
                 /\ cur.middleware[j] \notin Middleware => g[j] = g[j - 1]
            BY <1>1, UpToFacts
        <3>2. i \in 1 .. Len(cur.middleware)
            BY <2>1
        <3> HIDE DEF i, g
        <3>. QED
            BY <3>1, <3>2, Zenon
    <2>4. Own(i) = g[i] /\ Own(k) = g[i - 1]
        BY <2>1 DEF Own
    <2> HIDE DEF i, g
    <2>5. /\ logs[cur.middleware[i]].loc # NoPlace
                => Own(i) = Append(Own(k), cur.middleware[i])
          /\ logs[cur.middleware[i]].loc = NoPlace => Own(i) = Own(k)
        BY <2>2, <2>3, <2>4
    <2>. QED
        BY <2>5 DEF i
<1>5. Located(cur.middleware) = Own(Len(cur.middleware))
    <2>1. Located(cur.middleware) = Those(cur.middleware, Middleware)
        BY DEF Located, Middleware
    <2>. QED
        BY <1>1, <2>1, UpToFacts DEF Own
<1>6. paths["bin"] \in Seq(Entries) /\ paths["inc"] \in Seq(Entries)
    BY DEF TInv, TypeOK, StageTypeOK, Paths
<1>. QED
    BY <1>1, <1>2, <1>3, <1>4, <1>5, <1>6

\* One of the middleware is pointed to.
LEMMA PointLeads ==
    ASSUME TInv, NEW next, PointTo({"bin", "inc"}, next), pc' # "raising",
           NEW k \in 0 .. Len(cur.middleware),
           todo = SubSeq(cur.middleware, k + 1, Len(cur.middleware)), Lead(k)
    PROVE  /\ k + 1 \in 0 .. Len(cur.middleware)
           /\ todo' = SubSeq(cur.middleware, k + 2, Len(cur.middleware))
           /\ \A names \in {"bin", "inc"} : Leads(Own(k + 1), paths'[names])
<1> DEFINE ms == cur.middleware
           N == Len(ms)
           m == ms[k + 1]
<1>1. ms \in Seq(Section) /\ N \in Nat /\ k \in Nat /\ k <= N
    BY OwnFacts
<1>2. todo # <<>> /\ todo' = Tail(todo)
    BY DEF PointTo, Throw, Go
<1> HIDE DEF ms
<1>3. k < N
    <2>1. CASE k = N
        <3>1. SubSeq(ms, k + 1, N) = <<>>
            BY <1>1, <2>1
        <3>. QED
            BY <1>2, <3>1 DEF ms
    <2>. QED
        BY <1>1, <2>1
<1>4. Head(SubSeq(ms, k + 1, N)) = ms[k + 1] /\ Tail(SubSeq(ms, k + 1, N)) = SubSeq(ms, k + 2, N)
    <2>1. Len(SubSeq(ms, k + 1, N)) = N - k
        BY <1>1, <1>3
    <2>2. Head(SubSeq(ms, k + 1, N)) = ms[k + 1]
        BY <1>1, <1>3, <2>1
    <2>3. Tail(SubSeq(ms, k + 1, N)) = SubSeq(ms, k + 2, N)
        <3>1. SubSeq(ms, k + 1, N) \in Seq(Section) /\ SubSeq(ms, k + 1, N) # <<>>
            <4>1. SubSeq(ms, k + 1, N) \in Seq(Section)
                BY <1>1, <1>3
            <4>2. Len(SubSeq(ms, k + 1, N)) # 0 /\ Len(<<>>) = 0
                BY <1>1, <1>3, <2>1
            <4>. QED
                BY <4>1, <4>2, Zenon
        <3>2. SubSeq(ms, k + 2, N) \in Seq(Section) /\ Len(SubSeq(ms, k + 2, N)) = N - k - 1
            BY <1>1, <1>3
        <3>3. /\ Tail(SubSeq(ms, k + 1, N)) \in Seq(Section)
              /\ Len(Tail(SubSeq(ms, k + 1, N))) = N - k - 1
            BY <1>1, <1>3, <2>1, <3>1
        <3>4. \A i \in 1 .. N - k - 1 : Tail(SubSeq(ms, k + 1, N))[i] = SubSeq(ms, k + 2, N)[i]
            <4>1. TAKE i \in 1 .. N - k - 1
            <4>2. Tail(SubSeq(ms, k + 1, N))[i] = SubSeq(ms, k + 1, N)[i + 1]
                BY <1>1, <1>3, <2>1, <3>1
            <4>3. SubSeq(ms, k + 1, N)[i + 1] = ms[k + 1 + i]
                BY <1>1, <1>3
            <4>4. SubSeq(ms, k + 2, N)[i] = ms[k + 1 + i]
                BY <1>1, <1>3
            <4>. QED
                BY <4>2, <4>3, <4>4
        <3> DEFINE a == Tail(SubSeq(ms, k + 1, N))
                   b == SubSeq(ms, k + 2, N)
                   n == N - k - 1
        <3> HIDE DEF a, b, n
        <3>8. a \in Seq(Section) /\ Len(a) = n /\ b \in Seq(Section) /\ Len(b) = n
            BY <3>2, <3>3 DEF a, b, n
        <3>5. a = [i \in 1 .. n |-> a[i]] /\ b = [i \in 1 .. n |-> b[i]]
            BY <3>8
        <3>6. \A i \in 1 .. n : a[i] = b[i]
            BY <3>4 DEF a, b, n
        <3>7. a = b
            BY <3>5, <3>6
        <3>. QED
            BY <3>7 DEF a, b
    <2>. QED
        BY <2>2, <2>3
<1>5. Head(todo) = m /\ todo' = SubSeq(ms, k + 2, N) /\ m \in Section
    BY <1>1, <1>2, <1>3, <1>4 DEF ms
<1>6. k \in 0 .. N - 1 /\ k + 1 \in 0 .. N
    BY <1>1, <1>3
<1>7. CASE logs[m].loc = NoPlace
    <2>1. paths' = paths
        BY <1>5, <1>7, PrependFacts DEF PointTo, TInv
    <2>2. Own(k + 1) = Own(k)
        BY <1>6, <1>7, OwnFacts DEF ms
    <2>. QED
        BY <1>5, <1>6, <2>1, <2>2 DEF Lead, ms
<1>8. CASE logs[m].loc # NoPlace
    <2>1. logs[m].known
        BY <1>5, <1>8 DEF TInv, KnownInv
    <2>2. paths' = Prepend({"bin", "inc"}, m)
        BY <1>5, <2>1 DEF PointTo
    <2>4. Own(k + 1) = Append(Own(k), m)
        BY <1>6, <1>8, OwnFacts DEF ms
    <2> HIDE DEF m
    <2>3. paths'.bin = <<m>> \o paths.bin /\ paths'.inc = <<m>> \o paths.inc
        <3>1. TypeOK /\ m \in Section /\ logs[m].loc # NoPlace
            BY <1>5, <1>8 DEF TInv
        <3> DEFINE B == {"bin", "inc"}
        <3>2. "bin" \in B /\ "inc" \in B
            OBVIOUS
        <3>3. paths' = Prepend(B, m)
            BY <2>2
        <3> HIDE DEF B
        <3>. QED
            BY <3>1, <3>2, <3>3, PrependFacts
    <2>5. /\ Own(k) \in Seq(Entries) /\ paths.bin \in Seq(Entries) /\ paths.inc \in Seq(Entries)
          /\ m \in Entries
        BY <1>5, OwnFacts DEF Entries
    <2>6. Leads(Own(k), paths.bin) /\ Leads(Own(k), paths.inc)
        BY DEF Lead
    <2>7. Leads(Own(k + 1), paths'.bin) /\ Leads(Own(k + 1), paths'.inc)
        BY <2>3, <2>4, <2>5, <2>6, LeadOne
    <2>. QED
        BY <1>5, <1>6, <2>7 DEF ms
<1>. QED
    BY <1>7, <1>8

LEMMA OwnStep ==
    ASSUME TInv, TodoInv, OwnInv, Inner, ~Listed
    PROVE  OwnInv'
<1> DEFINE N == Len(cur.middleware)
           Led(k) == \A names \in {"bin", "inc"} : Leads(Own(k), paths'[names])
<1>t. TypeOK /\ PlaceInv /\ pc \in Places /\ cur.middleware \in Seq(Section) /\ N \in Nat
    BY OwnFacts DEF TInv, PlaceInv
<1>m. Moves /\ Frames /\ cur' = cur /\ logs' = logs /\ Middleware' = Middleware
    BY MovesHold, FramesHold DEF Frames, Middleware
<1>a. ASSUME pc' # "raising" PROVE Acts
    BY <1>a, ActsHold DEF Strike, Throw, Go
<1>l. paths' = paths => \A k : Lead(k) => Led(k)
    BY DEF Lead
<1>1. ASSUME pc' = "middleware"
      PROVE  \E k \in 0 .. N : todo' = SubSeq(cur.middleware, k + 1, N) /\ Led(k)
    <2>1. CASE pc # "middleware"
        <3>1. pc \in {"start", "autotools"} /\ todo' = cur.middleware
            BY <1>1, <1>m, <1>t, <2>1 DEF Moves, AtRest, Places, Caller, Frames, TodoInv
        <3>2. cur.middleware = SubSeq(cur.middleware, 0 + 1, N) /\ 0 \in 0 .. N
            BY <1>t
        <3>3. Own(0) = <<>> /\ paths' \in Paths
            BY OwnFacts, SaveFacts
        <3>4. Len(paths'["bin"]) \in Nat /\ Len(paths'["inc"]) \in Nat
            BY <3>3 DEF Paths
        <3>5. \A p : Len(p) \in Nat => Leads(<<>>, p)
            BY DEF Leads
        <3>6. Led(0)
            BY <3>3, <3>4, <3>5
        <3> HIDE DEF Led, N
        <3>. QED
            BY <3>1, <3>2, <3>6
    <2>2. CASE pc = "middleware"
        <3>1. PICK k \in 0 .. N : todo = SubSeq(cur.middleware, k + 1, N) /\ Lead(k)
            BY <2>2 DEF OwnInv
        <3>5. ~(ShellList /\ cur.plugin = "Shell")
            <4>1. ASSUME ShellList, cur.plugin = "Shell" PROVE FALSE
                <5>1. N <= 1
                    BY <4>1, <1>t DEF Listed
                <5>2. Len(SubSeq(cur.middleware, k + 1, N)) <= 1
                    BY <1>t, <5>1
                <5>3. Len(todo) <= 1 /\ Len(todo) > 1 /\ Len(todo) \in Nat
                    BY <1>t, <3>1, <4>1, <5>2 DEF ShellList, TypeOK, StageTypeOK
                <5>. QED
                    BY <5>3
            <4>. QED
                BY <4>1
        <3>2. PointTo({"bin", "inc"}, "middleware")
            BY <1>1, <1>a, <2>2, <3>5, MiddleCases DEF Acts, ApplyWanted, Apply, Go, Caller
        <3>3. /\ k + 1 \in 0 .. N /\ todo' = SubSeq(cur.middleware, k + 2, N) /\ Led(k + 1)
            BY <1>1, <3>1, <3>2, PointLeads
        <3>4. k + 2 = (k + 1) + 1
            BY <1>t
        <3> HIDE DEF Led, N
        <3>. QED
            BY <3>3, <3>4
    <2>. QED
        BY <2>1, <2>2
<1>2. ASSUME pc' \in (Building \ {"finish"}) \cup {"move", "harass", "run"}
             \/ (cur.plugin = "Shell" /\ pc' = "allocate")
      PROVE  Led(N)
    <2>1. CASE pc = "middleware"
        <3>1. PICK k \in 0 .. N : todo = SubSeq(cur.middleware, k + 1, N) /\ Lead(k)
            BY <2>1 DEF OwnInv
        <3>2. todo = <<>> /\ paths' = paths
            <4>1. pc' # "middleware" /\ pc' # "raising"
                BY <1>2 DEF Building
            <4>. QED
                BY <1>a, <2>1, <4>1, MiddleCases DEF Acts, ShellList, ApplyWanted, PointTo, Throw,
                   Go, stageVars
        <3>3. k = N
            <4>1. CASE k < N
                <5>1. Len(SubSeq(cur.middleware, k + 1, N)) = N - k
                    BY <1>t, <4>1
                <5>2. N - k # 0
                    BY <1>t, <4>1
                <5>3. Len(todo) = N - k /\ Len(todo) = 0
                    <6>1. Len(todo) = 0
                        BY <3>2
                    <6>. QED
                        BY <3>1, <5>1, <6>1
                <5>. QED
                    BY <5>2, <5>3
            <4>. QED
                BY <1>t, <4>1
        <3> HIDE DEF Led, N
        <3>. QED
            BY <1>l, <3>1, <3>2, <3>3
    <2>2. CASE pc # "middleware"
        <3>1. \/ pc \in (Building \ {"finish"}) \cup {"move", "harass", "run"}
              \/ At("Shell", "allocate")
            BY <1>2, <1>m, <1>t, <2>2 DEF Moves, AtRest, Places, Building, Caller, PlaceInv,
               Commanding, At, Holders
        <3>2. paths' = paths
            BY <1>m, <3>1 DEF Frames, Building, At
        <3>3. Lead(N)
            BY <3>1 DEF OwnInv
        <3> HIDE DEF Led, N
        <3>. QED
            BY <1>l, <3>2, <3>3
    <2>. QED
        BY <2>1, <2>2
<1>3. \A k : Lead(k)' <=> Led(k)
    <2>1. \A k : Own(k)' = Own(k)
        BY <1>m DEF Own
    <2>. QED
        BY <2>1 DEF Lead
<1> HIDE DEF Led
<1>. QED
    BY <1>m, <1>1, <1>2, <1>3 DEF OwnInv, At

\* The tools are built with the middleware of the section before all others,
\* the last that it names first, however many paths earlier sections left: of
\* a list of any length for Autotools, of one section for Shell.
THEOREM SpecOwnFirst == Spec => []OwnFirst
<1> DEFINE I == TodoInv /\ OwnInv
<1>a. ASSUME pc' \in {"start", "idle"}, pc' = "start" => todo' = cur'.middleware PROVE I'
    BY <1>a DEF TodoInv, OwnInv, At, Building
<1>1. Init => I
    BY DEF Init, SharedInit, TodoInv, OwnInv, At, Building
<1>2. TInv /\ I /\ [Next]_vars => I'
    <2> SUFFICES ASSUME TInv, I, [Next]_vars PROVE I'
        OBVIOUS
    <2>1. CASE Inner
        <3>1. CASE Listed
            BY <2>1, <3>1, TodoStep, FramesHold DEF Frames, OwnInv, Listed
        <3>. QED
            BY <2>1, <3>1, TodoStep, OwnStep
    <2>2. CASE StageStart
        BY <2>2, <1>a, StartFrame
    <2>3. CASE StagePass
        BY <2>3, <1>a, PassFrame
    <2>4. CASE Restart
        BY <2>4, <1>a, RestartFrame
    <2>5. CASE UNCHANGED vars
        <3> USE <2>5, StutterFrame
        <3>1. TodoInv'
            BY DEF TodoInv
        <3>2. Middleware' = Middleware
            BY DEF Middleware
        <3>3. OwnInv'
            BY <3>2 DEF OwnInv, Listed, Lead, Own, At
        <3>. QED
            BY <3>1, <3>3
    <2> HIDE DEF I
    <2>. QED
        BY <2>1, <2>2, <2>3, <2>4, <2>5, NextCases DEF Inner
<1>3. TInv /\ I => OwnFirst
    <2> SUFFICES ASSUME TInv, OwnInv, pc \in {"configure", "all", "install", "run"},
                        NEW names \in {"bin", "inc"}
                 PROVE  LET own == Backwards(Located(Named))
                        IN  /\ Len(paths[names]) >= Len(own)
                            /\ SubSeq(paths[names], 1, Len(own)) = own
        BY DEF OwnFirst
    <2> DEFINE s == IF Listed THEN <<>> ELSE Own(Len(cur.middleware))
    <2>1. Leads(s, paths[names]) /\ s \in Seq(Entries) /\ paths[names] \in Seq(Entries)
        <3>1. paths[names] \in Seq(Entries)
            BY OwnFacts
        <3>2. CASE Listed
            <4>1. Leads(<<>>, paths[names])
                BY <3>1 DEF Leads
            <4>. QED
                BY <3>1, <3>2, <4>1
        <3>3. CASE ~Listed
            BY <3>1, <3>3, OwnFacts DEF OwnInv, Building, Lead
        <3>. QED
            BY <3>2, <3>3
    <2>2. Located(Named) = s
        <3>1. CASE Listed
            <4>0. <<>> \in Seq(Section) /\ Len(<<>>) = 0
                OBVIOUS
            <4>1. PICK e \in Seq(Section) : e = <<>> /\ Len(e) = 0
                BY <4>0, Zenon
            <4>3. Those(e, Middleware) = UpTo(e, Middleware)[0] /\ UpTo(e, Middleware)[0] = <<>>
                BY <4>1, UpToFacts
            <4>2. Those(<<>>, Middleware) = <<>>
                BY <4>1, <4>3
            <4>. QED
                BY <3>1, <4>2 DEF Listed, Named, Located, Middleware
        <3>2. CASE ~Listed
            BY <3>2, OwnFacts DEF Listed, Named
        <3>. QED
            BY <3>1, <3>2
    <2> HIDE DEF s
    <2>. QED
        BY <2>1, <2>2, LeadIsPrefix
<1> HIDE DEF I
<1>. QED
    BY <1>1, <1>2, <1>3, SpecTInv, PTL DEF Spec
=============================================================================
