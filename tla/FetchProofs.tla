----------------------------- MODULE FetchProofs -----------------------------
(* Proofs about the fetch sections, for any requests, repositories, archives *)
(* and failures, any number of sections, and mtt killed any number of times. *)
EXTENDS Fetch, TLAPS

(* Environment modules: what the operations do to the types, to the records, *)
(* and what is loaded after the modules of a section were applied and        *)
(* reverted.                                                                 *)

\* The lists of options and of records.
LEMMA SwapFacts ==
    ASSUME NEW ms \in Pairs
    PROVE  /\ ms \in Seq(Module)
           /\ ms # None => ms[1] \in Module /\ ms[2] \in Module /\ Len(ms) = 2
                           /\ DOMAIN ms = {1, 2} /\ ms = <<ms[1], ms[2]>>
<1>1. CASE ms = None
    BY <1>1 DEF None
<1>2. CASE ms \in Module \X Module
    <2>1. PICK m \in Module, n \in Module : ms = <<m, n>>
        BY <1>2
    <2>2. <<m, n>> \in Seq(Module) /\ Len(<<m, n>>) = 2
        OBVIOUS
    <2>. QED
        BY <2>1, <2>2
<1>. QED
    BY <1>1, <1>2 DEF Pairs

\* The modules of a list are modules.
LEMMA ElemsType == ASSUME NEW ms \in Seq(Module) PROVE Elems(ms) \subseteq Module
BY DEF Elems

\* An operation changes what is loaded, and nothing else.
LEMMA EffectType ==
    ASSUME NEW op \in Operations, NEW e, IsEnv(e), NEW ms \in Seq(Module),
           op = "swap" => ms \in Pairs \ {None}, NEW D \in SUBSET Elems(ms)
    PROVE  /\ IsEnv(Effect(op, e, ms, D))
           /\ Effect(op, e, ms, D).recorded = e.recorded
           /\ Effect(op, e, ms, D).muted = e.muted
<1>1. D \subseteq Module
    BY ElemsType
<1>2. op = "swap" => ms[1] \in Module /\ ms[2] \in Module
    BY SwapFacts
<1>3. e.loaded \subseteq Module /\ e \in ModuleEnv
    BY DEF IsEnv, ModuleEnv
<1>4. CASE op = "load"
    <2>1. Effect(op, e, ms, D) = [e EXCEPT !.loaded = @ \cup D]
        BY <1>4 DEF Effect
    <2>. QED
        BY <1>1, <1>3, <2>1 DEF IsEnv, ModuleEnv
<1>5. CASE op = "unload"
    <2>1. Effect(op, e, ms, D) = [e EXCEPT !.loaded = @ \ D]
        BY <1>5 DEF Effect
    <2>. QED
        BY <1>3, <2>1 DEF IsEnv, ModuleEnv
<1>6. CASE op = "swap"
    <2>1. Effect(op, e, ms, D) =
              [e EXCEPT !.loaded = IF D = {} THEN @ ELSE (@ \ {ms[1]}) \cup {ms[2]}]
        BY <1>6 DEF Effect
    <2>. QED
        BY <1>2, <1>3, <1>6, <2>1 DEF IsEnv, ModuleEnv
<1>. QED
    BY <1>4, <1>5, <1>6 DEF Operations

\* A call keeps the records, and ends with a status.
LEMMA CallType ==
    ASSUME NEW op \in Operations, NEW e, IsEnv(e), NEW ms \in Seq(Module),
           op = "swap" => ms \in Pairs \ {None}, NEW o \in Call(op, e, ms)
    PROVE  /\ o = <<o[1], o[2]>> /\ IsEnv(o[1]) /\ o[2] \in {0, 1}
           /\ o[1].recorded = e.recorded
<1>1. CASE o = <<e, 1>>
    BY <1>1
<1>2. CASE o = <<Effect(op, e, ms, Elems(ms)), 0>>
    BY <1>2, EffectType
<1>3. ASSUME NEW D \in Parts(op, ms), o = <<Effect(op, e, ms, D), 1>>
      PROVE  o = <<o[1], o[2]>> /\ IsEnv(o[1]) /\ o[2] \in {0, 1} /\ o[1].recorded = e.recorded
    <2>1. D \in SUBSET Elems(ms)
        BY <1>3 DEF Parts
    <2>. QED
        BY <1>3, <2>1, EffectType
<1>4. ASSUME NEW b \in Broken(op, e, ms), o = <<b, 1>>
      PROVE  o = <<o[1], o[2]>> /\ IsEnv(o[1]) /\ o[2] \in {0, 1} /\ o[1].recorded = e.recorded
    <2>1. PICK D \in SUBSET Elems(ms) : b = [Effect(op, e, ms, D) EXCEPT !.muted = TRUE]
        <3>1. CASE op = "swap"
            BY <3>1 DEF Broken
        <3>2. CASE op # "swap"
            <4>1. \A k \in DOMAIN ms : Elems(SubSeq(ms, 1, k - 1)) \subseteq Elems(ms)
                <5>1. ASSUME NEW k \in DOMAIN ms, NEW i \in DOMAIN SubSeq(ms, 1, k - 1)
                      PROVE  i \in DOMAIN ms /\ SubSeq(ms, 1, k - 1)[i] = ms[i]
                    <6>1. k \in Nat /\ k <= Len(ms) /\ Len(ms) \in Nat /\ DOMAIN ms = 1 .. Len(ms)
                        OBVIOUS
                    <6>2. DOMAIN SubSeq(ms, 1, k - 1) = 1 .. k - 1
                        BY <6>1
                    <6>. QED
                        BY <6>1, <6>2
                <5>. QED
                    BY <5>1 DEF Elems
            <4>. QED
                BY <3>2, <4>1 DEF Broken
        <3>. QED
            BY <3>1, <3>2
    <2>2. IsEnv(Effect(op, e, ms, D)) /\ Effect(op, e, ms, D).recorded = e.recorded
        BY EffectType
    <2>3. IsEnv(b) /\ b.recorded = e.recorded
        BY <2>1, <2>2 DEF IsEnv, ModuleEnv
    <2>. QED
        BY <1>4, <2>3
<1>. QED
    BY <1>1, <1>2, <1>3, <1>4 DEF Call
\* One of the three parts of applyModules.
LEMMA ApplyOneType ==
    ASSUME NEW op \in Operations, NEW s \in Section, NEW ms \in Seq(Module),
           op = "swap" => ms \in Pairs, NEW o, IsEnv(o[1]), o[2] \in {0, 1},
           NEW q \in ApplyOne(op, s, ms, o)
    PROVE  IsEnv(q[1]) /\ q[2] \in {0, 1}
<1>1. CASE ms = None
    BY <1>1 DEF ApplyOne
<1>2. CASE ms # None
    <2>1. PICK c \in Call(op, o[1], ms) :
              q = IF c[2] = 0 THEN <<[c[1] EXCEPT !.recorded[op][s] = ms], 0>> ELSE c
        BY <1>2 DEF ApplyOne
    <2>2. IsEnv(c[1]) /\ c[2] \in {0, 1}
        BY <1>2, CallType
    <2>3. IsEnv([c[1] EXCEPT !.recorded[op][s] = ms])
        BY <2>2 DEF IsEnv, ModuleEnv, Operations
    <2>. QED
        BY <2>1, <2>2, <2>3
<1>. QED
    BY <1>1, <1>2

\* applyModules keeps the types.
LEMMA ApplyType ==
    ASSUME NEW s \in Section, NEW m, IsOptions(m), NEW e, IsEnv(e),
           NEW o \in ApplyModules(s, m, e)
    PROVE  IsEnv(o[1]) /\ o[2] \in {0, 1}
<1>1. /\ m["unload"] \in Seq(Module) /\ m["load"] \in Seq(Module)
      /\ m["swap"] \in Seq(Module) /\ m["swap"] \in Pairs
    BY DEF IsOptions, ModuleOptions, Operations
<1>2. PICK p \in ApplyOne("unload", s, m["unload"], <<e, 0>>) :
          \E q \in ApplyOne("load", s, m["load"], p) : o \in ApplyOne("swap", s, m["swap"], q)
    BY DEF ApplyModules
<1>3. PICK q \in ApplyOne("load", s, m["load"], p) : o \in ApplyOne("swap", s, m["swap"], q)
    BY <1>2
<1>4. IsEnv(p[1]) /\ p[2] \in {0, 1}
    BY <1>1, ApplyOneType DEF Operations
<1>5. IsEnv(q[1]) /\ q[2] \in {0, 1}
    BY <1>1, <1>4, ApplyOneType DEF Operations
<1>. QED
    BY <1>1, <1>3, <1>5, ApplyOneType DEF Operations

\* The list that mods.reverse() leaves.
LEMMA BackwardsType ==
    ASSUME NEW ms \in Pairs, ms # None
    PROVE  /\ Backwards(ms) \in Pairs \ {None}
           /\ Backwards(ms)[1] = ms[2] /\ Backwards(ms)[2] = ms[1]
<1>1. /\ ms[1] \in Module /\ ms[2] \in Module /\ Len(ms) = 2 /\ DOMAIN ms = {1, 2}
    BY SwapFacts
<1>2. Backwards(ms) = [i \in {1, 2} |-> ms[3 - i]]
    BY <1>1 DEF Backwards
<1>3. Backwards(ms) = <<ms[2], ms[1]>>
    BY <1>1, <1>2
<1>. QED
    BY <1>1, <1>3 DEF Pairs, None

\* One of the three parts of revertModules.
LEMMA RevertOneType ==
    ASSUME NEW op \in Operations, NEW inverse \in Operations,
           op = "swap" <=> inverse = "swap",
           NEW s \in Section, NEW o, IsEnv(o[1]), o[2] \in {0, 1},
           NEW q \in RevertOne(op, inverse, s, o)
    PROVE  IsEnv(q[1]) /\ q[2] \in {0, 1}
<1> DEFINE ms == o[1].recorded[op][s]
           to == IF op = "swap" THEN Backwards(ms) ELSE ms
<1>1. ms \in Seq(Module) /\ (op = "swap" => ms \in Pairs)
    BY DEF IsEnv, ModuleEnv
<1>2. CASE ms = None
    BY <1>2 DEF RevertOne
<1>3. CASE ms # None
    <2>1. to \in Seq(Module) /\ (op = "swap" => to \in Pairs \ {None})
        BY <1>1, <1>3, BackwardsType, SwapFacts
    <2>2. IsEnv([o[1] EXCEPT !.recorded[op][s] = to])
        BY <2>1 DEF IsEnv, ModuleEnv, Operations
    <2>3. q \in Call(inverse, [o[1] EXCEPT !.recorded[op][s] = to], to)
        BY <1>3 DEF RevertOne
    <2>. QED
        BY <2>1, <2>2, <2>3, CallType
<1>. QED
    BY <1>2, <1>3

\* revertModules keeps the types.
LEMMA RevertType ==
    ASSUME NEW s \in Section, NEW e, IsEnv(e), NEW o \in RevertModules(s, e)
    PROVE  IsEnv(o[1]) /\ o[2] \in {0, 1}
<1>1. PICK p \in RevertOne("swap", "swap", s, <<e, 0>>) :
          \E q \in RevertOne("load", "unload", s, p) : o \in RevertOne("unload", "load", s, q)
    BY DEF RevertModules
<1>2. PICK q \in RevertOne("load", "unload", s, p) : o \in RevertOne("unload", "load", s, q)
    BY <1>1
<1>3. IsEnv(p[1]) /\ p[2] \in {0, 1}
    BY RevertOneType DEF Operations
<1>4. IsEnv(q[1]) /\ q[2] \in {0, 1}
    BY <1>3, RevertOneType DEF Operations
<1>. QED
    BY <1>2, <1>4, RevertOneType DEF Operations

\* One of the parts of revertModules touches no other record than its own,
\* and makes none.
LEMMA RevertKeeps ==
    ASSUME NEW op \in Operations, NEW inverse \in Operations,
           op = "swap" <=> inverse = "swap",
           NEW s \in Section, NEW o, IsEnv(o[1]), NEW q \in RevertOne(op, inverse, s, o)
    PROVE  /\ IsEnv(q[1])
           /\ \A other \in Operations, t \in Section :
                 /\ other # op => q[1].recorded[other][t] = o[1].recorded[other][t]
                 /\ o[1].recorded[other][t] = None => q[1].recorded[other][t] = None
<1> DEFINE e == o[1]
           ms == e.recorded[op][s]
           to == IF op = "swap" THEN Backwards(ms) ELSE ms
           f == [e EXCEPT !.recorded[op][s] = to]
<1>1. ms \in Seq(Module) /\ (op = "swap" => ms \in Pairs)
    BY DEF IsEnv, ModuleEnv
<1>2. CASE ms = None
    BY <1>2 DEF RevertOne
<1>3. CASE ms # None
    <2>1. to \in Seq(Module) /\ (op = "swap" => to \in Pairs \ {None})
        BY <1>1, <1>3, BackwardsType, SwapFacts
    <2>2. IsEnv(f)
        BY <2>1 DEF IsEnv, ModuleEnv, Operations
    <2>3. q \in Call(inverse, f, to)
        BY <1>3 DEF RevertOne
    <2> HIDE DEF to
    <2>4. \A other \in Operations, t \in Section :
             f.recorded[other][t] = IF other = op /\ t = s THEN to ELSE e.recorded[other][t]
        BY DEF IsEnv, ModuleEnv
    <2> HIDE DEF f
    <2>5. IsEnv(q[1]) /\ q[1].recorded = f.recorded
        BY <2>1, <2>2, <2>3, CallType
    <2>. QED
        BY <1>3, <2>4, <2>5
<1>. QED
    BY <1>2, <1>3

\* An operation leaves its module list's effect, if it succeeds.
LEMMA CallSucceeds ==
    ASSUME NEW op \in Operations, NEW e, NEW ms, NEW o \in Call(op, e, ms), o[2] = 0
    PROVE  o = <<Effect(op, e, ms, Elems(ms)), 0>>
BY DEF Call

\* What is loaded after all of a list was loaded, unloaded or swapped.
After(op, loaded, ms) ==
    CASE op = "load"   -> loaded \cup Elems(ms)
      [] op = "unload" -> loaded \ Elems(ms)
      [] op = "swap"   -> (loaded \ {ms[1]}) \cup {ms[2]}

LEMMA EffectAfter ==
    ASSUME NEW op \in Operations, NEW e, IsEnv(e), NEW ms \in Seq(Module),
           op = "swap" => ms \in Pairs \ {None}
    PROVE  Effect(op, e, ms, Elems(ms)).loaded = After(op, e.loaded, ms)
<1>1. e \in ModuleEnv
    BY DEF IsEnv
<1>2. CASE op = "load"
    BY <1>1, <1>2 DEF Effect, After, ModuleEnv
<1>3. CASE op = "unload"
    BY <1>1, <1>3 DEF Effect, After, ModuleEnv
<1>4. CASE op = "swap"
    <2>1. DOMAIN ms = {1, 2}
        BY <1>4, SwapFacts
    <2>2. Elems(ms) # {}
        BY <2>1 DEF Elems
    <2>. QED
        BY <1>1, <1>4, <2>2 DEF Effect, After, ModuleEnv
<1>. QED
    BY <1>2, <1>3, <1>4 DEF Operations

\* Without a list, a part of applyModules does nothing.
LEMMA ApplyNone ==
    ASSUME NEW op, NEW s, NEW o, NEW q \in ApplyOne(op, s, None, o)
    PROVE  q = o
BY DEF ApplyOne

\* With a list, it is applied and recorded.
LEMMA ApplySome ==
    ASSUME NEW op \in Operations, NEW s \in Section, NEW ms \in Seq(Module), ms # None,
           op = "swap" => ms \in Pairs, NEW e, IsEnv(e), NEW q \in ApplyOne(op, s, ms, <<e, 0>>),
           q[2] = 0
    PROVE  q[1].loaded = After(op, e.loaded, ms) /\ q[1].recorded[op][s] = ms
<1>1. PICK c \in Call(op, e, ms) :
          q = IF c[2] = 0 THEN <<[c[1] EXCEPT !.recorded[op][s] = ms], 0>> ELSE c
    BY DEF ApplyOne
<1>2. c[2] = 0
    BY <1>1
<1>3. c[1] = Effect(op, e, ms, Elems(ms)) /\ c[1].loaded = After(op, e.loaded, ms)
    BY <1>2, CallSucceeds, EffectAfter
<1>4. IsEnv(c[1])
    BY CallType
<1>5. q[1] = [c[1] EXCEPT !.recorded[op][s] = ms]
    BY <1>1, <1>2
<1>. QED
    BY <1>3, <1>4, <1>5 DEF IsEnv, ModuleEnv

\* Only one operation is asked for, and all goes well.
LEMMA ApplyAlone ==
    ASSUME NEW s \in Section, NEW m, IsOptions(m), NEW e, IsEnv(e),
           NEW op \in Operations, \A other \in Operations \ {op} : m[other] = None,
           NEW o \in ApplyModules(s, m, e), o[2] = 0
    PROVE  /\ m[op] = None => o[1] = e
           /\ m[op] # None => /\ o[1].loaded = After(op, e.loaded, m[op])
                              /\ o[1].recorded[op][s] = m[op]
<1>1. /\ m["unload"] \in Seq(Module) /\ m["load"] \in Seq(Module)
      /\ m["swap"] \in Seq(Module) /\ m["swap"] \in Pairs
    BY DEF IsOptions, ModuleOptions, Operations
<1>2. PICK p \in ApplyOne("unload", s, m["unload"], <<e, 0>>) :
          \E q \in ApplyOne("load", s, m["load"], p) : o \in ApplyOne("swap", s, m["swap"], q)
    BY DEF ApplyModules
<1>3. PICK q \in ApplyOne("load", s, m["load"], p) : o \in ApplyOne("swap", s, m["swap"], q)
    BY <1>2
<1>4. /\ m["unload"] = None => p = <<e, 0>>
      /\ m["load"] = None => q = p
      /\ m["swap"] = None => o = q
    BY <1>2, <1>3, ApplyNone
<1>5. CASE op = "unload"
    <2>1. m["load"] = None /\ m["swap"] = None
        BY <1>5 DEF Operations
    <2>2. o \in ApplyOne("unload", s, m["unload"], <<e, 0>>)
        BY <1>4, <2>1
    <2>. QED
        BY <1>1, <1>4, <1>5, <2>1, <2>2, ApplySome
<1>6. CASE op = "load"
    <2>1. m["unload"] = None /\ m["swap"] = None
        BY <1>6 DEF Operations
    <2>2. o \in ApplyOne("load", s, m["load"], <<e, 0>>)
        BY <1>3, <1>4, <2>1
    <2>. QED
        BY <1>1, <1>4, <1>6, <2>1, <2>2, ApplySome
<1>7. CASE op = "swap"
    <2>1. m["unload"] = None /\ m["load"] = None
        BY <1>7 DEF Operations
    <2>2. o \in ApplyOne("swap", s, m["swap"], <<e, 0>>)
        BY <1>3, <1>4, <2>1
    <2>. QED
        BY <1>1, <1>4, <1>7, <2>1, <2>2, ApplySome
<1>. QED
    BY <1>5, <1>6, <1>7 DEF Operations

\* What undoes an operation.
Inverse(op) == CASE op = "load" -> "unload" [] op = "unload" -> "load" [] op = "swap" -> "swap"
Undoes(op, ms) == IF op = "swap" THEN Backwards(ms) ELSE ms

LEMMA RevertNone ==
    ASSUME NEW op, NEW inverse, NEW s, NEW o, o[1].recorded[op][s] = None,
           NEW q \in RevertOne(op, inverse, s, o)
    PROVE  q = o
BY DEF RevertOne

LEMMA RevertSome ==
    ASSUME NEW op \in Operations, NEW s \in Section, NEW e, IsEnv(e), e.recorded[op][s] # None,
           NEW q \in RevertOne(op, Inverse(op), s, <<e, 0>>), q[2] = 0
    PROVE  q[1].loaded = After(Inverse(op), e.loaded, Undoes(op, e.recorded[op][s]))
<1> DEFINE ms == e.recorded[op][s]
           to == Undoes(op, ms)
           f == [e EXCEPT !.recorded[op][s] = to]
           inv == Inverse(op)
<1>1. ms \in Seq(Module) /\ (op = "swap" => ms \in Pairs)
    BY DEF IsEnv, ModuleEnv
<1>2. to \in Seq(Module) /\ (op = "swap" => to \in Pairs \ {None})
    BY <1>1, BackwardsType, SwapFacts DEF Undoes
<1>3. inv \in Operations /\ (inv = "swap" => op = "swap")
    BY DEF Inverse, Operations
<1>4. IsEnv(f) /\ f.loaded = e.loaded
    BY <1>2 DEF IsEnv, ModuleEnv, Operations
<1>5. q \in Call(inv, f, to)
    BY DEF RevertOne, Undoes
<1> HIDE DEF ms, to, f, inv
<1>6. q[1] = Effect(inv, f, to, Elems(to))
    BY <1>3, <1>5, CallSucceeds
<1>7. q[1].loaded = After(inv, f.loaded, to)
    BY <1>2, <1>3, <1>4, <1>6, EffectAfter
<1>. QED
    BY <1>4, <1>7 DEF ms, to, inv

\* Only one operation is recorded, and all goes well.
LEMMA RevertAlone ==
    ASSUME NEW s \in Section, NEW e, IsEnv(e), NEW op \in Operations,
           \A other \in Operations \ {op} : e.recorded[other][s] = None,
           NEW o \in RevertModules(s, e), o[2] = 0
    PROVE  /\ e.recorded[op][s] = None => o[1] = e
           /\ e.recorded[op][s] # None =>
                 o[1].loaded = After(Inverse(op), e.loaded, Undoes(op, e.recorded[op][s]))
<1>1. PICK p \in RevertOne("swap", "swap", s, <<e, 0>>) :
          \E q \in RevertOne("load", "unload", s, p) : o \in RevertOne("unload", "load", s, q)
    BY DEF RevertModules
<1>2. PICK q \in RevertOne("load", "unload", s, p) : o \in RevertOne("unload", "load", s, q)
    BY <1>1
<1>3. IsEnv(p[1]) /\ p[1].recorded["load"][s] = e.recorded["load"][s]
                  /\ p[1].recorded["unload"][s] = e.recorded["unload"][s]
    BY <1>1, RevertKeeps DEF Operations
<1>4. IsEnv(q[1]) /\ q[1].recorded["unload"][s] = e.recorded["unload"][s]
    BY <1>2, <1>3, RevertKeeps DEF Operations
<1>5. /\ e.recorded["swap"][s] = None => p = <<e, 0>>
      /\ e.recorded["load"][s] = None => q = p
      /\ e.recorded["unload"][s] = None => o = q
    BY <1>1, <1>2, <1>3, <1>4, RevertNone
<1>6. CASE op = "swap"
    <2>1. e.recorded["load"][s] = None /\ e.recorded["unload"][s] = None
        BY <1>6 DEF Operations
    <2>2. o \in RevertOne("swap", "swap", s, <<e, 0>>) /\ Inverse("swap") = "swap"
        BY <1>1, <1>5, <2>1 DEF Inverse
    <2>. QED
        BY <1>5, <1>6, <2>1, <2>2, RevertSome
<1>7. CASE op = "load"
    <2>1. e.recorded["swap"][s] = None /\ e.recorded["unload"][s] = None
        BY <1>7 DEF Operations
    <2>2. o \in RevertOne("load", "unload", s, <<e, 0>>) /\ Inverse("load") = "unload"
        BY <1>2, <1>5, <2>1 DEF Inverse
    <2>. QED
        BY <1>5, <1>7, <2>1, <2>2, RevertSome
<1>8. CASE op = "unload"
    <2>1. e.recorded["swap"][s] = None /\ e.recorded["load"][s] = None
        BY <1>8 DEF Operations
    <2>2. o \in RevertOne("unload", "load", s, <<e, 0>>) /\ Inverse("unload") = "load"
        BY <1>2, <1>5, <2>1 DEF Inverse
    <2>. QED
        BY <1>5, <1>8, <2>1, <2>2, RevertSome
<1>. QED
    BY <1>6, <1>7, <1>8 DEF Operations

\* An operation that changes all that it names is undone by its inverse.
LEMMA Undone ==
    ASSUME NEW op \in Operations, NEW loaded, NEW ms \in Seq(Module), ms # None,
           op = "swap" => ms \in Pairs /\ ms[1] \in loaded /\ ms[2] \notin loaded,
           op = "load" => Elems(ms) \cap loaded = {},
           op = "unload" => Elems(ms) \subseteq loaded
    PROVE  After(Inverse(op), After(op, loaded, ms), Undoes(op, ms)) = loaded
<1>1. CASE op = "load"
    BY <1>1 DEF After, Inverse, Undoes
<1>2. CASE op = "unload"
    BY <1>2 DEF After, Inverse, Undoes
<1>3. CASE op = "swap"
    <2>1. Backwards(ms)[1] = ms[2] /\ Backwards(ms)[2] = ms[1]
        BY <1>3, BackwardsType
    <2>2. After(Inverse(op), After(op, loaded, ms), Undoes(op, ms))
              = (((loaded \ {ms[1]}) \cup {ms[2]}) \ {ms[2]}) \cup {ms[1]}
        BY <1>3, <2>1 DEF After, Inverse, Undoes
    <2>. QED
        BY <1>3, <2>2
<1>. QED
    BY <1>1, <1>2, <1>3 DEF Operations

\* A part of applyModules records nothing but its own list.
LEMMA ApplyOneRecords ==
    ASSUME NEW op \in Operations, NEW s \in Section, NEW ms \in Seq(Module),
           op = "swap" => ms \in Pairs, NEW o, IsEnv(o[1]), o[2] \in {0, 1},
           NEW q \in ApplyOne(op, s, ms, o), NEW other \in Operations, NEW t \in Section,
           q[1].recorded[other][t] # None
    PROVE  o[1].recorded[other][t] # None \/ (other = op /\ t = s /\ ms # None)
<1>1. CASE ms = None
    BY <1>1 DEF ApplyOne
<1>2. CASE ms # None
    <2>1. PICK c \in Call(op, o[1], ms) :
              q = IF c[2] = 0 THEN <<[c[1] EXCEPT !.recorded[op][s] = ms], 0>> ELSE c
        BY <1>2 DEF ApplyOne
    <2>2. IsEnv(c[1]) /\ c[1].recorded = o[1].recorded
        BY <1>2, CallType
    <2>3. q[1] = c[1] \/ q[1] = [c[1] EXCEPT !.recorded[op][s] = ms]
        BY <2>1
    <2>4. ~(other = op /\ t = s) => q[1].recorded[other][t] = c[1].recorded[other][t]
        BY <2>2, <2>3 DEF IsEnv, ModuleEnv
    <2>. QED
        BY <1>2, <2>2, <2>4
<1>. QED
    BY <1>1, <1>2

\* What applyModules records was asked for.
LEMMA ApplyRecords ==
    ASSUME NEW s \in Section, NEW m, IsOptions(m), NEW e, IsEnv(e),
           NEW o \in ApplyModules(s, m, e), NEW op \in Operations, NEW t \in Section,
           o[1].recorded[op][t] # None
    PROVE  e.recorded[op][t] # None \/ (t = s /\ m[op] # None)
<1>1. /\ m["unload"] \in Seq(Module) /\ m["load"] \in Seq(Module)
      /\ m["swap"] \in Seq(Module) /\ m["swap"] \in Pairs
    BY DEF IsOptions, ModuleOptions, Operations
<1>2. PICK p \in ApplyOne("unload", s, m["unload"], <<e, 0>>) :
          \E q \in ApplyOne("load", s, m["load"], p) : o \in ApplyOne("swap", s, m["swap"], q)
    BY DEF ApplyModules
<1>3. PICK q \in ApplyOne("load", s, m["load"], p) : o \in ApplyOne("swap", s, m["swap"], q)
    BY <1>2
<1>4. IsEnv(p[1]) /\ p[2] \in {0, 1}
    BY <1>1, ApplyOneType DEF Operations
<1>5. IsEnv(q[1]) /\ q[2] \in {0, 1}
    BY <1>1, <1>4, ApplyOneType DEF Operations
<1>6. q[1].recorded[op][t] # None \/ (t = s /\ m[op] # None)
    BY <1>1, <1>3, <1>5, ApplyOneRecords DEF Operations
<1>7. q[1].recorded[op][t] # None => p[1].recorded[op][t] # None \/ (t = s /\ m[op] # None)
    BY <1>1, <1>4, ApplyOneRecords DEF Operations
<1>8. p[1].recorded[op][t] # None => e.recorded[op][t] # None \/ (t = s /\ m[op] # None)
    <2> DEFINE o0 == <<e, 0>>
    <2>1. IsEnv(o0[1]) /\ o0[2] \in {0, 1} /\ o0[1] = e
        OBVIOUS
    <2>2. p \in ApplyOne("unload", s, m["unload"], o0) /\ "unload" \in Operations
        BY <1>2 DEF Operations
    <2> HIDE DEF o0
    <2>. QED
        BY <1>1, <2>1, <2>2, ApplyOneRecords
<1>. QED
    BY <1>6, <1>7, <1>8

\* revertModules records nothing.
LEMMA RevertRecords ==
    ASSUME NEW s \in Section, NEW e, IsEnv(e), NEW o \in RevertModules(s, e),
           NEW op \in Operations, NEW t \in Section, o[1].recorded[op][t] # None
    PROVE  e.recorded[op][t] # None
<1>1. PICK p \in RevertOne("swap", "swap", s, <<e, 0>>) :
          \E q \in RevertOne("load", "unload", s, p) : o \in RevertOne("unload", "load", s, q)
    BY DEF RevertModules
<1>2. PICK q \in RevertOne("load", "unload", s, p) : o \in RevertOne("unload", "load", s, q)
    BY <1>1
<1> DEFINE o0 == <<e, 0>>
<1>3. /\ IsEnv(o0[1]) /\ o0[1] = e /\ p \in RevertOne("swap", "swap", s, o0)
      /\ "swap" \in Operations /\ "load" \in Operations /\ "unload" \in Operations
    BY <1>1 DEF Operations
<1> HIDE DEF o0
<1>4. IsEnv(p[1]) /\ (e.recorded[op][t] = None => p[1].recorded[op][t] = None)
    BY <1>3, RevertKeeps
<1>5. IsEnv(q[1]) /\ (p[1].recorded[op][t] = None => q[1].recorded[op][t] = None)
    <2>1. q \in RevertOne("load", "unload", s, p)
        BY <1>2
    <2>. QED
        BY <1>3, <1>4, <2>1, RevertKeeps
<1>6. q[1].recorded[op][t] = None => o[1].recorded[op][t] = None
    <2>1. o \in RevertOne("unload", "load", s, q)
        BY <1>2
    <2>. QED
        BY <1>3, <1>5, <2>1, RevertKeeps
<1>. QED
    BY <1>4, <1>5, <1>6
-----------------------------------------------------------------------------
(* The fetch sections.                                                       *)

\* What is requested.
LEMMA RequestFacts ==
    ASSUME SharedTypeOK
    PROVE  /\ cur \in Requests /\ S \in Section /\ Sec = S /\ IsOptions(cur.mods)
           /\ Want \in Wants /\ cur.retry \in Nat /\ cur.item \in Item
           /\ Want.kind \in {"branch", "commit"} => Want.ref \in Branch
           /\ Want.kind = "pr" => Want.ref \in Pull
           /\ {Home, Scratch(S), Package(S)} \subseteq Place
<1>1. cur \in Requests
    BY DEF SharedTypeOK
<1>2. /\ cur.section \in Section /\ IsOptions(cur.mods)
      /\ cur.want \in Wants /\ cur.retry \in Nat
      /\ cur.want.kind \in {"branch", "commit"} => cur.want.ref \in Branch
      /\ cur.want.kind = "pr" => cur.want.ref \in Pull
      /\ cur.item \in Item
    BY <1>1, PluginAssumption, GitAssumption, ArchivesAssumption DEF Wants
<1>3. \A s \in Section : {Home, Scratch(s), Package(s)} \subseteq Place
    BY DEF Place, Scratch, Package
<1>. QED
    BY <1>1, <1>2, <1>3 DEF S, Sec, Want

\* What a plugin may do to that which all share.
Shares == UNCHANGED <<cur, entry, left>> /\ SharedTypeOK'

\* The working directory, the modules and the log of a step.
LEMMA SharesFacts ==
    ASSUME SharedTypeOK, UNCHANGED <<cur, entry, left>>,
           log' \in [status : {0, 1}, located : BOOLEAN, memo : BOOLEAN],
           \/ env' = env
           \/ \E p \in Place : env' = [env EXCEPT !.cwd = p]
           \/ \E m \in ModuleEnv, p \in Place : IsEnv(m) /\ env' = [modules |-> m, cwd |-> p]
    PROVE  Shares
BY DEF SharedTypeOK, Shares, IsEnv

\* applyModules as the plugins call it.
LEMMA ApplyFacts ==
    ASSUME SharedTypeOK, NEW next, NEW out, Apply(cur.mods, next, out)
    PROVE  /\ Shares /\ pc' \in {next, out}
           /\ env'.cwd = env.cwd
           /\ log'.located = log.located /\ log'.memo = log.memo
<1>1. PICK o \in ApplyModules(cur.section, cur.mods, env.modules) :
          /\ env' = [env EXCEPT !.modules = o[1]]
          /\ log' = [log EXCEPT !.status = o[2]]
          /\ Go(IF o[2] = 0 THEN next ELSE out)
    BY DEF Apply
<1>2. IsEnv(o[1]) /\ o[2] \in {0, 1}
    <2>1. cur.section \in Section /\ IsOptions(cur.mods) /\ IsEnv(env.modules)
        BY RequestFacts DEF S, SharedTypeOK
    <2>. QED
        BY <2>1, ApplyType
<1>. QED
    BY <1>1, <1>2 DEF SharedTypeOK, Shares, Go, IsEnv

\* The ways to leave a step.
LEMMA LeaveFacts ==
    ASSUME SharedTypeOK
    PROVE  /\ log \in [status : {0, 1}, located : BOOLEAN, memo : BOOLEAN]
           /\ [log EXCEPT !.status = 1] \in [status : {0, 1}, located : BOOLEAN, memo : BOOLEAN]
           /\ entry.cwd \in Place
           /\ \A p : Go(p) => pc' = p /\ UNCHANGED <<cur, entry, left>>
BY DEF SharedTypeOK, Go
-----------------------------------------------------------------------------
(* Types: Git                                                                *)

\* Every step of Git keeps the types of that which all share.
LEMMA GitShares ==
    ASSUME SharedTypeOK, GitTypeOK, GitNext
    PROVE  Shares /\ pc' \in Places
<1> USE LeaveFacts, RequestFacts DEF Places, Return, Fail, Raise, Chdir, NextTry
<1>1. CASE GitStart
    <2>1. CASE Raise \/ (Fail /\ UNCHANGED env)
        BY <2>1, SharesFacts
    <2>2. CASE Apply(cur.mods, "lookup", "returned")
        BY <2>2, ApplyFacts
    <2>. QED
        BY <1>1, <2>1, <2>2 DEF GitStart
<1>2. CASE GitRefuse
    BY <1>2, SharesFacts DEF GitRefuse
<1>3. CASE GitRecall
    <2>1. [status |-> 0, located |-> TRUE, memo |-> SameWant]
              \in [status : {0, 1}, located : BOOLEAN, memo : BOOLEAN]
        BY DEF SameWant
    <2>2. [status |-> 1, located |-> TRUE, memo |-> TRUE]
              \in [status : {0, 1}, located : BOOLEAN, memo : BOOLEAN]
        OBVIOUS
    <2>. QED
        BY <1>3, <2>1, <2>2, SharesFacts DEF GitRecall
<1>4. CASE GitForget
    BY <1>4, SharesFacts DEF GitForget
<1>5. CASE GitPrepare
    BY <1>5, SharesFacts DEF GitPrepare
<1>6. CASE GitGiveUp
    BY <1>6, SharesFacts DEF GitGiveUp
<1>7. CASE GitTry
    <2>1. CASE Here.is = "file"
        BY <1>7, <2>1, SharesFacts DEF GitTry
    <2>2. CASE Here.is = "none"
        BY <1>7, <2>2, SharesFacts DEF GitTry
    <2>3. CASE Here.is \notin {"file", "none"}
        BY <1>7, <2>3, SharesFacts DEF GitTry
    <2>. QED
        BY <2>1, <2>2, <2>3
<1>8. CASE GitInspect
    BY <1>8, SharesFacts DEF GitInspect
<1>9. CASE GitPull
    BY <1>9, SharesFacts DEF GitPull
<1>10. CASE GitWipe
    BY <1>10, SharesFacts DEF GitWipe
<1>11. CASE GitClone
    BY <1>11, SharesFacts DEF GitClone
<1>12. CASE GitCheckout
    BY <1>12, SharesFacts DEF GitCheckout
<1>13. CASE GitRecord
    <2>1. PICK o \in RevertModules(S, env.modules) :
              /\ env' = [modules |-> o[1], cwd |-> entry.cwd]
              /\ \/ /\ log' = [log EXCEPT !.status = 1, !.located = TRUE]
                    /\ Go("try")
                 \/ /\ log' = [log EXCEPT !.status = o[2], !.located = TRUE]
                    /\ Go(IF o[2] = 0 THEN "returned" ELSE "try")
        BY <1>13 DEF GitRecord
    <2>2. IsEnv(o[1]) /\ o[2] \in {0, 1}
        BY RevertType DEF SharedTypeOK
    <2>3. log' \in [status : {0, 1}, located : BOOLEAN, memo : BOOLEAN]
        BY <2>1, <2>2
    <2>4. UNCHANGED <<cur, entry, left>> /\ pc' \in {"try", "returned"}
        BY <2>1
    <2>5. \E m \in ModuleEnv, p \in Place : IsEnv(m) /\ env' = [modules |-> m, cwd |-> p]
        BY <2>1, <2>2 DEF IsEnv
    <2>6. Shares
        BY <2>3, <2>4, <2>5, SharesFacts
    <2>. QED
        BY <2>4, <2>6
<1>. QED
    BY <1>1, <1>2, <1>3, <1>4, <1>5, <1>6, <1>7, <1>8, <1>9, <1>10, <1>11, <1>12, <1>13
       DEF GitNext

\* What a step of Git leaves that fails or is cut short.
LEMMA TornAmong ==
    Torn \subseteq {Here, Partial, [Cloned EXCEPT !.files = FALSE], [Here EXCEPT !.files = FALSE]}
BY DEF Torn

\* What Git finds and makes.
LEMMA TreeFacts ==
    ASSUME SharedTypeOK, GitTypeOK
    PROVE  /\ Here \in Tree /\ Nothing \in Tree /\ Partial \in Tree /\ Cloned \in Tree
           /\ \A t \in Torn : t \in Tree
           /\ tip[Main] \in 0 .. MaxTip
           /\ \A r \in Branch \cup Pull :
                 /\ tip[r] \in 0 .. MaxTip
                 /\ Clone(r, r, tip[r], TRUE) \in Tree
           /\ \A r \in Branch \cup Pull \cup {""}, n \in 0 .. MaxTip :
                 Clone("detached", r, n, TRUE) \in Tree
           /\ \A st \in {0, 1} : [known |-> TRUE, status |-> st, want |-> Want] \in Memo
<1>1. 0 \in 0 .. MaxTip
    <2>1. MaxTip \in Nat
        BY GitAssumption
    <2>. QED
        BY <2>1
<1>2. \A r \in Branch \cup Pull : tip[r] \in 0 .. MaxTip
    BY DEF GitTypeOK
<1> USE GitAssumption, RequestFacts DEF GitTypeOK
<1>3. \A h \in Heads, r \in Branch \cup Pull \cup {""}, n \in 0 .. MaxTip, b \in BOOLEAN :
          Clone(h, r, n, b) \in Tree
    BY DEF Tree, Clone
<1>4. Cloned \in Tree
    <2>1. Want.kind = "branch" => Cloned = Clone(Want.ref, Want.ref, tip[Want.ref], TRUE)
        BY DEF Cloned
    <2>2. Want.kind # "branch" => \E b \in BOOLEAN : Cloned = Clone(Main, Main, tip[Main], b)
        BY DEF Cloned
    <2>3. Want.kind = "branch" => Want.ref \in Branch
        OBVIOUS
    <2>4. Main \in Branch
        OBVIOUS
    <2> HIDE GitAssumption, RequestFacts DEF GitTypeOK
    <2>. QED
        BY <1>2, <1>3, <2>1, <2>2, <2>3, <2>4 DEF Heads
<1>5. Nothing \in Tree /\ Partial \in Tree
    BY <1>1 DEF Nothing, Partial, Tree, Heads
<1>6. Here \in Tree
    BY DEF Here
<1>7. \A t \in Torn : t \in Tree
    <2>1. \A t \in Tree : [t EXCEPT !.files = FALSE] \in Tree
        BY DEF Tree
    <2>. QED
        BY <1>4, <1>5, <1>6, <2>1, TornAmong
<1>. QED
    BY <1>2, <1>3, <1>4, <1>5, <1>6, <1>7 DEF Memo, Heads

\* Every step of Git keeps the types of its own variables.
LEMMA GitTypes ==
    ASSUME SharedTypeOK, GitTypeOK, GitNext
    PROVE  GitTypeOK'
<1> USE RequestFacts, TreeFacts DEF GitTypeOK, Remember, Becomes, NextTry
<1>1. CASE GitStart \/ GitRefuse \/ GitRecall \/ GitForget \/ GitGiveUp
    <2>1. UNCHANGED gitVars
        BY <1>1 DEF GitStart, GitRefuse, GitRecall, GitForget, GitGiveUp, gitVars
    <2> HIDE RequestFacts, TreeFacts
    <2>. QED
        BY <2>1 DEF gitVars
<1>2. CASE GitPrepare
    <2>1. UNCHANGED <<tip, tree, done>> /\ (tries' = tries \/ tries' = 0)
        BY <1>2 DEF GitPrepare
    <2>2. cur \in Requests /\ cur.retry \in Nat
        OBVIOUS
    <2> HIDE RequestFacts, TreeFacts
    <2>. QED
        BY <2>1, <2>2
<1>3. CASE GitTry
    <2>1. /\ UNCHANGED <<tip, tree>> /\ tries' = tries + 1 /\ tries <= cur.retry
          /\ \/ done' = done
             \/ done' = [done EXCEPT ![S] = [known |-> TRUE, status |-> 1, want |-> Want]]
        <3>1. CASE Here.is = "file"
            BY <1>3, <3>1 DEF GitTry
        <3>2. CASE Here.is = "none"
            BY <1>3, <3>2 DEF GitTry
        <3>3. CASE Here.is \notin {"file", "none"}
            BY <1>3, <3>3 DEF GitTry
        <3>. QED
            BY <3>1, <3>2, <3>3
    <2>2. tries' \in 0 .. cur.retry + 1
        <3>1. cur.retry \in Nat /\ \E r \in Requests : tries \in 0 .. r.retry + 1
            OBVIOUS
        <3> HIDE RequestFacts, TreeFacts DEF GitTypeOK
        <3>2. \A r \in Requests : r.retry \in Nat
            BY GitAssumption
        <3>3. tries \in Nat
            BY <3>1, <3>2
        <3>. QED
            BY <2>1, <3>1, <3>3
    <2>. QED
        BY <2>1, <2>2
<1>4. CASE GitInspect
    BY <1>4 DEF GitInspect
<1>5. CASE GitPull
    <2>1. UNCHANGED <<tip, done, tries>>
        BY <1>5 DEF GitPull
    <2>2. \/ \E t \in Torn : tree' = [tree EXCEPT ![S] = t]
          \/ /\ tree' = [tree EXCEPT ![S] = [Here EXCEPT !.at = tip[Here.head]]]
             /\ Here.head \in Branch
        BY <1>5 DEF GitPull
    <2>3. Here.head \in Branch => [Here EXCEPT !.at = tip[Here.head]] \in Tree
        <3>1. Here.head \in Branch => tip[Here.head] \in 0 .. MaxTip
            OBVIOUS
        <3>2. Here \in Tree
            OBVIOUS
        <3>. QED
            BY <3>1, <3>2 DEF Tree
    <2>. QED
        BY <2>1, <2>2, <2>3
<1>6. CASE GitWipe
    BY <1>6 DEF GitWipe
<1>7. CASE GitClone
    BY <1>7 DEF GitClone
<1>8. CASE GitCheckout
    <2>1. UNCHANGED <<tip, tries>>
        BY <1>8 DEF GitCheckout
    <2>2. done' = done \/ done' = [done EXCEPT ![S] = [known |-> TRUE, status |-> 1, want |-> Want]]
        BY <1>8 DEF GitCheckout
    <2>3. \/ \E t \in Torn : tree' = [tree EXCEPT ![S] = t]
          \/ /\ pc \in {"checkout", "recheckout"} /\ Want.n <= tip[Want.ref]
             /\ tree' = [tree EXCEPT ![S] =
                    IF Want.kind = "pr" THEN Clone(Want.ref, Want.ref, tip[Want.ref], TRUE)
                    ELSE Clone("detached", Want.ref, Want.n, TRUE)]
        BY <1>8 DEF GitCheckout
    <2>4. Want.n \in 0 .. MaxTip /\ Want.ref \in Branch \cup Pull \cup {""}
        BY DEF Wants
    <2>5. Clone("detached", Want.ref, Want.n, TRUE) \in Tree
        BY <2>4
    <2>6. Want.kind = "pr" => Clone(Want.ref, Want.ref, tip[Want.ref], TRUE) \in Tree
        OBVIOUS
    <2>. QED
        BY <2>1, <2>2, <2>3, <2>5, <2>6
<1>9. CASE GitRecord
    BY <1>9 DEF GitRecord
<1>. QED
    BY <1>1, <1>2, <1>3, <1>4, <1>5, <1>6, <1>7, <1>8, <1>9 DEF GitNext

-----------------------------------------------------------------------------
(* Types: the other plugins                                                  *)

\* The name of what is fetched.
LEMMA NameFacts ==
    ASSUME SharedTypeOK, ArchiveTypeOK
    PROVE  Name \in Item /\ newest \in DOMAIN Versions
<1>1. newest \in DOMAIN Versions /\ Versions[newest] \in Item
    BY ArchivesAssumption DEF ArchiveTypeOK
<1>. QED
    BY <1>1, RequestFacts DEF Name

LEMMA ArchiveShares ==
    ASSUME SharedTypeOK, ArchiveTypeOK, ArchiveNext
    PROVE  Shares /\ pc' \in Places
<1> USE LeaveFacts, RequestFacts DEF Places, Return, Fail, Raise, Chdir, Keep
<1>1. CASE NothingAsked
    BY <1>1, SharesFacts DEF NothingAsked
<1>2. CASE TarballAgain
    BY <1>2, SharesFacts DEF TarballAgain
<1>3. CASE TarballStart
    BY <1>3, SharesFacts DEF TarballStart
<1>4. CASE TarballHave
    <2>1. /\ UNCHANGED <<env, log>>
          /\ Go("download") \/ Go("untar") \/ Go("raised") \/ Go("record")
        <3>1. CASE file[Sec][Name] = "none"
            BY <1>4, <3>1 DEF TarballHave
        <3>2. CASE file[Sec][Name] # "none" /\ pkg[Sec][Name] = "none"
            BY <1>4, <3>2 DEF TarballHave
        <3>3. CASE file[Sec][Name] # "none" /\ pkg[Sec][Name] = "file"
            BY <1>4, <3>3 DEF TarballHave
        <3>4. CASE file[Sec][Name] # "none" /\ pkg[Sec][Name] \notin {"none", "file"}
            BY <1>4, <3>4 DEF TarballHave
        <3>. QED
            BY <3>1, <3>2, <3>3, <3>4
    <2>. QED
        BY <2>1, SharesFacts
<1>5. CASE SnapshotUnreachable
    BY <1>5, SharesFacts DEF SnapshotUnreachable
<1>6. CASE SnapshotStart
    <2>1. CASE Fail /\ UNCHANGED env
        BY <2>1, SharesFacts
    <2>2. CASE log' = [status |-> 0, located |-> TRUE, memo |-> TRUE] /\ Return /\ UNCHANGED env
        BY <2>2, SharesFacts
    <2>3. CASE Chdir(Scratch(Sec)) /\ Go("have") /\ UNCHANGED log
        BY <2>3, SharesFacts
    <2>. QED
        BY <1>6, <2>1, <2>2, <2>3 DEF SnapshotStart
<1>7. CASE SnapshotHave
    <2>1. /\ UNCHANGED env
          /\ log' = log \/ log' = [log EXCEPT !.status = 1]
          /\ Go("download") \/ Go("raised") \/ Go("record")
        <3>1. CASE pkg[Sec][Name] = "file"
            BY <1>7, <3>1 DEF SnapshotHave
        <3>2. CASE pkg[Sec][Name] = "none"
            BY <1>7, <3>2 DEF SnapshotHave
        <3>3. CASE pkg[Sec][Name] \notin {"none", "file"}
            BY <1>7, <3>3 DEF SnapshotHave
        <3>. QED
            BY <3>1, <3>2, <3>3
    <2>. QED
        BY <2>1, SharesFacts
<1>8. CASE Download
    BY <1>8, SharesFacts DEF Download
<1>9. CASE Untar
    BY <1>9, SharesFacts DEF Untar
<1>10. CASE TarballRecord
    BY <1>10, SharesFacts DEF TarballRecord, Recorded
<1>11. CASE SnapshotRecord
    BY <1>11, SharesFacts DEF SnapshotRecord, Recorded
<1>12. CASE InstallStart
    <2>1. /\ UNCHANGED env
          /\ Go("raised") \/ Go("returned") \/ Go("install")
          /\ \/ log' = log
             \/ log' = [log EXCEPT !.status = 0]
             \/ log' = [log EXCEPT !.status = 1]
             \/ /\ log' = [log EXCEPT !.status = memo[cur.plugin][Name], !.memo = TRUE]
                /\ cur.plugin \in Memoizers /\ memo[cur.plugin][Name] # Unset
        BY <1>12 DEF InstallStart, Installing, Memoizers
    <2>2. memo[cur.plugin][Name] # Unset /\ cur.plugin \in Memoizers
              => memo[cur.plugin][Name] \in {0, 1}
        BY NameFacts DEF ArchiveTypeOK
    <2>. QED
        BY <2>1, <2>2, SharesFacts
<1>13. CASE Install
    BY <1>13, SharesFacts DEF Install
<1>14. CASE CheckStart
    <2>1. CASE Apply(cur.mods, "find", "returned")
        BY <2>1, ApplyFacts
    <2>2. CASE log' = [log EXCEPT !.status = 0] /\ Return /\ UNCHANGED env
        BY <2>2, SharesFacts
    <2>. QED
        BY <1>14, <2>1, <2>2 DEF CheckStart
<1>15. CASE CheckFind
    <2>1. PICK o \in RevertModules(S, env.modules), found \in {0, 1} :
              /\ env' = [env EXCEPT !.modules = o[1]]
              /\ log' = [log EXCEPT !.status = IF o[2] = 0 THEN found ELSE 1]
              /\ Go("returned")
        BY <1>15 DEF CheckFind
    <2>2. IsEnv(o[1]) /\ o[1] \in ModuleEnv
        BY RevertType DEF SharedTypeOK, IsEnv
    <2>3. env.cwd \in Place /\ env' = [modules |-> o[1], cwd |-> env.cwd]
        BY <2>1 DEF SharedTypeOK
    <2>4. log' \in [status : {0, 1}, located : BOOLEAN, memo : BOOLEAN]
        BY <2>1
    <2>5. Shares
        BY <2>1, <2>2, <2>3, <2>4, SharesFacts
    <2>. QED
        BY <2>1, <2>5
<1>. QED
    BY <1>1, <1>2, <1>3, <1>4, <1>5, <1>6, <1>7, <1>8, <1>9, <1>10, <1>11, <1>12,
       <1>13, <1>14, <1>15 DEF ArchiveNext

\* Every step of the others keeps the types of their variables.
LEMMA ArchiveTypes ==
    ASSUME SharedTypeOK, ArchiveTypeOK, ArchiveNext
    PROVE  ArchiveTypeOK'
<1> DEFINE N == Name
<1>1. N \in Item /\ Sec \in Section
    BY NameFacts, RequestFacts
<1>2. \A x \in {"none", "partial", "whole"} :
          Sets(file, x) \in [Section -> [Item -> {"none", "partial", "whole"}]]
    BY <1>1 DEF ArchiveTypeOK, Sets
<1>3. \A x \in {"none", "file", "partial", "whole"} :
          Sets(pkg, x) \in [Section -> [Item -> {"none", "file", "partial", "whole"}]]
    BY <1>1 DEF ArchiveTypeOK, Sets
<1>4. \A st \in {0, 1} : Memorize(st) => memo' \in [Memoizers -> [Item -> {Unset, 0, 1}]]
    <2> SUFFICES ASSUME NEW st \in {0, 1}, Memorize(st)
                 PROVE  memo' \in [Memoizers -> [Item -> {Unset, 0, 1}]]
        OBVIOUS
    <2>1. memo \in [Memoizers -> [Item -> {Unset, 0, 1}]]
        BY DEF ArchiveTypeOK
    <2>2. \A f \in [Item -> {Unset, 0, 1}] :
              [f EXCEPT ![Name] = st] \in [Item -> {Unset, 0, 1}]
        BY <1>1
    <2>3. memo' = [memo EXCEPT ![cur.plugin] = [memo[cur.plugin] EXCEPT ![Name] = st]]
        BY DEF Memorize
    <2>. QED
        BY <2>1, <2>2, <2>3
<1>5. pkg[Sec][N] \in {"none", "file", "partial", "whole"}
    BY <1>1 DEF ArchiveTypeOK
<1> USE <1>2, <1>3, <1>4 DEF ArchiveTypeOK, Keep
<1>6. CASE UNCHANGED archiveVars
    BY <1>6 DEF archiveVars
<1>7. CASE TarballHave
    <2>1. UNCHANGED <<file, memo, installed, newest, version>>
        BY <1>7 DEF TarballHave
    <2>2. pkg' = pkg \/ pkg' = Sets(pkg, "none")
        <3>1. CASE file[Sec][Name] = "none"
            BY <1>7, <3>1 DEF TarballHave
        <3>2. CASE file[Sec][Name] # "none" /\ pkg[Sec][Name] = "none"
            BY <1>7, <3>2 DEF TarballHave
        <3>3. CASE file[Sec][Name] # "none" /\ pkg[Sec][Name] = "file"
            BY <1>7, <3>3 DEF TarballHave
        <3>4. CASE file[Sec][Name] # "none" /\ pkg[Sec][Name] \notin {"none", "file"}
            BY <1>7, <3>4 DEF TarballHave
        <3>. QED
            BY <3>1, <3>2, <3>3, <3>4
    <2>. QED
        BY <2>1, <2>2
<1>8. CASE SnapshotHave
    <2>1. UNCHANGED <<file, memo, installed, newest, version>>
        BY <1>8 DEF SnapshotHave
    <2>2. pkg' = pkg \/ pkg' = Sets(pkg, "none")
        <3>1. CASE pkg[Sec][Name] \in {"file", "none"}
            BY <1>8, <3>1 DEF SnapshotHave
        <3>2. CASE pkg[Sec][Name] \notin {"file", "none"}
            BY <1>8, <3>2 DEF SnapshotHave
        <3>. QED
            BY <3>1, <3>2
    <2>. QED
        BY <2>1, <2>2
<1>9. CASE Download
    BY <1>9 DEF Download
<1>10. CASE Untar
    <2>1. UNCHANGED <<file, memo, installed, newest, version>>
        BY <1>10 DEF Untar
    <2>2. \E x \in {"none", "partial", "whole", pkg[Sec][N]} : pkg' = Sets(pkg, x)
        BY <1>10 DEF Untar
    <2>. QED
        BY <2>1, <2>2, <1>5
<1>11. CASE TarballRecord
    BY <1>11 DEF TarballRecord, Recorded
<1>12. CASE SnapshotRecord
    BY <1>12 DEF SnapshotRecord, Recorded
<1>13. CASE Install
    BY <1>13, <1>1 DEF Install
<1>. QED
    BY <1>6, <1>7, <1>8, <1>9, <1>10, <1>11, <1>12, <1>13
       DEF ArchiveNext, NothingAsked, TarballAgain, TarballStart, SnapshotUnreachable,
           SnapshotStart, InstallStart, CheckStart, CheckFind

-----------------------------------------------------------------------------
(* Types                                                                     *)

\* What a new process has.
LEMMA FreshFacts ==
    /\ FreshEnv \in [modules : ModuleEnv, cwd : Place] /\ IsEnv(FreshEnv.modules)
    /\ FreshEnv.cwd = Home
    /\ FreshLog \in [status : {0, 1}, located : BOOLEAN, memo : BOOLEAN]
    /\ NoMemo \in Memo
<1>1. [s \in Section |-> None] \in [Section -> Pairs] /\ None \in Seq(Module)
    BY DEF Pairs, None
<1>2. CleanModules \in ModuleEnv /\ CleanModules.recorded["swap"] = [s \in Section |-> None]
    BY <1>1 DEF CleanModules, ModuleEnv, Operations
<1>3. FreshEnv.modules = [CleanModules EXCEPT !.loaded = Preloaded]
    BY DEF FreshEnv
<1>4. FreshEnv.modules \in ModuleEnv /\ FreshEnv.modules.recorded = CleanModules.recorded
    BY <1>2, <1>3, PluginAssumption DEF ModuleEnv
<1>5. Default \in Wants
    <2>1. MaxTip \in Nat
        BY GitAssumption
    <2>2. /\ Default \in [kind : {"default", "branch", "commit", "pr", "several"},
                          ref : Branch \cup Pull \cup {""}, n : 0 .. MaxTip]
          /\ Default.kind \notin {"branch", "commit", "pr"}
        BY <2>1 DEF Default
    <2>. QED
        BY <2>2 DEF Wants
<1>. QED
    BY <1>1, <1>2, <1>4, <1>5 DEF FreshEnv, IsEnv, Place, FreshLog, NoMemo, Memo

LEMMA InitTypes == Init => TypeOK
<1> SUFFICES ASSUME Init PROVE TypeOK
    OBVIOUS
<1>1. SharedTypeOK
    <2>1. cur \in Requests /\ MaxRuns \in 0 .. MaxRuns
        BY PluginAssumption DEF Init, SharedInit
    <2>. QED
        BY <2>1, FreshFacts DEF Init, SharedInit, SharedTypeOK
<1>2. GitTypeOK
    <2>1. MaxTip \in Nat
        BY GitAssumption
    <2>2. [r \in Branch \cup Pull |-> 0] \in [Branch \cup Pull -> 0 .. MaxTip]
        BY <2>1
    <2>3. \A x \in {"none", "file"} : [Nothing EXCEPT !.is = x] \in Tree
        <3>1. Nothing \in Tree
            <4>1. 0 \in 0 .. MaxTip
                BY <2>1
            <4>. QED
                BY <4>1 DEF Nothing, Tree, Heads
        <3>. QED
            BY <3>1 DEF Tree
    <2>4. cur \in Requests /\ cur.retry \in Nat
        BY <1>1, RequestFacts
    <2>5. tries \in 0 .. cur.retry + 1
        BY <2>4 DEF Init, GitInit
    <2>. QED
        BY <2>2, <2>3, <2>4, <2>5, FreshFacts DEF Init, GitInit, GitTypeOK
<1>3. ArchiveTypeOK
    <2>1. 1 \in DOMAIN Versions
        BY ArchivesAssumption
    <2>. QED
        BY <2>1 DEF Init, ArchiveInit, ArchiveTypeOK
<1>4. pc \in Places /\ struck \in BOOLEAN
    BY DEF Init, SharedInit, Places
<1>. QED
    BY <1>1, <1>2, <1>3, <1>4 DEF TypeOK

LEMMA TypeStep == TypeOK /\ [Next]_vars => TypeOK'
<1> SUFFICES ASSUME TypeOK, [Next]_vars PROVE TypeOK'
    OBVIOUS
<1> USE DEF TypeOK
<1>1. CASE GitNext /\ UNCHANGED archiveVars /\ UNCHANGED struck
    <2>1. ArchiveTypeOK'
        BY <1>1 DEF archiveVars, ArchiveTypeOK
    <2>. QED
        BY <1>1, <2>1, GitShares, GitTypes DEF Shares
<1>2. CASE ArchiveNext /\ UNCHANGED gitVars /\ UNCHANGED struck
    <2>1. GitTypeOK'
        BY <1>2 DEF gitVars, GitTypeOK
    <2>. QED
        BY <1>2, <2>1, ArchiveShares, ArchiveTypes DEF Shares
<1>3. CASE Begin /\ UNCHANGED <<gitVars, archiveVars>> /\ UNCHANGED struck
    <2>1. SharedTypeOK'
        <3>1. left' \in 0 .. MaxRuns
            BY <1>3, PluginAssumption DEF Begin, SharedTypeOK
        <3>. QED
            BY <1>3, <3>1, FreshFacts DEF Begin, SharedTypeOK
    <2>2. GitTypeOK' /\ ArchiveTypeOK'
        BY <1>3 DEF gitVars, archiveVars, GitTypeOK, ArchiveTypeOK
    <2>. QED
        BY <1>3, <2>1, <2>2 DEF Begin, Places
<1>4. CASE GitPush /\ UNCHANGED archiveVars /\ UNCHANGED struck
    <2>1. SharedTypeOK' /\ ArchiveTypeOK' /\ pc' = pc
        BY <1>4 DEF GitPush, shared, archiveVars, SharedTypeOK, ArchiveTypeOK
    <2>2. PICK r \in Moving : tip[r] < MaxTip /\ tip' = [tip EXCEPT ![r] = tip[r] + 1]
        BY <1>4 DEF GitPush
    <2>3. MaxTip \in Nat /\ r \in Branch \cup Pull
        BY GitAssumption
    <2>4. tip' \in [Branch \cup Pull -> 0 .. MaxTip]
        BY <2>2, <2>3 DEF GitTypeOK
    <2>. QED
        BY <1>4, <2>1, <2>4 DEF GitPush, GitTypeOK
<1>5. CASE Publish /\ UNCHANGED gitVars /\ UNCHANGED struck
    <2>1. SharedTypeOK' /\ GitTypeOK' /\ pc' = pc
        BY <1>5 DEF Publish, Keep, shared, gitVars, SharedTypeOK, GitTypeOK
    <2>2. newest' \in DOMAIN Versions
        BY <1>5, ArchivesAssumption DEF Publish, ArchiveTypeOK
    <2>. QED
        BY <1>5, <2>1, <2>2 DEF Publish, Keep, ArchiveTypeOK
<1>6. CASE Strike
    <2>1. Shares /\ pc' \in Places
        BY <1>6, SharesFacts, LeaveFacts DEF Strike, Raise, Places
    <2>2. GitTypeOK'
        <3>1. UNCHANGED <<tip, done, tries>> /\ \E t \in Torn : tree' = [tree EXCEPT ![S] = t]
            BY <1>6 DEF Strike, CutShort, Becomes
        <3>2. tree' \in [Section -> Tree]
            BY <3>1, TreeFacts DEF GitTypeOK
        <3>. QED
            BY <3>1, <3>2 DEF GitTypeOK
    <2>3. ArchiveTypeOK'
        BY <1>6 DEF Strike, archiveVars, ArchiveTypeOK
    <2>. QED
        BY <1>6, <2>1, <2>2, <2>3 DEF Strike, Shares
<1>6a. CASE StrikeMemo
    <2>1. GitTypeOK' /\ ArchiveTypeOK' /\ struck' = TRUE
        BY <1>6a DEF StrikeMemo, gitVars, archiveVars, GitTypeOK, ArchiveTypeOK
    <2>2. UNCHANGED <<env, cur, entry, left>> /\ pc' = "prepare"
        BY <1>6a DEF StrikeMemo, Go
    <2>3. done[S].status \in {0, 1}
        BY RequestFacts DEF GitTypeOK, Memo
    <2>4. log' \in [status : {0, 1}, located : BOOLEAN, memo : BOOLEAN]
        BY <1>6a, <2>3 DEF StrikeMemo, SharedTypeOK
    <2>. QED
        BY <2>1, <2>2, <2>4 DEF SharedTypeOK, Places
<1>7. CASE Restart
    <2>1. Killed
        BY <1>7 DEF Restart
    <2>2. SharedTypeOK' /\ pc' \in Places /\ struck' \in BOOLEAN
        BY <2>1, FreshFacts DEF Killed, SharedTypeOK, Places
    <2>3. GitTypeOK'
        <3>1. tree' = tree \/ \E t \in Torn : tree' = [tree EXCEPT ![S] = t]
            BY <1>7 DEF Restart, Becomes
        <3>2. tree' \in [Section -> Tree]
            BY <3>1, TreeFacts DEF GitTypeOK
        <3>. QED
            BY <2>1, <3>2, FreshFacts DEF Killed, GitTypeOK
    <2>4. ArchiveTypeOK'
        <3>1. Name \in Item /\ Sec \in Section
            BY NameFacts, RequestFacts
        <3>2. /\ file' = file \/ file' = Sets(file, "partial")
              /\ pkg' = pkg \/ pkg' = Sets(pkg, "partial")
            BY <1>7 DEF Restart
        <3>3. /\ file' \in [Section -> [Item -> {"none", "partial", "whole"}]]
              /\ pkg' \in [Section -> [Item -> {"none", "file", "partial", "whole"}]]
            <4>1. /\ Sets(file, "partial") \in [Section -> [Item -> {"none", "partial", "whole"}]]
                  /\ Sets(pkg, "partial") \in [Section -> [Item -> {"none", "file", "partial", "whole"}]]
                BY <3>1 DEF ArchiveTypeOK, Sets
            <4>. QED
                BY <3>2, <4>1 DEF ArchiveTypeOK
        <3>. QED
            BY <2>1, <3>3 DEF Killed, ArchiveTypeOK
    <2>. QED
        BY <2>2, <2>3, <2>4
<1>8. CASE UNCHANGED vars
    BY <1>8 DEF vars, shared, gitVars, archiveVars, SharedTypeOK, GitTypeOK, ArchiveTypeOK
<1>. QED
    BY <1>1, <1>2, <1>3, <1>4, <1>5, <1>6, <1>6a, <1>7, <1>8 DEF Next, Execute, Outside

\* Every variable keeps its type, over sections, restarts and exceptions.
THEOREM SpecTypeOK == Spec => []TypeOK
BY InitTypes, TypeStep, PTL DEF Spec

-----------------------------------------------------------------------------
(* The working directory                                                     *)

\* Until it has gone elsewhere, a plugin is where it was called.
AtHome ==
    pc \in {"start", "lookup", "prepare", "try", "install", "find"}
        => env.cwd = entry.cwd

HomeInv == AtHome /\ ComesHome

\* A step that makes it true: it ends at home, or away from home.
HomeStep ==
    \/ env'.cwd = entry'.cwd
    \/ pc' \notin {"start", "lookup", "prepare", "try", "install", "find", "returned"}
    \/ pc' = "returned" /\ cur'.plugin \in Unpackers /\ log'.status # 0

LEMMA GitHome ==
    ASSUME TypeOK, HomeInv, GitNext
    PROVE  HomeStep
<1> USE DEF HomeStep, HomeInv, AtHome, At, Go, Return, Fail, Raise
<1>0. \A p : Chdir(p) => env'.cwd = p
    BY DEF Chdir, TypeOK, SharedTypeOK
<1>1. CASE GitStart
    <2>1. CASE UNCHANGED env
        BY <1>1, <2>1 DEF GitStart, Apply
    <2>2. CASE Apply(cur.mods, "lookup", "returned")
        BY <1>1, <2>2, ApplyFacts DEF GitStart, TypeOK, Shares
    <2>. QED
        BY <1>1, <2>1, <2>2 DEF GitStart
<1>2. CASE GitRefuse \/ GitRecall \/ GitForget \/ GitPrepare \/ GitGiveUp
    BY <1>2 DEF GitRefuse, GitRecall, GitForget, GitPrepare, GitGiveUp
<1>3. CASE GitTry
    <2>1. CASE Here.is = "file"
        BY <1>0, <1>3, <2>1 DEF GitTry
    <2>2. CASE Here.is = "none"
        BY <1>3, <2>2 DEF GitTry
    <2>3. CASE Here.is \notin {"file", "none"}
        BY <1>3, <2>3 DEF GitTry
    <2>. QED
        BY <2>1, <2>2, <2>3
<1>4. CASE GitInspect \/ GitPull \/ GitWipe
    BY <1>0, <1>4 DEF GitInspect, GitPull, GitWipe, NextTry
<1>5. CASE GitClone \/ GitCheckout
    BY <1>0, <1>5 DEF GitClone, GitCheckout, NextTry
<1>6. CASE GitRecord
    <2>1. env'.cwd = entry.cwd /\ entry' = entry
        BY <1>6 DEF GitRecord
    <2>. QED
        BY <2>1
<1>. QED
    BY <1>1, <1>2, <1>3, <1>4, <1>5, <1>6 DEF GitNext

LEMMA ArchiveHome ==
    ASSUME TypeOK, HomeInv, ArchiveNext
    PROVE  HomeStep
<1> USE DEF HomeStep, HomeInv, AtHome, Plug, Unpacking, Installing, Go, Return, Fail, Raise, Keep
<1>0. \A p : Chdir(p) => env'.cwd = p
    BY DEF Chdir, TypeOK, SharedTypeOK
<1>1. CASE NothingAsked \/ TarballAgain \/ SnapshotUnreachable
    BY <1>1 DEF NothingAsked, TarballAgain, SnapshotUnreachable
<1>2. CASE TarballStart \/ SnapshotStart
    BY <1>2 DEF TarballStart, SnapshotStart
<1>3. CASE TarballHave
    <2>1. pc' \in {"download", "untar", "raised", "record"}
        <3>1. CASE file[Sec][Name] = "none"
            BY <1>3, <3>1 DEF TarballHave
        <3>2. CASE file[Sec][Name] # "none" /\ pkg[Sec][Name] = "none"
            BY <1>3, <3>2 DEF TarballHave
        <3>3. CASE file[Sec][Name] # "none" /\ pkg[Sec][Name] = "file"
            BY <1>3, <3>3 DEF TarballHave
        <3>4. CASE file[Sec][Name] # "none" /\ pkg[Sec][Name] \notin {"none", "file"}
            BY <1>3, <3>4 DEF TarballHave
        <3>. QED
            BY <3>1, <3>2, <3>3, <3>4
    <2>. QED
        BY <2>1
<1>4. CASE SnapshotHave
    <2>1. pc' \in {"download", "raised", "record"}
        <3>1. CASE pkg[Sec][Name] = "file"
            BY <1>4, <3>1 DEF SnapshotHave
        <3>2. CASE pkg[Sec][Name] = "none"
            BY <1>4, <3>2 DEF SnapshotHave
        <3>3. CASE pkg[Sec][Name] \notin {"none", "file"}
            BY <1>4, <3>3 DEF SnapshotHave
        <3>. QED
            BY <3>1, <3>2, <3>3
    <2>. QED
        BY <2>1
<1>5. CASE Download \/ Untar
    <2>1. \/ pc' \in {"untar", "record"}
          \/ pc' = "returned" /\ cur'.plugin \in Unpackers /\ log' = [log EXCEPT !.status = 1]
        BY <1>5 DEF Download, Untar
    <2>. QED
        BY <2>1 DEF TypeOK, SharedTypeOK
<1>6. CASE TarballRecord \/ SnapshotRecord
    <2>1. entry' = entry /\ cur' = cur
        BY <1>6 DEF TarballRecord, SnapshotRecord, Recorded
    <2>2. \/ Chdir(entry.cwd)
          \/ /\ cur.plugin = "FetchTarball" /\ pc' = "returned"
             /\ log' = [log EXCEPT !.status = 1, !.located = TRUE]
        BY <1>6 DEF TarballRecord, SnapshotRecord, Recorded
    <2>3. [log EXCEPT !.status = 1, !.located = TRUE].status = 1
        BY DEF TypeOK, SharedTypeOK
    <2>4. CASE Chdir(entry.cwd)
        BY <1>0, <2>1, <2>4
    <2>5. CASE ~Chdir(entry.cwd)
        <3>1. cur.plugin = "FetchTarball" /\ pc' = "returned" /\ log'.status = 1
            BY <2>2, <2>3, <2>5
        <3>. QED
            BY <2>1, <3>1 DEF Unpackers
    <2>. QED
        BY <2>4, <2>5
<1>7. CASE InstallStart \/ Install
    BY <1>7 DEF InstallStart, Install
<1>8. CASE CheckStart
    <2>1. CASE UNCHANGED env
        BY <1>8, <2>1 DEF CheckStart, Apply
    <2>2. CASE Apply(cur.mods, "find", "returned")
        BY <1>8, <2>2, ApplyFacts DEF CheckStart, TypeOK, Shares
    <2>. QED
        BY <1>8, <2>1, <2>2 DEF CheckStart
<1>9. CASE CheckFind
    <2>1. env'.cwd = env.cwd /\ entry' = entry
        BY <1>9 DEF CheckFind, TypeOK, SharedTypeOK
    <2>. QED
        BY <1>9, <2>1 DEF CheckFind
<1>. QED
    BY <1>1, <1>2, <1>3, <1>4, <1>5, <1>6, <1>7, <1>8, <1>9 DEF ArchiveNext

\* A plugin that comes back has brought mtt back to its directory, but for the
\* failures of those that unpack archives.
THEOREM SpecComesHome == Spec => []ComesHome
<1>1. Init => HomeInv
    BY DEF Init, SharedInit, HomeInv, AtHome, ComesHome
<1>2. TypeOK /\ HomeInv /\ [Next]_vars => HomeInv'
    <2> SUFFICES ASSUME TypeOK, HomeInv, [Next]_vars PROVE HomeInv'
        OBVIOUS
    <2>1. HomeStep => HomeInv'
        BY DEF HomeStep, HomeInv, AtHome, ComesHome
    <2>2. CASE Execute
        BY <2>1, <2>2, GitHome, ArchiveHome DEF Execute
    <2>3. CASE Begin \/ Strike \/ StrikeMemo \/ Killed
        <3>1. HomeStep
            BY <2>3 DEF HomeStep, HomeInv, AtHome, At, Begin, Strike, StrikeMemo, Raise, Go, Killed
        <3>. QED
            BY <2>1, <3>1
    <2>4. CASE UNCHANGED shared
        BY <2>4 DEF shared, HomeInv, AtHome, ComesHome
    <2>. QED
        BY <2>2, <2>3, <2>4 DEF Next, Outside, Restart, GitPush, Publish, Keep, vars
<1>. QED
    BY <1>1, <1>2, SpecTypeOK, PTL DEF Spec, HomeInv

-----------------------------------------------------------------------------
(* What is remembered                                                        *)

\* A package that is remembered as installed is installed.
THEOREM SpecInstalledIsTrue == Spec => []InstalledIsTrue
<1>1. Init => InstalledIsTrue
    BY DEF Init, ArchiveInit, InstalledIsTrue, Memoizers, Unset
<1>2. TypeOK /\ InstalledIsTrue /\ [Next]_vars => InstalledIsTrue'
    <2> SUFFICES ASSUME TypeOK, InstalledIsTrue, [Next]_vars PROVE InstalledIsTrue'
        OBVIOUS
    <2>1. memo \in [Memoizers -> [Item -> {Unset, 0, 1}]] /\ Name \in Item
        BY NameFacts DEF TypeOK, ArchiveTypeOK
    <2>2. CASE UNCHANGED <<memo, installed>>
        BY <2>2 DEF InstalledIsTrue
    <2>3. CASE TarballRecord \/ SnapshotRecord
        <3>1. /\ cur.plugin \in Unpackers /\ installed' = installed
              /\ memo' = [memo EXCEPT ![cur.plugin][Name] = 0]
            BY <2>3 DEF TarballRecord, SnapshotRecord, Recorded, Memorize, Plug, Keep, Unpackers
        <3>2. \A p \in {"FetchRPM", "Pip"} : memo'[p] = memo[p]
            BY <2>1, <3>1 DEF Unpackers, Memoizers
        <3>. QED
            BY <3>1, <3>2 DEF InstalledIsTrue
    <2>4. CASE Install
        <3>1. \/ UNCHANGED <<memo, installed>>
              \/ /\ installed' = installed \cup {Name}
                 /\ \E st \in {0, 1} : memo' = [memo EXCEPT ![cur.plugin][Name] = st]
            BY <2>4 DEF Install, Memorize, Keep
        <3>2. ASSUME NEW st \in {0, 1}, memo' = [memo EXCEPT ![cur.plugin][Name] = st],
                     installed' = installed \cup {Name}
              PROVE  InstalledIsTrue'
            <4> SUFFICES ASSUME NEW p \in {"FetchRPM", "Pip"}, NEW i \in Item, memo'[p][i] = 0
                         PROVE  i \in installed'
                BY DEF InstalledIsTrue
            <4>1. memo'[p][i] = memo[p][i] \/ i = Name
                BY <2>1, <3>2 DEF Memoizers
            <4>. QED
                BY <3>2, <4>1 DEF InstalledIsTrue
        <3>. QED
            BY <2>2, <3>1, <3>2
    <2>5. CASE Killed
        BY <2>5 DEF Killed, InstalledIsTrue, Memoizers, Unset
    <2>6. CASE GitNext /\ UNCHANGED archiveVars
        BY <2>2, <2>6 DEF archiveVars
    <2>7. CASE ArchiveNext
        <3>1. CASE TarballHave
            BY <2>2, <3>1 DEF TarballHave, Keep
        <3>2. CASE SnapshotHave
            BY <2>2, <3>2 DEF SnapshotHave, Keep
        <3>3. CASE Download \/ Untar
            BY <2>2, <3>3 DEF Download, Untar, Keep
        <3>4. CASE UNCHANGED archiveVars
            BY <2>2, <3>4 DEF archiveVars
        <3>. QED
            BY <2>3, <2>4, <2>7, <3>1, <3>2, <3>3, <3>4
               DEF ArchiveNext, NothingAsked, TarballAgain, TarballStart,
                   SnapshotUnreachable, SnapshotStart, InstallStart, CheckStart, CheckFind, Keep
    <2>8. CASE Outside \/ Strike \/ StrikeMemo \/ UNCHANGED vars
        <3>1. UNCHANGED <<memo, installed>>
            BY <2>8 DEF Outside, Strike, StrikeMemo, vars, archiveVars, Publish, Keep
        <3>. QED
            BY <2>2, <3>1
    <2>. QED
        BY <2>5, <2>6, <2>7, <2>8 DEF Next, Execute, Restart
<1>. QED
    BY <1>1, <1>2, SpecTypeOK, PTL DEF Spec

\* What a step does to the clones, the memos and the remote repository.
LEMMA StepFacts ==
    ASSUME [Next]_vars
    PROVE  \/ GitNext /\ UNCHANGED struck
           \/ GitPush /\ UNCHANGED struck
           \/ Restart
           \/ UNCHANGED gitVars /\ (ArchiveNext \/ Begin \/ Publish) /\ UNCHANGED struck
           \/ Strike /\ CutShort
           \/ UNCHANGED gitVars /\ StrikeMemo
           \/ UNCHANGED vars
BY DEF Next, Execute, Outside, Strike, StrikeMemo

\* The other plugins have places of their own.
LEMMA ArchivePlaces ==
    ASSUME ArchiveNext
    PROVE  /\ pc' \in {"returned", "raised", "have", "download", "untar", "record",
                       "install", "find"}
           /\ cur.plugin # "Git"
<1> USE DEF Go, Return, Fail, Raise, Plug, Unpacking, Installing, Unpackers, Memoizers
<1>1. CASE TarballHave
    <2>1. CASE file[Sec][Name] = "none"
        BY <1>1, <2>1 DEF TarballHave
    <2>2. CASE file[Sec][Name] # "none" /\ pkg[Sec][Name] = "none"
        BY <1>1, <2>2 DEF TarballHave
    <2>3. CASE file[Sec][Name] # "none" /\ pkg[Sec][Name] = "file"
        BY <1>1, <2>3 DEF TarballHave
    <2>4. CASE file[Sec][Name] # "none" /\ pkg[Sec][Name] \notin {"none", "file"}
        BY <1>1, <2>4 DEF TarballHave
    <2>. QED
        BY <2>1, <2>2, <2>3, <2>4
<1>2. CASE SnapshotHave
    <2>1. CASE pkg[Sec][Name] = "file"
        BY <1>2, <2>1 DEF SnapshotHave
    <2>2. CASE pkg[Sec][Name] = "none"
        BY <1>2, <2>2 DEF SnapshotHave
    <2>3. CASE pkg[Sec][Name] \notin {"none", "file"}
        BY <1>2, <2>3 DEF SnapshotHave
    <2>. QED
        BY <2>1, <2>2, <2>3
<1>3. CASE CheckStart
    BY <1>3 DEF CheckStart, Apply
<1>4. CASE NothingAsked \/ TarballAgain \/ TarballStart \/ SnapshotUnreachable \/ SnapshotStart
    BY <1>4 DEF NothingAsked, TarballAgain, TarballStart, SnapshotUnreachable, SnapshotStart
<1>5. CASE Download \/ Untar \/ TarballRecord \/ SnapshotRecord
    BY <1>5 DEF Download, Untar, TarballRecord, SnapshotRecord, Recorded
<1>6. CASE InstallStart \/ Install \/ CheckFind
    BY <1>6 DEF InstallStart, Install, CheckFind
<1>. QED
    BY <1>1, <1>2, <1>3, <1>4, <1>5, <1>6 DEF ArchiveNext

\* What Git does, it does to the section that it is called for.
LEMMA GitOthers ==
    ASSUME TypeOK, GitNext, NEW s \in Section, s # S
    PROVE  done'[s] = done[s] /\ tree'[s] = tree[s]
<1>1. \A t : Becomes(t) => tree'[s] = tree[s]
    BY RequestFacts DEF TypeOK, GitTypeOK, Becomes
<1>2. \A st : Remember(st) => done'[s] = done[s]
    BY RequestFacts DEF TypeOK, GitTypeOK, Remember
<1>3. CASE UNCHANGED <<tree, done>>
    BY <1>3
<1>4. CASE GitTry
    <2>1. tree' = tree /\ (done' = done \/ Remember(1))
        <3>1. CASE Here.is = "file"
            BY <1>4, <3>1 DEF GitTry
        <3>2. CASE Here.is = "none"
            BY <1>4, <3>2 DEF GitTry
        <3>3. CASE Here.is \notin {"file", "none"}
            BY <1>4, <3>3 DEF GitTry
        <3>. QED
            BY <3>1, <3>2, <3>3
    <2>. QED
        BY <1>2, <2>1
<1>5. CASE GitPull \/ GitWipe
    BY <1>1, <1>5 DEF GitPull, GitWipe
<1>6. CASE GitClone
    BY <1>1, <1>2, <1>6 DEF GitClone
<1>7. CASE GitCheckout
    BY <1>1, <1>2, <1>7 DEF GitCheckout
<1>8. CASE GitRecord
    BY <1>2, <1>8 DEF GitRecord
<1>. QED
    BY <1>3, <1>4, <1>5, <1>6, <1>7, <1>8
       DEF GitNext, GitStart, GitRefuse, GitRecall, GitForget, GitPrepare, GitGiveUp,
           GitInspect, gitVars

\* A failure that is remembered sticks: the section's clone is not touched
\* again, and Git does not even begin to, as long as mtt lives and nothing has
\* interrupted it.
THEOREM SpecFailureSticks == Spec => FailureSticks
<1>1. TypeOK /\ [Next]_vars
        => [\A s \in Section : Stuck(s) =>
                \/ /\ done'[s] = done[s] /\ tree'[s] = tree[s]
                   /\ cur'.section = s /\ pc' = "prepare" => struck'
                \/ done' = [r \in Section |-> NoMemo] /\ pc' = "idle"]_vars
    <2> SUFFICES ASSUME TypeOK, Next, vars' # vars, NEW s \in Section, Stuck(s)
                 PROVE  \/ /\ done'[s] = done[s] /\ tree'[s] = tree[s]
                           /\ cur'.section = s /\ pc' = "prepare" => struck'
                        \/ done' = [r \in Section |-> NoMemo] /\ pc' = "idle"
        OBVIOUS
    <2>1. CASE GitNext
        <3>1. cur' = cur
            BY <2>1, GitShares DEF TypeOK, Shares
        <3>2. CASE s # S
            BY <2>1, <3>1, <3>2, GitOthers DEF S
        <3>3. CASE s = S
            <4>1. ~(cur.plugin = "Git" /\ pc \in {"try", "inspect", "pull", "wipe", "clone",
                       "reclone", "checkout", "recheckout", "record"})
                BY <3>3 DEF Stuck, Working, S
            <4>2. GitStart \/ GitRefuse \/ GitRecall \/ GitForget \/ GitPrepare
                BY <2>1, <4>1 DEF GitNext, At, GitGiveUp, GitTry, GitInspect,
                      GitPull, GitWipe, GitClone, GitCheckout, GitRecord
            <4>3. UNCHANGED <<tree, done>>
                BY <4>2 DEF GitStart, GitRefuse, GitRecall, GitForget, GitPrepare, gitVars
            <4>4. done[S].known /\ done[S].status # 0
                BY <3>3 DEF Stuck
            <4>5. pc' # "prepare"
                BY <4>2, <4>4 DEF GitStart, GitRefuse, GitRecall, GitForget, GitPrepare,
                      Apply, Raise, Fail, Return, Go
            <4>. QED
                BY <4>3, <4>5
        <3>. QED
            BY <3>2, <3>3
    <2>2. CASE Restart
        BY <2>2 DEF Restart, Killed
    <2>3. CASE Strike /\ CutShort
        <3>1. done' = done /\ pc' = "raised"
            BY <2>3 DEF Strike, CutShort, Raise, Go
        <3>2. tree'[s] = tree[s]
            <4>1. PICK t \in Torn : tree' = [tree EXCEPT ![S] = t]
                BY <2>3 DEF CutShort, Becomes
            <4>2. s = S => t = Here
                BY DEF Torn, Stuck, Working, At, S
            <4>. QED
                BY <4>1, <4>2, RequestFacts DEF TypeOK, GitTypeOK, Here
        <3>. QED
            BY <3>1, <3>2
    <2>4. CASE StrikeMemo /\ UNCHANGED gitVars
        BY <2>4 DEF StrikeMemo, gitVars
    <2>5. CASE ~GitNext /\ ~Restart /\ ~Strike /\ ~StrikeMemo
        <3>1. done' = done /\ tree' = tree
            BY <2>5, StepFacts DEF GitPush, gitVars, vars
        <3>2. pc' # "prepare"
            BY <2>5, StepFacts, ArchivePlaces
               DEF GitPush, AtRest, shared, Begin, Publish, Plug, Keep, Go
        <3>. QED
            BY <3>1, <3>2
    <2>. QED
        BY <2>1, <2>2, <2>3, <2>4, <2>5 DEF Strike, StrikeMemo
<1>. QED
    BY <1>1, SpecTypeOK, PTL DEF Spec, FailureSticks

-----------------------------------------------------------------------------
(* What git delivers                                                         *)

\* A clone on a branch is on a line that the remote repository has.
Lined(t, to) ==
    t.is = "clone" /\ t.head \in Branch => t.ref = t.head /\ t.at <= to[t.head]

LineInv == \A s \in Section : Lined(tree[s], tip)

\* The places of commits are numbers.
LEMMA Numbers ==
    ASSUME TypeOK
    PROVE  /\ \A t \in Tree : t.at \in Nat
           /\ \A w \in Wants : w.n \in Nat
           /\ \A r \in Branch \cup Pull : tip[r] \in Nat
           /\ Here \in Tree /\ Here.at \in Nat /\ Want.n \in Nat
<1>1. MaxTip \in Nat
    BY GitAssumption
<1>2. 0 .. MaxTip \subseteq Nat
    BY <1>1
<1>3. Here \in Tree /\ Want \in Wants
    BY RequestFacts DEF TypeOK, GitTypeOK, Here
<1>4. \A t \in Tree : t.at \in 0 .. MaxTip
    BY DEF Tree
<1>5. \A w \in Wants : w.n \in 0 .. MaxTip
    BY DEF Wants
<1>6. \A r \in Branch \cup Pull : tip[r] \in 0 .. MaxTip
    BY DEF TypeOK, GitTypeOK
<1>. QED
    BY <1>2, <1>3, <1>4, <1>5, <1>6

LEMMA LineFacts ==
    ASSUME TypeOK
    PROVE  /\ Lined(Nothing, tip) /\ Lined(Partial, tip) /\ Lined(Cloned, tip)
           /\ \A r, n : Lined(Clone("detached", r, n, TRUE), tip)
           /\ \A r \in Pull : \A n : Lined(Clone(r, r, n, TRUE), tip)
<1>1. "detached" \notin Branch /\ Branch \cap Pull = {} /\ Main \in Branch
    BY GitAssumption
<1>2. \A b \in Branch : tip[b] <= tip[b]
    BY DEF TypeOK, GitTypeOK
<1>3. Cloned \in {Clone(Want.ref, Want.ref, tip[Want.ref], TRUE)}
      \/ \E x \in BOOLEAN : Cloned = Clone(Main, Main, tip[Main], x)
    BY DEF Cloned
<1>. QED
    BY <1>1, <1>2, <1>3 DEF Lined, Nothing, Partial, Clone

\* What a step leaves that fails or is cut short is on the same line.
LEMMA TornLined ==
    ASSUME TypeOK, LineInv
    PROVE  \A t \in Torn : Lined(t, tip)
<1>1. Here \in Tree /\ Cloned \in Tree /\ Lined(Here, tip) /\ Lined(Cloned, tip) /\ Lined(Partial, tip)
    <2>1. Here \in Tree /\ Cloned \in Tree
        BY TreeFacts DEF TypeOK
    <2>2. Lined(Here, tip)
        BY RequestFacts DEF TypeOK, LineInv, Here
    <2>. QED
        BY <2>1, <2>2, LineFacts
<1>2. \A t \in Tree : Lined(t, tip) => Lined([t EXCEPT !.files = FALSE], tip)
    BY DEF Lined, Tree
<1>. QED
    BY <1>1, <1>2, TornAmong

LEMMA LineStep ==
    ASSUME TypeOK, LineInv, [Next]_vars
    PROVE  LineInv'
<1>1. tree \in [Section -> Tree] /\ S \in Section /\ tip \in [Branch \cup Pull -> 0 .. MaxTip]
    BY RequestFacts DEF TypeOK, GitTypeOK
<1>2. ASSUME tip' = tip, NEW t, Lined(t, tip), tree' = [tree EXCEPT ![S] = t]
      PROVE  LineInv'
    BY <1>1, <1>2 DEF LineInv
<1>3. CASE UNCHANGED <<tree, tip>>
    BY <1>3 DEF LineInv
<1>3a. CASE (\E t \in Torn : Becomes(t)) /\ tip' = tip
    BY <1>2, <1>3a, TornLined DEF Becomes
<1>4. CASE GitPull
    <2>1. CASE \E t \in Torn : Becomes(t)
        BY <1>3a, <1>4, <2>1 DEF GitPull, NextTry
    <2>2. CASE Here.head \in Branch /\ tree' = [tree EXCEPT ![S] = [Here EXCEPT !.at = tip[Here.head]]]
        <3>1. Lined([Here EXCEPT !.at = tip[Here.head]], tip)
            <4>1. Lined(Here, tip) /\ Here \in Tree
                BY <1>1 DEF LineInv, Here
            <4>2. tip[Here.head] <= tip[Here.head]
                BY <1>1, <2>2
            <4>. QED
                BY <4>1, <4>2 DEF Lined, Tree
        <3>2. tip' = tip
            BY <1>4 DEF GitPull, NextTry
        <3>. QED
            BY <1>2, <2>2, <3>1, <3>2
    <2>. QED
        BY <1>4, <2>1, <2>2 DEF GitPull, Becomes
<1>5. CASE GitWipe \/ GitClone
    <2>1. tip' = tip /\ \E t \in {Nothing, Cloned} \cup Torn : tree' = [tree EXCEPT ![S] = t]
        BY <1>5 DEF GitWipe, GitClone, Becomes, NextTry
    <2>. QED
        BY <1>2, <2>1, LineFacts, TornLined
<1>6. CASE GitCheckout
    <2>1. /\ tip' = tip
          /\ \/ \E t \in Torn : Becomes(t)
             \/ tree' = [tree EXCEPT ![S] = IF Want.kind = "pr"
                    THEN Clone(Want.ref, Want.ref, tip[Want.ref], TRUE)
                    ELSE Clone("detached", Want.ref, Want.n, TRUE)]
        BY <1>6 DEF GitCheckout, Becomes, NextTry
    <2>2. Want.kind = "pr" => Want.ref \in Pull
        BY RequestFacts DEF TypeOK
    <2>. QED
        BY <1>2, <1>3a, <2>1, <2>2, LineFacts
<1>7. CASE GitPush
    <2>1. PICK r \in Moving : tip' = [tip EXCEPT ![r] = tip[r] + 1]
        BY <1>7 DEF GitPush
    <2>2. \A b \in Branch : tip[b] \in Nat /\ tip'[b] \in Nat /\ tip[b] <= tip'[b]
        <3>1. \A b \in Branch : tip[b] \in Nat
            BY Numbers
        <3>2. \A b \in Branch : tip'[b] = tip[b] \/ tip'[b] = tip[b] + 1
            BY <1>1, <2>1
        <3>. QED
            BY <3>1, <3>2
    <2>3. ASSUME NEW t \in Tree, Lined(t, tip) PROVE Lined(t, tip')
        <3>1. t.at \in Nat
            BY Numbers
        <3>. QED
            BY <2>2, <2>3, <3>1 DEF Lined
    <2>. QED
        BY <1>1, <1>7, <2>3 DEF GitPush, LineInv
<1>8. CASE Restart
    <2>1. tip' = tip /\ (tree' = tree \/ \E t \in Torn : Becomes(t))
        BY <1>8 DEF Restart, Killed
    <2>. QED
        BY <1>3, <1>3a, <2>1
<1>8a. CASE Strike /\ CutShort
    BY <1>3a, <1>8a DEF CutShort
<1>8b. CASE UNCHANGED gitVars
    BY <1>3, <1>8b DEF gitVars
<1>9. CASE GitTry \/ GitInspect \/ GitRecord
    BY <1>3, <1>9 DEF GitTry, GitInspect, GitRecord, NextTry
<1>. QED
    BY <1>3, <1>4, <1>5, <1>6, <1>7, <1>8, <1>8a, <1>8b, <1>9, StepFacts
       DEF GitNext, GitStart, GitRefuse, GitRecall, GitForget, GitPrepare, GitGiveUp,
           gitVars, vars

\* What Git knows at the places of its execute().
PlaceInv ==
    /\ At("inspect") => Here.is # "none" /\ Want.kind # "pr"
    /\ At("pull") \/ At("record") => Has(Want, Here)
    /\ At("checkout") \/ At("recheckout") => Want.kind \in {"commit", "pr"}
    /\ At("try") /\ log.status = 0 => tries = 0

DeliverInv == PlaceInv /\ Delivered

\* An attempt that failed, and a call that did.
LEMMA FailedStep ==
    ASSUME TypeOK, log'.status # 0, pc' \in {"try", "returned"}
    PROVE  DeliverInv'
BY DEF DeliverInv, PlaceInv, Delivered, Succeeded, At

\* Places at which nothing is known.
LEMMA BlankStep ==
    ASSUME pc' \notin {"inspect", "pull", "record", "checkout", "recheckout", "try", "returned"}
    PROVE  DeliverInv'
BY DEF DeliverInv, PlaceInv, Delivered, Succeeded, At

LEMMA RecordStep ==
    ASSUME pc' \in {"pull", "record"}, Has(Want, Here)'
    PROVE  DeliverInv'
BY DEF DeliverInv, PlaceInv, Delivered, Succeeded, At

LEMMA GitDelivers ==
    ASSUME TypeOK, LineInv, DeliverInv, GitNext
    PROVE  DeliverInv'
<1>0. /\ cur' = cur /\ S' = S /\ Want' = Want /\ S \in Section
      /\ log \in [status : {0, 1}, located : BOOLEAN, memo : BOOLEAN]
      /\ tree \in [Section -> Tree]
    BY GitShares, RequestFacts DEF TypeOK, SharedTypeOK, GitTypeOK, Shares, S, Want
<1>1. [log EXCEPT !.status = 1].status # 0
    BY <1>0
<1>2. \A t : Becomes(t) => Here' = t
    BY <1>0 DEF Becomes, Here
<1>3. tree' = tree => Here' = Here /\ (Has(Want, Here) => Has(Want, Here)')
    <2>1. tree' = tree => Here' = Here
        BY <1>0 DEF Here
    <2>. QED
        BY <1>0, <2>1 DEF Has
<1>4. NextTry => DeliverInv'
    BY <1>1, FailedStep DEF NextTry, Go
<1>4a. Suits /\ Want.kind = "branch" => Here.head = Want.ref \/ Here.head \in PassFor(Want.ref)
    BY TreeFacts DEF Suits, PassFor, Tree, TypeOK
<1>5. Fail => DeliverInv'
    BY <1>1, FailedStep DEF Fail, Return, Go
<1>6. CASE GitStart
    <2>1. CASE Apply(cur.mods, "lookup", "returned")
        <3>1. PICK o \in ApplyModules(cur.section, cur.mods, env.modules) :
                  /\ log' = [log EXCEPT !.status = o[2]]
                  /\ pc' = IF o[2] = 0 THEN "lookup" ELSE "returned"
            BY <2>1 DEF Apply, Go
        <3>2. log'.status = o[2]
            BY <1>0, <3>1
        <3>. QED
            BY <3>1, <3>2, BlankStep, FailedStep
    <2>2. CASE Raise
        BY <2>2, BlankStep DEF Raise, Go
    <2>. QED
        BY <1>5, <1>6, <2>1, <2>2 DEF GitStart
<1>7. CASE GitRefuse
    BY <1>5, <1>7 DEF GitRefuse
<1>8. CASE GitRecall
    <2>1. CASE log' = [status |-> 1, located |-> TRUE, memo |-> TRUE] /\ Return
        BY <2>1, FailedStep DEF Return, Go
    <2>2. CASE pc' = "prepare"
        BY <2>2, BlankStep
    <2>3. CASE log' = [status |-> 0, located |-> TRUE, memo |-> SameWant] /\ SameWant /\ Return
        <3>1. pc' = "returned" /\ log'.memo
            BY <2>3 DEF Return, Go
        <3>. QED
            BY <3>1 DEF DeliverInv, PlaceInv, Delivered, Succeeded, At
    <2>. QED
        BY <1>5, <1>8, <2>1, <2>2, <2>3 DEF GitRecall, Go
<1>9. CASE GitForget
    BY <1>9, BlankStep DEF GitForget, Go
<1>10. CASE GitPrepare
    <2>1. CASE tries' = 0 /\ pc' = "try"
        BY <2>1 DEF DeliverInv, PlaceInv, Delivered, Succeeded, At
    <2>. QED
        BY <1>5, <1>10, <2>1 DEF GitPrepare, Go
<1>11. CASE GitGiveUp
    <2>1. log.status # 0
        <3>1. tries > cur.retry /\ cur.retry \in Nat /\ tries # 0
            BY <1>11, RequestFacts DEF GitGiveUp, TypeOK
        <3>. QED
            BY <1>11, <3>1 DEF GitGiveUp, DeliverInv, PlaceInv
    <2>. QED
        BY <1>11, <2>1, FailedStep DEF GitGiveUp, Return, Go
<1>12. CASE GitTry
    <2>1. CASE Here.is = "file"
        BY <1>1, <1>12, <2>1, FailedStep DEF GitTry, Go
    <2>2. CASE Here.is = "none"
        BY <1>12, <2>2, BlankStep DEF GitTry, Go
    <2>3. CASE Here.is \notin {"file", "none"}
        <3>1. /\ tree' = tree
              /\ pc' = "wipe" \/ (pc' = "inspect" /\ Want.kind # "pr")
            BY <1>12, <2>3 DEF GitTry, Go
        <3>2. CASE pc' = "inspect"
            BY <1>0, <1>3, <2>3, <3>1, <3>2
               DEF DeliverInv, PlaceInv, Delivered, Succeeded, At
        <3>. QED
            BY <3>1, <3>2, BlankStep
    <2>. QED
        BY <2>1, <2>2, <2>3
<1>13. CASE GitInspect
    <2>1. Here.is # "none" /\ Want.kind # "pr" /\ tree' = tree
        BY <1>13 DEF GitInspect, DeliverInv, PlaceInv
    <2>2. CASE Suits /\ (Here.is = "clone" \/ Want.kind = "default") /\ pc' \in {"pull", "record"}
        <3>1. Has(Want, Here)
            <4>1. Want.kind = "commit" => Here.at >= Want.n
                <5>1. Here.at \in Nat
                    BY Numbers
                <5>. QED
                    BY <2>2, <5>1 DEF Suits
            <4>. QED
                BY <1>4a, <2>1, <2>2, <4>1 DEF Has, Suits
        <3>. QED
            BY <1>3, <2>1, <2>2, <3>1, RecordStep
    <2>3. CASE pc' = "wipe"
        BY <2>3, BlankStep
    <2>. QED
        BY <1>4, <1>13, <2>2, <2>3 DEF GitInspect, Go
<1>14. CASE GitPull
    <2>1. Has(Want, Here)
        BY <1>14 DEF GitPull, DeliverInv, PlaceInv
    <2>2. CASE Here.head \in Branch /\ Becomes([Here EXCEPT !.at = tip[Here.head]]) /\ pc' = "record"
        <3>1. Here' = [Here EXCEPT !.at = tip[Here.head]] /\ Here \in Tree
            BY <1>0, <1>2, <2>2 DEF Here
        <3>2. /\ Here'.is = Here.is /\ Here'.head = Here.head /\ Here'.ref = Here.ref
              /\ Here'.files = Here.files /\ Here'.at = tip[Here.head]
            BY <3>1 DEF Tree
        <3>3. Here.head # "detached"
            BY <2>2, GitAssumption
        <3>4. Want.kind = "commit" => tip[Here.head] >= Want.n
            <4>1. Here.is = "clone" => Here.at <= tip[Here.head]
                BY <1>0, <2>2 DEF LineInv, Lined, Here
            <4>2. Here.at \in Int /\ tip[Here.head] \in Int /\ Want.n \in Int
                BY <2>2, Numbers
            <4>. QED
                BY <2>1, <4>1, <4>2 DEF Has
        <3>5. Has(Want, Here)'
            BY <1>0, <2>1, <3>2, <3>3, <3>4 DEF Has
        <3>. QED
            BY <2>2, <3>5, RecordStep
    <2>. QED
        BY <1>4, <1>14, <2>2 DEF GitPull, Go
<1>15. CASE GitWipe
    BY <1>15, BlankStep DEF GitWipe, Go
<1>16. CASE GitClone
    <2>1. CASE Becomes(Cloned) /\ pc' = "record" /\ Want.kind \notin {"commit", "pr"}
        <3>1. Here' = Cloned
            BY <1>2, <2>1
        <3>2. Cloned.is = "clone" /\ (Want.kind = "branch" => Cloned.head = Want.ref)
            BY DEF Cloned, Clone
        <3>3. Has(Want, Here)'
            BY <1>0, <2>1, <3>1, <3>2 DEF Has
        <3>. QED
            BY <2>1, <3>3, RecordStep
    <2>2. CASE pc' \in {"checkout", "recheckout"} /\ Want.kind \in {"commit", "pr"}
        BY <1>0, <2>2 DEF DeliverInv, PlaceInv, Delivered, Succeeded, At
    <2>. QED
        BY <1>4, <1>16, <2>1, <2>2 DEF GitClone, Go
<1>17. CASE GitCheckout
    <2>1. CASE /\ pc' = "record"
               /\ Becomes(IF Want.kind = "pr"
                          THEN Clone(Want.ref, Want.ref, tip[Want.ref], TRUE)
                          ELSE Clone("detached", Want.ref, Want.n, TRUE))
        <3>1. Want.kind \in {"commit", "pr"}
            BY <1>17 DEF GitCheckout, DeliverInv, PlaceInv
        <3>2. Want.kind = "pr" => Here' = Clone(Want.ref, Want.ref, tip[Want.ref], TRUE)
            BY <1>2, <2>1
        <3>3. Want.kind = "commit" => Here' = Clone("detached", Want.ref, Want.n, TRUE)
            BY <1>2, <2>1
        <3>4. Want.n >= Want.n
            BY Numbers
        <3>5. Has(Want, Here)'
            BY <1>0, <3>1, <3>2, <3>3, <3>4 DEF Has, Clone
        <3>. QED
            BY <2>1, <3>5, RecordStep
    <2>. QED
        BY <1>4, <1>17, <2>1 DEF GitCheckout, Go
<1>18. CASE GitRecord
    <2>1. Has(Want, Here)' /\ tree' = tree
        BY <1>3, <1>18 DEF GitRecord, DeliverInv, PlaceInv
    <2>2. \/ pc' = "returned"
          \/ pc' = "try" /\ log'.status # 0
        <3>1. PICK o \in RevertModules(S, env.modules) :
                  \/ log' = [log EXCEPT !.status = 1, !.located = TRUE] /\ pc' = "try"
                  \/ /\ log' = [log EXCEPT !.status = o[2], !.located = TRUE]
                     /\ pc' = IF o[2] = 0 THEN "returned" ELSE "try"
            BY <1>18 DEF GitRecord, Go
        <3>2. /\ [log EXCEPT !.status = 1, !.located = TRUE].status = 1
              /\ [log EXCEPT !.status = o[2], !.located = TRUE].status = o[2]
            BY <1>0
        <3>3. CASE log' = [log EXCEPT !.status = 1, !.located = TRUE] /\ pc' = "try"
            BY <3>2, <3>3
        <3>4. CASE /\ log' = [log EXCEPT !.status = o[2], !.located = TRUE]
                   /\ pc' = IF o[2] = 0 THEN "returned" ELSE "try"
            BY <3>2, <3>4
        <3>. QED
            BY <3>1, <3>3, <3>4
    <2>3. CASE pc' = "returned"
        BY <1>0, <2>1, <2>3 DEF DeliverInv, PlaceInv, Delivered, Succeeded, At
    <2>. QED
        BY <2>2, <2>3, FailedStep
<1>. QED
    BY <1>6, <1>7, <1>8, <1>9, <1>10, <1>11, <1>12, <1>13, <1>14, <1>15, <1>16, <1>17, <1>18
       DEF GitNext

LEMMA DeliverStep ==
    ASSUME TypeOK, LineInv, DeliverInv, [Next]_vars
    PROVE  DeliverInv'
<1>1. CASE ArchiveNext
    <2>1. cur' = cur /\ cur.plugin # "Git"
        BY <1>1, ArchiveShares, ArchivePlaces DEF TypeOK, Shares
    <2>. QED
        BY <2>1 DEF DeliverInv, PlaceInv, Delivered, Succeeded, At
<1>2. CASE Begin \/ Strike \/ StrikeMemo \/ Restart
    BY <1>2, BlankStep DEF Begin, Strike, StrikeMemo, Raise, Go, Restart, Killed
<1>3. CASE UNCHANGED <<shared, tree, tries>>
    BY <1>3 DEF shared, DeliverInv, PlaceInv, Delivered, Succeeded, At, Has, Want, Here, S
<1>4. CASE GitPush
    <2>1. UNCHANGED <<shared, tree>> /\ AtRest
        BY <1>4 DEF GitPush
    <2>. QED
        BY <2>1 DEF AtRest, shared, DeliverInv, PlaceInv, Delivered, Succeeded, At, Has, Want, Here, S
<1>. QED
    BY <1>1, <1>2, <1>3, <1>4, GitDelivers, StepFacts DEF Publish, Keep, gitVars, vars

LEMMA SpecDeliverInv == Spec => [](LineInv /\ DeliverInv)
<1>1. Init => LineInv /\ DeliverInv
    <2> SUFFICES ASSUME Init PROVE LineInv /\ DeliverInv
        OBVIOUS
    <2>1. PICK x \in {"none", "file"} : tree = [r \in Section |-> [Nothing EXCEPT !.is = x]]
        BY DEF Init, GitInit
    <2>2. LineInv
        BY <2>1 DEF LineInv, Lined, Nothing
    <2>3. DeliverInv
        BY DEF Init, SharedInit, DeliverInv, PlaceInv, Delivered, Succeeded, At
    <2>. QED
        BY <2>2, <2>3
<1>2. TypeOK /\ LineInv /\ DeliverInv /\ [Next]_vars => (LineInv /\ DeliverInv)'
    BY LineStep, DeliverStep
<1>. QED
    BY <1>1, <1>2, SpecTypeOK, PTL DEF Spec

\* A Git section that succeeds by its own work leaves what was asked for, in the
\* sense in which the code looks: a branch or one that passes for it, a commit or
\* what was pulled onto it, a pull request with all its files.
THEOREM SpecDelivered == Spec => []Delivered
<1>1. LineInv /\ DeliverInv => Delivered
    BY DEF DeliverInv
<1>. QED
    BY <1>1, SpecDeliverInv, PTL

\* If no head passes for a branch, the branch that is asked for is the branch
\* that is delivered.
THEOREM SpecBranchExact ==
    ASSUME \A b \in Branch : PassFor(b) = {}
    PROVE  Spec => []BranchExact
<1>1. TypeOK /\ Delivered => BranchExact
    BY RequestFacts DEF TypeOK, Delivered, BranchExact, Has
<1>. QED
    BY <1>1, SpecTypeOK, SpecDelivered, PTL

NewestInv == Newest /\ (At("pull") => ~cur.asis)

\* A step that does not come to the pull or to the record.
LEMMA NotRecorded ==
    ASSUME pc' \notin {"pull", "record"} \/ cur'.plugin # "Git"
    PROVE  NewestInv'
BY DEF NewestInv, Newest, At

LEMMA NewestStep ==
    ASSUME TypeOK, DeliverInv, NewestInv, [Next]_vars
    PROVE  NewestInv'
<1>1. CASE GitNext
    <2>0. /\ cur' = cur /\ S' = S /\ Want' = Want /\ S \in Section
          /\ tree \in [Section -> Tree]
        BY <1>1, GitShares, RequestFacts DEF TypeOK, GitTypeOK, Shares, S, Want
    <2>1. \A t : Becomes(t) => Here' = t
        BY <2>0 DEF Becomes, Here
    <2>2. CASE GitStart
        BY <2>2, NotRecorded DEF GitStart, Apply, Raise, Fail, Return, Go
    <2>3. CASE GitRefuse \/ GitRecall \/ GitForget \/ GitPrepare \/ GitGiveUp
        BY <2>3, NotRecorded DEF GitRefuse, GitRecall, GitForget, GitPrepare, GitGiveUp, Fail, Return, Go
    <2>4. CASE GitTry
        <3>1. CASE Here.is = "file"
            BY <2>4, <3>1, NotRecorded DEF GitTry, Go
        <3>2. CASE Here.is = "none"
            BY <2>4, <3>2, NotRecorded DEF GitTry, Go
        <3>3. CASE Here.is \notin {"file", "none"}
            BY <2>4, <3>3, NotRecorded DEF GitTry, Go
        <3>. QED
            BY <3>1, <3>2, <3>3
    <2>5. CASE GitInspect
        <3>1. CASE pc' = "record"
            <4>1. cur.asis /\ Suits /\ tree' = tree /\ Want.kind # "pr"
                BY <2>5, <3>1 DEF GitInspect, NextTry, Go, DeliverInv, PlaceInv
            <4>2. Here' = Here
                BY <2>0, <4>1 DEF Here
            <4>3. Want.kind = "commit" => Here.at = Want.n
                BY <4>1 DEF Suits
            <4>. QED
                BY <2>0, <3>1, <4>1, <4>2, <4>3 DEF NewestInv, Newest, At
        <3>2. CASE pc' = "pull"
            BY <2>0, <2>5, <3>2 DEF GitInspect, NextTry, Go, NewestInv, Newest, At
        <3>. QED
            BY <3>1, <3>2, NotRecorded
    <2>6. CASE GitPull
        <3>1. CASE pc' = "record"
            <4>1. /\ Becomes([Here EXCEPT !.at = tip[Here.head]]) /\ tip' = tip
                  /\ Here \in Tree /\ ~cur.asis
                BY <2>0, <2>6, <3>1 DEF GitPull, NextTry, Go, NewestInv, Here, DeliverInv, PlaceInv
            <4>2. Here'.at = tip[Here.head] /\ Here'.head = Here.head
                BY <2>1, <4>1 DEF Tree
            <4>. QED
                BY <2>0, <3>1, <4>1, <4>2 DEF NewestInv, Newest, At
        <3>. QED
            BY <2>6, <3>1, NotRecorded DEF GitPull, NextTry, Go
    <2>7. CASE GitWipe
        BY <2>7, NotRecorded DEF GitWipe, Go
    <2>8. CASE GitClone
        <3>1. CASE pc' = "record"
            <4>1. Becomes(Cloned) /\ tip' = tip /\ Want.kind \notin {"commit", "pr"}
                BY <2>8, <3>1 DEF GitClone, NextTry, Go
            <4>2. Here' = Cloned /\ Cloned.at = tip[Cloned.head]
                BY <2>1, <4>1 DEF Cloned, Clone
            <4>. QED
                BY <2>0, <3>1, <4>1, <4>2 DEF NewestInv, Newest, At
        <3>. QED
            BY <2>8, <3>1, NotRecorded DEF GitClone, NextTry, Go
    <2>9. CASE GitCheckout
        <3>1. CASE pc' = "record"
            <4>1. /\ tip' = tip /\ Want.kind \in {"commit", "pr"}
                  /\ Becomes(IF Want.kind = "pr"
                             THEN Clone(Want.ref, Want.ref, tip[Want.ref], TRUE)
                             ELSE Clone("detached", Want.ref, Want.n, TRUE))
                BY <2>9, <3>1 DEF GitCheckout, NextTry, Go, DeliverInv, PlaceInv
            <4>2. CASE Want.kind = "pr"
                BY <2>0, <2>1, <3>1, <4>1, <4>2 DEF NewestInv, Newest, At, Clone
            <4>3. CASE Want.kind = "commit"
                BY <2>0, <2>1, <3>1, <4>1, <4>3 DEF NewestInv, Newest, At, Clone
            <4>. QED
                BY <4>1, <4>2, <4>3
        <3>. QED
            BY <2>9, <3>1, NotRecorded DEF GitCheckout, NextTry, Go
    <2>10. CASE GitRecord
        BY <2>10, NotRecorded DEF GitRecord, Go
    <2>. QED
        BY <1>1, <2>2, <2>3, <2>4, <2>5, <2>6, <2>7, <2>8, <2>9, <2>10 DEF GitNext
<1>2. CASE ArchiveNext
    <2>1. cur' = cur /\ cur.plugin # "Git"
        BY <1>2, ArchiveShares, ArchivePlaces DEF TypeOK, Shares
    <2>. QED
        BY <2>1, NotRecorded
<1>3. CASE Begin \/ Strike \/ StrikeMemo \/ Restart
    BY <1>3, NotRecorded DEF Begin, Strike, StrikeMemo, Raise, Go, Restart, Killed
<1>4. CASE GitPush
    <2>1. pc' = pc /\ AtRest
        BY <1>4 DEF GitPush, shared
    <2>. QED
        BY <2>1, NotRecorded DEF AtRest
<1>5. CASE UNCHANGED <<shared, tree, tip>>
    BY <1>5 DEF shared, NewestInv, Newest, At, Want, Here, S
<1>. QED
    BY <1>1, <1>2, <1>3, <1>4, <1>5, StepFacts DEF Publish, Keep, gitVars, vars

\* What Git records is the newest commit of what it was asked for, whatever was
\* there before, unless that is to be left as it is.
THEOREM SpecNewest == Spec => []Newest
<1>1. Init => NewestInv
    BY DEF Init, SharedInit, NewestInv, Newest, At
<1>2. TypeOK /\ (LineInv /\ DeliverInv) /\ NewestInv /\ [Next]_vars => NewestInv'
    BY NewestStep
<1>3. NewestInv => Newest
    BY DEF NewestInv
<1>. QED
    BY <1>1, <1>2, <1>3, SpecTypeOK, SpecDeliverInv, PTL DEF Spec

-----------------------------------------------------------------------------
(* What is remembered of a clone                                             *)

Plain(s) == \A r \in Requests : r.section = s => ~r.subdir

Success(s) == done[s].known /\ done[s].status = 0

\* Git is about to replace the clone, and to remember what became of it.
Changing(s) ==
    cur.plugin = "Git" /\ cur.section = s /\ pc \in {"reclone", "recheckout", "record"}

\* It clones where there was nothing.
Fresh(s) == cur.plugin = "Git" /\ cur.section = s /\ pc \in {"clone", "checkout"}

Kept(s) ==
    /\ Changing(s) \/ (Success(s) => Has(done[s].want, tree[s]))
    /\ Fresh(s) => ~Success(s)

MemoInv == ~struck => \A s \in Section : Plain(s) => Kept(s)

LEMMA NothingLacks == ASSUME NEW w, NEW t, t.is = "none" PROVE ~Has(w, t)
BY DEF Has

LEMMA KeptSame ==
    ASSUME NEW s \in Section, Kept(s), ~Changing(s), tree'[s] = tree[s], done'[s] = done[s],
           ~Fresh(s)'
    PROVE  Kept(s)'
BY DEF Kept, Success, Has

LEMMA GitKeeps ==
    ASSUME TypeOK, DeliverInv, GitNext, Plain(S), Kept(S)
    PROVE  Kept(S)'
<1>0. cur' = cur /\ S' = S /\ Want' = Want /\ S \in Section /\ cur \in Requests
    BY GitShares, RequestFacts DEF TypeOK, Shares, S, Want
<1>1. ASSUME Remember(1), ~Fresh(S)' PROVE Kept(S)'
    <2>1. done'[S].status = 1
        BY <1>0, <1>1 DEF Remember, TypeOK, GitTypeOK
    <2>. QED
        BY <1>0, <1>1, <2>1 DEF Kept, Success
<1>2. ASSUME done' = done, ~Success(S) PROVE Kept(S)'
    BY <1>0, <1>2 DEF Kept, Success
<1>3. ASSUME pc' \in {"reclone", "recheckout", "record"}, cur.plugin = "Git" PROVE Kept(S)'
    BY <1>0, <1>3 DEF Kept, Changing, Fresh, S
<1>4. ASSUME UNCHANGED <<tree, done>>, pc \notin {"reclone", "recheckout", "record"},
             pc' \notin {"clone", "checkout"}
      PROVE  Kept(S)'
    BY <1>0, <1>4, KeptSame DEF Changing, Fresh
<1>5. CASE GitStart \/ GitRefuse \/ GitRecall \/ GitForget \/ GitPrepare \/ GitGiveUp
    <2>1. /\ UNCHANGED <<tree, done>> /\ pc \in {"start", "lookup", "prepare", "try"}
        BY <1>5 DEF GitStart, GitRefuse, GitRecall, GitForget, GitPrepare, GitGiveUp, At, gitVars
    <2>2. pc' \notin {"clone", "checkout"}
        BY <1>5 DEF GitStart, GitRefuse, GitRecall, GitForget, GitPrepare, GitGiveUp,
              Apply, Raise, Fail, Return, Go
    <2>. QED
        BY <1>4, <2>1, <2>2
<1>6. CASE GitTry
    <2>1. CASE Here.is = "file"
        <3>1. Remember(1) /\ pc' = "try"
            BY <1>6, <2>1 DEF GitTry, Go
        <3>. QED
            BY <1>1, <3>1 DEF Fresh
    <2>2. CASE Here.is = "none"
        <3>1. ~Success(S)
            BY <1>6, <2>2, NothingLacks DEF GitTry, At, Kept, Changing, Here
        <3>2. done' = done
            BY <1>6, <2>2 DEF GitTry
        <3>. QED
            BY <1>2, <3>1, <3>2
    <2>3. CASE Here.is \notin {"file", "none"}
        BY <1>4, <1>6, <2>3 DEF GitTry, At, Go
    <2>. QED
        BY <2>1, <2>2, <2>3
<1>7. CASE GitInspect
    BY <1>4, <1>7 DEF GitInspect, NextTry, At, Go
<1>8. CASE GitPull
    <2>1. CASE NextTry /\ \E t \in Torn : Becomes(t)
        <3>1. done' = done /\ pc' = "try" /\ At("pull")
            BY <1>8, <2>1 DEF GitPull, NextTry, Go
        <3>2. CASE Here.head \in Branch
            <4>1. PICK t \in Torn : tree' = [tree EXCEPT ![S] = t]
                BY <2>1 DEF Becomes
            <4>2. t.is = Here.is /\ t.head = Here.head /\ t.ref = Here.ref /\ t.at = Here.at
                <5>1. t \in {Here, [Here EXCEPT !.files = FALSE]}
                    BY <3>1 DEF Torn, At
                <5>. QED
                    BY <5>1, TreeFacts DEF Tree, TypeOK
            <4>3. tree'[S] = t
                BY <1>0, <4>1 DEF TypeOK, GitTypeOK
            <4>4. Success(S) => Has(done[S].want, Here) /\ done[S].want \in Wants
                BY <1>0, <3>1 DEF Kept, Changing, At, Here, TypeOK, GitTypeOK, Memo
            <4>5. \A w \in Wants : Has(w, Here) => Has(w, t)
                <5>1. \A w \in Wants : w.kind = "pr" => w.ref # Here.head
                    BY <3>2, GitAssumption DEF Wants
                <5>. QED
                    BY <4>2, <5>1 DEF Has
            <4>. QED
                BY <1>0, <3>1, <4>3, <4>4, <4>5 DEF Kept, Changing, Fresh, Success
        <3>3. CASE Here.head \notin Branch
            <4>1. tree' = tree
                <5>1. Torn = {Here}
                    BY <3>1, <3>3 DEF Torn, At
                <5>. QED
                    BY <1>0, <2>1, <5>1 DEF Becomes, Here, TypeOK, GitTypeOK
            <4>. QED
                BY <1>4, <3>1, <4>1 DEF At
        <3>. QED
            BY <3>2, <3>3
    <2>2. CASE pc' = "record"
        BY <1>3, <1>8, <2>2 DEF GitPull, At
    <2>. QED
        BY <1>8, <2>1, <2>2 DEF GitPull, Go
<1>9. CASE GitWipe
    BY <1>3, <1>9 DEF GitWipe, At, Go
<1>10. CASE GitClone
    <2>1. pc = "clone" => ~Success(S)
        BY <1>10 DEF GitClone, At, Kept, Fresh, S
    <2>2. CASE NextTry
        BY <1>1, <1>2, <1>10, <2>1, <2>2 DEF GitClone, NextTry, Go, Fresh
    <2>3. CASE ~NextTry
        <3>1. /\ done' = done /\ cur.plugin = "Git"
              /\ \/ pc' \in {"recheckout", "record"}
                 \/ pc' = "checkout" /\ pc = "clone"
            BY <1>10, <2>3 DEF GitClone, At, Go
        <3>. QED
            BY <1>2, <1>3, <2>1, <3>1
    <2>. QED
        BY <2>2, <2>3
<1>11. CASE GitCheckout
    <2>1. pc = "checkout" => ~Success(S)
        BY <1>11 DEF GitCheckout, At, Kept, Fresh, S
    <2>2. CASE NextTry
        BY <1>1, <1>2, <1>11, <2>1, <2>2 DEF GitCheckout, NextTry, Go, Fresh
    <2>3. CASE ~NextTry
        <3>1. pc' = "record" /\ cur.plugin = "Git"
            BY <1>11, <2>3 DEF GitCheckout, At, Go
        <3>. QED
            BY <1>3, <3>1
    <2>. QED
        BY <2>2, <2>3
<1>12. CASE GitRecord
    <2>1. ~cur.subdir
        BY <1>0 DEF Plain, S
    <2>2. Remember(0) /\ tree' = tree /\ pc' \in {"returned", "try"}
        BY <1>12, <2>1 DEF GitRecord, Go
    <2>3. done'[S].want = Want
        BY <1>0, <2>2 DEF Remember, TypeOK, GitTypeOK
    <2>4. Has(Want, Here)
        BY <1>12 DEF GitRecord, DeliverInv, PlaceInv
    <2>5. Has(done'[S].want, tree'[S])
        BY <2>2, <2>3, <2>4 DEF Here
    <2>. QED
        BY <1>0, <2>2, <2>5 DEF Kept, Fresh
<1>. QED
    BY <1>5, <1>6, <1>7, <1>8, <1>9, <1>10, <1>11, <1>12 DEF GitNext

LEMMA MemoStep ==
    ASSUME TypeOK, DeliverInv, MemoInv, [Next]_vars
    PROVE  MemoInv'
<1> SUFFICES ASSUME ~struck', NEW s \in Section, Plain(s) PROVE Kept(s)'
    BY DEF MemoInv, Plain
<1>1. CASE Restart
    <2>1. done'[s] = NoMemo /\ pc' = "idle"
        BY <1>1 DEF Restart, Killed
    <2>. QED
        BY <2>1 DEF Kept, Success, Fresh, NoMemo
<1>2. CASE Strike \/ StrikeMemo
    BY <1>2 DEF Strike, StrikeMemo
<1>3. CASE ~Restart /\ ~Strike /\ ~StrikeMemo
    <2>1. ~struck
        BY <1>3, StepFacts DEF vars
    <2>2. Kept(s)
        BY <2>1 DEF MemoInv
    <2>3. CASE GitNext
        <3>1. CASE s = S
            BY <2>2, <2>3, <3>1, GitKeeps, GitShares DEF TypeOK, Shares, S
        <3>2. CASE s # S
            <4>1. cur' = cur /\ done'[s] = done[s] /\ tree'[s] = tree[s]
                BY <2>3, <3>2, GitShares, GitOthers DEF TypeOK, Shares
            <4>2. ~Changing(s) /\ ~Fresh(s)'
                BY <3>2, <4>1 DEF Changing, Fresh, S
            <4>. QED
                BY <2>2, <4>1, <4>2, KeptSame
        <3>. QED
            BY <3>1, <3>2
    <2>4. CASE ArchiveNext /\ UNCHANGED gitVars
        <3>1. cur' = cur /\ cur.plugin # "Git"
            BY <2>4, ArchiveShares, ArchivePlaces DEF TypeOK, Shares
        <3>. QED
            BY <2>2, <2>4, <3>1, KeptSame DEF gitVars, Changing, Fresh
    <2>5. CASE Begin /\ UNCHANGED gitVars
        BY <2>2, <2>5, KeptSame DEF Begin, AtRest, gitVars, Changing, Fresh
    <2>6. CASE UNCHANGED <<shared, tree, done>>
        BY <2>2, <2>6 DEF shared, Kept, Changing, Fresh, Success, Has
    <2>. QED
        BY <1>3, <2>3, <2>4, <2>5, <2>6, StepFacts DEF GitPush, Publish, Keep, gitVars, vars
<1>. QED
    BY <1>1, <1>2, <1>3

\* A success that is remembered is still on the disk.
THEOREM SpecMemoTrue == Spec => []MemoTrue
<1>1. Init => LineInv /\ DeliverInv /\ MemoInv
    <2> SUFFICES ASSUME Init PROVE LineInv /\ DeliverInv /\ MemoInv
        OBVIOUS
    <2>1. PICK x \in {"none", "file"} : tree = [r \in Section |-> [Nothing EXCEPT !.is = x]]
        BY DEF Init, GitInit
    <2>2. LineInv
        BY <2>1 DEF LineInv, Lined, Nothing
    <2>3. DeliverInv
        BY DEF Init, SharedInit, DeliverInv, PlaceInv, Delivered, Succeeded, At
    <2>4. MemoInv
        BY DEF Init, SharedInit, GitInit, MemoInv, Kept, Success, Fresh, NoMemo
    <2>. QED
        BY <2>2, <2>3, <2>4
<1>2. /\ TypeOK /\ LineInv /\ DeliverInv /\ MemoInv /\ [Next]_vars
      => (LineInv /\ DeliverInv /\ MemoInv)'
    BY LineStep, DeliverStep, MemoStep
<1>3. MemoInv => MemoTrue
    BY DEF MemoInv, MemoTrue, Kept, Changing, Working, Success, Plain
<1>. QED
    BY <1>1, <1>2, <1>3, SpecTypeOK, PTL DEF Spec

-----------------------------------------------------------------------------
(* Archives                                                                  *)

\* Before it is recorded an archive has been unpacked as a whole.
WholeInv ==
    /\ pc = "record" /\ cur.plugin \in Unpackers /\ ~cur.asis => pkg[Sec][Name] = "whole"
    /\ WholeUnlessAsIs

LEMMA SpecWholeInv == Spec => []WholeInv
<1>1. Init => WholeInv
    BY DEF Init, SharedInit, WholeInv, WholeUnlessAsIs, Succeeded
<1>2. TypeOK /\ WholeInv /\ [Next]_vars => WholeInv'
    <2> SUFFICES ASSUME TypeOK, WholeInv, [Next]_vars PROVE WholeInv'
        OBVIOUS
    <2>0. log \in [status : {0, 1}, located : BOOLEAN, memo : BOOLEAN]
        BY DEF TypeOK, SharedTypeOK
    <2>1. ASSUME pc' \notin {"record", "returned"} PROVE WholeInv'
        BY <2>1 DEF WholeInv, WholeUnlessAsIs, Succeeded
    <2>2. ASSUME cur'.plugin \notin Unpackers PROVE WholeInv'
        BY <2>2 DEF WholeInv, WholeUnlessAsIs, Succeeded
    <2>3. ASSUME pc' = "returned", log'.status # 0 \/ log'.memo PROVE WholeInv'
        BY <2>3 DEF WholeInv, WholeUnlessAsIs, Succeeded
    <2>4. Fail => WholeInv'
        BY <2>0, <2>3 DEF Fail, Return, Go
    <2>5. CASE GitNext
        BY <2>2, <2>5, GitShares
           DEF TypeOK, Shares, Unpackers, GitNext, GitStart, GitRefuse, GitRecall, GitForget,
               GitPrepare, GitGiveUp, GitTry, GitInspect, GitPull, GitWipe, GitClone,
               GitCheckout, GitRecord, At
    <2>6. CASE TarballHave
        <3>1. CASE file[Sec][Name] = "none"
            BY <2>1, <2>6, <3>1 DEF TarballHave, Go
        <3>2. CASE file[Sec][Name] # "none" /\ pkg[Sec][Name] = "none"
            BY <2>1, <2>6, <3>2 DEF TarballHave, Go
        <3>3. CASE file[Sec][Name] # "none" /\ pkg[Sec][Name] = "file"
            BY <2>1, <2>6, <3>3 DEF TarballHave, Go
        <3>4. CASE file[Sec][Name] # "none" /\ pkg[Sec][Name] \notin {"none", "file"}
            BY <2>1, <2>6, <3>4 DEF TarballHave, Go, WholeInv, WholeUnlessAsIs, Succeeded
        <3>. QED
            BY <3>1, <3>2, <3>3, <3>4
    <2>7. CASE SnapshotHave
        <3>1. CASE pkg[Sec][Name] = "file"
            <4>1. pc' = "raised"
                BY <2>7, <3>1 DEF SnapshotHave, Go
            <4>. QED
                BY <2>1, <4>1
        <3>2. CASE pkg[Sec][Name] = "none"
            <4>1. pc' = "download"
                BY <2>7, <3>2 DEF SnapshotHave, Go
            <4>. QED
                BY <2>1, <4>1
        <3>3. CASE pkg[Sec][Name] \notin {"file", "none"}
            BY <2>1, <2>7, <3>3 DEF SnapshotHave, Go, WholeInv, WholeUnlessAsIs, Succeeded
        <3>. QED
            BY <3>1, <3>2, <3>3
    <2>8. CASE Download
        BY <2>1, <2>4, <2>8 DEF Download, Go
    <2>9. CASE Untar
        <3>1. CASE pkg' = Sets(pkg, "whole") /\ pc' = "record" /\ UNCHANGED <<cur, newest>>
            <4>1. pkg \in [Section -> [Item -> {"none", "file", "partial", "whole"}]]
                  /\ Name \in Item /\ Sec \in Section /\ Name' = Name /\ Sec' = Sec
                BY <3>1, NameFacts, RequestFacts DEF TypeOK, ArchiveTypeOK, Name, Sec
            <4>2. pkg'[Sec][Name] = "whole"
                BY <3>1, <4>1 DEF Sets
            <4>. QED
                BY <3>1, <4>1, <4>2 DEF WholeInv, WholeUnlessAsIs, Succeeded
        <3>. QED
            BY <2>4, <2>9, <3>1 DEF Untar, Go, Keep
    <2>10. CASE TarballRecord \/ SnapshotRecord
        <3>1. /\ pc = "record" /\ cur.plugin \in Unpackers /\ pc' = "returned"
              /\ UNCHANGED <<cur, pkg, newest>>
            BY <2>10 DEF TarballRecord, SnapshotRecord, Recorded, Plug, Unpackers, Keep, Return, Go
        <3>2. Name' = Name /\ Sec' = Sec
            BY <3>1 DEF Name, Sec
        <3>. QED
            BY <3>1, <3>2 DEF WholeInv, WholeUnlessAsIs, Succeeded
    <2>11. CASE TarballStart \/ SnapshotStart
        BY <2>1, <2>3, <2>4, <2>11 DEF TarballStart, SnapshotStart, Go, Return
    <2>12. CASE NothingAsked \/ TarballAgain \/ SnapshotUnreachable
        BY <2>1, <2>12 DEF NothingAsked, TarballAgain, SnapshotUnreachable, Raise, Go
    <2>13. CASE InstallStart \/ Install \/ CheckStart \/ CheckFind
        <3>1. cur' = cur
            BY <2>13, ArchiveShares DEF ArchiveNext, TypeOK, Shares
        <3>. QED
            BY <2>2, <2>13, <3>1
               DEF InstallStart, Install, CheckStart, CheckFind, Installing, Plug, Unpackers
    <2>14. CASE Begin \/ Strike \/ StrikeMemo \/ Restart
        BY <2>1, <2>14 DEF Begin, Strike, StrikeMemo, Raise, Go, Restart, Killed
    <2>15. CASE Publish
        <3>1. pc' = "start"
            BY <2>15 DEF Publish, Plug, Keep, shared
        <3>. QED
            BY <2>1, <3>1
    <2>16. CASE UNCHANGED <<shared, archiveVars>>
        BY <2>16 DEF shared, archiveVars, WholeInv, WholeUnlessAsIs, Succeeded, Name, Sec
    <2>. QED
        BY <2>5, <2>6, <2>7, <2>8, <2>9, <2>10, <2>11, <2>12, <2>13, <2>14, <2>15, <2>16
           DEF Next, Execute, Outside, ArchiveNext, GitPush, vars
<1>. QED
    BY <1>1, <1>2, SpecTypeOK, PTL DEF Spec

\* An archive that is fetched is unpacked as a whole, unless what is there was
\* to be left as it is.
THEOREM SpecWhole == Spec => []WholeUnlessAsIs
BY SpecWholeInv, PTL DEF WholeInv
-----------------------------------------------------------------------------
(* The version file                                                          *)

Snapshots == {r.section : r \in {q \in Requests : q.plugin = "OMPI_Snapshot"}}

\* A snapshot that is named in the version file is not fetched again.
VersionInv ==
    /\ pc \in {"have", "download", "untar"} => cur.plugin \in Unpackers
    /\ OneVersionFile =>
          /\ version # 0 => \E s \in Snapshots : pkg[s][Versions[version]] = "whole"
          /\ cur.plugin = "OMPI_Snapshot" /\ pc \in {"have", "download", "untar", "record"}
                => version # newest

\* What a section unpacks is not what is named in the version file.
LEMMA VersionKept ==
    ASSUME TypeOK, VersionInv, OneVersionFile, version # 0,
           pc \in {"have", "download", "untar"}, NEW x
    PROVE  \E s \in Snapshots : Sets(pkg, x)[s][Versions[version]] = "whole"
<1>1. PICK s \in Snapshots : pkg[s][Versions[version]] = "whole"
    BY DEF VersionInv
<1>2. /\ version \in DOMAIN Versions /\ newest \in DOMAIN Versions
      /\ pkg \in [Section -> [Item -> {"none", "file", "partial", "whole"}]]
      /\ Name \in Item /\ Sec \in Section /\ cur \in Requests
    BY NameFacts, RequestFacts DEF TypeOK, ArchiveTypeOK
<1>3. s \in Section /\ Versions[version] \in Item
    BY <1>2, PluginAssumption, ArchivesAssumption DEF Snapshots
<1>4. CASE cur.plugin = "FetchTarball"
    <2>1. s # Sec
        BY <1>2, <1>4 DEF OneVersionFile, Snapshots, Sec
    <2>. QED
        BY <1>1, <1>2, <1>3, <2>1 DEF Sets
<1>5. CASE cur.plugin = "OMPI_Snapshot"
    <2>1. Name = Versions[newest] /\ version # newest
        BY <1>5 DEF VersionInv, Name
    <2>2. Name # Versions[version]
        BY <1>2, <2>1, ArchivesAssumption
    <2>. QED
        BY <1>1, <1>2, <1>3, <2>2 DEF Sets
<1>. QED
    BY <1>4, <1>5 DEF VersionInv, Unpackers

\* Steps that write neither.
LEMMA VersionStill ==
    ASSUME VersionInv, UNCHANGED <<pkg, version>>,
           \/ pc' \notin {"have", "download", "untar", "record"}
           \/ pc' # "have" /\ pc \in {"have", "download", "untar"} /\ UNCHANGED <<cur, newest>>
           \/ pc' = "record" /\ cur'.plugin \notin Unpackers
    PROVE  VersionInv'
BY DEF VersionInv, Unpackers, OneVersionFile, Snapshots

\* A step of an unpacking.
LEMMA VersionMoves ==
    ASSUME TypeOK, VersionInv, UNCHANGED <<cur, newest, version>>,
           pc \in {"have", "download", "untar"}, pc' # "have",
           pkg' = pkg \/ \E x : pkg' = Sets(pkg, x)
    PROVE  VersionInv'
<1>1. OneVersionFile /\ version # 0 => \E s \in Snapshots : pkg'[s][Versions[version]] = "whole"
    BY VersionKept DEF VersionInv
<1>. QED
    BY <1>1 DEF VersionInv, OneVersionFile, Snapshots

\* The places of Git.
LEMMA GitPlaces ==
    ASSUME GitNext
    PROVE  pc' \notin {"have", "download", "untar"}
BY DEF GitNext, GitStart, GitRefuse, GitRecall, GitForget, GitPrepare, GitGiveUp, GitTry,
       GitInspect, GitPull, GitWipe, GitClone, GitCheckout, GitRecord, Apply, NextTry,
       Go, Return, Fail, Raise

\* What a tarball's section finds.
LEMMA TarballGoes ==
    ASSUME TarballHave
    PROVE  /\ pc' \in {"download", "untar", "raised", "record"} /\ cur' = cur
           /\ pkg' = pkg \/ pkg' = Sets(pkg, "none")
<1> USE DEF Go, Keep
<1>1. CASE file[Sec][Name] = "none"
    BY <1>1 DEF TarballHave
<1>2. CASE file[Sec][Name] # "none" /\ pkg[Sec][Name] = "none"
    BY <1>2 DEF TarballHave
<1>3. CASE file[Sec][Name] # "none" /\ pkg[Sec][Name] = "file"
    BY <1>3 DEF TarballHave
<1>4. CASE file[Sec][Name] # "none" /\ pkg[Sec][Name] \notin {"none", "file"}
    BY <1>4 DEF TarballHave
<1>. QED
    BY <1>1, <1>2, <1>3, <1>4

LEMMA VersionStep ==
    ASSUME TypeOK, WholeInv, VersionInv, [Next]_vars
    PROVE  VersionInv'
<1> USE DEF Go, Return, Fail, Raise, Plug, Unpacking, Installing, Unpackers, Keep
<1>1. CASE GitNext /\ UNCHANGED archiveVars
    <2>1. cur' = cur /\ cur.plugin = "Git"
        BY <1>1, GitShares
           DEF TypeOK, Shares, GitNext, GitStart, GitRefuse, GitRecall, GitForget,
               GitPrepare, GitGiveUp, GitTry, GitInspect, GitPull, GitWipe, GitClone,
               GitCheckout, GitRecord, At
    <2>2. pc' \notin {"have", "download", "untar"}
        BY <1>1, GitPlaces
    <2>. QED
        BY <1>1, <2>1, <2>2, VersionStill DEF archiveVars
<1>2. CASE TarballHave
    <2>1. pc' # "have" /\ UNCHANGED <<cur, newest, version>>
        BY <1>2, TarballGoes DEF TarballHave
    <2>2. pkg' = pkg \/ \E x : pkg' = Sets(pkg, x)
        BY <1>2, TarballGoes
    <2>. QED
        BY <1>2, <2>1, <2>2, VersionMoves DEF TarballHave
<1>3. CASE SnapshotHave
    <2>1. /\ pc' # "have" /\ UNCHANGED <<cur, newest, version>>
          /\ pkg' = pkg \/ pkg' = Sets(pkg, "none")
        <3>1. CASE pkg[Sec][Name] = "file"
            BY <1>3, <3>1 DEF SnapshotHave
        <3>2. CASE pkg[Sec][Name] = "none"
            BY <1>3, <3>2 DEF SnapshotHave
        <3>3. CASE pkg[Sec][Name] \notin {"file", "none"}
            BY <1>3, <3>3 DEF SnapshotHave
        <3>. QED
            BY <3>1, <3>2, <3>3
    <2>. QED
        BY <1>3, <2>1, VersionMoves DEF SnapshotHave
<1>4. CASE Download
    <2>1. pc' # "have" /\ UNCHANGED <<cur, newest, version, pkg>>
        BY <1>4 DEF Download
    <2>. QED
        BY <1>4, <2>1, VersionMoves DEF Download
<1>5. CASE Untar
    <2>1. pc' # "have" /\ UNCHANGED <<cur, newest, version>> /\ \E x : pkg' = Sets(pkg, x)
        BY <1>5 DEF Untar
    <2>. QED
        BY <1>5, <2>1, VersionMoves DEF Untar
<1>6. CASE TarballRecord
    BY <1>6, VersionStill DEF TarballRecord, Recorded
<1>7. CASE SnapshotRecord
    <2>1. /\ pc' = "returned" /\ UNCHANGED <<pkg, newest>> /\ cur.plugin = "OMPI_Snapshot"
          /\ pc = "record" /\ version' \in {version, newest}
        BY <1>7 DEF SnapshotRecord, Recorded
    <2>2. CASE version' = version
        BY <2>1, <2>2, VersionStill
    <2>3. ASSUME version' = newest, OneVersionFile
          PROVE  \E s \in Snapshots : pkg'[s][Versions[version']] = "whole"
        <3>1. cur \in Requests /\ Sec \in Snapshots /\ ~cur.asis
            BY <2>1, <2>3, RequestFacts DEF TypeOK, Snapshots, Sec, OneVersionFile
        <3>2. pkg[Sec][Name] = "whole" /\ Name = Versions[newest]
            BY <2>1, <3>1 DEF WholeInv, Name
        <3>. QED
            BY <2>1, <2>3, <3>1, <3>2
    <2>. QED
        BY <2>1, <2>2, <2>3 DEF VersionInv, OneVersionFile, Snapshots
<1>8. CASE TarballStart
    <2>1. pc' \in {"returned", "have"} /\ UNCHANGED <<cur, pkg, newest, version>>
          /\ cur.plugin = "FetchTarball"
        BY <1>8 DEF TarballStart, archiveVars
    <2>. QED
        BY <2>1 DEF VersionInv, OneVersionFile, Snapshots
<1>9. CASE SnapshotStart
    <2>1. /\ UNCHANGED <<cur, pkg, newest, version>> /\ cur.plugin = "OMPI_Snapshot"
          /\ pc' = "returned" \/ (pc' = "have" /\ (~cur.versionfile \/ version # newest))
        BY <1>9 DEF SnapshotStart, archiveVars
    <2>2. cur \in Requests
        BY RequestFacts DEF TypeOK
    <2>. QED
        BY <2>1, <2>2 DEF VersionInv, OneVersionFile, Snapshots
<1>10. CASE NothingAsked \/ TarballAgain \/ SnapshotUnreachable \/ CheckFind
    BY <1>10, VersionStill
       DEF NothingAsked, TarballAgain, SnapshotUnreachable, CheckFind, archiveVars
<1>11. CASE InstallStart \/ Install \/ CheckStart
    <2>1. UNCHANGED <<pkg, version>> /\ pc' \in {"returned", "raised", "install", "find"}
        BY <1>11 DEF InstallStart, Install, CheckStart, Apply, archiveVars
    <2>. QED
        BY <2>1, VersionStill
<1>12. CASE Begin /\ UNCHANGED archiveVars
    BY <1>12, VersionStill DEF Begin, archiveVars
<1>13. CASE Strike \/ StrikeMemo
    BY <1>13, VersionStill DEF Strike, StrikeMemo, Raise, Go, archiveVars
<1>14. CASE Restart
    <2>1. pc' = "idle" /\ UNCHANGED <<cur, newest, version>>
        BY <1>14 DEF Restart, Killed
    <2>2. CASE UNCHANGED pkg
        BY <2>1, <2>2, VersionStill
    <2>3. CASE pc = "untar" /\ pkg' = Sets(pkg, "partial")
        BY <2>1, <2>3, VersionMoves
    <2>. QED
        BY <1>14, <2>2, <2>3 DEF Restart
<1>15. CASE Publish
    <2>1. pc' = "start" /\ UNCHANGED <<pkg, version>>
        BY <1>15 DEF Publish, shared
    <2>. QED
        BY <2>1, VersionStill
<1>16. CASE UNCHANGED <<shared, archiveVars>>
    BY <1>16 DEF shared, archiveVars, VersionInv, OneVersionFile, Snapshots
<1>. QED
    BY <1>1, <1>2, <1>3, <1>4, <1>5, <1>6, <1>7, <1>8, <1>9, <1>10, <1>11, <1>12, <1>13,
       <1>14, <1>15, <1>16 DEF Next, Execute, Outside, ArchiveNext, GitPush, vars

\* Where all sections that fetch snapshots use one version file, it names one
\* that was unpacked as a whole, whatever failed and whenever mtt was killed.
THEOREM SpecVersionFetched == Spec => []VersionFetched
<1>1. Init => VersionInv
    BY DEF Init, SharedInit, ArchiveInit, VersionInv
<1>2. VersionInv => VersionFetched
    <2>1. Snapshots \subseteq Section
        BY PluginAssumption DEF Snapshots
    <2>. QED
        BY <2>1 DEF VersionInv, VersionFetched
<1>. QED
    BY <1>1, <1>2, SpecTypeOK, SpecWholeInv, VersionStep, PTL DEF Spec
-----------------------------------------------------------------------------
(* Modules                                                                   *)

\* Git is at work on an attempt.
Attempt ==
    /\ cur.plugin = "Git"
    /\ pc \in {"inspect", "pull", "wipe", "clone", "reclone", "checkout", "recheckout",
               "record"}

\* It is the first, or yet to come.
FirstTry ==
    \/ At("lookup") \/ At("prepare")
    \/ At("try") /\ tries = 0
    \/ Attempt /\ tries = 1

\* One operation, or none, is asked for.
Only(op, m) == \A other \in Operations \ {op} : m[other] = None

\* What a section has loaded, unloaded or swapped, and not undone.
Applied ==
    \A op \in Operations : Only(op, cur.mods) =>
        IF cur.mods[op] = None THEN env.modules.loaded = entry.modules.loaded
        ELSE /\ env.modules.loaded = After(op, entry.modules.loaded, cur.mods[op])
             /\ env.modules.recorded[op][S] = cur.mods[op]

\* Only what a section asks for is recorded for it.
RecordInv ==
    \A s \in Section, op \in Operations :
        env.modules.recorded[op][s] # None =>
            \E r \in Requests : r.section = s /\ r.mods[op] # None

ModsInv ==
    /\ RecordInv
    /\ pc = "start" => env = entry
    /\ Attempt => tries # 0
    /\ FirstTry \/ Plug("find", "AlreadyInstalled") => Applied
    /\ ModulesBack

\* After applyModules.
LEMMA AppliedNow ==
    ASSUME TypeOK, ModsInv, pc = "start", NEW next, NEW out, Apply(cur.mods, next, out),
           next # out, next # "returned"
    PROVE  RecordInv' /\ (pc' = next => Applied') /\ (pc' # next => pc' = out /\ log'.status # 0)
<1>1. PICK o \in ApplyModules(S, cur.mods, env.modules) :
          /\ env' = [env EXCEPT !.modules = o[1]]
          /\ log' = [log EXCEPT !.status = o[2]]
          /\ pc' = IF o[2] = 0 THEN next ELSE out
          /\ UNCHANGED <<cur, entry>>
    BY DEF Apply, Go, S
<1>2. cur \in Requests /\ S \in Section /\ S' = S /\ IsOptions(cur.mods) /\ IsEnv(env.modules)
    BY <1>1, RequestFacts DEF TypeOK, SharedTypeOK, S
<1>3. env'.modules = o[1] /\ log'.status = o[2] /\ o[2] \in {0, 1}
    BY <1>1, <1>2, ApplyType DEF TypeOK, SharedTypeOK
<1>4. RecordInv'
    <2> SUFFICES ASSUME NEW s \in Section, NEW op \in Operations, o[1].recorded[op][s] # None
                 PROVE  \E r \in Requests : r.section = s /\ r.mods[op] # None
        BY <1>3 DEF RecordInv
    <2>1. env.modules.recorded[op][s] # None \/ (s = S /\ cur.mods[op] # None)
        BY <1>2, ApplyRecords
    <2>. QED
        BY <1>2, <2>1 DEF ModsInv, RecordInv, S
<1>5. ASSUME o[2] = 0 PROVE Applied'
    <2> SUFFICES ASSUME NEW op \in Operations, Only(op, cur.mods)
                 PROVE  IF cur.mods[op] = None THEN o[1].loaded = entry.modules.loaded
                        ELSE /\ o[1].loaded = After(op, entry.modules.loaded, cur.mods[op])
                             /\ o[1].recorded[op][S] = cur.mods[op]
        BY <1>1, <1>2, <1>3 DEF Applied, Only
    <2>1. /\ cur.mods[op] = None => o[1] = env.modules
          /\ cur.mods[op] # None =>
                /\ o[1].loaded = After(op, env.modules.loaded, cur.mods[op])
                /\ o[1].recorded[op][S] = cur.mods[op]
        BY <1>2, <1>5, ApplyAlone DEF Only
    <2>2. env.modules = entry.modules
        BY DEF ModsInv
    <2>. QED
        BY <2>1, <2>2
<1>. QED
    BY <1>1, <1>3, <1>4, <1>5

\* After revertModules.
LEMMA RevertedNow ==
    ASSUME TypeOK, ModsInv, NEW o \in RevertModules(S, env.modules),
           env'.modules = o[1], UNCHANGED <<cur, entry>>
    PROVE  /\ RecordInv'
           /\ o[2] = 0 /\ Applied
              /\ (\A r \in Requests : r.section = cur.section => r.mods = cur.mods)
              /\ Changes(cur.mods, entry.modules.loaded)
              => env'.modules.loaded = entry.modules.loaded
<1> DEFINE e == env.modules
           m == cur.mods
           L == entry.modules.loaded
<1>1. cur \in Requests /\ S \in Section /\ S' = S /\ IsOptions(m) /\ IsEnv(e) /\ cur.section = S
    BY RequestFacts DEF TypeOK, SharedTypeOK, S
<1>2. RecordInv'
    <2> SUFFICES ASSUME NEW s \in Section, NEW op \in Operations, o[1].recorded[op][s] # None
                 PROVE  \E r \in Requests : r.section = s /\ r.mods[op] # None
        BY DEF RecordInv
    <2>1. env.modules.recorded[op][s] # None
        BY <1>1, RevertRecords
    <2>. QED
        BY <2>1 DEF ModsInv, RecordInv
<1>3. ASSUME o[2] = 0, Applied, \A r \in Requests : r.section = cur.section => r.mods = m,
             Changes(m, L)
      PROVE  o[1].loaded = L
    <2>1. PICK op \in Operations : Only(op, m)
        BY <1>3 DEF Changes, Only
    <2>2. \A other \in Operations : e.recorded[other][S] # None => m[other] # None
        BY <1>1, <1>3 DEF ModsInv, RecordInv
    <2>3. \A other \in Operations \ {op} : e.recorded[other][S] = None
        BY <2>1, <2>2 DEF Only
    <2>4. /\ e.recorded[op][S] = None => o[1] = e
          /\ e.recorded[op][S] # None =>
                o[1].loaded = After(Inverse(op), e.loaded, Undoes(op, e.recorded[op][S]))
        BY <1>1, <1>3, <2>3, RevertAlone
    <2>5. IF m[op] = None THEN e.loaded = L
          ELSE e.loaded = After(op, L, m[op]) /\ e.recorded[op][S] = m[op]
        BY <1>3, <2>1 DEF Applied
    <2>6. CASE m[op] = None
        BY <2>2, <2>4, <2>5, <2>6
    <2>7. CASE m[op] # None
        <3>1. o[1].loaded = After(Inverse(op), After(op, L, m[op]), Undoes(op, m[op]))
            BY <2>4, <2>5, <2>7
        <3>2. m[op] \in Seq(Module) /\ (op = "swap" => m[op] \in Pairs)
            BY <1>1 DEF IsOptions, ModuleOptions
        <3>3. /\ op = "swap" => m[op][1] \in L /\ m[op][2] \notin L
              /\ op = "load" => Elems(m[op]) \cap L = {}
              /\ op = "unload" => Elems(m[op]) \subseteq L
            BY <1>3, <2>7 DEF Changes
        <3> HIDE DEF L, m, e
        <3>4. After(Inverse(op), After(op, L, m[op]), Undoes(op, m[op])) = L
            BY <2>7, <3>2, <3>3, Undone
        <3>. QED
            BY <3>1, <3>4
    <2>. QED
        BY <2>6, <2>7
<1>. QED
    BY <1>2, <1>3

\* Steps that leave the modules alone.
LEMMA ModsStill ==
    ASSUME TypeOK, ModsInv, UNCHANGED <<cur, entry>>, env'.modules = env.modules, pc' # "start",
           Attempt' => tries' # 0,
           FirstTry' \/ (pc' = "find" /\ cur.plugin = "AlreadyInstalled") => Applied,
           ModulesBack'
    PROVE  ModsInv'
<1>1. RecordInv'
    BY DEF ModsInv, RecordInv
<1>2. Applied => Applied'
    BY DEF Applied, Only, S
<1>. QED
    BY <1>1, <1>2 DEF ModsInv, Plug

\* Steps that do not return a success.
LEMMA NotBack ==
    ASSUME \/ pc' # "returned"
           \/ log'.status # 0
           \/ cur'.plugin = "Git" /\ (log'.memo \/ tries' # 1)
           \/ cur'.plugin \notin {"Git", "AlreadyInstalled"}
    PROVE  ModulesBack'
BY DEF ModulesBack, Succeeded
\* Git's steps.
LEMMA GitMods ==
    ASSUME TypeOK, PlaceInv, ModsInv, GitNext
    PROVE  ModsInv'
<1> USE DEF At, Plug, Go, Return, Fail, Raise, Attempt
<1>1. /\ UNCHANGED <<cur, entry>> /\ env \in [modules : ModuleEnv, cwd : Place]
      /\ log \in [status : {0, 1}, located : BOOLEAN, memo : BOOLEAN]
      /\ [log EXCEPT !.status = 1].status # 0
      /\ cur.retry \in Nat /\ \E r \in Requests : tries \in 0 .. r.retry + 1
    BY GitShares, RequestFacts DEF TypeOK, SharedTypeOK, GitTypeOK, Shares
<1>2. tries \in Nat
    <2>1. PICK r \in Requests : tries \in 0 .. r.retry + 1
        BY <1>1
    <2>2. r.retry \in Nat
        BY GitAssumption
    <2>. QED
        BY <2>1, <2>2
<1>3. \A p : Chdir(p) => env'.modules = env.modules
    BY <1>1 DEF Chdir
<1>4. NextTry => env'.modules = env.modules /\ pc' = "try" /\ tries' = tries
    BY <1>3 DEF NextTry
<1>5. CASE GitStart
    <2>1. CASE cur.options = "missing" /\ Raise
        BY <1>1, <2>1, ModsStill, NotBack DEF FirstTry
    <2>2. CASE Fail /\ UNCHANGED env
        BY <1>1, <2>2, ModsStill, NotBack DEF FirstTry
    <2>3. CASE Apply(cur.mods, "lookup", "returned")
        <3>1. pc = "start"
            BY <1>5 DEF GitStart
        <3>2. RecordInv' /\ (pc' = "lookup" => Applied')
              /\ (pc' # "lookup" => pc' = "returned" /\ log'.status # 0)
            BY <2>3, <3>1, AppliedNow
        <3>3. ModulesBack'
            BY <3>2, NotBack
        <3>. QED
            BY <3>2, <3>3 DEF ModsInv, FirstTry
    <2>. QED
        BY <1>5, <2>1, <2>2, <2>3 DEF GitStart
<1>6. CASE GitRefuse
    BY <1>1, <1>6, ModsStill, NotBack DEF GitRefuse, FirstTry
<1>7. CASE GitRecall
    <2>1. CASE Fail
        BY <1>1, <1>7, <2>1, ModsStill, NotBack DEF GitRecall, FirstTry
    <2>2. CASE log' = [status |-> 1, located |-> TRUE, memo |-> TRUE] /\ Return
        BY <1>1, <1>7, <2>2, ModsStill, NotBack DEF GitRecall, FirstTry
    <2>3. CASE log' = [status |-> 0, located |-> TRUE, memo |-> SameWant]
               /\ (IF SameWant THEN Return ELSE Go("prepare"))
        <3>1. CASE SameWant
            BY <1>1, <1>7, <2>3, <3>1, ModsStill, NotBack DEF GitRecall, FirstTry
        <3>2. CASE ~SameWant
            BY <1>1, <1>7, <2>3, <3>2, ModsStill, NotBack DEF GitRecall, FirstTry, ModsInv
        <3>. QED
            BY <3>1, <3>2
    <2>. QED
        BY <1>7, <2>1, <2>2, <2>3 DEF GitRecall
<1>8. CASE GitForget
    BY <1>1, <1>8, ModsStill, NotBack DEF GitForget, FirstTry, ModsInv
<1>9. CASE GitPrepare
    BY <1>1, <1>9, ModsStill, NotBack DEF GitPrepare, FirstTry, ModsInv
<1>10. CASE GitGiveUp
    <2>1. tries # 0
        BY <1>1, <1>2, <1>10 DEF GitGiveUp
    <2>2. log.status # 0
        BY <1>10, <2>1 DEF GitGiveUp, PlaceInv
    <2>. QED
        BY <1>1, <1>10, <2>2, ModsStill, NotBack DEF GitGiveUp, FirstTry
<1>11. CASE GitTry
    <2>1. tries' = tries + 1 /\ tries' # 0 /\ (tries' = 1 => tries = 0)
        BY <1>2, <1>11 DEF GitTry
    <2>2. env'.modules = env.modules /\ pc' \in {"try", "clone", "wipe", "inspect"}
        <3>1. CASE Here.is = "file"
            BY <1>3, <1>11, <3>1 DEF GitTry
        <3>2. CASE Here.is = "none"
            BY <1>3, <1>11, <3>2 DEF GitTry
        <3>3. CASE Here.is \notin {"file", "none"}
            BY <1>3, <1>11, <3>3 DEF GitTry
        <3>. QED
            BY <3>1, <3>2, <3>3
    <2>3. FirstTry' => FirstTry
        BY <1>1, <1>11, <2>1, <2>2 DEF FirstTry, GitTry
    <2>4. pc' # "find" /\ pc' # "start" /\ ModulesBack'
        BY <2>2, NotBack
    <2>. QED
        BY <1>1, <2>1, <2>2, <2>3, <2>4, ModsStill DEF ModsInv
<1>12. CASE GitInspect \/ GitPull \/ GitWipe \/ GitClone \/ GitCheckout
    <2>1. /\ tries' = tries /\ env'.modules = env.modules
          /\ pc' \in {"try", "record", "pull", "wipe", "reclone", "checkout", "recheckout"}
          /\ cur.plugin = "Git"
          /\ pc \in {"inspect", "pull", "wipe", "clone", "reclone", "checkout", "recheckout"}
        BY <1>3, <1>4, <1>12 DEF GitInspect, GitPull, GitWipe, GitClone, GitCheckout
    <2>2. FirstTry' => FirstTry
        <3>1. Attempt /\ tries # 0
            BY <2>1 DEF ModsInv, Attempt
        <3>. QED
            BY <1>1, <2>1, <3>1 DEF FirstTry
    <2>3. pc' # "find" /\ pc' # "start" /\ ModulesBack'
        BY <2>1, NotBack
    <2>4. tries' # 0
        BY <2>1 DEF ModsInv, Attempt
    <2>. QED
        BY <1>1, <2>1, <2>2, <2>3, <2>4, ModsStill DEF ModsInv
<1>13. CASE GitRecord
    <2>1. PICK o \in RevertModules(S, env.modules) :
              /\ env' = [modules |-> o[1], cwd |-> entry.cwd]
              /\ \/ log' = [log EXCEPT !.status = 1, !.located = TRUE] /\ pc' = "try"
                 \/ /\ log' = [log EXCEPT !.status = o[2], !.located = TRUE]
                    /\ pc' = IF o[2] = 0 THEN "returned" ELSE "try"
              /\ tries' = tries
        BY <1>13 DEF GitRecord
    <2>2. /\ log'.status \in {1, o[2]} /\ (log'.status # 1 => o[2] = 0)
          /\ pc' \in {"returned", "try"} /\ (pc' = "returned" => o[2] = 0 \/ log'.status # 0)
          /\ env'.modules = o[1]
        <3>1. [log EXCEPT !.status = 1, !.located = TRUE].status = 1
              /\ [log EXCEPT !.status = o[2], !.located = TRUE].status = o[2]
            BY <1>1
        <3>2. IsEnv(env.modules) /\ S \in Section
            BY RequestFacts DEF TypeOK, SharedTypeOK
        <3>3. o[2] \in {0, 1}
            BY <3>2, RevertType
        <3>. QED
            BY <2>1, <3>1, <3>3
    <2>3. tries # 0 /\ (tries = 1 => Applied)
        BY <1>13 DEF GitRecord, ModsInv, Attempt, FirstTry
    <2>4. RecordInv'
        BY <1>1, <2>1, <2>2, RevertedNow
    <2>5. ModulesBack'
        <3> SUFFICES ASSUME Succeeded("AlreadyInstalled")' \/ (Succeeded("Git")' /\ tries' = 1),
                            \A r \in Requests : r.section = cur.section => r.mods = cur.mods,
                            Changes(cur.mods, entry.modules.loaded)
                     PROVE  env'.modules.loaded = entry.modules.loaded
            BY <1>1 DEF ModulesBack
        <3>1. o[2] = 0 /\ tries = 1
            BY <1>1, <1>13, <2>1, <2>2 DEF Succeeded, GitRecord
        <3>. QED
            BY <1>1, <2>1, <2>2, <2>3, <3>1, RevertedNow
    <2>6. ~FirstTry' /\ ~Attempt' /\ pc' \notin {"start", "find"}
        BY <2>1, <2>2, <2>3 DEF FirstTry, Attempt
    <2>. QED
        BY <2>4, <2>5, <2>6 DEF ModsInv
<1>. QED
    BY <1>5, <1>6, <1>7, <1>8, <1>9, <1>10, <1>11, <1>12, <1>13 DEF GitNext
\* The steps of the other plugins.
LEMMA ArchiveMods ==
    ASSUME TypeOK, ModsInv, ArchiveNext
    PROVE  ModsInv'
<1>1. /\ UNCHANGED <<cur, entry>> /\ env \in [modules : ModuleEnv, cwd : Place]
      /\ log \in [status : {0, 1}, located : BOOLEAN, memo : BOOLEAN]
      /\ cur.plugin # "Git" /\ pc' # "start"
    BY ArchiveShares, ArchivePlaces DEF TypeOK, SharedTypeOK, Shares
<1>2. ~FirstTry' /\ ~Attempt'
    BY <1>1 DEF FirstTry, Attempt, At
<1>3. CASE CheckStart
    <2>1. pc = "start" /\ cur.plugin = "AlreadyInstalled"
        BY <1>3 DEF CheckStart, Plug
    <2>2. CASE pc' = "returned" /\ env' = env
        <3>1. env'.modules = entry'.modules
            BY <1>1, <2>1, <2>2 DEF ModsInv
        <3>2. ModulesBack'
            BY <3>1 DEF ModulesBack
        <3>. QED
            BY <1>1, <1>2, <2>2, <3>2, ModsStill
    <2>3. CASE Apply(cur.mods, "find", "returned")
        <3>1. RecordInv' /\ (pc' = "find" => Applied')
              /\ (pc' # "find" => pc' = "returned" /\ log'.status # 0)
            BY <2>1, <2>3, AppliedNow
        <3>2. ModulesBack'
            BY <3>1, NotBack
        <3>. QED
            BY <1>1, <1>2, <3>1, <3>2 DEF ModsInv, Plug
    <2>. QED
        BY <1>3, <2>2, <2>3 DEF CheckStart, Return, Go, Keep
<1>4. CASE CheckFind
    <2>1. PICK o \in RevertModules(S, env.modules), found \in {0, 1} :
              /\ env' = [env EXCEPT !.modules = o[1]]
              /\ log' = [log EXCEPT !.status = IF o[2] = 0 THEN found ELSE 1]
        BY <1>4 DEF CheckFind, S, Sec
    <2>2. env'.modules = o[1] /\ (log'.status = 0 => o[2] = 0)
        BY <1>1, <2>1
    <2>3. Applied /\ pc' = "returned"
        BY <1>4 DEF CheckFind, ModsInv, Plug, Return, Go
    <2>4. RecordInv'
        BY <1>1, <2>1, <2>2, RevertedNow
    <2>5. ModulesBack'
        <3> SUFFICES ASSUME log'.status = 0,
                            \A r \in Requests : r.section = cur.section => r.mods = cur.mods,
                            Changes(cur.mods, entry.modules.loaded)
                     PROVE  env'.modules.loaded = entry.modules.loaded
            BY <1>1 DEF ModulesBack, Succeeded
        <3>. QED
            BY <1>1, <2>1, <2>2, <2>3, RevertedNow
    <2>. QED
        BY <1>1, <1>2, <2>3, <2>4, <2>5 DEF ModsInv, Plug
<1>5. CASE ~CheckStart /\ ~CheckFind
    <2>1. env'.modules = env.modules
        <3>1. \A p : Chdir(p) => env'.modules = env.modules
            BY <1>1 DEF Chdir
        <3>2. CASE TarballHave
            BY <3>2 DEF TarballHave, Keep
        <3>3. CASE SnapshotHave
            BY <3>3 DEF SnapshotHave, Keep
        <3>. QED
            BY <1>5, <3>1, <3>2, <3>3
               DEF ArchiveNext, NothingAsked, TarballAgain, TarballStart, SnapshotUnreachable,
                   SnapshotStart, Download, Untar, TarballRecord, SnapshotRecord,
                   InstallStart, Install, Keep, Raise
    <2>2. cur.plugin # "AlreadyInstalled"
        BY <1>5 DEF ArchiveNext, NothingAsked, TarballAgain, TarballStart, SnapshotUnreachable,
               SnapshotStart, Download, Untar, TarballRecord, SnapshotRecord, InstallStart,
               Install, TarballHave, SnapshotHave, Plug, Unpacking, Unpackers, Installing,
               Memoizers
    <2>3. ModulesBack'
        BY <1>1, <2>2, NotBack
    <2>. QED
        BY <1>1, <1>2, <2>1, <2>2, <2>3, ModsStill
<1>. QED
    BY <1>3, <1>4, <1>5

LEMMA ModsStep ==
    ASSUME TypeOK, PlaceInv, ModsInv, [Next]_vars
    PROVE  ModsInv'
<1>1. CASE Begin
    <2>1. pc' = "start" /\ env' = env /\ entry' = env
        BY <1>1 DEF Begin
    <2>2. RecordInv'
        BY <2>1 DEF ModsInv, RecordInv
    <2>. QED
        BY <2>1, <2>2, NotBack DEF ModsInv, FirstTry, Attempt, At, Plug
<1>2. CASE Strike
    <2>1. pc' = "raised" /\ env' = env
        BY <1>2 DEF Strike, Raise, Go
    <2>2. RecordInv'
        BY <2>1 DEF ModsInv, RecordInv
    <2>. QED
        BY <2>1, <2>2, NotBack DEF ModsInv, FirstTry, Attempt, At, Plug
<1>2a. CASE StrikeMemo
    BY <1>2a, ModsStill, NotBack DEF StrikeMemo, Go, ModsInv, FirstTry, Attempt, At
<1>3. CASE Restart
    <2>1. pc' = "idle" /\ env' = FreshEnv
        BY <1>3 DEF Restart, Killed
    <2>2. RecordInv'
        BY <2>1 DEF RecordInv, FreshEnv, CleanModules
    <2>. QED
        BY <2>1, <2>2, NotBack DEF ModsInv, FirstTry, Attempt, At, Plug
<1>4. CASE UNCHANGED <<shared, tries>>
    BY <1>4 DEF shared, ModsInv, RecordInv, FirstTry, Attempt, Applied, Only, S, At, Plug,
               ModulesBack, Succeeded
<1>. QED
    BY <1>1, <1>2, <1>2a, <1>3, <1>4, GitMods, ArchiveMods, StepFacts
       DEF GitPush, Publish, Keep, gitVars, vars

\* A section that succeeds in its first attempt leaves the process with the
\* modules that it was called with, whatever became of earlier ones.
THEOREM SpecModulesBack == Spec => []ModulesBack
<1>1. Init => ModsInv
    BY DEF Init, SharedInit, FreshEnv, CleanModules, ModsInv, RecordInv, FirstTry, Attempt, At,
           Plug, ModulesBack, Succeeded
<1>2. TypeOK /\ PlaceInv /\ ModsInv /\ [Next]_vars => ModsInv'
    BY ModsStep
<1>3. DeliverInv => PlaceInv
    BY DEF DeliverInv
<1>4. ModsInv => ModulesBack
    BY DEF ModsInv
<1>. QED
    BY <1>1, <1>2, <1>3, <1>4, SpecTypeOK, SpecDeliverInv, PTL DEF Spec

\* A section leaves the process in its directory, and with its modules.
THEOREM SpecPutBack == Spec => []PutBack
BY SpecComesHome, SpecModulesBack, PTL DEF PutBack
-----------------------------------------------------------------------------
(* What the sections fetch, and remember.                                    *)

\* What a section fetches with success is what it was asked for, the newest of
\* it, and an archive as a whole.
THEOREM SpecFetched == Spec => []Fetched
BY SpecDelivered, SpecNewest, SpecWhole, PTL DEF Fetched

\* What Git, FetchRPM and Pip remember of earlier sections is so.
THEOREM SpecRemembered == Spec => []Remembered
BY SpecMemoTrue, SpecInstalledIsTrue, PTL DEF Remembered
=============================================================================
