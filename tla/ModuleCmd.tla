------------------------------ MODULE ModuleCmd ------------------------------
(* ModuleCmd.py: environment modules loaded, unloaded and swapped on behalf   *)
(* of a section, and the undoing of it.  What is loaded belongs to the MTT    *)
(* process and all sections share it.  Every operation is one call that may   *)
(* end in several ways: it is the set of its outcomes <<e, status>>, e being  *)
(* the environment that it leaves.                                            *)
EXTENDS Integers, Sequences

CONSTANTS
    Section,    \* names of sections
    Module,     \* names of environment modules
    Wrapper     \* whether the python wrapper was found and can be imported

ASSUME WrapperAssumption == Wrapper \in BOOLEAN

Operations == {"unload", "load", "swap"}

\* A list that was not given, or a record that was not made.
None == <<>>

\* cmds: modules_unload, modules, modules_swap; a swap names two modules.
ModuleOptions == [Operations -> Seq(Module)]
Pairs == {None} \cup (Module \X Module)
IsOptions(m) == m \in ModuleOptions /\ m["swap"] \in Pairs

\* What the process has: the modules loaded, whether sys.stdout is a buffer
\* that nobody reads, and testDef.module_unload, module_load, module_swap.
ModuleEnv == [loaded : SUBSET Module, muted : BOOLEAN,
              recorded : [Operations -> [Section -> Seq(Module)]]]

IsEnv(e) == e \in ModuleEnv /\ e.recorded["swap"] \in [Section -> Pairs]

CleanModules ==
    [loaded |-> {}, muted |-> FALSE,
     recorded |-> [op \in Operations |-> [s \in Section |-> None]]]

Elems(ms) == {ms[i] : i \in DOMAIN ms}

\* The operation takes effect for the modules in D.
Effect(op, e, ms, D) ==
    [e EXCEPT !.loaded =
        CASE op = "load"   -> @ \cup D
          [] op = "unload" -> @ \ D
          [] op = "swap"   -> IF D = {} THEN @ ELSE (@ \ {ms[1]}) \cup {ms[2]}]

\* What a list can come to when a module complains on stderr: the status is
\* the length of what was written.
Parts(op, ms) == IF op = "swap" THEN {{}, Elems(ms)} ELSE SUBSET Elems(ms)

\* The module command raises: those before it took effect, and the streams
\* are not restored.
Broken(op, e, ms) ==
    {[Effect(op, e, ms, D) EXCEPT !.muted = TRUE] :
        D \in IF op = "swap" THEN {{}}
              ELSE {Elems(SubSeq(ms, 1, k - 1)) : k \in DOMAIN ms}}

\* loadModules, unloadModules, swapModules.
Call(op, e, ms) ==
    IF ~Wrapper THEN {<<e, 1>>}
    ELSE {<<Effect(op, e, ms, Elems(ms)), 0>>}
         \cup {<<Effect(op, e, ms, D), 1>> : D \in Parts(op, ms)}
         \cup {<<b, 1>> : b \in Broken(op, e, ms)}

\* One of the three parts of applyModules: it is recorded if its status is 0.
ApplyOne(op, s, ms, o) ==
    IF ms = None THEN {o}
    ELSE {IF q[2] = 0 THEN <<[q[1] EXCEPT !.recorded[op][s] = ms], 0>> ELSE q :
             q \in Call(op, o[1], ms)}

\* applyModules: unload, load, swap, the later ones whatever became of the
\* earlier; the last one's status is returned.
ApplyModules(s, m, e) ==
    UNION {UNION {ApplyOne("swap", s, m["swap"], p) :
                     p \in ApplyOne("load", s, m["load"], o)} :
              o \in ApplyOne("unload", s, m["unload"], <<e, 0>>)}

\* Mutant: it stops at the first that fails.
ApplyStops(s, m, e) ==
    LET On(op, o) == IF o[2] = 0 THEN ApplyOne(op, s, m[op], o) ELSE {o}
    IN  UNION {UNION {On("swap", p) : p \in On("load", o)} :
                  o \in On("unload", <<e, 0>>)}

Backwards(ms) == [i \in DOMAIN ms |-> ms[Len(ms) + 1 - i]]

\* One of the three parts of revertModules, the inverse of what is recorded.
\* mods.reverse() turns the record itself around; no record is removed.
RevertOne(op, inverse, s, o) ==
    LET ms == o[1].recorded[op][s]
        to == IF op = "swap" THEN Backwards(ms) ELSE ms
    IN  IF ms = None THEN {o}
        ELSE Call(inverse, [o[1] EXCEPT !.recorded[op][s] = to], to)

\* Mutant: what was loaded is not unloaded.
RevertForgets(s, e) ==
    UNION {RevertOne("unload", "load", s, o) :
              o \in RevertOne("swap", "swap", s, <<e, 0>>)}

\* revertModules: swap back, unload, load; the last one's status is returned.
RevertModules(s, e) ==
    UNION {UNION {RevertOne("unload", "load", s, p) :
                     p \in RevertOne("load", "unload", s, o)} :
              o \in RevertOne("swap", "swap", s, <<e, 0>>)}

\* checkForModules: what the middleware was built with goes before what the
\* section asks for.  Two swaps make a tuple of four, which the callers
\* unpack as three: ValueError.
SwapConflict(middle, own) == middle["swap"] # None /\ own["swap"] # None

CheckForModules(middle, own) ==
    [op \in Operations |-> middle[op] \o own[op]]
=============================================================================
