-------------------------- MODULE SequentialProofs --------------------------
(* Proofs about the sequential executor, for every INI file and every        *)
(* choice of the command-line options.                                       *)
EXTENDS Sequential, FiniteSetTheorems, TLAPS

(* The strengthenings.  BoundLog: between the binding of stageLog and the    *)
(* end of the section the local belongs to that section, and it does in the  *)
(* exception handler, unless the section raised before it bound it.          *)
BoundLog ==
    /\ pc \in {"gate", "run", "save"} => cur = sec
    /\ pc = "exc" => cur = sec \/ "unbound" \in Ini[sec].raises

\* The timers do not exist before they are started, and SIGINT is pending only
\* after the one timer that sends it has done so.
TimerOrder ==
    /\ pc \in {"start", "timers"} => timer["duration"] = "off"
    /\ sigint => timer["duration"] = "fired"

\* Before an interrupt, a log that says 0 is the log of a plugin that said so.
OverPCs == {"while", "teardown", "final", "done", "escaped"}
TrueLogs ==
    /\ only_reporter \/ pc \in OverPCs
       \/ \A s \in logged : slog[s] = 0 => s \in passed
    /\ pc \in Zone /\ only_reporter => ReporterStep

IInv == TypeOK /\ BoundLog /\ TimerOrder /\ SemAccount

LEMMA SecsType == Secs = 1 .. Len(Ini) /\ Len(Ini) \in Nat \ {0}
BY IniAssumption DEF Secs

LEMMA OrderType == Len(StageOrder) \in Nat \ {0}
BY IniAssumption

\* The invariant holds in the initial state.
LEMMA InitIInv == Init => IInv
<1> SUFFICES ASSUME Init PROVE IInv
    OBVIOUS
<1>1. TypeOK
    <2>1. pc \in PCs
        BY DEF Init, PCs
    <2>2. stage \in 1 .. Len(StageOrder) /\ sec \in Secs
        BY SecsType, OrderType DEF Init
    <2>3. cur \in Secs \cup {NoSec} /\ status \in {0, 1}
        BY DEF Init
    <2>4. slog \in [Secs -> Status] /\ runs \in [Secs -> 0 .. 2]
        BY DEF Init, Status
    <2>5. logged \subseteq Secs /\ passed \subseteq Secs
        BY DEF Init
    <2>6. /\ only_reporter \in BOOLEAN /\ looping \in BOOLEAN /\ looped \in BOOLEAN
          /\ one_last_loop \in BOOLEAN /\ sigint \in BOOLEAN
        BY DEF Init
    <2>7. sem \in Nat /\ leaks \in Nat
        BY DEF Init
    <2>8. timer \in [Timers -> {"off", "armed", "blocked", "killing", "fired", "cancelled"}]
        BY DEF Init
    <2>. QED
        BY <2>1, <2>2, <2>3, <2>4, <2>5, <2>6, <2>7, <2>8 DEF TypeOK
<1>2. BoundLog /\ TimerOrder
    BY DEF Init, BoundLog, TimerOrder, Timers
<1>3. SemAccount
    BY DEF Init, SemAccount, Transit, Timers, One
<1>. QED
    BY <1>1, <1>2, <1>3 DEF IInv

\* Every step keeps the types.
LEMMA TypeStep == TypeOK /\ BoundLog /\ [Next]_vars => TypeOK'
<1> SUFFICES ASSUME TypeOK /\ BoundLog, [Next]_vars PROVE TypeOK'
    OBVIOUS
<1> USE SecsType, OrderType
<1> USE DEF TypeOK, BoundLog, vars, control, flags, logs, async, PCs, Zone, Transit, Timers, Status, Unset, NoSec
<1>1. CASE DurationExpires
    BY <1>1 DEF DurationExpires
<1>2. CASE LoopExpires
    BY <1>2 DEF LoopExpires
<1>3. CASE HandlerAcquires
    BY <1>3 DEF HandlerAcquires
<1>4. CASE HandlerKills
    BY <1>4 DEF HandlerKills
<1>5. CASE Start
    BY <1>5 DEF Start
<1>6. CASE StartTimers
    <2>1. looping' \in BOOLEAN
        BY <1>6, IniAssumption DEF StartTimers
    <2>2. timer' \in [Timers -> {"off", "armed", "blocked", "killing", "fired", "cancelled"}]
        BY <1>6 DEF StartTimers
    <2>. QED
        BY <1>6, <2>1, <2>2 DEF StartTimers
<1>7. CASE StartHarasser
    BY <1>7 DEF StartHarasser
<1>8. CASE NewPass
    BY <1>8 DEF NewPass
<1>9. CASE LastPass
    BY <1>9 DEF LastPass
<1>10. CASE Teardown
    BY <1>10 DEF Teardown, Cancelled
<1>11. CASE Return
    BY <1>11 DEF Return
<1>12. CASE Visit
    <2>1. CASE Filtered
        BY <1>12, <2>1 DEF Visit
    <2>2. CASE ~Filtered
        <3>1. looping' \in BOOLEAN
            BY <1>12, <2>2 DEF Visit
        <3>. QED
            BY <1>12, <2>2, <3>1 DEF Visit
    <2>. QED
        BY <2>1, <2>2
<1>13. CASE NextSection
    <2>1. stage' \in 1 .. Len(StageOrder) /\ sec' \in Secs
        BY <1>13 DEF NextSection
    <2>2. pc' \in PCs /\ only_reporter' \in BOOLEAN
        BY <1>13 DEF NextSection
    <2>. QED
        BY <1>13, <2>1, <2>2 DEF NextSection
<1>14. CASE PassOver
    BY <1>14 DEF PassOver
<1>15. CASE StopHere
    BY <1>15 DEF StopHere
<1>16. CASE Begin
    BY <1>16 DEF Begin
<1>17. CASE Refuse
    BY <1>17 DEF Refuse
<1>18. CASE RunIfSkips
    BY <1>18 DEF RunIfSkips
<1>19. CASE Accept
    <2>1. runs' \in [Secs -> 0 .. 2]
        BY <1>19 DEF Accept
    <2>. QED
        BY <1>19, <2>1 DEF Accept
<1>20. CASE PluginReturns
    BY <1>20 DEF PluginReturns, Raise
<1>21. CASE PluginRaises
    BY <1>21 DEF PluginRaises, Raise
<1>22. CASE SaveLogRaises
    BY <1>22 DEF SaveLogRaises
<1>23. CASE Judge
    BY <1>23 DEF Judge, Raise
<1>24. CASE Back
    BY <1>24 DEF Back
<1>25. CASE KeyboardHandler
    BY <1>25 DEF KeyboardHandler, Handle, Cancelled
<1>26. CASE HandlerUnbound
    BY <1>26 DEF HandlerUnbound, Cancelled
<1>27. CASE ExceptionHandler
    BY <1>27 DEF ExceptionHandler, Handle, Cancelled
<1>28. CASE Interrupt
    BY <1>28 DEF Interrupt
<1>29. CASE InterruptSwallowed
    BY <1>29 DEF InterruptSwallowed
<1>30. CASE InterruptEscapes
    BY <1>30 DEF InterruptEscapes
<1>31. CASE UNCHANGED vars
    BY <1>31
<1>32. CASE HeadRaises
    BY <1>32 DEF HeadRaises, Raise
<1>33. CASE GateRaises
    BY <1>33 DEF GateRaises, Raise
<1>. QED
    BY <1>1, <1>2, <1>3, <1>4, <1>5, <1>6, <1>7, <1>8, <1>9, <1>10, <1>11, <1>12, <1>13, <1>14, <1>15, <1>16, <1>17, <1>18, <1>19, <1>20, <1>21, <1>22, <1>23, <1>24, <1>25, <1>26, <1>27, <1>28, <1>29, <1>30, <1>31, <1>32, <1>33
       DEF Next, Main, Execute, Section, Handlers, Deliver, Watchdog

\* Every step keeps stageLog bound to the section at hand.
LEMMA BoundStep == BoundLog /\ [Next]_vars => BoundLog'
<1> SUFFICES ASSUME BoundLog, [Next]_vars PROVE BoundLog'
    OBVIOUS
<1> USE DEF BoundLog, vars, control, flags, logs, async, Zone, Transit
<1>1. CASE DurationExpires
    BY <1>1 DEF DurationExpires
<1>2. CASE LoopExpires
    BY <1>2 DEF LoopExpires
<1>3. CASE HandlerAcquires
    BY <1>3 DEF HandlerAcquires
<1>4. CASE HandlerKills
    BY <1>4 DEF HandlerKills
<1>5. CASE Start
    BY <1>5 DEF Start
<1>6. CASE StartTimers
    BY <1>6 DEF StartTimers
<1>7. CASE StartHarasser
    BY <1>7 DEF StartHarasser
<1>8. CASE NewPass
    BY <1>8 DEF NewPass
<1>9. CASE LastPass
    BY <1>9 DEF LastPass
<1>10. CASE Teardown
    BY <1>10 DEF Teardown, Cancelled
<1>11. CASE Return
    BY <1>11 DEF Return
<1>12. CASE Visit
    BY <1>12 DEF Visit
<1>13. CASE NextSection
    BY <1>13 DEF NextSection
<1>14. CASE PassOver
    BY <1>14 DEF PassOver
<1>15. CASE StopHere
    BY <1>15 DEF StopHere
<1>16. CASE Begin
    BY <1>16 DEF Begin
<1>17. CASE Refuse
    BY <1>17 DEF Refuse
<1>18. CASE RunIfSkips
    BY <1>18 DEF RunIfSkips
<1>19. CASE Accept
    BY <1>19 DEF Accept
<1>20. CASE PluginReturns
    BY <1>20 DEF PluginReturns, Raise
<1>21. CASE PluginRaises
    BY <1>21 DEF PluginRaises, Raise
<1>22. CASE SaveLogRaises
    BY <1>22 DEF SaveLogRaises
<1>23. CASE Judge
    BY <1>23 DEF Judge, Raise
<1>24. CASE Back
    BY <1>24 DEF Back
<1>25. CASE KeyboardHandler
    BY <1>25 DEF KeyboardHandler, Handle, Cancelled
<1>26. CASE HandlerUnbound
    BY <1>26 DEF HandlerUnbound, Cancelled
<1>27. CASE ExceptionHandler
    BY <1>27 DEF ExceptionHandler, Handle, Cancelled
<1>28. CASE Interrupt
    BY <1>28 DEF Interrupt
<1>29. CASE InterruptSwallowed
    BY <1>29 DEF InterruptSwallowed
<1>30. CASE InterruptEscapes
    BY <1>30 DEF InterruptEscapes
<1>31. CASE UNCHANGED vars
    BY <1>31
<1>32. CASE HeadRaises
    BY <1>32 DEF HeadRaises, Raise
<1>33. CASE GateRaises
    BY <1>33 DEF GateRaises, Raise
<1>. QED
    BY <1>1, <1>2, <1>3, <1>4, <1>5, <1>6, <1>7, <1>8, <1>9, <1>10, <1>11, <1>12, <1>13, <1>14, <1>15, <1>16, <1>17, <1>18, <1>19, <1>20, <1>21, <1>22, <1>23, <1>24, <1>25, <1>26, <1>27, <1>28, <1>29, <1>30, <1>31, <1>32, <1>33
       DEF Next, Main, Execute, Section, Handlers, Deliver, Watchdog

\* Every step keeps the order of the timer's states.
LEMMA TimerStep == TypeOK /\ TimerOrder /\ [Next]_vars => TimerOrder'
<1> SUFFICES ASSUME TypeOK /\ TimerOrder, [Next]_vars PROVE TimerOrder'
    OBVIOUS
<1> USE DEF TypeOK, TimerOrder, vars, control, flags, logs, async, Zone, Transit, Timers
<1>1. CASE DurationExpires
    BY <1>1 DEF DurationExpires
<1>2. CASE LoopExpires
    BY <1>2 DEF LoopExpires
<1>3. CASE HandlerAcquires
    BY <1>3 DEF HandlerAcquires
<1>4. CASE HandlerKills
    BY <1>4 DEF HandlerKills
<1>5. CASE Start
    BY <1>5 DEF Start
<1>6. CASE StartTimers
    BY <1>6 DEF StartTimers
<1>7. CASE StartHarasser
    BY <1>7 DEF StartHarasser
<1>8. CASE NewPass
    BY <1>8 DEF NewPass
<1>9. CASE LastPass
    BY <1>9 DEF LastPass
<1>10. CASE Teardown
    BY <1>10 DEF Teardown, Cancelled
<1>11. CASE Return
    BY <1>11 DEF Return
<1>12. CASE Visit
    BY <1>12 DEF Visit
<1>13. CASE NextSection
    BY <1>13 DEF NextSection
<1>14. CASE PassOver
    BY <1>14 DEF PassOver
<1>15. CASE StopHere
    BY <1>15 DEF StopHere
<1>16. CASE Begin
    BY <1>16 DEF Begin
<1>17. CASE Refuse
    BY <1>17 DEF Refuse
<1>18. CASE RunIfSkips
    BY <1>18 DEF RunIfSkips
<1>19. CASE Accept
    BY <1>19 DEF Accept
<1>20. CASE PluginReturns
    BY <1>20 DEF PluginReturns, Raise
<1>21. CASE PluginRaises
    BY <1>21 DEF PluginRaises, Raise
<1>22. CASE SaveLogRaises
    BY <1>22 DEF SaveLogRaises
<1>23. CASE Judge
    BY <1>23 DEF Judge, Raise
<1>24. CASE Back
    BY <1>24 DEF Back
<1>25. CASE KeyboardHandler
    BY <1>25 DEF KeyboardHandler, Handle, Cancelled
<1>26. CASE HandlerUnbound
    BY <1>26 DEF HandlerUnbound, Cancelled
<1>27. CASE ExceptionHandler
    BY <1>27 DEF ExceptionHandler, Handle, Cancelled
<1>28. CASE Interrupt
    BY <1>28 DEF Interrupt
<1>29. CASE InterruptSwallowed
    BY <1>29 DEF InterruptSwallowed
<1>30. CASE InterruptEscapes
    BY <1>30 DEF InterruptEscapes
<1>31. CASE UNCHANGED vars
    BY <1>31
<1>32. CASE HeadRaises
    BY <1>32 DEF HeadRaises, Raise
<1>33. CASE GateRaises
    BY <1>33 DEF GateRaises, Raise
<1>. QED
    BY <1>1, <1>2, <1>3, <1>4, <1>5, <1>6, <1>7, <1>8, <1>9, <1>10, <1>11, <1>12, <1>13, <1>14, <1>15, <1>16, <1>17, <1>18, <1>19, <1>20, <1>21, <1>22, <1>23, <1>24, <1>25, <1>26, <1>27, <1>28, <1>29, <1>30, <1>31, <1>32, <1>33
       DEF Next, Main, Execute, Section, Handlers, Deliver, Watchdog

\* Every step keeps the account of the semaphore.
LEMMA SemStep == TypeOK /\ TimerOrder /\ SemAccount /\ [Next]_vars => SemAccount'
<1> SUFFICES ASSUME TypeOK /\ TimerOrder /\ SemAccount, [Next]_vars PROVE SemAccount'
    OBVIOUS
<1> USE DEF TypeOK, TimerOrder, SemAccount, One, vars, control, flags, logs, async, Zone, Transit, Timers
<1>1. CASE DurationExpires
    BY <1>1 DEF DurationExpires
<1>2. CASE LoopExpires
    BY <1>2 DEF LoopExpires
<1>3. CASE HandlerAcquires
    BY <1>3 DEF HandlerAcquires
<1>4. CASE HandlerKills
    BY <1>4 DEF HandlerKills
<1>5. CASE Start
    BY <1>5 DEF Start
<1>6. CASE StartTimers
    BY <1>6 DEF StartTimers
<1>7. CASE StartHarasser
    BY <1>7 DEF StartHarasser
<1>8. CASE NewPass
    BY <1>8 DEF NewPass
<1>9. CASE LastPass
    BY <1>9 DEF LastPass
<1>10. CASE Teardown
    BY <1>10 DEF Teardown, Cancelled
<1>11. CASE Return
    BY <1>11 DEF Return
<1>12. CASE Visit
    BY <1>12 DEF Visit
<1>13. CASE NextSection
    BY <1>13 DEF NextSection
<1>14. CASE PassOver
    BY <1>14 DEF PassOver
<1>15. CASE StopHere
    BY <1>15 DEF StopHere
<1>16. CASE Begin
    BY <1>16 DEF Begin
<1>17. CASE Refuse
    BY <1>17 DEF Refuse
<1>18. CASE RunIfSkips
    BY <1>18 DEF RunIfSkips
<1>19. CASE Accept
    BY <1>19 DEF Accept
<1>20. CASE PluginReturns
    BY <1>20 DEF PluginReturns, Raise
<1>21. CASE PluginRaises
    BY <1>21 DEF PluginRaises, Raise
<1>22. CASE SaveLogRaises
    BY <1>22 DEF SaveLogRaises
<1>23. CASE Judge
    BY <1>23 DEF Judge, Raise
<1>24. CASE Back
    BY <1>24 DEF Back
<1>25. CASE KeyboardHandler
    BY <1>25 DEF KeyboardHandler, Handle, Cancelled
<1>26. CASE HandlerUnbound
    BY <1>26 DEF HandlerUnbound, Cancelled
<1>27. CASE ExceptionHandler
    BY <1>27 DEF ExceptionHandler, Handle, Cancelled
<1>28. CASE Interrupt
    BY <1>28 DEF Interrupt
<1>29. CASE InterruptSwallowed
    BY <1>29 DEF InterruptSwallowed
<1>30. CASE InterruptEscapes
    BY <1>30 DEF InterruptEscapes
<1>31. CASE UNCHANGED vars
    BY <1>31
<1>32. CASE HeadRaises
    BY <1>32 DEF HeadRaises, Raise
<1>33. CASE GateRaises
    BY <1>33 DEF GateRaises, Raise
<1>. QED
    BY <1>1, <1>2, <1>3, <1>4, <1>5, <1>6, <1>7, <1>8, <1>9, <1>10, <1>11, <1>12, <1>13, <1>14, <1>15, <1>16, <1>17, <1>18, <1>19, <1>20, <1>21, <1>22, <1>23, <1>24, <1>25, <1>26, <1>27, <1>28, <1>29, <1>30, <1>31, <1>32, <1>33
       DEF Next, Main, Execute, Section, Handlers, Deliver, Watchdog

\* Every step keeps the logs of the pass true until an interrupt.
LEMMA TrueLogsStep == TypeOK /\ BoundLog /\ TrueLogs /\ [Next]_vars => TrueLogs'
<1> SUFFICES ASSUME TypeOK /\ BoundLog /\ TrueLogs, [Next]_vars PROVE TrueLogs'
    OBVIOUS
<1> USE SecsType, OrderType
<1> USE DEF TypeOK, BoundLog, TrueLogs, ReporterStep, OverPCs, Status, Unset, NoSec, vars, control, flags, logs, async, Zone, Transit, PCs
<1>1. CASE DurationExpires
    BY <1>1 DEF DurationExpires
<1>2. CASE LoopExpires
    BY <1>2 DEF LoopExpires
<1>3. CASE HandlerAcquires
    BY <1>3 DEF HandlerAcquires
<1>4. CASE HandlerKills
    BY <1>4 DEF HandlerKills
<1>5. CASE Start
    BY <1>5 DEF Start
<1>6. CASE StartTimers
    BY <1>6 DEF StartTimers
<1>7. CASE StartHarasser
    BY <1>7 DEF StartHarasser
<1>8. CASE NewPass
    BY <1>8 DEF NewPass
<1>9. CASE LastPass
    BY <1>9 DEF LastPass
<1>10. CASE Teardown
    BY <1>10 DEF Teardown, Cancelled
<1>11. CASE Return
    BY <1>11 DEF Return
<1>12. CASE Visit
    BY <1>12 DEF Visit, Filtered
<1>13. CASE NextSection
    BY <1>13 DEF NextSection
<1>14. CASE PassOver
    BY <1>14 DEF PassOver
<1>15. CASE StopHere
    BY <1>15 DEF StopHere
<1>16. CASE Begin
    BY <1>16 DEF Begin
<1>17. CASE Refuse
    BY <1>17 DEF Refuse
<1>18. CASE RunIfSkips
    BY <1>18 DEF RunIfSkips
<1>19. CASE Accept
    BY <1>19 DEF Accept
<1>20. CASE PluginReturns
    BY <1>20 DEF PluginReturns, Raise
<1>21. CASE PluginRaises
    BY <1>21 DEF PluginRaises, Raise
<1>22. CASE SaveLogRaises
    BY <1>22 DEF SaveLogRaises
<1>23. CASE Judge
    BY <1>23 DEF Judge, Raise
<1>24. CASE Back
    BY <1>24 DEF Back
<1>25. CASE KeyboardHandler
    BY <1>25 DEF KeyboardHandler, Handle, Cancelled
<1>26. CASE HandlerUnbound
    BY <1>26 DEF HandlerUnbound, Cancelled
<1>27. CASE ExceptionHandler
    BY <1>27 DEF ExceptionHandler, Handle, Cancelled
<1>28. CASE Interrupt
    BY <1>28 DEF Interrupt
<1>29. CASE InterruptSwallowed
    BY <1>29 DEF InterruptSwallowed
<1>30. CASE InterruptEscapes
    BY <1>30 DEF InterruptEscapes
<1>31. CASE UNCHANGED vars
    BY <1>31
<1>32. CASE HeadRaises
    BY <1>32 DEF HeadRaises, Raise
<1>33. CASE GateRaises
    BY <1>33 DEF GateRaises, Raise
<1>. QED
    BY <1>1, <1>2, <1>3, <1>4, <1>5, <1>6, <1>7, <1>8, <1>9, <1>10, <1>11, <1>12, <1>13, <1>14, <1>15, <1>16, <1>17, <1>18, <1>19, <1>20, <1>21, <1>22, <1>23, <1>24, <1>25, <1>26, <1>27, <1>28, <1>29, <1>30, <1>31, <1>32, <1>33
       DEF Next, Main, Execute, Section, Handlers, Deliver, Watchdog

\* Type correctness, and what makes it inductive.
THEOREM SpecIInv == Spec => []IInv
<1>1. Init => IInv
    BY InitIInv
<1>2. IInv /\ [Next]_vars => IInv'
    BY TypeStep, BoundStep, TimerStep, SemStep DEF IInv
<1>. QED
    BY <1>1, <1>2, PTL DEF Spec

\* Every variable of the executor keeps its type, for every INI file.
THEOREM SpecTypeOK == Spec => []TypeOK
<1>1. IInv => TypeOK
    BY DEF IInv
<1>. QED
    BY <1>1, SpecIInv, PTL

\* Every unit of plugin_trans_sem is accounted for, in every state.
THEOREM SpecSemAccount == Spec => []SemAccount
<1>1. IInv => SemAccount
    BY DEF IInv
<1>. QED
    BY <1>1, SpecIInv, PTL

\* The watchdog interrupts only inside the `try' of a section as long as every
\* section has taken the semaphore back.
THEOREM SpecGuardedInterrupt == Spec => []GuardedInterrupt
<1>1. IInv => GuardedInterrupt
    <2> SUFFICES ASSUME IInv, sigint, leaks = 0
                 PROVE  pc \in Zone \cup {"done", "escaped"}
        BY DEF GuardedInterrupt
    <2>1. CASE pc = "escaped"
        BY <2>1
    <2>2. CASE pc # "escaped"
        <3>1. sem + One(pc \in Transit) + One(timer["duration"] = "killing") + 1 = 1
            BY <2>2 DEF IInv, SemAccount, One
        <3>2. pc \notin Transit
            BY <3>1 DEF IInv, TypeOK, One
        <3>3. pc # "start"
            BY DEF IInv, TimerOrder
        <3>. QED
            BY <2>2, <3>2, <3>3 DEF IInv, TypeOK, PCs
    <2>. QED
        BY <2>1, <2>2
<1>. QED
    BY <1>1, SpecIInv, PTL

\* No section other than a Reporter is started unless its parent's own plugin
\* has come back with status 0 in the same pass.
THEOREM SpecChildAfterSuccess == Spec => ChildAfterSuccess
<1> DEFINE Inv == IInv /\ TrueLogs
           Step == pc = "gate" /\ pc' = "run" /\ Parent # NoSec /\ ~ReporterStep
                     => Parent \in passed
<1>1. Init => TrueLogs
    BY DEF Init, TrueLogs, Zone
<1>2. Inv /\ [Next]_vars => TrueLogs'
    BY TrueLogsStep DEF IInv
<1>3. Inv /\ [Next]_vars => Step
    <2> SUFFICES ASSUME Inv, [Next]_vars, pc = "gate", pc' = "run",
                        Parent # NoSec, ~ReporterStep
                 PROVE  Parent \in passed
        OBVIOUS
    <2>1. ~only_reporter
        BY DEF TrueLogs, Zone
    <2>2. \A s \in logged : slog[s] = 0 => s \in passed
        BY <2>1 DEF TrueLogs, OverPCs
    <2>3. ParentOK
        BY DEF Next, Main, Execute, Section, Handlers, Deliver, Watchdog,
               DurationExpires, LoopExpires, HandlerAcquires, HandlerKills,
               Start, StartTimers, StartHarasser, NewPass, LastPass, Teardown,
               Return, Visit, NextSection, PassOver, StopHere, HeadRaises,
               Begin, GateRaises, Refuse, RunIfSkips, Accept, PluginReturns, PluginRaises, SaveLogRaises,
               Judge, Back, KeyboardHandler, HandlerUnbound,
               ExceptionHandler, Interrupt, InterruptSwallowed,
               InterruptEscapes, vars, Raise
    <2>. QED
        BY <2>2, <2>3 DEF ParentOK
<1>4. Spec => []Inv
    BY <1>1, <1>2, SpecIInv, PTL DEF Spec
<1>. QED
    BY <1>3, <1>4, PTL DEF Spec, ChildAfterSuccess
-----------------------------------------------------------------------------
(* The Reporter sections.  Reporter is the last step of a pass, so that a     *)
(* reporter that runs does so in the last pass, and is not met again in it.   *)

\* Nothing of the executor moves when the timers do.
Still == <<pc, stage, sec, cur, slog, logged, passed, runs, status, only_reporter,
           looping, looped>>

\* The loops have come to s and given it its turn.
HadTurn(s) ==
    /\ ReporterStep
    /\ s < sec \/ (s = sec /\ pc \notin {"visit", "title", "gate"})

RanLast ==
    \A s \in Secs : Ini[s].stage = "Reporter" /\ runs[s] # 0 =>
        /\ ~looping /\ looped /\ pc \notin {"start", "timers", "harass"}
        /\ pc \in OverPCs \/ HadTurn(s)

\* A reporter is entered in the last pass only; other sections of its step are
\* passed over there.
StepLast == ReporterStep /\ pc \in Zone \cup {"exc", "kbd"} => ~looping

GateMine == pc \in {"gate", "run"} => Mine
InPass == pc \in Zone \cup {"visit", "next", "exc", "kbd", "teardown", "final", "done"} => looped

\* A reporter is started at most once.
Once == ReportedOnce /\ RanLast /\ StepLast /\ GateMine /\ InPass

\* The step is the Reporter step only when it is the last.
LEMMA LastStep ==
    ASSUME TypeOK PROVE ReporterStep <=> stage = Len(StageOrder)
BY OrderAssumption, OrderType DEF TypeOK, ReporterStep

\* The threads of the timers touch nothing that the sections do.
LEMMA WatchdogStill == Watchdog => UNCHANGED Still
BY DEF Watchdog, DurationExpires, LoopExpires, HandlerAcquires, HandlerKills,
       Still, control, flags, logs

\* Every step keeps a reporter that has run behind the loops, in the last pass.
LEMMA OnceStep == TypeOK /\ Once /\ [Next]_vars => Once'
<1> SUFFICES ASSUME TypeOK, Once, [Next]_vars PROVE Once'
    OBVIOUS
<1> USE SecsType, OrderType, LastStep
<1> USE DEF TypeOK, Once, ReportedOnce, RanLast, StepLast, GateMine, InPass, Mine, HadTurn,
            ReporterStep, OverPCs, Zone, vars, control, flags, logs, async
<1>1. CASE Watchdog
    BY <1>1, WatchdogStill DEF Still
<1>2. CASE Start \/ StartHarasser \/ LastPass \/ Teardown \/ Return
    BY <1>2 DEF Start, StartHarasser, LastPass, Teardown, Return
<1>3. CASE StartTimers
    BY <1>3 DEF StartTimers
<1>4. CASE NewPass
    BY <1>4 DEF NewPass
<1>5. CASE Visit
    BY <1>5 DEF Visit, Filtered
<1>6. CASE NextSection
    BY <1>6 DEF NextSection
<1>7. CASE PassOver \/ StopHere \/ HeadRaises \/ Begin
    <2>1. CASE PassOver \/ StopHere \/ Begin
        BY <2>1 DEF PassOver, StopHere, Begin
    <2>2. CASE HeadRaises
        BY <2>2 DEF HeadRaises, Raise
    <2>. QED
        BY <1>7, <2>1, <2>2
<1>8. CASE GateRaises \/ Refuse \/ RunIfSkips
    <2>1. CASE Refuse \/ RunIfSkips
        BY <2>1 DEF Refuse, RunIfSkips
    <2>2. CASE GateRaises
        BY <2>2 DEF GateRaises, Raise
    <2>. QED
        BY <1>8, <2>1, <2>2
<1>9. CASE Accept
    <2>1. Ini[sec].stage = "Reporter" => runs[sec] = 0 /\ ~looping /\ looped
        BY <1>9 DEF Accept
    <2>2. \A s \in Secs :
              runs'[s] = IF s # sec THEN runs[s] ELSE IF runs[s] = 2 THEN 2 ELSE runs[s] + 1
        BY <1>9 DEF Accept
    <2>3. UNCHANGED <<stage, sec, looping, looped>> /\ pc = "gate" /\ pc' = "run"
        BY <1>9 DEF Accept
    <2>. QED
        BY <2>1, <2>2, <2>3
<1>10. CASE PluginReturns \/ PluginRaises
    BY <1>10 DEF PluginReturns, PluginRaises, Raise
<1>11. CASE SaveLogRaises \/ Judge \/ Back
    <2>1. CASE SaveLogRaises
        BY <2>1 DEF SaveLogRaises
    <2>2. CASE Judge
        BY <2>2 DEF Judge, Raise
    <2>3. CASE Back
        BY <2>3 DEF Back
    <2>. QED
        BY <1>11, <2>1, <2>2, <2>3
<1>12. CASE Handlers
    BY <1>12 DEF Handlers, KeyboardHandler, HandlerUnbound, ExceptionHandler, Handle
<1>13. CASE Deliver
    <2>1. CASE Interrupt
        BY <2>1 DEF Interrupt
    <2>2. CASE InterruptSwallowed
        BY <2>2 DEF InterruptSwallowed
    <2>3. CASE InterruptEscapes
        BY <2>3 DEF InterruptEscapes
    <2>. QED
        BY <1>13, <2>1, <2>2, <2>3 DEF Deliver
<1>14. CASE UNCHANGED vars
    BY <1>14
<1>. QED
    BY <1>1, <1>2, <1>3, <1>4, <1>5, <1>6, <1>7, <1>8, <1>9, <1>10, <1>11, <1>12, <1>13, <1>14
       DEF Next, Main, Execute, Section

\* The reporters that the loops have been past in this pass, or in the last one.
Gone ==
    {s \in Reporters :
        /\ looped
        /\ pc \notin OverPCs => ReporterStep /\ (s < sec \/ (s = sec /\ pc = "next"))}

\* No STOP, and reporters are not held back for the passes to come.
Owed == (\A s \in Secs : Ini[s].titled # "STOP") /\ (~looping \/ only_reporter)

\* Each of them has a log; all but one, once the watchdog's interrupt has been
\* delivered.
Struck == timer["duration"] = "fired" /\ ~sigint
ReportsKept ==
    Owed /\ pc # "escaped" =>
        \/ Gone \subseteq logged
        \/ Struck /\ pc # "kbd" /\ \E x \in Secs : Gone \subseteq logged \cup {x}

KbdStruck == pc = "kbd" => Struck
Ended ==
    /\ pc \in {"start", "timers", "harass"} => ~looped
    /\ pc \in {"teardown", "final", "done"} => ~looping

\* A reporter's section that comes to its end has a log.
Logged == pc \in {"save", "back"} /\ sec \in Reporters /\ ReporterStep => sec \in logged

ReportInv == ReportsKept /\ KbdStruck /\ Ended /\ Logged

\* A step that puts no reporter without a log behind the loops.
LEMMA KeptStill ==
    ASSUME ReportsKept, Owed' /\ pc' # "escaped" => Owed /\ pc # "escaped",
           Gone' \subseteq Gone \cup logged', logged \subseteq logged',
           Struck => Struck', pc' # "kbd"
    PROVE  ReportsKept'
BY SecsType DEF ReportsKept

\* Where all have a log.
LEMMA KeptAll == ASSUME Gone' \subseteq logged' PROVE ReportsKept'
BY DEF ReportsKept

\* Where none has to have one yet, or the user has stopped the run.
LEMMA KeptFree == ASSUME ~Owed' \/ pc' = "escaped" PROVE ReportsKept'
BY DEF ReportsKept

\* Every step keeps what the reporters have logged.
LEMMA ReportStep ==
    TypeOK /\ BoundLog /\ TimerOrder /\ Once /\ ReportInv /\ [Next]_vars => ReportInv'
<1> SUFFICES ASSUME TypeOK, BoundLog, TimerOrder, Once, ReportInv, [Next]_vars
             PROVE  ReportInv'
    OBVIOUS
<1> USE SecsType, OrderType, LastStep
<1> USE DEF TypeOK, BoundLog, TimerOrder, Once, StepLast, InPass, GateMine, KbdStruck,
            Struck, Ended, Logged, Reporters, Mine, ReporterStep, OverPCs, Zone, Timers,
            vars, control, flags, logs, async
<1>1. CASE Start
    <2>1. (KbdStruck /\ Ended /\ Logged)'
        BY <1>1 DEF ReportInv, Start
    <2>2. /\ Owed' /\ pc' # "escaped" => Owed /\ pc # "escaped"
          /\ logged \subseteq logged'
          /\ Struck => Struck'
          /\ pc' # "kbd"
        BY <1>1 DEF ReportInv, Owed, Start
    <2>3. Gone' \subseteq Gone \cup logged'
        BY <1>1 DEF ReportInv, Gone, Start
    <2>4. ReportsKept'
        BY <2>2, <2>3, KeptStill DEF ReportInv
    <2>. QED
        BY <2>1, <2>4 DEF ReportInv
<1>2. CASE StartTimers
    <2>1. (KbdStruck /\ Ended /\ Logged)'
        BY <1>2 DEF ReportInv, StartTimers
    <2>2. Gone' = {}
        BY <1>2 DEF ReportInv, Gone, StartTimers
    <2>3. ReportsKept'
        BY <2>2, KeptAll
    <2>. QED
        BY <2>1, <2>3 DEF ReportInv
<1>3. CASE StartHarasser
    <2>1. (KbdStruck /\ Ended /\ Logged)'
        BY <1>3 DEF ReportInv, StartHarasser
    <2>2. /\ Owed' /\ pc' # "escaped" => Owed /\ pc # "escaped"
          /\ logged \subseteq logged'
          /\ Struck => Struck'
          /\ pc' # "kbd"
        BY <1>3 DEF ReportInv, Owed, StartHarasser
    <2>3. Gone' \subseteq Gone \cup logged'
        BY <1>3 DEF ReportInv, Gone, StartHarasser
    <2>4. ReportsKept'
        BY <2>2, <2>3, KeptStill DEF ReportInv
    <2>. QED
        BY <2>1, <2>4 DEF ReportInv
<1>4. CASE NewPass
    <2>1. (KbdStruck /\ Ended /\ Logged)'
        BY <1>4 DEF ReportInv, NewPass
    <2>2. Gone' = {}
        BY <1>4 DEF ReportInv, Gone, NewPass
    <2>3. ReportsKept'
        BY <2>2, KeptAll
    <2>. QED
        BY <2>1, <2>3 DEF ReportInv
<1>5. CASE LastPass
    <2>1. (KbdStruck /\ Ended /\ Logged)'
        BY <1>5 DEF ReportInv, LastPass
    <2>2. /\ Owed' /\ pc' # "escaped" => Owed /\ pc # "escaped"
          /\ logged \subseteq logged'
          /\ Struck => Struck'
          /\ pc' # "kbd"
        BY <1>5 DEF ReportInv, Owed, LastPass
    <2>3. Gone' \subseteq Gone \cup logged'
        BY <1>5 DEF ReportInv, Gone, LastPass
    <2>4. ReportsKept'
        BY <2>2, <2>3, KeptStill DEF ReportInv
    <2>. QED
        BY <2>1, <2>4 DEF ReportInv
<1>6. CASE Teardown
    <2>1. (KbdStruck /\ Ended /\ Logged)'
        BY <1>6 DEF ReportInv, Teardown, Cancelled
    <2>2. /\ Owed' /\ pc' # "escaped" => Owed /\ pc # "escaped"
          /\ logged \subseteq logged'
          /\ Struck => Struck'
          /\ pc' # "kbd"
        BY <1>6 DEF ReportInv, Owed, Teardown, Cancelled
    <2>3. Gone' \subseteq Gone \cup logged'
        BY <1>6 DEF ReportInv, Gone, Teardown, Cancelled
    <2>4. ReportsKept'
        BY <2>2, <2>3, KeptStill DEF ReportInv
    <2>. QED
        BY <2>1, <2>4 DEF ReportInv
<1>7. CASE Return
    <2>1. (KbdStruck /\ Ended /\ Logged)'
        BY <1>7 DEF ReportInv, Return
    <2>2. /\ Owed' /\ pc' # "escaped" => Owed /\ pc # "escaped"
          /\ logged \subseteq logged'
          /\ Struck => Struck'
          /\ pc' # "kbd"
        BY <1>7 DEF ReportInv, Owed, Return
    <2>3. Gone' \subseteq Gone \cup logged'
        BY <1>7 DEF ReportInv, Gone, Return
    <2>4. ReportsKept'
        BY <2>2, <2>3, KeptStill DEF ReportInv
    <2>. QED
        BY <2>1, <2>4 DEF ReportInv
<1>8. CASE Visit
    <2>1. (KbdStruck /\ Ended /\ Logged)'
        BY <1>8 DEF ReportInv, Visit, Filtered
    <2>2. CASE Filtered /\ ReporterStep
        <3>1. ~Owed'
            BY <1>8, <2>2 DEF Owed, Visit, Filtered
        <3>. QED
            BY <2>1, <3>1, KeptFree DEF ReportInv
    <2>3. CASE ~(Filtered /\ ReporterStep)
        <3>1. /\ Owed' /\ pc' # "escaped" => Owed /\ pc # "escaped"
              /\ logged \subseteq logged'
              /\ Struck => Struck'
              /\ pc' # "kbd"
            BY <1>8, <2>3 DEF ReportInv, Owed, Filtered, Visit
        <3>2. Gone' \subseteq Gone \cup logged'
            BY <1>8, <2>3 DEF ReportInv, Gone, Visit
        <3>. QED
            BY <2>1, <3>1, <3>2, KeptStill DEF ReportInv
    <2>. QED
        BY <2>2, <2>3
<1>9. CASE NextSection
    <2>1. (KbdStruck /\ Ended /\ Logged)'
        BY <1>9 DEF ReportInv, NextSection
    <2>2. /\ Owed' /\ pc' # "escaped" => Owed /\ pc # "escaped"
          /\ logged \subseteq logged'
          /\ Struck => Struck'
          /\ pc' # "kbd"
        BY <1>9 DEF ReportInv, Owed, NextSection
    <2>3. Gone' \subseteq Gone \cup logged'
        BY <1>9 DEF ReportInv, Gone, NextSection
    <2>4. ReportsKept'
        BY <2>2, <2>3, KeptStill DEF ReportInv
    <2>. QED
        BY <2>1, <2>4 DEF ReportInv
<1>10. CASE PassOver
    <2>1. (KbdStruck /\ Ended /\ Logged)'
        BY <1>10 DEF ReportInv, PassOver
    <2>2. /\ Owed' /\ pc' # "escaped" => Owed /\ pc # "escaped"
          /\ logged \subseteq logged'
          /\ Struck => Struck'
          /\ pc' # "kbd"
        BY <1>10 DEF ReportInv, Owed, PassOver
    <2>3. Gone' \subseteq Gone \cup logged'
        BY <1>10 DEF ReportInv, Gone, PassOver
    <2>4. ReportsKept'
        BY <2>2, <2>3, KeptStill DEF ReportInv
    <2>. QED
        BY <2>1, <2>4 DEF ReportInv
<1>11. CASE StopHere
    <2>1. (KbdStruck /\ Ended /\ Logged)'
        BY <1>11 DEF ReportInv, StopHere
    <2>2. ~Owed' \/ pc' = "escaped"
        BY <1>11 DEF Owed, StopHere
    <2>3. ReportsKept'
        BY <2>2, KeptFree
    <2>. QED
        BY <2>1, <2>3 DEF ReportInv
<1>12. CASE Begin
    <2>1. (KbdStruck /\ Ended /\ Logged)'
        BY <1>12 DEF ReportInv, Begin
    <2>2. /\ Owed' /\ pc' # "escaped" => Owed /\ pc # "escaped"
          /\ logged \subseteq logged'
          /\ Struck => Struck'
          /\ pc' # "kbd"
        BY <1>12 DEF ReportInv, Owed, Begin
    <2>3. Gone' \subseteq Gone \cup logged'
        BY <1>12 DEF ReportInv, Gone, Begin
    <2>4. ReportsKept'
        BY <2>2, <2>3, KeptStill DEF ReportInv
    <2>. QED
        BY <2>1, <2>4 DEF ReportInv
<1>13. CASE Refuse
    <2>1. (KbdStruck /\ Ended /\ Logged)'
        BY <1>13 DEF ReportInv, Refuse
    <2>2. /\ Owed' /\ pc' # "escaped" => Owed /\ pc # "escaped"
          /\ logged \subseteq logged'
          /\ Struck => Struck'
          /\ pc' # "kbd"
        BY <1>13 DEF ReportInv, Owed, Refuse
    <2>3. Gone' \subseteq Gone \cup logged'
        BY <1>13 DEF ReportInv, Gone, Refuse
    <2>4. ReportsKept'
        BY <2>2, <2>3, KeptStill DEF ReportInv
    <2>. QED
        BY <2>1, <2>4 DEF ReportInv
<1>14. CASE RunIfSkips
    <2>1. (KbdStruck /\ Ended /\ Logged)'
        BY <1>14 DEF ReportInv, RunIfSkips
    <2>2. /\ Owed' /\ pc' # "escaped" => Owed /\ pc # "escaped"
          /\ logged \subseteq logged'
          /\ Struck => Struck'
          /\ pc' # "kbd"
        BY <1>14 DEF ReportInv, Owed, RunIfSkips
    <2>3. Gone' \subseteq Gone \cup logged'
        BY <1>14 DEF ReportInv, Gone, RunIfSkips
    <2>4. ReportsKept'
        BY <2>2, <2>3, KeptStill DEF ReportInv
    <2>. QED
        BY <2>1, <2>4 DEF ReportInv
<1>15. CASE Accept
    <2>1. (KbdStruck /\ Ended /\ Logged)'
        BY <1>15 DEF ReportInv, Accept
    <2>2. /\ Owed' /\ pc' # "escaped" => Owed /\ pc # "escaped"
          /\ logged \subseteq logged'
          /\ Struck => Struck'
          /\ pc' # "kbd"
        BY <1>15 DEF ReportInv, Owed, Accept
    <2>3. Gone' \subseteq Gone \cup logged'
        BY <1>15 DEF ReportInv, Gone, Accept
    <2>4. ReportsKept'
        BY <2>2, <2>3, KeptStill DEF ReportInv
    <2>. QED
        BY <2>1, <2>4 DEF ReportInv
<1>16. CASE PluginReturns
    <2>1. (KbdStruck /\ Ended /\ Logged)'
        BY <1>16 DEF ReportInv, PluginReturns, Raise
    <2>2. /\ Owed' /\ pc' # "escaped" => Owed /\ pc # "escaped"
          /\ logged \subseteq logged'
          /\ Struck => Struck'
          /\ pc' # "kbd"
        BY <1>16 DEF ReportInv, Owed, PluginReturns, Raise
    <2>3. Gone' \subseteq Gone \cup logged'
        BY <1>16 DEF ReportInv, Gone, PluginReturns, Raise
    <2>4. ReportsKept'
        BY <2>2, <2>3, KeptStill DEF ReportInv
    <2>. QED
        BY <2>1, <2>4 DEF ReportInv
<1>17. CASE PluginRaises
    <2>1. (KbdStruck /\ Ended /\ Logged)'
        BY <1>17 DEF ReportInv, PluginRaises, Raise
    <2>2. /\ Owed' /\ pc' # "escaped" => Owed /\ pc # "escaped"
          /\ logged \subseteq logged'
          /\ Struck => Struck'
          /\ pc' # "kbd"
        BY <1>17 DEF ReportInv, Owed, PluginRaises, Raise
    <2>3. Gone' \subseteq Gone \cup logged'
        BY <1>17 DEF ReportInv, Gone, PluginRaises, Raise
    <2>4. ReportsKept'
        BY <2>2, <2>3, KeptStill DEF ReportInv
    <2>. QED
        BY <2>1, <2>4 DEF ReportInv
<1>18. CASE SaveLogRaises
    <2>1. (KbdStruck /\ Ended /\ Logged)'
        BY <1>18 DEF ReportInv, SaveLogRaises
    <2>2. /\ Owed' /\ pc' # "escaped" => Owed /\ pc # "escaped"
          /\ logged \subseteq logged'
          /\ Struck => Struck'
          /\ pc' # "kbd"
        BY <1>18 DEF ReportInv, Owed, SaveLogRaises
    <2>3. Gone' \subseteq Gone \cup logged'
        BY <1>18 DEF ReportInv, Gone, SaveLogRaises
    <2>4. ReportsKept'
        BY <2>2, <2>3, KeptStill DEF ReportInv
    <2>. QED
        BY <2>1, <2>4 DEF ReportInv
<1>19. CASE Judge
    <2>1. (KbdStruck /\ Ended /\ Logged)'
        BY <1>19 DEF ReportInv, Judge, Raise
    <2>2. /\ Owed' /\ pc' # "escaped" => Owed /\ pc # "escaped"
          /\ logged \subseteq logged'
          /\ Struck => Struck'
          /\ pc' # "kbd"
        BY <1>19 DEF ReportInv, Owed, Judge, Raise
    <2>3. Gone' \subseteq Gone \cup logged'
        BY <1>19 DEF ReportInv, Gone, Judge, Raise
    <2>4. ReportsKept'
        BY <2>2, <2>3, KeptStill DEF ReportInv
    <2>. QED
        BY <2>1, <2>4 DEF ReportInv
<1>20. CASE Back
    <2>1. (KbdStruck /\ Ended /\ Logged)'
        BY <1>20 DEF ReportInv, Back
    <2>2. /\ Owed' /\ pc' # "escaped" => Owed /\ pc # "escaped"
          /\ logged \subseteq logged'
          /\ Struck => Struck'
          /\ pc' # "kbd"
        BY <1>20 DEF ReportInv, Owed, Back
    <2>3. Gone' \subseteq Gone \cup logged'
        BY <1>20 DEF ReportInv, Gone, Back
    <2>4. ReportsKept'
        BY <2>2, <2>3, KeptStill DEF ReportInv
    <2>. QED
        BY <2>1, <2>4 DEF ReportInv
<1>21. CASE KeyboardHandler
    <2>1. (KbdStruck /\ Ended /\ Logged)'
        BY <1>21 DEF ReportInv, KeyboardHandler, Handle, Cancelled
    <2>2. CASE ReporterStep /\ Owed'
        <3>1. Owed
            BY <1>21, <2>2 DEF Owed, KeyboardHandler, Handle
        <3>2. Gone \subseteq logged
            BY <1>21, <3>1 DEF ReportInv, ReportsKept, KeyboardHandler
        <3>3. Gone' \subseteq Gone \cup {sec} /\ logged \subseteq logged'
            BY <1>21 DEF Gone, KeyboardHandler, Handle
        <3>4. Struck' /\ pc' # "kbd"
            BY <1>21 DEF ReportInv, KeyboardHandler, Handle, Cancelled
        <3>5. ReportsKept'
            BY <3>2, <3>3, <3>4 DEF ReportsKept
        <3>. QED
            BY <2>1, <3>5 DEF ReportInv
    <2>3. CASE ~ReporterStep
        <3>1. Gone' = {}
            BY <1>21, <2>3 DEF Gone, KeyboardHandler, Handle
        <3>. QED
            BY <2>1, <3>1, KeptAll DEF ReportInv
    <2>. QED
        BY <2>1, <2>2, <2>3, KeptFree DEF ReportInv
<1>22. CASE HandlerUnbound
    <2>1. (KbdStruck /\ Ended /\ Logged)'
        BY <1>22 DEF ReportInv, HandlerUnbound, Cancelled
    <2>2. ~Owed' \/ pc' = "escaped"
        BY <1>22 DEF Owed, HandlerUnbound
    <2>3. ReportsKept'
        BY <2>2, KeptFree
    <2>. QED
        BY <2>1, <2>3 DEF ReportInv
<1>23. CASE ExceptionHandler
    <2>1. (KbdStruck /\ Ended /\ Logged)'
        BY <1>23 DEF ReportInv, ExceptionHandler, Handle, Cancelled
    <2>2. CASE ReporterStep
        <3>1. Owed' /\ pc' # "escaped" => Owed /\ pc # "escaped"
            BY <1>23, <2>2 DEF Owed, ExceptionHandler, Handle
        <3>2. logged \subseteq logged' /\ pc' # "kbd"
            BY <1>23 DEF ExceptionHandler, Handle
        <3>3. Struck => Struck'
            BY <1>23 DEF ExceptionHandler, Handle, Cancelled
        <3>4. Gone' \subseteq Gone \cup logged'
            BY <1>23 DEF Gone, ExceptionHandler, Handle
        <3>. QED
            BY <2>1, <3>1, <3>2, <3>3, <3>4, KeptStill DEF ReportInv
    <2>3. CASE ~ReporterStep
        <3>1. Gone' = {}
            BY <1>23, <2>3 DEF Gone, ExceptionHandler, Handle
        <3>. QED
            BY <2>1, <3>1, KeptAll DEF ReportInv
    <2>. QED
        BY <2>2, <2>3
<1>24. CASE Interrupt
    <2>1. (KbdStruck /\ Ended /\ Logged)'
        BY <1>24 DEF ReportInv, Interrupt
    <2>2. CASE Owed
        <3>1. Gone \subseteq logged
            BY <1>24, <2>2 DEF ReportInv, ReportsKept, Interrupt
        <3>2. Gone' \subseteq logged'
            BY <1>24, <3>1 DEF Gone, Interrupt
        <3>. QED
            BY <2>1, <3>2, KeptAll DEF ReportInv
    <2>3. CASE ~Owed
        <3>1. ~Owed'
            BY <1>24, <2>3 DEF Owed, Interrupt
        <3>. QED
            BY <2>1, <3>1, KeptFree DEF ReportInv
    <2>. QED
        BY <2>2, <2>3
<1>25. CASE InterruptSwallowed
    <2>1. (KbdStruck /\ Ended /\ Logged)'
        BY <1>25 DEF ReportInv, InterruptSwallowed
    <2>2. /\ Owed' /\ pc' # "escaped" => Owed /\ pc # "escaped"
          /\ logged \subseteq logged'
          /\ Struck => Struck'
          /\ pc' # "kbd"
        BY <1>25 DEF ReportInv, Owed, InterruptSwallowed
    <2>3. Gone' \subseteq Gone \cup logged'
        BY <1>25 DEF ReportInv, Gone, InterruptSwallowed
    <2>4. ReportsKept'
        BY <2>2, <2>3, KeptStill DEF ReportInv
    <2>. QED
        BY <2>1, <2>4 DEF ReportInv
<1>26. CASE InterruptEscapes
    <2>1. (KbdStruck /\ Ended /\ Logged)'
        BY <1>26 DEF ReportInv, InterruptEscapes
    <2>2. ~Owed' \/ pc' = "escaped"
        BY <1>26 DEF Owed, InterruptEscapes
    <2>3. ReportsKept'
        BY <2>2, KeptFree
    <2>. QED
        BY <2>1, <2>3 DEF ReportInv
<1>27. CASE DurationExpires
    <2>1. (KbdStruck /\ Ended /\ Logged)'
        BY <1>27 DEF ReportInv, DurationExpires
    <2>2. /\ Owed' /\ pc' # "escaped" => Owed /\ pc # "escaped"
          /\ logged \subseteq logged'
          /\ Struck => Struck'
          /\ pc' # "kbd"
        BY <1>27 DEF ReportInv, Owed, DurationExpires
    <2>3. Gone' \subseteq Gone \cup logged'
        BY <1>27 DEF ReportInv, Gone, DurationExpires
    <2>4. ReportsKept'
        BY <2>2, <2>3, KeptStill DEF ReportInv
    <2>. QED
        BY <2>1, <2>4 DEF ReportInv
<1>28. CASE LoopExpires
    <2>1. (KbdStruck /\ Ended /\ Logged)'
        BY <1>28 DEF ReportInv, LoopExpires
    <2>2. UNCHANGED Still /\ UNCHANGED sigint
        BY <1>28 DEF LoopExpires, Still
    <2>3. timer'["duration"] = timer["duration"]
        BY <1>28 DEF LoopExpires
    <2>4. /\ Owed' /\ pc' # "escaped" => Owed /\ pc # "escaped"
          /\ logged \subseteq logged'
          /\ Struck => Struck'
          /\ pc' # "kbd" \/ pc = "kbd"
        BY <2>2, <2>3 DEF Owed, Still
    <2>5. Gone' = Gone
        BY <2>2 DEF Gone, Still
    <2>6. ReportsKept'
        BY <2>2, <2>3, <2>4, <2>5 DEF Still, ReportInv, ReportsKept
    <2>. QED
        BY <2>1, <2>6 DEF ReportInv
<1>29. CASE HandlerAcquires
    <2>1. (KbdStruck /\ Ended /\ Logged)'
        BY <1>29 DEF ReportInv, HandlerAcquires
    <2>2. /\ Owed' /\ pc' # "escaped" => Owed /\ pc # "escaped"
          /\ logged \subseteq logged'
          /\ Struck => Struck'
          /\ pc' # "kbd"
        BY <1>29 DEF ReportInv, Owed, HandlerAcquires
    <2>3. Gone' \subseteq Gone \cup logged'
        BY <1>29 DEF ReportInv, Gone, HandlerAcquires
    <2>4. ReportsKept'
        BY <2>2, <2>3, KeptStill DEF ReportInv
    <2>. QED
        BY <2>1, <2>4 DEF ReportInv
<1>30. CASE HandlerKills
    <2>1. (KbdStruck /\ Ended /\ Logged)'
        BY <1>30 DEF ReportInv, HandlerKills
    <2>2. /\ Owed' /\ pc' # "escaped" => Owed /\ pc # "escaped"
          /\ logged \subseteq logged'
          /\ Struck => Struck'
          /\ pc' # "kbd"
        BY <1>30 DEF ReportInv, Owed, HandlerKills
    <2>3. Gone' \subseteq Gone \cup logged'
        BY <1>30 DEF ReportInv, Gone, HandlerKills
    <2>4. ReportsKept'
        BY <2>2, <2>3, KeptStill DEF ReportInv
    <2>. QED
        BY <2>1, <2>4 DEF ReportInv
<1>31. CASE UNCHANGED vars
    BY <1>31 DEF ReportInv, ReportsKept, Owed, Gone
<1>32. CASE HeadRaises
    <2>1. (KbdStruck /\ Ended /\ Logged)'
        BY <1>32 DEF ReportInv, HeadRaises, Raise
    <2>2. /\ Owed' /\ pc' # "escaped" => Owed /\ pc # "escaped"
          /\ logged \subseteq logged'
          /\ Struck => Struck'
          /\ pc' # "kbd"
        BY <1>32 DEF ReportInv, Owed, HeadRaises, Raise
    <2>3. Gone' \subseteq Gone \cup logged'
        BY <1>32 DEF ReportInv, Gone, HeadRaises, Raise
    <2>4. ReportsKept'
        BY <2>2, <2>3, KeptStill DEF ReportInv
    <2>. QED
        BY <2>1, <2>4 DEF ReportInv
<1>33. CASE GateRaises
    <2>1. (KbdStruck /\ Ended /\ Logged)'
        BY <1>33 DEF ReportInv, GateRaises, Raise
    <2>2. /\ Owed' /\ pc' # "escaped" => Owed /\ pc # "escaped"
          /\ logged \subseteq logged'
          /\ Struck => Struck'
          /\ pc' # "kbd"
        BY <1>33 DEF ReportInv, Owed, GateRaises, Raise
    <2>3. Gone' \subseteq Gone \cup logged'
        BY <1>33 DEF ReportInv, Gone, GateRaises, Raise
    <2>4. ReportsKept'
        BY <2>2, <2>3, KeptStill DEF ReportInv
    <2>. QED
        BY <2>1, <2>4 DEF ReportInv
<1>. QED
    BY <1>1, <1>2, <1>3, <1>4, <1>5, <1>6, <1>7, <1>8, <1>9, <1>10, <1>11, <1>12, <1>13, <1>14, <1>15, <1>16, <1>17, <1>18, <1>19, <1>20, <1>21, <1>22, <1>23, <1>24, <1>25, <1>26, <1>27, <1>28, <1>29, <1>30, <1>31, <1>32, <1>33
       DEF Next, Main, Execute, Section, Handlers, Deliver, Watchdog
-----------------------------------------------------------------------------
(* The exit status.  Orderly: each section has its plugin, with a savelog     *)
(* that works; the parent of a section is met before it, and is not passed    *)
(* over: it is active, has no qualifier and no run_if, and is no reporter.    *)
Plain(s) ==
    /\ Ini[s].active /\ Ini[s].titled = "plain" /\ Ini[s].runif = {"run"}
    /\ Ini[s].stage # "Reporter"

MetBefore(p, s) ==
    \E i \in DOMAIN StageOrder :
        /\ StageOrder[i] = Ini[p].stage
        /\ \A j \in DOMAIN StageOrder :
              StageOrder[j] = Ini[s].stage => i < j \/ (i = j /\ p < s)

Orderly ==
    \A s \in Secs :
        /\ Ini[s].plugin /\ Ini[s].savelog = {"saved"}
        /\ Ini[s].parent # NoSec =>
              Ini[s].parent \in Secs /\ Plain(Ini[s].parent) /\ MetBefore(Ini[s].parent, s)

NoTimers == ~Duration /\ (~Loop \/ LoopForever)

\* The loops have been past s in this pass.
Early(s) ==
    \E i \in DOMAIN StageOrder :
        /\ StageOrder[i] = Ini[s].stage
        /\ i < stage \/ (i = stage /\ (s < sec \/ (s = sec /\ pc = "next")))

\* Nothing interrupts; only a failure leaves no more than the reporters to run.
Calm ==
    /\ timer = [t \in Timers |-> "off"] /\ ~sigint /\ ~one_last_loop
    /\ pc # "kbd"
    /\ only_reporter => status = 1

AtHand ==
    /\ pc \in {"gate", "run", "save"} => Mine /\ Ini[sec].titled = "plain"
    /\ pc \in {"save", "back"} /\ Mine /\ Plain(sec) => sec \in logged

\* As long as nothing has failed, the sections behind the loops have their log.
EarlyLogged == status = 1 \/ \A s \in Secs : Plain(s) /\ Early(s) => s \in logged

\* What a log tells, the exit status tells, but for the section at hand.
LogsTold ==
    \A s \in logged : slog[s] # 0 => status = 1 \/ (s = sec /\ pc \in {"save", "exc", "escaped"})

StatusInv == Calm /\ AtHand /\ EarlyLogged /\ LogsTold

\* A section that is refused has a parent that failed, and the run has failed.
LEMMA RefusedChild ==
    ASSUME TypeOK, StatusInv, Orderly, pc = "gate", ~ParentOK
    PROVE  status = 1
<1>1. Mine /\ sec \in Secs /\ Ini[sec].parent = Parent /\ Parent # NoSec
    BY DEF StatusInv, AtHand, TypeOK, ParentOK, Parent
<1>2. Parent \in Secs /\ Plain(Parent) /\ MetBefore(Parent, sec)
    BY <1>1 DEF Orderly
<1>3. Early(Parent) /\ Parent # sec
    BY <1>1, <1>2, SecsType, OrderType DEF MetBefore, Early, Mine, TypeOK
<1>4. CASE Parent \notin logged
    BY <1>2, <1>3, <1>4 DEF StatusInv, EarlyLogged
<1>5. CASE Parent \in logged
    BY <1>1, <1>3, <1>5 DEF ParentOK, StatusInv, LogsTold
<1>. QED
    BY <1>4, <1>5

\* Every step keeps the exit status true.
LEMMA StatusStep ==
    ASSUME Orderly, NoTimers, TypeOK, BoundLog, StatusInv, [Next]_vars
    PROVE  StatusInv'
<1> USE SecsType, OrderType, OrderAssumption
<1> USE DEF TypeOK, BoundLog, Calm, AtHand, Mine, Plain, NoTimers, vars, control, flags,
            logs, async, Zone, Transit, Timers
<1>1. CASE Start
    <2>1. (Calm /\ AtHand)'
        BY <1>1 DEF StatusInv, Start
    <2>2. EarlyLogged'
        BY <1>1 DEF StatusInv, EarlyLogged, Early, Start
    <2>3. LogsTold'
        BY <1>1 DEF StatusInv, LogsTold, Start
    <2>. QED
        BY <2>1, <2>2, <2>3 DEF StatusInv
<1>2. CASE StartTimers
    <2>1. (Calm /\ AtHand)'
        BY <1>2 DEF StatusInv, StartTimers
    <2>2. EarlyLogged'
        BY <1>2 DEF StatusInv, EarlyLogged, Early, StartTimers
    <2>3. LogsTold'
        BY <1>2 DEF StatusInv, LogsTold, StartTimers
    <2>. QED
        BY <2>1, <2>2, <2>3 DEF StatusInv
<1>3. CASE StartHarasser
    <2>1. (Calm /\ AtHand)'
        BY <1>3 DEF StatusInv, StartHarasser
    <2>2. EarlyLogged'
        BY <1>3 DEF StatusInv, EarlyLogged, Early, StartHarasser
    <2>3. LogsTold'
        BY <1>3 DEF StatusInv, LogsTold, StartHarasser
    <2>. QED
        BY <2>1, <2>2, <2>3 DEF StatusInv
<1>4. CASE NewPass
    <2>1. (Calm /\ AtHand)'
        BY <1>4 DEF StatusInv, NewPass
    <2>2. EarlyLogged'
        BY <1>4 DEF StatusInv, EarlyLogged, Early, NewPass
    <2>3. LogsTold'
        BY <1>4 DEF StatusInv, LogsTold, NewPass
    <2>. QED
        BY <2>1, <2>2, <2>3 DEF StatusInv
<1>5. CASE LastPass
    <2>1. (Calm /\ AtHand)'
        BY <1>5 DEF StatusInv, LastPass
    <2>2. EarlyLogged'
        BY <1>5 DEF StatusInv, EarlyLogged, Early, LastPass
    <2>3. LogsTold'
        BY <1>5 DEF StatusInv, LogsTold, LastPass
    <2>. QED
        BY <2>1, <2>2, <2>3 DEF StatusInv
<1>6. CASE Teardown
    <2>1. (Calm /\ AtHand)'
        BY <1>6 DEF StatusInv, Teardown, Cancelled
    <2>2. EarlyLogged'
        BY <1>6 DEF StatusInv, EarlyLogged, Early, Teardown, Cancelled
    <2>3. LogsTold'
        BY <1>6 DEF StatusInv, LogsTold, Teardown, Cancelled
    <2>. QED
        BY <2>1, <2>2, <2>3 DEF StatusInv
<1>7. CASE Return
    <2>1. (Calm /\ AtHand)'
        BY <1>7 DEF StatusInv, Return
    <2>2. EarlyLogged'
        BY <1>7 DEF StatusInv, EarlyLogged, Early, Return
    <2>3. LogsTold'
        BY <1>7 DEF StatusInv, LogsTold, Return
    <2>. QED
        BY <2>1, <2>2, <2>3 DEF StatusInv
<1>8. CASE Visit
    <2>1. (Calm /\ AtHand)'
        BY <1>8 DEF StatusInv, Visit, Filtered
    <2>2. EarlyLogged'
        BY <1>8 DEF StatusInv, EarlyLogged, Early, Visit, Filtered, ReporterStep
    <2>3. LogsTold'
        BY <1>8 DEF StatusInv, LogsTold, Visit, Filtered
    <2>. QED
        BY <2>1, <2>2, <2>3 DEF StatusInv
<1>9. CASE NextSection
    <2>1. (Calm /\ AtHand)'
        BY <1>9 DEF StatusInv, NextSection
    <2>2. EarlyLogged'
        BY <1>9 DEF StatusInv, EarlyLogged, Early, NextSection
    <2>3. LogsTold'
        BY <1>9 DEF StatusInv, LogsTold, NextSection
    <2>. QED
        BY <2>1, <2>2, <2>3 DEF StatusInv
<1>10. CASE PassOver
    <2>1. (Calm /\ AtHand)'
        BY <1>10 DEF StatusInv, PassOver
    <2>2. EarlyLogged'
        BY <1>10 DEF StatusInv, EarlyLogged, Early, PassOver
    <2>3. LogsTold'
        BY <1>10 DEF StatusInv, LogsTold, PassOver
    <2>. QED
        BY <2>1, <2>2, <2>3 DEF StatusInv
<1>11. CASE StopHere
    <2>1. (Calm /\ AtHand)'
        BY <1>11 DEF StatusInv, StopHere
    <2>2. EarlyLogged'
        BY <1>11 DEF StatusInv, EarlyLogged, Early, StopHere
    <2>3. LogsTold'
        BY <1>11 DEF StatusInv, LogsTold, StopHere
    <2>. QED
        BY <2>1, <2>2, <2>3 DEF StatusInv
<1>12. CASE Begin
    <2>1. (Calm /\ AtHand)'
        BY <1>12 DEF StatusInv, Begin
    <2>2. EarlyLogged'
        BY <1>12 DEF StatusInv, EarlyLogged, Early, Begin
    <2>3. LogsTold'
        BY <1>12 DEF StatusInv, LogsTold, Begin
    <2>. QED
        BY <2>1, <2>2, <2>3 DEF StatusInv
<1>13. CASE Refuse
    <2>1. (Calm /\ AtHand)'
        BY <1>13 DEF StatusInv, Refuse
    <2>2. EarlyLogged'
        BY <1>13 DEF StatusInv, EarlyLogged, Early, Refuse
    <2>3. LogsTold'
        <3>1. status = 1
            BY <1>13, RefusedChild DEF Refuse, Orderly
        <3>. QED
            BY <1>13, <3>1 DEF LogsTold, Refuse
    <2>. QED
        BY <2>1, <2>2, <2>3 DEF StatusInv
<1>14. CASE RunIfSkips
    <2>1. (Calm /\ AtHand)'
        BY <1>14 DEF StatusInv, RunIfSkips
    <2>2. EarlyLogged'
        BY <1>14 DEF StatusInv, EarlyLogged, Early, RunIfSkips
    <2>3. LogsTold'
        BY <1>14 DEF StatusInv, LogsTold, RunIfSkips
    <2>. QED
        BY <2>1, <2>2, <2>3 DEF StatusInv
<1>15. CASE Accept
    <2>1. (Calm /\ AtHand)'
        BY <1>15 DEF StatusInv, Accept
    <2>2. EarlyLogged'
        BY <1>15 DEF StatusInv, EarlyLogged, Early, Accept
    <2>3. LogsTold'
        BY <1>15 DEF StatusInv, LogsTold, Accept
    <2>. QED
        BY <2>1, <2>2, <2>3 DEF StatusInv
<1>16. CASE PluginReturns
    <2>1. (Calm /\ AtHand)'
        BY <1>16 DEF StatusInv, PluginReturns, Raise
    <2>2. EarlyLogged'
        BY <1>16 DEF StatusInv, EarlyLogged, Early, PluginReturns, Raise
    <2>3. LogsTold'
        BY <1>16 DEF StatusInv, LogsTold, PluginReturns, Raise
    <2>. QED
        BY <2>1, <2>2, <2>3 DEF StatusInv
<1>17. CASE PluginRaises
    <2>1. (Calm /\ AtHand)'
        BY <1>17 DEF StatusInv, PluginRaises, Raise
    <2>2. EarlyLogged'
        BY <1>17 DEF StatusInv, EarlyLogged, Early, PluginRaises, Raise
    <2>3. LogsTold'
        BY <1>17 DEF StatusInv, LogsTold, PluginRaises, Raise
    <2>. QED
        BY <2>1, <2>2, <2>3 DEF StatusInv
<1>18. CASE SaveLogRaises
    <2>1. (Calm /\ AtHand)'
        BY <1>18 DEF StatusInv, SaveLogRaises
    <2>2. EarlyLogged'
        BY <1>18 DEF StatusInv, EarlyLogged, Early, SaveLogRaises
    <2>3. LogsTold'
        BY <1>18 DEF Orderly, SaveLogRaises
    <2>. QED
        BY <2>1, <2>2, <2>3 DEF StatusInv
<1>19. CASE Judge
    <2>1. (Calm /\ AtHand)'
        BY <1>19 DEF StatusInv, Judge, Raise
    <2>2. EarlyLogged'
        BY <1>19 DEF StatusInv, EarlyLogged, Early, Judge, Raise
    <2>3. LogsTold'
        BY <1>19 DEF StatusInv, LogsTold, Judge, Raise
    <2>. QED
        BY <2>1, <2>2, <2>3 DEF StatusInv
<1>20. CASE Back
    <2>1. (Calm /\ AtHand)'
        BY <1>20 DEF StatusInv, Back
    <2>2. EarlyLogged'
        BY <1>20 DEF StatusInv, EarlyLogged, Early, Back
    <2>3. LogsTold'
        BY <1>20 DEF StatusInv, LogsTold, Back
    <2>. QED
        BY <2>1, <2>2, <2>3 DEF StatusInv
<1>21. CASE ExceptionHandler
    <2>1. (Calm /\ AtHand)'
        BY <1>21 DEF StatusInv, ExceptionHandler, Handle, Cancelled
    <2>2. EarlyLogged'
        BY <1>21 DEF StatusInv, EarlyLogged, Early, ExceptionHandler, Handle, Cancelled
    <2>3. LogsTold'
        BY <1>21 DEF StatusInv, LogsTold, ExceptionHandler, Handle, Cancelled
    <2>. QED
        BY <2>1, <2>2, <2>3 DEF StatusInv
<1>22. CASE HandlerUnbound
    <2>1. (Calm /\ AtHand)'
        BY <1>22 DEF StatusInv, HandlerUnbound, Cancelled
    <2>2. EarlyLogged'
        BY <1>22 DEF StatusInv, EarlyLogged, Early, HandlerUnbound, Cancelled
    <2>3. LogsTold'
        BY <1>22 DEF StatusInv, LogsTold, HandlerUnbound, Cancelled
    <2>. QED
        BY <2>1, <2>2, <2>3 DEF StatusInv
<1>23. CASE HeadRaises
    <2>1. (Calm /\ AtHand)'
        BY <1>23 DEF StatusInv, HeadRaises, Raise
    <2>2. EarlyLogged'
        BY <1>23 DEF StatusInv, EarlyLogged, Early, HeadRaises, Raise
    <2>3. LogsTold'
        BY <1>23 DEF StatusInv, LogsTold, HeadRaises, Raise
    <2>. QED
        BY <2>1, <2>2, <2>3 DEF StatusInv
<1>24. CASE GateRaises
    <2>1. (Calm /\ AtHand)'
        BY <1>24 DEF StatusInv, GateRaises, Raise
    <2>2. EarlyLogged'
        BY <1>24 DEF StatusInv, EarlyLogged, Early, GateRaises, Raise
    <2>3. LogsTold'
        BY <1>24 DEF StatusInv, LogsTold, GateRaises, Raise
    <2>. QED
        BY <2>1, <2>2, <2>3 DEF StatusInv
<1>25. CASE UNCHANGED vars
    BY <1>25 DEF StatusInv, EarlyLogged, Early, LogsTold
<1>26. ~Watchdog /\ ~Deliver /\ ~KeyboardHandler
    BY DEF StatusInv, Watchdog, DurationExpires, LoopExpires, HandlerAcquires, HandlerKills,
           Deliver, Interrupt, InterruptSwallowed, InterruptEscapes, KeyboardHandler
<1>. QED
    BY <1>1, <1>2, <1>3, <1>4, <1>5, <1>6, <1>7, <1>8, <1>9, <1>10, <1>11, <1>12, <1>13, <1>14, <1>15, <1>16, <1>17, <1>18, <1>19, <1>20, <1>21, <1>22, <1>23, <1>24, <1>25, <1>26
       DEF Next, Main, Execute, Section, Handlers

\* A Reporter section runs at most once in an invocation, loops included.
THEOREM SpecReportedOnce == Spec => []ReportedOnce
<1>1. Init => Once
    BY DEF Init, Once, ReportedOnce, RanLast, StepLast, GateMine, InPass, Zone
<1>2. IInv /\ Once /\ [Next]_vars => Once'
    BY OnceStep DEF IInv
<1>3. Once => ReportedOnce
    BY DEF Once
<1>. QED
    BY <1>1, <1>2, <1>3, SpecIInv, PTL DEF Spec

\* execute() does not end before every active Reporter section has a log, but
\* for one, if the watchdog has struck.
THEOREM SpecEveryReportMade == Spec => []EveryReportMade
<1>1. Init => Once /\ ReportInv
    BY DEF Init, Once, ReportedOnce, RanLast, StepLast, GateMine, InPass, Zone,
           ReportInv, ReportsKept, KbdStruck, Ended, Logged, Gone
<1>2. IInv /\ Once /\ ReportInv /\ [Next]_vars => (Once /\ ReportInv)'
    BY OnceStep, ReportStep DEF IInv
<1>3. Once /\ ReportInv => EveryReportMade
    <2> SUFFICES ASSUME Once, ReportInv, pc \in {"teardown", "final", "done"},
                        \A s \in Secs : Ini[s].titled # "STOP"
                 PROVE  Cardinality(Reporters \ logged) <= One(timer["duration"] = "fired")
        BY DEF EveryReportMade
    <2>1. Owed /\ Gone = Reporters
        BY DEF Once, InPass, ReportInv, Ended, Owed, Gone, OverPCs
    <2>2. CASE Gone \subseteq logged
        <3>1. Reporters \ logged = {}
            BY <2>1, <2>2
        <3>. QED
            BY <3>1, FS_EmptySet DEF One
    <2>3. CASE Struck /\ \E x \in Secs : Gone \subseteq logged \cup {x}
        <3>1. PICK x \in Secs : Reporters \ logged \subseteq {x}
            BY <2>1, <2>3
        <3>2. IsFiniteSet({x}) /\ Cardinality({x}) = 1
            BY FS_Singleton
        <3>3. Cardinality(Reporters \ logged) <= 1
            BY <3>1, <3>2, FS_Subset
        <3>. QED
            BY <2>3, <3>3 DEF Struck, One
    <2>. QED
        BY <2>1, <2>2, <2>3 DEF ReportInv, ReportsKept
<1>. QED
    BY <1>1, <1>2, <1>3, SpecIInv, PTL DEF Spec

\* Without the timers, the exit status of an orderly INI file tells of every log
\* that is not a success.
THEOREM SpecFailureReturned ==
    ASSUME Orderly, NoTimers PROVE Spec => []FailureReturned
<1>1. Init => StatusInv
    <2> SUFFICES ASSUME Init PROVE StatusInv
        OBVIOUS
    <2>1. Calm /\ AtHand /\ LogsTold
        BY DEF Init, Calm, AtHand, LogsTold
    <2>2. EarlyLogged
        BY SecsType, OrderType DEF Init, EarlyLogged, Early
    <2>. QED
        BY <2>1, <2>2 DEF StatusInv
<1>2. IInv /\ StatusInv /\ [Next]_vars => StatusInv'
    BY StatusStep DEF IInv
<1>3. StatusInv => FailureReturned
    BY DEF StatusInv, LogsTold, FailureReturned
<1>. QED
    BY <1>1, <1>2, <1>3, SpecIInv, PTL DEF Spec
=============================================================================
