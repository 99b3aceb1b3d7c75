--------------------------- MODULE LauncherProofs ---------------------------
(* Proofs about a launcher plugin, for any number of sections, of tests and  *)
(* of harassers, whatever the sections ask for and whether or not commands   *)
(* fail and harassers can be joined.                                         *)
EXTENDS Launcher, FiniteSetTheorems, TLAPS

(* The steps, those of all parameters and all judgements taken together.     *)

Begins == \E o \in Choices : Begin(o)
SetupBreaks == \E mw, deps \in BOOLEAN : SetupFails(mw, deps)
Collects == \E n \in 1 .. MaxTests : CollectTests(n)

\* A bad result that does not change the final status came back with 0.
Judging ==
    \E r \in Results, s \in Int, f \in Int :
        /\ Judged(r, s, f)
        /\ r \in {"failed", "timedout"} /\ f = 0 => s = 0

AllocateRaises == \E done \in BOOLEAN : RaiseInAllocate(done)
DeallocateRaises == \E done \in BOOLEAN : RaiseInDeallocate(done)
ClosesLauncher == \E ok \in BOOLEAN : CloseLauncher(ok)
BreaksOff == \E done \in BOOLEAN : CloseRaises(done)

Aside == UNCHANGED <<pc, control, todo, ids, results, logStatus, totals, env, cluster,
                     troubles>>
Finishes == FinishOne /\ Aside
Ends == (\E id \in DOMAIN running, s \in {"ended", "crashed"} : HarasserEnds(id, s)) /\ Aside
LateEnds ==
    (\E i \in DOMAIN stopping, s \in {"ended", "crashed"} : StoppedEnds(i, s)) /\ Aside
StopRuns == \E i \in DOMAIN stopping, s \in StopStatuses : RunStopScript(i, s)

\* What a step is.
LEMMA StepCases ==
    ASSUME [Next]_vars
    PROVE  \/ Begins \/ UpdateDefaults \/ SetupPaths \/ SetupBreaks \/ NoTests
           \/ Collects \/ NoAllocation \/ Allocate \/ AllocateFails
           \/ SkipTest \/ StartHarassers \/ CheckPasses \/ CheckFails \/ TestEnds
           \/ Judging \/ Record \/ Deallocate \/ DeallocateFails
           \/ HarasserKeyError \/ RaiseInTest \/ RaiseInStop \/ AllocateRaises
           \/ DeallocateRaises \/ ClosesLauncher \/ BreaksOff \/ CloseHarasser
           \/ Closed \/ NextCombination \/ Finishes \/ Ends \/ LateEnds \/ StopRuns
           \/ UNCHANGED vars
<1>1. ASSUME \/ JudgeTimedOut \/ JudgeSkipped
             \/ \E s \in Statuses : JudgeAnyFailure(s) \/ JudgeFalsePass(s) \/ JudgePass(s)
             \/ \E s \in Statuses, e \in Expectations : JudgeMismatch(s, e)
      PROVE  Judging
    <2>1. CASE JudgeTimedOut
        BY <2>1 DEF JudgeTimedOut, Judging, Results
    <2>2. CASE JudgeSkipped
        BY <2>2 DEF JudgeSkipped, Judging, Results, SkipStatus
    <2>3. ASSUME NEW s \in Statuses, JudgeAnyFailure(s) \/ JudgeFalsePass(s) \/ JudgePass(s)
          PROVE  Judging
        BY <2>3 DEF JudgeAnyFailure, JudgeFalsePass, JudgePass, Judging, Results, Statuses
    <2>4. ASSUME NEW s \in Statuses, NEW e \in Expectations, JudgeMismatch(s, e)
          PROVE  Judging
        BY <2>4 DEF JudgeMismatch, Judging, Results, Statuses
    <2>. QED
        BY <1>1, <2>1, <2>2, <2>3, <2>4
<1>2. CASE Setup
    BY <1>2 DEF Setup, Begins, SetupBreaks, Collects
<1>3. CASE RunTests
    BY <1>1, <1>3 DEF RunTests
<1>4. CASE Raise
    BY <1>4 DEF Raise, AllocateRaises, DeallocateRaises
<1>5. CASE Close
    BY <1>5 DEF Close, ClosesLauncher, BreaksOff
<1>6. CASE Harass
    BY <1>6 DEF Harass, Aside, Finishes, Ends, LateEnds
<1>. QED
    BY <1>2, <1>3, <1>4, <1>5, <1>6 DEF Next, StopRuns
-----------------------------------------------------------------------------
(* What the steps change.                                                     *)

Begun == {"paths", "collect", "allocate"}
Testing == {"tests", "check", "broken", "run", "judge", "record", "deallocate"}
Inside == {"collect", "allocate"} \cup Testing
Holding == {"check", "run"}
Stopping == {"broken", "judge"}
Places == {"idle", "closing", "last", "off", "gone"} \cup Begun \cup Testing

Resets == NoTests \/ AllocateFails \/ Deallocate \/ DeallocateFails

\* Who changes what.
LEMMA Frames ==
    ASSUME [Next]_vars
    PROVE  /\ results' = results \/ Begins \/ SkipTest \/ Judging
           /\ UNCHANGED <<finalStatus, numTests, maxTests>> \/ Collects \/ Judging
           /\ \/ UNCHANGED <<path, oldpath, midpath, cwd, home>>
              \/ SetupPaths \/ SetupBreaks \/ Resets
           /\ \/ UNCHANGED <<allocated, clusters>>
              \/ NoAllocation \/ Allocate \/ AllocateFails \/ Deallocate
              \/ AllocateRaises \/ DeallocateRaises \/ ClosesLauncher \/ BreaksOff
           /\ \/ UNCHANGED <<running, counter, stopping, stray, ids>>
              \/ StartHarassers \/ CheckFails \/ TestEnds \/ RaiseInStop \/ CloseHarasser
              \/ Finishes \/ Ends \/ LateEnds \/ StopRuns
           /\ opt' = opt \/ Begins
           /\ troubles \subseteq troubles'
<1> USE DEF Resets
<1>1. CASE Begins
    BY <1>1 DEF Begins, Begin, control, totals, env, cluster, harasser
<1>2. CASE UpdateDefaults
    BY <1>2 DEF UpdateDefaults, control, totals, env, cluster, harasser
<1>3. CASE SetupPaths
    BY <1>3 DEF SetupPaths, control, totals, env, cluster, harasser
<1>4. CASE SetupBreaks
    BY <1>4 DEF SetupBreaks, SetupFails, control, totals, env, cluster, harasser
<1>5. CASE NoTests
    BY <1>5 DEF NoTests, Reset, control, totals, env, cluster, harasser
<1>6. CASE Collects
    BY <1>6 DEF Collects, CollectTests, control, totals, env, cluster, harasser
<1>7. CASE NoAllocation
    BY <1>7 DEF NoAllocation, control, totals, env, cluster, harasser
<1>8. CASE Allocate
    BY <1>8 DEF Allocate, control, totals, env, cluster, harasser
<1>9. CASE AllocateFails
    BY <1>9 DEF AllocateFails, Reset, control, totals, env, cluster, harasser
<1>10. CASE SkipTest
    BY <1>10 DEF SkipTest, control, totals, env, cluster, harasser
<1>11. CASE StartHarassers
    BY <1>11 DEF StartHarassers, control, totals, env, cluster, harasser
<1>12. CASE CheckPasses
    BY <1>12 DEF CheckPasses, control, totals, env, cluster, harasser
<1>13. CASE CheckFails
    BY <1>13 DEF CheckFails, control, totals, env, cluster, harasser
<1>14. CASE TestEnds
    BY <1>14 DEF TestEnds, control, totals, env, cluster, harasser
<1>15. CASE Judging
    BY <1>15 DEF Judging, Judged, control, totals, env, cluster, harasser
<1>16. CASE Record
    BY <1>16 DEF Record, control, totals, env, cluster, harasser
<1>17. CASE Deallocate
    BY <1>17 DEF Deallocate, Reset, control, totals, env, cluster, harasser
<1>18. CASE DeallocateFails
    BY <1>18 DEF DeallocateFails, Reset, control, totals, env, cluster, harasser
<1>19. CASE HarasserKeyError
    BY <1>19 DEF HarasserKeyError, Escape, control, totals, env, cluster, harasser
<1>20. CASE RaiseInTest
    BY <1>20 DEF RaiseInTest, Escape, control, totals, env, cluster, harasser
<1>21. CASE RaiseInStop
    BY <1>21 DEF RaiseInStop, Escape, control, totals, env, cluster, harasser
<1>22. CASE AllocateRaises
    BY <1>22 DEF AllocateRaises, RaiseInAllocate, Escape, control, totals, env, cluster, harasser
<1>23. CASE DeallocateRaises
    BY <1>23 DEF DeallocateRaises, RaiseInDeallocate, Escape, control, totals, env, cluster,
       harasser
<1>24. CASE ClosesLauncher
    BY <1>24 DEF ClosesLauncher, CloseLauncher, control, totals, env, cluster, harasser
<1>25. CASE CloseHarasser
    BY <1>25 DEF CloseHarasser, control, totals, env, cluster, harasser
<1>26. CASE Closed
    BY <1>26 DEF Closed, control, totals, env, cluster, harasser
<1>27. CASE Finishes
    BY <1>27 DEF Finishes, Aside, control, totals, env, cluster, harasser
<1>28. CASE Ends
    BY <1>28 DEF Ends, Aside, control, totals, env, cluster, harasser
<1>29. CASE LateEnds
    BY <1>29 DEF LateEnds, Aside, control, totals, env, cluster, harasser
<1>30. CASE StopRuns
    BY <1>30 DEF StopRuns, RunStopScript, control, totals, env, cluster, harasser
<1>31. CASE UNCHANGED vars
    BY <1>31 DEF vars, control, totals, env, cluster, harasser
<1>32. CASE BreaksOff
    BY <1>32 DEF BreaksOff, CloseRaises, control, totals, env, cluster, harasser
<1>33. CASE NextCombination
    BY <1>33 DEF NextCombination, control, totals, env, cluster, harasser
<1>. QED
    BY <1>1, <1>2, <1>3, <1>4, <1>5, <1>6, <1>7, <1>8, <1>9, <1>10, <1>11, <1>12, <1>13,
       <1>14, <1>15, <1>16, <1>17, <1>18, <1>19, <1>20, <1>21, <1>22, <1>23, <1>24,
       <1>25, <1>26, <1>27, <1>28, <1>29, <1>30, <1>31, <1>32, <1>33, StepCases

\* How a section comes into each part of its life, and out of it.
LEMMA Regions ==
    ASSUME [Next]_vars
    PROVE  /\ pc' \in Begun => pc \in Begun \/ Begins
           /\ pc' = "allocate" => pc = "allocate" \/ Collects
           /\ pc' \in Testing => pc \in Testing \/ NoAllocation \/ Allocate
           /\ pc' \in Inside => pc \in Inside \/ SetupPaths
           /\ pc \in Inside /\ pc' \notin Inside => Resets \/ "raised" \in troubles'
           /\ pc' = "deallocate" => Record \/ (pc = "deallocate" /\ logStatus' = logStatus)
           /\ pc \in {"record", "deallocate"} /\ pc' \in Testing =>
                 pc' \in {"record", "deallocate"}
           /\ pc = "tests" /\ pc' = "check" => StartHarassers
<1> USE DEF Begun, Testing, Inside, Resets
<1>1. CASE Begins
    BY <1>1 DEF Begins, Begin
<1>2. CASE UpdateDefaults
    BY <1>2 DEF UpdateDefaults
<1>3. CASE SetupPaths
    BY <1>3 DEF SetupPaths
<1>4. CASE SetupBreaks
    BY <1>4 DEF SetupBreaks, SetupFails
<1>5. CASE NoTests
    BY <1>5 DEF NoTests, Reset
<1>6. CASE Collects
    BY <1>6 DEF Collects, CollectTests
<1>7. CASE NoAllocation
    BY <1>7 DEF NoAllocation
<1>8. CASE Allocate
    BY <1>8 DEF Allocate
<1>9. CASE AllocateFails
    BY <1>9 DEF AllocateFails, Reset
<1>10. CASE SkipTest
    BY <1>10 DEF SkipTest
<1>11. CASE StartHarassers
    BY <1>11 DEF StartHarassers
<1>12. CASE CheckPasses
    BY <1>12 DEF CheckPasses
<1>13. CASE CheckFails
    BY <1>13 DEF CheckFails
<1>14. CASE TestEnds
    BY <1>14 DEF TestEnds
<1>15. CASE Judging
    BY <1>15 DEF Judging, Judged
<1>16. CASE Record
    BY <1>16 DEF Record
<1>17. CASE Deallocate
    BY <1>17 DEF Deallocate, Reset
<1>18. CASE DeallocateFails
    BY <1>18 DEF DeallocateFails, Reset
<1>19. CASE HarasserKeyError
    BY <1>19 DEF HarasserKeyError, Escape
<1>20. CASE RaiseInTest
    BY <1>20 DEF RaiseInTest, Escape
<1>21. CASE RaiseInStop
    BY <1>21 DEF RaiseInStop, Escape
<1>22. CASE AllocateRaises
    BY <1>22 DEF AllocateRaises, RaiseInAllocate, Escape
<1>23. CASE DeallocateRaises
    BY <1>23 DEF DeallocateRaises, RaiseInDeallocate, Escape
<1>24. CASE ClosesLauncher
    BY <1>24 DEF ClosesLauncher, CloseLauncher
<1>25. CASE CloseHarasser
    BY <1>25 DEF CloseHarasser
<1>26. CASE Closed
    BY <1>26 DEF Closed
<1>27. CASE Finishes
    BY <1>27 DEF Finishes, Aside
<1>28. CASE Ends
    BY <1>28 DEF Ends, Aside
<1>29. CASE LateEnds
    BY <1>29 DEF LateEnds, Aside
<1>30. CASE StopRuns
    BY <1>30 DEF StopRuns, RunStopScript
<1>31. CASE UNCHANGED vars
    BY <1>31 DEF vars
<1>32. CASE BreaksOff
    BY <1>32 DEF BreaksOff, CloseRaises
<1>33. CASE NextCombination
    BY <1>33 DEF NextCombination
<1>. QED
    BY <1>1, <1>2, <1>3, <1>4, <1>5, <1>6, <1>7, <1>8, <1>9, <1>10, <1>11, <1>12, <1>13,
       <1>14, <1>15, <1>16, <1>17, <1>18, <1>19, <1>20, <1>21, <1>22, <1>23, <1>24,
       <1>25, <1>26, <1>27, <1>28, <1>29, <1>30, <1>31, <1>32, <1>33, StepCases
-----------------------------------------------------------------------------
(* Type correctness.  That the counter of ids never falls below 0 needs to    *)
(* know what it counts: the table holds no id that was not handed out, those  *)
(* of the test under way are the last ones, and stop() gives back no more     *)
(* than it has taken out.                                                     *)

Options == [mw : BOOLEAN, deps : BOOLEAN, alloc : BOOLEAN, max : Nat]

ControlOK ==
    /\ pc \in Places /\ opt \in Options
    /\ sections \in 0 .. MaxSections /\ halted \in BOOLEAN
    /\ todo \in 0 .. MaxTests /\ (pc \in Holding \cup Stopping => todo > 0)
    /\ logStatus \in Int /\ finalStatus \in Int
    /\ numTests \in Nat /\ maxTests \in Nat
    /\ troubles \subseteq {"setup", "revert", "deallocate", "raised", "stop"}

ClusterOK == allocated \in BOOLEAN /\ clusters \in Int

ResultsOK == results \in Seq([result : Results, status : Int, ran : BOOLEAN])

EnvOK ==
    /\ path \in Seq({"mw", "dep"})
    /\ oldpath = NoPath \/ oldpath \in Seq({"mw", "dep"})
    /\ midpath \in BOOLEAN
    /\ midpath => oldpath \in Seq({"mw", "dep"})
    /\ cwd \in {"home", "tests"} /\ home \in {"home", "tests"}

HarasserOK ==
    /\ ids \in Seq(Int)
    /\ DOMAIN running \subseteq Int
    /\ running \in [DOMAIN running -> States]
    /\ counter \in Nat
    /\ stopping \in Seq([state : States, status : Int])
    /\ stray \in BOOLEAN

KeysInv ==
    /\ pc \notin Holding \cup Stopping \cup {"last"} =>
          stopping = <<>> /\ DOMAIN running \subseteq 0 .. counter - 1
    /\ pc \in Holding =>
          /\ stopping = <<>> /\ DOMAIN running \subseteq 0 .. counter - 1
          /\ counter >= Pairs /\ ids = [i \in 1 .. Pairs |-> counter - Pairs + i - 1]
          /\ Keys(ids) \subseteq DOMAIN running
    /\ pc \in Stopping =>
          Len(stopping) <= counter /\ DOMAIN running \subseteq 0 .. counter - Len(stopping) - 1
    /\ pc = "last" => Len(stopping) <= counter /\ DOMAIN running = {}
    /\ pc = "off" /\ Activated => DOMAIN running = {}

TInv == ControlOK /\ ClusterOK /\ ResultsOK /\ EnvOK /\ HarasserOK /\ KeysInv

\* What the constants give.
LEMMA Bounds ==
    /\ MaxSections \in Nat /\ MaxTests \in Nat /\ Pairs \in Nat
    /\ StopStatuses \subseteq Nat /\ JoinTimeout \in BOOLEAN /\ Choices \subseteq Options
BY LauncherAssumption, HarasserAssumption DEF Options

\* The end of a section.
LEMMA ResetOK ==
    ASSUME ControlOK, EnvOK, Resets
    PROVE  ControlOK' /\ EnvOK'
<1> DEFINE GoneBack(tr) ==
             /\ pc' = "idle" /\ logStatus' \in Int
             /\ troubles' = tr \/ troubles' = tr \cup {"revert"}
             /\ path' = (IF midpath THEN oldpath ELSE path) \/ path' = path
             /\ cwd' \in {"home", "tests"}
             /\ UNCHANGED <<oldpath, midpath, home>>
             /\ UNCHANGED <<opt, sections, halted, todo, finalStatus, numTests, maxTests>>
<1>1. CASE NoTests
    <2>1. GoneBack(troubles)
        BY <1>1 DEF NoTests, Reset, ControlOK, EnvOK, totals, control
    <2>. QED
        BY <2>1 DEF ControlOK, EnvOK, Places, Holding, Stopping
<1>2. CASE AllocateFails
    <2>1. GoneBack(troubles)
        BY <1>2 DEF AllocateFails, Reset, ControlOK, EnvOK, totals, control
    <2>. QED
        BY <2>1 DEF ControlOK, EnvOK, Places, Holding, Stopping
<1>3. CASE Deallocate
    <2>1. GoneBack(troubles)
        BY <1>3 DEF Deallocate, Reset, ControlOK, EnvOK, totals, control
    <2>. QED
        BY <2>1 DEF ControlOK, EnvOK, Places, Holding, Stopping
<1>4. CASE DeallocateFails
    <2>1. GoneBack(troubles \cup {"deallocate"})
        BY <1>4 DEF DeallocateFails, Reset, ControlOK, EnvOK, totals, control
    <2>. QED
        BY <2>1 DEF ControlOK, EnvOK, Places, Holding, Stopping
<1>. QED
    BY <1>1, <1>2, <1>3, <1>4 DEF Resets

\* The types of the control, of the counters and of the statuses.
LEMMA ControlStep ==
    ASSUME ControlOK, EnvOK, [Next]_vars
    PROVE  ControlOK'
<1> USE Bounds DEF ControlOK, Places, Begun, Testing, Holding, Stopping
<1>1. CASE Begins
    BY <1>1 DEF Begins, Begin, Unset, totals
<1>2. CASE UpdateDefaults
    BY <1>2 DEF UpdateDefaults, totals, control
<1>3. CASE SetupPaths
    BY <1>3 DEF SetupPaths, totals, control
<1>4. CASE SetupBreaks
    BY <1>4 DEF SetupBreaks, SetupFails, totals, control
<1>5. CASE NoTests
    BY <1>5, ResetOK DEF Resets
<1>6. CASE Collects
    <2>1. opt.max \in Nat
        BY DEF Options
    <2>. QED
        BY <1>6, <2>1 DEF Collects, CollectTests, control
<1>7. CASE NoAllocation
    BY <1>7 DEF NoAllocation, totals, control
<1>8. CASE Allocate
    BY <1>8 DEF Allocate, totals, control
<1>9. CASE AllocateFails
    BY <1>9, ResetOK DEF Resets
<1>10. CASE SkipTest
    BY <1>10 DEF SkipTest, Enter, totals, control
<1>11. CASE StartHarassers
    BY <1>11 DEF StartHarassers, totals, control
<1>12. CASE CheckPasses
    BY <1>12 DEF CheckPasses, totals, control
<1>13. CASE CheckFails
    BY <1>13 DEF CheckFails, totals, control
<1>14. CASE TestEnds
    BY <1>14 DEF TestEnds, totals, control
<1>15. CASE Judging
    <2>1. PICK r \in Results, s \in Int, f \in Int : Judged(r, s, f)
        BY <1>15 DEF Judging
    <2>2. /\ todo' = todo - 1 /\ pc = "judge" /\ UNCHANGED <<opt, sections, halted>>
          /\ UNCHANGED <<logStatus, maxTests, troubles>>
        BY <2>1 DEF Judged, Enter, control
    <2>3. numTests' = numTests + 1 /\ pc' \in {"record", "tests"}
        BY <2>1 DEF Judged
    <2>4. finalStatus' \in Int
        BY <2>1 DEF Judged
    <2>. QED
        BY <2>2, <2>3, <2>4
<1>16. CASE Record
    BY <1>16 DEF Record, totals, control
<1>17. CASE Deallocate
    BY <1>17, ResetOK DEF Resets
<1>18. CASE DeallocateFails
    BY <1>18, ResetOK DEF Resets
<1>19. CASE HarasserKeyError
    <2>1. halted' = TRUE /\ pc' = "idle" /\ logStatus' = 1 /\ troubles' = troubles \cup {"raised"}
        BY <1>19 DEF HarasserKeyError, Escape
    <2>2. UNCHANGED <<opt, sections, todo, finalStatus, numTests, maxTests>>
        BY <1>19 DEF HarasserKeyError, Escape, totals
    <2>3. halted' \in BOOLEAN /\ troubles' \subseteq {"setup", "revert", "deallocate", "raised", "stop"}
        BY <2>1
    <2>4. pc' \in Places /\ logStatus' \in Int /\ pc' \notin Holding \cup Stopping
        BY <2>1
    <2>. QED
        BY <2>2, <2>3, <2>4
<1>20. CASE RaiseInTest
    BY <1>20 DEF RaiseInTest, Escape, totals, control
<1>21. CASE RaiseInStop
    BY <1>21 DEF RaiseInStop, Escape, totals, control
<1>22. CASE AllocateRaises
    BY <1>22 DEF AllocateRaises, RaiseInAllocate, Escape, totals, control
<1>23. CASE DeallocateRaises
    BY <1>23 DEF DeallocateRaises, RaiseInDeallocate, Escape, totals, control
<1>24. CASE ClosesLauncher
    BY <1>24 DEF ClosesLauncher, CloseLauncher, totals, control
<1>25. CASE CloseHarasser
    BY <1>25 DEF CloseHarasser, totals, control
<1>26. CASE Closed
    BY <1>26 DEF Closed, totals, control
<1>27. CASE Finishes
    BY <1>27 DEF Finishes, Aside, totals, control
<1>28. CASE Ends
    BY <1>28 DEF Ends, Aside, totals, control
<1>29. CASE LateEnds
    BY <1>29 DEF LateEnds, Aside, totals, control
<1>30. CASE StopRuns
    BY <1>30 DEF StopRuns, RunStopScript, totals, control
<1>31. CASE UNCHANGED vars
    BY <1>31 DEF vars, totals, control
<1>32. CASE BreaksOff
    BY <1>32 DEF BreaksOff, CloseRaises, totals, control
<1>33. CASE NextCombination
    BY <1>33 DEF NextCombination, totals
<1>. QED
    BY <1>1, <1>2, <1>3, <1>4, <1>5, <1>6, <1>7, <1>8, <1>9, <1>10, <1>11, <1>12, <1>13,
       <1>14, <1>15, <1>16, <1>17, <1>18, <1>19, <1>20, <1>21, <1>22, <1>23, <1>24,
       <1>25, <1>26, <1>27, <1>28, <1>29, <1>30, <1>31, <1>32, <1>33, StepCases

\* The types of what belongs to the allocation.
LEMMA ClusterStep ==
    ASSUME ClusterOK, [Next]_vars
    PROVE  ClusterOK'
<1> USE DEF ClusterOK
<1>1. CASE UNCHANGED <<allocated, clusters>>
    BY <1>1
<1>2. CASE NoAllocation
    BY <1>2 DEF NoAllocation, cluster
<1>3. CASE Allocate
    BY <1>3 DEF Allocate, cluster
<1>4. CASE AllocateFails
    BY <1>4 DEF AllocateFails, Reset, cluster
<1>5. CASE Deallocate
    <2>1. CASE opt.alloc /\ allocated
        <3>1. allocated' = FALSE /\ (clusters' = clusters - 1 \/ clusters' = clusters)
            BY <1>5, <2>1 DEF Deallocate
        <3>2. allocated' \in BOOLEAN
            BY <3>1
        <3>3. clusters' \in Int
            BY <3>1
        <3>. QED
            BY <3>2, <3>3
    <2>2. CASE ~(opt.alloc /\ allocated)
        BY <1>5, <2>2 DEF Deallocate, cluster
    <2>. QED
        BY <2>1, <2>2
<1>6. CASE AllocateRaises
    BY <1>6 DEF AllocateRaises, RaiseInAllocate, Escape, cluster
<1>7. CASE DeallocateRaises
    BY <1>7 DEF DeallocateRaises, RaiseInDeallocate, Escape, cluster
<1>8. CASE ClosesLauncher
    <2>1. CASE opt.alloc /\ allocated
        <3>1. allocated' = FALSE /\ (clusters' = clusters - 1 \/ clusters' = clusters)
            BY <1>8, <2>1 DEF ClosesLauncher, CloseLauncher
        <3>2. allocated' \in BOOLEAN
            BY <3>1
        <3>3. clusters' \in Int
            BY <3>1
        <3>. QED
            BY <3>2, <3>3
    <2>2. CASE ~(opt.alloc /\ allocated)
        BY <1>8, <2>2 DEF ClosesLauncher, CloseLauncher, cluster
    <2>. QED
        BY <2>1, <2>2
<1>9. CASE BreaksOff
    BY <1>9 DEF BreaksOff, CloseRaises
<1>. QED
    BY <1>1, <1>2, <1>3, <1>4, <1>5, <1>6, <1>7, <1>8, <1>9, Frames

\* A test's entry in the log.
LEMMA EnterOK ==
    ASSUME ResultsOK, NEW r \in Results, NEW s \in Int, NEW ran \in BOOLEAN, Enter(r, s, ran)
    PROVE  /\ ResultsOK'
           /\ results' = Append(results, [result |-> r, status |-> s, ran |-> ran])
           /\ Len(results') = Len(results) + 1 /\ DOMAIN results = 1 .. Len(results)
           /\ DOMAIN results' = 1 .. Len(results) + 1
           /\ \A i \in DOMAIN results : results'[i] = results[i]
           /\ results'[Len(results) + 1] = [result |-> r, status |-> s, ran |-> ran]
BY DEF ResultsOK, Enter

\* The types of the log's entries.
LEMMA ResultsStep ==
    ASSUME ResultsOK, [Next]_vars
    PROVE  ResultsOK'
<1>1. CASE results' = results
    BY <1>1 DEF ResultsOK
<1>2. CASE Begins
    BY <1>2 DEF Begins, Begin, ResultsOK
<1>3. CASE SkipTest
    <2>1. "skipped" \in Results /\ SkipStatus \in Int /\ FALSE \in BOOLEAN
        BY DEF Results, SkipStatus
    <2>. QED
        BY <1>3, <2>1, EnterOK DEF SkipTest
<1>4. CASE Judging
    BY <1>4, EnterOK DEF Judging, Judged
<1>. QED
    BY <1>1, <1>2, <1>3, <1>4, Frames

\* The types of the paths.
LEMMA EnvStep ==
    ASSUME ControlOK, EnvOK, [Next]_vars
    PROVE  EnvOK'
<1> USE DEF EnvOK
<1>1. ASSUME NEW mw \in BOOLEAN, NEW deps \in BOOLEAN, AddPaths(mw, deps),
             cwd' \in {"home", "tests"}, home' \in {"home", "tests"}
      PROVE  EnvOK'
    <2>1. Prepended(mw, deps) \in Seq({"mw", "dep"})
        <3> DEFINE d == IF deps THEN <<"dep">> ELSE <<>>
                   m == IF mw THEN <<"mw">> ELSE <<>>
        <3>1. <<"dep">> \in Seq({"mw", "dep"}) /\ <<"mw">> \in Seq({"mw", "dep"})
            OBVIOUS
        <3>2. <<>> \in Seq({"mw", "dep"})
            OBVIOUS
        <3>3. d \in Seq({"mw", "dep"}) /\ m \in Seq({"mw", "dep"})
            BY <3>1, <3>2
        <3>4. d \o m \in Seq({"mw", "dep"})
            BY <3>3
        <3>. QED
            BY <3>4 DEF Prepended
    <2>2. path' \in Seq({"mw", "dep"}) /\ (oldpath' = NoPath \/ oldpath' \in Seq({"mw", "dep"}))
        BY <1>1, <2>1 DEF AddPaths
    <2>3. midpath' \in BOOLEAN /\ (midpath' => oldpath' \in Seq({"mw", "dep"}))
        BY <1>1 DEF AddPaths
    <2>. QED
        BY <1>1, <2>2, <2>3
<1>2. CASE UNCHANGED <<path, oldpath, midpath, cwd, home>>
    BY <1>2
<1>3. CASE SetupPaths
    BY <1>1, <1>3 DEF SetupPaths, ControlOK, Options
<1>4. CASE SetupBreaks
    BY <1>1, <1>4 DEF SetupBreaks, SetupFails
<1>5. CASE Resets
    BY <1>5, ResetOK
<1>. QED
    BY <1>2, <1>3, <1>4, <1>5, Frames

LEMMA AtIndex ==
    ASSUME NEW S, NEW q \in Seq(S), NEW i \in DOMAIN q
    PROVE  q[i] \in S
OBVIOUS

\* The ids that start() hands out are the next ones.
LEMMA NewKeys ==
    ASSUME counter \in Nat
    PROVE  /\ NewIds \in Seq(Int) /\ Len(NewIds) = Pairs
           /\ Keys(NewIds) = counter .. counter + Pairs - 1
<1>1. NewIds \in Seq(Int) /\ Len(NewIds) = Pairs /\ DOMAIN NewIds = 1 .. Pairs
    BY Bounds DEF NewIds
<1>2. \A i \in 1 .. Pairs : NewIds[i] = counter + i - 1
    BY DEF NewIds
<1>3. ASSUME NEW k \in counter .. counter + Pairs - 1
      PROVE  k \in Keys(NewIds)
    <2>1. k - counter + 1 \in 1 .. Pairs /\ NewIds[k - counter + 1] = k
        BY <1>2, <1>3, Bounds
    <2>. QED
        BY <1>1, <2>1 DEF Keys
<1>4. ASSUME NEW k \in Keys(NewIds)
      PROVE  k \in counter .. counter + Pairs - 1
    <2>1. PICK i \in 1 .. Pairs : k = counter + i - 1
        BY <1>1, <1>2, <1>4 DEF Keys
    <2>. QED
        BY <2>1, Bounds
<1>. QED
    BY <1>1, <1>3, <1>4

\* What stop() takes out of the table.
LEMMA BeginStopOK ==
    ASSUME HarasserOK, NEW q \in Seq(Int), Keys(q) \subseteq DOMAIN running, BeginStop(q)
    PROVE  /\ HarasserOK' \/ ids' # ids
           /\ Len(stopping') = Len(q) /\ stopping' \in Seq([state : States, status : Int])
           /\ \A i \in DOMAIN stopping' : stopping'[i].status = Pending
           /\ DOMAIN running' = DOMAIN running \ Keys(q)
           /\ UNCHANGED <<counter, stray>>
<1>1. \A i \in 1 .. Len(q) : q[i] \in DOMAIN running
    BY DEF Keys
<1>2. \A i \in 1 .. Len(q) : running[q[i]] \in States
    BY <1>1 DEF HarasserOK
<1>3. \A i \in 1 .. Len(q) :
        [state |-> running[q[i]], status |-> Pending] \in [state : States, status : Int]
    BY <1>2 DEF Pending
<1>4. /\ stopping' \in Seq([state : States, status : Int]) /\ Len(stopping') = Len(q)
      /\ DOMAIN stopping' = 1 .. Len(q)
    BY <1>3 DEF BeginStop
<1>5. \A i \in DOMAIN stopping' : stopping'[i].status = Pending
    BY <1>4 DEF BeginStop
<1>6. DOMAIN running' = DOMAIN running \ Keys(q) /\ UNCHANGED <<counter, stray>>
    BY DEF BeginStop
<1>7. running' \in [DOMAIN running' -> States]
    BY DEF BeginStop, HarasserOK
<1>. QED
    BY <1>4, <1>5, <1>6, <1>7 DEF HarasserOK

\* The types of the harassers, and their ids.
LEMMA HarasserStep ==
    ASSUME TInv, [Next]_vars
    PROVE  HarasserOK' /\ KeysInv'
<1>0. ControlOK /\ HarasserOK /\ KeysInv
    BY DEF TInv
<1> DEFINE Free(p) == p \in Places \ (Holding \cup Stopping \cup {"last", "off"})
           Idle == UNCHANGED <<running, counter, stopping, stray, ids>>
<1> USE DEF Places, Begun, Testing, Holding, Stopping
<1>a. ASSUME Free(pc), Free(pc'), Idle
      PROVE  HarasserOK' /\ KeysInv'
    BY <1>0, <1>a DEF HarasserOK, KeysInv
<1>b. ASSUME pc \in Stopping, stopping = <<>>, Free(pc'), Idle
      PROVE  HarasserOK' /\ KeysInv'
    BY <1>0, <1>b DEF HarasserOK, KeysInv
<1>c. ASSUME pc' = pc, UNCHANGED ids, counter \in Nat, counter' = counter, HarasserOK',
             DOMAIN running' = DOMAIN running, Len(stopping') = Len(stopping)
      PROVE  KeysInv'
    BY <1>0, <1>c DEF HarasserOK, KeysInv
<1>s. ASSUME pc \in Holding, pc' \in Stopping, BeginStop(ids), UNCHANGED ids
      PROVE  HarasserOK' /\ KeysInv'
    <2>1. /\ stopping = <<>> /\ DOMAIN running \subseteq 0 .. counter - 1 /\ counter >= Pairs
          /\ ids = [i \in 1 .. Pairs |-> counter - Pairs + i - 1]
          /\ Keys(ids) \subseteq DOMAIN running /\ counter \in Nat /\ ids \in Seq(Int)
        BY <1>0, <1>s DEF KeysInv, HarasserOK
    <2>2. Len(ids) = Pairs
        BY <2>1, Bounds
    <2>3. /\ HarasserOK' /\ Len(stopping') = Pairs /\ counter' = counter
          /\ DOMAIN running' = DOMAIN running \ Keys(ids)
        BY <1>0, <1>s, <2>1, <2>2, BeginStopOK
    <2>4. ASSUME NEW k \in DOMAIN running, k \notin Keys(ids)
          PROVE  k \in 0 .. counter - Pairs - 1
        <3>1. CASE k >= counter - Pairs
            <4> DEFINE i == k - counter + Pairs + 1
            <4>1. i \in 1 .. Pairs /\ DOMAIN ids = 1 .. Pairs
                BY <2>1, <3>1, Bounds
            <4>2. ids[i] = k
                BY <2>1, <4>1, Bounds
            <4>. QED
                BY <2>4, <4>1, <4>2 DEF Keys
        <3>. QED
            BY <2>1, <3>1, Bounds
    <2>. QED
        BY <1>s, <2>1, <2>3, <2>4, Bounds DEF KeysInv
<1>1. CASE Begins
    BY <1>1, <1>0, <1>a DEF Begins, Begin, harasser
<1>2. CASE UpdateDefaults
    BY <1>2, <1>0, <1>a DEF UpdateDefaults, harasser
<1>3. CASE SetupPaths
    BY <1>3, <1>0, <1>a DEF SetupPaths, harasser
<1>4. CASE SetupBreaks
    BY <1>4, <1>0, <1>a DEF SetupBreaks, SetupFails, harasser
<1>5. CASE NoTests
    BY <1>5, <1>0, <1>a DEF NoTests, Reset, harasser
<1>6. CASE Collects
    BY <1>6, <1>0, <1>a DEF Collects, CollectTests, harasser
<1>7. CASE NoAllocation
    BY <1>7, <1>0, <1>a DEF NoAllocation, harasser
<1>8. CASE Allocate
    BY <1>8, <1>0, <1>a DEF Allocate, harasser
<1>9. CASE AllocateFails
    BY <1>9, <1>0, <1>a DEF AllocateFails, Reset, harasser
<1>10. CASE SkipTest
    BY <1>10, <1>0, <1>a DEF SkipTest, harasser
<1>11. CASE StartHarassers
    <2>1. /\ pc = "tests" /\ pc' = "check" /\ ids' = NewIds /\ counter' = counter + Pairs
          /\ DOMAIN running' = DOMAIN running \cup Keys(NewIds)
          /\ UNCHANGED <<stopping, stray>>
        BY <1>11 DEF StartHarassers, StartScripts
    <2>2. stopping = <<>> /\ DOMAIN running \subseteq 0 .. counter - 1 /\ counter \in Nat
        BY <1>0, <2>1 DEF KeysInv, HarasserOK
    <2>3. DOMAIN running' \subseteq 0 .. counter' - 1 /\ counter' \in Nat /\ counter' >= Pairs
        BY <2>1, <2>2, NewKeys, Bounds
    <2>4. running' \in [DOMAIN running' -> States]
        BY <1>0, <1>11 DEF StartHarassers, StartScripts, HarasserOK, States
    <2>5. HarasserOK'
        BY <1>0, <2>1, <2>2, <2>3, <2>4, NewKeys DEF HarasserOK
    <2>6. ids' = [i \in 1 .. Pairs |-> counter' - Pairs + i - 1]
        <3>1. \A i \in 1 .. Pairs : counter + i - 1 = counter' - Pairs + i - 1
            BY <2>1, <2>2, Bounds
        <3>. QED
            BY <2>1, <3>1 DEF NewIds
    <2>7. Keys(ids)' = Keys(NewIds)
        BY <2>1 DEF Keys
    <2>. QED
        BY <2>1, <2>2, <2>3, <2>5, <2>6, <2>7 DEF KeysInv
<1>12. CASE CheckPasses
    BY <1>12, <1>0 DEF CheckPasses, harasser, HarasserOK, KeysInv
<1>13. CASE CheckFails
    <2>1. pc \in Holding /\ pc' \in Stopping /\ BeginStop(ids) /\ UNCHANGED ids
        BY <1>13 DEF CheckFails
    <2>. QED
        BY <1>s, <2>1
<1>14. CASE TestEnds
    <2>1. pc \in Holding /\ pc' \in Stopping /\ BeginStop(ids) /\ UNCHANGED ids
        BY <1>14 DEF TestEnds
    <2>. QED
        BY <1>s, <2>1
<1>15. CASE Judging
    <2>1. pc = "judge" /\ stopping = <<>> /\ pc' \in {"record", "tests"} /\ Idle
        BY <1>15 DEF Judging, Judged, harasser
    <2>. QED
        BY <1>b, <2>1
<1>16. CASE Record
    BY <1>16, <1>0, <1>a DEF Record, harasser
<1>17. CASE Deallocate
    BY <1>17, <1>0, <1>a DEF Deallocate, Reset, harasser
<1>18. CASE DeallocateFails
    BY <1>18, <1>0, <1>a DEF DeallocateFails, Reset, harasser
<1>19. CASE HarasserKeyError
    BY <1>19, <1>b DEF HarasserKeyError, Escape, harasser
<1>20. CASE RaiseInTest
    <2>1. pc = "run" /\ pc' = "idle" /\ Idle
        BY <1>20 DEF RaiseInTest, Escape, harasser
    <2>. QED
        BY <1>0, <2>1 DEF HarasserOK, KeysInv
<1>21. CASE RaiseInStop
    <2>1. /\ pc \in Stopping /\ pc' = "idle" /\ UNCHANGED ids /\ stopping' = <<>>
          /\ UNCHANGED <<running, counter>>
        BY <1>21 DEF RaiseInStop, AbandonStop, Escape
    <2>2. stray' \in BOOLEAN
        <3>1. stray' = (stray \/ \E i \in DOMAIN stopping : stopping[i].state = "alive")
            BY <1>21 DEF RaiseInStop, AbandonStop
        <3>. QED
            BY <3>1
    <2>3. HarasserOK'
        BY <1>0, <2>1, <2>2 DEF HarasserOK
    <2>. QED
        BY <1>0, <2>1, <2>3 DEF HarasserOK, KeysInv
<1>22. CASE AllocateRaises
    BY <1>22, <1>0, <1>a DEF AllocateRaises, RaiseInAllocate, Escape, harasser
<1>23. CASE DeallocateRaises
    BY <1>23, <1>0, <1>a DEF DeallocateRaises, RaiseInDeallocate, Escape, harasser
<1>24. CASE ClosesLauncher
    BY <1>24, <1>0, <1>a DEF ClosesLauncher, CloseLauncher, harasser
<1>25. CASE CloseHarasser
    <2>0. pc = "closing" /\ UNCHANGED ids /\ stopping = <<>> /\ DOMAIN running \subseteq 0 .. counter - 1
        BY <1>0, <1>25 DEF CloseHarasser, KeysInv
    <2>1. CASE Activated /\ counter > 0
        <3>0. PICK n \in 0 .. counter : \E q \in [1 .. n -> DOMAIN running] :
                Keys(q) = DOMAIN running /\ BeginStop(q)
            BY <1>25, <2>1 DEF CloseHarasser
        <3>1. PICK q \in [1 .. n -> DOMAIN running] : Keys(q) = DOMAIN running /\ BeginStop(q)
            BY <3>0
        <3>2. q \in Seq(Int) /\ Len(q) = n
            BY <1>0, <2>0, <3>1 DEF HarasserOK
        <3>3. HarasserOK' /\ Len(stopping') = n /\ counter' = counter /\ DOMAIN running' = {}
            BY <1>0, <2>0, <3>1, <3>2, BeginStopOK
        <3>4. pc' = "last"
            BY <1>25, <2>1 DEF CloseHarasser
        <3>. QED
            BY <3>3, <3>4 DEF KeysInv
    <2>2. CASE ~(Activated /\ counter > 0)
        <3>1. pc' = "off" /\ Idle
            BY <1>25, <2>2 DEF CloseHarasser, harasser
        <3>2. Activated => DOMAIN running = {}
            <4>1. counter \in Nat
                BY <1>0 DEF HarasserOK
            <4>2. Activated => 0 .. counter - 1 = {}
                BY <2>2, <4>1
            <4>. QED
                BY <2>0, <4>2
        <3>. QED
            BY <1>0, <2>0, <3>1, <3>2 DEF HarasserOK, KeysInv
    <2>. QED
        BY <2>1, <2>2
<1>26. CASE Closed
    <2>1. pc = "last" /\ stopping = <<>> /\ pc' = "off" /\ Idle
        BY <1>26 DEF Closed, harasser
    <2>. QED
        BY <1>0, <2>1 DEF HarasserOK, KeysInv
<1>27. CASE Finishes
    <2>1. /\ stopping # <<>> /\ stopping' = Tail(stopping) /\ counter' = counter - 1
          /\ UNCHANGED <<pc, ids, running>>
        BY <1>27 DEF Finishes, FinishOne, Aside
    <2>2. stray' \in BOOLEAN
        BY <1>0, <1>27 DEF Finishes, FinishOne, HarasserOK
    <2>3. /\ stopping' \in Seq([state : States, status : Int])
          /\ Len(stopping') = Len(stopping) - 1 /\ Len(stopping) \in Nat
        BY <1>0, <2>1 DEF HarasserOK
    <2>4. pc \in Stopping \cup {"last"} /\ Len(stopping) <= counter
        BY <1>0, <2>1 DEF KeysInv, ControlOK
    <2>5. HarasserOK'
        BY <1>0, <2>1, <2>2, <2>3, <2>4 DEF HarasserOK
    <2>. QED
        BY <1>0, <2>1, <2>3, <2>4, <2>5 DEF HarasserOK, KeysInv
<1>28. CASE Ends
    <2>1. PICK id \in DOMAIN running, s \in {"ended", "crashed"} : HarasserEnds(id, s)
        BY <1>28 DEF Ends
    <2>2. /\ running' \in [DOMAIN running -> States] /\ DOMAIN running' = DOMAIN running
          /\ UNCHANGED <<counter, stopping, stray, ids, pc>>
        BY <1>0, <1>28, <2>1 DEF HarasserEnds, HarasserOK, States, Ends, Aside
    <2>3. HarasserOK'
        BY <1>0, <2>2 DEF HarasserOK
    <2>. QED
        BY <1>0, <1>c, <2>2, <2>3 DEF HarasserOK
<1>29. CASE LateEnds
    <2>1. PICK i \in DOMAIN stopping, s \in {"ended", "crashed"} : StoppedEnds(i, s)
        BY <1>29 DEF LateEnds
    <2>a. stopping[i] \in [state : States, status : Int]
        <3>1. stopping \in Seq([state : States, status : Int])
            BY <1>0 DEF HarasserOK
        <3>. QED
            BY <3>1, <2>1, AtIndex
    <2>2. [stopping[i] EXCEPT !.state = s] \in [state : States, status : Int]
        BY <2>a DEF States
    <2>3. UNCHANGED <<counter, running, stray, ids, pc>>
        BY <1>29, <2>1 DEF StoppedEnds, LateEnds, Aside
    <2>4. stopping' \in Seq([state : States, status : Int]) /\ Len(stopping') = Len(stopping)
        BY <1>0, <2>1, <2>2 DEF StoppedEnds, HarasserOK
    <2>5. HarasserOK'
        BY <1>0, <2>3, <2>4 DEF HarasserOK
    <2>. QED
        BY <1>0, <1>c, <2>3, <2>4, <2>5 DEF HarasserOK
<1>30. CASE StopRuns
    <2>1. PICK i \in DOMAIN stopping, s \in StopStatuses : RunStopScript(i, s)
        BY <1>30 DEF StopRuns
    <2>a. stopping[i] \in [state : States, status : Int]
        <3>1. stopping \in Seq([state : States, status : Int])
            BY <1>0 DEF HarasserOK
        <3>. QED
            BY <3>1, <2>1, AtIndex
    <2>2. [stopping[i] EXCEPT !.status = s] \in [state : States, status : Int]
        BY <2>a, Bounds
    <2>3. UNCHANGED <<counter, running, stray, ids, pc>>
        BY <2>1 DEF RunStopScript, StopScript
    <2>4. stopping' \in Seq([state : States, status : Int]) /\ Len(stopping') = Len(stopping)
        BY <1>0, <2>1, <2>2 DEF RunStopScript, StopScript, HarasserOK
    <2>5. HarasserOK'
        BY <1>0, <2>3, <2>4 DEF HarasserOK
    <2>. QED
        BY <1>0, <1>c, <2>3, <2>4, <2>5 DEF HarasserOK
<1>31. CASE UNCHANGED vars
    BY <1>31, <1>0 DEF vars, harasser, HarasserOK, KeysInv
<1>32. CASE BreaksOff
    BY <1>32, <1>0, <1>a DEF BreaksOff, CloseRaises, harasser
<1>33. CASE NextCombination
    <2>1. pc = "off" /\ pc' = "idle" /\ Idle
        BY <1>33 DEF NextCombination, harasser
    <2>. QED
        BY <1>0, <2>1 DEF HarasserOK, KeysInv
<1>. QED
    BY <1>1, <1>2, <1>3, <1>4, <1>5, <1>6, <1>7, <1>8, <1>9, <1>10, <1>11, <1>12, <1>13,
       <1>14, <1>15, <1>16, <1>17, <1>18, <1>19, <1>20, <1>21, <1>22, <1>23, <1>24,
       <1>25, <1>26, <1>27, <1>28, <1>29, <1>30, <1>31, <1>32, <1>33, StepCases

LEMMA TInvInvariant == Spec => []TInv
<1>1. Init => TInv
    <2> SUFFICES ASSUME Init PROVE TInv
        OBVIOUS
    <2>1. ManyTests \in Nat
        BY DEF ManyTests
    <2>2. ControlOK
        <3>1. pc \in Places /\ pc \notin Holding \cup Stopping
            BY DEF Init, Places, Holding, Stopping
        <3>2. opt \in Options
            BY DEF Init, Options, NoLimit
        <3>3. sections \in 0 .. MaxSections /\ todo \in 0 .. MaxTests
            BY Bounds DEF Init
        <3>5. halted \in BOOLEAN
            BY DEF Init
        <3>4. /\ logStatus \in Int /\ finalStatus \in Int /\ numTests \in Nat
              /\ maxTests \in Nat /\ troubles = {}
            BY <2>1 DEF Init, Unset
        <3>. QED
            BY <3>1, <3>2, <3>3, <3>4, <3>5 DEF ControlOK
    <2>3. ClusterOK
        <3>1. allocated \in BOOLEAN
            BY DEF Init
        <3>2. clusters \in Int
            BY DEF Init
        <3>. QED
            BY <3>1, <3>2 DEF ClusterOK
    <2>4. ResultsOK
        <3>1. <<>> \in Seq([result : Results, status : Int, ran : BOOLEAN])
            OBVIOUS
        <3>. QED
            BY <3>1 DEF Init, ResultsOK
    <2>5. EnvOK
        <3>1. path \in Seq({"mw", "dep"})
            BY DEF Init
        <3>2. midpath \in BOOLEAN /\ ~midpath
            BY DEF Init
        <3>3. oldpath = NoPath /\ cwd = "home" /\ home = "home"
            BY DEF Init
        <3>. QED
            BY <3>1, <3>2, <3>3 DEF EnvOK
    <2>6. HarasserOK /\ KeysInv
        <3>1. /\ DOMAIN running = {} /\ running = [id \in {} |-> "alive"] /\ counter = 0
              /\ stopping = <<>> /\ ids = <<>> /\ pc = "idle"
            BY DEF Init, HarasserInit
        <3>2. stray \in BOOLEAN
            BY DEF Init, HarasserInit
        <3>3. <<>> \in Seq(Int) /\ <<>> \in Seq([state : States, status : Int])
            OBVIOUS
        <3>4. running \in [DOMAIN running -> States]
            BY <3>1
        <3>5. HarasserOK
            BY <3>1, <3>2, <3>3, <3>4 DEF HarasserOK
        <3>. QED
            BY <3>1, <3>5 DEF KeysInv, Holding, Stopping
    <2>. QED
        BY <2>2, <2>3, <2>4, <2>5, <2>6 DEF TInv
<1>2. TInv /\ [Next]_vars => TInv'
    BY ControlStep, ClusterStep, ResultsStep, EnvStep, HarasserStep DEF TInv
<1>. QED
    BY <1>1, <1>2, PTL DEF Spec

\* Every variable always has its type: the counters of the harassers' ids and of
\* the tests never fall below 0, and the paths hold what a section has put there.
THEOREM SpecTypeOK == Spec => []TypeOK
<1>1. TInv => TypeOK
    BY DEF TInv, ControlOK, ClusterOK, ResultsOK, EnvOK, HarasserOK, TypeOK, Places, Begun, Testing, Options
<1>. QED
    BY <1>1, TInvInvariant, PTL
-----------------------------------------------------------------------------
(* The harassers.  Without an exception, every id that was handed out has     *)
(* been given back when the next test starts: the counter is 0, which is what *)
(* makes the table empty.                                                     *)

Quiet ==
    "raised" \notin troubles =>
        /\ pc \notin Holding \cup Stopping => counter = 0 /\ pc # "last"
        /\ pc \in Holding => counter = Pairs
        /\ pc \in Stopping => counter = Len(stopping)

StopsKnown ==
    /\ StrayExplained
    /\ \A i \in DOMAIN stopping : stopping[i].status \notin {Pending, 0} => "stop" \in troubles

LEMMA QuietStep ==
    ASSUME TInv, Quiet, [Next]_vars
    PROVE  Quiet'
<1>0. ControlOK /\ HarasserOK /\ KeysInv
    BY DEF TInv
<1> DEFINE Free(p) == p \notin Holding \cup Stopping \cup {"last"}
<1> USE DEF Holding, Stopping
<1>t. troubles \subseteq troubles'
    BY Frames
<1>r. ASSUME "raised" \in troubles'
      PROVE  Quiet'
    BY <1>r DEF Quiet
<1>a. ASSUME Free(pc), Free(pc'), UNCHANGED counter
      PROVE  Quiet'
    BY <1>a, <1>t DEF Quiet
<1>b. ASSUME pc \in Stopping, stopping = <<>>, Free(pc'), UNCHANGED counter
      PROVE  Quiet'
    BY <1>b, <1>t DEF Quiet
<1>c. ASSUME pc' = pc, UNCHANGED counter, Len(stopping') = Len(stopping)
      PROVE  Quiet'
    BY <1>c, <1>t DEF Quiet
<1>s. ASSUME pc \in Holding, pc' \in Stopping, BeginStop(ids)
      PROVE  Quiet'
    <2>0. /\ ids \in Seq(Int) /\ Keys(ids) \subseteq DOMAIN running
          /\ ids = [i \in 1 .. Pairs |-> counter - Pairs + i - 1]
        BY <1>0, <1>s DEF HarasserOK, KeysInv
    <2>1. Len(stopping') = Len(ids) /\ counter' = counter
        BY <1>0, <1>s, <2>0, BeginStopOK
    <2>2. Len(ids) = Pairs
        BY <2>0, Bounds
    <2>. QED
        BY <1>s, <1>t, <2>1, <2>2 DEF Quiet
<1>1. CASE Begins
    BY <1>1, <1>a DEF Begins, Begin, harasser
<1>2. CASE UpdateDefaults
    BY <1>2, <1>a DEF UpdateDefaults, harasser
<1>3. CASE SetupPaths
    BY <1>3, <1>a DEF SetupPaths, harasser
<1>4. CASE SetupBreaks
    BY <1>4, <1>a DEF SetupBreaks, SetupFails, harasser
<1>5. CASE NoTests
    BY <1>5, <1>a DEF NoTests, Reset, harasser
<1>6. CASE Collects
    BY <1>6, <1>a DEF Collects, CollectTests, harasser
<1>7. CASE NoAllocation
    BY <1>7, <1>a DEF NoAllocation, harasser
<1>8. CASE Allocate
    BY <1>8, <1>a DEF Allocate, harasser
<1>9. CASE AllocateFails
    BY <1>9, <1>a DEF AllocateFails, Reset, harasser
<1>10. CASE SkipTest
    BY <1>10, <1>a DEF SkipTest, harasser
<1>11. CASE StartHarassers
    <2>1. pc = "tests" /\ pc' = "check" /\ counter' = counter + Pairs
        BY <1>11 DEF StartHarassers, StartScripts
    <2>. QED
        BY <1>t, <2>1, Bounds DEF Quiet
<1>12. CASE CheckPasses
    <2>1. pc \in Holding /\ pc' \in Holding /\ counter' = counter
        BY <1>12 DEF CheckPasses, harasser
    <2>. QED
        BY <1>t, <2>1 DEF Quiet
<1>13. CASE CheckFails
    BY <1>13, <1>s DEF CheckFails
<1>14. CASE TestEnds
    BY <1>14, <1>s DEF TestEnds
<1>15. CASE Judging
    <2>1. pc = "judge" /\ stopping = <<>> /\ pc' \in {"record", "tests"} /\ UNCHANGED counter
        BY <1>15 DEF Judging, Judged, harasser
    <2>. QED
        BY <1>b, <2>1
<1>16. CASE Record
    BY <1>16, <1>a DEF Record, harasser
<1>17. CASE Deallocate
    BY <1>17, <1>a DEF Deallocate, Reset, harasser
<1>18. CASE DeallocateFails
    BY <1>18, <1>a DEF DeallocateFails, Reset, harasser
<1>19. CASE HarasserKeyError
    BY <1>19, <1>r DEF HarasserKeyError, Escape
<1>20. CASE RaiseInTest
    BY <1>20, <1>r DEF RaiseInTest, Escape
<1>21. CASE RaiseInStop
    BY <1>21, <1>r DEF RaiseInStop, Escape
<1>22. CASE AllocateRaises
    BY <1>22, <1>r DEF AllocateRaises, RaiseInAllocate, Escape
<1>23. CASE DeallocateRaises
    BY <1>23, <1>r DEF DeallocateRaises, RaiseInDeallocate, Escape
<1>24. CASE ClosesLauncher
    BY <1>24, <1>a DEF ClosesLauncher, CloseLauncher, harasser
<1>25. CASE CloseHarasser
    <2>0. pc = "closing"
        BY <1>25 DEF CloseHarasser
    <2>1. CASE Activated /\ counter > 0
        <3>1. "raised" \in troubles
            BY <2>0, <2>1 DEF Quiet
        <3>. QED
            BY <1>r, <1>t, <3>1
    <2>2. CASE ~(Activated /\ counter > 0)
        BY <1>25, <1>a, <2>2 DEF CloseHarasser, harasser
    <2>. QED
        BY <2>1, <2>2
<1>26. CASE Closed
    <2>1. pc = "last" /\ stopping = <<>> /\ pc' = "off" /\ UNCHANGED counter
        BY <1>26 DEF Closed, harasser
    <2>. QED
        BY <1>r, <1>t, <2>1 DEF Quiet
<1>27. CASE Finishes
    <2>1. /\ stopping # <<>> /\ stopping' = Tail(stopping) /\ counter' = counter - 1
          /\ UNCHANGED <<pc, troubles>>
        BY <1>27 DEF Finishes, FinishOne, Aside
    <2>2. Len(stopping') = Len(stopping) - 1 /\ Len(stopping) \in Nat
        BY <1>0, <2>1 DEF HarasserOK
    <2>3. pc \in Stopping \cup {"last"} /\ counter \in Nat
        BY <1>0, <2>1 DEF KeysInv, HarasserOK
    <2>. QED
        BY <2>1, <2>2, <2>3 DEF Quiet
<1>28. CASE Ends
    BY <1>28, <1>c DEF Ends, HarasserEnds, Aside
<1>29. CASE LateEnds
    <2>1. Len(stopping') = Len(stopping) /\ UNCHANGED counter
        BY <1>0, <1>29 DEF LateEnds, StoppedEnds, HarasserOK
    <2>. QED
        BY <1>29, <1>c, <2>1 DEF LateEnds, Aside
<1>30. CASE StopRuns
    <2>1. Len(stopping') = Len(stopping) /\ UNCHANGED <<counter, pc>>
        BY <1>0, <1>30 DEF StopRuns, RunStopScript, StopScript, HarasserOK
    <2>. QED
        BY <1>c, <2>1
<1>31. CASE UNCHANGED vars
    BY <1>31, <1>c DEF vars, harasser
<1>32. CASE BreaksOff
    BY <1>32, <1>r DEF BreaksOff, CloseRaises
<1>33. CASE NextCombination
    BY <1>33, <1>a DEF NextCombination, harasser
<1>. QED
    BY <1>1, <1>2, <1>3, <1>4, <1>5, <1>6, <1>7, <1>8, <1>9, <1>10, <1>11, <1>12, <1>13,
       <1>14, <1>15, <1>16, <1>17, <1>18, <1>19, <1>20, <1>21, <1>22, <1>23, <1>24,
       <1>25, <1>26, <1>27, <1>28, <1>29, <1>30, <1>31, <1>32, <1>33, StepCases

LEMMA StopsKnownStep ==
    ASSUME TInv, StopsKnown, [Next]_vars
    PROVE  StopsKnown'
<1>0. ControlOK /\ HarasserOK /\ KeysInv /\ troubles \subseteq troubles'
    BY Frames DEF TInv
<1>i. \A i \in DOMAIN stopping : stopping[i] \in [state : States, status : Int]
    BY <1>0, AtIndex DEF HarasserOK
<1>a. ASSUME UNCHANGED <<stopping, stray>>
      PROVE  StopsKnown'
    BY <1>0, <1>a DEF StopsKnown, StrayExplained
<1>b. ASSUME UNCHANGED stray, \A i \in DOMAIN stopping' : stopping'[i].status = Pending
      PROVE  StopsKnown'
    BY <1>0, <1>b DEF StopsKnown, StrayExplained
<1>s. ASSUME NEW q \in Seq(Int), Keys(q) \subseteq DOMAIN running, BeginStop(q)
      PROVE  StopsKnown'
    BY <1>0, <1>b, <1>s, BeginStopOK
<1>1. CASE UNCHANGED <<running, counter, stopping, stray, ids>>
    BY <1>1, <1>a
<1>2. CASE StartHarassers
    BY <1>2, <1>a DEF StartHarassers, StartScripts
<1>3. CASE CheckFails
    BY <1>0, <1>3, <1>s DEF CheckFails, KeysInv, Holding, HarasserOK
<1>4. CASE TestEnds
    BY <1>0, <1>4, <1>s DEF TestEnds, KeysInv, Holding, HarasserOK
<1>5. CASE RaiseInStop
    <2>1. stopping' = <<>> /\ "raised" \in troubles'
        BY <1>5 DEF RaiseInStop, AbandonStop, Escape
    <2>. QED
        BY <2>1 DEF StopsKnown, StrayExplained
<1>6. CASE CloseHarasser
    <2>1. CASE Activated /\ counter > 0
        <3>0. PICK n \in 0 .. counter : \E q \in [1 .. n -> DOMAIN running] :
                Keys(q) = DOMAIN running /\ BeginStop(q)
            BY <1>6, <2>1 DEF CloseHarasser
        <3>1. PICK q \in [1 .. n -> DOMAIN running] : Keys(q) = DOMAIN running /\ BeginStop(q)
            BY <3>0
        <3>2. q \in Seq(Int)
            <4>1. \A i \in 1 .. n : q[i] \in Int
                BY <1>0, <3>1 DEF HarasserOK
            <4>. QED
                BY <4>1
        <3>. QED
            BY <1>s, <3>1, <3>2
    <2>2. CASE ~(Activated /\ counter > 0)
        BY <1>6, <1>a, <2>2 DEF CloseHarasser, harasser
    <2>. QED
        BY <2>1, <2>2
<1>7. CASE Finishes
    <2>1. /\ stopping # <<>> /\ \A i \in DOMAIN stopping : stopping[i].status # Pending
          /\ Head(stopping).status = 0 /\ ~JoinTimeout => Head(stopping).state # "alive"
          /\ stray' = (stray \/ Head(stopping).state = "alive")
          /\ stopping' = Tail(stopping) /\ UNCHANGED troubles
        BY <1>7 DEF Finishes, FinishOne, Aside
    <2>2. Head(stopping) = stopping[1] /\ 1 \in DOMAIN stopping
        BY <1>0, <2>1 DEF HarasserOK
    <2>3. \A i \in DOMAIN stopping' : i + 1 \in DOMAIN stopping /\ stopping'[i] = stopping[i + 1]
        BY <1>0, <2>1 DEF HarasserOK
    <2>4. CASE Head(stopping).state = "alive"
        <3>1. JoinTimeout \/ "stop" \in troubles
            BY <2>1, <2>2, <2>4 DEF StopsKnown
        <3>. QED
            BY <2>1, <2>3, <3>1 DEF StopsKnown, StrayExplained
    <2>5. CASE Head(stopping).state # "alive"
        BY <2>1, <2>3, <2>5 DEF StopsKnown, StrayExplained
    <2>. QED
        BY <2>4, <2>5
<1>8. CASE Ends
    BY <1>8, <1>a DEF Ends, HarasserEnds
<1>9. CASE LateEnds
    <2>1. PICK i \in DOMAIN stopping, s \in {"ended", "crashed"} : StoppedEnds(i, s)
        BY <1>9 DEF LateEnds
    <2>2. DOMAIN stopping' = DOMAIN stopping /\ UNCHANGED <<stray, troubles>>
        BY <1>9, <2>1 DEF StoppedEnds, LateEnds, Aside
    <2>3. \A j \in DOMAIN stopping : stopping'[j].status = stopping[j].status
        BY <1>i, <2>1 DEF StoppedEnds
    <2>. QED
        BY <2>2, <2>3 DEF StopsKnown, StrayExplained
<1>10. CASE StopRuns
    <2>1. PICK i \in DOMAIN stopping, s \in StopStatuses : RunStopScript(i, s)
        BY <1>10 DEF StopRuns
    <2>2. DOMAIN stopping' = DOMAIN stopping /\ UNCHANGED stray
        BY <2>1 DEF RunStopScript, StopScript
    <2>3. \A j \in DOMAIN stopping :
            stopping'[j].status = IF j = i THEN s ELSE stopping[j].status
        BY <1>i, <2>1 DEF RunStopScript, StopScript
    <2>4. s = 0 \/ "stop" \in troubles'
        BY <2>1 DEF RunStopScript
    <2>. QED
        BY <1>0, <2>2, <2>3, <2>4 DEF StopsKnown, StrayExplained
<1>. QED
    BY <1>1, <1>2, <1>3, <1>4, <1>5, <1>6, <1>7, <1>8, <1>9, <1>10, Frames

\* No harasser escapes the plugin's table, whatever runs and fails: none is
\* left in it when the next test starts or at the end, and none lives outside of
\* it without an exception, a failed stop script or a join that timed out.
THEOREM SpecHarassersKnown == Spec => []HarassersKnown
<1>1. Init => Quiet /\ StopsKnown
    BY DEF Init, HarasserInit, Quiet, StopsKnown, StrayExplained, Holding, Stopping
<1>2. TInv /\ (Quiet /\ StopsKnown) /\ [Next]_vars => (Quiet /\ StopsKnown)'
    BY QuietStep, StopsKnownStep
<1>3. TInv /\ Quiet /\ StopsKnown => HarassersKnown
    <2> SUFFICES ASSUME TInv, Quiet, StopsKnown PROVE HarassersKnown
        OBVIOUS
    <2>1. HarasserOK /\ KeysInv
        BY DEF TInv
    <2>2. StartsQuiet
        <3> SUFFICES ASSUME pc = "tests", "raised" \notin troubles
                     PROVE  DOMAIN running = {} /\ counter = 0
            BY DEF StartsQuiet
        <3>1. counter = 0
            BY DEF Quiet, Holding, Stopping
        <3>2. DOMAIN running \subseteq 0 .. counter - 1
            BY <2>1 DEF KeysInv, Holding, Stopping
        <3>. QED
            BY <3>1, <3>2
    <2>3. AllStopped
        BY <2>1 DEF AllStopped, KeysInv
    <2>. QED
        BY <2>2, <2>3 DEF HarassersKnown, StopsKnown
<1>. QED
    BY <1>1, <1>2, <1>3, TInvInvariant, PTL DEF Spec

\* start() never hands out an id that is still in running_harassers.
THEOREM SpecKeysAreNew == Spec => KeysAreNew
<1>1. TInv /\ [Next]_vars =>
        [pc = "tests" /\ pc' = "check" => DOMAIN running \cap Keys(ids') = {}]_vars
    <2> SUFFICES ASSUME TInv, [Next]_vars, pc = "tests", pc' = "check"
                 PROVE  DOMAIN running \cap Keys(ids') = {}
        OBVIOUS
    <2>1. StartHarassers
        BY Regions
    <2>2. counter \in Nat /\ DOMAIN running \subseteq 0 .. counter - 1
        BY DEF TInv, HarasserOK, KeysInv, Holding, Stopping
    <2>3. ids' = NewIds
        BY <2>1 DEF StartHarassers
    <2>4. Keys(ids') = counter .. counter + Pairs - 1
        BY <2>2, <2>3, NewKeys
    <2>. QED
        BY <2>2, <2>4, Bounds
<1>. QED
    BY <1>1, TInvInvariant, PTL DEF Spec, KeysAreNew
-----------------------------------------------------------------------------
(* The tests.  What is left of the limit does not depend on the tests that    *)
(* have been run: numTests and the entries of results grow together.          *)

StatusInv ==
    /\ finalStatus = 0 => \A i \in DOMAIN results : Bad(results[i]) => results[i].status = 0
    /\ pc = "deallocate" => logStatus = finalStatus

LimitInv ==
    /\ pc \in Begun => results = <<>>
    /\ opt.max # NoLimit /\ pc \in {"allocate"} \cup Testing =>
        /\ maxTests = opt.max
        /\ numTests - Cardinality(Ran) < opt.max =>
              /\ numTests <= opt.max
              /\ pc \notin {"record", "deallocate"} => numTests < opt.max

\* The tests that have run, with one more entry in the log.
LEMMA RanOK ==
    ASSUME ResultsOK
    PROVE  /\ IsFiniteSet(Ran) /\ Cardinality(Ran) \in Nat
           /\ \A r \in Results, s \in Int :
                /\ Enter(r, s, TRUE) => Cardinality(Ran') = Cardinality(Ran) + 1
                /\ Enter(r, s, FALSE) => Ran' = Ran
<1>1. Ran \subseteq 1 .. Len(results) /\ Len(results) \in Nat
    BY DEF Ran, ResultsOK
<1>2. IsFiniteSet(Ran) /\ Cardinality(Ran) \in Nat
    <2>1. IsFiniteSet(1 .. Len(results))
        BY <1>1, FS_Interval
    <2>2. IsFiniteSet(Ran)
        BY <1>1, <2>1, FS_Subset
    <2>. QED
        BY <2>2, FS_CardinalityType
<1>3. ASSUME NEW r \in Results, NEW s \in Int, NEW ran \in BOOLEAN, Enter(r, s, ran)
      PROVE  Ran' = IF ran THEN Ran \cup {Len(results) + 1} ELSE Ran
    <2>1. /\ DOMAIN results = 1 .. Len(results) /\ DOMAIN results' = 1 .. Len(results) + 1
          /\ \A i \in DOMAIN results : results'[i] = results[i]
          /\ results'[Len(results) + 1] = [result |-> r, status |-> s, ran |-> ran]
        BY <1>3, EnterOK
    <2>2. results'[Len(results) + 1].ran = ran
        BY <2>1
    <2>. QED
        BY <1>1, <2>1, <2>2 DEF Ran
<1>4. Cardinality(Ran \cup {Len(results) + 1}) = Cardinality(Ran) + 1
    BY <1>1, <1>2, FS_AddElement
<1>. QED
    BY <1>2, <1>3, <1>4

LEMMA StatusStep ==
    ASSUME TInv, StatusInv, [Next]_vars
    PROVE  StatusInv'
<1>0. ResultsOK
    BY DEF TInv
<1> DEFINE Told == finalStatus = 0 =>
                     \A i \in DOMAIN results : Bad(results[i]) => results[i].status = 0
<1>1. CASE Judging
    <2>1. PICK r \in Results, s \in Int, f \in Int :
            Judged(r, s, f) /\ (r \in {"failed", "timedout"} /\ f = 0 => s = 0)
        BY <1>1 DEF Judging
    <2>2. /\ Enter(r, s, TRUE) /\ finalStatus' = (IF finalStatus = 0 THEN f ELSE finalStatus)
          /\ pc' # "deallocate"
        BY <2>1 DEF Judged
    <2>3. /\ DOMAIN results = 1 .. Len(results) /\ DOMAIN results' = 1 .. Len(results) + 1
          /\ \A i \in DOMAIN results : results'[i] = results[i]
          /\ results'[Len(results) + 1] = [result |-> r, status |-> s, ran |-> TRUE]
        BY <1>0, <2>2, EnterOK
    <2>4. ASSUME finalStatus' = 0, NEW i \in DOMAIN results', Bad(results'[i])
          PROVE  results'[i].status = 0
        <3>1. finalStatus = 0 /\ f = 0
            BY <2>2, <2>4
        <3>2. CASE i \in DOMAIN results
            BY <2>3, <2>4, <3>1, <3>2 DEF StatusInv
        <3>3. CASE i = Len(results) + 1
            BY <2>1, <2>3, <2>4, <3>1, <3>3 DEF Bad
        <3>. QED
            BY <1>0, <2>3, <3>2, <3>3 DEF ResultsOK
    <2>. QED
        BY <2>2, <2>4 DEF StatusInv, Bad
<1>2. CASE Begins
    <2>1. results' = <<>> /\ pc' = "paths"
        BY <1>2 DEF Begins, Begin
    <2>. QED
        BY <2>1 DEF StatusInv
<1>3. CASE SkipTest
    <2>0. "skipped" \in Results /\ SkipStatus \in Int
        BY DEF Results, SkipStatus
    <2>1. /\ Enter("skipped", SkipStatus, FALSE) /\ finalStatus' = finalStatus
          /\ pc' # "deallocate"
        BY <1>3 DEF SkipTest, totals
    <2>2. /\ DOMAIN results = 1 .. Len(results) /\ DOMAIN results' = 1 .. Len(results) + 1
          /\ \A i \in DOMAIN results : results'[i] = results[i]
          /\ results'[Len(results) + 1] =
                [result |-> "skipped", status |-> SkipStatus, ran |-> FALSE]
        BY <1>0, <2>0, <2>1, EnterOK
    <2>3. \A i \in DOMAIN results' :
            i \in DOMAIN results \/ results'[i].result = "skipped"
        BY <1>0, <2>2 DEF ResultsOK
    <2>. QED
        BY <2>1, <2>2, <2>3 DEF StatusInv, Bad
<1>4. CASE results' = results /\ ~Judging
    <2>1. finalStatus' = finalStatus
        BY <1>4, Frames DEF Collects, CollectTests
    <2>2. pc' = "deallocate" => logStatus' = finalStatus
        <3>1. CASE Record
            BY <3>1 DEF Record
        <3>2. CASE pc = "deallocate" /\ logStatus' = logStatus
            BY <3>2 DEF StatusInv
        <3>. QED
            BY <3>1, <3>2, Regions
    <2>. QED
        BY <1>4, <2>1, <2>2 DEF StatusInv, Bad
<1>. QED
    BY <1>1, <1>2, <1>3, <1>4, Frames

LEMMA LimitStep ==
    ASSUME TInv, LimitInv, [Next]_vars
    PROVE  LimitInv'
<1>0. ResultsOK /\ ControlOK /\ opt.max \in Nat
    BY DEF TInv, ControlOK, Options
<1> USE DEF Begun, Testing
<1>1. CASE Judging
    <2>1. PICK r \in Results, s \in Int, f \in Int : Judged(r, s, f)
        BY <1>1 DEF Judging
    <2>2. /\ Enter(r, s, TRUE) /\ pc = "judge" /\ numTests' = numTests + 1
          /\ pc' = (IF numTests' = maxTests THEN "record" ELSE "tests")
          /\ UNCHANGED <<opt, maxTests>>
        BY <2>1 DEF Judged, control
    <2>3. /\ Cardinality(Ran') = Cardinality(Ran) + 1
          /\ Cardinality(Ran) \in Nat /\ numTests \in Nat
        BY <1>0, <2>2, RanOK DEF ControlOK
    <2>4. Cardinality(Ran)' = Cardinality(Ran')
        OBVIOUS
    <2>5. ASSUME opt.max # NoLimit
          PROVE  /\ maxTests' = opt.max
                 /\ numTests' - Cardinality(Ran') < opt.max =>
                      /\ numTests' <= opt.max
                      /\ pc' \notin {"record", "deallocate"} => numTests' < opt.max
        <3>1. /\ maxTests = opt.max
              /\ numTests - Cardinality(Ran) < opt.max => numTests < opt.max
            BY <2>2, <2>5 DEF LimitInv
        <3>2. numTests' - Cardinality(Ran') = numTests - Cardinality(Ran)
            BY <2>2, <2>3
        <3>3. numTests' - Cardinality(Ran') < opt.max => numTests < opt.max
            BY <3>1, <3>2
        <3>4. numTests < opt.max => numTests' <= opt.max
            BY <1>0, <2>2, <2>3
        <3>5. numTests' <= opt.max /\ pc' # "record" => numTests' < opt.max
            BY <1>0, <2>2, <2>3, <3>1
        <3>. QED
            BY <2>2, <3>1, <3>3, <3>4, <3>5
    <2>. QED
        BY <2>2, <2>5 DEF LimitInv
<1>2. CASE Begins
    <2>1. results' = <<>> /\ pc' = "paths"
        BY <1>2 DEF Begins, Begin
    <2>. QED
        BY <2>1 DEF LimitInv
<1>3. CASE SkipTest
    <2>0. "skipped" \in Results /\ SkipStatus \in Int
        BY DEF Results, SkipStatus
    <2>1. /\ Enter("skipped", SkipStatus, FALSE) /\ pc' = "tests" /\ pc = "tests"
          /\ UNCHANGED <<opt, numTests, maxTests>>
        BY <1>3 DEF SkipTest, control, totals
    <2>2. Ran' = Ran
        BY <1>0, <2>0, <2>1, RanOK
    <2>. QED
        BY <2>1, <2>2 DEF LimitInv
<1>4. CASE Collects
    <2>1. /\ pc = "collect" /\ pc' = "allocate" /\ UNCHANGED <<opt, numTests, results>>
          /\ maxTests' = (IF opt.max # NoLimit THEN opt.max ELSE maxTests)
        BY <1>4 DEF Collects, CollectTests, control
    <2>2. results = <<>> /\ Ran' = {}
        BY <2>1 DEF LimitInv, Ran
    <2>3. Cardinality(Ran') = 0
        BY <2>2, FS_EmptySet
    <2>4. numTests' - Cardinality(Ran') = numTests
        BY <1>0, <2>1, <2>3 DEF ControlOK
    <2>5. opt.max # NoLimit => maxTests' = opt.max
        BY <2>1
    <2>6. numTests < opt.max => numTests' <= opt.max /\ numTests' < opt.max
        BY <1>0, <2>1 DEF ControlOK
    <2>. QED
        BY <2>1, <2>2, <2>4, <2>5, <2>6 DEF LimitInv
<1>5. CASE ~Judging /\ ~Begins /\ ~SkipTest /\ ~Collects
    <2>1. UNCHANGED <<opt, results, numTests, maxTests>> /\ Ran' = Ran
        BY <1>5, Frames DEF Ran
    <2>2. /\ pc' \in Begun => pc \in Begun
          /\ pc' \in {"allocate"} \cup Testing => pc \in {"allocate"} \cup Testing
        BY <1>5, Regions DEF NoAllocation, Allocate
    <2>3. pc \in {"record", "deallocate"} /\ pc' \in {"allocate"} \cup Testing =>
            pc' \in {"record", "deallocate"}
        BY <1>5, Regions
    <2>. QED
        BY <2>1, <2>2, <2>3 DEF LimitInv
<1>. QED
    BY <1>1, <1>2, <1>3, <1>4, <1>5

\* A section whose log says 0 has no failed test, other than those that were
\* expected to fail and came back with 0; and one that begins below its limit
\* does not run more tests than are left.
THEOREM SpecTestsAccounted == Spec => []TestsAccounted
<1>1. Init => StatusInv /\ LimitInv
    <2> SUFFICES ASSUME Init PROVE StatusInv /\ LimitInv
        OBVIOUS
    <2>1. results = <<>> /\ pc = "idle"
        BY DEF Init
    <2>. QED
        BY <2>1 DEF StatusInv, LimitInv, Begun, Testing
<1>2. TInv /\ (StatusInv /\ LimitInv) /\ [Next]_vars => (StatusInv /\ LimitInv)'
    BY StatusStep, LimitStep
<1>3. TInv /\ StatusInv /\ LimitInv => TestsAccounted
    <2> SUFFICES ASSUME TInv, StatusInv, LimitInv PROVE TestsAccounted
        OBVIOUS
    <2>1. StatusTells
        BY DEF StatusTells, StatusInv
    <2>2. LimitKept
        BY DEF LimitKept, LimitInv, Testing
    <2>. QED
        BY <2>1, <2>2 DEF TestsAccounted
<1>. QED
    BY <1>1, <1>2, <1>3, TInvInvariant, PTL DEF Spec
-----------------------------------------------------------------------------
(* What a section takes.  The paths were kept as they were before the         *)
(* middleware, so that nothing but dependencies is in them; and a section     *)
(* that has asked for a cluster holds exactly one.                            *)

OnlyDeps(p) == \A i \in DOMAIN p : p[i] = "dep"

PathsInv ==
    troubles \cap {"setup", "revert", "raised"} = {} =>
        /\ midpath => OnlyDeps(oldpath)
        /\ home = "home"
        /\ pc \notin Inside => cwd = "home" /\ OnlyDeps(path)
        /\ ~midpath => OnlyDeps(path)

ClusterInv ==
    /\ troubles \cap {"deallocate", "raised"} = {} =>
          clusters = IF pc \in Testing /\ opt.alloc THEN 1 ELSE 0
    /\ pc \in Testing /\ opt.alloc => allocated

LEMMA PathsStep ==
    ASSUME TInv, PathsInv, [Next]_vars
    PROVE  PathsInv'
<1>0. EnvOK /\ ControlOK /\ troubles \subseteq troubles'
    BY Frames DEF TInv
<1> SUFFICES ASSUME troubles' \cap {"setup", "revert", "raised"} = {}
             PROVE  /\ midpath' => OnlyDeps(oldpath')
                    /\ home' = "home"
                    /\ pc' \notin Inside => cwd' = "home" /\ OnlyDeps(path')
                    /\ ~midpath' => OnlyDeps(path')
    BY DEF PathsInv, OnlyDeps
<1>1. /\ midpath => OnlyDeps(oldpath)
      /\ home = "home"
      /\ pc \notin Inside => cwd = "home" /\ OnlyDeps(path)
      /\ ~midpath => OnlyDeps(path)
    BY <1>0 DEF PathsInv
<1>2. CASE SetupPaths
    <2>1. /\ pc = "paths" /\ AddPaths(opt.mw, opt.deps) /\ home' = cwd /\ pc' = "collect"
        BY <1>2 DEF SetupPaths
    <2>2. OnlyDeps(path) /\ cwd = "home"
        BY <1>1, <2>1 DEF Inside, Testing
    <2>3. midpath' => OnlyDeps(oldpath')
        BY <1>1, <2>1, <2>2 DEF AddPaths
    <2>4. ~midpath' => OnlyDeps(path')
        <3> SUFFICES ASSUME ~midpath' PROVE OnlyDeps(path')
            OBVIOUS
        <3>1. ~opt.mw
            BY <2>1 DEF AddPaths
        <3>2. path' = (IF opt.deps THEN <<"dep">> ELSE <<>>) \o <<>> \o path
            BY <2>1, <3>1 DEF AddPaths, Prepended
        <3>3. path \in Seq({"mw", "dep"})
            BY <1>0 DEF EnvOK
        <3>4. CASE opt.deps
            BY <2>2, <3>2, <3>3, <3>4 DEF OnlyDeps
        <3>5. CASE ~opt.deps
            BY <2>2, <3>2, <3>3, <3>5 DEF OnlyDeps
        <3>. QED
            BY <3>4, <3>5
    <2>. QED
        BY <2>1, <2>2, <2>3, <2>4 DEF Inside
<1>3. CASE SetupBreaks
    BY <1>3 DEF SetupBreaks, SetupFails
<1>4. CASE Resets
    <2>1. /\ path' = (IF midpath THEN oldpath ELSE path) /\ cwd' = home
          /\ UNCHANGED <<oldpath, midpath, home>>
        <3>1. PICK st, tr, at : Reset(st, tr, at)
            BY <1>4 DEF Resets, NoTests, AllocateFails, Deallocate, DeallocateFails
        <3>. QED
            BY <3>1 DEF Reset
    <2>2. OnlyDeps(path')
        BY <1>1, <2>1
    <2>. QED
        BY <1>1, <2>1, <2>2
<1>5. CASE UNCHANGED <<path, oldpath, midpath, cwd, home>> /\ ~Resets
    <2>1. pc \in Inside => pc' \in Inside
        BY <1>5, Regions
    <2>. QED
        BY <1>1, <1>5, <2>1
<1>. QED
    BY <1>2, <1>3, <1>4, <1>5, Frames

LEMMA ClusterInvStep ==
    ASSUME TInv, ClusterInv, [Next]_vars
    PROVE  ClusterInv'
<1>0. ControlOK /\ ClusterOK /\ troubles \subseteq troubles'
    BY Frames DEF TInv
<1> DEFINE Fine == troubles' \cap {"deallocate", "raised"} = {}
           Held(p, o) == IF p \in Testing /\ o.alloc THEN 1 ELSE 0
<1>1. Fine => clusters = Held(pc, opt)
    BY <1>0 DEF ClusterInv
<1>a. ASSUME Fine => clusters' = Held(pc', opt'), pc' \in Testing /\ opt'.alloc => allocated'
      PROVE  ClusterInv'
    BY <1>a DEF ClusterInv
<1>b. ASSUME pc \notin Testing, pc' \notin Testing, Fine => clusters' = clusters
      PROVE  ClusterInv'
    BY <1>1, <1>b, <1>a
<1>c. ASSUME pc' \notin Testing, "raised" \in troubles'
      PROVE  ClusterInv'
    BY <1>a, <1>c
<1>2. CASE NoAllocation
    <2>1. /\ pc = "allocate" /\ ~opt.alloc /\ opt' = opt /\ clusters' = clusters
        BY <1>2 DEF NoAllocation, control
    <2>. QED
        BY <1>1, <1>a, <2>1
<1>3. CASE Allocate
    <2>1. /\ pc = "allocate" /\ pc' = "tests" /\ opt' = opt /\ clusters' = clusters + 1
          /\ allocated' /\ opt.alloc
        BY <1>3 DEF Allocate, control
    <2>2. Fine => clusters' = 1
        BY <1>1, <2>1 DEF Testing
    <2>. QED
        BY <1>a, <2>1, <2>2 DEF Testing
<1>4. CASE AllocateFails
    <2>1. pc = "allocate" /\ pc' = "idle" /\ clusters' = clusters
        BY <1>4 DEF AllocateFails, Reset
    <2>. QED
        BY <1>b, <2>1 DEF Testing
<1>5. CASE Deallocate
    <2>1. pc = "deallocate" /\ pc' = "idle" /\ opt' = opt
        BY <1>5 DEF Deallocate, Reset, control
    <2>2. CASE opt.alloc
        <3>1. clusters' = clusters - 1
            BY <1>5, <2>1, <2>2 DEF Deallocate, ClusterInv, Testing
        <3>2. Fine => clusters' = 0
            BY <1>1, <2>1, <2>2, <3>1 DEF Testing
        <3>. QED
            BY <1>a, <2>1, <3>2 DEF Testing
    <2>3. CASE ~opt.alloc
        <3>1. clusters' = clusters
            BY <1>5, <2>3 DEF Deallocate, cluster
        <3>2. Fine => clusters' = 0
            BY <1>1, <2>3, <3>1
        <3>. QED
            BY <1>a, <2>1, <3>2 DEF Testing
    <2>. QED
        BY <2>2, <2>3
<1>6. CASE DeallocateFails
    <2>1. pc' = "idle" /\ "deallocate" \in troubles'
        BY <1>6 DEF DeallocateFails, Reset
    <2>. QED
        BY <1>a, <2>1 DEF Testing
<1>7. CASE AllocateRaises
    BY <1>7, <1>c DEF AllocateRaises, RaiseInAllocate, Escape, Testing
<1>8. CASE DeallocateRaises
    BY <1>8, <1>c DEF DeallocateRaises, RaiseInDeallocate, Escape, Testing
<1>9. CASE ClosesLauncher
    <2>1. PICK ok \in BOOLEAN : CloseLauncher(ok)
        BY <1>9 DEF ClosesLauncher
    <2>2. pc = "idle" /\ pc' = "closing"
        BY <2>1 DEF CloseLauncher
    <2>3. Fine => clusters = 0
        BY <1>1, <2>2 DEF Testing
    <2>4. clusters = 0 => clusters' = clusters
        BY <2>1 DEF CloseLauncher, cluster
    <2>. QED
        BY <1>b, <2>2, <2>3, <2>4 DEF Testing
<1>10. CASE Begins
    <2>1. pc = "idle" /\ pc' = "paths" /\ clusters' = clusters
        BY <1>10 DEF Begins, Begin, cluster
    <2>. QED
        BY <1>b, <2>1 DEF Testing
<1>11. CASE /\ UNCHANGED <<allocated, clusters, opt>>
            /\ ~(NoAllocation \/ Allocate \/ Resets)
    <2>1. pc' \in Testing => pc \in Testing
        BY <1>11, Regions
    <2>2. CASE pc \in Testing /\ pc' \notin Testing
        <3>1. pc' \notin Inside \/ pc \in Begun \/ pc = "idle"
            BY <2>2, Regions DEF Inside, Begun, Begins, Begin
        <3>2. pc \in Inside /\ pc \notin Begun /\ pc # "idle"
            BY <2>2 DEF Inside, Testing, Begun
        <3>. QED
            BY <1>11, <1>c, <2>2, <3>1, <3>2, Regions
    <2>3. CASE pc \in Testing <=> pc' \in Testing
        BY <1>1, <1>11, <1>a, <2>3 DEF ClusterInv
    <2>. QED
        BY <2>1, <2>2, <2>3
<1>12. CASE NoTests
    <2>1. pc = "collect" /\ pc' = "idle" /\ clusters' = clusters
        BY <1>12 DEF NoTests, Reset, cluster
    <2>. QED
        BY <1>b, <2>1 DEF Testing
<1>13. CASE BreaksOff
    BY <1>13, <1>c DEF BreaksOff, CloseRaises, Testing
<1>. QED
    BY <1>2, <1>3, <1>4, <1>5, <1>6, <1>7, <1>8, <1>9, <1>10, <1>11, <1>12, <1>13, Frames
       DEF Resets

\* Between two sections, the working directory and the paths are as if no
\* section had changed them, dependencies apart, and at the end of the program
\* no cluster is held, unless something went wrong.
THEOREM SpecGivenBack == Spec => []GivenBack
<1>1. Init => PathsInv /\ ClusterInv
    <2> SUFFICES ASSUME Init PROVE PathsInv /\ ClusterInv
        OBVIOUS
    <2>1. /\ pc = "idle" /\ path = <<>> /\ ~midpath /\ cwd = "home" /\ home = "home"
          /\ clusters = 0
        BY DEF Init
    <2>. QED
        BY <2>1 DEF PathsInv, ClusterInv, OnlyDeps, Testing
<1>2. TInv /\ (PathsInv /\ ClusterInv) /\ [Next]_vars => (PathsInv /\ ClusterInv)'
    BY PathsStep, ClusterInvStep
<1>3. PathsInv /\ ClusterInv => GivenBack
    BY DEF PathsInv, ClusterInv, OnlyDeps, Inside, Testing, GivenBack, Restored, ClustersFreed
<1>. QED
    BY <1>1, <1>2, <1>3, TInvInvariant, PTL DEF Spec
=============================================================================
