------------------------------ MODULE Launcher ------------------------------
(***************************************************************************)
(* A launcher plugin (pylib/Tools/Launcher/LauncherMTTTool.py, with the    *)
(* execute of OpenMPI.py) over the sections that use it.  The plugin       *)
(* object lives as long as the program: its counters, its saved paths and  *)
(* its `allocated' flag pass from one section to the next.  Around every   *)
(* test it starts and stops the harassers of module Harasser.              *)
(*                                                                         *)
(* PATH stands for LD_LIBRARY_PATH too; a directory in it is named for     *)
(* what has put it there.  Commands are as in module ExecuteCmd: what runs *)
(* one may raise an exception, which ends the section.                     *)
(***************************************************************************)
EXTENDS Harasser, FiniteSets

CONSTANTS
    Choices,      \* the options a section may have
    MaxSections,  \* bound: sections that use this plugin
    MaxTests,     \* bound: tests in a directory
    Faulty,       \* module and cluster commands may fail, any command may raise
    Activated     \* a section has activated the Harasser plugin

ASSUME LauncherAssumption ==
    /\ Choices \subseteq [mw : BOOLEAN, deps : BOOLEAN, alloc : BOOLEAN, max : Nat]
    /\ MaxSections \in Nat /\ MaxTests \in Nat
    /\ Faulty \in BOOLEAN /\ Activated \in BOOLEAN

SkipStatus == 77
Unset == -1
AnyFailure == 2                      \* a test in fail_tests without a code
NoLimit == 0
ManyTests == 10000000                \* no limit has been given yet
Statuses == {0, 1}                   \* 1 stands for every code but 0 and 77
Expectations == {0, 1, AnyFailure}
NoPath == <<"none">>
Results == {"passed", "skipped", "failed", "timedout"}

VARIABLES
    pc,           \* where the plugin is
    opt,          \* cmds of the current section, or of the last one
    sections, halted,
    todo,         \* tests of this section still to come
    ids,          \* exec_ids of the current test
    results,      \* log['testresults']
    logStatus,    \* log['status']
    finalStatus, numTests, maxTests,
    path, oldpath, midpath, cwd, home,
    allocated,
    clusters,     \* history: allocations that are really held
    troubles      \* history: what has gone wrong so far

env == <<path, oldpath, midpath, cwd, home>>
totals == <<finalStatus, numTests, maxTests>>
cluster == <<allocated, clusters>>
control == <<opt, sections, halted>>
vars == <<pc, control, todo, ids, results, logStatus, totals, env, cluster,
          troubles, harasser>>

Init ==
    /\ HarasserInit
    /\ pc = "idle"
    /\ opt = [mw |-> FALSE, deps |-> FALSE, alloc |-> FALSE, max |-> NoLimit]
    /\ sections = 0 /\ halted = FALSE /\ todo = 0
    /\ ids = <<>> /\ results = <<>> /\ logStatus = Unset
    /\ finalStatus = 0 /\ numTests = 0 /\ maxTests = ManyTests
    /\ path = <<>> /\ oldpath = NoPath /\ midpath = FALSE
    /\ cwd = "home" /\ home = "home"
    /\ allocated = FALSE /\ clusters = 0 /\ troubles = {}
-----------------------------------------------------------------------------
(* execute(): paths, tests, cluster                                        *)

Begin(o) ==
    /\ pc = "idle" /\ ~halted /\ sections < MaxSections
    /\ sections' = sections + 1 /\ opt' = o
    /\ results' = <<>> /\ logStatus' = Unset
    /\ pc' = "paths"
    /\ UNCHANGED <<halted, todo, ids, totals, env, cluster, troubles, harasser>>

\* A section with "Default" in its name only changes the options.
UpdateDefaults ==
    /\ pc = "paths"
    /\ logStatus' = 0
    /\ pc' = "idle"
    /\ UNCHANGED <<control, todo, ids, results, totals, env, cluster, troubles,
                   harasser>>

\* What has been prepended to the paths: the middleware, and then, before it,
\* the dependencies.
Prepended(mw, deps) ==
    (IF deps THEN <<"dep">> ELSE <<>>) \o (IF mw THEN <<"mw">> ELSE <<>>) \o path

\* The paths are kept as they were before the middleware.
AddPaths(mw, deps) ==
    /\ path' = Prepended(mw, deps)
    /\ oldpath' = IF mw \/ (deps /\ oldpath = NoPath) THEN path ELSE oldpath
    /\ midpath' = (midpath \/ mw)

SetupPaths ==
    /\ pc = "paths"
    /\ AddPaths(opt.mw, opt.deps)
    /\ home' = cwd /\ cwd' = "tests"
    /\ pc' = "collect"
    /\ UNCHANGED <<control, todo, ids, results, logStatus, totals, cluster,
                   troubles, harasser>>

\* An error return: the location of the tests, a module, a dependency.  What
\* has been added to the paths by then stays there.
SetupFails(mw, deps) ==
    /\ Faulty /\ pc = "paths"
    /\ mw => opt.mw
    /\ deps => opt.deps /\ (opt.mw => mw)
    /\ AddPaths(mw, deps)
    /\ logStatus' = 1
    /\ troubles' = troubles \cup {"setup"}
    /\ pc' = "idle"
    /\ UNCHANGED <<control, todo, ids, results, totals, cwd, home, cluster,
                   harasser>>

\* resetPaths() as the last call of execute(), with st and tr as the status and
\* the troubles so far.  The error return of revertModules comes before the
\* paths, and leaves the working directory where it is.
Reset(st, tr, at) ==
    /\ pc' = "idle"
    /\ \/ /\ path' = IF midpath THEN oldpath ELSE path
          /\ cwd' = home
          /\ logStatus' = st
          /\ troubles' = tr
       \/ /\ Faulty
          /\ logStatus' = 1
          /\ troubles' = tr \cup {"revert"}
          /\ cwd' = at
          /\ UNCHANGED path
    /\ UNCHANGED <<oldpath, midpath, home>>

NoTests ==
    /\ pc = "collect"
    /\ Reset(1, troubles, cwd)
    /\ UNCHANGED <<control, todo, ids, results, totals, cluster, harasser>>

\* max_num_tests is kept in the plugin when the section gives one.
CollectTests(n) ==
    /\ pc = "collect"
    /\ todo' = n
    /\ maxTests' = IF opt.max # NoLimit THEN opt.max ELSE maxTests
    /\ pc' = "allocate"
    /\ UNCHANGED <<control, ids, results, logStatus, finalStatus, numTests, env,
                   cluster, troubles, harasser>>

NoAllocation ==
    /\ pc = "allocate" /\ ~opt.alloc
    /\ allocated' = FALSE
    /\ pc' = "tests"
    /\ UNCHANGED <<control, todo, ids, results, logStatus, totals, env, clusters,
                   troubles, harasser>>

Allocate ==
    /\ pc = "allocate" /\ opt.alloc
    /\ allocated' = TRUE /\ clusters' = clusters + 1
    /\ pc' = "tests"
    /\ UNCHANGED <<control, todo, ids, results, logStatus, totals, env, troubles,
                   harasser>>

AllocateFails ==
    /\ Faulty /\ pc = "allocate" /\ opt.alloc
    /\ allocated' = TRUE
    /\ Reset(1, troubles, home)
    /\ UNCHANGED <<control, todo, ids, results, totals, clusters, harasser>>
-----------------------------------------------------------------------------
(* runTests()                                                              *)

Enter(r, s, ran) ==
    /\ results' = Append(results, [result |-> r, status |-> s, ran |-> ran])
    /\ todo' = todo - 1

\* A test of skip_tests: it does not count, and max_num_tests is not looked at.
SkipTest ==
    /\ pc = "tests" /\ todo > 0
    /\ Enter("skipped", SkipStatus, FALSE)
    /\ UNCHANGED <<pc, control, ids, logStatus, totals, env, cluster, troubles,
                   harasser>>

StartHarassers ==
    /\ pc = "tests" /\ todo > 0
    /\ StartScripts
    /\ ids' = NewIds
    /\ pc' = "check"
    /\ UNCHANGED <<control, todo, results, logStatus, totals, env, cluster, troubles>>

CheckPasses ==
    /\ pc = "check" /\ Dead(ids) = {}
    /\ pc' = "run"
    /\ UNCHANGED <<control, todo, ids, results, logStatus, totals, env, cluster,
                   troubles, harasser>>

\* check() stops all harassers of this test when one of them has crashed.
CheckFails ==
    /\ pc = "check" /\ Dead(ids) # {}
    /\ BeginStop(ids)
    /\ pc' = "broken"
    /\ UNCHANGED <<control, todo, ids, results, logStatus, totals, env, cluster,
                   troubles>>

\* Mutant: the harassers are left to themselves when the test has ended.
TestEndsNoStop ==
    /\ pc = "run"
    /\ pc' = "judge"
    /\ UNCHANGED <<control, todo, ids, results, logStatus, totals, env, cluster,
                   troubles, harasser>>

TestEnds ==
    /\ pc = "run"
    /\ BeginStop(ids)
    /\ pc' = "judge"
    /\ UNCHANGED <<control, todo, ids, results, logStatus, totals, env, cluster,
                   troubles>>

\* The result of a test that ran, with f as what it does to the final status.
Judged(r, s, f) ==
    /\ pc = "judge" /\ stopping = <<>>
    /\ Enter(r, s, TRUE)
    /\ finalStatus' = IF finalStatus = 0 THEN f ELSE finalStatus
    /\ numTests' = numTests + 1
    /\ pc' = IF numTests' = maxTests THEN "record" ELSE "tests"
    /\ UNCHANGED <<control, ids, logStatus, maxTests, env, cluster, troubles,
                   harasser>>

\* SIGTERM or SIGKILL is not 0.
JudgeTimedOut == Judged("timedout", 1, 1)

JudgeSkipped == Judged("skipped", SkipStatus, 0)

JudgeAnyFailure(s) ==
    IF s # 0 THEN Judged("passed", s, 0) ELSE Judged("failed", 0, 1)

\* Mutant: the first failure is not kept.
JudgeMismatchForgets(s, e) ==
    /\ e # AnyFailure /\ s # e
    /\ Judged("failed", s, 0)

\* The final status becomes the status of the test, which may be 0.
JudgeMismatch(s, e) ==
    /\ e # AnyFailure /\ s # e
    /\ Judged("failed", s, s)

\* As expected, but SLURM's message of a false pass is in stderr: 143.
JudgeFalsePass(s) == Judged("timedout", s, 1)

JudgePass(s) == Judged("passed", s, 0)

Record ==
    /\ pc = "record" \/ (pc = "tests" /\ todo = 0)
    /\ logStatus' = finalStatus
    /\ pc' = "deallocate"
    /\ UNCHANGED <<control, todo, ids, results, totals, env, cluster, troubles,
                   harasser>>

\* Mutant: the allocation is given back after a success only.
DeallocateAfterSuccess ==
    /\ pc = "deallocate"
    /\ IF opt.alloc /\ allocated /\ logStatus = 0
       THEN clusters' = clusters - 1 /\ allocated' = FALSE
       ELSE UNCHANGED cluster
    /\ Reset(logStatus, troubles, cwd)
    /\ UNCHANGED <<control, todo, ids, results, totals, harasser>>

Deallocate ==
    /\ pc = "deallocate"
    /\ IF opt.alloc /\ allocated
       THEN clusters' = clusters - 1 /\ allocated' = FALSE
       ELSE UNCHANGED cluster
    /\ Reset(logStatus, troubles, cwd)
    /\ UNCHANGED <<control, todo, ids, results, totals, harasser>>

\* The command fails: `allocated' stays set, and the next section forgets it.
DeallocateFails ==
    /\ Faulty /\ pc = "deallocate" /\ opt.alloc /\ allocated
    /\ Reset(1, troubles \cup {"deallocate"}, cwd)
    /\ UNCHANGED <<control, todo, ids, results, totals, cluster, harasser>>
-----------------------------------------------------------------------------
(* What ends a section from the outside, and the end of the program        *)

\* An exception leaves execute(): the executor deactivates the plugins, and goes
\* on with the reporters only.
Escape ==
    /\ pc' = "idle" /\ logStatus' = 1
    /\ halted' = TRUE
    /\ troubles' = troubles \cup {"raised"}
    /\ UNCHANGED <<opt, sections, todo, ids, results, totals, env>>

\* The failed check: h_info[1] has no 'start_script'.
HarasserKeyError ==
    /\ pc = "broken" /\ stopping = <<>>
    /\ Escape
    /\ UNCHANGED <<cluster, harasser>>

RaiseInTest ==
    /\ Faulty /\ pc = "run"
    /\ Escape
    /\ UNCHANGED <<cluster, harasser>>

RaiseInStop ==
    /\ Faulty /\ pc \in {"broken", "judge"} /\ stopping # <<>>
    /\ AbandonStop
    /\ Escape
    /\ UNCHANGED cluster

\* The command may have done its work before the exception.
RaiseInAllocate(done) ==
    /\ Faulty /\ pc = "allocate" /\ opt.alloc
    /\ allocated' = TRUE
    /\ clusters' = IF done THEN clusters + 1 ELSE clusters
    /\ Escape
    /\ UNCHANGED harasser

RaiseInDeallocate(done) ==
    /\ Faulty /\ pc = "deallocate" /\ opt.alloc /\ allocated
    /\ clusters' = IF done THEN clusters - 1 ELSE clusters
    /\ Escape
    /\ UNCHANGED <<allocated, harasser>>

\* deactivate() of the launcher: one more try, whose failure is not noticed.
CloseLauncher(ok) ==
    /\ pc = "idle"
    /\ IF opt.alloc /\ allocated
       THEN /\ allocated' = FALSE
            /\ clusters' = IF ok /\ clusters > 0 THEN clusters - 1 ELSE clusters
       ELSE UNCHANGED cluster
    /\ troubles' = IF ok THEN troubles ELSE troubles \cup {"deallocate"}
    /\ pc' = "closing"
    /\ UNCHANGED <<control, todo, ids, results, logStatus, totals, env, harasser>>

\* The command may raise here too: nothing catches that, and mtt ends.
CloseRaises(done) ==
    /\ Faulty /\ pc = "idle" /\ opt.alloc /\ allocated
    /\ clusters' = IF done /\ clusters > 0 THEN clusters - 1 ELSE clusters
    /\ troubles' = troubles \cup {"raised"}
    /\ pc' = "gone"
    /\ UNCHANGED <<control, todo, ids, results, logStatus, totals, env, allocated,
                   harasser>>

\* deactivate() of the harasser: all that are still in the table are stopped.
CloseHarasser ==
    /\ pc = "closing"
    /\ IF Activated /\ counter > 0
       THEN /\ pc' = "last"
            /\ \E n \in 0 .. counter : \E q \in [1 .. n -> DOMAIN running] :
                 /\ Keys(q) = DOMAIN running
                 /\ \A i, j \in 1 .. n : i < j => q[i] < q[j]
                 /\ BeginStop(q)
       ELSE pc' = "off" /\ UNCHANGED harasser
    /\ UNCHANGED <<control, todo, ids, results, logStatus, totals, env, cluster,
                   troubles>>

Closed ==
    /\ pc = "last" /\ stopping = <<>>
    /\ pc' = "off"
    /\ UNCHANGED <<control, todo, ids, results, logStatus, totals, env, cluster,
                   troubles, harasser>>

\* The combinatorial executor has another INI file: the sections are run again,
\* by the plugin objects that there are.
NextCombination ==
    /\ pc = "off" /\ sections < MaxSections
    /\ pc' = "idle" /\ halted' = FALSE
    /\ UNCHANGED <<opt, sections, todo, ids, results, logStatus, totals, env, cluster,
                   troubles, harasser>>
-----------------------------------------------------------------------------
(* The harassers, and the stop() under way                                 *)

\* Trouble with a stop script is kept in mind.
RunStopScript(i, s) ==
    /\ StopScript(i, s)
    /\ troubles' = IF s = 0 THEN troubles ELSE troubles \cup {"stop"}
    /\ UNCHANGED <<pc, control, todo, ids, results, logStatus, totals, env, cluster>>

Harass ==
    /\ \/ FinishOne
       \/ \E id \in DOMAIN running, s \in {"ended", "crashed"} : HarasserEnds(id, s)
       \/ \E i \in DOMAIN stopping, s \in {"ended", "crashed"} : StoppedEnds(i, s)
    /\ UNCHANGED <<pc, control, todo, ids, results, logStatus, totals, env, cluster,
                   troubles>>
-----------------------------------------------------------------------------
Setup ==
    \/ \E o \in Choices : Begin(o)
    \/ UpdateDefaults \/ SetupPaths
    \/ \E mw, deps \in BOOLEAN : SetupFails(mw, deps)
    \/ NoTests
    \/ \E n \in 1 .. MaxTests : CollectTests(n)
    \/ NoAllocation \/ Allocate \/ AllocateFails

RunTests ==
    \/ SkipTest \/ StartHarassers \/ CheckPasses \/ CheckFails \/ TestEnds
    \/ JudgeTimedOut \/ JudgeSkipped
    \/ \E s \in Statuses : JudgeAnyFailure(s) \/ JudgeFalsePass(s) \/ JudgePass(s)
    \/ \E s \in Statuses, e \in Expectations : JudgeMismatch(s, e)
    \/ Record \/ Deallocate \/ DeallocateFails

Raise ==
    \/ HarasserKeyError \/ RaiseInTest \/ RaiseInStop
    \/ \E done \in BOOLEAN : RaiseInAllocate(done) \/ RaiseInDeallocate(done)

Close ==
    \/ \E ok \in BOOLEAN : CloseLauncher(ok) \/ CloseRaises(ok)
    \/ CloseHarasser \/ Closed \/ NextCombination

Next ==
    \/ Setup \/ RunTests \/ Raise \/ Close \/ Harass
    \/ \E i \in DOMAIN stopping, s \in StopStatuses : RunStopScript(i, s)

Spec == Init /\ [][Next]_vars
-----------------------------------------------------------------------------
(* Properties                                                              *)

Bad(r) == r.result \in {"failed", "timedout"}
Ran == {i \in DOMAIN results : results[i].ran}

TypeOK ==
    /\ pc \in {"idle", "paths", "collect", "allocate", "tests", "check", "broken",
               "run", "judge", "record", "deallocate", "closing", "last", "off", "gone"}
    /\ opt \in [mw : BOOLEAN, deps : BOOLEAN, alloc : BOOLEAN, max : Nat]
    /\ sections \in 0 .. MaxSections /\ halted \in BOOLEAN
    /\ todo \in 0 .. MaxTests
    /\ ids \in Seq(Int)
    /\ results \in Seq([result : Results, status : Int, ran : BOOLEAN])
    /\ logStatus \in Int /\ finalStatus \in Int
    /\ numTests \in Nat /\ maxTests \in Nat
    /\ path \in Seq({"mw", "dep"})
    /\ oldpath = NoPath \/ oldpath \in Seq({"mw", "dep"})
    /\ midpath \in BOOLEAN
    /\ cwd \in {"home", "tests"} /\ home \in {"home", "tests"}
    /\ allocated \in BOOLEAN /\ clusters \in Int
    /\ troubles \subseteq {"setup", "revert", "deallocate", "raised", "stop"}
    /\ DOMAIN running \subseteq Int
    /\ running \in [DOMAIN running -> States]
    /\ counter \in Nat
    /\ stopping \in Seq([state : States, status : Int])
    /\ stray \in BOOLEAN

\* start() never hands out an id that is still in running_harassers.
KeysAreNew ==
    [][pc = "tests" /\ pc' = "check" => DOMAIN running \cap Keys(ids') = {}]_vars

\* When a test is about to start, the harassers of the tests before it have
\* been taken out of the table and their ids given back, unless an exception
\* has left a section.
StartsQuiet ==
    pc = "tests" /\ "raised" \notin troubles => DOMAIN running = {} /\ counter = 0

\* At the end of the program, no harasser is left in the table of an activated
\* plugin, whatever the sections did.
AllStopped == pc = "off" /\ Activated => DOMAIN running = {}

\* A harasser lives on, unknown to the plugin, only after an exception, a stop
\* script that failed, or a join that timed out.
StrayExplained ==
    stray => JoinTimeout \/ troubles \cap {"raised", "stop"} # {}

\* No harasser escapes the plugin's table: none is left in it when the next
\* test starts or at the end, and none lives outside of it unexplained.
HarassersKnown == StartsQuiet /\ AllStopped /\ StrayExplained

\* A section with a failed test does not end with status 0, unless all its bad
\* tests were expected to fail and came back with 0.
StatusTells ==
    pc = "deallocate" /\ logStatus = 0 =>
        \A i \in DOMAIN results : Bad(results[i]) => results[i].status = 0

\* Between two sections the working directory is the one MTT was started in
\* and no middleware is in the paths, unless something went wrong.
Restored ==
    pc = "idle" /\ troubles \cap {"setup", "revert", "raised"} = {} =>
        /\ cwd = "home"
        /\ \A i \in DOMAIN path : path[i] = "dep"

\* At the end of the program no allocation is held, unless a section ended with
\* an exception or the cluster would not be given back.
ClustersFreed ==
    pc = "off" /\ troubles \cap {"deallocate", "raised"} = {} => clusters = 0

\* What a section takes it gives back: directory, paths and cluster.
GivenBack == Restored /\ ClustersFreed

\* A section that begins below its own max_num_tests does not run more tests
\* than are left.
LimitKept ==
    /\ pc \in {"tests", "deallocate"} /\ opt.max # NoLimit
    /\ numTests - Cardinality(Ran) < opt.max
    => numTests <= opt.max

\* A section runs the tests that it may, and tells if one of them has failed.
TestsAccounted == StatusTells /\ LimitKept
-----------------------------------------------------------------------------
(* What the comments and the option texts of the repository say, and the     *)
(* code does not do.                                                         *)

\* LauncherMTTTool.py: "Failing with a different exit status than expected
\* represents a true failure and must be reported as such".
FailureReported ==
    pc = "deallocate" /\ logStatus = 0 => \A i \in DOMAIN results : ~Bad(results[i])

\* LauncherMTTTool.py: "record the results": the status is that of this section.
StatusIsOfSection ==
    pc = "deallocate" /\ logStatus # 0 => \E i \in DOMAIN results : Bad(results[i])

\* OpenMPI.py, max_num_tests: "Maximum number of tests to run".
LimitIsOfSection ==
    pc = "deallocate" /\ opt.max # NoLimit => Cardinality(Ran) <= opt.max

\* OpenMPI.py: "reset our paths and return us to our cwd".
PathsReset == pc = "idle" /\ troubles = {} => path = <<>>

\* OpenMPI.py, deallocate_cmd: "Command to use for deallocating nodes from the
\* resource manager": an allocation is not forgotten.
AllocationKept == [][allocated /\ ~allocated' => clusters' < clusters]_vars
=============================================================================
