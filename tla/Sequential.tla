----------------------------- MODULE Sequential -----------------------------
(***************************************************************************)
(* The sequential executor (pylib/Tools/Executor/sequential.py) and the    *)
(* watchdog timers it starts (pylib/Utilities/Watchdog.py).                *)
(*                                                                         *)
(* The main thread walks the sections of the INI file stage by stage.      *)
(* Between two sections it holds TestDef.plugin_trans_sem; it gives the    *)
(* semaphore up for the time it spends inside the `try' of a section, the  *)
(* only place where KeyboardInterrupt is caught.  The thread of an expired *)
(* --duration timer takes the semaphore and sends SIGINT to the process.   *)
(*                                                                         *)
(* A section is its index in the INI file.  Every nonzero status is 1.     *)
(* Plugins, run_if commands and savelog are nondeterministic over the      *)
(* outcomes Ini allows them.                                               *)
(***************************************************************************)
EXTENDS Integers, Sequences, FiniteSets

CONSTANTS
    Ini,          \* the sections in file order, see SectionType
    StageOrder,   \* the stages in the order LoadClasses sorts them
    Duration,     \* --duration is given
    Loop,         \* --loop is given
    LoopForever,  \* --loopforever is given
    StopOnFail,   \* --stop-on-fail is given
    Verbose       \* the logger prints (printout)

Secs == DOMAIN Ini
NoSec == 0
Unset == -1                          \* a stage log without a 'status' key
Status == {Unset, 0, 1}

SectionType ==
    [stage    : STRING,
     titled   : {"plain", "STOP", "SKIP"},    \* a qualifier in the title
     active   : BOOLEAN,                      \* title in testDef.actives
     parent   : Nat,                          \* NoSec: none; > Len(Ini): unknown
     raises   : SUBSET {"unbound", "bound"},  \* where its options may raise,
                                              \* see HeadRaises, GateRaises
     plugin   : BOOLEAN,                      \* a plugin is found for it
     runif    : SUBSET {"run", "skip"},       \* {"run"} without the option
     outcomes : SUBSET {"ok", "fail", "raise", "nostatus"},
     savelog  : SUBSET {"saved", "raises"}]   \* {"raises"}: no such method

ASSUME IniAssumption ==
    /\ Ini \in Seq(SectionType) /\ Ini # <<>>
    /\ StageOrder \in Seq(STRING) /\ StageOrder # <<>>
    /\ Duration \in BOOLEAN /\ Loop \in BOOLEAN /\ LoopForever \in BOOLEAN
    /\ StopOnFail \in BOOLEAN /\ Verbose \in BOOLEAN

\* LoadClasses loads each stage once, and Reporter has the last ordering().
ASSUME OrderAssumption ==
    /\ \A i, j \in DOMAIN StageOrder : StageOrder[i] = StageOrder[j] => i = j
    /\ StageOrder[Len(StageOrder)] = "Reporter"

VARIABLES
    pc,            \* where the main thread is
    stage, sec,    \* the two `for' loops: indices into StageOrder and Ini
    cur,           \* the section whose stageLog the local is bound to
    slog,          \* the 'status' entry of each section's stageLog
    logged,        \* the sections whose stageLog is in logger.results
    status, only_reporter, looping, one_last_loop,
    looped,        \* loop_count # 0
    sem,           \* the value of plugin_trans_sem
    timer,         \* the two Timer threads
    sigint,        \* SIGINT sent, not yet delivered to the main thread
    leaks,         \* history: sections left without taking the semaphore back
    passed,        \* history: sections whose plugin returned status 0
    runs           \* history: executions of each section's plugin, capped at 2

control == <<stage, sec>>
flags == <<status, only_reporter, looping, looped>>
logs == <<cur, slog, logged, passed, runs>>
async == <<sem, timer, sigint, one_last_loop>>
vars == <<pc, control, flags, logs, async, leaks>>

Timers == {"duration", "loop"}

\* Inside the `try' of a section the main thread does not hold the semaphore.
Zone == {"title", "gate", "run", "save", "back"}
\* Outside of it, once execute() has acquired the semaphore, it should.
Transit == {"timers", "harass", "while", "visit", "next", "kbd", "exc",
            "teardown", "final"}
PCs == Zone \cup Transit \cup {"start", "done", "escaped"}

Init ==
    /\ pc = "start" /\ stage = 1 /\ sec = 1
    /\ cur = NoSec
    /\ slog = [s \in Secs |-> Unset] /\ logged = {}
    /\ passed = {} /\ runs = [s \in Secs |-> 0]
    /\ status = 0 /\ only_reporter = FALSE /\ looping = FALSE
    /\ looped = FALSE
    /\ sem = 1 /\ timer = [t \in Timers |-> "off"]
    /\ sigint = FALSE /\ one_last_loop = FALSE
    /\ leaks = 0
-----------------------------------------------------------------------------
(* The watchdog's threads.                                                 *)

\* Timer.cancel(): a timer that has already expired does not notice.
Cancelled == [t \in Timers |-> IF timer[t] = "armed" THEN "cancelled" ELSE timer[t]]

\* The timer runs out: its thread enters the handler it was given,
\* defaultHandler for --duration and durationTimeoutHandler for --loop.
DurationExpires ==
    /\ timer["duration"] = "armed"
    /\ timer' = [timer EXCEPT !["duration"] = "blocked"]
    /\ UNCHANGED <<pc, control, flags, logs, sem, sigint, one_last_loop, leaks>>

LoopExpires ==
    /\ timer["loop"] = "armed"
    /\ timer' = [timer EXCEPT !["loop"] = "fired"]
    /\ one_last_loop' = TRUE
    /\ UNCHANGED <<pc, control, flags, logs, sem, sigint, leaks>>

\* Mutant: the handler does not wait for the semaphore.
HandlerAcquiresNoWait ==
    /\ timer["duration"] = "blocked"
    /\ timer' = [timer EXCEPT !["duration"] = "killing"]
    /\ UNCHANGED <<pc, control, flags, logs, sem, sigint, one_last_loop, leaks>>

\* defaultHandler: plugin_trans_sem.acquire() ...
HandlerAcquires ==
    /\ timer["duration"] = "blocked" /\ sem > 0
    /\ sem' = sem - 1
    /\ timer' = [timer EXCEPT !["duration"] = "killing"]
    /\ UNCHANGED <<pc, control, flags, logs, sigint, one_last_loop, leaks>>

\* ... then os.kill(os.getpid(), signal.SIGINT).
HandlerKills ==
    /\ timer["duration"] = "killing"
    /\ timer' = [timer EXCEPT !["duration"] = "fired"]
    /\ sigint' = TRUE
    /\ UNCHANGED <<pc, control, flags, logs, sem, one_last_loop, leaks>>
-----------------------------------------------------------------------------
(* execute()                                                               *)

\* The semaphore is taken before anything asynchronous exists.
Start ==
    /\ pc = "start" /\ sem > 0
    /\ sem' = sem - 1
    /\ pc' = "timers"
    /\ UNCHANGED <<control, flags, logs, timer, sigint, one_last_loop, leaks>>

\* --duration, --loopforever or else --loop.  The --loop branch sets a flag
\* of testDef that nothing reads: the executor's own looping stays False.
StartTimers ==
    /\ pc = "timers"
    /\ timer' = [t \in Timers |->
                    IF (t = "duration" /\ Duration) \/ (t = "loop" /\ Loop /\ ~LoopForever)
                    THEN "armed" ELSE "off"]
    /\ looping' = LoopForever
    /\ pc' = "harass"
    /\ UNCHANGED <<control, status, only_reporter, looped, logs, sem, sigint,
                   one_last_loop, leaks>>

\* Harasser.execute of the "DefaultHarasser" log only stores options and
\* reports status 0.
StartHarasser ==
    /\ pc = "harass"
    /\ pc' = "while"
    /\ UNCHANGED <<control, flags, logs, async, leaks>>

\* Mutant: loop_count is not incremented.
NewPassNotCounted ==
    /\ pc = "while" /\ (looping \/ ~looped)
    /\ only_reporter' = (only_reporter \/ one_last_loop)
    /\ looping' = (looping /\ ~one_last_loop)
    /\ stage' = 1 /\ sec' = 1 /\ cur' = NoSec
    /\ slog' = [s \in Secs |-> Unset] /\ logged' = {} /\ passed' = {}
    /\ pc' = "visit"
    /\ UNCHANGED <<status, looped, runs, async, leaks>>

\* The while condition of execute() (its last disjunct implies the first),
\* the head of the loop body and the locals of a new call of
\* execute_sections.  With --loopforever the new pass logs under the new
\* titles "...-loopN", so no record of an earlier pass is found again.
NewPass ==
    /\ pc = "while" /\ (looping \/ ~looped)
    /\ looped' = TRUE
    /\ only_reporter' = (only_reporter \/ one_last_loop)
    /\ looping' = (looping /\ ~one_last_loop)
    /\ stage' = 1 /\ sec' = 1 /\ cur' = NoSec
    /\ slog' = [s \in Secs |-> Unset] /\ logged' = {} /\ passed' = {}
    /\ pc' = "visit"
    /\ UNCHANGED <<status, runs, async, leaks>>

LastPass ==
    /\ pc = "while" /\ ~looping /\ looped
    /\ pc' = "teardown"
    /\ UNCHANGED <<control, flags, logs, async, leaks>>

\* Every activated plugin is deactivated, the watchdog among them.
Teardown ==
    /\ pc = "teardown"
    /\ timer' = Cancelled
    /\ pc' = "final"
    /\ UNCHANGED <<control, flags, logs, sem, sigint, one_last_loop, leaks>>

Return ==
    /\ pc = "final"
    /\ sem' = sem + 1
    /\ pc' = "done"
    /\ UNCHANGED <<control, flags, logs, timer, sigint, one_last_loop, leaks>>
-----------------------------------------------------------------------------
(* execute_sections(): the loops                                           *)

ReporterStep == StageOrder[stage] = "Reporter"

\* Mutant: reporters are not held back while looping.
FilteredOnce == only_reporter /\ ~ReporterStep

\* The three rules in front of the `try'.
Filtered ==
    \/ only_reporter /\ ~ReporterStep
    \/ looping /\ ~only_reporter /\ ReporterStep

\* Mutant: the semaphore is not released on the way into the `try'.
VisitNoRelease ==
    /\ pc = "visit"
    /\ IF Filtered
       THEN pc' = "next" /\ UNCHANGED looping
       ELSE looping' = (looping /\ ~only_reporter) /\ pc' = "title"
    /\ UNCHANGED <<control, status, only_reporter, looped, logs, async, leaks>>

Visit ==
    /\ pc = "visit"
    /\ IF Filtered
       THEN pc' = "next" /\ UNCHANGED <<sem, looping>>
       ELSE /\ looping' = (looping /\ ~only_reporter)
            /\ sem' = sem + 1
            /\ pc' = "title"
    /\ UNCHANGED <<control, status, only_reporter, looped, logs, timer, sigint,
                   one_last_loop, leaks>>

\* The next iteration of the inner or the outer loop, or the end of the pass.
NextSection ==
    /\ pc = "next"
    /\ \/ /\ sec < Len(Ini)
          /\ sec' = sec + 1 /\ pc' = "visit"
          /\ UNCHANGED <<stage, only_reporter>>
       \/ /\ sec = Len(Ini) /\ stage < Len(StageOrder)
          /\ sec' = 1 /\ stage' = stage + 1 /\ pc' = "visit"
          /\ UNCHANGED only_reporter
       \/ /\ sec = Len(Ini) /\ stage = Len(StageOrder)
          /\ only_reporter' = FALSE
          /\ pc' = "while"
          /\ UNCHANGED <<stage, sec>>
    /\ UNCHANGED <<status, looping, looped, logs, async, leaks>>
-----------------------------------------------------------------------------
(* execute_sections(): one section, inside the `try'                       *)

Mine == Ini[sec].stage = StageOrder[stage] /\ Ini[sec].active

\* Mutant: `continue' without the acquire.
PassOverNoAcquire ==
    /\ pc = "title"
    /\ ~Mine \/ Ini[sec].titled = "SKIP"
    /\ pc' = "next"
    /\ UNCHANGED <<control, flags, logs, async, leaks>>

\* Not this step's, not active, or SKIP: the semaphore is taken back first.
PassOver ==
    /\ pc = "title"
    /\ ~Mine \/ Ini[sec].titled = "SKIP"
    /\ pc' = "back"
    /\ UNCHANGED <<control, flags, logs, async, leaks>>

\* STOP: return, without the acquire and without resetting only_reporter.
StopHere ==
    /\ pc = "title" /\ Mine /\ Ini[sec].titled = "STOP"
    /\ leaks' = leaks + 1
    /\ pc' = "while"
    /\ UNCHANGED <<control, flags, logs, async>>

\* An exception leaves the `try' without the acquire.
Raise == leaks' = leaks + 1 /\ pc' = "exc"

\* Before stageLog is bound to this section: a title with two colons, or an
\* option or a log whose '$' does not interpolate.  The local is still bound
\* to the section that began before this one, if there was one.
HeadRaises ==
    /\ pc = "title" /\ Mine /\ Ini[sec].titled = "plain"
    /\ "unbound" \in Ini[sec].raises
    /\ Raise
    /\ UNCHANGED <<control, flags, logs, async>>

\* A fresh stageLog for this section.
Begin ==
    /\ pc = "title" /\ Mine /\ Ini[sec].titled = "plain"
    /\ cur' = sec
    /\ pc' = "gate"
    /\ UNCHANGED <<control, flags, slog, logged, passed, runs, async, leaks>>

\* After it is bound, up to the start of the plugin: the options again (the
\* combinatorial executor has not read them before), an ASIS without a name,
\* the run_if command, plugin.activate.
GateRaises ==
    /\ pc = "gate" /\ "bound" \in Ini[sec].raises
    /\ Raise
    /\ UNCHANGED <<control, flags, logs, async>>

Parent == Ini[sec].parent

\* Mutant: a parent that has left a log is good enough.
ParentLogged == Parent = NoSec \/ Parent \in logged

ParentOK == Parent = NoSec \/ (Parent \in logged /\ slog[Parent] = 0)

\* The parent has no log, or one without a status, or failed; or there is no
\* plugin for the section: it is logged as failed and passed over.
Refuse ==
    /\ pc = "gate"
    /\ ~ParentOK \/ ~Ini[sec].plugin
    /\ slog' = [slog EXCEPT ![sec] = 1]
    /\ logged' = logged \cup {sec}
    /\ pc' = "back"
    /\ UNCHANGED <<control, flags, cur, passed, runs, async, leaks>>

\* The run_if command fails: `continue', with neither a log nor the acquire.
RunIfSkips ==
    /\ pc = "gate" /\ ParentOK /\ Ini[sec].plugin
    /\ "skip" \in Ini[sec].runif
    /\ leaks' = leaks + 1
    /\ pc' = "next"
    /\ UNCHANGED <<control, flags, logs, async>>

Accept ==
    /\ pc = "gate" /\ ParentOK /\ Ini[sec].plugin
    /\ "run" \in Ini[sec].runif
    /\ runs' = [runs EXCEPT ![sec] = IF @ = 2 THEN 2 ELSE @ + 1]
    /\ pc' = "run"
    /\ UNCHANGED <<control, flags, cur, slog, logged, passed, async, leaks>>

\* plugin.execute comes back and its log is recorded.  stage_end_print reads
\* log['status'] when the logger prints.
PluginReturns ==
    /\ pc = "run"
    /\ \E o \in Ini[sec].outcomes \ {"raise"} :
          /\ slog' = [slog EXCEPT ![sec] = CASE o = "ok" -> 0
                                             [] o = "fail" -> 1
                                             [] OTHER -> Unset]
          /\ passed' = IF o = "ok" THEN passed \cup {sec} ELSE passed
          /\ IF o = "nostatus" /\ Verbose
             THEN Raise
             ELSE pc' = "save" /\ UNCHANGED leaks
    /\ logged' = logged \cup {sec}
    /\ UNCHANGED <<control, flags, cur, runs, async>>

PluginRaises ==
    /\ pc = "run" /\ "raise" \in Ini[sec].outcomes
    /\ Raise
    /\ UNCHANGED <<control, flags, logs, async>>

\* plugin.savelog raises, most often because the plugin has no such method:
\* the bare except goes to the next section.
SaveLogRaises ==
    /\ pc = "save" /\ "raises" \in Ini[sec].savelog
    /\ leaks' = leaks + 1
    /\ pc' = "next"
    /\ UNCHANGED <<control, flags, logs, async>>

\* Mutant: the exit status is forgotten.
JudgeForgets ==
    /\ pc = "save" /\ "saved" \in Ini[sec].savelog
    /\ IF slog[sec] = Unset \/ (StopOnFail /\ slog[sec] # 0)
       THEN Raise ELSE pc' = "back" /\ UNCHANGED leaks
    /\ UNCHANGED <<control, flags, logs, async>>

\* savelog succeeds; then --stop-on-fail and the exit status.  A log without
\* a status raises KeyError, --stop-on-fail raises SystemExit.
Judge ==
    /\ pc = "save" /\ "saved" \in Ini[sec].savelog
    /\ IF slog[sec] = Unset \/ (StopOnFail /\ slog[sec] # 0)
       THEN Raise /\ UNCHANGED status
       ELSE /\ status' = IF slog[sec] # 0 THEN 1 ELSE status
            /\ pc' = "back" /\ UNCHANGED leaks
    /\ UNCHANGED <<control, only_reporter, looping, looped, logs, async>>

\* plugin_trans_sem.acquire(), the last line of the `try'.
Back ==
    /\ pc = "back" /\ sem > 0
    /\ sem' = sem - 1
    /\ pc' = "next"
    /\ UNCHANGED <<control, flags, logs, timer, sigint, one_last_loop, leaks>>
-----------------------------------------------------------------------------
(* The two exception handlers, and the delivery of SIGINT                  *)

\* What both handlers do: no more looping, deactivate the plugins, log the
\* stageLog that the local is bound to, with status st, and fail the run.  The
\* object is the one in logger.results, if it was logged before; and it is an
\* earlier section's, if this one has not bound its own.
Handle(st) ==
    /\ looping' = FALSE
    /\ timer' = Cancelled
    /\ logged' = logged \cup {cur}
    /\ slog' = [slog EXCEPT ![cur] = st]
    /\ status' = 1
    /\ UNCHANGED <<control, looped, cur, passed, runs, sem, sigint,
                   one_last_loop, leaks>>

\* except KeyboardInterrupt: whatever the section did, its status becomes 0.
KeyboardHandler ==
    /\ pc = "kbd" /\ cur # NoSec
    /\ Handle(0)
    /\ only_reporter' = TRUE
    /\ pc' = "next"

\* Either handler before any section of this call has bound stageLog:
\* UnboundLocalError leaves execute_sections and execute.
HandlerUnbound ==
    /\ pc \in {"kbd", "exc"} /\ cur = NoSec
    /\ looping' = FALSE
    /\ timer' = Cancelled
    /\ pc' = "escaped"
    /\ UNCHANGED <<control, status, only_reporter, looped, logs, sem, sigint,
                   one_last_loop, leaks>>

\* Mutant: the handler returns.
ExceptionHandlerReturns ==
    /\ pc = "exc" /\ cur # NoSec
    /\ Handle(1)
    /\ only_reporter' = TRUE
    /\ pc' = "while"

\* except BaseException.
ExceptionHandler ==
    /\ pc = "exc" /\ cur # NoSec
    /\ Handle(1)
    /\ only_reporter' = TRUE
    /\ pc' = "next"

\* SIGINT reaches the main thread inside the `try' ...
Interrupt ==
    /\ sigint /\ pc \in Zone
    /\ sigint' = FALSE
    /\ pc' = "kbd"
    /\ UNCHANGED <<control, flags, logs, sem, timer, one_last_loop, leaks>>

\* ... or, while savelog itself runs, inside the bare except around it, which
\* swallows it ...
InterruptSwallowed ==
    /\ sigint /\ pc = "save"
    /\ sigint' = FALSE
    /\ pc' = "next"
    /\ UNCHANGED <<control, flags, logs, sem, timer, one_last_loop, leaks>>

\* ... or where nothing catches it: it leaves execute(), or strikes the code
\* that called it.
InterruptEscapes ==
    /\ sigint /\ pc \in Transit \cup {"done"}
    /\ sigint' = FALSE
    /\ pc' = "escaped"
    /\ UNCHANGED <<control, flags, logs, sem, timer, one_last_loop, leaks>>
-----------------------------------------------------------------------------
Execute == Start \/ StartTimers \/ StartHarasser \/ NewPass \/ LastPass
           \/ Teardown \/ Return
Section == Visit \/ NextSection \/ PassOver \/ StopHere \/ HeadRaises
           \/ Begin \/ GateRaises \/ Refuse \/ RunIfSkips \/ Accept \/ PluginReturns \/ PluginRaises
           \/ SaveLogRaises \/ Judge \/ Back
Handlers == KeyboardHandler \/ ExceptionHandler \/ HandlerUnbound
Deliver == Interrupt \/ InterruptSwallowed \/ InterruptEscapes
Main == Execute \/ Section \/ Handlers
Watchdog == DurationExpires \/ LoopExpires \/ HandlerAcquires \/ HandlerKills

Next == Main \/ Deliver \/ Watchdog

Spec == Init /\ [][Next]_vars

\* The interpreter keeps running the main thread, delivers pending signals,
\* and runs the timer threads.  A timer blocked in acquire() competes with
\* the main thread, which gives the semaphore up for as long as a plugin
\* runs: strong fairness.  Plugins are assumed to come back.
Fairness ==
    /\ WF_vars(Main) /\ WF_vars(Deliver)
    /\ WF_vars(DurationExpires) /\ WF_vars(LoopExpires)
    /\ SF_vars(HandlerAcquires) /\ WF_vars(HandlerKills)

FairSpec == Spec /\ Fairness
-----------------------------------------------------------------------------
(* Properties                                                              *)

TypeOK ==
    /\ pc \in PCs
    /\ stage \in 1 .. Len(StageOrder) /\ sec \in Secs
    /\ cur \in Secs \cup {NoSec}
    /\ slog \in [Secs -> Status] /\ logged \subseteq Secs
    /\ passed \subseteq Secs /\ runs \in [Secs -> 0 .. 2]
    /\ status \in {0, 1}
    /\ only_reporter \in BOOLEAN /\ looping \in BOOLEAN /\ looped \in BOOLEAN
    /\ one_last_loop \in BOOLEAN /\ sigint \in BOOLEAN
    /\ sem \in Nat /\ leaks \in Nat
    /\ timer \in [Timers -> {"off", "armed", "blocked", "killing", "fired",
                             "cancelled"}]

One(b) == IF b THEN 1 ELSE 0

\* Every unit of the semaphore is accounted for: it is free, or with the main
\* thread between two sections, or with a timer that is about to interrupt,
\* or it is one that a section has leaked.
SemAccount ==
    pc # "escaped" =>
        sem + One(pc \in Transit) + One(timer["duration"] = "killing") + One(sigint)
            = 1 + leaks

\* As long as no section leaked the semaphore, SIGINT is pending only inside
\* the `try' of a section, or after execute() has given the semaphore back.
GuardedInterrupt ==
    sigint /\ leaks = 0 => pc \in Zone \cup {"done", "escaped"}

\* execute() does not come to its end before each active Reporter section
\* whose title and options can be read has recorded a log, whatever raised,
\* failed or was interrupted before it; all but one, if the --duration timer
\* has struck.  (STOP and run_if are the user's own ways around it; a section
\* that raises before its stageLog exists has none to record, see
\* ExceptionLogged.)
Reporters ==
    {s \in Secs : /\ Ini[s].stage = "Reporter" /\ Ini[s].active
                  /\ Ini[s].titled = "plain" /\ Ini[s].runif = {"run"}
                  /\ "unbound" \notin Ini[s].raises}

EveryReportMade ==
    pc \in {"teardown", "final", "done"} /\ (\A s \in Secs : Ini[s].titled # "STOP") =>
        Cardinality(Reporters \ logged) <= One(timer["duration"] = "fired")

\* A Reporter section runs at most once in an invocation, loops included.
ReportedOnce == \A s \in Secs : Ini[s].stage = "Reporter" => runs[s] <= 1

\* A section whose plugin is started has no parent, or one whose own plugin
\* has come back with status 0 in this pass; reporters aside.
ChildAfterSuccess ==
    [][pc = "gate" /\ pc' = "run" /\ Parent # NoSec /\ ~ReporterStep
         => Parent \in passed]_vars

\* The exit status tells of every log of the last pass that is not a success.
FailureReturned ==
    pc \in {"while", "teardown", "final", "done"} =>
        \A s \in logged : slog[s] # 0 => status = 1

\* A pending interrupt is eventually delivered, and execute() ends.
Terminates == <>(pc \in {"done", "escaped"})

\* The --duration timer always gets to interrupt, unless it was cancelled.
DurationStrikes ==
    timer["duration"] = "armed" ~> timer["duration"] \in {"fired", "cancelled"}
-----------------------------------------------------------------------------
(* What the comments and the help texts of the repository say, and the code  *)
(* does not do.                                                              *)

\* sequential.py: "Holding a semaphore while in transition between plugins so
\* async threads don't interrupt in the wrong context".
NoInterruptInTransit == sigint => pc \notin Transit

\* Watchdog.py: "Catch when deactivated to stop the timer thread".
NoInterruptAfterReturn == pc = "done" => ~sigint

\* sequential.py calls the inside of the `try' the "exception-catching-zone":
\* an interrupt that arrives there does not leave execute().
CaughtInZone == [][pc = "kbd" => pc' # "escaped"]_vars

\* sequential.py: stageLog['stderr'] = ["Exception was raised: ..."] and
\* logResults(disp_title, stageLog, ...): the failure of a section is logged
\* as that section's.
ExceptionLogged ==
    [][pc = "exc" /\ pc' = "next" => sec \in logged' /\ slog'[sec] = 1]_vars

\* pymtt.py --loop: "Causes MTT to loop until provided number of seconds
\* finishes"; here, unless something has failed before.
LoopsUntilTimeout ==
    pc = "teardown" /\ Loop /\ ~LoopForever /\ status = 0 => one_last_loop
=============================================================================
