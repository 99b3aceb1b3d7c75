# A TLA+ development of the MPI Testing Tool

MTT reads an INI file, runs the section of every stage through a plugin (fetch, build, run
tests, report), and may send the results to a server that stores them in PostgreSQL. These
modules model the parts of MTT that keep state over time or share it between threads,
processes or connections; TLC checks them on small instances and TLAPS proves the main
properties for all of them. Everything is translated from the source; the line ranges are in
`PROJECT.json` ("map").

    tlc  -config seq_clean.cfg MCSequential.tla     # one run
    tlapm SequentialProofs.tla                      # one module of proofs

Contents: [1 Inventory](#1-inventory) · [2 Plan](#2-plan) ·
[3 Sequential](#3-the-sequential-executor-and-its-watchdog) ·
[4 ExecuteCmd](#4-executecmd) · [5 Launchers](#5-launchers-and-harassers) ·
[6 IPMITool](#6-ipmitool) · [7 Result server](#7-the-result-server) ·
[8 Fetching](#8-fetching) · [9 Building and provisioning](#9-building-testing-and-provisioning) ·
[10 Combinations](#10-active-sections-and-combinations) · [11 Proofs](#11-proofs) ·
[12 Divergences](#12-where-the-code-does-not-do-what-it-says) ·
[13 Limits](#13-what-is-not-modelled-and-what-is-only-checked)

## 1 Inventory

`pymtt.py` parses the command line, `TestDef` reads the INI file, and an executor goes through
the stages in order. For each active section it finds the plugin (`LoadClasses`), hands it an
empty log, runs it and stores the log with `Logger`, where later sections find it as their
parent. Plugins run external programs through `ExecuteCmd`. Launchers run tests, with harassers
at their side; IPMITool power-cycles nodes; reporters read the log, and `IUDatabase` POSTs it to
the CherryPy server, whose `Submit` resource writes it to the database.

| Component | State | Operations | What is hard | What makes it correct |
|---|---|---|---|---|
| Sequential executor (`Tools/Executor/sequential.py`) | stage, section, flags `only_reporter`, `looping`, `looped`, `one_last_loop`, status, `plugin_trans_sem` | `execute`, `execute_sections` | ten ways out of a section, each of which must leave the semaphore right | reports are made once, children follow successful parents, failures reach the exit code, the executor ends |
| Watchdog (`Utilities/Watchdog.py`) | a timer thread | `start`, `stop`, `defaultHandler` | a SIGINT sent from another thread | it strikes inside a section only, and is not lost |
| ExecuteCmd (`Utilities/ExecuteCmd.py`) | the child, two pipes, the killer thread and its condition | `execute`, `timeout`, `cancel` | timeout against end; pipes closing in any order | all output is read, no signal to a reaped process, a timeout is told |
| Harasser (`Tools/Harasser/Harasser.py`) | `running_harassers`, `execution_counter` | `start`, `check`, `stop`, `deactivate` | keys that are reused; processes that crash | no process is forgotten or overwritten |
| Launchers (`Tools/Launcher/*.py`) | paths, cwd, allocation, counters and status kept over sections | `execute`, `runTests`, `allocateCluster`, ... | exceptions and early returns half way | everything taken is given back; the status tells of failures |
| IPMITool (`Tools/CNC/IPMITool.py`) | bounded queue, lock, `status` | `execute`, worker threads | threads that leave at an empty queue, a lock kept on a return | no task lost, nobody waits for ever |
| Submit (`server/php/cherrypy`) | one connection, its transaction, the tables | `POST`, `insert_*` | threads share the transaction; lost connections | ids are unique for good, rows hang on their parents, answers are stored |
| IUDatabase (`Stages/Reporter/IUDatabase.py`) | ids of the last answers | `execute`, `submit_*` | errors half way through a log | it goes on where it can, with the right parents |
| TestDef, Logger, LoadClasses | options, sections, list of logs | `configTest`, `expandWildCards`, `executeTest`, `getLog`, ... | wild cards; lookups that find an earlier pass | the sections asked for are active, and no others |
| Combinatorial executor | files of combinations, a temporary directory, the scratch directory | `createIniLog`, `execute` | two parsers filled and emptied in turns; an exit half way | every combination once, in order; the worst status; nothing temporary stays |
| ModuleCmd (`Utilities/ModuleCmd.py`) | modules loaded, what each section loaded, redirected stdout | `setupModules`, `applyModules`, `revertModules`, ... | partial failure | what was loaded is unloaded |
| Fetch tools (`Tools/Fetch/*.py`) | `done` of each plugin, the scratch directory, cwd, modules | `execute` | what earlier sections, attempts and a killed mtt left | what is delivered, or remembered, is what was asked for and is there |
| Build tools (`Tools/Build/*.py`), DefaultTestBuild, PMIxUnit | PATH and three more paths, variables, build directories, `allocated` | `execute`, `allocate`, `deallocate`, `deactivate` | forty ways out, each with its own tidying | a success has built, and has given back what it took |
| Provisioning (`WWulf3.py`) | `allocated` | `execute`, `allocate`, `deallocate` | exceptions between allocation and release | nodes are returned |
| Firmware, profiles, small utilities | none | `execute` | | they return a status |
| Django console, viewer, PHP server, SQL scripts | the database | queries | | |

`PROJECT.json` lists every component with its status, and the hazards at their lines with the
properties that cover them.

## 2 Plan

In the order of importance; what is done is marked.

1. **Sequential** with the watchdog (done), **SequentialProofs** (done: types, account of the
   semaphore, guarded interrupt, children after parents, reports, exit status; later: an abstract
   InterruptGate that Sequential refines while nothing leaks).
2. **ExecuteCmd** (done), **ExecuteCmdProofs** (done).
3. **Harasser**, **Launcher** (done), **LauncherProofs** (done: every property of the run `launch`).
4. **Database**, **Submit** (done), **SubmitProofs** (done: types and every property of the run
   `submit`). Later: an abstract store of rows that Submit implements while no statement fails.
5. **IPMITool** (done), **IPMIToolProofs** (done: every safety invariant of the run `ipmi`).
6. **PowerBatch** (done): what a caller of IPMITool relies on, and the refinement: checked with
   fairness as a property of `ipmi`, its safety part proved.
7. **ModuleCmd**, **Plugin**, **Git**, **Archives**, **Fetch** (done), **FetchProofs** (done: every
   property of the run `fetch`, after the lemmas about ModuleCmd).
8. **Stage**, **Autotools**, **Shell**, **Provision**, **PMIxUnit**, **Build** (done),
   **BuildProofs** (done: every property of the run `build`).
9. **TestDef**, **Combinatorial** (done), **CombinatorialProofs** (done: every property of the run
   `combine`). Later: `parseOptions` with its conversions, and the combinatorial executor on the
   actions of Sequential instead of a choice of status.

`Launcher` EXTENDS `Harasser`; `Submit` EXTENDS `Database`; `IPMITool` has an INSTANCE of
`PowerBatch`; `Combinatorial` EXTENDS `TestDef`. `ModuleCmd` has operators only; `Plugin` is the
process that plugins share and EXTENDS it; `Git` and `Archives` EXTEND `Plugin` and `Fetch` composes
them; `Stage` EXTENDS `Plugin` too, with the paths and the logs, and `Build` composes `Autotools`,
`PMIxUnit` and `Provision` (on `Shell`) over it. Every `MC...` module EXTENDS the module it
instantiates; `...Proofs` modules EXTEND the component and TLAPS. No module has a RECURSIVE
operator.

## 3 The sequential executor and its watchdog

`Sequential.tla`. The INI file is the constant `Ini`, a sequence of sections: stage, title (plain, with SKIP
or STOP), parent, whether it is active and its plugin is found, and *sets* of what `run_if`, the plugin and
`savelog` may do, and of where its title, options and log may raise: before `stageLog` is the section's own
(`HeadRaises`) or after (`GateRaises`). In the first case the handler writes into the log of the section
before it or, if there is none, raises itself (`HandlerUnbound`). `pc` is the place in `execute()`; one action
stands for the code between two points where another thread can act (acquiring, releasing the semaphore,
running the plugin, `savelog`). The timers of `--duration` and `--loop` go through off, armed, blocked
(expired, waiting for the semaphore), killing, fired; `sigint` is a SIGINT that has been sent and not
delivered. CPython delivers it between bytecodes of the main thread, at any step while it is pending: inside
the `try` (`Interrupt`), also around the call of `savelog`; in the bare except around that call itself
(`InterruptSwallowed`); or where nothing catches it (`InterruptEscapes`).

`leaks` counts the releases of `plugin_trans_sem` that no acquire preceded. `SemAccount` is the
account: free units = 1 + leaks − units held.

| Run | Instance | Shows |
|---|---|---|
| `seq_clean` | 4 sections, each with a `savelog`; `--loopforever --duration` | GuardedInterrupt, ReportedOnce, DurationStrikes |
| `seq_mixed` | 7 sections with every early `continue` and exception; `--duration --stop-on-fail` | SemAccount, EveryReportMade, ChildAfterSuccess |
| `seq_stop` | a STOP title; `--loop`, verbose; no interrupt | FailureReturned, Terminates |

EveryReportMade is about reporters whose title and options can be read; one that raises before
its log exists has none to record (ExceptionLogged, section 12). DurationStrikes takes an interrupt
that a bare except swallows for one that has struck; what it fails to stop then is Terminates, by hand
with `seq_swallow`.

By hand: `seq_leak` (plugins without `savelog`), see section 12.

Why this is enough: the executor treats sections alike, so that a section, its child, another
stage and two reporters let each path meet each other path; two passes of the loop suffice, since
the flags have no memory beyond the previous pass. In `seq_clean` the reporters also have a
`savelog`: no reporter in the repository has one, but the interrupt is only guarded where every plugin does.

Fairness (`FairSpec`): weak fairness of the main thread (plugins and `savelog` return), of the
delivery of a pending signal, of the expiry of a timer and of its SIGINT. The handler's acquire
competes with the main thread's for the semaphore, which is free again and again while a plugin
runs: strong fairness, justified because a plugin runs for long compared with the time a thread
blocked in acquire() needs to wake up. An endless run of instantaneous plugins could starve it.

Not modelled: a Ctrl-C of the user (it does not take the semaphore, and may strike anywhere);
the `Watchdog` *section* of an INI file always raises NameError (`defaultTimeout`,
`Watchdog.py:60`), that is, it is a plugin with outcome "raise".

## 4 ExecuteCmd

`ExecuteCmd.tla`: `execute()` from fork to result, the killer thread (`timeout`, `cancel`), both
pipes with their capacity and the buffers of the file objects, and the child as an environment:
it writes, may close a pipe early (`MayClose`), leave descendants that hold the pipes (`Heirs`),
ignore or obey SIGTERM. It exits with 0 or with 1, which stands for all other codes and signals; with
`Others` a SIGTERM or SIGKILL that is not the timer's may end it (`DieOfOthers`), which the code
reports as a timeout (line 302). With `CmdTime` the command's time is asked for, and the message about
a timeout raises (line 306). With `Exceptions`, an exception or an interrupt strikes the main thread
anywhere.

| Run | Instance | Shows |
|---|---|---|
| `cmd_plain` | 2 lines per pipe, capacity 2, a child that keeps its pipes to the end | StdoutComplete, KilledIsTimedOut, Returns |
| `cmd_rough` | early closes, heirs, exceptions, signals of others | NoSignalAfterReap, KillIsWhole |

Two lines are the least with which a pipe is full, has one line in the pipe and one in the
buffer, and is read to its end while the other still has something. Fairness: the main thread,
the killer thread and the child's end under a signal; a child is *not* required to end by itself,
the timeout has to do it. Line limits, timing and ELK records are left out. `--dryrun` returns a
tuple (line 178) that callers index like a dictionary; the error is immediate and not modelled.

## 5 Launchers and harassers

`Harasser.tla` has the table of processes and the counter that makes its keys: `StartScripts`,
`BeginStop`, `StopScript`, and the processes that end or crash by themselves. `Launcher.tla` is
the life of a launcher section (`LauncherMTTTool.py` in the order `OpenMPI.py` calls it) over
`MaxSections` sections: paths, dependencies, allocation, the loop over tests with start / check /
run / judge / stop, deallocation, and at the end `deactivate()` of launcher and harasser. An
exception (`Faulty`) may strike wherever the code calls out: the executor then deactivates the plugins
and runs reporters only, until the next combination of the combinatorial executor runs the sections
again on the same plugin objects (`NextCombination`). A release that raises in `deactivate()` ends mtt
(`CloseRaises`). `PATH` stands for `LD_LIBRARY_PATH`
too; of the counters only those that decide something (numTests, finalStatus) are kept.

| Run | Instance | Shows |
|---|---|---|
| `launch` | 2 sections, in one combination or two, 2 tests, 2 harasser pairs, test limit 1, stop scripts return 0 or 1 | TypeOK, HarassersKnown (StartsQuiet, AllStopped, StrayExplained), TestsAccounted (StatusTells, LimitKept), GivenBack (Restored, ClustersFreed), KeysAreNew |

By hand: `launch_status` (one harasser), see section 12.

Two sections are needed as the object outlives a section; two tests so that harassers are
started after others were stopped; two pairs so that one may be dead and one alive. SLURM's
`additionalCheck` is a further value of the status; `DefaultHarasser`'s `execute` only parses
options. `troubles` records which kind of thing went wrong, so that a promise to give something
back can name the cases in which the code does not keep it.

## 6 IPMITool

`IPMITool.tla`: `execute()` fills the queue, starts the workers, spins until the queue is empty,
joins them and makes one status of what they recorded; the workers take tasks under the lock. One
object serves all calls (`Calls`), so that a lock kept by one call meets the next. A command is one
step that returns a code or raises.

`ipmi` runs five calls: a power cycle of three nodes by two threads, a refused call, dry runs with
fewer and with more threads than nodes, and a missing password file last. Three nodes on two
threads is the least with which a thread leaves, or finds work, while another is about to queue
a ping. ResultsRight (EveryTaskRecorded and FailureShows), RoomToPut, PingAfterCommand, and Promise under
fairness of the caller and of every worker. `ipmi_restart`, by hand, is a violation: outside of a
dry run no ping is ever queued. For the same reason the loop that pings a node (lines 55-71; its `++ntries`
changes nothing, so `maxtries` would never end it) is not modelled: nothing reaches it. Nor is
`--dryrun`, where `ExecuteCmd`'s tuple raises TypeError with the lock held, nor an interrupt of
the watchdog inside `execute()`.

`PowerBatch.tla` is what remains when queue, lock and threads are forgotten: a call is refused, or
opens a batch of tasks of which each is carried out once and may ask for one more; it is answered
when nothing is left, and a failure shows in the answer. IPMITool implements it
(`Batch == INSTANCE PowerBatch WITH ...`): `todo` is what is queued, held by the main thread or by
a worker, and `done` what is recorded. Carrying out a task and recording it is one step of the
abstract system and the recording step of the concrete one. The run checks `Promise`, the whole
abstract specification with its fairness, that is, also that every batch is worked off and answered.

## 7 The result server

`Database.tla` is the database as the connection shows it: committed and pending rows, sequences
(outside of transactions), a transaction that has failed, a connection that is up, dead but
unnoticed, or known to be closed; `Accepts` has the UNIQUE and FOREIGN KEY constraints of
`schemas-v3.sql`. `Submit.tla` has the clients (`IUDatabase`: which POSTs, in which order, with
which ids, and where they go on after an error) and the thread that serves each POST
(`Submit.POST`, `insert_*`, `_select_insert`, `_find_*_id`, `_get_*_info`) statement by
statement: SELECT, nextval, INSERT, commit. All threads use one psycopg2 connection and so *one
transaction*: that is the heart of the model. A `commit()` on a failed transaction is a silent
rollback (psycopg2, PostgreSQL).

| Run | Instance | Shows |
|---|---|---|
| `submit` | two clients, 5 and 3 POSTs, one lost connection, one value too long, one missing field | IdsAreForever, ParentsAgree, AnsweredIsStored, PoisonLasts |

By hand: `submit_race` (the same instance), see section 12.

Two clients with the same new compiler and the same install have every race on a UNIQUE and on a
non-unique key; one loss of the connection is enough for a row to be lost between two steps of either.
Two clients are too few for one thing, which the proof of ParentsAgree has brought up: a first client
inserts a parent, a second finds the uncommitted row and builds on it, and a statement of a third fails
before the first one's commit, which is then a rollback and leaves the second's row without its parent.
ParentsAgree says so: with faults it speaks of two clients at most. Rows the database already knows
(`Known`) spare lookups that are like the others.

Simplifications: a payload has one entry, as `IUDatabase` sends it; the SELECT for the field
names of a table and the one for the key are one step; `provision` stands for all five tables
that the code names and the schema lacks (bios, firmware, provision, harasser, cluster_checker;
`WWulf3` fills `log['provisioning']`); the serials of `Root`, on a connection of its own,
`latency_bandwidth` and `test_run_command`, which this client never sends, are left out, as are
partitions and triggers. A client always gets an answer (a 500 is one). Two threads that replace
a closed connection at the same time are one replacement. No new connection may be had (`ConnectFails`):
the request is answered with an error, and the next one meets the closed connection again.

## 8 Fetching

`ModuleCmd.tla` has `loadModules`, `unloadModules`, `swapModules`, `applyModules`, `revertModules` and
`checkForModules` as operators: each is the set of its outcomes `<<e, status>>`, where `e` says what
is loaded, what is recorded for each section, and whether stdout is still redirected (a call that
raises leaves it so, line 98). `Plugin.tla` is what all plugins of one mtt share: the modules, the
working directory, the section's log, and the executor handing out the next section (`Begin`). On
it stand `Git.tla` (every attempt of `Git.execute`: memo, retries, what `git branch` and
`git log` say of a clone that is there, removing, cloning, checking out, pulling, recording) and
`Archives.tla` (the other five fetch plugins). `Fetch.tla` composes them, with an exception between
any two steps or in one of Git's (`Strike`), a killed mtt that finds its disk again (`Restart`), and a
remote repository that gets commits (`GitPush`) and a server that publishes snapshots (`Publish`).

| Run | Instance | Shows |
|---|---|---|
| `fetch` | 2 sections out of 16 requests, 3 branches and a pull request, 2 snapshots, `retry` up to 1 | PutBack, Fetched, VersionFetched, Remembered, FailureSticks |

A property with a name of its own may have several named parts: PutBack is ComesHome and ModulesBack,
Fetched is Delivered, Newest and WholeUnlessAsIs, Remembered is MemoTrue and
InstalledIsTrue. VersionFetched is about requests that share one version file (`OneVersionFile`), as those
of the run do. Two sections are enough for one to meet what the other left, on the disk, in a memo and
in the process, and, with a restart between them, for a new mtt to meet what a killed one left. Four
branches are the least with which one name is part of another (`v4` of `v4x`: the code looks for the name
*in* the line of `git branch`) while the default branch has a third. One retry is the least with which an
attempt meets the one before. By hand: `fetch_memo` (three sections), also with the requests of
CommitExact.

A step of Git that fails or is cut short leaves one of the clones in `Torn`: a `git clone` whose checkout
failed keeps the repository with its branch and log and without its files, and so may a checkout, a pull or
an `rmtree` that gets half way. `Git.py` 362-413 looks at branch and log only and takes such a clone for
what was asked for. Delivered therefore promises what the code looks at: a branch, or a head whose line has
its name in it (`PassFor`), a commit or what was pulled onto it; files only for a pull request, which is
always cloned anew. BranchExact and FilesThere (section 12) say what it does not promise. Newest is what is
left of "the newest": a section that was not told to leave the clone as it is comes to its record with the
last commit of the remote head. While Git reads its memo an interrupt is swallowed and the work done again
(`StrikeMemo`), the one exception of FailureSticks.

Abstracted: a commit is a number on a line; what git prints is its line; the contents of an archive
are none, partial or whole. A swap names two modules, as `module swap` wants. Malformed or
missing options end a section at once and are the option values "refused" and "missing".

## 9 Building, testing and provisioning

`Stage.tla` extends `Plugin` by what these plugins share: the logs of earlier sections as `getLog` finds them
(the first of a name), the paths as a list of middleware before the user's own entry, if the user has set them
(`bin` for PATH and LD_LIBRARY_PATH, `inc` for CPATH and LIBRARY_PATH), environment variables (the user's, a
section's, or unset), what make left at a place, and `build_complete`. `Autotools.tla` (with DefaultTestBuild,
which wraps it), `Shell.tla`, `Provision.tla` (WWulf3, Hostfile) and `PMIxUnit.tla` are the plugins,
`Build.tla` the composition with exceptions, `deactivate()` at the end, and a killed mtt that is started
again, perhaps as a dry run. Sections are run as `sequential.py` runs them (`Turn`): once in a combination, in
the order of their stages (`StageOf`); after an exception of a plugin only reporters are run, and the next
combination begins with its first section. `Always` names the sections that each combination has; in `build`
it is empty, so that any two requests may meet.

| Run | Instance | Shows |
|---|---|---|
| `build` | 2 sections out of 20 requests on packages fetched before, 3 nodes, 2 variables | TypeOK, SuccessTrue, ProcessRestored, OwnFirst, ResourcesReturned |
| `build_stale` | up to 4 sections: a build and a test build on it, in two combinations | *violation* of ParentSucceeded |

SuccessTrue is BuiltAsLogged and HostsChosen; ProcessRestored is Restores, TestBuildRestores and EnvarsGone,
each for paths that come back as they were, or, where the code keeps the old path as a string, as an empty
string if they were not set (`AsString`); ResourcesReturned is NodesReturned and HarassedIfFailed. Two
sections let each plugin run on what each other one left in the process, and run twice; requests differ in
what decides a branch (in place, ASIS, middleware with and without location, dependencies, the same variable
twice, allocation, an expected failure, a share of nodes that rounds up). The user has `inc` and no `bin`, so
that both kinds of path are met. In `build_stale` a build succeeds, a later combination repeats it and a step
of it fails, and the test build on it is run all the same. The properties name the exceptions that the code
makes, since it does give back less in some of them:

- Shell, DefaultTestBuild and PMIxUnit set a path that was not set to the empty string (PathsAsBefore, by
  hand): the next section that prepends to it puts the current directory behind its middleware;
- Shell looks for the log of its whole list of middleware (line 220): for a list it has none, and nothing is
  prepended, which is what OwnFirst says of it;
- a step of Autotools that fails leaves the paths pointed at the middleware (DefaultTestBuild puts its
  own two back), and so do the early returns for ASIS and a dry run, with the modules; a failed Shell
  section leaves paths and modules, and one that has no nodes or whose harassers do not start leaves the
  working directory as well; a Shell command that should fail and does not, and whose nodes are not
  returned either, is logged with the command's own 0 (`Shell.py:371`), a success that leaves the paths;
  PMIxUnit leaves PATH if the middleware has no lib directory;
- `make_envars` deletes what the user had set of the same name, and raises KeyError for a name given
  twice;
- a deallocation that fails is hidden by the command's success, and gives a test that is expected to fail
  status 0; WWulf3 raises KeyError when an allocation is refused, and IPMITool when it is called by
  WWulf3 with an empty log, so that a provisioning never succeeds and its nodes stay allocated when it
  raises;
- PMIxUnit's failed tests never set a status, and it does not look at `--dryrun`; middleware that failed
  but logged a location is used.

## 10 Active sections and combinations

`TestDef.tla` has pure operators for `expandWildCards` and the choice of sections in `configTest`,
on names that are sequences of letters; of two stars in a row Python's `split` raises ValueError as
soon as a name gets that far, which ends mtt (`Breaks`). `Combinatorial.tla` is `createIniLog` and `execute`: sections
sorted into MiddlewareGet, TestRun and others, the files of their combinations, each list with
commas multiplying them, and the sequential executor run on one after the other (`configNewTest`,
`executeTest` with `clean_after`), which ends with a status or leaves mtt. The sections of every combination
write into one scratch directory, at a path that has the section's name and nothing of the combination
(`TestDef.py:733-742`): `scratch` holds for each section the combination that wrote there last. A failure
with `--stop-on-fail` is a status like others, as line 359's exit is caught at 387; an interrupt between two
sections ends mtt.

| Run | Instance | Shows |
|---|---|---|
| `combine` | 10 sets of up to 6 sections with lists of 2 and 3 items, one of them with an item twice, one with an item that has a `$`; no list of names, or one of 10 for `--section` and `--skipsections` | TypeOK, SectionsRight, CombinationsRight, Outcome |

SectionsRight compares with `Glob`, a reference definition of wild cards (there is a way to lay the wild card
along the name, each star over any number of letters): ActivesRight (who is active) and MissingRefused (names
not found end mtt). CombinationsRight is AllCombinations (every combination, whole, and each once if no list
has an item twice) and OneByOne (the file that is run is the next, with nothing of the one before); Outcome is
StatusTells, ScratchRight (what is in the scratch directory is of one combination for each section, and with
`clean_after` of none before a success) and TempRemoved. Two lists of different length, in one section or in
two, are the least for which the order of the nested loops matters; 13 descriptors let one input run out of
them (`mkstemp`'s are never closed).

What the code does otherwise than one may expect, and the model shows: a section whose options are all lists
ends mtt with NoSectionError, and a section without options is dropped; lists of MiddlewareGet and TestRun
sections are not taken apart; sections that are not active are combined all the same; a name given twice, or a
section marked SKIP, counts as not found; the pieces of a wild card may overlap (`a*a*b` takes `ab`); `a**b`
ends mtt with an exception; the temporary directory stays if `createIniLog` fails; the section of the
environment variables can be what a wild card finds; an item with a `$` (written as `$$`) is written as read,
and raises when the file of its combination is read (`TestDef.py:762`); results of a combination that failed
are overwritten by the next that has the section (FailedKept, by hand), and `clean_after` removes the results
of combinations that failed before one that succeeded.

## 11 Proofs

All are checked by `tlapm` to the last leaf, for every value of the constants that satisfies the
named assumptions (`IniAssumption`, ...: types of the inputs, nothing about behaviour). Some say more
than a type: `OrderAssumption`, that `LoadClasses` lists each stage once and Reporter last (its
`ordering()` is the greatest); `SessionAssumption`, that a client's first POST is of an install;
`ArchivesAssumption`, that snapshots have different names; and `CombinatorialAssumption`, that a
section, or an option of a section, is there once.

*SequentialProofs.* `IInv == TypeOK /\ BoundLog /\ TimerOrder /\ SemAccount` is inductive.
`SemAccount` alone is not: a step that takes a unit could then take it from nobody, so the
invariant also says which timer states exist at which `pc` (TimerOrder), and that the local
`stageLog` is the current section's where a handler uses it (BoundLog). `GuardedInterrupt` follows
from the account: with `leaks = 0` the main thread and the handler cannot both have the unit.
`ChildAfterSuccess` needs `TrueLogs`: a log that says 0 is of a plugin that said so, as long as no
interrupt has made the executor write statuses itself.

ReportedOnce is not inductive: after a report, what keeps the loops from coming past that reporter again is
split between three flags and the two loop indices. `Once` says what they agree on: a reporter that has run is
behind the loops, they are in the last pass, and reports are only made in the last step of it. `ReportInv` is
the other direction, for EveryReportMade: an active reporter that the loops have left behind, and whose title
and options can be read, has a log, but for one after an interrupt, which may have been lost between the
plugin and its log. Both use OrderAssumption, without which a second Reporter step would follow the first.
FailureReturned has two hypotheses, as `seq_stop` has: `NoTimers`, since the watchdog's interrupt may come
between the log and the flag; and `Orderly`, that plugins are found and have a `savelog` that returns, and
that parents are met earlier in a pass. Without them a failure is in fact lost, which section 12 shows.
`StatusInv` says that every log that is no success and has been left behind has set the status, and that a
section is refused only because of such a log.

*ExecuteCmdProofs.* `Joined` (once `cancel()` has returned, the thread is gone) gives NoSignalAfterReap;
`Whole` (the thread that has sent its SIGTERM to a child that runs on has the lock) gives KillIsWhole;
`Signals` (what the child's return code, and the place of the two threads, say of a signal that was sent)
gives KilledIsTimedOut, for children that obey SIGTERM or do not, and whoever else kills them; `Drained` (when
the loop has seen the end of stdout, pipe and buffer are empty) gives StdoutComplete, under the assumption
that the child does not close early.

*SubmitProofs.* IdsAreForever is not inductive: two clients could hold the same drawn id. The
invariant adds that a sequence has passed every id in its table, in any answer and in any
client's hand (`Passed`, `InHand`), that an id in hand is in no row and in no answer before its
INSERT (`Fresh`), that after it any row with this id is the client's own (`Own`), and that two
clients never hold the same id of one table (`Apart`). It holds whatever the connection does and
however many clients there are. TypeOK needs to know that a parent's row has every column that is
copied from it, and so which columns a thread has filled at each step of its plan (`TInv`).
PoisonLasts needs that a failed transaction exists on a connection that is up only (`BrokenUp`):
then no statement is served, and without an INSERT nobody gets to a commit.

The rows in the database are not enough for ParentsAgree: a thread copies its parent's columns long
before it inserts its own row, and the parent may be in the open transaction. `Family` looks at what the
tables will hold once that transaction has ended (`Solid`), and says that every row, committed or
pending, and every thread past its parent's column has its parent there, and that every pending row has
an owner who is about to commit it (`Owned`). When a statement fails the pending rows are lost; with two
clients they are all of the one that did not fail, and none is its own parent. AnsweredIsStored needs
`Promised`: as long as no statement has failed, a row that a thread is about to commit, and every id that
a client was told, is visible to all.

*LauncherProofs.* `TInv` is the type invariant with `KeysInv`, without which the counter of the ids could
fall below 0: every id in the table is below the counter, also while a stop gives ids back, as many as it
has taken. KeysAreNew is an action property from it. HarassersKnown needs `Quiet` (unless an exception
has struck, the counter is what the test holds or the stop has left to do) and `StopsKnown` (a stop
script that did not return 0 is among the troubles). TestsAccounted needs `StatusInv` (finalStatus 0
means that no result so far is a failure with a code other than 0) and `LimitInv`: the limit is compared
by equality, so that the proof has to carry that the counter is *below* it at every test. GivenBack needs
`PathsInv`, what PATH and the saved PATH are inside and outside of a section, and `ClusterInv`, that a
cluster is held exactly where the test loop is and the section asked for one. All for any number of
sections, tests and harassers.

*BuildProofs.* `TInv` is the type with `PlaceInv` (which plugin can be where, and that the location is
known by then), `KnownInv` and `HeldInv` (a section allocates once, which bounds the nodes held). Four
groups of invariants stand on it, one for each property, with one lemma per action and plugin:

- `BuiltInv`: a location is logged before anything is made, what is made is whole when make install is over,
  and a failure of a step is in the log by then. BuiltAsLogged follows at the return, also through
  DefaultTestBuild.
- `Kept == SaveInv /\ TodoInv /\ BackInv /\ NothingInv /\ EnvInv`: what was put aside is what the section
  found, at each place either the paths are still that, up to `AsString`, or the middle is to be put back;
  with at most one middleware that has no location nothing is prepended; a variable of make_envars that is set
  will be deleted. ProcessRestored follows for the ways out that give back, and the two that do not are named
  in `Restores`. The Shell command of section 9 that is logged with 0 came up in this proof.
- `NodeInv` and `HarassInv`: nodes that are held are held by the section that is running, once, at places from
  which it comes to its release; harassers are of this section or of one that failed. From them
  ResourcesReturned.
- `OwnInv`, for OwnFirst: the locations of the first k of the section's middleware lead the paths backwards, k
  being what the loop has behind it, and all of them do until the paths are given back. What is located is a
  filter of a list; its recursive function (`Those` in `Provision`, which also picks the nodes of a hostfile)
  is unfolded step by step in the lemmas about `UpTo`, by a well-founded minimum over the *set* of places for
  which a fact holds (`Induction`).

*IPMIToolProofs.* `IInv == TypeOK /\ ThreadInv /\ QueueInv /\ Account` is inductive. `Account` says
where the tasks are: every command of the call is queued, in the hands of a thread or recorded, in
one place; a ping is there only if its command is recorded, and always is in a dry run. A thread
that is about to queue a ping counts as having it in hand, or the ping would be nowhere between
the two steps. `QueueInv` says that nobody leaves a task behind: while something is queued after the
last thread was started, a thread is not at its end. EveryTaskRecorded follows when the queue is
empty and all hands are. For RoomToPut, two queued tasks are never of one node (a queued ping has its
command recorded, and a task is in one place), so by the pigeonhole principle they fill half of the
queue at the most. PingAfterCommand is inductive with the account. FailureShows needs neither the
queue nor the account, only the status between Collect and the end of the call (`FailureKept`).

SpecPromise is the refinement: under the mapping of `Batch` every step of `execute()` and of its threads
is a step of PowerBatch or a stutter. It needs the account (a task that a worker records was in `todo`,
and what is left of `todo` is what is queued and held), that nothing is left when the call has been
collected (`NothingLeft`), and `FailureKept` for the answer. The liveness of PowerBatch is model-checked.

*FetchProofs.* It begins with lemmas about ModuleCmd: every outcome of every operator keeps the type of
the environment, for any options; only what is asked for is recorded, and reverting records nothing new;
if one operation is asked for and succeeds, it has its effect on all the modules that it names and is
recorded, and reverting it with success has the opposite effect on the same (`ApplyAlone`,
`RevertAlone`); and the two make nothing of each other if the first changed what it names (`Undone`: what
is loaded was not there, what is unloaded was). BuildProofs has the first of them, about the types, too.

Each theorem about the sections has the invariant it needs, as they have little in common:

- SpecComesHome: `AtHome`, that a plugin which has not yet gone to its scratch directory is where it was
  called.
- SpecDelivered: what the code looks at, see section 8. `LineInv`, that a clone on a branch is on a line that
  the remote repository has and not ahead of it, and `PlaceInv`, what Git knows at each place of its attempt
  (before a pull and before the record the clone has what is wanted; a success in the log means that there was
  no attempt yet). Delivered alone says nothing about an attempt that goes on after a failure. `TornAmong` and
  `TornLined` say that a step that is cut short leaves a clone of the type, and on a line, as before.
  SpecBranchExact follows: the branch that is delivered is the one that was asked for if no head's line has
  another's name in it.
- SpecNewest: `NewestInv`, that Git does not pull what is to be left as it is; an invariant with the former.
- SpecMemoTrue: `Kept`, that a remembered success is on the disk, unless Git is at a place where it has
  replaced the clone and will overwrite the memo; and that it clones into an empty place only where no success
  is remembered.
- SpecFailureSticks: an action property; a section whose failure is remembered comes to its attempts only when
  an interrupt has struck.
- SpecInstalledIsTrue and SpecWhole are inductive, or become so with one conjunct.

- SpecVersionFetched: `VersionInv`, that what the version file names is unpacked in a snapshot section, and
  that a section at work on a snapshot is at work on another one, so that it does not take that away; with
  `WholeInv` for what a record finds unpacked. It is for requests as in `OneVersionFile`: a snapshot
  section without the version file would remove what another one's names, one with ASIS takes an
  interrupted unpacking for good. Snapshots have different names (`ArchivesAssumption`), or the one that is
  fetched next would be in the place of the one that is named.
- SpecModulesBack: `ModsInv`, that what a section finds recorded is what a section of its name asked for,
  and that in its first attempt, as far as the revert, what is loaded is what was loaded at its start with
  its one operation done (`Applied`). Later attempts are not covered: one that follows a revert reverts
  again (Git.py:652, 658, 680).

SpecFetched, SpecRemembered and SpecPutBack put them together as the run checks them.

*CombinatorialProofs.* For any INI files with different section names and, in a section, different
option names, which is what ConfigParser hands out (`OnceEach`); names have no star in them. What loops over
sections, options and lists compute is a recursive function in the model. `Induction`, from the fact that a
set of numbers has a least one, gives such functions their values step by step (`Recursion`), and from that
what a filter and a flattening return and where each element comes from (`ThoseFacts`, `FlattenOrigins`).

- SpecSectionsRight: `Chosen`, that the active sections are what `Choose` returns, is inductive; the rest is
  about words. `SplitCuts` says where in a wild card its pieces are. `GlobMatches`: if a wild card should
  match a name, each piece is found at or before the place where it should be, so the search comes to the
  end, for any number of stars. `MatchesGlob`: what is matched should be, for one star and no overlap.
- SpecCombinationsRight: `MadeUp`, that with d lists gone through the files are those of the first d lists:
  as many as the product of their lengths, each of them `Partial` (a MiddlewareGet and a TestRun section
  whole, of the others the options that are no lists and one item of each of these d), and no two alike
  unless a list has an item twice. The next list was not in them before (`NextList`), so two of the next
  files are alike only if they were made of the same file with the same item (`PutSame`, `DivSame`). With all
  lists gone through a partial file is a combination (`WholeIsCombination`); that none of the sections is
  missing from it is what the NoSectionError guards.
- SpecOutcome: `Ordered`, that files are run one by one and that the end is reached only past the last; and
  `Kept`, that what is in the scratch directory was left by a combination that has the section, the last one
  of them, and that the temporary directory is as it should be; which needs that nothing has been read as long
  as files are made.

## 12 Where the code does not do what it says

Each is a violation that TLC finds. `build_stale` is a listed run; the others are to be run by hand, from the
`.cfg` that is named, with the values that are given and the property instead of its own (module `MC...` of
the prefix: `seq_` MCSequential, `cmd_` MCExecuteCmd, `launch_` MCLauncher, `submit_` MCSubmit, `ipmi_`
MCIPMITool, `fetch` MCFetch, `build` MCBuild, `combine` MCCombinatorial). A state predicate is given as
INVARIANT; those with `[][...]`, `~>` or `<>` (CaughtInZone, ExceptionLogged, FailedKept, AllocationKept,
RestartDetected, FirstFailureCounts, InsertIsCommitted, Returns, CancelEnds, Terminates) as PROPERTY.

| cfg | Property | What the code does, and what it says |
|---|---|---|
| `build_stale` | ParentSucceeded | `sequential.py:158-160` "if this stage has a parent, get the log for that stage and check its status - if it didn't succeed, then we shall log this stage as also having failed and skip it"; getLog finds the first log of that name, which is of an earlier combination |
| `build_stale`, Requests <- MCRequests, MaxRuns = 2 | ConfirmedIsBuilt | `Autotools.py:595` "Add confirmation that build is complete"; it is written also when `make install` has failed, and an ASIS section takes what is there for a whole build |
| `fetch_memo` | MemoAnswers | `Git.py:662-664` "track that we serviced this one"; a request whose subdirectory is not found has replaced the clone and leaves without changing the memo, which then answers for a clone that is gone |
| `fetch_memo`, Requests <- CommitRequests, MaxRuns = 2 | CommitExact | `Git.py:53` "Commit (hash prefix, tag or other commit expression) to be downloaded"; a clone that is on this commit is pulled, and a later one delivered |
| `fetch` | BranchExact | `Git.py:28` "Branch (if not master) to be downloaded"; line 379 looks for the name in the line of `git branch` |
| `fetch` | FilesThere | the same promise; a clone whose checkout failed, or was cut short, is taken for whole (`Git.py:362-413`) |
| `build` | PathsAsBefore | `Shell.py:400` and `DefaultTestBuild.py:158` "if we added middleware to the paths, remove it"; a path that was not set becomes the empty string |
| `combine` | FailedKept | `pymtt.py:107` "Clean the scratch directory after a successful run": what a combination that failed has left is overwritten by the next one, whatever its status (`TestDef.py:733-742`, `Autotools.py:284`) |
| `seq_mixed` | ExceptionLogged | `sequential.py:396-402` log "Exception was raised" for the section; one that raises before its log exists has its exception logged in the section before |
| `seq_leak` | NoInterruptInTransit | `sequential.py:423-424` "Holding a semaphore while in transition between plugins so async threads don't interrupt in the wrong context"; the ways out at 345-348, 319-320, 387-408 go on without the acquire |
| `launch_status` | FailureReported | `LauncherMTTTool.py:302-304` "must be reported as such"; finalStatus is the test's own 0 (472) |
| `ipmi_restart` | RestartDetected | `IPMITool.py:250-251` "execute the loop of "ping" commands to detect node restart"; `ckcmd` is bound in dry runs only |
| `submit_race` | InsertIsCommitted | `db_pgv3.py:640` "Make sure to commit after every INSERT"; the commit is a rollback when another thread's statement failed in between |
| `seq_leak`, Ini <- CleanIni | NoInterruptAfterReturn | `Watchdog.py:93` "Catch when deactivated to stop the timer thread"; Timer.cancel does nothing to an expired timer |
| `seq_leak`, Duration = FALSE | FailureReturned | `sequential.py:361` "Set flag if any stage failed ..."; the `continue` at 348 skips it |
| `seq_leak`, Ini <- CleanIni | CaughtInZone | `sequential.py:365` "outside exception-catching-zone"; a handler uses names that no section has bound yet (376) |
| `seq_leak`, Ini <- CleanIni, Duration = FALSE, Loop = TRUE | LoopsUntilTimeout | `pymtt.py:128` "Causes MTT to loop until provided number of seconds finishes"; line 440 sets `testDef.looping`, the loop reads `self.looping` |
| `seq_swallow` | Terminates | `pymtt.py:125` "maximum duration for test before interrupting"; the bare except around `savelog` takes the interrupt |
| `cmd_plain`, MayClose = TRUE | LoopsUntilPipesClose | `ExecuteCmd.py:266` "loop until the pipes close"; it ends when one is closed and the other silent |
| `cmd_plain`, MayClose = TRUE | Returns | `OpenMPI.py:59` "terminate a test if it exceeds this time"; after such an end the timeout is cancelled and `p.wait()` waits |
| `cmd_heirs` | Returns | the same promise; a descendant of the killed child keeps `select` waiting |
| `cmd_plain` | TimedOutIsFlagged | `LauncherMTTTool.py:439` "the test timed out, so flag it ..."; a child that exits on SIGTERM is taken for one that ended |
| `cmd_plain` | FlaggedTimedOut | the same line; a child that somebody else killed is flagged as timed out (`ExecuteCmd.py:302`) |
| `cmd_plain`, CmdTime = TRUE | TimedOutComesBack | a timeout comes back as a result; its message uses `elapsed_datetime` before it is bound (`ExecuteCmd.py:306`) |
| `cmd_plain`, Expires = FALSE | CancelEnds | `ExecuteCmd.py:44` "cancel the timeout"; a notify before the wait is lost, the join lasts for the whole timeout |
| `cmd_plain`, Exceptions = TRUE | InterruptComesOut | the bare except at `ExecuteCmd.py:169` takes the watchdog's interrupt |
| `launch_status`, MaxSections = 2 | StatusIsOfSection | finalStatus is not reset: a good section is logged with an earlier one's failure |
| `launch_status`, MaxSections = 2, MaxTests = 2 | LimitIsOfSection | "Maximum number of tests to run": compared by equality with a counter that is never reset (421) |
| `launch_status`, MaxSections = 2 | PathsReset | "reset our paths and return us to our cwd": the dependencies' paths stay |
| `launch_status`, MaxSections = 2, Pairs = 1 | AllocationKept | the next section forgets an allocation whose release failed |
| `ipmi_restart` | FirstFailureCounts | `IPMITool.py:323-324` "set the status to the first one that did"; it is the last one |
| `ipmi_nofile` | Returns | the return at 287-290 keeps the lock; the next call waits for ever |
| `submit_orphan` | ParentsThere | after a lost connection a row hangs on one that was rolled back |
| `submit_race` | NoDuplicates | `db_pgv3.py:611` "Try the select to see if we need to insert": two threads both insert |
| `submit_race`, Session <- MCProvisioned | UnknownIsFiltered | `db_pgv3.py:584-585` "we filter because the client may have sent us stuff our database has no clue about"; the SELECT before the filter fails when the table is missing |

## 13 What is not modelled, and what is only checked

Not modelled: see the components with status `not_modelled` or `partly`. In short: formatting
and output; command lines of plugins; conversions of option values; the read-only queries of the
server; web interfaces, the PHP server and maintenance scripts. Of the modelled plugins: interrupts
during `createIniLog`; a Shell section without a parent that is not of a Get stage; the rounding of a
ratio in floating point (line 216 of `Hostfile.py` takes 8 of 100 nodes for 0.07), and one below zero; an
`--env-module-wrapper` that names no file, where each operation on modules raises before it has an effect,
which is otherwise the exception `Strike`; a value with a `%` in it and a section `[ENV]` in the file, which
raise when the parsers meet them.

The type invariants of Sequential, ExecuteCmd, IPMITool, Submit and Fetch are proved and are not part
of the runs; those of Launcher, Build and Combinatorial are both.

Only model-checked: all liveness (Terminates, DurationStrikes, Returns, the fairness in Promise), as
fairness and ENABLED are out of the prover's reach.
