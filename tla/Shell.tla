-------------------------------- MODULE Shell --------------------------------
(* Shell.py: a command that builds, tests or fetches, in the location of its  *)
(* parent or of its own, on nodes that another command may have to allocate   *)
(* first.  A section may ask for: parent, middleware, asis with or without    *)
(* asis_target, the two allocation commands, an expected failure (fail_test). *)
(* The nodes of WWulf3 (module Provision) are kept here as well.              *)
EXTENDS Stage

ASSUME ShellAssumption == \A r \in Requests : r.allocates \in BOOLEAN

Holders == {"Shell", "WWulf3"}

VARIABLES
    allocated,  \* self.allocated of the two plugins
    held,       \* allocations that the resource manager has granted
    shell,      \* Shell: activated, and whether self.cmds has the commands
    harassed,   \* the runs (by the value of left) whose harassers are running
    result,     \* status of the command
    excused     \* history: holders one of whose allocations nobody can return:
                \*   a deallocation failed, or mtt was killed

nodeVars == <<allocated, held, shell, excused>>
shellVars == <<nodeVars, harassed, result>>

ShellInit ==
    /\ allocated = [p \in Holders |-> FALSE]
    /\ held = [p \in Holders |-> 0]
    /\ shell = [activated |-> FALSE, commands |-> FALSE]
    /\ harassed = {} /\ result = 0 /\ excused = {}

\* Mutant: what was never granted is counted as returned.
ReturnedAnyway(p) ==
    /\ held' = [held EXCEPT ![p] = @ - 1]
    /\ allocated' = [allocated EXCEPT ![p] = FALSE]
    /\ UNCHANGED excused

\* deallocate, where nodes are allocated: the command works, or it does not.
Returned(p) ==
    /\ held' = [held EXCEPT ![p] = IF @ > 0 THEN @ - 1 ELSE 0]
    /\ allocated' = [allocated EXCEPT ![p] = FALSE]
    /\ UNCHANGED excused
Refused(p) ==
    /\ excused' = excused \cup {p}
    /\ UNCHANGED <<held, allocated>>

Deallocate(p) ==
    \/ ~allocated[p] /\ UNCHANGED <<log, allocated, held, excused>>
    \/ allocated[p] /\ Returned(p) /\ UNCHANGED log
    \/ allocated[p] /\ Refused(p) /\ log' = [log EXCEPT !.status = 1]

\* No command, or no location of the parent.  A dry run and what is there
\* already end here, with success.
Present == built[Source] # "none" \/ (cur.parent # NoSection /\ ~cur.target)

ShellStart ==
    /\ At("Shell", "start")
    /\ shell' = [activated |-> TRUE, commands |-> cur.allocates]
    /\ \/ /\ cur.options # "good" \/ Source = NoPlace
          /\ Fail
       \/ /\ cur.options = "good" /\ Source # NoPlace
          /\ \/ /\ dry
                /\ log' = [log EXCEPT !.status = 0, !.memo = TRUE]
                /\ Return
             \/ /\ ~dry /\ cur.asis /\ Present
                /\ log' = [log EXCEPT !.status = 0, !.located = TRUE, !.memo = TRUE]
                /\ Return
             \/ /\ ~dry
                /\ cur.asis /\ Present => cur.target /\ built[Source] # "whole"
                /\ Go("middleware") /\ UNCHANGED log
    /\ UNCHANGED <<env, stageVars, allocated, held, excused, harassed, result>>

\* The log is looked for under the whole string: a list of middleware has none.
ShellMiddleware ==
    /\ At("Shell", "middleware")
    /\ \/ Len(todo) = 1 /\ PointTo({"bin", "inc"}, "middleware")
       \/ /\ Len(todo) > 1
          /\ todo' = <<>> /\ Go("middleware")
          /\ UNCHANGED <<env, log, onDisk, paths, envars, found, mods, save>>
       \/ ApplyWanted("move", "returned")
    /\ UNCHANGED shellVars

\* To the location, which is made if it does not exist; allocate() begins.
ShellMove ==
    /\ At("Shell", "move")
    /\ Chdir(Source)
    /\ Leaves(Source, IF built[Source] = "none" THEN "partial" ELSE built[Source])
    /\ allocated' = [allocated EXCEPT !["Shell"] = cur.allocates]
    /\ Go(IF cur.allocates THEN "allocate" ELSE "harass")
    /\ UNCHANGED <<log, complete, paths, envars, found, wanted>>
    /\ UNCHANGED <<held, shell, excused, harassed, result>>

\* Without the nodes the section ends where it is.
ShellAllocate ==
    /\ At("Shell", "allocate")
    /\ \/ /\ held' = [held EXCEPT !["Shell"] = @ + 1]
          /\ Go("harass") /\ UNCHANGED <<log, allocated>>
       \/ /\ allocated' = [allocated EXCEPT !["Shell"] = FALSE]
          /\ Fail /\ UNCHANGED held
    /\ UNCHANGED <<env, stageVars, shell, excused, harassed, result>>

\* A TestRun section starts the harassers; it gives up if one did not start.
ShellHarass ==
    /\ At("Shell", "harass")
    /\ IF ~cur.testrun THEN Go("run") /\ UNCHANGED <<log, harassed>>
       ELSE /\ harassed' = harassed \cup {left}
            /\ \/ Go("run") /\ UNCHANGED log
               \/ log' = [log EXCEPT !.status = 1] /\ Go("abandon")
    /\ UNCHANGED <<env, stageVars, nodeVars, result>>

\* The command, and the harassers stopped after it.
ShellRun ==
    /\ At("Shell", "run")
    /\ result' \in {0, 1}
    /\ \E x \in IF result' = 0 THEN {"whole"} ELSE {"partial", "whole"} : Leaves(Source, x)
    /\ harassed' = harassed \ {left}
    /\ Go("release")
    /\ UNCHANGED <<env, log, complete, paths, envars, found, wanted, nodeVars>>

\* Mutant: nodes are returned after a command that worked.
ShellReleaseIfGood ==
    /\ At("Shell", "release")
    /\ IF result = 0 THEN Deallocate("Shell")
       ELSE UNCHANGED <<log, allocated, held, excused>>
    /\ Go("verdict")
    /\ UNCHANGED <<env, stageVars, shell, harassed, result>>

\* The nodes are returned, whatever became of the command.
ShellRelease ==
    /\ At("Shell", "release")
    /\ Deallocate("Shell")
    /\ Go("verdict")
    /\ UNCHANGED <<env, stageVars, shell, harassed, result>>

\* After harassers that did not start a refusal raises: the log's stderr is a
\* string by then, and no list.
ShellAbandon ==
    /\ At("Shell", "abandon")
    /\ \/ allocated["Shell"] /\ Refused("Shell") /\ Throw
       \/ allocated["Shell"] /\ Returned("Shell") /\ Return
       \/ ~allocated["Shell"] /\ Return /\ UNCHANGED <<allocated, held, excused>>
    /\ UNCHANGED <<env, log, stageVars, shell, harassed, result>>

\* fail_test turns the verdict around.
Passes == (result # 0) = cur.fails

\* Where nodes could not be returned the status is that of the command: 0, for
\* one that was to fail and did not.
ShellFailed ==
    /\ At("Shell", "verdict") /\ ~Passes
    /\ env' = [env EXCEPT !.cwd = entry.cwd]
    /\ log' = [log EXCEPT !.status = IF log.status = 0 THEN 1 ELSE result]
    /\ Return
    /\ UNCHANGED <<stageVars, shellVars>>

\* The status 0 forgets nodes that could not be returned.
ShellPassed ==
    /\ At("Shell", "verdict") /\ Passes
    /\ \E o \in RevertModules(Me, env.modules) :
          /\ env' = [modules |-> o[1], cwd |-> entry.cwd]
          /\ log' = [log EXCEPT !.status = o[2], !.located = TRUE]
    /\ paths' = IF save.mid
                THEN [bin |-> AsString(save.paths.bin), inc |-> AsString(save.paths.inc)]
                ELSE paths
    /\ Return
    /\ UNCHANGED <<onDisk, envars, found, wanted, shellVars>>

\* The executor deactivates its plugins after an exception: Shell returns the
\* nodes it has, if its last section gave the commands.
Deactivate ==
    /\ pc = "raising"
    /\ IF shell.activated /\ shell.commands /\ allocated["Shell"]
       THEN Returned("Shell") \/ Refused("Shell")
       ELSE UNCHANGED <<allocated, held, excused>>
    /\ shell' = [shell EXCEPT !.activated = FALSE]
    /\ Go("raised")
    /\ UNCHANGED <<env, log, stageVars, harassed, result>>

ShellNext ==
    \/ ShellStart \/ ShellMiddleware \/ ShellMove \/ ShellAllocate \/ ShellHarass
    \/ ShellRun \/ ShellRelease \/ ShellAbandon \/ ShellFailed
    \/ ShellPassed

ShellTypeOK ==
    /\ allocated \in [Holders -> BOOLEAN]
    /\ held \in [Holders -> 0 .. MaxRuns]
    /\ shell \in [activated : BOOLEAN, commands : BOOLEAN]
    /\ harassed \subseteq 0 .. MaxRuns
    /\ result \in {0, 1} /\ excused \subseteq Holders
=============================================================================
