-------------------------------- MODULE Build --------------------------------
(* The sections of an mtt process that provision, build and run, one after    *)
(* the other; what they leave to each other in the process, on the disk and   *)
(* with the resource manager, and what a killed mtt leaves to the next.       *)
EXTENDS Autotools, PMIxUnit, Provision

VARIABLES
    struck,     \* history: an exception has left a plugin of this process
    latest      \* history: how each section ended when it was run last

history == <<struck, latest>>
vars == <<shared, autoVars, shellVars, hostVars, ran, history>>

Init ==
    /\ SharedInit /\ StageInit /\ ShellInit /\ HostInit
    /\ loaded = <<>> /\ struck = FALSE
    /\ latest = [s \in Section |-> "none"]

Execute ==
    \/ AutoNext /\ UNCHANGED <<shellVars, hostVars>>
    \/ ShellNext /\ UNCHANGED <<loaded, hostVars>>
    \/ UnitNext /\ UNCHANGED <<loaded, shellVars, hostVars>>
    \/ ProvisionNext /\ UNCHANGED loaded
    \/ Deactivate /\ UNCHANGED <<loaded, hostVars>>

\* An interrupt of the watchdog, or an OSError, between any two steps; nodes
\* may have been granted by then.
Strike ==
    /\ ~AtRest /\ pc # "raising"
    /\ Throw
    /\ held' \in {held} \cup
         (IF pc = "allocate" /\ cur.allocates
          THEN {[held EXCEPT ![cur.plugin] = @ + 1]} ELSE {})
    /\ UNCHANGED <<env, log, autoVars, allocated, shell, excused, harassed, result, hostVars>>

\* What an interrupted make leaves.
Halfway ==
    CASE pc \in {"clean", "all"} -> {built, [built EXCEPT ![Source] = "partial"]}
      [] pc = "install" -> {built, [built EXCEPT ![Prefix] = "partial"]}
      [] OTHER -> {built}

\* mtt is killed, at any time, and started again, perhaps as a dry run: the
\* disk stays as it is, and nodes that are held stay allocated.
Restart ==
    /\ env' = FreshEnv /\ entry' = FreshEnv
    /\ pc' = "idle" /\ log' = FreshLog
    /\ logs' = FirstLogs /\ dry' \in BOOLEAN
    /\ paths' = UserPaths /\ envars' = UserEnvars
    /\ mods' = NoModules /\ todo' = <<>> /\ loaded' = <<>>
    /\ save' = [paths |-> UserPaths, outer |-> UserPaths, mid |-> FALSE]
    /\ built' \in Halfway
    /\ allocated' = [p \in Holders |-> FALSE]
    /\ shell' = [activated |-> FALSE, commands |-> FALSE]
    /\ excused' = excused \cup {p \in Holders : held[p] > 0}
    /\ status' = {} /\ result' = 0 /\ struck' = FALSE /\ ran' = {}
    /\ latest' = [s \in Section |-> "none"]
    /\ UNCHANGED <<cur, left, complete, held, harassed, hosts>>

Ends ==
    latest' = [latest EXCEPT ![Me] =
                 IF pc' = "raised" \/ (pc' = "returned" /\ log'.status # 0) THEN "failed"
                 ELSE IF pc' = "returned" THEN "good" ELSE @]

Step == Execute /\ struck' = (struck \/ pc' = "raising") /\ Ends

Next ==
    \/ Step /\ UNCHANGED ran
    \/ /\ StageBegin
       /\ loaded' = <<>> /\ status' = {} /\ result' = 0
       /\ UNCHANGED <<nodeVars, harassed, hosts, history>>
    \/ StageSkip /\ UNCHANGED <<loaded, shellVars, hostVars, history>>
    \/ Strike /\ struck' = TRUE /\ UNCHANGED <<latest, ran>>
    \/ Restart

Spec == Init /\ [][Next]_vars
-----------------------------------------------------------------------------
Places ==
    {"idle", "returned", "raising", "raised", "start", "autotools", "unwind",
     "middleware", "prefix", "autogen", "configure", "envars", "clean", "all",
     "install", "finish", "move", "allocate", "harass", "run", "release",
     "abandon", "verdict", "paths", "needs", "modules", "tests", "revert",
     "provision", "cycle", "ask", "write"}

\* Every variable keeps its type, over sections, exceptions and restarts.
TypeOK ==
    /\ StageTypeOK /\ ShellTypeOK
    /\ pc \in Places
    /\ loaded \in Seq(Envar)
    /\ hosts \in [Place -> Seq(Node) \cup {NoFile}] /\ status \subseteq Node
    /\ struck \in BOOLEAN /\ latest \in [Section -> {"none", "good", "failed"}]

\* A success that is neither a dry run nor skipped.
Worked(plugins) ==
    pc = "returned" /\ cur.plugin \in plugins /\ log.status = 0 /\ ~log.memo /\ ~dry

\* A build that succeeds by its own work has left a whole installation at the
\* location it logs, which the sections that follow will use.
BuiltAsLogged == Worked(Builders) => log.located /\ built[Prefix] = "whole"

\* A path is as the section found it; of all plugins but Autotools one that was
\* not set may be left behind as an empty string.
AsFound(path, before) ==
    path = before \/ (before = <<>> /\ path = <<Blank>> /\ cur.plugin # "Autotools")

\* A section that succeeds by its own work leaves the working directory and the
\* paths as it found them.  The paths not: PMIxUnit, if the middleware has no
\* lib; and Shell, if a command that was to fail did not and its nodes were not
\* returned either, which makes a success of it.
Restores ==
    Worked(Builders \cup {"Shell", "PMIxUnit", "Hostfile"}) =>
        /\ env.cwd = entry.cwd
        /\ \/ AsFound(paths.bin, save.outer.bin) /\ AsFound(paths.inc, save.outer.inc)
           \/ cur.plugin = "PMIxUnit" /\ ~save.mid /\ Middle # <<>>
           \/ cur.plugin = "Shell" /\ ~Passes /\ "Shell" \in excused

\* By hand, and not so: what was added to the paths is removed, and they are as
\* they were (Shell.py:400, DefaultTestBuild.py:158).
PathsAsBefore ==
    Worked({"Shell", "DefaultTestBuild"}) /\ "Shell" \notin excused => paths = save.outer

\* DefaultTestBuild puts PATH and LD_LIBRARY_PATH back whatever became of the
\* build, and wherever Autotools left them, if it names one middleware.
TestBuildRestores ==
    pc = "returned" /\ cur.plugin = "DefaultTestBuild" /\ Len(cur.middleware) <= 1
        => AsFound(paths.bin, save.outer.bin)

\* No variable of make_envars is left to the next section.
EnvarsGone ==
    ~struck /\ AtRest => \A v \in Envar : envars[v] # "section"

\* A section leaves the process as it was: directory, paths and variables.
ProcessRestored == Restores /\ TestBuildRestores /\ EnvarsGone

\* The tools are built with the middleware of the section before all others,
\* the last that it names first, however many paths earlier sections left.  To
\* Shell a list is the name of one section, which nobody has logged.
Located(ms) == Those(ms, {m \in Section : logs[m].loc # NoPlace})
Named == IF cur.plugin = "Shell" /\ Len(cur.middleware) > 1 THEN <<>> ELSE cur.middleware

OwnFirst ==
    pc \in {"configure", "all", "install", "run"} =>
        LET own == Backwards(Located(Named))
        IN  \A names \in {"bin", "inc"} :
               Len(paths[names]) >= Len(own) /\ SubSeq(paths[names], 1, Len(own)) = own

\* Nodes that were allocated are returned when the section is over, unless that
\* was refused, mtt was killed, or an exception left WWulf3.
NodesReturned ==
    AtRest => \A p \in Holders : held[p] > 0 => p \in excused \/ (p = "WWulf3" /\ struck)

\* A section that leaves harassers running has failed.
HarassedIfFailed ==
    pc = "returned" /\ left \in harassed => log.status # 0

\* What a section has started for its command ends with it: the allocation of
\* nodes, and the harassers.
ResourcesReturned == NodesReturned /\ HarassedIfFailed

\* Of a share of the nodes the hostfile gets as many as were asked for, if
\* there are as many, and a busy one only if it has all that are idle.
HostsChosen ==
    Worked({"Hostfile"}) /\ cur.den # 0 =>
        LET file == Elems(hosts[Source])
        IN  /\ Len(hosts[Source]) = IF Wanted < Len(cur.nodes) THEN Wanted ELSE Len(cur.nodes)
            /\ file \ status # {} => Elems(cur.nodes) \cap status \subseteq file

\* What a section that succeeds claims is so: its build and its hostfile.
SuccessTrue == BuiltAsLogged /\ HostsChosen

\* A section is run only if its parent succeeded, when it was run last.
ParentSucceeded ==
    ~AtRest /\ cur.parent # NoSection => latest[cur.parent] # "failed"

\* build_complete confirms that the build is complete: what is left as it is
\* for its sake is a whole build.
ConfirmedIsBuilt ==
    pc = "returned" /\ cur.plugin \in Builders /\ log.status = 0 /\ log.memo
        => built[Prefix] = "whole"

=============================================================================
