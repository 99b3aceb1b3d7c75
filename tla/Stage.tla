-------------------------------- MODULE Stage --------------------------------
(* What the plugins share that build, run and provision: the logs of earlier  *)
(* sections, through which they find the software, and the paths of the       *)
(* process, which they point at the middleware and point back.                *)
EXTENDS Plugin

CONSTANTS
    Getter,     \* sections that have fetched software before
    Installed,  \* those of them whose software has no location: it was there
    Envar,      \* environment variables that make_envars may name
    UserEnvar,  \* those of them that the user has set
    UserPath,   \* those of the paths, "bin" and "inc", that the user has set
    StageOf,    \* the place of each section's stage in the order of the stages
    Always      \* the sections that every combination has

ASSUME StageAssumption ==
    /\ Installed \subseteq Getter /\ Getter \subseteq Section /\ UserEnvar \subseteq Envar
    /\ UserPath \subseteq {"bin", "inc"}
    /\ StageOf \in [Section -> Nat] /\ Always \subseteq Section

NoSection == "none"

ASSUME SectionsAssumption ==
    \A r \in Requests : r.parent \in Section \cup {NoSection} /\ r.middleware \in Seq(Section)

VARIABLES
    logs,       \* testDef.logger: the first log of each section, as getLog finds
                \*   no later one
    paths,      \* PATH or LD_LIBRARY_PATH (bin), CPATH or LIBRARY_PATH (inc):
                \*   middleware, then what the user had there; <<>> if it is not set
    envars,     \* whose each environment variable is
    built,      \* what make left at a place
    complete,   \* the places with a file build_complete
    dry,        \* --dryrun
    mods, todo, \* cmds: the modules wanted, the middleware still to point to
    save,       \* the paths as execute() found them, and midpath
    ran         \* the sections that had their turn in this combination

stageVars == <<logs, paths, envars, built, complete, dry, mods, todo, save>>
onDisk == <<built, complete>>
found == <<logs, dry>>
wanted == <<mods, todo, save>>

NoPlace == <<"none", "">>
NoModules == [op \in Operations |-> None]
UserOwn == "own"    \* what the user has in a path
Blank == ""         \* an empty element: the current directory
Entries == Section \cup {UserOwn, Blank}
Paths == [bin : Seq(Entries), inc : Seq(Entries)]
UserHas(b) == IF b \in UserPath THEN <<UserOwn>> ELSE <<>>
UserPaths == [bin |-> UserHas("bin"), inc |-> UserHas("inc")]

NoLog == [known |-> FALSE, status |-> 0, loc |-> NoPlace, mods |-> NoModules,
          middleware |-> <<>>]
Logs == [known : BOOLEAN, status : {0, 1}, loc : Place \cup {NoPlace},
         mods : ModuleOptions, middleware : Seq(Section)]

FirstLogs ==
    [s \in Section |->
        IF s \in Getter
        THEN [NoLog EXCEPT !.known = TRUE, !.loc = IF s \in Installed THEN NoPlace ELSE Package(s)]
        ELSE NoLog]
UserEnvars == [v \in Envar |-> IF v \in UserEnvar THEN "user" ELSE "none"]

StageInit ==
    /\ logs = FirstLogs
    /\ paths = UserPaths
    /\ envars = UserEnvars
    /\ built = [p \in Place |-> "none"]
    /\ complete = {}
    /\ dry \in BOOLEAN
    /\ mods = NoModules /\ todo = <<>>
    /\ save = [paths |-> UserPaths, outer |-> UserPaths, mid |-> FALSE]
    /\ ran = {}

Builders == {"Autotools", "DefaultTestBuild"}

Me == cur.section
Source == IF cur.parent = NoSection THEN Scratch(Me) ELSE logs[cur.parent].loc
Prefix == IF cur.plugin \in Builders /\ ~cur.inplace THEN Scratch(Me) ELSE Source
At(plugin, place) == cur.plugin = plugin /\ pc = place

\* logger.logResults of the section that ended.  A log keeps its location when
\* an exception follows; what Shell skips and PMIxUnit have no middleware in it.
Record(l, s, r) == IF l[s].known THEN l ELSE [l EXCEPT ![s] = r]

LogResults ==
    IF pc = "idle" THEN logs
    ELSE Record(logs, Me,
            [known |-> TRUE,
             status |-> IF pc = "raised" THEN 1 ELSE log.status,
             loc |-> IF log.located THEN Prefix ELSE NoPlace,
             mods |-> cur.mods,
             middleware |-> IF cur.plugin = "PMIxUnit" \/ (cur.plugin = "Shell" /\ log.memo)
                            THEN <<>> ELSE cur.middleware])

\* An exception leaves execute(), for the executor to handle.
Throw == Go("raising")

\* A section is run if it has no parent, or one whose log says success.
Good(l) == {NoSection} \cup {s \in Section : l[s].known /\ l[s].status = 0}

\* Whose turn it is: the sections of a combination are run in the order of their
\* stages, each once.  After an exception only those of the reporter are left,
\* which are not looked at here; then the next combination begins.
Turn(s) ==
    /\ \/ pc # "raised" /\ s \notin ran /\ ran' = ran \cup {s}
       \/ pc = "raised" /\ ran' = {s}
       \/ Always \subseteq ran /\ ran' = {s}
    /\ \A t \in ran' : StageOf[t] <= StageOf[s]
    /\ \A t \in Always : StageOf[t] < StageOf[s] => t \in ran'

StageBegin ==
    /\ Begin
    /\ Turn(cur'.section)
    /\ logs' = LogResults
    /\ cur'.parent \in Good(logs')
    /\ mods' = cur'.mods
    /\ todo' = cur'.middleware
    /\ save' = [paths |-> paths, outer |-> paths, mid |-> FALSE]
    /\ UNCHANGED <<paths, envars, onDisk, dry>>

\* Any other section is logged as failed.
StageSkip ==
    /\ AtRest
    /\ \E r \in Requests :
          /\ Turn(r.section)
          /\ r.parent \notin Good(LogResults)
          /\ logs' = Record(LogResults, r.section,
                        [NoLog EXCEPT !.known = TRUE, !.status = 1, !.mods = r.mods])
    /\ pc' = "idle"
    /\ UNCHANGED <<env, cur, log, entry, left, paths, envars, onDisk, dry, wanted>>

\* Mutant: the location after the paths that are there.
PrependLast(names, m) ==
    [b \in {"bin", "inc"} |->
        IF b \in names /\ logs[m].loc # NoPlace THEN paths[b] \o <<m>> ELSE paths[b]]

\* The location of a log before the paths that are named.
Prepend(names, m) ==
    [b \in {"bin", "inc"} |->
        IF b \in names /\ logs[m].loc # NoPlace THEN <<m>> \o paths[b] ELSE paths[b]]

\* One middleware: its log may be missing.  Whether it has a location or not,
\* checkForModules adds its modules; two swaps make it raise.
PointTo(names, next) ==
    /\ todo # <<>>
    /\ LET m == Head(todo)
       IN  IF ~logs[m].known
           THEN todo' = Tail(todo) /\ Go(next) /\ UNCHANGED <<log, paths, mods, save>>
           ELSE /\ paths' = Prepend(names, m)
                /\ save' = [save EXCEPT !.mid = @ \/ logs[m].loc # NoPlace]
                /\ IF SwapConflict(logs[m].mods, mods)
                   THEN Throw /\ UNCHANGED <<mods, todo>>
                   ELSE /\ mods' = CheckForModules(logs[m].mods, mods)
                        /\ todo' = Tail(todo)
                        /\ Go(next)
                /\ UNCHANGED log
    /\ UNCHANGED <<env, envars, onDisk, found>>

\* applyModules, with the modules of the middleware.
ApplyWanted(next, out) ==
    /\ todo = <<>>
    /\ Apply(mods, next, out)
    /\ UNCHANGED stageVars

Leaves(place, x) == built' = [built EXCEPT ![place] = x]

\* The paths as they were, if middleware was added.
PathsBack == paths' = IF save.mid THEN save.paths ELSE paths

\* Where the old path is kept as a string one that was not set is set to "".
AsString(path) == IF path = <<>> THEN <<Blank>> ELSE path

StageTypeOK ==
    /\ SharedTypeOK
    /\ logs \in [Section -> Logs]
    /\ paths \in Paths
    /\ envars \in [Envar -> {"none", "user", "section"}]
    /\ built \in [Place -> {"none", "partial", "whole"}]
    /\ complete \subseteq Place
    /\ dry \in BOOLEAN
    /\ mods \in ModuleOptions /\ todo \in Seq(Section)
    /\ save \in [paths : Paths, outer : Paths, mid : BOOLEAN]
    /\ ran \subseteq Section
=============================================================================
