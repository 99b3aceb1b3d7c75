------------------------------- MODULE Plugin -------------------------------
(* The part of the MTT process that all plugins of a run share: environment   *)
(* modules, the working directory, and the log of the section that runs.  A   *)
(* section is run by the executor (sequential.py), for the same section again *)
(* and with other options when it loops or is combinatorial.                  *)
EXTENDS ModuleCmd

CONSTANTS
    Requests,   \* what the INI file may ask for: records with at least
                \*   plugin, section, options ("good" or what is wrong), mods
    Preloaded,  \* the modules that the user has loaded
    MaxRuns     \* bound: how many sections are run in all

ASSUME PluginAssumption ==
    /\ MaxRuns \in Nat /\ Requests # {} /\ Preloaded \subseteq Module
    /\ \A r \in Requests : r.section \in Section /\ IsOptions(r.mods)

VARIABLES
    env,        \* environment modules and os.getcwd()
    pc,         \* where in execute() of the plugin
    cur,        \* the section's options
    log,        \* the section's log
    entry,      \* env when the section began
    left        \* sections that may still be run

shared == <<env, pc, cur, log, entry, left>>

\* Directories: where mtt was started, and what sections have below scratchdir.
Home == <<"home", "">>
Scratch(s) == <<"scratch", s>>
Package(s) == <<"package", s>>
Place == {Home} \cup ({"scratch", "package"} \X Section)

FreshEnv == [modules |-> [CleanModules EXCEPT !.loaded = Preloaded], cwd |-> Home]

\* The log that the plugin gets, once parseOptions has put a status into it.
FreshLog == [status |-> 0, located |-> FALSE, memo |-> FALSE]

SharedTypeOK ==
    /\ env \in [modules : ModuleEnv, cwd : Place] /\ IsEnv(env.modules)
    /\ entry \in [modules : ModuleEnv, cwd : Place]
    /\ cur \in Requests
    /\ log \in [status : {0, 1}, located : BOOLEAN, memo : BOOLEAN]
    /\ left \in 0 .. MaxRuns

SharedInit ==
    /\ env = FreshEnv
    /\ pc = "idle"
    /\ cur = CHOOSE r \in Requests : TRUE
    /\ log = FreshLog
    /\ entry = env
    /\ left = MaxRuns

\* Between sections, and before the first.
AtRest == pc \in {"idle", "returned", "raised"}

\* The executor hands a new log to the plugin.
Begin ==
    /\ AtRest /\ left > 0
    /\ left' = left - 1
    /\ cur' \in Requests
    /\ pc' = "start"
    /\ log' = FreshLog
    /\ entry' = env
    /\ UNCHANGED env

Go(place) == pc' = place /\ UNCHANGED <<cur, entry, left>>

Return == Go("returned")
Fail == log' = [log EXCEPT !.status = 1] /\ Return

\* An exception leaves execute(): nothing is put back.
Raise == Go("raised") /\ UNCHANGED <<env, log>>

Chdir(place) == env' = [env EXCEPT !.cwd = place]

\* applyModules as the plugins call it: they leave if it fails.
Apply(m, next, out) ==
    \E o \in ApplyModules(cur.section, m, env.modules) :
        /\ env' = [env EXCEPT !.modules = o[1]]
        /\ log' = [log EXCEPT !.status = o[2]]
        /\ Go(IF o[2] = 0 THEN next ELSE out)
=============================================================================
