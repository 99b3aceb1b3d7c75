------------------------------ MODULE Autotools ------------------------------
(* Autotools.py, and DefaultTestBuild.py, which calls it with paths of its    *)
(* own.  What a section asks for: parent, middleware, inplace, subdir,        *)
(* autogen, deps, make_envars, asis.                                          *)
EXTENDS Stage

ASSUME EnvarsAssumption == \A r \in Requests : r.envars \in Seq(Envar)

VARIABLE loaded     \* loadedenv: the envars set, in their order

autoVars == <<stageVars, loaded>>

AutoAt(place) == pc = place /\ cur.plugin \in Builders

\* Autotools returns; DefaultTestBuild has something to do after it.
Caller == IF cur.plugin = "DefaultTestBuild" THEN "unwind" ELSE "returned"

AutoFail == log' = [log EXCEPT !.status = 1] /\ Go(Caller)
-----------------------------------------------------------------------------
(* DefaultTestBuild                                                         *)

\* It adds the bin and lib directories of its middleware, and its modules; a
\* list of middleware is no section that has a log.
TestBuildStart ==
    /\ At("DefaultTestBuild", "start")
    /\ IF Len(cur.middleware) # 1 \/ ~logs[Head(cur.middleware)].known
       THEN UNCHANGED <<paths, mods, save>>
       ELSE LET m == Head(cur.middleware)
            IN  /\ paths' = Prepend({"bin"}, m)
                /\ mods' = [NoModules EXCEPT !["load"] = logs[m].mods["load"]]
                /\ save' = [save EXCEPT !.paths = paths']
    /\ Go("autotools")
    /\ UNCHANGED <<env, log, envars, onDisk, found, todo, loaded>>

\* Whatever became of the build, it puts back what it has added to.
TestBuildEnd ==
    /\ At("DefaultTestBuild", "unwind")
    /\ paths' = IF save.paths # save.outer
                THEN [paths EXCEPT !.bin = AsString(save.outer.bin)] ELSE paths
    /\ Return
    /\ UNCHANGED <<env, log, envars, onDisk, found, wanted, loaded>>
-----------------------------------------------------------------------------
(* Autotools                                                                *)

\* There has to be a parent, and a location in its log.
AutoStart ==
    /\ At("Autotools", "start") \/ At("DefaultTestBuild", "autotools")
    /\ IF cur.parent = NoSection \/ Source = NoPlace
       THEN AutoFail
       ELSE Go("middleware") /\ UNCHANGED log
    /\ UNCHANGED <<env, autoVars>>

\* Each of the middleware, then the modules.
AutoMiddleware ==
    /\ AutoAt("middleware")
    /\ \/ PointTo({"bin", "inc"}, "middleware")
       \/ ApplyWanted("prefix", Caller)
    /\ UNCHANGED loaded

\* The location is logged before anything is there.  What is complete is left
\* as it is, a dry run ends here, the package may have no such subdirectory.
AutoPrefix ==
    /\ AutoAt("prefix")
    /\ \/ /\ cur.asis /\ Prefix \in complete
          /\ log' = [log EXCEPT !.status = 0, !.located = TRUE, !.memo = TRUE]
          /\ Go(Caller) /\ UNCHANGED env
       \/ /\ ~(cur.asis /\ Prefix \in complete) /\ dry
          /\ log' = [log EXCEPT !.status = 0, !.located = TRUE]
          /\ Go(Caller) /\ UNCHANGED env
       \/ /\ ~(cur.asis /\ Prefix \in complete) /\ ~dry
          /\ \/ /\ cur.subdir
                /\ log' = [log EXCEPT !.status = 1, !.located = TRUE]
                /\ Go(Caller) /\ UNCHANGED env
             \/ /\ log' = [log EXCEPT !.located = TRUE]
                /\ Chdir(Source)
                /\ Go("autogen")
    /\ UNCHANGED autoVars

\* The variables that were set are deleted, whoever set them before; one that
\* was set twice cannot be deleted twice, KeyError.
Twice == \E i, j \in DOMAIN loaded : i # j /\ loaded[i] = loaded[j]
UnsetEnvars ==
    /\ envars' = [v \in Envar |-> IF v \in Elems(loaded) THEN "none" ELSE envars[v]]
    /\ loaded' = <<>>

\* Mutant: a step that fails leaves the variables.
StepFailsOnly ==
    /\ \E o \in RevertModules(Me, env.modules) : env' = [modules |-> o[1], cwd |-> entry.cwd]
    /\ log' = [log EXCEPT !.status = 1]
    /\ Go(Caller)
    /\ UNCHANGED <<paths, found, wanted, envars, loaded>>

\* A step failed: modules and directory are put back, the paths are not.
StepFails ==
    /\ \E o \in RevertModules(Me, env.modules) : env' = [modules |-> o[1], cwd |-> entry.cwd]
    /\ log' = [log EXCEPT !.status = 1]
    /\ UnsetEnvars
    /\ Go(IF Twice THEN "raising" ELSE Caller)
    /\ UNCHANGED <<paths, found, wanted>>

StepDone(next) == Go(next) /\ UNCHANGED <<env, log, paths, envars, found, wanted, loaded>>

Autogen ==
    /\ AutoAt("autogen")
    /\ \/ StepDone("configure")
       \/ cur.autogen /\ StepFails
    /\ UNCHANGED onDisk

\* Without a script there is nothing to configure.  A dependency with no log,
\* or no location, ends the section where it is.
DepsFound == \A d \in Elems(cur.deps) : logs[d].known /\ logs[d].loc # NoPlace

Configure ==
    /\ AutoAt("configure")
    /\ \/ StepDone("envars")
       \/ DepsFound /\ StepFails
       \/ ~DepsFound /\ AutoFail /\ UNCHANGED <<env, paths, envars, found, wanted, loaded>>
    /\ UNCHANGED onDisk

\* make_envars, up to the first that is not an assignment.
SetEnvars ==
    /\ AutoAt("envars")
    /\ loaded' = cur.envars
    /\ envars' = [v \in Envar |-> IF v \in Elems(cur.envars) THEN "section" ELSE envars[v]]
    /\ Go("clean")
    /\ UNCHANGED <<env, log, paths, onDisk, found, wanted>>

MakeClean ==
    /\ AutoAt("clean")
    /\ \/ Leaves(Source, "none") /\ StepDone("all")
       \/ (\E x \in {"partial", built[Source]} : Leaves(Source, x)) /\ StepFails
    /\ UNCHANGED complete

\* Mutant: the status of make all is not looked at.
MakeAllIgnores ==
    /\ AutoAt("all")
    /\ \E x \in {"whole", "partial"} : Leaves(Source, x)
    /\ StepDone("install")
    /\ UNCHANGED complete

MakeAll ==
    /\ AutoAt("all")
    /\ \/ Leaves(Source, "whole") /\ StepDone("install")
       \/ Leaves(Source, "partial") /\ StepFails
    /\ UNCHANGED complete

\* make install, if there is a prefix.  Its status is that of the section.
MakeInstall ==
    /\ AutoAt("install")
    /\ \/ /\ IF cur.inplace THEN UNCHANGED built ELSE Leaves(Prefix, "whole")
          /\ log' = [log EXCEPT !.status = 0]
       \/ /\ ~cur.inplace
          /\ \E x \in {"partial", built[Prefix]} : Leaves(Prefix, x)
          /\ log' = [log EXCEPT !.status = 1]
    /\ Go("finish")
    /\ UNCHANGED <<env, complete, paths, envars, found, wanted, loaded>>

\* The modules are reverted; if that fails all else stays.  Otherwise the paths
\* are put back, build_complete is written wherever there is a directory for
\* it, also if make install failed, and the directory is changed back.
Finish ==
    /\ AutoAt("finish")
    /\ \E o \in RevertModules(Me, env.modules) :
          IF o[2] # 0
          THEN /\ env' = [env EXCEPT !.modules = o[1]]
               /\ log' = [log EXCEPT !.status = 1]
               /\ UNCHANGED <<paths, complete>>
          ELSE /\ env' = [modules |-> o[1], cwd |-> entry.cwd]
               /\ PathsBack
               /\ complete' = complete \cup
                    (IF cur.inplace \/ built[Prefix] # "none" THEN {Prefix} ELSE {})
               /\ UNCHANGED log
    /\ Go(IF Twice THEN "raising" ELSE Caller)
    /\ UnsetEnvars
    /\ UNCHANGED <<built, found, wanted>>

AutoNext ==
    \/ TestBuildStart \/ TestBuildEnd \/ AutoStart \/ AutoMiddleware \/ AutoPrefix
    \/ Autogen \/ Configure \/ SetEnvars \/ MakeClean \/ MakeAll \/ MakeInstall
    \/ Finish
=============================================================================
