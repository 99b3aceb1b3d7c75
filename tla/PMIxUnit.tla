------------------------------ MODULE PMIxUnit ------------------------------
(* PMIxUnit.py: the tests of a section, run in the location of its parent     *)
(* with the middleware that the section names, or else its parent's log.      *)
EXTENDS Stage

\* The middleware to use: a list of several is no section that has a log.
Middle == IF cur.middleware # <<>> THEN cur.middleware ELSE logs[cur.parent].middleware
MiddleLost == Middle # <<>> /\ (Len(Middle) > 1 \/ ~logs[Middle[1]].known)

\* No parent, no location, no log of the middleware: it fails.  The parent's
\* modules are added, which raises for two swaps.  --dryrun is not looked at.
UnitStart ==
    /\ At("PMIxUnit", "start")
    /\ LET known == cur.parent # NoSection /\ Source # NoPlace
           conflict == known /\ SwapConflict(logs[cur.parent].mods, mods)
       IN  \/ /\ ~known \/ (~conflict /\ MiddleLost)
              /\ Fail /\ UNCHANGED mods
           \/ conflict /\ Throw /\ UNCHANGED <<log, mods>>
           \/ /\ known /\ ~conflict /\ ~MiddleLost
              /\ mods' = CheckForModules(logs[cur.parent].mods, mods)
              /\ Go("paths") /\ UNCHANGED log
    /\ UNCHANGED <<env, paths, envars, onDisk, found, todo, save>>

\* The middleware's directories.  Where it has no lib directory the exception
\* is swallowed, and the paths are not marked as changed.
UnitPaths ==
    /\ At("PMIxUnit", "paths")
    /\ IF Middle = <<>> \/ logs[Middle[1]].loc = NoPlace
       THEN UNCHANGED <<paths, save>>
       ELSE /\ paths' = Prepend({"bin"}, Middle[1])
            /\ save' \in {[save EXCEPT !.mid = marked] : marked \in BOOLEAN}
    /\ Go("needs")
    /\ UNCHANGED <<env, log, envars, onDisk, found, mods, todo>>

\* A dependency that has no log raises, and so do two swaps.  The modules of
\* middleware that the section names are added, and all are applied.
UnitNeeds ==
    /\ At("PMIxUnit", "needs")
    /\ LET named == cur.middleware # <<>>
       IN  IF \/ \E d \in Elems(cur.deps) : ~logs[d].known
              \/ named /\ SwapConflict(logs[Middle[1]].mods, mods)
           THEN Throw /\ UNCHANGED mods
           ELSE /\ mods' = IF named THEN CheckForModules(logs[Middle[1]].mods, mods) ELSE mods
                /\ Go("modules")
    /\ UNCHANGED <<env, log, paths, envars, onDisk, found, todo, save>>

UnitModules ==
    /\ At("PMIxUnit", "modules")
    /\ Apply(mods, "tests", "returned")
    /\ UNCHANGED stageVars

\* The tests run where the parent is.  What becomes of them is counted; the
\* status is 0 also if they fail, it is the one applyModules returned.
UnitTests ==
    /\ At("PMIxUnit", "tests")
    /\ Chdir(Source)
    /\ log' = [log EXCEPT !.status = 0]
    /\ Go("revert")
    /\ UNCHANGED stageVars

\* Unless that fails, paths and directory are put back.
UnitRevert ==
    /\ At("PMIxUnit", "revert")
    /\ \E o \in RevertModules(Me, env.modules) :
          /\ env' = [modules |-> o[1], cwd |-> IF o[2] # 0 THEN env.cwd ELSE entry.cwd]
          /\ log' = [log EXCEPT !.status = o[2]]
          /\ paths' = IF o[2] = 0 /\ save.mid
                      THEN [paths EXCEPT !.bin = AsString(save.paths.bin)] ELSE paths
    /\ Return
    /\ UNCHANGED <<envars, onDisk, found, wanted>>

UnitNext ==
    \/ UnitStart \/ UnitPaths \/ UnitNeeds \/ UnitModules \/ UnitTests \/ UnitRevert
=============================================================================
