------------------------------ MODULE Archives ------------------------------
(* FetchTarball.py, OMPI_Snapshot.py, FetchRPM.py, Pip.py and                *)
(* AlreadyInstalled.py.  An item is a tarball, a version, an rpm or a        *)
(* package, by its name.                                                     *)
EXTENDS Plugin

CONSTANTS
    Item,           \* names of what can be fetched
    Versions        \* sequence of items: the snapshots in their order, each of
                    \*   another name

ASSUME ArchivesAssumption ==
    /\ Versions \in Seq(Item) /\ Len(Versions) > 0
    /\ \A i, j \in DOMAIN Versions : Versions[i] = Versions[j] => i = j
    /\ \A r \in Requests :
          r.item \in Item /\ r.versionfile \in BOOLEAN /\ r.asis \in BOOLEAN

VARIABLES
    file,       \* the tarball in the scratch directory of a section
    pkg,        \* the directory it is unpacked to
    memo,       \* self.done of each plugin: Unset, or a status
    installed,  \* what the system has installed
    newest,     \* latest_snapshot.txt: an index of Versions
    version     \* the version file: an index of Versions, or 0

archiveVars == <<file, pkg, memo, installed, newest, version>>

Unset == -1
Memoizers == {"FetchTarball", "OMPI_Snapshot", "FetchRPM", "Pip"}

ArchiveInit ==
    /\ file = [s \in Section |-> [i \in Item |-> "none"]]
    /\ \E x \in {"none", "file"} : pkg = [s \in Section |-> [i \in Item |-> x]]
    /\ memo = [p \in Memoizers |-> [i \in Item |-> Unset]]
    /\ installed \in {{}, Item}
    /\ newest = 1
    /\ version = 0

ArchiveTypeOK ==
    /\ file \in [Section -> [Item -> {"none", "partial", "whole"}]]
    /\ pkg \in [Section -> [Item -> {"none", "file", "partial", "whole"}]]
    /\ memo \in [Memoizers -> [Item -> {Unset, 0, 1}]]
    /\ installed \subseteq Item
    /\ newest \in DOMAIN Versions /\ version \in {0} \cup DOMAIN Versions

Plug(place, p) == pc = place /\ cur.plugin = p
Sec == cur.section
Keep(v) == UNCHANGED v

\* The tarball's name: that of the url, or of the snapshot that is newest when
\* the section asks.
Name == IF cur.plugin = "OMPI_Snapshot" THEN Versions[newest] ELSE cur.item

Sets(f, x) == [f EXCEPT ![Sec][Name] = x]
Memorize(st) == memo' = [memo EXCEPT ![cur.plugin][Name] = st]

\* Without its first option (url, rpm, pkg) a plugin raises: the variable is
\* unbound, as the handler is that of a KeyError.
NothingAsked ==
    /\ pc = "start" /\ cur.plugin \in Memoizers
    /\ cur.options = "missing"
    /\ Raise
    /\ Keep(archiveVars)
-----------------------------------------------------------------------------
(* FetchTarball                                                             *)

\* A tarball that was processed before: `repo' is not defined, NameError.
TarballAgain ==
    /\ Plug("start", "FetchTarball") /\ cur.options = "good"
    /\ memo["FetchTarball"][Name] # Unset
    /\ Raise
    /\ Keep(archiveVars)

\* wget, cp or tar is not there, or the directory cannot be made; then into it.
TarballStart ==
    /\ Plug("start", "FetchTarball") /\ cur.options = "good"
    /\ memo["FetchTarball"][Name] = Unset
    /\ \/ Fail /\ Keep(env)
       \/ Chdir(Scratch(Sec)) /\ Go("have") /\ Keep(log)
    /\ Keep(archiveVars)

\* Not there; only there; a file is in the place of the package, and neither
\* rmtree nor chdir takes a file; unpacked, and to be left as it is; unpacked,
\* and to be done again.
TarballHave ==
    /\ Plug("have", "FetchTarball")
    /\ IF file[Sec][Name] = "none" THEN Go("download") /\ Keep(pkg)
       ELSE CASE pkg[Sec][Name] = "none" -> Go("untar") /\ Keep(pkg)
              [] pkg[Sec][Name] = "file" -> Go("raised") /\ Keep(pkg)
              [] OTHER -> IF cur.asis THEN Go("record") /\ Keep(pkg)
                          ELSE Go("untar") /\ pkg' = Sets(pkg, "none")
    /\ Keep(<<env, log, file, memo, installed, newest, version>>)
-----------------------------------------------------------------------------
(* OMPI_Snapshot                                                            *)

\* No answer from the server: sys.exit.
SnapshotUnreachable ==
    /\ Plug("start", "OMPI_Snapshot") /\ cur.options = "good"
    /\ Raise
    /\ Keep(archiveVars)

\* The version was tested, or the version file cannot be read; it was fetched
\* in this process; there is no curl, or no directory; then into it.
SnapshotStart ==
    /\ Plug("start", "OMPI_Snapshot") /\ cur.options = "good"
    /\ \/ cur.versionfile /\ version # 0 /\ Fail /\ Keep(env)
       \/ /\ ~cur.versionfile \/ version # newest
          /\ \/ /\ memo["OMPI_Snapshot"][Name] # Unset
                /\ log' = [status |-> 0, located |-> TRUE, memo |-> TRUE]
                /\ Return /\ Keep(env)
             \/ /\ memo["OMPI_Snapshot"][Name] = Unset
                /\ \/ Fail /\ Keep(env)
                   \/ Chdir(Scratch(Sec)) /\ Go("have") /\ Keep(log)
    /\ Keep(archiveVars)

\* A file is in the place of the package: done is a dictionary and has no
\* append, AttributeError.
SnapshotHave ==
    /\ Plug("have", "OMPI_Snapshot")
    /\ CASE pkg[Sec][Name] = "file" ->
              /\ log' = [log EXCEPT !.status = 1] /\ Go("raised")
              /\ Keep(<<env, pkg>>)
         [] pkg[Sec][Name] = "none" -> Go("download") /\ Keep(<<env, log, pkg>>)
         [] OTHER -> /\ IF cur.asis THEN Go("record") /\ Keep(pkg)
                        ELSE Go("download") /\ pkg' = Sets(pkg, "none")
                     /\ Keep(<<env, log>>)
    /\ Keep(<<file, memo, installed, newest, version>>)
-----------------------------------------------------------------------------
(* Both                                                                     *)

Unpackers == {"FetchTarball", "OMPI_Snapshot"}
Unpacking(place) == pc = place /\ cur.plugin \in Unpackers

\* Mutant: the version file is written before the archive is unpacked.
DownloadWrites ==
    /\ Unpacking("download")
    /\ version' = IF cur.plugin = "OMPI_Snapshot" THEN newest ELSE version
    /\ \/ file' = Sets(file, "whole") /\ Go("untar") /\ Keep(log)
       \/ Fail /\ \E f \in {"none", "partial"} : file' = Sets(file, f)
    /\ Keep(<<env, pkg, memo, installed, newest>>)

\* A failure leaves the scratch directory as the working directory.
Download ==
    /\ Unpacking("download")
    /\ \/ file' = Sets(file, "whole") /\ Go("untar") /\ Keep(log)
       \/ Fail /\ \E f \in {"none", "partial"} : file' = Sets(file, f)
    /\ Keep(<<env, pkg, memo, installed, newest, version>>)

Untar ==
    /\ Unpacking("untar")
    /\ \/ /\ file[Sec][Name] = "whole"
          /\ pkg' = Sets(pkg, "whole")
          /\ Go("record") /\ Keep(log)
       \/ Fail /\ \E p \in {"none", "partial", pkg[Sec][Name]} : pkg' = Sets(pkg, p)
    /\ Keep(<<env, file, memo, installed, newest, version>>)

\* The result is logged and remembered.
Recorded(st) ==
    /\ Memorize(0)
    /\ log' = [log EXCEPT !.status = st, !.located = TRUE]
    /\ Return
    /\ Keep(<<file, pkg, installed, newest>>)

\* A subdirectory that is not there leaves FetchTarball in the package.
TarballRecord ==
    /\ Plug("record", "FetchTarball")
    /\ \/ Recorded(0) /\ Chdir(entry.cwd)
       \/ cur.subdir /\ Recorded(1) /\ Chdir(Package(Sec))
    /\ Keep(version)

\* A version file that cannot be written does not stop it from coming home.
SnapshotRecord ==
    /\ Plug("record", "OMPI_Snapshot")
    /\ Chdir(entry.cwd)
    /\ \/ /\ Recorded(0)
          /\ version' = IF cur.versionfile THEN newest ELSE version
       \/ cur.versionfile /\ Recorded(1) /\ Keep(version)
-----------------------------------------------------------------------------
(* FetchRPM and Pip                                                         *)

Installing(place) == pc = place /\ cur.plugin \in {"FetchRPM", "Pip"}

\* Processed before; no executable, which Pip cannot put into words: a string
\* and a list are added, TypeError; installed already; to be installed.
InstallStart ==
    /\ Installing("start") /\ cur.options = "good"
    /\ \/ /\ memo[cur.plugin][Name] # Unset
          /\ log' = [log EXCEPT !.status = memo[cur.plugin][Name], !.memo = TRUE]
          /\ Return
       \/ /\ memo[cur.plugin][Name] = Unset
          /\ log' = [log EXCEPT !.status = 1]
          /\ Go(IF cur.plugin = "Pip" THEN "raised" ELSE "returned")
       \/ /\ memo[cur.plugin][Name] = Unset
          /\ IF Name \in installed
             THEN log' = [log EXCEPT !.status = 0] /\ Return
             ELSE Go("install") /\ Keep(log)
    /\ Keep(<<env, archiveVars>>)

\* What is remembered of a package that was installed is the status of the
\* query that pip makes after it.
Install ==
    /\ Installing("install")
    /\ \/ Fail /\ Keep(<<installed, memo>>)
       \/ /\ installed' = installed \cup {Name}
          /\ log' = [log EXCEPT !.status = 0]
          /\ \E st \in IF cur.plugin = "Pip" THEN {0, 1} ELSE {0} : Memorize(st)
          /\ Return
    /\ Keep(<<env, file, pkg, newest, version>>)
-----------------------------------------------------------------------------
(* AlreadyInstalled                                                         *)

\* With no executable to look for, no module is loaded either.
CheckStart ==
    /\ Plug("start", "AlreadyInstalled")
    /\ IF cur.options = "missing"
       THEN log' = [log EXCEPT !.status = 0] /\ Return /\ Keep(env)
       ELSE Apply(cur.mods, "find", "returned")
    /\ Keep(archiveVars)

CheckFind ==
    /\ Plug("find", "AlreadyInstalled")
    /\ \E o \in RevertModules(Sec, env.modules), found \in {0, 1} :
          /\ env' = [env EXCEPT !.modules = o[1]]
          /\ log' = [log EXCEPT !.status = IF o[2] = 0 THEN found ELSE 1]
    /\ Return
    /\ Keep(archiveVars)

\* A new snapshot appears before the section asks for it.
Publish ==
    /\ Plug("start", "OMPI_Snapshot") /\ newest < Len(Versions)
    /\ newest' = newest + 1
    /\ Keep(<<shared, file, pkg, memo, installed, version>>)

ArchiveNext ==
    \/ NothingAsked \/ TarballAgain \/ TarballStart \/ TarballHave
    \/ SnapshotUnreachable \/ SnapshotStart \/ SnapshotHave
    \/ Download \/ Untar \/ TarballRecord \/ SnapshotRecord
    \/ InstallStart \/ Install \/ CheckStart \/ CheckFind
=============================================================================
