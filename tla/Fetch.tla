-------------------------------- MODULE Fetch --------------------------------
(* The fetch sections of an mtt process, one after the other, of any plugin;  *)
(* what they leave to each other in the process and in the scratch directory, *)
(* and what a killed mtt leaves to the next.                                  *)
EXTENDS Git, Archives

VARIABLE struck     \* history: an interrupt or an OSError in a plugin of this
                    \*   process

vars == <<shared, gitVars, archiveVars, struck>>

Init == SharedInit /\ GitInit /\ ArchiveInit /\ struck = FALSE

Execute ==
    \/ GitNext /\ UNCHANGED archiveVars
    \/ ArchiveNext /\ UNCHANGED gitVars

\* The step that Git is in is cut short.
CutShort == (\E t \in Torn : Becomes(t)) /\ UNCHANGED <<tip, done, tries>>

\* An interrupt of the watchdog, or an OSError, between any two steps or in one
\* of Git's.
Strike ==
    /\ ~AtRest
    /\ Raise
    /\ struck' = TRUE
    /\ CutShort
    /\ UNCHANGED archiveVars

\* What an interrupt of the watchdog does to Git while it reads its memo: bare
\* excepts swallow it, and the work is done as if there were no memo.
StrikeMemo ==
    /\ At("lookup") /\ Want.kind # "several"
    /\ Go("prepare")
    /\ \/ UNCHANGED log
       \/ done[S].known /\ \E l \in {log.located, done[S].status = 0} :
             log' = [log EXCEPT !.status = done[S].status, !.located = l]
    /\ struck' = TRUE
    /\ UNCHANGED <<env, gitVars, archiveVars>>

\* mtt is killed, at any time, and started again: the disk stays as it is.
Killed ==
    /\ env' = FreshEnv /\ entry' = FreshEnv
    /\ pc' = "idle" /\ log' = FreshLog
    /\ done' = [s \in Section |-> NoMemo]
    /\ memo' = [p \in Memoizers |-> [i \in Item |-> Unset]]
    /\ struck' = FALSE
    /\ pc # "idle"
    /\ UNCHANGED <<cur, left, tip, tries, installed, newest, version>>

Restart ==
    /\ Killed
    /\ \/ (\E t \in Torn : Becomes(t)) /\ UNCHANGED <<file, pkg>>
       \/ /\ pc = "download"
          /\ file' = Sets(file, "partial")
          /\ UNCHANGED <<tree, pkg>>
       \/ /\ pc = "untar"
          /\ pkg' = Sets(pkg, "partial")
          /\ UNCHANGED <<tree, file>>

Outside ==
    \/ Begin /\ UNCHANGED <<gitVars, archiveVars>>
    \/ GitPush /\ UNCHANGED archiveVars
    \/ Publish /\ UNCHANGED gitVars

Next ==
    \/ (Execute \/ Outside) /\ UNCHANGED struck
    \/ Strike \/ StrikeMemo
    \/ Restart

Spec == Init /\ [][Next]_vars
-----------------------------------------------------------------------------
Places ==
    {"idle", "returned", "raised", "start", "lookup", "prepare", "try", "inspect",
     "pull", "wipe", "clone", "reclone", "checkout", "recheckout", "record",
     "have", "download", "untar", "install", "find"}

\* Every variable keeps its type, over sections, restarts and exceptions.
TypeOK ==
    /\ SharedTypeOK /\ GitTypeOK /\ ArchiveTypeOK
    /\ pc \in Places
    /\ struck \in BOOLEAN

\* A plugin that comes back has brought mtt back to the directory in which it
\* found it, but for the failures of the two that unpack archives.
ComesHome ==
    pc = "returned" /\ env.cwd # entry.cwd =>
        cur.plugin \in Unpackers /\ log.status # 0

\* The heads that pass for the branch b, as its name is a part of their line.
PassFor(b) == {h \in Heads \ {b} : <<b, h>> \in Within}

\* What was asked for is in the clone, as far as the code looks: a pull request
\* with all its files; the branch, or one that passes for it; the commit, or
\* what was pulled onto it.
Has(w, t) ==
    CASE w.kind = "branch" -> t.is = "clone" /\ (t.head = w.ref \/ t.head \in PassFor(w.ref))
      [] w.kind = "commit" -> /\ t.is = "clone" /\ t.ref = w.ref /\ t.at >= w.n
                              /\ t.head = "detached" => t.at = w.n
      [] w.kind = "pr" -> t.is = "clone" /\ t.head = w.ref /\ t.files
      [] OTHER -> t.is # "none"

Succeeded(p) == pc = "returned" /\ cur.plugin = p /\ log.status = 0

\* A Git section that succeeds by its own work leaves what was asked for (in
\* the sense of Has) at the location it logs, whatever was there before, however
\* many attempts it took, whatever failed in earlier sections.
Delivered == Succeeded("Git") /\ ~log.memo => Has(Want, Here)

\* Git records only the newest commit of a pull request, and of a branch unless
\* what is there is to be left as it is; then a commit is the one asked for.
Newest ==
    At("record") =>
        /\ \/ Want.kind = "pr"
           \/ Want.kind \in {"branch", "default"} /\ ~cur.asis
              => Here.at = tip[Here.head]
        /\ Want.kind = "commit" /\ cur.asis => Here.at = Want.n

\* A branch that is asked for is the branch that is delivered.
BranchExact ==
    Succeeded("Git") /\ ~log.memo /\ Want.kind = "branch" => Here.head = Want.ref

\* A Git section that asks for a branch and succeeds by its own work leaves a
\* clone with its files.
FilesThere ==
    Succeeded("Git") /\ ~log.memo /\ Want.kind = "branch" => Here.files

\* Git is at work on the repository of s.
Working(s) ==
    /\ cur.plugin = "Git" /\ cur.section = s
    /\ pc \in {"try", "inspect", "pull", "wipe", "clone", "reclone", "checkout",
               "recheckout", "record"}

\* A success that is remembered is still on the disk, unless a section that
\* looks for a subdirectory, or an exception, left another one behind.
MemoTrue ==
    ~struck => \A s \in Section :
        (/\ done[s].known /\ done[s].status = 0
         /\ ~Working(s)
         /\ \A r \in Requests : r.section = s => ~r.subdir)
        => Has(done[s].want, tree[s])

\* The same of every section: the memo answers for what is there.
MemoAnswers ==
    ~struck /\ Succeeded("Git") /\ log.memo /\ Want.kind # "default"
        => Has(Want, Here)

\* A commit that is asked for is the commit that is delivered.
CommitExact ==
    Succeeded("Git") /\ ~log.memo /\ Want.kind = "commit" => Here.at = Want.n

\* A failure that is remembered sticks: whatever is asked of that section
\* later, this process neither tries again nor touches its clone, unless an
\* interrupt has struck.
Stuck(s) == done[s].known /\ done[s].status # 0 /\ ~Working(s)

FailureSticks ==
    [][\A s \in Section : Stuck(s) =>
          \/ /\ done'[s] = done[s] /\ tree'[s] = tree[s]
             /\ cur'.section = s /\ pc' = "prepare" => struck'
          \/ done' = [r \in Section |-> NoMemo] /\ pc' = "idle"]_vars

\* Modules come back as they were after a section that succeeds in its first
\* attempt, if all that its section ever asks is one operation, which changes
\* what it names.
Changes(m, loaded) ==
    /\ m["load"] # None => Elems(m["load"]) \cap loaded = {}
    /\ m["unload"] # None => Elems(m["unload"]) \subseteq loaded
    /\ m["swap"] # None => m["swap"][1] \in loaded /\ m["swap"][2] \notin loaded
    /\ \E op \in Operations : \A other \in Operations \ {op} : m[other] = None

ModulesBack ==
    (/\ Succeeded("AlreadyInstalled") \/ (Succeeded("Git") /\ ~log.memo /\ tries = 1)
     /\ \A r \in Requests : r.section = cur.section => r.mods = cur.mods
     /\ Changes(cur.mods, entry.modules.loaded))
    => env.modules.loaded = entry.modules.loaded

\* A section leaves the process as it was: its directory and its modules.
PutBack == ComesHome /\ ModulesBack

\* An archive that is fetched is unpacked as a whole, unless what is there
\* was to be left as it is: then an interrupted tar is good enough.
WholeUnlessAsIs ==
    (\E p \in Unpackers : Succeeded(p)) /\ ~log.memo /\ ~cur.asis
        => pkg[Sec][Name] = "whole"

\* What a section fetches is what it was asked for, the newest of it, and an
\* archive as a whole.
Fetched == Delivered /\ Newest /\ WholeUnlessAsIs

\* All sections that fetch snapshots have the version file, none is ASIS, and
\* none has the name of one that fetches tarballs.
OneVersionFile ==
    \A r \in Requests : r.plugin = "OMPI_Snapshot" =>
        /\ r.versionfile /\ ~r.asis
        /\ \A q \in Requests : q.section = r.section => q.plugin # "FetchTarball"

\* The version file then names a snapshot that was unpacked as a whole: one
\* that failed, or during which mtt was killed, is fetched again.
VersionFetched ==
    OneVersionFile /\ version # 0 =>
        \E s \in Section : pkg[s][Versions[version]] = "whole"

\* A package that is remembered as installed is installed.
InstalledIsTrue ==
    \A p \in {"FetchRPM", "Pip"}, i \in Item : memo[p][i] = 0 => i \in installed

\* What the plugins remember of earlier sections is so.
Remembered == MemoTrue /\ InstalledIsTrue

=============================================================================
