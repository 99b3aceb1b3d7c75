------------------------------- MODULE MCFetch -------------------------------
(* Fetch sections: one that is asked for different things of one repository,  *)
(* one with a subdirectory, a tarball, a snapshot, a package, a check.        *)
EXTENDS Fetch

NoMods == [op \in Operations |-> None]
Loads(m) == [NoMods EXCEPT !["load"] = <<m>>]
Swaps(m, n) == [NoMods EXCEPT !["swap"] = <<m, n>>]

Ask(p, s) ==
    [plugin |-> p, section |-> s, options |-> "good", mods |-> NoMods,
     want |-> Default, subdir |-> FALSE, asis |-> FALSE, retry |-> 0,
     item |-> "x", versionfile |-> FALSE]
Repo(s, k, r, n) == [Ask("Git", s) EXCEPT !.want = [kind |-> k, ref |-> r, n |-> n]]

\* The name v4 is a part of v4x, and main of nothing else.
MCWithin == {<<b, b>> : b \in {"main", "v4", "v4x"}} \cup {<<"v4", "v4x">>}

GitRequests ==
    {Repo("g", "branch", "v4", 0), Repo("g", "branch", "v4x", 0),
     [Repo("g", "pr", "pr1", 0) EXCEPT !.retry = 1],
     [Repo("g", "default", "", 0) EXCEPT !.asis = TRUE],
     [Repo("g", "several", "", 0) EXCEPT !.options = "refused"]}
CommitRequests == {[Repo("c", "commit", "main", 0) EXCEPT !.retry = 1, !.mods = Loads("gcc")]}
SubdirRequests == {[Repo("h", "branch", b, 0) EXCEPT !.subdir = TRUE] : b \in {"v4", "v4x"}}
ArchiveRequests ==
    {Ask("FetchTarball", "t"), [Ask("FetchTarball", "t") EXCEPT !.asis = TRUE, !.subdir = TRUE],
     [Ask("OMPI_Snapshot", "o") EXCEPT !.versionfile = TRUE],
     Ask("Pip", "p"), Ask("FetchRPM", "p"),
     [Ask("AlreadyInstalled", "a") EXCEPT !.mods = Swaps("intel", "gcc")],
     [Ask("Git", "a") EXCEPT !.options = "missing"],
     [Ask("AlreadyInstalled", "a") EXCEPT !.options = "missing"]}
MCRequests == GitRequests \cup CommitRequests \cup SubdirRequests \cup ArchiveRequests
MemoRequests ==
    {Repo("g", "branch", "main", 0), [Repo("g", "branch", "v4x", 0) EXCEPT !.subdir = TRUE]}
MCVersions == <<"x", "y">>
=============================================================================
