------------------------------- MODULE MCBuild -------------------------------
(* Sections that build, run and provision, on two packages fetched before:    *)
(* "pkg" is built, "inst" serves as middleware, "sys" has no location.        *)
EXTENDS Build

NoMods == [op \in Operations |-> None]
Loads(m) == [NoMods EXCEPT !["load"] = <<m>>]

Ask(p, s) ==
    [plugin |-> p, section |-> s, options |-> "good", mods |-> NoMods,
     parent |-> "pkg", middleware |-> <<>>, inplace |-> FALSE, subdir |-> FALSE,
     autogen |-> FALSE, deps |-> <<>>, envars |-> <<>>, asis |-> FALSE,
     target |-> FALSE, allocates |-> FALSE, testrun |-> FALSE, fails |-> FALSE,
     nodes |-> <<>>, num |-> 0, den |-> 0]

BuildRequests ==
    {[Ask("Autotools", "mw") EXCEPT !.middleware = <<"sys", "inst", "pkg">>, !.envars = <<"CC">>,
        !.subdir = TRUE, !.autogen = TRUE],
     [Ask("Autotools", "mw") EXCEPT !.inplace = TRUE, !.asis = TRUE, !.mods = Loads("gcc"),
        !.envars = <<"FC">>],
     [Ask("Autotools", "mw") EXCEPT !.envars = <<"CC", "CC">>],
     [Ask("Autotools", "mw") EXCEPT !.asis = TRUE],
     [Ask("Autotools", "mw") EXCEPT !.parent = NoSection],
     [Ask("DefaultTestBuild", "tb") EXCEPT !.middleware = <<"inst">>, !.deps = <<"mw">>],
     [Ask("DefaultTestBuild", "tb") EXCEPT !.middleware = <<"mw">>, !.parent = "sys"]}
ShellRequests ==
    {[Ask("Shell", "sh") EXCEPT !.middleware = <<"inst">>, !.allocates = TRUE],
     [Ask("Shell", "tr") EXCEPT !.middleware = <<"inst">>, !.allocates = TRUE,
        !.testrun = TRUE, !.fails = TRUE],
     [Ask("Shell", "tr") EXCEPT !.middleware = <<"inst", "mw">>, !.testrun = TRUE],
     [Ask("Shell", "sh") EXCEPT !.parent = NoSection, !.asis = TRUE],
     [Ask("Shell", "sh") EXCEPT !.asis = TRUE, !.target = TRUE],
     [Ask("Shell", "sh") EXCEPT !.options = "nocommand"]}
OtherRequests ==
    {[Ask("PMIxUnit", "ut") EXCEPT !.middleware = <<"inst">>, !.deps = <<"mw">>],
     [Ask("PMIxUnit", "ut") EXCEPT !.parent = "tb"],
     [Ask("WWulf3", "ww") EXCEPT !.parent = NoSection, !.allocates = TRUE],
     [Ask("WWulf3", "ww") EXCEPT !.parent = NoSection],
     [Ask("Hostfile", "hf") EXCEPT !.parent = NoSection, !.asis = TRUE,
        !.nodes = <<"n1", "n2", "n3">>, !.num = 2, !.den = 3],
     [Ask("Hostfile", "hf") EXCEPT !.parent = NoSection, !.nodes = <<"n1", "n2">>],
     [Ask("Hostfile", "hf") EXCEPT !.options = "nofile"]}
\* Stages in their order: provisioning, fetching, middleware, tests, their run.
MCStageOf == [s \in Section |->
    CASE s = "ww" -> 200 [] s \in {"pkg", "inst", "sys"} -> 300 [] s \in {"mw", "sh", "hf"} -> 400
      [] s = "tb" -> 475 [] s \in {"ut", "tr"} -> 500]
StaleRequests ==
    {Ask("Autotools", "mw"), [Ask("DefaultTestBuild", "tb") EXCEPT !.parent = "mw"]}
MCRequests == BuildRequests \cup ShellRequests \cup OtherRequests
=============================================================================
