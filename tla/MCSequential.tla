---------------------------- MODULE MCSequential ----------------------------
(* Small INI files for the model checker.                                  *)
EXTENDS Sequential

Stages == <<"TestGet", "TestRun", "Reporter">>

Sect(stg, par, outs) ==
    [stage |-> stg, titled |-> "plain", active |-> TRUE, parent |-> par,
     raises |-> {}, plugin |-> TRUE, runif |-> {"run"}, outcomes |-> outs,
     savelog |-> {"saved"}]

\* Every section takes the semaphore back: no run_if, a savelog method, no
\* exception.
CleanIni ==
    << Sect("TestGet", NoSec, {"ok", "fail"}),
       Sect("TestRun", 1, {"ok", "fail"}),
       Sect("Reporter", NoSec, {"ok"}),
       Sect("Reporter", NoSec, {"ok", "fail"}) >>

\* What an INI file of every day has: a run_if, plugins without savelog, ones
\* that raise or forget their status, options that do not interpolate, sections
\* whose plugin or parent is not found, a SKIP.
MixedIni ==
    << [Sect("TestGet", NoSec, {"ok", "fail", "raise"}) EXCEPT
            !.runif = {"run", "skip"}, !.savelog = {"raises"},
            !.raises = {"unbound"}],
       [Sect("TestRun", 1, {"ok", "nostatus"}) EXCEPT
            !.raises = {"unbound", "bound"}],
       [Sect("TestRun", 9, {"ok"}) EXCEPT !.titled = "SKIP"],
       [Sect("TestRun", 2, {"ok"}) EXCEPT !.plugin = FALSE],
       [Sect("Reporter", 2, {"ok", "raise"}) EXCEPT !.raises = {"bound"}],
       [Sect("Reporter", NoSec, {"ok"}) EXCEPT !.raises = {"unbound"}],
       Sect("Reporter", NoSec, {"ok"}) >>

\* A section that ends the processing of the file.
StopIni ==
    << Sect("TestGet", NoSec, {"ok", "fail", "nostatus"}),
       [Sect("TestRun", NoSec, {"ok"}) EXCEPT !.titled = "STOP"],
       Sect("TestRun", 1, {"ok"}),
       Sect("Reporter", NoSec, {"ok"}) >>

\* Plugins without savelog, as Shell, Git and all reporters.
NoSaveIni ==
    << [Sect("TestGet", NoSec, {"ok", "fail"}) EXCEPT !.savelog = {"raises"}],
       [Sect("TestRun", 1, {"ok"}) EXCEPT !.savelog = {"raises"}],
       [Sect("Reporter", NoSec, {"ok"}) EXCEPT !.savelog = {"raises"}] >>

=============================================================================
