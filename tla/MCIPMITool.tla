----------------------------- MODULE MCIPMITool -----------------------------
(* Power cycles, dry runs, and calls that are refused.                     *)
EXTENDS IPMITool

Cycle(n, t) == [nodes |-> n, numthreads |-> t, dryrun |-> FALSE, options |-> "good"]
Dry(n, t) == [Cycle(n, t) EXCEPT !.dryrun = TRUE]
Refused == [Cycle(1, 1) EXCEPT !.options = "refused"]
NoFile == [Cycle(1, 1) EXCEPT !.options = "nofile"]

MCCalls == <<Cycle(3, 2), Refused, Dry(3, 2), Dry(2, 3), NoFile>>
MCCycle == <<Cycle(3, 2)>>
MCNoFileFirst == <<NoFile, Dry(3, 2)>>
=============================================================================
