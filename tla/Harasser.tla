------------------------------ MODULE Harasser ------------------------------
(***************************************************************************)
(* The Harasser plugin (pylib/Tools/Harasser/Harasser.py): every pair of a *)
(* trigger and a stop script becomes a process in running_harassers, under *)
(* the value that execution_counter had at its start.  start, check and    *)
(* stop are called by the launchers (module Launcher), one call at a time. *)
(*                                                                         *)
(* A multiprocessing.Process waits for its trigger script and then exits   *)
(* with 0, whatever the script's own status: "ended".  It exits with       *)
(* another code, "crashed", when parallel_execute raises.                  *)
(***************************************************************************)
EXTENDS Integers, Sequences

CONSTANTS
    Pairs,         \* how many pairs the two script lists make
    StopStatuses,  \* what the stop scripts may return
    JoinTimeout    \* join_timeout is given

ASSUME HarasserAssumption ==
    Pairs \in Nat /\ StopStatuses \subseteq Nat /\ JoinTimeout \in BOOLEAN

States == {"alive", "ended", "crashed"}
Pending == -1        \* this stop script has not been run

VARIABLES
    running,    \* running_harassers: execution id -> state of the process
    counter,    \* execution_counter
    stopping,   \* process_info and return_info of the stop() under way
    stray       \* history: a process lives on that nobody will stop

harasser == <<running, counter, stopping, stray>>

HarasserInit ==
    /\ running = [id \in {} |-> "alive"] /\ counter = 0
    /\ stopping = <<>> /\ stray = FALSE
-----------------------------------------------------------------------------
\* The ids that start() hands out.
NewIds == [i \in 1 .. Pairs |-> counter + i - 1]
Keys(ids) == {ids[i] : i \in DOMAIN ids}

StartScripts ==
    /\ running' = [id \in DOMAIN running \cup Keys(NewIds) |->
                     IF id \in Keys(NewIds) THEN "alive" ELSE running[id]]
    /\ counter' = counter + Pairs
    /\ UNCHANGED <<stopping, stray>>

\* check() finds these dead.
Dead(ids) == {id \in Keys(ids) : running[id] = "crashed"}

\* stop() first takes its processes out of the table.
BeginStop(ids) ==
    /\ stopping' = [i \in 1 .. Len(ids) |->
                      [state |-> running[ids[i]], status |-> Pending]]
    /\ running' = [id \in DOMAIN running \ Keys(ids) |-> running[id]]
    /\ UNCHANGED <<counter, stray>>

\* The stop scripts run one after the other.
StopScript(i, s) ==
    /\ stopping[i].status = Pending
    /\ \A j \in 1 .. i - 1 : stopping[j].status # Pending
    /\ stopping' = [stopping EXCEPT ![i].status = s]
    /\ UNCHANGED <<running, counter, stray>>

\* Mutant: stop() gives back more ids than it has stopped.
FinishOneTwice ==
    /\ stopping # <<>> /\ \A i \in DOMAIN stopping : stopping[i].status # Pending
    /\ Head(stopping).status = 0 /\ ~JoinTimeout => Head(stopping).state # "alive"
    /\ stray' = (stray \/ Head(stopping).state = "alive")
    /\ counter' = counter - 2
    /\ stopping' = Tail(stopping)
    /\ UNCHANGED running

\* When all of them have run, each process is joined (the script returned 0),
\* terminated (1), or left alone.  The join waits for the process unless it
\* has a timeout; terminate() kills the process and not its trigger script.
FinishOne ==
    /\ stopping # <<>> /\ \A i \in DOMAIN stopping : stopping[i].status # Pending
    /\ Head(stopping).status = 0 /\ ~JoinTimeout => Head(stopping).state # "alive"
    /\ stray' = (stray \/ Head(stopping).state = "alive")
    /\ counter' = counter - 1
    /\ stopping' = Tail(stopping)
    /\ UNCHANGED running

\* An exception leaves stop(): the processes are in no table any more, and
\* the counter is not what it was.
AbandonStop ==
    /\ stray' = (stray \/ \E i \in DOMAIN stopping : stopping[i].state = "alive")
    /\ stopping' = <<>>
    /\ UNCHANGED <<running, counter>>
-----------------------------------------------------------------------------
(* The processes                                                           *)

HarasserEnds(id, s) ==
    /\ running[id] = "alive"
    /\ running' = [running EXCEPT ![id] = s]
    /\ UNCHANGED <<counter, stopping, stray>>

StoppedEnds(i, s) ==
    /\ stopping[i].state = "alive"
    /\ stopping' = [stopping EXCEPT ![i].state = s]
    /\ UNCHANGED <<running, counter, stray>>
=============================================================================
