----------------------------- MODULE ExecuteCmd -----------------------------
(***************************************************************************)
(* Running one command (pylib/Utilities/ExecuteCmd.py): the main thread    *)
(* reads the child's two pipes and then waits for the child, while a       *)
(* KillProcessThread waits on a condition variable for the timeout, to     *)
(* send SIGTERM and, a second later, SIGKILL.                              *)
(*                                                                         *)
(* Output is counted in lines.  A line leaves the pipe for the buffer of   *)
(* the Python file object, with everything behind it, when readline finds  *)
(* the buffer empty; select looks at the pipe only.                        *)
(***************************************************************************)
EXTENDS Integers

CONSTANTS
    Lines,       \* how many lines the child may write to each pipe
    Capacity,    \* how many lines a pipe holds
    Expires,     \* the timeout is finite (else 100000000 seconds: never)
    MayClose,    \* the child may close a pipe and go on
    Heirs,       \* a descendant may keep the pipes open after the child's end
    Others,      \* somebody else may kill the child: a user, a resource manager
    CmdTime,     \* the options of the command ask for its time
    Exceptions   \* KeyboardInterrupt, or a line that is not UTF-8, may occur

ASSUME CmdAssumption ==
    /\ Lines \in Nat /\ Capacity \in Nat \ {0}
    /\ Expires \in BOOLEAN /\ MayClose \in BOOLEAN
    /\ Heirs \in BOOLEAN /\ Others \in BOOLEAN
    /\ CmdTime \in BOOLEAN /\ Exceptions \in BOOLEAN

Pipes == {"out", "err"}

\* What the child ends with, but for the two signals: 1 stands for every other
\* exit status, and for the death by any other signal.
ExitCodes == {0, 1}
SIGTERM == -15
SIGKILL == -9
Deadly == {SIGTERM, SIGKILL}
NoCode == 99

VARIABLES
    main,        \* where the calling thread is in execute()
    raising,     \* an exception is on its way out of the with block
    struck,      \* history: an exception has struck execute()
    child, code, \* the child process and its return code
    term,        \* history: the thread's SIGTERM has reached the child while it ran
    foreign,     \* history: somebody else's signal has killed the child
    left,        \* lines the child may still write
    pipe, buf,   \* lines in each pipe and in the file object's buffer
    open,        \* somebody holds the writing end
    thread,      \* the KillProcessThread
    lock,        \* the owner of its condition's lock
    cancelled,
    timedout     \* results['timedout']

io == <<left, pipe, buf, open>>
proc == <<child, code, term, foreign>>
timeout == <<thread, lock, cancelled>>
vars == <<main, raising, struck, proc, io, timeout, timedout>>

Init ==
    /\ main = "popen" /\ raising = FALSE /\ struck = FALSE
    /\ child = "none" /\ code = NoCode /\ term = FALSE /\ foreign = FALSE
    /\ left = [f \in Pipes |-> Lines]
    /\ pipe = [f \in Pipes |-> 0] /\ buf = [f \in Pipes |-> 0]
    /\ open = [f \in Pipes |-> FALSE]
    /\ thread = "none" /\ lock = "free" /\ cancelled = FALSE
    /\ timedout = FALSE
-----------------------------------------------------------------------------
(* execute()                                                               *)

\* Popen, and processTimeout starts the thread.
Popen ==
    /\ main = "popen"
    /\ child' = "alive" /\ open' = [f \in Pipes |-> TRUE]
    /\ thread' = "begin"
    /\ main' = "select"
    /\ UNCHANGED <<raising, struck, code, term, foreign, left, pipe, buf, lock,
                   cancelled, timedout>>

\* The command does not exist: OSError, status 1, and nothing was started.
PopenFails ==
    /\ main = "popen"
    /\ main' = "done"
    /\ UNCHANGED <<raising, struck, proc, io, timeout, timedout>>

Ready == {f \in Pipes : pipe[f] > 0 \/ ~open[f]}

Readable == {f \in Ready : buf[f] + pipe[f] > 0}

\* Mutant: the loop ends with the first pipe that gives no line.
ReadOrStop ==
    /\ main = "select" /\ Ready # {}
    /\ pipe' = [f \in Pipes |-> IF f \in Readable /\ buf[f] = 0 THEN 0 ELSE pipe[f]]
    /\ buf' = [f \in Pipes |->
                 IF f \in Readable
                 THEN (IF buf[f] = 0 THEN pipe[f] ELSE buf[f]) - 1
                 ELSE buf[f]]
    /\ main' = IF Ready \subseteq Readable THEN "select" ELSE "cancel"
    /\ UNCHANGED <<raising, struck, proc, left, open, timeout, timedout>>

\* One turn of the loop: select blocks until a pipe has data or is at its
\* end, then one line is read of each such pipe.  The loop ends when no line
\* was read.
Read ==
    /\ main = "select" /\ Ready # {}
    /\ pipe' = [f \in Pipes |-> IF f \in Readable /\ buf[f] = 0 THEN 0 ELSE pipe[f]]
    /\ buf' = [f \in Pipes |->
                 IF f \in Readable
                 THEN (IF buf[f] = 0 THEN pipe[f] ELSE buf[f]) - 1
                 ELSE buf[f]]
    /\ main' = IF Readable = {} THEN "cancel" ELSE "select"
    /\ UNCHANGED <<raising, struck, proc, left, open, timeout, timedout>>

\* Mutant: cancel() does not join the thread.
CancelNoJoin ==
    /\ main = "cancel" /\ lock = "free"
    /\ cancelled' = TRUE
    /\ thread' = IF thread = "waiting" THEN "woken" ELSE thread
    /\ main' = "wait"
    /\ UNCHANGED <<raising, struck, proc, io, lock, timedout>>

\* cancel(), up to the join.  The notify only wakes a thread that waits.
Cancel ==
    /\ main = "cancel" /\ lock = "free"
    /\ cancelled' = TRUE
    /\ thread' = IF thread = "waiting" THEN "woken" ELSE thread
    /\ main' = "join"
    /\ UNCHANGED <<raising, struck, proc, io, lock, timedout>>

Join ==
    /\ main = "join" /\ thread = "over"
    /\ main' = IF raising THEN "raised" ELSE "wait"
    /\ UNCHANGED <<raising, struck, proc, io, timeout, timedout>>

\* Mutant: only a SIGTERM is a timeout.
WaitTermOnly ==
    /\ main = "wait" /\ child = "zombie"
    /\ child' = "reaped"
    /\ timedout' = (code = SIGTERM)
    /\ main' = "jobids"
    /\ UNCHANGED <<raising, struck, code, term, foreign, io, timeout>>

\* p.wait(), and the return code tells whether the command was timed out.
Wait ==
    /\ main = "wait" /\ child = "zombie"
    /\ child' = "reaped"
    /\ timedout' = (code \in Deadly)
    /\ main' = "jobids"
    /\ UNCHANGED <<raising, struck, code, term, foreign, io, timeout>>

\* check_for_slurm_jobids, then the results are returned.  If the time is asked
\* for, the message about a timeout names a local that is bound further down:
\* UnboundLocalError, and no results.
JobIds ==
    /\ main = "jobids"
    /\ IF CmdTime /\ timedout
       THEN main' = "raised" /\ struck' = TRUE
       ELSE main' = "done" /\ UNCHANGED struck
    /\ UNCHANGED <<raising, proc, io, timeout, timedout>>

\* An exception in the with block runs cancel() on its way out.
RaiseInLoop ==
    /\ Exceptions /\ ~struck /\ main = "select"
    /\ struck' = TRUE /\ raising' = TRUE
    /\ main' = "cancel"
    /\ UNCHANGED <<proc, io, timeout, timedout>>

\* KeyboardInterrupt inside cancel() or p.wait(): neither is resumed.
InterruptOutside ==
    /\ Exceptions /\ ~struck /\ main \in {"cancel", "join", "wait"}
    /\ struck' = TRUE
    /\ main' = "raised"
    /\ UNCHANGED <<raising, proc, io, timeout, timedout>>

\* check_for_slurm_jobids passes over every exception.
InterruptSwallowed ==
    /\ Exceptions /\ ~struck /\ main = "jobids"
    /\ struck' = TRUE
    /\ UNCHANGED <<main, raising, proc, io, timeout, timedout>>

\* A child that execute() did not wait for is reaped by the next Popen.
Cleanup ==
    /\ main = "raised" /\ child = "zombie"
    /\ child' = "reaped"
    /\ UNCHANGED <<main, raising, struck, code, term, foreign, io, timeout, timedout>>
-----------------------------------------------------------------------------
(* KillProcessThread                                                       *)

\* Taking the lock and waiting, which gives it up again.
Enter ==
    /\ thread = "begin" /\ lock = "free"
    /\ thread' = "waiting"
    /\ UNCHANGED <<main, raising, struck, proc, io, lock, cancelled, timedout>>

Expire ==
    /\ Expires /\ thread = "waiting"
    /\ thread' = "woken"
    /\ UNCHANGED <<main, raising, struck, proc, io, lock, cancelled, timedout>>

Spared ==
    /\ thread = "woken" /\ lock = "free" /\ cancelled
    /\ thread' = "over"
    /\ UNCHANGED <<main, raising, struck, proc, io, lock, cancelled, timedout>>

\* Mutant: the lock is given up for the second of grace.
SendTermUnlocked ==
    /\ thread = "woken" /\ lock = "free" /\ ~cancelled
    /\ term' = (term \/ child = "alive")
    /\ thread' = "hammer"
    /\ UNCHANGED <<main, raising, struck, child, code, foreign, io, lock, cancelled,
                   timedout>>

\* The lock is held from here to the end of timed_out().
SendTerm ==
    /\ thread = "woken" /\ lock = "free" /\ ~cancelled
    /\ term' = (term \/ child = "alive")
    /\ lock' = "thread"
    /\ thread' = "hammer"
    /\ UNCHANGED <<main, raising, struck, child, code, foreign, io, cancelled, timedout>>

\* Mutant: a polite timeout, without the SIGKILL.
SendNothing ==
    /\ thread = "hammer"
    /\ lock' = "free"
    /\ thread' = "over"
    /\ UNCHANGED <<main, raising, struck, proc, io, cancelled, timedout>>

SendKill ==
    /\ thread = "hammer"
    /\ IF child = "alive"
       THEN child' = "dying" /\ code' = SIGKILL
       ELSE UNCHANGED <<child, code>>
    /\ lock' = "free"
    /\ thread' = "over"
    /\ UNCHANGED <<main, raising, struck, term, foreign, io, cancelled, timedout>>
-----------------------------------------------------------------------------
(* The child, as far as execute() can tell                                 *)

Write(f) ==
    /\ child = "alive" /\ open[f] /\ left[f] > 0 /\ pipe[f] < Capacity
    /\ left' = [left EXCEPT ![f] = @ - 1]
    /\ pipe' = [pipe EXCEPT ![f] = @ + 1]
    /\ UNCHANGED <<main, raising, struck, proc, buf, open, timeout, timedout>>

CloseEarly(f) ==
    /\ MayClose /\ child = "alive" /\ open[f]
    /\ open' = [open EXCEPT ![f] = FALSE]
    /\ UNCHANGED <<main, raising, struck, proc, left, pipe, buf, timeout, timedout>>

Exit(c) ==
    /\ child = "alive"
    /\ child' = "dying" /\ code' = c
    /\ UNCHANGED <<main, raising, struck, term, foreign, io, timeout, timedout>>

DieOfTerm ==
    /\ child = "alive" /\ term
    /\ child' = "dying" /\ code' = SIGTERM
    /\ UNCHANGED <<main, raising, struck, term, foreign, io, timeout, timedout>>

\* A SIGTERM or SIGKILL that is not the thread's.
DieOfOthers(c) ==
    /\ Others /\ child = "alive"
    /\ child' = "dying" /\ code' = c /\ foreign' = TRUE
    /\ UNCHANGED <<main, raising, struck, term, io, timeout, timedout>>

\* The kernel closes the descriptors of a dying process in their order, one
\* by one, before its parent can wait for it.
CloseAtExit(f) ==
    /\ child = "dying" /\ open[f] /\ (f = "err" => ~open["out"])
    /\ open' = [open EXCEPT ![f] = FALSE]
    /\ UNCHANGED <<main, raising, struck, proc, left, pipe, buf, timeout, timedout>>

\* With heirs, the pipes may stay open.
Zombie ==
    /\ child = "dying" /\ (Heirs \/ \A f \in Pipes : ~open[f])
    /\ child' = "zombie"
    /\ UNCHANGED <<main, raising, struck, code, term, foreign, io, timeout, timedout>>
-----------------------------------------------------------------------------
Call == Popen \/ PopenFails \/ Read \/ Cancel \/ Join \/ Wait \/ JobIds
Disturb == RaiseInLoop \/ InterruptOutside \/ InterruptSwallowed \/ Cleanup
Killer == Enter \/ Expire \/ Spared \/ SendTerm \/ SendKill
Burial == Zombie \/ \E f \in Pipes : CloseAtExit(f)
Child ==
    \/ \E f \in Pipes : Write(f) \/ CloseEarly(f)
    \/ \E c \in ExitCodes : Exit(c)
    \/ \E c \in Deadly : DieOfOthers(c)
    \/ DieOfTerm \/ Burial

Next == Call \/ Disturb \/ Killer \/ Child

Spec == Init /\ [][Next]_vars

\* Both threads run, time passes, and the kernel buries a dying process.  The
\* child itself promises nothing: it may never write, close or exit.
FairSpec == Spec /\ WF_vars(Call) /\ WF_vars(Killer) /\ WF_vars(Burial)
-----------------------------------------------------------------------------
(* Properties                                                              *)

TypeOK ==
    /\ main \in {"popen", "select", "cancel", "join", "wait", "jobids", "done", "raised"}
    /\ raising \in BOOLEAN /\ struck \in BOOLEAN
    /\ child \in {"none", "alive", "dying", "zombie", "reaped"}
    /\ code \in ExitCodes \cup Deadly \cup {NoCode}
    /\ term \in BOOLEAN /\ foreign \in BOOLEAN
    /\ left \in [Pipes -> 0 .. Lines]
    /\ pipe \in [Pipes -> 0 .. Capacity] /\ buf \in [Pipes -> 0 .. Capacity]
    /\ open \in [Pipes -> BOOLEAN]
    /\ thread \in {"none", "begin", "waiting", "woken", "hammer", "over"}
    /\ lock \in {"free", "thread"}
    /\ cancelled \in BOOLEAN /\ timedout \in BOOLEAN

\* No signal is sent to a process id that has been given back to the system:
\* the thread has ended before the child is reaped, unless an exception struck.
NoSignalAfterReap == child = "reaped" /\ ~struck => thread = "over"

\* A kill is done as a whole: whoever has the lock, cancel() above all, finds no
\* child that has been sent the thread's SIGTERM and runs on.
KillIsWhole == lock = "free" /\ term => child # "alive"

\* A command that a SIGTERM or SIGKILL has ended is never taken for one that
\* ended by itself; and one that is reported as timed out has met its own
\* timer, or somebody else's signal.
KilledIsTimedOut ==
    main = "done" /\ child = "reaped" =>
        /\ ~timedout => code \in ExitCodes
        /\ timedout => thread = "over" /\ (term \/ foreign)

\* Everything the command wrote to stdout is in the results.
StdoutComplete ==
    main \in {"wait", "jobids", "done"} => pipe["out"] = 0 /\ buf["out"] = 0

\* A command with a timeout comes back, even if the child never ends by itself.
Returns == <>(main \in {"done", "raised"})
-----------------------------------------------------------------------------
(* What the comments and the option texts of the repository say, and the     *)
(* code does not do.                                                         *)

\* ExecuteCmd.py: "loop until the pipes close".
LoopsUntilPipesClose ==
    main \in {"wait", "jobids", "done"} => \A f \in Pipes : ~open[f]

\* LauncherMTTTool.py: "the test timed out, so flag it as having exited that way".
TimedOutIsFlagged == main = "done" /\ term => timedout
FlaggedTimedOut == main = "done" /\ timedout => term
TimedOutComesBack == main = "raised" => Exceptions

\* ExecuteCmd.py: "cancel the timeout, if it hasn't already fired": the thread
\* ends, with no need of the timeout.
CancelEnds == cancelled ~> thread = "over"

\* pymtt.py --duration: "Add a maximum duration for test before interrupting":
\* an interrupt that strikes the command comes out of it.
InterruptComesOut == main = "done" => ~struck
=============================================================================
