------------------------------ MODULE IPMITool ------------------------------
(***************************************************************************)
(* The IPMITool plugin (pylib/Tools/CNC/IPMITool.py): execute() fills a    *)
(* bounded queue with one power command per node, starts worker threads,   *)
(* waits until the queue is empty and the threads have ended, and makes    *)
(* the section's status of what they recorded.  Every power command is     *)
(* meant to be followed by pings until its node is back.                   *)
(*                                                                         *)
(* One object serves all sections, so that its lock outlives a call.  A    *)
(* command is a step that returns some exit code (module ExecuteCmd has    *)
(* its inner life), or that raises.                                        *)
(***************************************************************************)
EXTENDS Integers, Sequences

CONSTANTS
    Calls,      \* the calls of execute(), in order, see CallType
    Codes       \* what a command may return

CallType == [nodes: Nat \ {0}, numthreads: Nat \ {0}, dryrun: BOOLEAN,
             options: {"good", "refused", "nofile"}]

ASSUME IPMIToolAssumption ==
    /\ Len(Calls) \in Nat /\ Calls \in [1 .. Len(Calls) -> CallType]
    /\ Codes \subseteq Int

VARIABLES
    pc, call,           \* execute(): where it is, and which call of it
    filled, started,    \* how many commands are queued, and threads started
    lock,               \* who holds self.lock
    queue,              \* ipmiQueue
    recorded,           \* self.status
    log,                \* log['status'] of each call
    worker, task, code  \* the threads, their tasks and the exit codes

main == <<pc, call, filled, started, log>>
threads == <<worker, task, code>>
vars == <<main, lock, queue, recorded, threads>>

Nobody == 0
Main == -1
Unset == -2         \* the call has not returned
BadInput == 2       \* recorded for a command that raised

Job == Calls[call]
Nodes == 1 .. Job.nodes
Rng == IF Job.nodes < Job.numthreads THEN Job.nodes ELSE Job.numthreads
Threads == UNION {1 .. Calls[i].numthreads : i \in DOMAIN Calls}

Task(k, n) == [kind |-> k, node |-> n]
Power(n) == Task("power", n)
Ping(n) == Task("ping", n)
Entry(c, t) == [code |-> c, task |-> t]

Init ==
    /\ pc = "enter" /\ call = 1 /\ filled = 0 /\ started = 0
    /\ lock = Nobody /\ queue = <<>> /\ recorded = <<>>
    /\ log = [i \in DOMAIN Calls |-> Unset]
    /\ worker = [w \in Threads |-> "ended"]
    /\ task = [w \in Threads |-> Power(1)] /\ code = [w \in Threads |-> 0]
-----------------------------------------------------------------------------
(* execute()                                                               *)

\* Mutant: one place less than there are commands.
CapacityTooSmall == Job.nodes - 1

\* "if it is a command that will result in cycling the node, then we need to
\* double it"; without targets execute() does not get here.
Capacity == 2 * Job.nodes

Enter ==
    /\ pc = "enter" /\ call <= Len(Calls) /\ Job.options # "refused"
    /\ lock = Nobody /\ lock' = Main
    /\ queue' = <<>> /\ filled' = 0 /\ started' = 0
    /\ pc' = "fill"
    /\ UNCHANGED <<call, log, recorded, threads>>

\* An option is missing or wrong, or the modules do not load.
Refuse ==
    /\ pc = "enter" /\ call <= Len(Calls) /\ Job.options = "refused"
    /\ log' = [log EXCEPT ![call] = 1]
    /\ call' = call + 1
    /\ UNCHANGED <<pc, filled, started, lock, queue, recorded, threads>>

\* The password file does not exist: back, with the lock.
NoPasswordFile ==
    /\ pc = "fill" /\ Job.options = "nofile"
    /\ log' = [log EXCEPT ![call] = 1]
    /\ pc' = "enter" /\ call' = call + 1
    /\ UNCHANGED <<filled, started, lock, queue, recorded, threads>>

\* put() waits while the queue is full.
PutCommand ==
    /\ pc = "fill" /\ Job.options = "good" /\ filled < Job.nodes
    /\ Len(queue) < Capacity
    /\ queue' = Append(queue, Power(filled + 1))
    /\ filled' = filled + 1
    /\ UNCHANGED <<pc, call, started, log, lock, recorded, threads>>

Filled ==
    /\ pc = "fill" /\ filled = Job.nodes
    /\ recorded' = <<>>
    /\ lock' = Nobody
    /\ pc' = "spawn"
    /\ UNCHANGED <<call, filled, started, log, queue, threads>>

\* Those that run already go to work.
Spawn ==
    /\ pc = "spawn"
    /\ started' = started + 1
    /\ worker' = [worker EXCEPT ![started'] = "idle"]
    /\ pc' = IF started' = Rng THEN "spin" ELSE "spawn"
    /\ UNCHANGED <<call, filled, log, lock, queue, recorded, task, code>>

\* Mutant: the threads are not joined.
SpinOnly ==
    /\ pc = "spin" /\ queue = <<>>
    /\ pc' = "collect"
    /\ UNCHANGED <<call, filled, started, log, lock, queue, recorded, threads>>

\* while not ipmiQueue.empty(): pass
Spin ==
    /\ pc = "spin" /\ queue = <<>>
    /\ pc' = "join"
    /\ UNCHANGED <<call, filled, started, log, lock, queue, recorded, threads>>

Join ==
    /\ pc = "join" /\ \A w \in 1 .. Rng : worker[w] = "ended"
    /\ pc' = "collect"
    /\ UNCHANGED <<call, filled, started, log, lock, queue, recorded, threads>>

Failures == {i \in DOMAIN recorded : recorded[i].code # 0}

\* Each failure overwrites the status of the one before.
Collect ==
    /\ pc = "collect" /\ pc' = "revert"
    /\ \/ Failures = {} /\ log' = [log EXCEPT ![call] = 0]
       \/ \E i \in Failures :
              /\ \A j \in Failures : j <= i
              /\ log' = [log EXCEPT ![call] = recorded[i].code]
    /\ UNCHANGED <<call, filled, started, lock, queue, recorded, threads>>

\* If the modules do not unload, that is the status.
Revert ==
    /\ pc = "revert" /\ pc' = "enter"
    /\ \/ log' = log
       \/ log' = [log EXCEPT ![call] = 1]
    /\ call' = call + 1
    /\ UNCHANGED <<filled, started, lock, queue, recorded, threads>>
-----------------------------------------------------------------------------
(* A worker thread                                                         *)

Becomes(w, s) == worker' = [worker EXCEPT ![w] = s]

\* Under the lock, so that what was not empty stays so until the get().
GetTask(w) ==
    /\ worker[w] = "idle" /\ lock = Nobody /\ queue # <<>>
    /\ task' = [task EXCEPT ![w] = Head(queue)]
    /\ queue' = Tail(queue)
    /\ Becomes(w, "dispatch")
    /\ UNCHANGED <<main, lock, recorded, code>>

\* "If the queue is empty, then we are done"
Leave(w) ==
    /\ worker[w] = "idle" /\ lock = Nobody /\ queue = <<>>
    /\ Becomes(w, "ended")
    /\ UNCHANGED <<main, lock, queue, recorded, task, code>>

\* A dry run of a ping is recorded; that of a command has a ping to queue,
\* still under the lock.
DryRunPing(w) ==
    /\ worker[w] = "dispatch" /\ Job.dryrun /\ task[w].kind = "ping"
    /\ lock = Nobody
    /\ recorded' = Append(recorded, Entry(0, task[w]))
    /\ Becomes(w, "idle")
    /\ UNCHANGED <<main, lock, queue, task, code>>

\* Mutant: the ping is queued before the command is recorded.
DryRunCommandLate(w) ==
    /\ worker[w] = "dispatch" /\ Job.dryrun /\ task[w].kind = "power"
    /\ lock = Nobody
    /\ queue' = Append(queue, Ping(task[w].node))
    /\ code' = [code EXCEPT ![w] = 0]
    /\ Becomes(w, "done")
    /\ UNCHANGED <<main, lock, recorded, task>>

DryRunCommand(w) ==
    /\ worker[w] = "dispatch" /\ Job.dryrun /\ task[w].kind = "power"
    /\ lock = Nobody /\ lock' = w
    /\ recorded' = Append(recorded, Entry(0, task[w]))
    /\ Becomes(w, "put")
    /\ UNCHANGED <<main, queue, task, code>>

\* Mutant: the lock is not given back.
PutPingKeepsLock(w) ==
    /\ worker[w] = "put" /\ Len(queue) < Capacity
    /\ queue' = Append(queue, Ping(task[w].node))
    /\ Becomes(w, "idle")
    /\ UNCHANGED <<main, lock, recorded, task, code>>

PutPing(w) ==
    /\ worker[w] = "put" /\ Len(queue) < Capacity
    /\ queue' = Append(queue, Ping(task[w].node))
    /\ lock' = Nobody
    /\ Becomes(w, "idle")
    /\ UNCHANGED <<main, recorded, task, code>>

\* Any exception is "bad input", as when the output is not UTF-8.
Execute(w) ==
    /\ worker[w] = "dispatch" /\ ~Job.dryrun
    /\ \E c \in Codes \cup {BadInput} : code' = [code EXCEPT ![w] = c]
    /\ Becomes(w, "done")
    /\ UNCHANGED <<main, lock, queue, recorded, task>>

\* No ping is queued: ckcmd is bound in a dry run only, and "except: pass"
\* takes the error.
Record(w) ==
    /\ worker[w] = "done"
    /\ lock = Nobody
    /\ recorded' = Append(recorded, Entry(code[w], task[w]))
    /\ Becomes(w, "idle")
    /\ UNCHANGED <<main, lock, queue, task, code>>
-----------------------------------------------------------------------------
Caller ==
    \/ Refuse \/ Enter \/ NoPasswordFile \/ PutCommand \/ Filled \/ Spawn
    \/ Spin \/ Join \/ Collect \/ Revert

Work(w) ==
    \/ GetTask(w) \/ Leave(w) \/ DryRunPing(w) \/ DryRunCommand(w) \/ PutPing(w)
    \/ Execute(w) \/ Record(w)

Next == Caller \/ \E w \in Threads : Work(w)

Spec == Init /\ [][Next]_vars

\* Threads are scheduled; a command comes to an end.
FairSpec == Spec /\ WF_vars(Caller) /\ \A w \in Threads : WF_vars(Work(w))
-----------------------------------------------------------------------------
Tasks == {Task(k, n) : k \in {"power", "ping"},
                       n \in UNION {1 .. Calls[i].nodes : i \in DOMAIN Calls}}

\* Every variable has its type.
TypeOK ==
    /\ pc \in {"enter", "fill", "spawn", "spin", "join", "collect", "revert"}
    /\ call \in 1 .. Len(Calls) + 1
    /\ pc # "enter" => call <= Len(Calls) /\ filled \in 0 .. Job.nodes /\ started \in 0 .. Rng
    /\ lock \in {Nobody, Main} \cup Threads
    /\ queue \in Seq(Tasks)
    /\ recorded \in Seq([code: Codes \cup {0, BadInput}, task: Tasks])
    /\ log \in [DOMAIN Calls -> Codes \cup {Unset, 0, 1, BadInput}]
    /\ worker \in [Threads -> {"idle", "dispatch", "put", "done", "ended"}]
    /\ task \in [Threads -> Tasks]
    /\ code \in [Threads -> Codes \cup {0, BadInput}]

Records(t) == {i \in DOMAIN recorded : recorded[i].task = t}
Once(t) == \E i \in Records(t) : Records(t) = {i}

\* When the results are collected every node has its command recorded, once,
\* and in a dry run its ping too: no task is lost on threads that leave when
\* they see an empty queue, though one that still works may add to it.
EveryTaskRecorded ==
    pc = "collect" =>
        \A n \in Nodes : Once(Power(n)) /\ (Job.dryrun => Once(Ping(n)))

\* Whoever puts into the queue does so with the lock in hand, and there is
\* room: with none all threads would wait for one another.
RoomToPut ==
    /\ pc = "fill" /\ Job.options = "good" /\ filled < Job.nodes =>
           lock = Main /\ Len(queue) < Capacity
    /\ \A w \in Threads : worker[w] = "put" => lock = w /\ Len(queue) < Capacity

\* A node is not pinged before its command was carried out.
PingAfterCommand ==
    pc \in {"spawn", "spin", "join", "collect"} =>
        \A i \in DOMAIN recorded : recorded[i].task.kind = "ping" =>
            \E j \in 1 .. i - 1 : recorded[j].task = Power(recorded[i].task.node)

\* A command that failed shows in the status of its call.
FailureShows ==
    pc = "enter" /\ call > 1 /\ Failures # {} => log[call - 1] # 0

\* The answer of a call is made from the results of all its tasks.
ResultsRight == EveryTaskRecorded /\ FailureShows

\* Every call of execute() comes back.
Returns == <>(call > Len(Calls))
-----------------------------------------------------------------------------
(* What is promised (module PowerBatch), and where its state is: a task is *)
(* to do while it is queued or in a thread's hands, a thread that is about *)
(* to queue a ping having the ping in hand.                                *)

Elements(q) == {q[i] : i \in 1 .. Len(q)}

Busy(w) == worker[w] \in {"dispatch", "done", "put"}
Hand(w) == IF worker[w] = "put" THEN Ping(task[w].node) ELSE task[w]

Queued == Elements(queue)
Handled == {Hand(w) : w \in {v \in Threads : Busy(v)}}
Recorded == {recorded[i].task : i \in 1 .. Len(recorded)}

Working == pc \in {"spawn", "spin", "join", "collect"}
IsOpen == Working \/ pc = "revert"

Todo == IF IsOpen THEN Queued \cup Handled ELSE {}
Failed == {recorded[i].task : i \in Failures}
LastAnswer == IF call = 1 THEN "none" ELSE IF log[call - 1] = 0 THEN "ok" ELSE "failed"

Batch == INSTANCE PowerBatch WITH
    Command <- {t \in Tasks : t.kind = "power"},
    Follows <- {<<t, Ping(t.node)>> : t \in {u \in Tasks : u.kind = "power"}},
    open <- IsOpen,
    todo <- Todo,
    done <- Recorded,
    failed <- Failed,
    answered <- call - 1,
    answer <- LastAnswer

\* execute() with its queue and its threads keeps that promise, the batch's
\* being worked off and answered included (IPMITool.py:187-341).
Promise == Batch!Spec
-----------------------------------------------------------------------------
(* What the comments say.                                                  *)

\* "execute the loop of "ping" commands to detect node restart"
\* (IPMITool.py:250-251): a call that succeeds has pinged its nodes.
RestartDetected ==
    [][pc = "collect" /\ log'[call] = 0 => \A n \in Nodes : Records(Ping(n)) # {}]_vars

\* "set the status to the first one that did" fail (IPMITool.py:323-324).
FirstFailureCounts ==
    [][pc = "collect" =>
         \A i \in Failures : (\A j \in Failures : i <= j) => log'[call] = recorded[i].code]_vars
=============================================================================
