---------------------------- MODULE IPMIToolProofs ----------------------------
(* Proofs about IPMITool's queue and its threads, for every sequence of      *)
(* calls, with any number of nodes and threads.                              *)
EXTENDS IPMITool, FiniteSetTheorems, TLAPS

\* The calls and their threads.
LEMMA CallFacts ==
    /\ Len(Calls) \in Nat /\ DOMAIN Calls = 1 .. Len(Calls)
    /\ \A i \in DOMAIN Calls :
           /\ Calls[i] \in CallType
           /\ Calls[i].nodes \in Nat \ {0} /\ Calls[i].numthreads \in Nat \ {0}
           /\ Calls[i].dryrun \in BOOLEAN
           /\ 1 .. Calls[i].numthreads \subseteq Threads
    /\ Threads \subseteq Nat \ {0}
<1>1. /\ Len(Calls) \in Nat /\ DOMAIN Calls = 1 .. Len(Calls)
      /\ \A i \in DOMAIN Calls : Calls[i] \in CallType
    BY IPMIToolAssumption
<1>2. \A i \in DOMAIN Calls :
          /\ Calls[i].nodes \in Nat \ {0} /\ Calls[i].numthreads \in Nat \ {0}
          /\ Calls[i].dryrun \in BOOLEAN
    BY <1>1 DEF CallType
<1>. QED
    BY <1>1, <1>2 DEF Threads

\* A task is a command or a ping of a node.
LEMMA TaskFacts ==
    ASSUME NEW n, NEW m
    PROVE  /\ Power(n) # Ping(m)
           /\ Power(n) = Power(m) => n = m
           /\ Ping(n) = Ping(m) => n = m
           /\ Power(n).node = n /\ Ping(n).node = n
           /\ Power(n).kind = "power" /\ Ping(n).kind = "ping"
BY DEF Task, Power, Ping

\* What is a task of the calls, and where it leads.
LEMMA TaskType ==
    /\ \A t \in Tasks : /\ t = Power(t.node) \/ t = Ping(t.node)
                        /\ t.kind \in {"power", "ping"}
                        /\ t.kind = "power" <=> t = Power(t.node)
                        /\ Ping(t.node) \in Tasks
    /\ \A i \in DOMAIN Calls : \A n \in 1 .. Calls[i].nodes :
           Power(n) \in Tasks /\ Ping(n) \in Tasks
<1>1. ASSUME NEW t \in Tasks
      PROVE  /\ t = Power(t.node) \/ t = Ping(t.node)
             /\ t.kind \in {"power", "ping"}
             /\ t.kind = "power" <=> t = Power(t.node)
             /\ Ping(t.node) \in Tasks
    <2>1. PICK k \in {"power", "ping"},
               n \in UNION {1 .. Calls[i].nodes : i \in DOMAIN Calls} : t = Task(k, n)
        BY DEF Tasks
    <2>2. t.kind = k /\ t.node = n
        BY <2>1 DEF Task
    <2>3. Task("ping", n) \in Tasks
        BY DEF Tasks
    <2>. QED
        BY <2>1, <2>2, <2>3, TaskFacts DEF Power, Ping
<1>2. ASSUME NEW i \in DOMAIN Calls, NEW n \in 1 .. Calls[i].nodes
      PROVE  Power(n) \in Tasks /\ Ping(n) \in Tasks
    <2>1. n \in UNION {1 .. Calls[j].nodes : j \in DOMAIN Calls}
        OBVIOUS
    <2>. QED
        BY <2>1 DEF Tasks, Power, Ping
<1>. QED
    BY <1>1, <1>2

\* The call under way.
LEMMA JobFacts ==
    ASSUME TypeOK, pc # "enter" \/ call <= Len(Calls)
    PROVE  /\ call \in DOMAIN Calls /\ Job = Calls[call]
           /\ Job.nodes \in Nat \ {0} /\ Job.dryrun \in BOOLEAN
           /\ Rng \in Nat \ {0} /\ 1 .. Rng \subseteq Threads
           /\ \A n \in Nodes : Power(n) \in Tasks /\ Ping(n) \in Tasks
<1>1. call \in DOMAIN Calls /\ Job = Calls[call]
    BY CallFacts DEF TypeOK, Job
<1>2. Job.nodes \in Nat \ {0} /\ Job.numthreads \in Nat \ {0} /\ Job.dryrun \in BOOLEAN
    BY <1>1, CallFacts
<1>3. Rng \in Nat \ {0} /\ Rng <= Job.numthreads
    BY <1>2 DEF Rng
<1>4. 1 .. Rng \subseteq 1 .. Job.numthreads
    BY <1>2, <1>3
<1>. QED
    BY <1>1, <1>2, <1>3, <1>4, CallFacts, TaskType DEF Nodes

\* Tasks of different nodes are no more than the nodes.
LEMMA Pigeons ==
    ASSUME NEW N \in Nat, NEW q \in Seq(Tasks),
           \A i \in 1 .. Len(q) : q[i].node \in 1 .. N,
           \A i, j \in 1 .. Len(q) : q[i].node = q[j].node => i = j
    PROVE  Len(q) <= N
<1> DEFINE f == [i \in 1 .. Len(q) |-> q[i].node]
<1>1. f \in Injection(1 .. Len(q), 1 .. N)
    BY DEF Injection, IsInjective
<1>2. IsFiniteSet(1 .. N) /\ Cardinality(1 .. N) = N
    BY FS_Interval
<1>3. Cardinality(1 .. Len(q)) = Len(q)
    <2>1. Len(q) \in Nat
        OBVIOUS
    <2>2. Cardinality(1 .. Len(q)) = IF 1 > Len(q) THEN 0 ELSE Len(q) - 1 + 1
        BY <2>1, FS_Interval
    <2>. QED
        BY <2>1, <2>2
<1>4. Cardinality(1 .. Len(q)) <= Cardinality(1 .. N)
    BY <1>1, <1>2, FS_Injection
<1>. QED
    BY <1>2, <1>3, <1>4
-----------------------------------------------------------------------------
(* Types, and who runs when.                                                 *)

\* Threads run between their start and the end of the joins; one that is about
\* to queue a ping has the lock.
ThreadInv ==
    /\ pc \in {"spin", "join"} => started = Rng
    /\ pc = "spawn" => started < Rng
    /\ pc = "fill" => lock = Main /\ started = 0
    /\ \A w \in Threads :
           /\ worker[w] # "ended" => pc \in {"spawn", "spin", "join"} /\ w <= started
           /\ worker[w] = "put" => lock = w /\ Job.dryrun /\ task[w].kind = "power"
           /\ worker[w] = "done" => ~Job.dryrun

\* The initial states.
LEMMA InitThreadInv == Init => TypeOK /\ ThreadInv
<1> SUFFICES ASSUME Init PROVE TypeOK /\ ThreadInv
    OBVIOUS
<1>1. call \in 1 .. Len(Calls) + 1
    BY CallFacts DEF Init
<1>2. lock \in {Nobody, Main} \cup Threads /\ queue \in Seq(Tasks)
      /\ recorded \in Seq([code: Codes \cup {0, BadInput}, task: Tasks])
    BY DEF Init
<1>3. task \in [Threads -> Tasks]
    <2>1. ASSUME NEW w \in Threads PROVE Power(1) \in Tasks
        <3>1. PICK i \in DOMAIN Calls : w \in 1 .. Calls[i].numthreads
            BY DEF Threads
        <3>2. 1 \in 1 .. Calls[i].nodes
            BY <3>1, CallFacts
        <3>. QED
            BY <3>2, TaskType
    <2>. QED
        BY <2>1 DEF Init
<1>. QED
    BY <1>1, <1>2, <1>3 DEF Init, TypeOK, ThreadInv, Unset

\* The thread that is started next.
LEMMA SpawnFacts ==
    ASSUME TypeOK, ThreadInv, Spawn
    PROVE  /\ started \in Nat /\ Rng \in Nat \ {0} /\ started < Rng
           /\ started' = started + 1 /\ started' \in 1 .. Rng /\ started' \in Threads
<1>1. pc = "spawn" /\ started' = started + 1
    BY DEF Spawn
<1>2. Rng \in Nat \ {0} /\ 1 .. Rng \subseteq Threads
    BY <1>1, JobFacts
<1>3. started \in 0 .. Rng /\ started < Rng
    BY <1>1 DEF TypeOK, ThreadInv
<1>. QED
    BY <1>1, <1>2, <1>3

\* An element of a sequence.
LEMMA ElementType == ASSUME NEW S, NEW s \in Seq(S), NEW i \in 1 .. Len(s) PROVE s[i] \in S
OBVIOUS

\* What the threads have recorded failed, and how.
LEMMA FailureFacts ==
    ASSUME TypeOK, NEW i \in Failures
    PROVE  recorded[i].code \in Codes \cup {0, BadInput} /\ recorded[i].code # 0
<1>1. i \in 1 .. Len(recorded) /\ recorded[i].code # 0
    BY DEF Failures, TypeOK
<1>2. recorded \in Seq([code: Codes \cup {0, BadInput}, task: Tasks])
    BY DEF TypeOK
<1>3. recorded[i] \in [code: Codes \cup {0, BadInput}, task: Tasks]
    BY <1>1, <1>2, ElementType
<1>. QED
    BY <1>1, <1>3

\* Every step of execute() and of the threads keeps the types.
LEMMA TypeStep == TypeOK /\ ThreadInv /\ [Next]_vars => TypeOK'
<1> SUFFICES ASSUME TypeOK, ThreadInv, [Next]_vars PROVE TypeOK'
    OBVIOUS
<1> USE CallFacts DEF TypeOK, main, threads, Job, Rng
<1>1. CASE Refuse
    BY <1>1 DEF Refuse
<1>2. CASE Enter
    <2>1. Job \in CallType /\ Job.nodes \in Nat \ {0} /\ Rng \in Nat \ {0}
        BY <1>2 DEF Enter
    <2>. QED
        BY <1>2, <2>1 DEF Enter
<1>3. CASE NoPasswordFile
    BY <1>3 DEF NoPasswordFile
<1>4. CASE PutCommand
    <2>1. Power(filled + 1) \in Tasks /\ filled' \in 0 .. Job.nodes
        BY <1>4, JobFacts DEF PutCommand, Nodes
    <2>. QED
        BY <1>4, <2>1 DEF PutCommand
<1>5. CASE Filled
    BY <1>5 DEF Filled
<1>6. CASE Spawn
    <2>1. started' \in 0 .. Rng /\ started' \in Threads
        BY <1>6, SpawnFacts
    <2>. QED
        BY <1>6, <2>1 DEF Spawn
<1>7. CASE Spin
    BY <1>7 DEF Spin
<1>8. CASE Join
    BY <1>8 DEF Join
<1>9. CASE Collect
    <2>1. \A i \in Failures : recorded[i].code \in Codes \cup {0, BadInput}
        BY FailureFacts
    <2>. QED
        BY <1>9, <2>1 DEF Collect
<1>10. CASE Revert
    BY <1>10 DEF Revert
<1>11. ASSUME NEW w \in Threads, Work(w) PROVE TypeOK'
    <2>1. CASE GetTask(w)
        BY <2>1 DEF GetTask, Becomes
    <2>2. CASE Leave(w)
        BY <2>2 DEF Leave, Becomes
    <2>3. CASE DryRunPing(w)
        BY <2>3 DEF DryRunPing, Becomes, Entry
    <2>4. CASE DryRunCommand(w)
        BY <2>4 DEF DryRunCommand, Becomes, Entry
    <2>5. CASE PutPing(w)
        <3>1. Ping(task[w].node) \in Tasks
            BY TaskType
        <3>. QED
            BY <2>5, <3>1 DEF PutPing, Becomes
    <2>6. CASE Execute(w)
        BY <2>6 DEF Execute, Becomes
    <2>7. CASE Record(w)
        BY <2>7 DEF Record, Becomes, Entry
    <2>. QED
        BY <1>11, <2>1, <2>2, <2>3, <2>4, <2>5, <2>6, <2>7 DEF Work
<1>12. CASE UNCHANGED vars
    BY <1>12 DEF vars
<1>. QED
    BY <1>1, <1>2, <1>3, <1>4, <1>5, <1>6, <1>7, <1>8, <1>9, <1>10, <1>11, <1>12
       DEF Next, Caller

\* Every step keeps who runs when.
LEMMA ThreadStep == TypeOK /\ ThreadInv /\ [Next]_vars => ThreadInv'
<1> SUFFICES ASSUME TypeOK, ThreadInv, [Next]_vars PROVE ThreadInv'
    OBVIOUS
<1> USE CallFacts DEF TypeOK, ThreadInv, main, threads, Job, Rng
<1>1. CASE Refuse
    BY <1>1 DEF Refuse
<1>2. CASE Enter
    BY <1>2 DEF Enter
<1>3. CASE NoPasswordFile
    BY <1>3 DEF NoPasswordFile
<1>4. CASE PutCommand
    BY <1>4 DEF PutCommand
<1>5. CASE Filled
    <2>1. Rng \in Nat \ {0} /\ Rng' = Rng
        BY <1>5, JobFacts DEF Filled
    <2>2. \A w \in Threads : worker[w] = "ended"
        BY <1>5 DEF Filled
    <2>. QED
        BY <1>5, <2>1, <2>2 DEF Filled
<1>6. CASE Spawn
    <2>1. /\ started \in Nat /\ Rng \in Nat /\ started < Rng
          /\ started' = started + 1 /\ started' \in Threads /\ Threads \subseteq Nat
        BY <1>6, SpawnFacts, CallFacts
    <2>2. Rng' = Rng /\ pc = "spawn" /\ pc' = IF started' = Rng THEN "spin" ELSE "spawn"
        BY <1>6 DEF Spawn
    <2>3. /\ pc' \in {"spin", "join"} => started' = Rng'
          /\ pc' = "spawn" => started' < Rng'
        BY <2>1, <2>2
    <2>4. ASSUME NEW w \in Threads
          PROVE  /\ worker'[w] # "ended" => w <= started'
                 /\ worker'[w] = "put" => lock' = w /\ Job.dryrun' /\ task'[w].kind = "power"
                 /\ worker'[w] = "done" => ~Job.dryrun'
        <3>1. worker' = [worker EXCEPT ![started'] = "idle"] /\ UNCHANGED <<lock, task, call>>
            BY <1>6 DEF Spawn
        <3>2. w <= started => w <= started'
            BY <2>1
        <3>3. CASE w = started'
            <4>1. worker'[w] = "idle"
                BY <3>1, <3>3
            <4>2. w <= started'
                BY <2>1, <3>3
            <4>. QED
                BY <4>1, <4>2
        <3>4. CASE w # started'
            <4>1. worker'[w] = worker[w]
                BY <3>1, <3>4
            <4>. QED
                BY <3>1, <3>2, <4>1
        <3>. QED
            BY <3>3, <3>4
    <2>. QED
        BY <2>2, <2>3, <2>4
<1>7. CASE Spin
    BY <1>7 DEF Spin
<1>8. CASE Join
    <2>1. \A w \in Threads : worker[w] = "ended"
        BY <1>8 DEF Join
    <2>. QED
        BY <1>8, <2>1 DEF Join
<1>9. CASE Collect
    BY <1>9 DEF Collect
<1>10. CASE Revert
    BY <1>10 DEF Revert
<1>11. ASSUME NEW w \in Threads, Work(w) PROVE ThreadInv'
    <2> USE DEF Becomes, Nobody
    <2>1. CASE GetTask(w)
        BY <2>1 DEF GetTask
    <2>2. CASE Leave(w)
        BY <2>2 DEF Leave
    <2>3. CASE DryRunPing(w)
        BY <2>3 DEF DryRunPing
    <2>4. CASE DryRunCommand(w)
        BY <2>4 DEF DryRunCommand
    <2>5. CASE PutPing(w)
        BY <2>5 DEF PutPing
    <2>6. CASE Execute(w)
        BY <2>6 DEF Execute
    <2>7. CASE Record(w)
        BY <2>7 DEF Record
    <2>. QED
        BY <1>11, <2>1, <2>2, <2>3, <2>4, <2>5, <2>6, <2>7 DEF Work
<1>12. CASE UNCHANGED vars
    BY <1>12 DEF vars
<1>. QED
    BY <1>1, <1>2, <1>3, <1>4, <1>5, <1>6, <1>7, <1>8, <1>9, <1>10, <1>11, <1>12
       DEF Next, Caller
-----------------------------------------------------------------------------
(* The account of the tasks.  A task is queued, in a thread's hands or       *)
(* recorded, and never in two places: a thread that is about to queue a ping *)
(* has the ping in hand, and its command is recorded.                        *)

Distinct(q) == \A i, j \in 1 .. Len(q) : q[i] = q[j] => i = j

Present == Queued \cup Handled \cup Recorded

OnePlace ==
    /\ Distinct(queue)
    /\ \A w, v \in Threads : Busy(w) /\ Busy(v) /\ Hand(w) = Hand(v) => w = v
    /\ \A i, j \in 1 .. Len(recorded) : recorded[i].task = recorded[j].task => i = j
    /\ Queued \cap Handled = {} /\ Queued \cap Recorded = {} /\ Handled \cap Recorded = {}

AllPresent ==
    \A n \in Nodes :
        /\ Power(n) \in Present
        /\ Job.dryrun /\ Power(n) \in Recorded => Ping(n) \in Present

OnlyThese ==
    \A t \in Present :
        /\ t \in Tasks /\ t.node \in Nodes
        /\ t.kind = "ping" => Job.dryrun /\ Power(t.node) \in Recorded

Account == Working => OnePlace /\ AllPresent /\ OnlyThese

\* What execute() has queued so far; and nobody leaves a task behind.
QueueInv ==
    /\ pc = "fill" => Len(queue) = filled /\ \A i \in 1 .. filled : queue[i] = Power(i)
    /\ pc \in {"spin", "join"} /\ queue # <<>> => \E w \in Threads : worker[w] # "ended"
    /\ pc = "collect" => queue = <<>> /\ \A w \in Threads : worker[w] = "ended"

\* A task is taken from the queue.
LEMMA TailFacts ==
    ASSUME NEW S, NEW q \in Seq(S), q # <<>>, Distinct(q)
    PROVE  /\ Tail(q) \in Seq(S) /\ Distinct(Tail(q))
           /\ Head(q) \in Elements(q) /\ Head(q) \notin Elements(Tail(q))
           /\ Elements(q) = Elements(Tail(q)) \cup {Head(q)}
<1>1. /\ Tail(q) \in Seq(S) /\ Len(Tail(q)) = Len(q) - 1 /\ Len(q) \in Nat \ {0}
      /\ \A i \in 1 .. Len(q) - 1 : Tail(q)[i] = q[i + 1]
      /\ Head(q) = q[1]
    OBVIOUS
<1>2. Distinct(Tail(q)) /\ Head(q) \notin Elements(Tail(q)) /\ Head(q) \in Elements(q)
    BY <1>1 DEF Distinct, Elements
<1>3. Elements(Tail(q)) \subseteq Elements(q)
    BY <1>1 DEF Elements
<1>4. ASSUME NEW i \in 1 .. Len(q) PROVE q[i] \in Elements(Tail(q)) \cup {Head(q)}
    <2>1. CASE i = 1
        BY <1>1, <2>1
    <2>2. CASE i # 1
        <3>1. i - 1 \in 1 .. Len(Tail(q)) /\ q[i] = Tail(q)[i - 1]
            BY <1>1, <2>2
        <3>. QED
            BY <3>1 DEF Elements
    <2>. QED
        BY <2>1, <2>2
<1>. QED
    BY <1>1, <1>2, <1>3, <1>4 DEF Elements

\* A task is queued.
LEMMA AppendFacts ==
    ASSUME NEW S, NEW q \in Seq(S), NEW e \in S
    PROVE  /\ Append(q, e) \in Seq(S)
           /\ Elements(Append(q, e)) = Elements(q) \cup {e}
           /\ Distinct(q) /\ e \notin Elements(q) => Distinct(Append(q, e))
<1>1. /\ Append(q, e) \in Seq(S) /\ Len(Append(q, e)) = Len(q) + 1 /\ Len(q) \in Nat
      /\ \A i \in 1 .. Len(q) : Append(q, e)[i] = q[i]
      /\ Append(q, e)[Len(q) + 1] = e
    OBVIOUS
<1>2. 1 .. Len(q) + 1 = (1 .. Len(q)) \cup {Len(q) + 1}
    BY <1>1
<1>3. Elements(Append(q, e)) = Elements(q) \cup {e}
    BY <1>1, <1>2 DEF Elements
<1>. QED
    BY <1>1, <1>3 DEF Distinct, Elements

\* A result is recorded.
LEMMA RecordFacts ==
    ASSUME TypeOK, NEW e, NEW t \in Tasks, e.task = t, recorded' = Append(recorded, e),
           t \notin Recorded,
           \A i, j \in 1 .. Len(recorded) : recorded[i].task = recorded[j].task => i = j
    PROVE  /\ Recorded' = Recorded \cup {t}
           /\ \A i, j \in 1 .. Len(recorded') : recorded'[i].task = recorded'[j].task => i = j
<1>1. /\ Len(recorded') = Len(recorded) + 1 /\ Len(recorded) \in Nat
      /\ \A i \in 1 .. Len(recorded) : recorded'[i] = recorded[i]
      /\ recorded'[Len(recorded) + 1] = e
    BY DEF TypeOK
<1>2. 1 .. Len(recorded') = (1 .. Len(recorded)) \cup {Len(recorded) + 1}
    BY <1>1
<1>3. Recorded' = Recorded \cup {t}
    BY <1>1, <1>2 DEF Recorded
<1>4. \A i \in 1 .. Len(recorded) : recorded'[i].task \in Recorded
    BY <1>1 DEF Recorded
<1>. QED
    BY <1>1, <1>2, <1>3, <1>4

\* What the other threads have in hand.
Besides(w) == {Hand(v) : v \in {u \in Threads : Busy(u) /\ u # w}}

\* A step of one thread leaves what the others have in hand.
LEMMA HandFacts ==
    ASSUME NEW w \in Threads,
           \A v \in Threads \ {w} : worker'[v] = worker[v] /\ task'[v] = task[v],
           \A u, v \in Threads : Busy(u) /\ Busy(v) /\ Hand(u) = Hand(v) => u = v
    PROVE  /\ Handled = Besides(w) \cup IF Busy(w) THEN {Hand(w)} ELSE {}
           /\ Handled' = Besides(w) \cup IF Busy(w)' THEN {Hand(w)'} ELSE {}
           /\ Busy(w) => Hand(w) \notin Besides(w)
           /\ (Busy(w)' => Hand(w)' \notin Besides(w)) =>
                 (\A u, v \in Threads : Busy(u) /\ Busy(v) /\ Hand(u) = Hand(v) => u = v)'
<1>1. \A v \in Threads \ {w} : (Busy(v)' <=> Busy(v)) /\ Hand(v)' = Hand(v)
    BY DEF Busy, Hand
<1>2. Handled = Besides(w) \cup IF Busy(w) THEN {Hand(w)} ELSE {}
    BY DEF Handled, Besides
<1>3. Handled' = Besides(w) \cup IF Busy(w)' THEN {Hand(w)'} ELSE {}
    BY <1>1 DEF Handled, Besides
<1>4. Busy(w) => Hand(w) \notin Besides(w)
    BY DEF Besides
<1>5. ASSUME Busy(w)' => Hand(w)' \notin Besides(w), NEW u \in Threads, NEW v \in Threads,
             Busy(u)', Busy(v)', Hand(u)' = Hand(v)'
      PROVE  u = v
    BY <1>1, <1>5 DEF Besides
<1>. QED
    BY <1>2, <1>3, <1>4, <1>5

\* A step that moves one task, or adds the ping of a command that is recorded.
LEMMA AccountWork ==
    ASSUME TypeOK, ThreadInv, Account, NEW w \in Threads, Work(w)
    PROVE  Account'
<1>1. CASE worker[w] = "ended"
    BY <1>1 DEF Work, GetTask, Leave, DryRunPing, DryRunCommand, PutPing, Execute, Record
<1>2. CASE worker[w] # "ended"
    <2>1. /\ Working /\ OnePlace /\ AllPresent /\ OnlyThese
          /\ queue \in Seq(Tasks) /\ task[w] \in Tasks
        BY <1>2 DEF ThreadInv, Working, Account, TypeOK
    <2>2. Job' = Job /\ Nodes' = Nodes /\ pc' = pc
        BY DEF Work, GetTask, Leave, DryRunPing, DryRunCommand, PutPing, Execute, Record,
               main, Job, Nodes
    <2>3. \A v \in Threads \ {w} : worker'[v] = worker[v] /\ task'[v] = task[v]
        BY DEF Work, GetTask, Leave, DryRunPing, DryRunCommand, PutPing, Execute, Record,
               Becomes, TypeOK
    <2>4. /\ Handled = Besides(w) \cup IF Busy(w) THEN {Hand(w)} ELSE {}
          /\ Handled' = Besides(w) \cup IF Busy(w)' THEN {Hand(w)'} ELSE {}
          /\ Busy(w) => Hand(w) \notin Besides(w)
          /\ (Busy(w)' => Hand(w)' \notin Besides(w)) =>
                (\A u, v \in Threads : Busy(u) /\ Busy(v) /\ Hand(u) = Hand(v) => u = v)'
        BY <2>1, <2>3, HandFacts DEF OnePlace
    <2>5. ASSUME OnePlace', Present' = Present, Recorded' = Recorded PROVE Account'
        BY <2>1, <2>2, <2>5 DEF Account, AllPresent, OnlyThese
    <2>6. CASE GetTask(w)
        <3>1. /\ ~Busy(w) /\ Busy(w)' /\ Hand(w)' = Head(queue) /\ queue' = Tail(queue)
              /\ queue # <<>> /\ recorded' = recorded
            BY <2>6 DEF GetTask, Becomes, Busy, Hand, TypeOK
        <3>2. /\ Distinct(queue)' /\ Head(queue) \in Queued /\ Head(queue) \notin Queued'
              /\ Queued = Queued' \cup {Head(queue)}
            BY <2>1, <3>1, TailFacts DEF OnePlace, Queued, Distinct, Elements
        <3>3. Recorded' = Recorded
            BY <3>1 DEF Recorded
        <3>4. OnePlace'
            BY <2>1, <2>4, <3>1, <3>2, <3>3 DEF OnePlace
        <3>5. Present' = Present
            BY <2>4, <3>1, <3>2, <3>3 DEF Present
        <3>. QED
            BY <2>5, <3>3, <3>4, <3>5
    <2>7. CASE Leave(w)
        <3>1. ~Busy(w) /\ ~Busy(w)' /\ UNCHANGED <<queue, recorded>>
            BY <2>7 DEF Leave, Becomes, Busy, TypeOK
        <3>2. Queued' = Queued /\ Recorded' = Recorded /\ Distinct(queue)'
            BY <2>1, <3>1 DEF Queued, Recorded, Elements, OnePlace, Distinct
        <3>3. OnePlace'
            BY <2>1, <2>4, <3>1, <3>2 DEF OnePlace
        <3>. QED
            BY <2>4, <2>5, <3>1, <3>2, <3>3 DEF Present
    <2>8. CASE Execute(w)
        <3>1. Busy(w) /\ Busy(w)' /\ Hand(w)' = Hand(w) /\ UNCHANGED <<queue, recorded>>
            BY <2>8 DEF Execute, Becomes, Busy, Hand, TypeOK
        <3>2. Queued' = Queued /\ Recorded' = Recorded /\ Distinct(queue)'
            BY <2>1, <3>1 DEF Queued, Recorded, Elements, OnePlace, Distinct
        <3>3. OnePlace'
            BY <2>1, <2>4, <3>1, <3>2 DEF OnePlace
        <3>. QED
            BY <2>4, <2>5, <3>1, <3>2, <3>3 DEF Present
    <2>9. CASE PutPing(w)
        <3>1. /\ Busy(w) /\ ~Busy(w)' /\ Hand(w) = Ping(task[w].node)
              /\ queue' = Append(queue, Hand(w)) /\ recorded' = recorded
            BY <2>9 DEF PutPing, Becomes, Busy, Hand, TypeOK
        <3>2. Hand(w) \in Tasks /\ Hand(w) \notin Queued
            BY <2>1, <2>4, <3>1, TaskType DEF OnePlace
        <3>3. Queued' = Queued \cup {Hand(w)} /\ Distinct(queue)'
            <4>1. Elements(Append(queue, Hand(w))) = Elements(queue) \cup {Hand(w)}
                BY <2>1, <3>2, AppendFacts
            <4>2. Distinct(Append(queue, Hand(w)))
                BY <2>1, <3>2, AppendFacts DEF OnePlace, Queued
            <4>. QED
                BY <3>1, <4>1, <4>2 DEF Queued, Elements, Distinct
        <3>4. Recorded' = Recorded
            BY <3>1 DEF Recorded
        <3>5. OnePlace'
            BY <2>1, <2>4, <3>1, <3>3, <3>4 DEF OnePlace
        <3>6. Present' = Present
            BY <2>4, <3>1, <3>3, <3>4 DEF Present
        <3>. QED
            BY <2>5, <3>4, <3>5, <3>6
    <2>10. CASE DryRunPing(w) \/ Record(w)
        <3>1. /\ Busy(w) /\ ~Busy(w)' /\ Hand(w) = task[w] /\ queue' = queue
              /\ \E c : recorded' = Append(recorded, Entry(c, task[w]))
              /\ task[w].kind = "ping" \/ ~Job.dryrun
            BY <2>10 DEF DryRunPing, Record, Becomes, Busy, Hand, TypeOK, ThreadInv
        <3>2. task[w] \notin Recorded
            BY <2>1, <2>4, <3>1 DEF OnePlace
        <3>3. /\ Recorded' = Recorded \cup {task[w]}
              /\ \A i, j \in 1 .. Len(recorded') : recorded'[i].task = recorded'[j].task => i = j
            BY <2>1, <3>1, <3>2, RecordFacts DEF OnePlace, Entry
        <3>4. Queued' = Queued /\ Distinct(queue)'
            BY <2>1, <3>1 DEF Queued, Elements, OnePlace, Distinct
        <3>5. OnePlace'
            BY <2>1, <2>4, <3>1, <3>3, <3>4 DEF OnePlace
        <3>6. Present' = Present
            BY <2>4, <3>1, <3>3, <3>4 DEF Present
        <3>7. AllPresent'
            <4>1. Job.dryrun => \A n \in Nodes : Power(n) # task[w]
                BY <3>1, TaskFacts
            <4>. QED
                BY <2>1, <2>2, <3>3, <3>6, <4>1 DEF AllPresent
        <3>8. OnlyThese'
            BY <2>1, <2>2, <3>3, <3>6 DEF OnlyThese
        <3>. QED
            BY <3>5, <3>7, <3>8 DEF Account
    <2>11. CASE DryRunCommand(w)
        <3> DEFINE n == task[w].node
        <3>1. /\ Busy(w) /\ Busy(w)' /\ Hand(w) = task[w] /\ Hand(w)' = Ping(n) /\ queue' = queue
              /\ recorded' = Append(recorded, Entry(0, task[w])) /\ Job.dryrun
              /\ task[w].kind = "power"
            BY <2>11 DEF DryRunCommand, Becomes, Busy, Hand, TypeOK
        <3>2. task[w] = Power(n) /\ Power(n) # Ping(n) /\ Ping(n) \in Tasks
            BY <2>1, <3>1, TaskType, TaskFacts
        <3>3. task[w] \notin Recorded /\ task[w] \in Present
            BY <2>1, <2>4, <3>1 DEF OnePlace, Present
        <3>4. Ping(n) \notin Present
            BY <2>1, <3>2, <3>3, TaskFacts DEF OnlyThese
        <3>5. /\ Recorded' = Recorded \cup {task[w]}
              /\ \A i, j \in 1 .. Len(recorded') : recorded'[i].task = recorded'[j].task => i = j
            BY <2>1, <3>1, <3>3, RecordFacts DEF OnePlace, Entry
        <3>6. Queued' = Queued /\ Distinct(queue)'
            BY <2>1, <3>1 DEF Queued, Elements, OnePlace, Distinct
        <3>7. OnePlace'
            BY <2>1, <2>4, <3>1, <3>2, <3>4, <3>5, <3>6 DEF OnePlace, Present
        <3>8. Present' = Present \cup {Ping(n)}
            BY <2>4, <3>1, <3>5, <3>6 DEF Present
        <3>9. AllPresent'
            <4>1. \A m \in Nodes : Power(m) = task[w] => m = n
                BY <3>2, TaskFacts
            <4>. QED
                BY <2>1, <2>2, <3>5, <3>8, <4>1 DEF AllPresent
        <3>10. OnlyThese'
            <4>1. n \in Nodes /\ Ping(n).node = n
                BY <2>1, <3>3, TaskFacts DEF OnlyThese
            <4>. QED
                BY <2>1, <2>2, <3>1, <3>2, <3>5, <3>8, <4>1 DEF OnlyThese
        <3>. QED
            BY <3>7, <3>9, <3>10 DEF Account
    <2>. QED
        BY <2>6, <2>7, <2>8, <2>9, <2>10, <2>11 DEF Work
<1>. QED
    BY <1>1, <1>2

\* The commands that execute() has queued.
LEMMA AccountFilled ==
    ASSUME TypeOK, ThreadInv, QueueInv, Filled
    PROVE  Account'
<1>1. /\ pc = "fill" /\ pc' = "spawn" /\ Len(queue) = Job.nodes
      /\ \A i \in 1 .. Job.nodes : queue[i] = Power(i)
      /\ queue' = queue /\ recorded' = <<>> /\ UNCHANGED <<worker, task, call>>
    BY DEF Filled, QueueInv, threads
<1>2. Job' = Job /\ Nodes' = Nodes /\ Nodes = 1 .. Len(queue)
    BY <1>1 DEF Job, Nodes
<1>3. Handled' = {} /\ Recorded' = {}
    BY <1>1 DEF ThreadInv, Handled, Busy, Recorded
<1>4. Queued' = {Power(n) : n \in Nodes}
    BY <1>1, <1>2 DEF Queued, Elements
<1>5. Distinct(queue)'
    BY <1>1, TaskFacts DEF Distinct
<1>6. OnePlace'
    <2>1. \A w \in Threads : ~Busy(w)'
        BY <1>1 DEF ThreadInv, Busy
    <2>2. Len(recorded') = 0
        BY <1>1
    <2>. QED
        BY <1>3, <1>5, <2>1, <2>2 DEF OnePlace
<1>7. AllPresent'
    BY <1>2, <1>3, <1>4 DEF AllPresent, Present
<1>8. OnlyThese'
    <2>1. \A n \in Nodes : Power(n) \in Tasks /\ Power(n).node = n /\ Power(n).kind = "power"
        BY <1>1, JobFacts, TaskFacts
    <2>. QED
        BY <1>2, <1>3, <1>4, <2>1 DEF OnlyThese, Present
<1>. QED
    BY <1>6, <1>7, <1>8 DEF Account

\* Nothing of the account changes.
LEMMA AccountKept ==
    ASSUME Account, Working, UNCHANGED <<queue, recorded, task, call>>,
           \A w \in Threads : (Busy(w)' <=> Busy(w)) /\ (Busy(w) => Hand(w)' = Hand(w))
    PROVE  Account'
<1>1. Queued' = Queued /\ Recorded' = Recorded /\ Handled' = Handled /\ Present' = Present
    BY DEF Queued, Recorded, Handled, Elements, Present
<1>2. Job' = Job /\ Nodes' = Nodes
    BY DEF Job, Nodes
<1>3. OnePlace'
    BY <1>1 DEF Account, OnePlace, Distinct
<1>. QED
    BY <1>1, <1>2, <1>3 DEF Account, AllPresent, OnlyThese

\* Every step keeps the account.
LEMMA AccountStep ==
    TypeOK /\ ThreadInv /\ QueueInv /\ Account /\ [Next]_vars => Account'
<1> SUFFICES ASSUME TypeOK, ThreadInv, QueueInv, Account, [Next]_vars PROVE Account'
    OBVIOUS
<1>1. CASE Refuse \/ Enter \/ NoPasswordFile \/ PutCommand \/ Revert
    BY <1>1 DEF Refuse, Enter, NoPasswordFile, PutCommand, Revert, Account, Working
<1>2. CASE Filled
    BY <1>2, AccountFilled
<1>3. CASE Spawn
    <2>1. started' \in Threads /\ started < started' /\ worker[started'] = "ended"
        BY <1>3, SpawnFacts DEF ThreadInv
    <2>2. \A w \in Threads : (Busy(w)' <=> Busy(w)) /\ (Busy(w) => Hand(w)' = Hand(w))
        BY <1>3, <2>1 DEF Spawn, Busy, Hand, TypeOK
    <2>. QED
        BY <1>3, <2>2, AccountKept DEF Spawn, Working
<1>4. CASE Spin \/ Join \/ Collect
    BY <1>4, AccountKept DEF Spin, Join, Collect, Working, threads, Busy, Hand
<1>5. CASE \E w \in Threads : Work(w)
    BY <1>5, AccountWork
<1>6. CASE UNCHANGED vars
    BY <1>6, AccountKept DEF vars, main, threads, Busy, Hand, Working, Account
<1>. QED
    BY <1>1, <1>2, <1>3, <1>4, <1>5, <1>6 DEF Next, Caller

\* Every step keeps what is queued: the thread that sees the queue empty is
\* the only kind that leaves, and it leaves no task behind.
LEMMA QueueStep == TypeOK /\ ThreadInv /\ QueueInv /\ [Next]_vars => QueueInv'
<1> SUFFICES ASSUME TypeOK, ThreadInv, QueueInv, [Next]_vars PROVE QueueInv'
    OBVIOUS
<1>1. CASE Refuse \/ NoPasswordFile \/ Revert
    BY <1>1 DEF Refuse, NoPasswordFile, Revert, QueueInv
<1>2. CASE Enter
    BY <1>2 DEF Enter, QueueInv
<1>3. CASE PutCommand
    <2>1. /\ Len(queue') = Len(queue) + 1 /\ Len(queue) = filled /\ filled \in Nat
          /\ \A i \in 1 .. filled : queue'[i] = Power(i)
          /\ queue'[filled + 1] = Power(filled + 1) /\ filled' = filled + 1
        BY <1>3 DEF PutCommand, QueueInv, TypeOK
    <2>2. 1 .. filled' = (1 .. filled) \cup {filled + 1}
        BY <2>1
    <2>. QED
        BY <1>3, <2>1, <2>2 DEF PutCommand, QueueInv
<1>4. CASE Filled
    BY <1>4 DEF Filled, QueueInv
<1>5. CASE Spawn
    <2>1. started' \in Threads /\ worker'[started'] = "idle"
        BY <1>5, SpawnFacts DEF Spawn, TypeOK
    <2>. QED
        BY <1>5, <2>1 DEF Spawn, QueueInv
<1>6. CASE Spin
    BY <1>6 DEF Spin, QueueInv, threads
<1>7. CASE Join
    <2>1. \A w \in Threads : worker[w] = "ended"
        <3>1. started = Rng /\ Rng \in Nat
            BY <1>7, JobFacts DEF Join, ThreadInv
        <3>2. ASSUME NEW w \in Threads, worker[w] # "ended" PROVE FALSE
            <4>1. w \in 1 .. Rng
                BY <3>1, <3>2, CallFacts DEF ThreadInv
            <4>. QED
                BY <1>7, <3>2, <4>1 DEF Join
        <3>. QED
            BY <3>2
    <2>. QED
        BY <1>7, <2>1 DEF Join, QueueInv, threads
<1>8. CASE Collect
    BY <1>8 DEF Collect, QueueInv
<1>9. ASSUME NEW w \in Threads, Work(w) PROVE QueueInv'
    <2>1. CASE worker[w] = "ended"
        BY <1>9, <2>1 DEF Work, GetTask, Leave, DryRunPing, DryRunCommand, PutPing, Execute, Record
    <2>2. CASE worker[w] # "ended"
        <3>1. pc' = pc /\ pc \in {"spawn", "spin", "join"}
            BY <1>9, <2>2 DEF ThreadInv, Work, GetTask, Leave, DryRunPing, DryRunCommand,
                              PutPing, Execute, Record, main
        <3>2. CASE Leave(w)
            BY <3>1, <3>2 DEF Leave, QueueInv
        <3>3. CASE ~Leave(w)
            <4>1. worker'[w] # "ended"
                BY <1>9, <3>3 DEF Work, GetTask, DryRunPing, DryRunCommand, PutPing, Execute,
                                  Record, Becomes, TypeOK
            <4>. QED
                BY <3>1, <4>1 DEF QueueInv
        <3>. QED
            BY <3>2, <3>3
    <2>. QED
        BY <2>1, <2>2
<1>10. CASE UNCHANGED vars
    BY <1>10 DEF vars, main, threads, QueueInv
<1>. QED
    BY <1>1, <1>2, <1>3, <1>4, <1>5, <1>6, <1>7, <1>8, <1>9, <1>10 DEF Next, Caller

\* Types, who runs when, what is queued, and the account together.
IInv == TypeOK /\ ThreadInv /\ QueueInv /\ Account

\* The inductive invariant: types, who runs when, what is queued, the account.
THEOREM SpecIInv == Spec => []IInv
<1>1. Init => IInv
    BY InitThreadInv DEF Init, IInv, QueueInv, Account, Working
<1>2. IInv /\ [Next]_vars => IInv'
    BY TypeStep, ThreadStep, QueueStep, AccountStep DEF IInv
<1>. QED
    BY <1>1, <1>2, PTL DEF Spec

\* Every variable has its type, for any calls.
THEOREM SpecTypeOK == Spec => []TypeOK
<1>1. IInv => TypeOK
    BY DEF IInv
<1>. QED
    BY <1>1, SpecIInv, PTL

\* Queued tasks are of different nodes, so that they take half of the queue at
\* the most: no thread ever waits for room with the lock in hand.
THEOREM SpecRoomToPut == Spec => []RoomToPut
<1>1. IInv => RoomToPut
    <2> SUFFICES ASSUME IInv PROVE RoomToPut
        OBVIOUS
    <2> USE DEF IInv
    <2>1. ASSUME pc = "fill", filled < Job.nodes PROVE lock = Main /\ Len(queue) < Capacity
        <3>1. Len(queue) = filled /\ filled \in Nat /\ lock = Main /\ Job.nodes \in Nat
            BY <2>1, JobFacts DEF QueueInv, TypeOK, ThreadInv
        <3>. QED
            BY <2>1, <3>1 DEF Capacity
    <2>2. ASSUME NEW w \in Threads, worker[w] = "put" PROVE lock = w /\ Len(queue) < Capacity
        <3>1. lock = w /\ pc \in {"spawn", "spin", "join"}
            BY <2>2 DEF ThreadInv
        <3>2. OnePlace /\ OnlyThese
            BY <3>1 DEF Account, Working
        <3>3. Job.nodes \in Nat \ {0} /\ queue \in Seq(Tasks)
            BY <3>1, JobFacts DEF TypeOK
        <3>4. \A i \in 1 .. Len(queue) :
                  queue[i] \in Queued /\ queue[i] \in Present /\ queue[i] \notin Recorded
            BY <3>2 DEF Queued, Elements, Present, OnePlace
        <3>5. ASSUME NEW i \in 1 .. Len(queue), NEW j \in 1 .. Len(queue),
                     queue[i].node = queue[j].node
              PROVE  i = j
            <4>1. queue[i] = queue[j]
                <5>1. /\ queue[i] \in Tasks /\ queue[j] \in Tasks
                      /\ queue[i].kind = "ping" => Power(queue[i].node) \in Recorded
                      /\ queue[j].kind = "ping" => Power(queue[j].node) \in Recorded
                    BY <3>2, <3>4 DEF OnlyThese
                <5>. QED
                    BY <3>4, <3>5, <5>1, TaskType, TaskFacts
            <4>. QED
                BY <3>2, <4>1 DEF OnePlace, Distinct
        <3>6. \A i \in 1 .. Len(queue) : queue[i].node \in 1 .. Job.nodes
            BY <3>2, <3>4 DEF OnlyThese, Nodes
        <3>7. Len(queue) <= Job.nodes
            BY <3>3, <3>5, <3>6, Pigeons
        <3>. QED
            BY <3>1, <3>3, <3>7 DEF Capacity
    <2>. QED
        BY <2>1, <2>2 DEF RoomToPut
<1>. QED
    BY <1>1, SpecIInv, PTL

\* When the results are collected, nothing is queued and nobody holds a task:
\* each is recorded, and in one place.
THEOREM SpecEveryTaskRecorded == Spec => []EveryTaskRecorded
<1>1. IInv => EveryTaskRecorded
    <2> SUFFICES ASSUME IInv, pc = "collect", NEW n \in Nodes
                 PROVE  Once(Power(n)) /\ (Job.dryrun => Once(Ping(n)))
        BY DEF EveryTaskRecorded
    <2>1. OnePlace /\ AllPresent
        BY DEF IInv, Account, Working
    <2>2. Present = Recorded
        <3>1. Handled = {}
            BY DEF IInv, QueueInv, Handled, Busy
        <3>2. Queued = {}
            BY DEF IInv, QueueInv, Queued, Elements
        <3>. QED
            BY <3>1, <3>2 DEF Present
    <2>3. ASSUME NEW t \in Recorded PROVE Once(t)
        <3>1. PICK i \in 1 .. Len(recorded) : recorded[i].task = t
            BY DEF Recorded
        <3>2. DOMAIN recorded = 1 .. Len(recorded)
            BY DEF IInv, TypeOK
        <3>3. Records(t) = {i}
            BY <2>1, <3>1, <3>2 DEF OnePlace, Records
        <3>. QED
            BY <3>3 DEF Once
    <2>. QED
        BY <2>1, <2>2, <2>3 DEF AllPresent
<1>. QED
    BY <1>1, SpecIInv, PTL
\* A ping is recorded by a thread that had it in hand, and what is in hand and
\* a ping has its command recorded already.
LEMMA PingStep ==
    IInv /\ PingAfterCommand /\ [Next]_vars => PingAfterCommand'
<1> SUFFICES ASSUME IInv, PingAfterCommand, [Next]_vars PROVE PingAfterCommand'
    OBVIOUS
<1>1. CASE Refuse \/ Enter \/ NoPasswordFile \/ PutCommand \/ Revert
    BY <1>1 DEF Refuse, Enter, NoPasswordFile, PutCommand, Revert, PingAfterCommand
<1>2. CASE Filled
    BY <1>2 DEF Filled, PingAfterCommand
<1>3. CASE Spawn \/ Spin \/ Join \/ Collect
    BY <1>3 DEF Spawn, Spin, Join, Collect, PingAfterCommand
<1>4. ASSUME NEW w \in Threads, Work(w) PROVE PingAfterCommand'
    <2>1. CASE GetTask(w) \/ Leave(w) \/ PutPing(w) \/ Execute(w)
        BY <2>1 DEF GetTask, Leave, PutPing, Execute, main, PingAfterCommand
    <2>2. CASE DryRunPing(w) \/ DryRunCommand(w) \/ Record(w)
        <3>1. /\ worker[w] \in {"dispatch", "done"} /\ pc' = pc
              /\ \E c : recorded' = Append(recorded, Entry(c, task[w]))
            BY <2>2 DEF DryRunPing, DryRunCommand, Record, main
        <3>2. PICK c : recorded' = Append(recorded, Entry(c, task[w]))
            BY <3>1
        <3>3. Working /\ pc \in {"spawn", "spin", "join"}
            BY <3>1 DEF IInv, ThreadInv, Working
        <3>4. task[w] \in Present
            BY <3>1 DEF Present, Handled, Hand, Busy
        <3>5. task[w].kind = "ping" =>
                  \E j \in 1 .. Len(recorded) : recorded[j].task = Power(task[w].node)
            BY <3>3, <3>4 DEF IInv, Account, OnlyThese, Recorded
        <3>6. /\ Len(recorded) \in Nat /\ DOMAIN recorded = 1 .. Len(recorded)
              /\ DOMAIN recorded' = (1 .. Len(recorded)) \cup {Len(recorded) + 1}
              /\ \A i \in 1 .. Len(recorded) : recorded'[i] = recorded[i]
              /\ recorded'[Len(recorded) + 1] = Entry(c, task[w])
            BY <3>2 DEF IInv, TypeOK
        <3>7. ASSUME NEW i \in DOMAIN recorded', recorded'[i].task.kind = "ping"
              PROVE  \E j \in 1 .. i - 1 : recorded'[j].task = Power(recorded'[i].task.node)
            <4>1. CASE i \in 1 .. Len(recorded)
                <5>1. PICK j \in 1 .. i - 1 : recorded[j].task = Power(recorded[i].task.node)
                    BY <3>3, <3>6, <3>7, <4>1 DEF PingAfterCommand
                <5>2. j \in 1 .. Len(recorded)
                    BY <3>6, <4>1
                <5>. QED
                    BY <3>6, <4>1, <5>1, <5>2
            <4>2. CASE i = Len(recorded) + 1
                <5>1. recorded'[i].task = task[w]
                    BY <3>6, <4>2 DEF Entry
                <5>2. PICK j \in 1 .. Len(recorded) : recorded[j].task = Power(task[w].node)
                    BY <3>5, <3>7, <5>1
                <5>3. j \in 1 .. i - 1
                    BY <3>6, <4>2
                <5>. QED
                    BY <3>6, <5>1, <5>2, <5>3
            <4>. QED
                BY <3>6, <4>1, <4>2
        <3>. QED
            BY <3>7 DEF PingAfterCommand
    <2>. QED
        BY <1>4, <2>1, <2>2 DEF Work
<1>5. CASE UNCHANGED vars
    BY <1>5 DEF vars, main, PingAfterCommand
<1>. QED
    BY <1>1, <1>2, <1>3, <1>4, <1>5 DEF Next, Caller

\* A node is not pinged before its command was carried out.
THEOREM SpecPingAfterCommand == Spec => []PingAfterCommand
<1>1. Init => PingAfterCommand
    BY DEF Init, PingAfterCommand
<1>. QED
    BY <1>1, PingStep, SpecIInv, PTL DEF Spec

\* The status of a call that is about to end, or of the last that has.
FailureKept ==
    /\ pc = "revert" /\ Failures # {} => log[call] # 0
    /\ FailureShows

\* A failure shows in the status once the results are collected, and what may
\* overwrite it is the failure of the modules to unload, or of the next call.
LEMMA FailureStep ==
    TypeOK /\ ThreadInv /\ FailureKept /\ [Next]_vars => FailureKept'
<1> SUFFICES ASSUME TypeOK, ThreadInv, FailureKept, [Next]_vars PROVE FailureKept'
    OBVIOUS
<1>1. call \in 1 .. Len(Calls) + 1 /\ Len(Calls) \in Nat /\ DOMAIN Calls = 1 .. Len(Calls)
      /\ DOMAIN log = DOMAIN Calls
    BY CallFacts DEF TypeOK
<1>2. CASE Refuse \/ NoPasswordFile
    <2>1. call \in DOMAIN log /\ call' = call + 1 /\ log'[call] = 1 /\ pc' = "enter"
        BY <1>1, <1>2 DEF Refuse, NoPasswordFile, TypeOK
    <2>2. call' - 1 = call
        BY <1>1, <2>1
    <2>. QED
        BY <2>1, <2>2 DEF FailureKept, FailureShows
<1>3. CASE Enter \/ PutCommand \/ Filled \/ Spawn \/ Spin \/ Join
    BY <1>3 DEF Enter, PutCommand, Filled, Spawn, Spin, Join, FailureKept, FailureShows
<1>4. CASE Collect
    <2>1. call \in DOMAIN log /\ pc' = "revert" /\ Failures' = Failures
        BY <1>1, <1>4 DEF Collect, TypeOK, Failures
    <2>2. Failures # {} => log'[call] # 0
        <3>1. ASSUME NEW i \in Failures, log' = [log EXCEPT ![call] = recorded[i].code]
              PROVE  log'[call] # 0
            BY <2>1, <3>1, FailureFacts
        <3>. QED
            BY <1>4, <3>1 DEF Collect
    <2>. QED
        BY <1>4, <2>1, <2>2 DEF Collect, FailureKept, FailureShows
<1>5. CASE Revert
    <2>1. /\ call \in DOMAIN log /\ call' = call + 1 /\ pc = "revert" /\ pc' = "enter"
          /\ Failures' = Failures /\ log'[call] \in {log[call], 1}
        BY <1>1, <1>5 DEF Revert, TypeOK, Failures
    <2>2. call' - 1 = call
        BY <1>1, <2>1
    <2>. QED
        BY <2>1, <2>2 DEF FailureKept, FailureShows
<1>6. ASSUME NEW w \in Threads, Work(w) PROVE FailureKept'
    <2>1. CASE worker[w] = "ended"
        BY <1>6, <2>1 DEF Work, GetTask, Leave, DryRunPing, DryRunCommand, PutPing, Execute, Record
    <2>2. CASE worker[w] # "ended"
        <3>1. pc' = pc /\ pc \in {"spawn", "spin", "join"}
            BY <1>6, <2>2 DEF ThreadInv, Work, GetTask, Leave, DryRunPing, DryRunCommand,
                              PutPing, Execute, Record, main
        <3>. QED
            BY <3>1 DEF FailureKept, FailureShows
    <2>. QED
        BY <2>1, <2>2
<1>7. CASE UNCHANGED vars
    BY <1>7 DEF vars, main, FailureKept, FailureShows, Failures
<1>. QED
    BY <1>2, <1>3, <1>4, <1>5, <1>6, <1>7 DEF Next, Caller

\* A command that failed shows in the status of its call.
THEOREM SpecFailureShows == Spec => []FailureShows
<1>1. Init => FailureKept
    BY DEF Init, FailureKept, FailureShows
<1>2. IInv => TypeOK /\ ThreadInv
    BY DEF IInv
<1>3. FailureKept => FailureShows
    BY DEF FailureKept
<1>. QED
    BY <1>1, <1>2, <1>3, FailureStep, SpecIInv, PTL DEF Spec

\* The status of a call is made from the results of all its tasks.
THEOREM SpecResultsRight == Spec => []ResultsRight
BY SpecEveryTaskRecorded, SpecFailureShows, PTL DEF ResultsRight
-----------------------------------------------------------------------------
(* execute() keeps the promise of PowerBatch: each step is one of its steps, *)
(* or none.                                                                  *)

\* Once the results were collected nothing is left to do.
NothingLeft == pc = "revert" => queue = <<>>

\* Every step keeps it.
LEMMA NothingLeftStep ==
    TypeOK /\ ThreadInv /\ QueueInv /\ NothingLeft /\ [Next]_vars => NothingLeft'
<1> SUFFICES ASSUME TypeOK, ThreadInv, QueueInv, NothingLeft, [Next]_vars PROVE NothingLeft'
    OBVIOUS
<1>1. CASE Caller
    BY <1>1 DEF Caller, Refuse, Enter, NoPasswordFile, PutCommand, Filled, Spawn, Spin, Join,
                Collect, Revert, NothingLeft, QueueInv
<1>2. ASSUME NEW w \in Threads, Work(w) PROVE NothingLeft'
    <2>1. CASE worker[w] = "ended"
        BY <1>2, <2>1 DEF Work, GetTask, Leave, DryRunPing, DryRunCommand, PutPing, Execute, Record
    <2>2. CASE worker[w] # "ended"
        BY <1>2, <2>2 DEF ThreadInv, Work, GetTask, Leave, DryRunPing, DryRunCommand,
                          PutPing, Execute, Record, main, NothingLeft
    <2>. QED
        BY <2>1, <2>2
<1>3. CASE UNCHANGED vars
    BY <1>3 DEF vars, main, NothingLeft
<1>. QED
    BY <1>1, <1>2, <1>3 DEF Next

\* A call is answered.
LEMMA PromiseAnswer ==
    ASSUME TypeOK, call <= Len(Calls), call' = call + 1
    PROVE  /\ (call - 1)' = (call - 1) + 1
           /\ LastAnswer' = IF log'[call] = 0 THEN "ok" ELSE "failed"
<1>1. call \in Nat \ {0} /\ call' # 1 /\ call' - 1 = call
    BY CallFacts DEF TypeOK
<1>. QED
    BY <1>1 DEF LastAnswer

\* What was recorded is what is done and what has failed.
LEMMA PromiseRecorded ==
    ASSUME recorded' = recorded
    PROVE  Recorded' = Recorded /\ Failed' = Failed
BY DEF Recorded, Failed, Failures

\* A call that is refused.
LEMMA PromiseRefuse ==
    ASSUME TypeOK, ThreadInv, Refuse \/ NoPasswordFile
    PROVE  Batch!Refuse
<1>1. /\ pc \in {"enter", "fill"} /\ pc' = "enter" /\ call' = call + 1 /\ log'[call] = 1
      /\ recorded' = recorded /\ call <= Len(Calls)
    BY CallFacts DEF Refuse, NoPasswordFile, TypeOK
<1>2. IsOpen = FALSE /\ IsOpen' = FALSE
    BY <1>1 DEF IsOpen, Working
<1>3. Todo' = Todo
    BY <1>2 DEF Todo
<1>4. LastAnswer' = "failed" /\ (call - 1)' = call - 1 + 1
    BY <1>1, PromiseAnswer
<1>5. UNCHANGED <<Recorded, Failed>>
    BY <1>1, PromiseRecorded
<1>6. ~IsOpen /\ IsOpen' = IsOpen
    BY <1>2
<1>. QED
    BY <1>3, <1>4, <1>5, <1>6 DEF Batch!Refuse, Batch!Answer

\* The commands are queued: the batch is opened.
LEMMA PromiseOpen ==
    ASSUME TypeOK, ThreadInv, QueueInv, Filled
    PROVE  Batch!Open
<1>1. /\ pc = "fill" /\ pc' = "spawn" /\ Len(queue) = Job.nodes
      /\ \A i \in 1 .. Job.nodes : queue[i] = Power(i)
      /\ queue' = queue /\ recorded' = <<>> /\ UNCHANGED <<worker, task, call, log>>
    BY DEF Filled, QueueInv, threads
<1>2. Job.nodes \in Nat \ {0} /\ \A n \in Nodes : Power(n) \in Tasks
    BY <1>1, JobFacts
<1>3. Handled' = {} /\ Recorded' = {} /\ Failed' = {}
    BY <1>1 DEF ThreadInv, Handled, Busy, Recorded, Failures, Failed
<1>4. Queued' = {Power(n) : n \in Nodes}
    BY <1>1 DEF Queued, Elements, Nodes
<1>5. Queued' \in (SUBSET {t \in Tasks : t.kind = "power"}) \ {{}}
    <2>1. \A n \in Nodes : Power(n).kind = "power"
        BY TaskFacts
    <2>2. 1 \in Nodes
        BY <1>2 DEF Nodes
    <2>. QED
        BY <1>2, <1>4, <2>1, <2>2
<1>6. IsOpen = FALSE /\ IsOpen' = TRUE
    BY <1>1 DEF IsOpen, Working
<1>7. Todo' = Queued' /\ (call - 1)' = call - 1 /\ LastAnswer' = LastAnswer
    BY <1>1, <1>3, <1>6 DEF Todo, LastAnswer
<1>. QED
    BY <1>3, <1>5, <1>6, <1>7 DEF Batch!Open

\* The call comes back: the batch is worked off.
LEMMA PromiseClose ==
    ASSUME TypeOK, ThreadInv, NothingLeft, FailureKept, Revert
    PROVE  Batch!Close
<1>1. /\ pc = "revert" /\ pc' = "enter" /\ call' = call + 1 /\ recorded' = recorded
      /\ log'[call] \in {log[call], 1} /\ call <= Len(Calls)
    BY CallFacts DEF Revert, TypeOK
<1>2. IsOpen = TRUE /\ IsOpen' = FALSE
    BY <1>1 DEF IsOpen, Working
<1>3. Todo = {} /\ Todo' = {}
    <2>1. \A w \in Threads : ~Busy(w)
        BY <1>1 DEF ThreadInv, Busy
    <2>2. queue = <<>>
        BY <1>1 DEF NothingLeft
    <2>3. Queued = {} /\ Handled = {}
        BY <2>1, <2>2 DEF Queued, Elements, Handled
    <2>. QED
        BY <1>2, <2>3 DEF Todo
<1>4. log'[call] = 0 => Failed = {}
    BY <1>1 DEF FailureKept, Failed
<1>. QED
    BY <1>1, <1>2, <1>3, <1>4, PromiseAnswer, PromiseRecorded DEF Batch!Close, Batch!Answer

\* The thread of a step that is none of the promise: no task changes place
\* but between the queue and the threads.
LEMMA PromiseStutter ==
    ASSUME IsOpen, IsOpen', UNCHANGED <<call, log, recorded>>,
           Queued' \cup Handled' = Queued \cup Handled
    PROVE  UNCHANGED Batch!vars
<1>1. Todo' = Todo /\ LastAnswer' = LastAnswer /\ (call - 1)' = call - 1
    BY DEF Todo, LastAnswer
<1>2. IsOpen' = IsOpen
    BY DEF IsOpen, Working
<1>. QED
    BY <1>1, <1>2, PromiseRecorded DEF Batch!vars

\* A task that is recorded is carried out; what was recorded before has failed
\* or not, as it had.
LEMMA PromiseFailed ==
    ASSUME TypeOK, NEW c, NEW t, recorded' = Append(recorded, Entry(c, t))
    PROVE  Failed' \in {Failed, Failed \cup {t}}
<1>1. /\ Len(recorded) \in Nat /\ DOMAIN recorded = 1 .. Len(recorded)
      /\ DOMAIN recorded' = (1 .. Len(recorded)) \cup {Len(recorded) + 1}
      /\ \A i \in 1 .. Len(recorded) : recorded'[i] = recorded[i]
      /\ recorded'[Len(recorded) + 1] = Entry(c, t)
    BY DEF TypeOK
<1>2. Entry(c, t).code = c /\ Entry(c, t).task = t
    BY DEF Entry
<1>3. CASE c = 0
    <2>1. Failures' = Failures
        BY <1>1, <1>2, <1>3 DEF Failures
    <2>2. \A i \in Failures : recorded'[i] = recorded[i]
        BY <1>1 DEF Failures
    <2>. QED
        BY <2>1, <2>2 DEF Failed
<1>4. CASE c # 0
    <2>1. Failures' = Failures \cup {Len(recorded) + 1}
        BY <1>1, <1>2, <1>4 DEF Failures
    <2>2. \A i \in Failures : recorded'[i] = recorded[i]
        BY <1>1 DEF Failures
    <2>3. Failed' = Failed \cup {t}
        <3>1. recorded'[Len(recorded) + 1].task = t
            BY <1>1, <1>2
        <3>2. Failed' = {recorded'[i].task : i \in Failures'}
            BY DEF Failed
        <3>3. \A x : x \in Failed' <=>
                  x = t \/ \E i \in Failures : x = recorded[i].task
            BY <2>1, <2>2, <3>1, <3>2
        <3>. QED
            BY <3>3 DEF Failed
    <2>. QED
        BY <2>3
<1>. QED
    BY <1>3, <1>4
\* A step of a thread carries out the task that it has in hand, or moves one
\* from the queue to its hands or back.
LEMMA PromiseWork ==
    ASSUME TypeOK, ThreadInv, Account, NEW w \in Threads, Work(w)
    PROVE  [\E t \in Todo : Batch!Perform(t)]_(Batch!vars)
<1>1. /\ worker[w] # "ended" /\ pc' = pc /\ call' = call /\ log' = log
    BY DEF Work, GetTask, Leave, DryRunPing, DryRunCommand, PutPing, Execute, Record, main
<1>2. /\ Working /\ OnePlace /\ OnlyThese
      /\ queue \in Seq(Tasks) /\ task[w] \in Tasks
    BY <1>1 DEF ThreadInv, Working, Account, TypeOK
<1>3. IsOpen = TRUE /\ IsOpen' = TRUE
    BY <1>1, <1>2 DEF IsOpen, Working
<1>4. \A v \in Threads \ {w} : worker'[v] = worker[v] /\ task'[v] = task[v]
    BY DEF Work, GetTask, Leave, DryRunPing, DryRunCommand, PutPing, Execute, Record,
           Becomes, TypeOK
<1>5. /\ Handled = Besides(w) \cup IF Busy(w) THEN {Hand(w)} ELSE {}
      /\ Handled' = Besides(w) \cup IF Busy(w)' THEN {Hand(w)'} ELSE {}
      /\ Busy(w) => Hand(w) \notin Besides(w)
    BY <1>2, <1>4, HandFacts DEF OnePlace
<1>6. Todo = Queued \cup Handled /\ Todo' = Queued' \cup Handled'
    BY <1>3 DEF Todo
<1>7. LastAnswer' = LastAnswer /\ (call - 1)' = call - 1
    BY <1>1 DEF LastAnswer
<1>8. CASE GetTask(w)
    <2>1. /\ ~Busy(w) /\ Busy(w)' /\ Hand(w)' = Head(queue) /\ queue' = Tail(queue)
          /\ queue # <<>> /\ recorded' = recorded
        BY <1>8 DEF GetTask, Becomes, Busy, Hand, TypeOK
    <2>2. Queued = Queued' \cup {Head(queue)}
        BY <1>2, <2>1, TailFacts DEF OnePlace, Queued, Elements
    <2>. QED
        BY <1>1, <1>3, <1>5, <2>1, <2>2, PromiseStutter
<1>9. CASE Leave(w) \/ Execute(w)
    <2>1. /\ Busy(w)' = Busy(w) /\ (Busy(w) => Hand(w)' = Hand(w))
          /\ UNCHANGED <<queue, recorded>>
        BY <1>9 DEF Leave, Execute, Becomes, Busy, Hand, TypeOK
    <2>2. Queued' = Queued
        BY <2>1 DEF Queued, Elements
    <2>. QED
        BY <1>1, <1>3, <1>5, <2>1, <2>2, PromiseStutter
<1>10. CASE PutPing(w)
    <2>1. /\ Busy(w) /\ ~Busy(w)' /\ Hand(w) = Ping(task[w].node)
          /\ queue' = Append(queue, Hand(w)) /\ recorded' = recorded
        BY <1>10 DEF PutPing, Becomes, Busy, Hand, TypeOK
    <2>2. Hand(w) \in Tasks
        BY <1>2, <2>1, TaskType
    <2>3. Queued' = Queued \cup {Hand(w)}
        BY <1>2, <2>1, <2>2, AppendFacts DEF Queued, Elements
    <2>. QED
        BY <1>1, <1>3, <1>5, <2>1, <2>3, PromiseStutter
<1>11. CASE DryRunPing(w) \/ Record(w)
    <2>1. /\ Busy(w) /\ ~Busy(w)' /\ Hand(w) = task[w] /\ queue' = queue
          /\ \E c : recorded' = Append(recorded, Entry(c, task[w]))
        BY <1>11 DEF DryRunPing, Record, Becomes, Busy, Hand, TypeOK
    <2>2. task[w] \notin Recorded /\ task[w] \notin Queued /\ task[w] \in Todo
        BY <1>2, <1>5, <1>6, <2>1 DEF OnePlace
    <2>3. Recorded' = Recorded \cup {task[w]}
        BY <1>2, <2>1, <2>2, RecordFacts DEF OnePlace, Entry
    <2>4. Queued' = Queued
        BY <2>1 DEF Queued, Elements
    <2>5. Todo' = Todo \ {task[w]}
        BY <1>5, <1>6, <2>1, <2>2, <2>4
    <2>6. Failed' \in {Failed, Failed \cup {task[w]}}
        BY <2>1, PromiseFailed
    <2>7. Batch!Perform(task[w])
        BY <1>3, <1>7, <2>2, <2>3, <2>5, <2>6 DEF Batch!Perform
    <2>. QED
        BY <2>2, <2>7
<1>12. CASE DryRunCommand(w)
    <2> DEFINE n == task[w].node
    <2>1. /\ Busy(w) /\ Busy(w)' /\ Hand(w) = task[w] /\ Hand(w)' = Ping(n) /\ queue' = queue
          /\ recorded' = Append(recorded, Entry(0, task[w])) /\ Job.dryrun
          /\ task[w].kind = "power"
        BY <1>12 DEF DryRunCommand, Becomes, Busy, Hand, TypeOK
    <2>2. task[w] = Power(n) /\ Power(n) # Ping(n)
        BY <1>2, <2>1, TaskType, TaskFacts
    <2>3. task[w] \notin Recorded /\ task[w] \notin Queued /\ task[w] \in Todo
        BY <1>2, <1>5, <1>6, <2>1 DEF OnePlace
    <2>4. Ping(n) \notin Todo \cup Recorded
        BY <1>2, <1>6, <2>2, <2>3, TaskFacts DEF OnlyThese, Present
    <2>5. Recorded' = Recorded \cup {task[w]}
        BY <1>2, <2>1, <2>3, RecordFacts DEF OnePlace, Entry
    <2>6. Queued' = Queued
        BY <2>1 DEF Queued, Elements
    <2>7. Todo' = (Todo \ {task[w]}) \cup {Ping(n)}
        BY <1>5, <1>6, <2>1, <2>3, <2>6
    <2>8. Failed' \in {Failed, Failed \cup {task[w]}}
        BY <2>1, PromiseFailed
    <2>9. /\ <<task[w], Ping(n)>> \in
                {<<t, Ping(t.node)>> : t \in {u \in Tasks : u.kind = "power"}}
          /\ <<task[w], Ping(n)>>[1] = task[w] /\ <<task[w], Ping(n)>>[2] = Ping(n)
        BY <1>2, <2>1
    <2>10. Batch!Perform(task[w])
        BY <1>3, <1>7, <2>3, <2>4, <2>5, <2>7, <2>8, <2>9 DEF Batch!Perform
    <2>. QED
        BY <2>3, <2>10
<1>. QED
    BY <1>8, <1>9, <1>10, <1>11, <1>12 DEF Work

\* execute() with its queue and its threads implements the batch of tasks, for
\* any calls: each task is carried out once, a call is answered when nothing is
\* left to do, and a task that failed shows in the answer.
THEOREM SpecPromise == Spec => Batch!SafeSpec
<1>1. Init => Batch!Init
    <2> SUFFICES ASSUME Init PROVE Batch!Init
        OBVIOUS
    <2>1. IsOpen = FALSE /\ Recorded = {} /\ Failed = {}
        BY DEF Init, IsOpen, Working, Recorded, Failed, Failures
    <2>2. Todo = {} /\ call - 1 = 0 /\ LastAnswer = "none"
        BY <2>1 DEF Init, Todo, LastAnswer
    <2>. QED
        BY <2>1, <2>2 DEF Batch!Init
<1>2. /\ Init => NothingLeft /\ FailureKept
      /\ IInv => TypeOK /\ ThreadInv /\ QueueInv /\ Account
    BY DEF Init, NothingLeft, FailureKept, FailureShows, IInv
<1>3. IInv /\ NothingLeft /\ FailureKept /\ [Next]_vars => [Batch!Next]_(Batch!vars)
    <2> SUFFICES ASSUME IInv, NothingLeft, FailureKept, [Next]_vars
                 PROVE  [Batch!Next]_(Batch!vars)
        OBVIOUS
    <2>1. TypeOK /\ ThreadInv /\ QueueInv /\ Account
        BY DEF IInv
    <2>2. CASE Refuse \/ NoPasswordFile
        BY <2>1, <2>2, PromiseRefuse DEF Batch!Next
    <2>3. CASE Filled
        BY <2>1, <2>3, PromiseOpen DEF Batch!Next
    <2>4. CASE Revert
        BY <2>1, <2>4, PromiseClose DEF Batch!Next
    <2>5. CASE Enter \/ PutCommand
        <3>1. IsOpen = FALSE /\ IsOpen' = FALSE /\ UNCHANGED <<call, log, recorded>>
            BY <2>5 DEF Enter, PutCommand, IsOpen, Working
        <3>2. Todo' = Todo /\ LastAnswer' = LastAnswer /\ (call - 1)' = call - 1
            BY <3>1 DEF Todo, LastAnswer
        <3>. QED
            BY <3>1, <3>2, PromiseRecorded DEF Batch!vars
    <2>6. CASE Spawn
        <3>1. started' \in Threads /\ started < started' /\ worker[started'] = "ended"
            BY <2>1, <2>6, SpawnFacts DEF ThreadInv
        <3>2. \A w \in Threads : (Busy(w)' <=> Busy(w)) /\ (Busy(w) => Hand(w)' = Hand(w))
            BY <2>1, <2>6, <3>1 DEF Spawn, Busy, Hand, TypeOK
        <3>3. Handled' = Handled /\ Queued' = Queued
            BY <2>6, <3>2 DEF Spawn, Handled, Queued, Elements
        <3>. QED
            BY <2>6, <3>3, PromiseStutter DEF Spawn, IsOpen, Working
    <2>7. CASE Spin \/ Join
        <3>1. Handled' = Handled /\ Queued' = Queued
            BY <2>7 DEF Spin, Join, Handled, Queued, Elements, Busy, Hand, threads
        <3>. QED
            BY <2>7, <3>1, PromiseStutter DEF Spin, Join, IsOpen, Working
    <2>8. CASE Collect
        <3>1. IsOpen = TRUE /\ IsOpen' = TRUE
              /\ Handled' = Handled /\ Queued' = Queued /\ call' = call /\ recorded' = recorded
            BY <2>8 DEF Collect, Handled, Queued, Elements, Busy, Hand, threads, IsOpen, Working
        <3>2. call # 1 => log'[call - 1] = log[call - 1]
            <4>1. TypeOK
                BY <2>1 DEF IInv
            <4>2. call # 1 => call - 1 \in DOMAIN Calls /\ call - 1 # call
                BY CallFacts, <4>1 DEF TypeOK
            <4>3. log \in [DOMAIN Calls -> Codes \cup {Unset, 0, 1, BadInput}]
                BY <4>1 DEF TypeOK
            <4>4. \E a : log' = [log EXCEPT ![call] = a]
                BY <2>8 DEF Collect
            <4>. QED
                BY <4>2, <4>3, <4>4
        <3>3. Todo' = Todo /\ LastAnswer' = LastAnswer /\ (call - 1)' = call - 1
            BY <3>1, <3>2 DEF Todo, LastAnswer
        <3>. QED
            BY <3>1, <3>3, PromiseRecorded DEF Batch!vars
    <2>9. ASSUME NEW w \in Threads, Work(w) PROVE [Batch!Next]_(Batch!vars)
        BY <2>1, <2>9, PromiseWork DEF Batch!Next
    <2>10. CASE UNCHANGED vars
        <3>1. /\ Handled' = Handled /\ Queued' = Queued /\ IsOpen' = IsOpen
              /\ UNCHANGED <<call, log, recorded>>
            BY <2>10 DEF vars, main, threads, Handled, Queued, Elements, Busy, Hand, IsOpen, Working
        <3>2. Todo' = Todo /\ LastAnswer' = LastAnswer /\ (call - 1)' = call - 1
            BY <3>1 DEF Todo, LastAnswer
        <3>. QED
            BY <3>1, <3>2, PromiseRecorded DEF Batch!vars
    <2>. QED
        BY <2>2, <2>3, <2>4, <2>5, <2>6, <2>7, <2>8, <2>9, <2>10 DEF Next, Caller
<1>4. IInv /\ NothingLeft /\ FailureKept /\ [Next]_vars => (NothingLeft /\ FailureKept)'
    BY <1>2, NothingLeftStep, FailureStep
<1>. QED
    BY <1>1, <1>2, <1>3, <1>4, SpecIInv, PTL DEF Spec, Batch!SafeSpec
=============================================================================
