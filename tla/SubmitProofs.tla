----------------------------- MODULE SubmitProofs -----------------------------
(* Proofs about the threads that serve the clients' POSTs, for any number of *)
(* clients and every choice of what they report, of the constraints and of   *)
(* how often the connection is lost.                                         *)
EXTENDS Submit, TLAPS

(* What an insert needs to know of the columns.                              *)

\* The columns that are filled when step s begins.
Ready(ph, s) == {Plan[ph][i] : i \in 1 .. s - 1} \cup IF s > 2 THEN Copied[ph] ELSE {}

\* The columns of a plan, and where the parent's is.
LEMMA PlanFacts ==
    ASSUME NEW ph \in Phases, NEW s \in DOMAIN Plan[ph]
    PROVE  /\ s \in Nat /\ s > 0
           /\ Plan[ph][s] \in Columns /\ TableOf[Plan[ph][s]] \in Tables
           /\ Plan[ph][s] # ph => s + 1 \in DOMAIN Plan[ph]
           /\ Plan[ph][s] = Parent[ph] =>
                 s = 2 /\ TableOf[Plan[ph][s]] = Plan[ph][s] /\ Plan[ph][s] # ph
<1>1. CASE ph = "mpi_install"
    <2>1. Plan[ph] = InstallPlan /\ s \in 1 .. 9 /\ Parent[ph] = "none"
        BY <1>1 DEF Plan, InstallPlan, Parent
    <2>. QED
        BY <1>1, <2>1 DEF InstallPlan, Columns, TableOf, Tables
<1>2. CASE ph = "test_build"
    <2>1. Plan[ph] = BuildPlan /\ s \in 1 .. 8 /\ Parent[ph] = "mpi_install"
        BY <1>2 DEF Plan, BuildPlan, Parent
    <2>. QED
        BY <1>2, <2>1 DEF BuildPlan, Columns, TableOf, Tables
<1>3. CASE ph = "test_run"
    <2>1. Plan[ph] = RunPlan /\ s \in 1 .. 8 /\ Parent[ph] = "test_build"
        BY <1>3 DEF Plan, RunPlan, Parent
    <2>. QED
        BY <1>3, <2>1 DEF RunPlan, Columns, TableOf, Tables
<1>. QED
    BY <1>1, <1>2, <1>3 DEF Phases

\* Only the row's own number goes into the phase's table.
LEMMA OwnTable ==
    ASSUME NEW ph \in Phases, NEW s \in DOMAIN Plan[ph], Plan[ph][s] # Parent[ph]
    PROVE  /\ TableOf[Plan[ph][s]] \in Phases <=> Plan[ph][s] = ph
           /\ TableOf[ph] = ph
<1>1. CASE ph = "mpi_install"
    <2>1. Plan[ph] = InstallPlan /\ s \in 1 .. 9
        BY <1>1 DEF Plan, InstallPlan
    <2>. QED
        BY <1>1, <2>1 DEF InstallPlan, TableOf, Phases
<1>2. CASE ph = "test_build"
    <2>1. Plan[ph] = BuildPlan /\ s \in 1 .. 8 /\ Parent[ph] = "mpi_install"
        BY <1>2 DEF Plan, BuildPlan, Parent
    <2>. QED
        BY <1>2, <2>1 DEF BuildPlan, TableOf, Phases
<1>3. CASE ph = "test_run"
    <2>1. Plan[ph] = RunPlan /\ s \in 1 .. 8 /\ Parent[ph] = "test_build"
        BY <1>3 DEF Plan, RunPlan, Parent
    <2>. QED
        BY <1>3, <2>1 DEF RunPlan, TableOf, Phases
<1>. QED
    BY <1>1, <1>2, <1>3 DEF Phases

\* A row of a phase has the columns that its children copy.
LEMMA ReadyRow ==
    ASSUME NEW ph \in Phases, NEW s \in DOMAIN Plan[ph], Plan[ph][s] = ph
    PROVE  DOMAIN Dummy(ph).refs \subseteq Ready(ph, s)
<1>1. CASE ph = "mpi_install"
    <2>1. Plan[ph] = InstallPlan /\ s \in 1 .. 9
        BY <1>1 DEF Plan, InstallPlan
    <2>2. s = 9
        BY <1>1, <2>1 DEF InstallPlan
    <2>3. \A i \in 1 .. 8 : InstallPlan[i] \in Ready(ph, s)
        BY <2>1, <2>2 DEF Ready
    <2>4. DOMAIN Dummy(ph).refs = FromInstall
        BY <1>1 DEF Dummy, Row
    <2>. QED
        BY <2>3, <2>4 DEF FromInstall, InstallPlan
<1>2. CASE ph = "test_build"
    <2>1. Plan[ph] = BuildPlan /\ s \in 1 .. 8 /\ Copied[ph] = FromInstall
        BY <1>2 DEF Plan, BuildPlan, Copied
    <2>2. s = 8
        BY <1>2, <2>1 DEF BuildPlan
    <2>3. (\A i \in 1 .. 7 : BuildPlan[i] \in Ready(ph, s)) /\ FromInstall \subseteq Ready(ph, s)
        BY <2>1, <2>2 DEF Ready
    <2>4. DOMAIN Dummy(ph).refs = FromBuild
        BY <1>2 DEF Dummy, Row
    <2>. QED
        BY <2>3, <2>4 DEF FromBuild, BuildPlan
<1>3. CASE ph = "test_run"
    BY <1>3 DEF Dummy, Row, Nothing
<1>. QED
    BY <1>1, <1>2, <1>3 DEF Phases

\* One more column, or at the parent's column, all that are copied.
LEMMA ReadyNext ==
    ASSUME NEW ph \in Phases, NEW s \in DOMAIN Plan[ph], Plan[ph][s] # ph
    PROVE  /\ Plan[ph][s] # Parent[ph] =>
                 Ready(ph, s + 1) \subseteq Ready(ph, s) \cup {Plan[ph][s]}
           /\ Ready(ph, s + 1) \subseteq Ready(ph, s) \cup {Plan[ph][s]} \cup Copied[ph]
<1>1. s \in Nat /\ s > 0
    BY PlanFacts
<1>2. {Plan[ph][i] : i \in 1 .. (s + 1) - 1}
          \subseteq {Plan[ph][i] : i \in 1 .. s - 1} \cup {Plan[ph][s]}
    BY <1>1
<1>3. s = 2 /\ Plan[ph][s] # Parent[ph] => Copied[ph] = {}
    BY DEF Phases, Plan, InstallPlan, BuildPlan, RunPlan, Parent, Copied
<1>. QED
    BY <1>1, <1>2, <1>3 DEF Ready

\* What is copied is there in every row of the parent's table.
LEMMA CopiedFacts ==
    ASSUME NEW ph \in Phases, NEW s \in DOMAIN Plan[ph], Plan[ph][s] = Parent[ph]
    PROVE  /\ Copied[ph] \subseteq Columns
           /\ Copied[ph] \subseteq DOMAIN Dummy(Parent[ph]).refs
<1>1. CASE ph = "mpi_install"
    BY <1>1 DEF Copied
<1>2. CASE ph = "test_build"
    BY <1>2 DEF Copied, Parent, Dummy, Row, FromInstall, Columns, TableOf
<1>3. CASE ph = "test_run"
    BY <1>3 DEF Copied, Parent, Dummy, Row, FromInstall, FromBuild, Columns, TableOf
<1>. QED
    BY <1>1, <1>2, <1>3 DEF Phases
-----------------------------------------------------------------------------
(* Type correctness.  The rows are typed only if a parent has every column   *)
(* that is copied from it, so the invariant keeps count of the columns       *)
(* that a thread has filled.                                                 *)

DatabaseOK ==
    /\ DOMAIN stored = Tables /\ DOMAIN pending = Tables
    /\ seq \in [Tables -> Nat] /\ gen \in 0 .. MaxDrops
    /\ broken \in BOOLEAN /\ link \in {"up", "dead", "closed"}
    /\ link # "up" => gen < MaxDrops
    /\ faults \in BOOLEAN

HandsOK ==
    /\ drawn \in [Clients -> Nat] /\ parent \in [Clients -> Nat]
    /\ DOMAIN cursor = Clients /\ \A c \in Clients : cursor[c] \in 0 .. gen

PostOK(c) ==
    /\ post[c] \in 1 .. Len(Session[c]) + 1
    /\ DOMAIN refs[c] \subseteq Columns /\ refs[c] \in [DOMAIN refs[c] -> Nat]
    /\ ~Done(c) =>
          /\ step[c] \in DOMAIN Plan[Phase(c)]
          /\ Ready(Phase(c), step[c]) \subseteq DOMAIN refs[c]
          /\ at[c] \in {"nextval", "insert", "commit"} => Column(c) # Parent[Phase(c)]
          /\ at[c] = "info" => Column(c) = Parent[Phase(c)]

PostsOK ==
    /\ post \in [Clients -> Nat] /\ step \in [Clients -> Nat]
    /\ at \in [Clients -> {"column", "nextval", "insert", "commit", "info"}]
    /\ DOMAIN refs = Clients
    /\ given \in [Clients -> [{"mpi_install", "test_build"} -> Nat]]
    /\ answers \in [Phases -> {answers[ph] : ph \in Phases}]
    /\ \A c \in Clients : PostOK(c)

WideRow(t, r) == IsRow(r) /\ DOMAIN Dummy(t).refs \subseteq DOMAIN r.refs
RowsOK == \A t \in Tables : \A r \in Told(t) : WideRow(t, r)

TInv == DatabaseOK /\ HandsOK /\ PostsOK /\ RowsOK

\* The invariant says more than the types.
LEMMA TInvTypes == TInv => TypeOK
BY DEF TInv, DatabaseOK, HandsOK, PostsOK, PostOK, RowsOK, WideRow, TypeOK

\* What a thread with a POST under way works on.
LEMMA PostFacts ==
    ASSUME NEW c \in Clients, PostOK(c), ~Done(c)
    PROVE  /\ Len(Session[c]) \in Nat /\ post[c] \in 1 .. Len(Session[c])
           /\ Phase(c) \in Phases /\ step[c] \in DOMAIN Plan[Phase(c)]
           /\ Column(c) \in Columns /\ Table(c) \in Tables
<1>1. Len(Session[c]) \in Nat /\ post[c] \in 1 .. Len(Session[c])
    BY SessionAssumption DEF PostOK, Done
<1>2. Phase(c) \in Phases
    BY <1>1, SessionAssumption DEF Phase, IsPayload
<1>3. step[c] \in DOMAIN Plan[Phase(c)]
    BY DEF PostOK
<1>. QED
    BY <1>1, <1>2, <1>3, PlanFacts DEF Column, Table

\* A POST begins with no column filled.
LEMMA FirstColumn == \A ph \in Phases : 1 \in DOMAIN Plan[ph] /\ Ready(ph, 1) = {}
<1> SUFFICES ASSUME NEW ph \in Phases PROVE 1 \in DOMAIN Plan[ph] /\ Ready(ph, 1) = {}
    OBVIOUS
<1>1. 1 \in DOMAIN Plan[ph]
    BY DEF Phases, Plan, InstallPlan, BuildPlan, RunPlan
<1>. QED
    BY <1>1 DEF Ready

\* A thread that begins with another POST.
LEMMA NextPostOK ==
    ASSUME PostsOK, NEW c \in Clients, ~Done(c), NEW k \in 1 .. Len(Session[c]) + 1,
           NextPost(c, k)
    PROVE  /\ post' \in [Clients -> Nat] /\ step' \in [Clients -> Nat]
           /\ at' \in [Clients -> {"column", "nextval", "insert", "commit", "info"}]
           /\ DOMAIN refs' = Clients /\ \A d \in Clients : PostOK(d)'
<1>1. Len(Session[c]) \in Nat
    BY PostFacts DEF PostsOK
<1>2. /\ post' \in [Clients -> Nat] /\ step' \in [Clients -> Nat]
      /\ at' \in [Clients -> {"column", "nextval", "insert", "commit", "info"}]
      /\ DOMAIN refs' = Clients
    BY <1>1 DEF PostsOK, NextPost
<1>3. PostOK(c)'
    <2>1. post'[c] = k /\ at'[c] = "column" /\ step'[c] = 1 /\ refs'[c] = Nothing
        BY DEF PostsOK, NextPost
    <2>2. DOMAIN Nothing \subseteq Columns /\ Nothing \in [DOMAIN Nothing -> Nat]
        BY DEF Nothing
    <2>3. ASSUME ~Done(c)' PROVE Phase(c)' \in Phases
        <3>1. k \in 1 .. Len(Session[c])
            BY <1>1, <2>1, <2>3 DEF Done
        <3>. QED
            BY <2>1, <3>1, SessionAssumption DEF Phase, IsPayload
    <2>. QED
        BY <2>1, <2>2, <2>3, FirstColumn DEF PostOK
<1>4. ASSUME NEW d \in Clients, d # c PROVE PostOK(d)'
    <2>1. post'[d] = post[d] /\ at'[d] = at[d] /\ step'[d] = step[d] /\ refs'[d] = refs[d]
        BY <1>4 DEF PostsOK, NextPost
    <2>. QED
        BY <2>1 DEF PostsOK, PostOK, Done, Phase, Column
<1>. QED
    BY <1>2, <1>3, <1>4

\* A thread that answers with an error.
LEMMA AnswerErrorOK ==
    ASSUME PostsOK, NEW c \in Clients, ~Done(c), AnswerError(c)
    PROVE  PostsOK'
<1>1. PICK k \in 1 .. Len(Session[c]) + 2 :
          Resumes(c, k) /\ NextPost(c, k) /\ UNCHANGED <<given, answers>>
    BY DEF AnswerError
<1>2. Len(Session[c]) \in Nat /\ post[c] \in 1 .. Len(Session[c])
    BY PostFacts DEF PostsOK
<1>3. k \in 1 .. Len(Session[c]) + 1
    BY <1>1, <1>2 DEF Resumes, MoreInstalls, Sections
<1>. QED
    BY <1>1, <1>3, NextPostOK DEF PostsOK

\* A thread that answers with an id.
LEMMA AnswerIdOK ==
    ASSUME PostsOK, NEW c \in Clients, ~Done(c), NEW i \in Nat, AnswerId(c, i)
    PROVE  PostsOK'
<1>1. Phase(c) \in Phases /\ post[c] + 1 \in 1 .. Len(Session[c]) + 1
    BY PostFacts DEF PostsOK
<1>2. given' \in [Clients -> [{"mpi_install", "test_build"} -> Nat]]
    <2>1. CASE Phase(c) = "test_run"
        BY <2>1 DEF AnswerId, PostsOK
    <2>2. CASE Phase(c) \in {"mpi_install", "test_build"}
        BY <2>2 DEF AnswerId, PostsOK
    <2>. QED
        BY <1>1, <2>1, <2>2 DEF Phases
<1>3. answers' \in [Phases -> {answers'[ph] : ph \in Phases}]
    BY DEF AnswerId, PostsOK
<1>. QED
    BY <1>1, <1>2, <1>3, NextPostOK DEF PostsOK, AnswerId

\* A thread that has its value, and goes on to the next column.
LEMMA TakeOK ==
    ASSUME PostsOK, NEW c \in Clients, ~Done(c), NEW i \in Nat, Take(c, i),
           Column(c) # Parent[Phase(c)]
    PROVE  PostsOK'
<1>1. CASE Column(c) = Phase(c)
    BY <1>1, AnswerIdOK DEF Take
<1>2. CASE Column(c) # Phase(c)
    <2>1. /\ refs' = [refs EXCEPT ![c] = Filled(c, Column(c), i)]
          /\ at' = [at EXCEPT ![c] = "column"]
          /\ step' = [step EXCEPT ![c] = step[c] + 1]
          /\ UNCHANGED <<post, given, answers>>
        BY <1>2 DEF Take, client
    <2>2. Phase(c) \in Phases /\ step[c] \in DOMAIN Plan[Phase(c)] /\ Column(c) \in Columns
        BY PostFacts DEF PostsOK
    <2>3. step[c] \in Nat /\ step[c] + 1 \in DOMAIN Plan[Phase(c)]
        BY <1>2, <2>2, PlanFacts DEF Column
    <2>4. PostOK(c)'
        <3>1. /\ post'[c] = post[c] /\ at'[c] = "column" /\ step'[c] = step[c] + 1
              /\ refs'[c] = Filled(c, Column(c), i)
            BY <2>1 DEF PostsOK
        <3>2. DOMAIN refs[c] \subseteq Columns /\ refs[c] \in [DOMAIN refs[c] -> Nat]
            BY DEF PostsOK, PostOK
        <3>3. /\ DOMAIN refs'[c] = DOMAIN refs[c] \cup {Column(c)}
              /\ refs'[c] \in [DOMAIN refs'[c] -> Nat]
            BY <3>1, <3>2 DEF Filled
        <3>4. Ready(Phase(c), step[c] + 1) \subseteq Ready(Phase(c), step[c]) \cup {Column(c)}
            BY <1>2, <2>2, ReadyNext DEF Column
        <3>5. Phase(c)' = Phase(c) /\ post[c] \in 1 .. Len(Session[c]) + 1
            BY <3>1 DEF Phase, PostsOK, PostOK
        <3>6. Ready(Phase(c), step[c]) \subseteq DOMAIN refs[c]
            BY DEF PostsOK, PostOK
        <3>. QED
            BY <2>2, <2>3, <3>1, <3>2, <3>3, <3>4, <3>5, <3>6 DEF PostOK
    <2>5. ASSUME NEW d \in Clients, d # c PROVE PostOK(d)'
        BY <2>1, <2>5 DEF PostsOK, PostOK, Done, Phase, Column
    <2>. QED
        BY <2>1, <2>3, <2>4, <2>5 DEF PostsOK
<1>. QED
    BY <1>1, <1>2

\* A thread that goes on at the same column.
LEMMA StayOK ==
    ASSUME PostsOK, NEW c \in Clients, ~Done(c), UNCHANGED <<client, step, refs>>,
           NEW s \in {"nextval", "insert", "commit", "info"},
           at' = [at EXCEPT ![c] = s],
           s = "info" <=> Column(c) = Parent[Phase(c)]
    PROVE  PostsOK'
<1>1. at' \in [Clients -> {"column", "nextval", "insert", "commit", "info"}]
    BY DEF PostsOK
<1>2. ASSUME NEW d \in Clients PROVE PostOK(d)'
    <2>1. CASE d = c
        BY <2>1 DEF PostsOK, PostOK, Done, Phase, Column, client
    <2>2. CASE d # c
        BY <2>2 DEF PostsOK, PostOK, Done, Phase, Column, client
    <2>. QED
        BY <2>1, <2>2
<1>. QED
    BY <1>1, <1>2 DEF PostsOK, client

\* A thread that copies its parent's columns.
LEMMA ReadParentOK ==
    ASSUME PostsOK, RowsOK, HandsOK, NEW c \in Clients, ReadParent(c)
    PROVE  PostsOK'
<1> DEFINE row == RowOf(Table(c), parent[c])
           new == Copied[Phase(c)] \cup {Column(c)}
           f == [col \in DOMAIN refs[c] \cup new |->
                   IF col = Column(c) THEN parent[c]
                   ELSE IF col \in new THEN row.refs[col] ELSE refs[c][col]]
<1>1. /\ refs' = [refs EXCEPT ![c] = f] /\ at' = [at EXCEPT ![c] = "column"]
      /\ step' = [step EXCEPT ![c] = step[c] + 1]
      /\ UNCHANGED <<post, given, answers>> /\ ~Done(c)
    BY DEF ReadParent, client
<1>2. /\ Phase(c) \in Phases /\ step[c] \in DOMAIN Plan[Phase(c)]
      /\ Column(c) \in Columns /\ Table(c) \in Tables /\ Column(c) = Parent[Phase(c)]
      /\ Ready(Phase(c), step[c]) \subseteq DOMAIN refs[c]
    BY <1>1, PostFacts DEF PostsOK, PostOK, ReadParent
<1>3. Table(c) = Parent[Phase(c)] /\ Column(c) # Phase(c)
    BY <1>2, PlanFacts DEF Column, Table
<1>4. step[c] + 1 \in DOMAIN Plan[Phase(c)] /\ step[c] \in Nat
    BY <1>2, <1>3, PlanFacts DEF Column
<1>5. row \in Visible(Table(c))
    BY DEF ReadParent, Exists, RowOf
<1>6. Copied[Phase(c)] \subseteq DOMAIN row.refs /\ row.refs \in [DOMAIN row.refs -> Nat]
    <2>1. WideRow(Table(c), row)
        BY <1>2, <1>5 DEF RowsOK, Told
    <2>2. Copied[Phase(c)] \subseteq DOMAIN Dummy(Parent[Phase(c)]).refs
        BY <1>2, CopiedFacts DEF Column
    <2>. QED
        BY <1>3, <2>1, <2>2 DEF WideRow, IsRow
<1>7. Copied[Phase(c)] \subseteq Columns
    BY <1>2, CopiedFacts DEF Column
<1>8. PostOK(c)'
    <2>1. post'[c] = post[c] /\ at'[c] = "column" /\ step'[c] = step[c] + 1 /\ refs'[c] = f
        BY <1>1 DEF PostsOK
    <2>2. DOMAIN refs[c] \subseteq Columns /\ refs[c] \in [DOMAIN refs[c] -> Nat]
        BY DEF PostsOK, PostOK
    <2>3. DOMAIN f = DOMAIN refs[c] \cup new /\ DOMAIN f \subseteq Columns
        BY <1>2, <1>7, <2>2
    <2>4. f \in [DOMAIN f -> Nat]
        <3> SUFFICES ASSUME NEW col \in DOMAIN refs[c] \cup new PROVE f[col] \in Nat
            BY <2>3
        <3>1. parent[c] \in Nat
            BY DEF HandsOK
        <3>2. col \in new /\ col # Column(c) => row.refs[col] \in Nat
            BY <1>6
        <3>. QED
            BY <2>2, <3>1, <3>2
    <2>5. Ready(Phase(c), step[c] + 1) \subseteq Ready(Phase(c), step[c]) \cup new
        BY <1>2, <1>3, ReadyNext DEF Column
    <2>6. Phase(c)' = Phase(c) /\ post[c] \in 1 .. Len(Session[c]) + 1
        BY <2>1 DEF Phase, PostsOK, PostOK
    <2>. QED
        BY <1>2, <1>4, <2>1, <2>3, <2>4, <2>5, <2>6 DEF PostOK
<1>9. ASSUME NEW d \in Clients, d # c PROVE PostOK(d)'
    BY <1>1, <1>9 DEF PostsOK, PostOK, Done, Phase, Column
<1>. QED
    BY <1>1, <1>4, <1>8, <1>9 DEF PostsOK

\* Every step keeps the threads and the clients in order.
LEMMA PostsStep == TInv /\ [Next]_vars => PostsOK'
<1> SUFFICES ASSUME TInv, [Next]_vars PROVE PostsOK'
    OBVIOUS
<1>1. CASE ConnectionLost
    BY <1>1 DEF ConnectionLost, thread, client, TInv, PostsOK, PostOK, Done, Phase, Column
<1>2. CASE UNCHANGED vars
    BY <1>2 DEF vars, thread, client, TInv, PostsOK, PostOK, Done, Phase, Column
<1>3. ASSUME NEW c \in Clients, Serve(c) PROVE PostsOK'
    <2> USE DEF TInv
    <2>1. CASE LookupSkips(c)
        BY <2>1, TakeOK DEF LookupSkips, AtLookup
    <2>2. CASE FieldMissing(c)
        BY <2>2, AnswerErrorOK DEF FieldMissing, AtLookup
    <2>3. CASE SelectFinds(c)
        <3>1. PICK i \in Matches(Table(c), Value(c), Links(c)) : Take(c, i)
            BY <2>3 DEF SelectFinds
        <3>2. ~Done(c) /\ Column(c) # Parent[Phase(c)]
            BY <2>3 DEF SelectFinds, AtLookup
        <3>3. Table(c) \in Tables
            BY <3>2, PostFacts DEF PostsOK
        <3>4. i \in Nat
            BY <3>1, <3>3 DEF Matches, RowsOK, Told, WideRow, IsRow
        <3>. QED
            BY <3>1, <3>2, <3>4, TakeOK
    <2>4. CASE SelectFindsNone(c)
        BY <2>4, StayOK DEF SelectFindsNone, AtLookup
    <2>5. CASE Draw(c)
        <3>1. Column(c) # Parent[Phase(c)]
            BY <2>5 DEF Draw, PostsOK, PostOK
        <3>. QED
            BY <2>5, <3>1, StayOK DEF Draw
    <2>6. CASE Insert(c)
        <3>1. Column(c) # Parent[Phase(c)]
            BY <2>6 DEF Insert, PostsOK, PostOK
        <3>. QED
            BY <2>6, <3>1, StayOK DEF Insert
    <2>7. CASE Commit(c)
        <3>1. Column(c) # Parent[Phase(c)]
            BY <2>7 DEF Commit, PostsOK, PostOK
        <3>2. drawn[c] \in Nat
            BY DEF HandsOK
        <3>. QED
            BY <2>7, <3>1, <3>2, TakeOK DEF Commit
    <2>8. CASE FindParent(c)
        BY <2>8, StayOK DEF FindParent, AtParent
    <2>9. CASE ReadParent(c)
        BY <2>9, ReadParentOK
    <2>10. CASE ParentGone(c)
        BY <2>10, AnswerErrorOK DEF ParentGone
    <2>11. CASE QueryFails(c)
        BY <2>11, AnswerErrorOK DEF QueryFails, AtLookup, AtParent
    <2>12. CASE InsertFails(c)
        BY <2>12, AnswerErrorOK DEF InsertFails
    <2>13. CASE CommitRaises(c)
        BY <2>13, AnswerErrorOK DEF CommitRaises
    <2>. QED
        BY <1>3, <2>1, <2>2, <2>3, <2>4, <2>5, <2>6, <2>7, <2>8, <2>9, <2>10, <2>11,
           <2>12, <2>13 DEF Serve
<1>. QED
    BY <1>1, <1>2, <1>3 DEF Next

\* The bound on lost connections.
LEMMA DropsType == MaxDrops \in Nat
BY DatabaseAssumption

\* A statement that is served.
LEMMA FetchOK ==
    ASSUME DatabaseOK, HandsOK, Fetch
    PROVE  /\ DOMAIN stored' = Tables /\ DOMAIN pending' = Tables
           /\ gen' \in 0 .. MaxDrops /\ gen <= gen' /\ Current = gen'
           /\ broken' \in BOOLEAN /\ link' = "up"
           /\ \A c \in Clients : cursor[c] \in 0 .. gen'
<1>1. gen' \in 0 .. MaxDrops /\ gen <= gen' /\ Current = gen'
    <2>1. gen \in 0 .. MaxDrops /\ (link = "closed" => gen < MaxDrops)
        BY DEF DatabaseOK
    <2>. QED
        BY <2>1, DropsType DEF Fetch, Current
<1>2. \A c \in Clients : cursor[c] \in 0 .. gen'
    BY <1>1, DropsType DEF HandsOK, DatabaseOK
<1>. QED
    BY <1>1, <1>2 DEF DatabaseOK, Fetch

\* The statements, and what the threads have in hand.
LEMMA DatabaseStep == TInv /\ [Next]_vars => DatabaseOK' /\ HandsOK'
<1> SUFFICES ASSUME TInv, [Next]_vars PROVE DatabaseOK' /\ HandsOK'
    OBVIOUS
<1> USE DropsType DEF TInv, DatabaseOK, HandsOK
<1>1. CASE ConnectionLost
    BY <1>1 DEF ConnectionLost, Drop, thread, client
<1>2. CASE UNCHANGED vars
    BY <1>2 DEF vars, database, thread
<1>3. ASSUME NEW c \in Clients, Serve(c) PROVE DatabaseOK' /\ HandsOK'
    <2>1. CASE LookupSkips(c)
        BY <2>1 DEF LookupSkips, database
    <2>2. CASE FieldMissing(c)
        BY <2>2 DEF FieldMissing, database
    <2>3. CASE SelectFinds(c)
        BY <2>3, FetchOK DEF SelectFinds
    <2>4. CASE SelectFindsNone(c)
        BY <2>4, FetchOK DEF SelectFindsNone
    <2>5. CASE Draw(c)
        <3>1. Table(c) \in Tables
            BY <2>5, PostFacts DEF Draw, PostsOK
        <3>. QED
            BY <2>5, <3>1, FetchOK DEF Draw
    <2>6. CASE Insert(c)
        BY <2>6 DEF Insert, Store
    <2>7. CASE Commit(c)
        BY <2>7 DEF Commit, CommitWork
    <2>8. CASE FindParent(c)
        <3>1. Phase(c) \in Phases /\ Column(c) = Parent[Phase(c)] /\ Column(c) # Phase(c)
            BY <2>8, PostFacts, PlanFacts DEF FindParent, AtParent, PostsOK, Column
        <3>2. Column(c) \in {"mpi_install", "test_build"}
            <4>1. Column(c) \in Columns
                BY <2>8, PostFacts DEF FindParent, AtParent, PostsOK
            <4>. QED
                BY <3>1, <4>1 DEF Phases, Parent, Columns, TableOf
        <3>3. given[c][Column(c)] \in Nat
            BY <3>2 DEF PostsOK
        <3>4. parent' \in [Clients -> Nat]
            BY <2>8, <3>3 DEF FindParent
        <3>. QED
            BY <2>8, <3>4, FetchOK DEF FindParent
    <2>9. CASE ReadParent(c)
        BY <2>9, FetchOK DEF ReadParent
    <2>10. CASE ParentGone(c)
        BY <2>10, FetchOK DEF ParentGone
    <2>11. CASE QueryFails(c)
        <3>1. CASE FetchFails
            BY <2>11, <3>1 DEF QueryFails, FetchFails, Current
        <3>2. CASE ConnectFails
            BY <2>11, <3>2 DEF QueryFails, ConnectFails
        <3>. QED
            BY <2>11, <3>1, <3>2 DEF QueryFails
    <2>12. CASE InsertFails(c)
        BY <2>12 DEF InsertFails, StoreFails
    <2>13. CASE CommitRaises(c)
        BY <2>13 DEF CommitRaises, CommitFails
    <2>. QED
        BY <1>3, <2>1, <2>2, <2>3, <2>4, <2>5, <2>6, <2>7, <2>8, <2>9, <2>10, <2>11,
           <2>12, <2>13 DEF Serve
<1>. QED
    BY <1>1, <1>2, <1>3 DEF Next
-----------------------------------------------------------------------------
(* Rows.  A step of a thread draws a number, inserts a row, commits, or adds *)
(* nothing to what is stored and to what clients were told.                  *)

\* An answer, or none.
LEMMA TakeTold ==
    ASSUME PostsOK, NEW c \in Clients, ~Done(c), NEW i, Take(c, i),
           NEW t \in Tables, Visible(t)' \subseteq Visible(t)
    PROVE  \/ Told(t)' \subseteq Told(t)
           \/ /\ Column(c) = Phase(c) /\ t = Phase(c)
              /\ Told(t)' \subseteq Told(t) \cup {Row(i, Value(c), refs[c])}
<1>1. CASE Column(c) # Phase(c)
    BY <1>1 DEF Take, client, Told
<1>2. CASE Column(c) = Phase(c)
    BY <1>2 DEF Take, AnswerId, Told, PostsOK
<1>. QED
    BY <1>1, <1>2

\* What was found in a table is a row of it.
LEMMA FoundTold ==
    ASSUME PostsOK, RowsOK, NEW c \in Clients, SelectFinds(c), NEW t \in Tables
    PROVE  Told(t)' \subseteq Told(t)
<1>1. ~Done(c) /\ Column(c) # Parent[Phase(c)] /\ Visible(t)' \subseteq Visible(t)
    BY DEF SelectFinds, AtLookup, Fetch, Visible
<1>2. PICK i \in Matches(Table(c), Value(c), Links(c)) : Take(c, i)
    BY DEF SelectFinds
<1>3. /\ Phase(c) \in Phases /\ step[c] \in DOMAIN Plan[Phase(c)] /\ Table(c) \in Tables
    BY <1>1, PostFacts DEF PostsOK
<1>4. PICK r \in Visible(Table(c)) : r.id = i /\ r.value = Value(c) /\ r.refs = Links(c)
    BY <1>2 DEF Matches
<1>5. r = Row(i, Value(c), Links(c)) /\ r \in Told(Table(c))
    BY <1>3, <1>4 DEF RowsOK, WideRow, IsRow, Told
<1>6. Column(c) = Phase(c) => Table(c) = Phase(c) /\ Links(c) = refs[c]
    BY <1>1, <1>3, OwnTable DEF Table, Column, Links
<1>. QED
    BY <1>1, <1>2, <1>5, <1>6, TakeTold

\* All other steps of a thread.
LEMMA QuietServe ==
    ASSUME TInv, NEW c \in Clients, Serve(c), ~Insert(c), ~Commit(c), NEW t \in Tables
    PROVE  Told(t)' \subseteq Told(t)
<1> USE DEF TInv
<1>1. CASE LookupSkips(c)
    <2>1. ~Done(c) /\ Column(c) # Phase(c)
        BY <1>1 DEF LookupSkips, AtLookup, Skips
    <2>. QED
        BY <1>1, <2>1 DEF LookupSkips, Take, client, database, Told, Visible
<1>2. CASE FieldMissing(c)
    BY <1>2 DEF FieldMissing, AnswerError, database, Told, Visible
<1>3. CASE SelectFinds(c)
    BY <1>3, FoundTold
<1>4. CASE SelectFindsNone(c)
    BY <1>4 DEF SelectFindsNone, Fetch, client, Told, Visible
<1>5. CASE Draw(c)
    BY <1>5 DEF Draw, Fetch, client, Told, Visible
<1>6. CASE FindParent(c)
    BY <1>6 DEF FindParent, Fetch, client, Told, Visible
<1>7. CASE ReadParent(c)
    BY <1>7 DEF ReadParent, Fetch, client, Told, Visible
<1>8. CASE ParentGone(c)
    BY <1>8 DEF ParentGone, AnswerError, Fetch, Told, Visible
<1>9. CASE QueryFails(c)
    BY <1>9 DEF QueryFails, AnswerError, FetchFails, ConnectFails, Told, Visible
<1>10. CASE InsertFails(c)
    BY <1>10 DEF InsertFails, AnswerError, StoreFails, Told, Visible
<1>11. CASE CommitRaises(c)
    BY <1>11 DEF CommitRaises, AnswerError, CommitFails, Told, Visible
<1>. QED
    BY <1>1, <1>2, <1>3, <1>4, <1>5, <1>6, <1>7, <1>8, <1>9, <1>10, <1>11 DEF Serve

\* A lost connection.
LEMMA LostTold ==
    ASSUME ConnectionLost \/ UNCHANGED vars, NEW t \in Tables
    PROVE  Told(t)' \subseteq Told(t)
BY DEF ConnectionLost, Drop, vars, database, client, Told, Visible

\* An INSERT adds its row.
LEMMA InsertTold ==
    ASSUME TInv, NEW c \in Clients, Insert(c), NEW t \in Tables
    PROVE  Told(t)' \subseteq Told(t) \cup IF t = Table(c) THEN {NewRow(c)} ELSE {}
BY DEF TInv, DatabaseOK, Insert, Store, client, Told, Visible

\* A commit may tell the client of a row that is gone.
LEMMA CommitTold ==
    ASSUME TInv, NEW c \in Clients, Commit(c), NEW t \in Tables
    PROVE  Told(t)' \subseteq Told(t) \cup IF t = Table(c) THEN {NewRow(c)} ELSE {}
<1>1. ~Done(c) /\ Take(c, drawn[c])
    BY DEF Commit
<1>2. Column(c) # Parent[Phase(c)]
    BY <1>1 DEF Commit, TInv, PostsOK, PostOK
<1>3. Visible(t)' \subseteq Visible(t)
    BY DEF TInv, DatabaseOK, Commit, CommitWork, Visible
<1>4. Phase(c) \in Phases /\ step[c] \in DOMAIN Plan[Phase(c)]
    BY <1>1, PostFacts DEF TInv, PostsOK
<1>5. Column(c) = Phase(c) => Table(c) = Phase(c) /\ Links(c) = refs[c]
    BY <1>2, <1>4, OwnTable DEF Table, Column, Links
<1>6. Column(c) = Phase(c) => NewRow(c) = Row(drawn[c], Value(c), refs[c])
    BY <1>5 DEF NewRow
<1>. QED
    BY <1>1, <1>3, <1>5, <1>6, TakeTold DEF TInv

\* The row of an INSERT has its type, and the columns that others will copy.
LEMMA NewRowWide ==
    ASSUME TInv, NEW c \in Clients, ~Done(c), at[c] \in {"insert", "commit"}
    PROVE  WideRow(Table(c), NewRow(c))
<1>1. /\ Phase(c) \in Phases /\ step[c] \in DOMAIN Plan[Phase(c)] /\ Table(c) \in Tables
      /\ Column(c) # Parent[Phase(c)]
    BY PostFacts DEF TInv, PostsOK, PostOK
<1>2. DOMAIN refs[c] \subseteq Columns /\ refs[c] \in [DOMAIN refs[c] -> Nat]
    BY DEF TInv, PostsOK, PostOK
<1>3. DOMAIN Links(c) \subseteq Columns /\ Links(c) \in [DOMAIN Links(c) -> Nat]
    <2>1. CASE Column(c) = Phase(c)
        BY <1>2, <2>1 DEF Links
    <2>2. CASE Column(c) # Phase(c) /\ Column(c) = "test_name"
        <3>1. refs[c]["test_suite"] \in Nat
            <4>1. Phase(c) = "test_run" /\ step[c] = 3
                BY <1>1, <2>2 DEF Phases, Column, Plan, InstallPlan, BuildPlan, RunPlan
            <4>2. "test_suite" \in Copied["test_run"]
                BY DEF Copied, FromBuild
            <4>3. Copied["test_run"] \subseteq Ready("test_run", 3)
                BY DEF Ready
            <4>4. Ready("test_run", 3) \subseteq DOMAIN refs[c]
                BY <4>1 DEF TInv, PostsOK, PostOK
            <4>. QED
                BY <1>2, <4>2, <4>3, <4>4
        <3>2. Links(c) = [col \in {"test_suite"} |-> refs[c]["test_suite"]]
            BY <2>2 DEF Links
        <3>3. "test_suite" \in Columns
            BY DEF Columns, TableOf
        <3>. QED
            BY <3>1, <3>2, <3>3
    <2>3. CASE Column(c) # Phase(c) /\ Column(c) # "test_name"
        BY <2>3 DEF Links, Nothing
    <2>. QED
        BY <2>1, <2>2, <2>3
<1>4. IsRow(NewRow(c))
    BY <1>3 DEF TInv, HandsOK, NewRow, IsRow, Row
<1>5. DOMAIN Dummy(Table(c)).refs \subseteq DOMAIN NewRow(c).refs
    <2>1. CASE Column(c) = Phase(c)
        <3>1. Table(c) = Phase(c) /\ Links(c) = refs[c]
            BY <1>1, <2>1, OwnTable DEF Table, Column, Links
        <3>2. DOMAIN Dummy(Phase(c)).refs \subseteq Ready(Phase(c), step[c])
            BY <1>1, <2>1, ReadyRow DEF Column
        <3>3. Ready(Phase(c), step[c]) \subseteq DOMAIN refs[c]
            BY DEF TInv, PostsOK, PostOK
        <3>. QED
            BY <3>1, <3>2, <3>3 DEF NewRow, Row
    <2>2. CASE Column(c) # Phase(c)
        <3>1. Table(c) \notin Phases
            BY <1>1, <2>2, OwnTable DEF Table, Column
        <3>. QED
            BY <3>1 DEF Phases, Dummy, Row, Nothing
    <2>. QED
        BY <2>1, <2>2
<1>. QED
    BY <1>4, <1>5 DEF WideRow

\* Every step keeps the rows in order.
LEMMA RowsStep == TInv /\ [Next]_vars => RowsOK'
<1> SUFFICES ASSUME TInv, [Next]_vars, NEW t \in Tables, NEW r \in Told(t)'
             PROVE  WideRow(t, r)
    BY DEF RowsOK, WideRow
<1>1. CASE r \in Told(t)
    BY <1>1 DEF TInv, RowsOK
<1>2. CASE r \notin Told(t)
    <2>1. PICK c \in Clients : Serve(c)
        BY <1>2, LostTold DEF Next
    <2>2. Insert(c) \/ Commit(c)
        BY <1>2, <2>1, QuietServe
    <2>3. t = Table(c) /\ r = NewRow(c)
        BY <1>2, <2>2, InsertTold, CommitTold
    <2>. QED
        BY <2>2, <2>3, NewRowWide DEF Insert, Commit
<1>. QED
    BY <1>1, <1>2

\* The rows at the start.
LEMMA BaseRows ==
    ASSUME NEW t \in Tables
    PROVE  /\ \A r \in Base[t] : WideRow(t, r)
           /\ \A r, s \in Base[t] : r.id = s.id => r = s
           /\ \A r \in Base[t] : r.id = 0 \/ (t \in DOMAIN Known /\ r.id = Known[t].id)
<1>1. Dummy(t).id = 0 /\ WideRow(t, Dummy(t))
    <2>1. CASE t = "mpi_install"
        BY <2>1 DEF Dummy, WideRow, IsRow, Row, FromInstall, Columns, TableOf
    <2>2. CASE t = "test_build"
        BY <2>2 DEF Dummy, WideRow, IsRow, Row, FromBuild, FromInstall, Columns, TableOf
    <2>3. CASE t \notin {"mpi_install", "test_build"}
        BY <2>3 DEF Dummy, WideRow, IsRow, Row, Nothing
    <2>. QED
        BY <2>1, <2>2, <2>3
<1>2. t \in DOMAIN Known => WideRow(t, Known[t]) /\ Known[t].id > 0
    BY DatabaseAssumption DEF WideRow
<1>3. Base[t] = {Dummy(t)} \cup IF t \in DOMAIN Known THEN {Known[t]} ELSE {}
    BY DEF Base
<1>. QED
    BY <1>1, <1>2, <1>3

\* The invariant holds in the initial state.
LEMMA InitTInv == Init => TInv
<1> SUFFICES ASSUME Init PROVE TInv
    OBVIOUS
<1>1. DatabaseOK
    <2>1. seq \in [Tables -> Nat]
        BY DatabaseAssumption DEF Init, DatabaseInit, IsRow
    <2>2. DOMAIN stored = Tables /\ DOMAIN pending = Tables
        BY DEF Init, DatabaseInit
    <2>3. gen \in 0 .. MaxDrops /\ link = "up" /\ broken = FALSE /\ faults = FALSE
        BY DropsType DEF Init, DatabaseInit
    <2>. QED
        BY <2>1, <2>2, <2>3 DEF DatabaseOK
<1>2. HandsOK
    BY DropsType DEF Init, DatabaseInit, HandsOK
<1>3. PostsOK
    <2>1. ASSUME NEW c \in Clients PROVE PostOK(c)
        <3>1. /\ post[c] = 1 /\ at[c] = "column" /\ step[c] = 1 /\ refs[c] = Nothing
              /\ Len(Session[c]) \in Nat
            BY SessionAssumption DEF Init
        <3>2. DOMAIN Nothing \subseteq Columns /\ Nothing \in [DOMAIN Nothing -> Nat]
            BY DEF Nothing
        <3>3. ~Done(c) => Phase(c) \in Phases
            BY <3>1, SessionAssumption DEF Done, Phase, IsPayload
        <3>. QED
            BY <3>1, <3>2, <3>3, FirstColumn DEF PostOK
    <2>2. answers \in [Phases -> {answers[ph] : ph \in Phases}]
        BY DEF Init
    <2>. QED
        BY <2>1, <2>2 DEF Init, PostsOK
<1>4. RowsOK
    <2>1. \A t \in Tables : Told(t) = Base[t]
        BY DEF Init, DatabaseInit, Told, Visible
    <2>. QED
        BY <2>1, BaseRows DEF RowsOK
<1>. QED
    BY <1>1, <1>2, <1>3, <1>4 DEF TInv

\* The inductive invariant: types, and the columns that are filled.
THEOREM SpecTInv == Spec => []TInv
<1>1. TInv /\ [Next]_vars => TInv'
    BY PostsStep, DatabaseStep, RowsStep DEF TInv
<1>. QED
    BY <1>1, InitTInv, PTL DEF Spec

\* Every variable has its type: for any number of clients, whatever they report
\* and however the connection fares, the rows that a thread reads have the
\* columns it copies.
THEOREM SpecTypeOK == Spec => []TypeOK
BY SpecTInv, TInvTypes, PTL
-----------------------------------------------------------------------------
(* Ids.  That no id names two rows is not inductive: a thread holds an id    *)
(* from the moment it has drawn it.  The invariant says of this id that the  *)
(* sequence has passed it, that nobody else holds it, that before the INSERT *)
(* no row has it, and that afterwards only this thread's row has.            *)

Holds(c) == at[c] \in {"insert", "commit"} /\ ~Done(c)

Passed == \A t \in Tables : \A r \in Told(t) : r.id <= seq[t]
InHand == \A c \in Clients : Holds(c) => drawn[c] <= seq[Table(c)]
Fresh ==
    \A c \in Clients : Holds(c) /\ at[c] = "insert" =>
        \A r \in Told(Table(c)) : r.id # drawn[c]
Own ==
    \A c \in Clients : Holds(c) =>
        \A r \in Told(Table(c)) : r.id = drawn[c] => r = NewRow(c)
Apart ==
    \A c, d \in Clients : c # d /\ Holds(c) /\ Holds(d) /\ Table(c) = Table(d) =>
        drawn[c] # drawn[d]

IdInv == IdsAreForever /\ Passed /\ InHand /\ Fresh /\ Own /\ Apart

\* Where the id in hand belongs.
LEMMA HeldTable ==
    ASSUME TInv, NEW c \in Clients, ~Done(c)
    PROVE  Table(c) \in Tables /\ drawn[c] \in Nat /\ seq[Table(c)] \in Nat
BY PostFacts DEF TInv, PostsOK, HandsOK, DatabaseOK

\* A thread's step leaves the others as they are.
LEMMA Others ==
    ASSUME TInv, NEW c \in Clients, Serve(c), NEW d \in Clients, d # c
    PROVE  /\ Holds(d)' <=> Holds(d)
           /\ at'[d] = at[d] /\ drawn'[d] = drawn[d]
           /\ Table(d)' = Table(d) /\ NewRow(d)' = NewRow(d)
           /\ post'[d] = post[d] /\ step'[d] = step[d] /\ refs'[d] = refs[d]
<1>1. /\ at'[d] = at[d] /\ drawn'[d] = drawn[d] /\ post'[d] = post[d]
      /\ step'[d] = step[d] /\ refs'[d] = refs[d]
    <2> USE DEF TInv, PostsOK, HandsOK
    <2>1. CASE LookupSkips(c)
        BY <2>1 DEF LookupSkips, Take, AnswerId, NextPost, client
    <2>2. CASE FieldMissing(c)
        BY <2>2 DEF FieldMissing, AnswerError, NextPost
    <2>3. CASE SelectFinds(c)
        BY <2>3 DEF SelectFinds, Take, AnswerId, NextPost, client
    <2>4. CASE SelectFindsNone(c)
        BY <2>4 DEF SelectFindsNone, client
    <2>5. CASE Draw(c)
        BY <2>5 DEF Draw, client
    <2>6. CASE Insert(c)
        BY <2>6 DEF Insert, client
    <2>7. CASE Commit(c)
        BY <2>7 DEF Commit, Take, AnswerId, NextPost, client
    <2>8. CASE FindParent(c)
        BY <2>8 DEF FindParent, client
    <2>9. CASE ReadParent(c)
        BY <2>9 DEF ReadParent, client
    <2>10. CASE ParentGone(c)
        BY <2>10 DEF ParentGone, AnswerError, NextPost
    <2>11. CASE QueryFails(c)
        BY <2>11 DEF QueryFails, AnswerError, NextPost
    <2>12. CASE InsertFails(c)
        BY <2>12 DEF InsertFails, AnswerError, NextPost
    <2>13. CASE CommitRaises(c)
        BY <2>13 DEF CommitRaises, AnswerError, NextPost
    <2>. QED
        BY <2>1, <2>2, <2>3, <2>4, <2>5, <2>6, <2>7, <2>8, <2>9, <2>10, <2>11,
           <2>12, <2>13 DEF Serve
<1>. QED
    BY <1>1 DEF Holds, Done, Table, Column, Phase, NewRow, Value, Links

\* Only a thread that draws or inserts has an id in hand afterwards.
LEMMA LetsGo ==
    ASSUME TInv, NEW c \in Clients, Serve(c), ~Draw(c), ~Insert(c)
    PROVE  ~Holds(c)' /\ seq' = seq
<1> USE DEF TInv, PostsOK, Holds
<1>1. CASE LookupSkips(c)
    BY <1>1 DEF LookupSkips, Take, AnswerId, NextPost, client, database
<1>2. CASE FieldMissing(c)
    BY <1>2 DEF FieldMissing, AnswerError, NextPost, database
<1>3. CASE SelectFinds(c)
    BY <1>3 DEF SelectFinds, Take, AnswerId, NextPost, client
<1>4. CASE SelectFindsNone(c)
    BY <1>4 DEF SelectFindsNone
<1>5. CASE Commit(c)
    BY <1>5 DEF Commit, CommitWork, Take, AnswerId, NextPost, client
<1>6. CASE FindParent(c)
    BY <1>6 DEF FindParent
<1>7. CASE ReadParent(c)
    BY <1>7 DEF ReadParent
<1>8. CASE ParentGone(c)
    BY <1>8 DEF ParentGone, AnswerError, NextPost
<1>9. CASE QueryFails(c)
    BY <1>9 DEF QueryFails, AnswerError, NextPost, FetchFails, ConnectFails
<1>10. CASE InsertFails(c)
    BY <1>10 DEF InsertFails, AnswerError, NextPost, StoreFails
<1>11. CASE CommitRaises(c)
    BY <1>11 DEF CommitRaises, AnswerError, NextPost, CommitFails
<1>. QED
    BY <1>1, <1>2, <1>3, <1>4, <1>5, <1>6, <1>7, <1>8, <1>9, <1>10, <1>11 DEF Serve

\* No id is in hand in the initial state.
LEMMA InitIdInv == Init => IdInv
<1> SUFFICES ASSUME Init PROVE IdInv
    OBVIOUS
<1>1. \A t \in Tables : Told(t) = Base[t]
    BY DEF Init, DatabaseInit, Told, Visible
<1>2. IdsAreForever
    BY <1>1, BaseRows DEF IdsAreForever
<1>3. Passed
    <2> SUFFICES ASSUME NEW t \in Tables, NEW r \in Base[t] PROVE r.id <= seq[t]
        BY <1>1 DEF Passed
    <2>1. seq[t] = IF t \in DOMAIN Known THEN Known[t].id ELSE 0
        BY DEF Init, DatabaseInit
    <2>2. t \in DOMAIN Known => Known[t].id \in Nat
        BY DatabaseAssumption DEF IsRow
    <2>. QED
        BY <2>1, <2>2, BaseRows
<1>4. \A c \in Clients : ~Holds(c)
    BY DEF Init, Holds
<1>. QED
    BY <1>2, <1>3, <1>4 DEF IdInv, InHand, Fresh, Own, Apart

\* Rows may go, and ids may be given up.
LEMMA IdsFewer ==
    ASSUME TInv, IdInv, seq' = seq, \A t \in Tables : Told(t)' \subseteq Told(t),
           \A d \in Clients : Holds(d)' =>
               /\ Holds(d) /\ at'[d] = at[d] /\ drawn'[d] = drawn[d]
               /\ Table(d)' = Table(d) /\ NewRow(d)' = NewRow(d)
    PROVE  IdInv'
<1>1. \A d \in Clients : Holds(d) => Table(d) \in Tables
    BY HeldTable DEF Holds
<1>2. IdsAreForever' /\ Passed'
    BY DEF IdInv, IdsAreForever, Passed
<1>3. InHand'
    BY DEF IdInv, InHand
<1>4. Fresh'
    BY <1>1 DEF IdInv, Fresh
<1>5. Own'
    BY <1>1 DEF IdInv, Own
<1>6. Apart'
    BY DEF IdInv, Apart
<1>. QED
    BY <1>2, <1>3, <1>4, <1>5, <1>6 DEF IdInv

\* The number drawn is above all that were seen.
LEMMA IdsDraw ==
    ASSUME TInv, IdInv, NEW c \in Clients, Draw(c)
    PROVE  IdInv'
<1>1. ~Done(c) /\ Table(c) \in Tables
    BY HeldTable DEF Draw
<1>2. /\ drawn'[c] = seq[Table(c)] + 1 /\ seq'[Table(c)] = seq[Table(c)] + 1
      /\ \A t \in Tables : seq[t] \in Nat /\ seq[t] <= seq'[t]
    BY <1>1 DEF Draw, TInv, HandsOK, DatabaseOK
<1>3. \A t \in Tables : Told(t)' = Told(t)
    BY DEF Draw, Fetch, client, Told, Visible
<1>4. Table(c)' = Table(c) /\ at'[c] = "insert"
    BY DEF Draw, client, Table, Column, Phase, TInv, PostsOK
<1>5. \A d \in Clients \ {c} :
          /\ Holds(d)' <=> Holds(d)
          /\ at'[d] = at[d] /\ drawn'[d] = drawn[d]
          /\ Table(d)' = Table(d) /\ NewRow(d)' = NewRow(d)
    BY Others DEF Serve
<1>6. \A d \in Clients : Holds(d) =>
          Table(d) \in Tables /\ drawn[d] \in Nat /\ drawn[d] <= seq[Table(d)]
    BY HeldTable DEF IdInv, InHand, Holds
<1>7. \A t \in Tables : \A r \in Told(t) : r.id \in Nat /\ r.id <= seq[t]
    BY DEF IdInv, Passed, TInv, RowsOK, WideRow, IsRow
<1>8. IdsAreForever'
    BY <1>3 DEF IdInv, IdsAreForever
<1>9. Passed'
    <2> SUFFICES ASSUME NEW t \in Tables, NEW r \in Told(t) PROVE r.id <= seq'[t]
        BY <1>3 DEF Passed
    <2>1. r.id \in Nat /\ r.id <= seq[t]
        BY <1>7
    <2>2. seq[t] \in Nat /\ seq'[t] \in Nat /\ seq[t] <= seq'[t]
        BY <1>1, <1>2 DEF Draw, TInv, DatabaseOK
    <2>. QED
        BY <2>1, <2>2
<1>10. InHand'
    <2> SUFFICES ASSUME NEW d \in Clients, Holds(d)' PROVE drawn'[d] <= seq'[Table(d)']
        BY DEF InHand
    <2>1. CASE d = c
        BY <1>1, <1>2, <1>4, <2>1
    <2>2. CASE d # c
        <3>1. Table(d) \in Tables /\ drawn[d] \in Nat /\ drawn[d] <= seq[Table(d)]
            BY <1>5, <1>6, <2>2
        <3>2. drawn'[d] = drawn[d] /\ Table(d)' = Table(d)
            BY <1>5, <2>2
        <3>3. seq[Table(d)] \in Nat /\ seq'[Table(d)] \in Nat
              /\ seq[Table(d)] <= seq'[Table(d)]
            BY <1>1, <1>2, <3>1 DEF Draw, TInv, DatabaseOK
        <3>. QED
            BY <3>1, <3>2, <3>3
    <2>. QED
        BY <2>1, <2>2
<1>11. \A r \in Told(Table(c))' : r.id # drawn'[c]
    BY <1>1, <1>2, <1>3, <1>4, <1>7
<1>12. Fresh'
    BY <1>3, <1>5, <1>6, <1>11 DEF IdInv, Fresh
<1>13. Own'
    BY <1>3, <1>5, <1>6, <1>11 DEF IdInv, Own
<1>14. Apart'
    <2> SUFFICES ASSUME NEW d \in Clients, NEW e \in Clients, d # e, Holds(d)', Holds(e)',
                        Table(d)' = Table(e)'
                 PROVE  drawn'[d] # drawn'[e]
        BY DEF Apart
    <2>1. CASE d # c /\ e # c
        BY <1>5, <2>1 DEF IdInv, Apart
    <2>2. CASE d = c \/ e = c
        BY <1>1, <1>2, <1>4, <1>5, <1>6, <2>2
    <2>. QED
        BY <2>1, <2>2
<1>. QED
    BY <1>8, <1>9, <1>10, <1>12, <1>13, <1>14 DEF IdInv

\* A row is inserted, or its id is told to the client.
LEMMA IdsStore ==
    ASSUME TInv, IdInv, NEW c \in Clients, Insert(c) \/ Commit(c)
    PROVE  IdInv'
<1>1. ~Done(c) /\ Holds(c) /\ Table(c) \in Tables /\ drawn[c] \in Nat /\ NewRow(c).id = drawn[c]
    BY HeldTable DEF Insert, Commit, Holds, NewRow, Row
<1>2. seq' = seq
    BY DEF Insert, Store, Commit, CommitWork
<1>3. \A t \in Tables :
          Told(t)' \subseteq Told(t) \cup IF t = Table(c) THEN {NewRow(c)} ELSE {}
    BY InsertTold, CommitTold
<1>4. \A d \in Clients \ {c} :
          /\ Holds(d)' <=> Holds(d)
          /\ at'[d] = at[d] /\ drawn'[d] = drawn[d]
          /\ Table(d)' = Table(d) /\ NewRow(d)' = NewRow(d)
    BY Others DEF Serve
<1>5. Holds(c)' =>
          at'[c] = "commit" /\ drawn'[c] = drawn[c] /\ Table(c)' = Table(c) /\ NewRow(c)' = NewRow(c)
    <2>1. CASE Insert(c)
        BY <2>1 DEF Insert, client, TInv, PostsOK, NewRow, Table, Column, Phase, Value, Links
    <2>2. CASE Commit(c)
        BY <2>2, LetsGo DEF Serve, Commit, Draw, Insert
    <2>. QED
        BY <2>1, <2>2
<1>6. \A d \in Clients : Holds(d) => Table(d) \in Tables
    BY HeldTable DEF Holds
<1>7. \A d \in Clients \ {c} : Holds(d) /\ Table(d) = Table(c) => drawn[d] # drawn[c]
    BY <1>1 DEF IdInv, Apart
<1>8. \A r \in Told(Table(c)) : r.id = drawn[c] => r = NewRow(c)
    BY <1>1 DEF IdInv, Own
<1>9. IdsAreForever'
    BY <1>1, <1>3, <1>8 DEF IdInv, IdsAreForever
<1>10. Passed'
    BY <1>1, <1>2, <1>3 DEF IdInv, Passed, InHand
<1>11. InHand'
    BY <1>2, <1>4, <1>5, <1>1 DEF IdInv, InHand
<1>12. Fresh'
    BY <1>1, <1>3, <1>4, <1>5, <1>6, <1>7 DEF IdInv, Fresh
<1>13. Own'
    <2> SUFFICES ASSUME NEW d \in Clients, Holds(d)', NEW r \in Told(Table(d))',
                        r.id = drawn'[d]
                 PROVE  r = NewRow(d)'
        BY DEF Own
    <2>1. CASE d = c
        BY <1>1, <1>3, <1>5, <1>8, <2>1
    <2>2. CASE d # c
        <3>1. Holds(d) /\ r.id = drawn[d] /\ NewRow(d)' = NewRow(d) /\ r \in Told(Table(d))'
            BY <1>4, <2>2
        <3>2. r \in Told(Table(d))
            BY <1>1, <1>3, <1>4, <1>6, <1>7, <2>2, <3>1
        <3>. QED
            BY <3>1, <3>2 DEF IdInv, Own
    <2>. QED
        BY <2>1, <2>2
<1>14. Apart'
    BY <1>1, <1>4, <1>5 DEF IdInv, Apart
<1>. QED
    BY <1>9, <1>10, <1>11, <1>12, <1>13, <1>14 DEF IdInv

\* Every step keeps the ids apart.
LEMMA IdsStep == TInv /\ IdInv /\ [Next]_vars => IdInv'
<1> SUFFICES ASSUME TInv, IdInv, [Next]_vars PROVE IdInv'
    OBVIOUS
<1>1. CASE ConnectionLost \/ UNCHANGED vars
    <2>1. seq' = seq /\ UNCHANGED <<at, step, refs, drawn, post>>
        BY <1>1 DEF ConnectionLost, Drop, vars, database, thread, client
    <2>2. \A d \in Clients :
              /\ Holds(d)' => Holds(d) /\ at'[d] = at[d] /\ drawn'[d] = drawn[d]
              /\ Table(d)' = Table(d) /\ NewRow(d)' = NewRow(d)
        BY <2>1 DEF Holds, Done, Table, Column, Phase, NewRow, Value, Links
    <2>. QED
        BY <1>1, <2>1, <2>2, LostTold, IdsFewer
<1>2. ASSUME NEW c \in Clients, Serve(c) PROVE IdInv'
    <2>1. CASE Draw(c)
        BY <2>1, IdsDraw
    <2>2. CASE Insert(c) \/ Commit(c)
        BY <2>2, IdsStore
    <2>3. CASE ~Draw(c) /\ ~Insert(c) /\ ~Commit(c)
        <3>1. ~Holds(c)' /\ seq' = seq
            BY <1>2, <2>3, LetsGo
        <3>2. \A d \in Clients : Holds(d)' =>
                  /\ Holds(d) /\ at'[d] = at[d] /\ drawn'[d] = drawn[d]
                  /\ Table(d)' = Table(d) /\ NewRow(d)' = NewRow(d)
            BY <1>2, <3>1, Others
        <3>. QED
            BY <1>2, <2>3, <3>1, <3>2, QuietServe, IdsFewer
    <2>. QED
        BY <2>1, <2>2, <2>3
<1>. QED
    BY <1>1, <1>2 DEF Next

\* No id ever names two rows, for any number of clients, and neither rollbacks
\* nor lost connections, of which there may be any number, bring one back.
THEOREM SpecIdsAreForever == Spec => []IdsAreForever
<1>1. Spec => [](TInv /\ IdInv)
    BY SpecTInv, InitIdInv, IdsStep, PTL DEF Spec
<1>2. TInv /\ IdInv => IdsAreForever
    BY DEF IdInv
<1>. QED
    BY <1>1, <1>2, PTL
-----------------------------------------------------------------------------
(* The failed transaction.                                                   *)

\* Only on a connection that is up is there a transaction that has failed.
BrokenUp == broken => link = "up"

\* Every step keeps it so.
LEMMA BrokenUpStep == BrokenUp /\ [Next]_vars => BrokenUp'
<1> SUFFICES ASSUME BrokenUp, [Next]_vars PROVE BrokenUp'
    OBVIOUS
<1> USE DEF BrokenUp
<1>1. CASE ConnectionLost
    BY <1>1 DEF ConnectionLost, Drop
<1>2. CASE UNCHANGED vars
    BY <1>2 DEF vars, database
<1>3. ASSUME NEW c \in Clients, Serve(c) PROVE BrokenUp'
    <2>1. CASE LookupSkips(c) \/ FieldMissing(c)
        BY <2>1 DEF LookupSkips, FieldMissing, database
    <2>2. CASE SelectFinds(c) \/ SelectFindsNone(c) \/ Draw(c)
        BY <2>2 DEF SelectFinds, SelectFindsNone, Draw, Fetch
    <2>3. CASE FindParent(c) \/ ReadParent(c) \/ ParentGone(c)
        BY <2>3 DEF FindParent, ReadParent, ParentGone, Fetch
    <2>4. CASE Insert(c) \/ InsertFails(c)
        BY <2>4 DEF Insert, Store, InsertFails, StoreFails
    <2>5. CASE Commit(c) \/ CommitRaises(c)
        BY <2>5 DEF Commit, CommitWork, CommitRaises, CommitFails
    <2>6. CASE QueryFails(c)
        BY <2>6 DEF QueryFails, FetchFails, ConnectFails
    <2>. QED
        BY <1>3, <2>1, <2>2, <2>3, <2>4, <2>5, <2>6 DEF Serve
<1>. QED
    BY <1>1, <1>2, <1>3 DEF Next

\* Of a poisoned connection's statements none is served, and without an INSERT
\* there is no commit.
LEMMA PoisonStep ==
    ASSUME TInv, BrokenUp, Poisoned, [Next]_vars
    PROVE  Poisoned' \/ link' # "up"
<1>1. broken /\ link = "up" /\ ~Serves /\ \A c \in Clients : ~Committing(c)
    BY DEF BrokenUp, Poisoned, Serves
<1>2. CASE ConnectionLost
    BY <1>2 DEF ConnectionLost, Drop
<1>3. CASE UNCHANGED vars
    BY <1>1, <1>3 DEF vars, database, thread, client, Poisoned, Committing, Done
<1>4. ASSUME NEW c \in Clients, Serve(c) PROVE Poisoned'
    <2>1. ~Draw(c) /\ ~Insert(c) /\ ~Commit(c) /\ ~CommitRaises(c)
        BY <1>1 DEF Draw, Insert, CursorServes, Commit, CommitRaises, Committing
    <2>2. broken'
        <3>1. CASE LookupSkips(c) \/ FieldMissing(c)
            BY <1>1, <3>1 DEF LookupSkips, FieldMissing, database
        <3>2. CASE QueryFails(c)
            BY <1>1, <3>2 DEF QueryFails, FetchFails, ConnectFails
        <3>3. CASE InsertFails(c)
            BY <1>1, <3>3 DEF InsertFails, StoreFails
        <3>. QED
            BY <1>1, <1>4, <2>1, <3>1, <3>2, <3>3
               DEF Serve, SelectFinds, SelectFindsNone, FindParent, ReadParent, ParentGone
    <2>3. ASSUME NEW d \in Clients PROVE ~Committing(d)'
        <3>1. CASE d = c
            BY <1>4, <2>1, <3>1, LetsGo DEF Holds, Committing
        <3>2. CASE d # c
            BY <1>1, <1>4, <3>2, Others DEF Holds, Committing
        <3>. QED
            BY <3>1, <3>2
    <2>. QED
        BY <2>2, <2>3 DEF Poisoned
<1>. QED
    BY <1>2, <1>3, <1>4 DEF Next

\* Once a transaction has failed, and nobody is on the way to a commit, no
\* statement of any thread ends it: only a new connection does.
THEOREM SpecPoisonLasts == Spec => PoisonLasts
<1>1. Init => BrokenUp
    BY DEF Init, DatabaseInit, BrokenUp
<1>2. Spec => [](TInv /\ BrokenUp)
    BY <1>1, SpecTInv, BrokenUpStep, PTL DEF Spec
<1>3. TInv /\ BrokenUp /\ [Next]_vars => (Poisoned => Poisoned' \/ link' # "up")
    BY PoisonStep
<1>. QED
    BY <1>2, <1>3, PTL DEF Spec, PoisonLasts
-----------------------------------------------------------------------------
(* Parents.  The rows in the database are not enough: a thread copies its    *)
(* parent's columns long before it inserts its own row, and the parent may   *)
(* be in the open transaction.  The invariant looks at what the tables will  *)
(* hold once this transaction has ended, and says that every row, and every  *)
(* thread past its parent's column, has its parent there.  When a statement  *)
(* fails the transaction's rows are lost to the others: with two clients all *)
(* of them are rows of the one that did not fail, and none is its own parent.*)

Calm == NeverLost /\ (faults => AtMostTwo)

Solid ==
    [t \in Tables |-> Base[t] \cup stored[t] \cup IF broken THEN {} ELSE pending[t]]

HangsOn(ph, f, rows) ==
    \E p \in rows :
        p.id = f[Parent[ph]] /\ \A col \in Copied[ph] : p.refs[col] = f[col]

Children == {"test_build", "test_run"}
Hanging(c) == ~Done(c) /\ Phase(c) \in Children /\ step[c] > 2

PendingHang ==
    \A ph \in Children : \A r \in pending[ph] : HangsOn(ph, r.refs, Solid[Parent[ph]])
Linked(c) == HangsOn(Phase(c), refs[c], Solid[Parent[Phase(c)]])
RefsHang == \A c \in Clients : Hanging(c) => Linked(c)
\* Who inserted a row of the open transaction has not come to its commit.
Owned ==
    \A t \in Tables : \A r \in pending[t] :
        \E c \in Clients : Committing(c) /\ t = Table(c) /\ r = NewRow(c)

Family ==
    Calm => ParentsThere /\ PendingHang /\ RefsHang /\ Owned /\ (broken => faults)

\* The parents' column is the second, and no later one is copied.
LEMMA LaterColumns ==
    ASSUME NEW ph \in Children
    PROVE  /\ ph \in Phases /\ Parent[ph] \in Phases /\ Parent[ph] \in Tables
           /\ ph \in Tables /\ Parent[ph] # ph /\ Parent[ph] \notin Copied[ph]
           /\ \A s \in DOMAIN Plan[ph] :
                 /\ s = 2 => Plan[ph][s] = Parent[ph]
                 /\ s > 2 => Plan[ph][s] \notin Copied[ph] \cup {Parent[ph]}
                 /\ Plan[ph][s] = ph => s > 2
<1>1. CASE ph = "test_build"
    BY <1>1 DEF Phases, Parent, Tables, Copied, FromInstall, Plan, BuildPlan
<1>2. CASE ph = "test_run"
    BY <1>2 DEF Phases, Parent, Tables, Copied, FromInstall, FromBuild, Plan, RunPlan
<1>. QED
    BY <1>1, <1>2 DEF Children

\* A thread that has inserted its row goes on with its commit.
LEMMA OnlyCommits ==
    ASSUME NEW c \in Clients, Serve(c), Committing(c)
    PROVE  Commit(c) \/ CommitRaises(c)
BY DEF Serve, Committing, LookupSkips, FieldMissing, AtLookup, SelectFinds,
   SelectFindsNone, Draw, Insert, FindParent, AtParent, ReadParent, ParentGone,
   QueryFails, InsertFails

\* What a step does to the tables when no connection is lost.
LEMMA TableMoves ==
    ASSUME TInv, NeverLost', NEW c \in Clients, Serve(c)
    PROVE  /\ NeverLost /\ (faults => faults') /\ ~CommitRaises(c)
           /\ \/ Insert(c) \/ Commit(c)
              \/ UNCHANGED <<stored, pending, broken, faults>>
              \/ /\ QueryFails(c) \/ InsertFails(c)
                 /\ UNCHANGED <<stored, pending>> /\ broken' /\ faults' /\ ~Committing(c)
<1> USE DEF NeverLost, TInv, DatabaseOK, HandsOK
<1>1. CASE LookupSkips(c) \/ FieldMissing(c)
    BY <1>1 DEF LookupSkips, FieldMissing, CommitRaises, AtLookup, database
<1>2. ASSUME Serves, Fetch PROVE NeverLost /\ UNCHANGED <<stored, pending, broken>>
    <2>1. link # "closed"
        BY <1>2, DropsType DEF Fetch, Current
    <2>2. link = "up" /\ gen = 0 /\ broken = FALSE
        BY <1>2, <2>1 DEF Serves, Fetch, Current
    <2>. QED
        BY <1>2, <2>2 DEF Fetch
<1>3. CASE \/ SelectFinds(c) \/ SelectFindsNone(c) \/ Draw(c)
           \/ FindParent(c) \/ ReadParent(c) \/ ParentGone(c)
    <2>1. Serves /\ Fetch /\ faults' = faults /\ at[c] # "commit"
        BY <1>3 DEF SelectFinds, SelectFindsNone, Draw, FindParent, ReadParent, ParentGone,
           AtLookup, AtParent
    <2>. QED
        BY <1>2, <2>1 DEF CommitRaises
<1>4. CASE Insert(c)
    BY <1>4 DEF Insert, Store, CommitRaises
<1>5. CASE Commit(c)
    BY <1>5 DEF Commit, CommitWork, CommitRaises, CommitFails
<1>6. CASE QueryFails(c)
    <2>1. FetchFails /\ faults' = TRUE /\ at[c] # "commit"
        BY <1>6 DEF QueryFails, ConnectFails, AtLookup, AtParent
    <2>2. link = "up" /\ gen = 0
        BY <2>1, DropsType DEF FetchFails, Current
    <2>. QED
        BY <1>6, <2>1, <2>2 DEF FetchFails, CommitRaises, Committing
<1>7. CASE InsertFails(c)
    <2>1. StoreFails(cursor[c]) /\ faults' = TRUE /\ at[c] = "insert"
        BY <1>7 DEF InsertFails
    <2>2. link = "up" /\ gen = 0 /\ cursor[c] = gen
        BY <2>1, DropsType DEF StoreFails
    <2>. QED
        BY <1>7, <2>1, <2>2 DEF StoreFails, CommitRaises, Committing
<1>8. CASE CommitRaises(c)
    BY <1>8 DEF CommitRaises, CommitFails
<1>. QED
    BY <1>1, <1>3, <1>4, <1>5, <1>6, <1>7, <1>8 DEF Serve

\* What became lost stays lost.
LEMMA WasNeverLost ==
    ASSUME TInv, NeverLost', [Next]_vars
    PROVE  NeverLost /\ (faults => faults') /\ ~ConnectionLost
<1>1. ~ConnectionLost
    BY DEF NeverLost, ConnectionLost, Drop
<1>2. CASE UNCHANGED vars
    BY <1>1, <1>2 DEF vars, database, NeverLost
<1>. QED
    BY <1>1, <1>2, TableMoves DEF Next

\* A thread that takes a value keeps what it has from its parent.
LEMMA TakeKeeps ==
    ASSUME TInv, NEW c \in Clients, ~Done(c), NEW i, Take(c, i),
           Column(c) # Parent[Phase(c)], Hanging(c)'
    PROVE  /\ Hanging(c) /\ Phase(c)' = Phase(c)
           /\ \A col \in Copied[Phase(c)] \cup {Parent[Phase(c)]} : refs'[c][col] = refs[c][col]
<1>1. Column(c) # Phase(c)
    BY DEF Take, AnswerId, NextPost, TInv, PostsOK, Hanging
<1>2. /\ refs'[c] = Filled(c, Column(c), i) /\ step'[c] = step[c] + 1 /\ post' = post
    BY <1>1 DEF Take, client, TInv, PostsOK
<1>3. Phase(c)' = Phase(c) /\ Phase(c) \in Children /\ step[c] \in DOMAIN Plan[Phase(c)]
    BY <1>2, PostFacts DEF Hanging, Phase, TInv, PostsOK
<1>4. step[c] \in Nat /\ step[c] > 2
    <2>1. step[c] \in Nat /\ step[c] + 1 > 2
        BY <1>2 DEF Hanging, TInv, PostsOK
    <2>2. step[c] # 2
        BY <1>3, LaterColumns DEF Column
    <2>. QED
        BY <2>1, <2>2
<1>5. Column(c) \notin Copied[Phase(c)] \cup {Parent[Phase(c)]}
    BY <1>3, <1>4, LaterColumns DEF Column
<1>6. Ready(Phase(c), step[c]) \subseteq DOMAIN refs[c]
    BY DEF TInv, PostsOK, PostOK
<1>7. Copied[Phase(c)] \cup {Parent[Phase(c)]} \subseteq Ready(Phase(c), step[c])
    <2>1. 2 \in 1 .. step[c] - 1
        BY <1>4
    <2>2. Plan[Phase(c)][2] = Parent[Phase(c)]
        BY <1>3 DEF Children, Plan, BuildPlan, RunPlan, Parent
    <2>. QED
        BY <1>4, <2>1, <2>2 DEF Ready
<1>. QED
    BY <1>2, <1>3, <1>4, <1>5, <1>6, <1>7 DEF Hanging, Filled

\* A thread past its parent's column was so before, or has just read its parent.
LEMMA RefsKept ==
    ASSUME TInv, NEW c \in Clients, Serve(c), Hanging(c)'
    PROVE  \/ /\ Hanging(c) /\ Phase(c)' = Phase(c)
              /\ \A col \in Copied[Phase(c)] \cup {Parent[Phase(c)]} :
                    refs'[c][col] = refs[c][col]
           \/ /\ ReadParent(c)
              /\ HangsOn(Phase(c)', refs'[c], Visible(Parent[Phase(c)']))
<1> USE DEF TInv, PostsOK
<1>1. CASE LookupSkips(c)
    BY <1>1, TakeKeeps DEF LookupSkips, AtLookup
<1>2. CASE SelectFinds(c)
    BY <1>2, TakeKeeps DEF SelectFinds, AtLookup
<1>3. CASE Commit(c)
    BY <1>3, TakeKeeps DEF Commit, PostOK
<1>4. CASE SelectFindsNone(c) \/ Draw(c) \/ Insert(c) \/ FindParent(c)
    <2>1. UNCHANGED <<post, step, refs>>
        BY <1>4 DEF SelectFindsNone, Draw, Insert, FindParent, client
    <2>. QED
        BY <2>1 DEF Hanging, Done, Phase
<1>5. CASE FieldMissing(c) \/ ParentGone(c) \/ QueryFails(c) \/ InsertFails(c) \/ CommitRaises(c)
    <2>1. AnswerError(c)
        BY <1>5 DEF FieldMissing, ParentGone, QueryFails, InsertFails, CommitRaises
    <2>. QED
        BY <2>1 DEF AnswerError, NextPost, Hanging
<1>6. CASE ReadParent(c)
    <2> DEFINE row == RowOf(Table(c), parent[c])
               new == Copied[Phase(c)] \cup {Column(c)}
    <2>1. ~Done(c) /\ UNCHANGED post /\ Phase(c)' = Phase(c)
        BY <1>6 DEF ReadParent, client, Phase
    <2>2. Phase(c) \in Children /\ step[c] \in DOMAIN Plan[Phase(c)] /\ Column(c) = Parent[Phase(c)]
        BY <1>6, <2>1, PostFacts DEF Hanging, ReadParent, PostOK
    <2>3. Table(c) = Parent[Phase(c)]
        BY <2>2, LaterColumns, PlanFacts DEF Table, Column
    <2>4. row \in Visible(Table(c)) /\ row.id = parent[c]
        BY <1>6 DEF ReadParent, Exists, RowOf
    <2>5. \A col \in new :
              refs'[c][col] = IF col = Column(c) THEN parent[c] ELSE row.refs[col]
        BY <1>6 DEF ReadParent
    <2>6. Column(c) \notin Copied[Phase(c)]
        BY <2>2, LaterColumns
    <2>7. refs'[c][Parent[Phase(c)]] = row.id
        BY <2>2, <2>4, <2>5
    <2>8. \A col \in Copied[Phase(c)] : row.refs[col] = refs'[c][col]
        BY <2>5, <2>6
    <2>. QED
        BY <1>6, <2>1, <2>3, <2>4, <2>7, <2>8 DEF HangsOn
<1>. QED
    BY <1>1, <1>2, <1>3, <1>4, <1>5, <1>6 DEF Serve

\* A larger table has the same parents.
LEMMA MoreRows ==
    ASSUME NEW ph, NEW f, NEW g, NEW S, NEW T, S \subseteq T, HangsOn(ph, f, S),
           \A col \in Copied[ph] \cup {Parent[ph]} : g[col] = f[col]
    PROVE  HangsOn(ph, g, T)
BY DEF HangsOn

\* A thread's step, when what the tables will hold only grows.
LEMMA RefsStep ==
    ASSUME TInv, RefsHang, NEW c \in Clients, Serve(c), ReadParent(c) => ~broken,
           \A t \in Tables : Solid[t] \subseteq Solid'[t]
    PROVE  RefsHang'
<1> SUFFICES ASSUME NEW d \in Clients, Hanging(d)' PROVE Linked(d)'
    BY DEF RefsHang
<1> DEFINE ph == Phase(d)'
<1>1. ph \in Children /\ Parent[ph] \in Tables
    BY LaterColumns DEF Hanging
<1>2. Linked(d)' <=> HangsOn(ph, refs'[d], Solid'[Parent[ph]])
    BY DEF Linked
<1>3. CASE /\ Hanging(d) /\ ph = Phase(d)
           /\ \A col \in Copied[Phase(d)] \cup {Parent[Phase(d)]} : refs'[d][col] = refs[d][col]
    <2>1. HangsOn(ph, refs[d], Solid[Parent[ph]])
        BY <1>3 DEF RefsHang, Linked
    <2>. QED
        BY <1>1, <1>2, <1>3, <2>1, MoreRows
<1>4. CASE d # c
    <2>1. UNCHANGED <<post[d], step[d], refs[d]>>
        BY <1>4, Others
    <2>. QED
        BY <1>3, <2>1 DEF Hanging, Done, Phase
<1>5. CASE d = c /\ ReadParent(c) /\ HangsOn(ph, refs'[c], Visible(Parent[ph]))
    <2>1. Visible(Parent[ph]) \subseteq Solid[Parent[ph]]
        BY <1>1, <1>5 DEF Visible, Solid
    <2>2. Visible(Parent[ph]) \subseteq Solid'[Parent[ph]]
        BY <1>1, <2>1
    <2>. QED
        BY <1>2, <1>5, <2>2, MoreRows
<1>. QED
    BY <1>3, <1>4, <1>5, RefsKept

\* The other threads' rows stay theirs.
LEMMA OwnedStep ==
    ASSUME TInv, Owned, NEW c \in Clients, Serve(c), ~Commit(c), ~CommitRaises(c),
           NEW t \in Tables, NEW r \in pending[t]
    PROVE  \E d \in Clients : d # c /\ Committing(d)' /\ t = Table(d)' /\ r = NewRow(d)'
<1>1. PICK d \in Clients : Committing(d) /\ t = Table(d) /\ r = NewRow(d)
    BY DEF Owned
<1>2. d # c
    BY <1>1, OnlyCommits
<1>. QED
    BY <1>1, <1>2, Others DEF Committing, Done

\* A statement fails.  Of two clients only the other one has rows in the open
\* transaction, all in one table, and this is not its parent's.
LEMMA FailStep ==
    ASSUME TInv, Family, Calm, AtMostTwo, NEW c \in Clients, Serve(c),
           QueryFails(c) \/ InsertFails(c), ~Committing(c),
           UNCHANGED <<stored, pending>>, broken', faults'
    PROVE  Family'
<1>1. ParentsThere /\ PendingHang /\ RefsHang /\ Owned
    BY DEF Family
<1>2. ~Commit(c) /\ ~CommitRaises(c) /\ ~Hanging(c)'
    <2>1. AnswerError(c)
        BY DEF QueryFails, InsertFails
    <2>2. step'[c] = 1
        BY <2>1 DEF AnswerError, NextPost, TInv, PostsOK
    <2>3. ~Commit(c) /\ ~CommitRaises(c)
        BY DEF Commit, CommitRaises, Committing
    <2>4. ~Hanging(c)'
        BY <2>2 DEF Hanging
    <2>. QED
        BY <2>3, <2>4
<1>3. ASSUME NEW t \in Tables, NEW r \in pending[t]
      PROVE  \E d \in Clients : d # c /\ Committing(d) /\ t = Table(d) /\ r = NewRow(d)
    BY <1>1, <1>3 DEF Owned
<1>4. \A t \in Tables : Solid'[t] = Base[t] \cup stored[t]
    BY DEF Solid
<1>5. ASSUME NEW ph \in Children, NEW f, HangsOn(ph, f, Solid[Parent[ph]]),
             NEW d \in Clients, d # c,
             \/ Committing(d) /\ Table(d) = ph
             \/ ~Done(d) /\ Phase(d) = ph
      PROVE  HangsOn(ph, f, Solid'[Parent[ph]])
    <2>1. Parent[ph] \in Tables /\ Parent[ph] \in Phases /\ Parent[ph] # ph /\ ph \in Phases
        BY LaterColumns
    <2>2. pending[Parent[ph]] = {}
        <3> SUFFICES ASSUME NEW p \in pending[Parent[ph]] PROVE FALSE
            OBVIOUS
        <3>1. PICK e \in Clients : e # c /\ Committing(e) /\ Parent[ph] = Table(e)
            BY <1>3, <2>1
        <3>2. e = d
            BY <1>5, <3>1 DEF AtMostTwo
        <3>3. ~Done(d) /\ at[d] = "commit" /\ Phase(d) = ph
            BY <1>5, <2>1, <3>1, <3>2 DEF Committing
        <3>4. /\ Column(d) # Parent[ph] /\ step[d] \in DOMAIN Plan[ph]
              /\ Column(d) = Plan[ph][step[d]]
            BY <3>3 DEF TInv, PostsOK, PostOK, Column
        <3>. QED
            BY <2>1, <3>1, <3>2, <3>4, OwnTable DEF Table
    <2>3. Solid[Parent[ph]] \subseteq Solid'[Parent[ph]]
        BY <1>4, <2>1, <2>2 DEF Solid
    <2>. QED
        BY <1>5, <2>3, MoreRows
<1>6. ParentsThere'
    BY <1>1 DEF ParentsThere
<1>7. PendingHang'
    <2> SUFFICES ASSUME NEW ph \in Children, NEW r \in pending[ph]
                 PROVE  HangsOn(ph, r.refs, Solid'[Parent[ph]])
        BY DEF PendingHang
    <2>1. HangsOn(ph, r.refs, Solid[Parent[ph]])
        BY <1>1 DEF PendingHang
    <2>. QED
        BY <1>3, <1>5, <2>1, LaterColumns
<1>8. RefsHang'
    <2> SUFFICES ASSUME NEW d \in Clients, Hanging(d)' PROVE Linked(d)'
        BY DEF RefsHang
    <2>1. d # c
        BY <1>2
    <2>2. Phase(d)' = Phase(d) /\ refs'[d] = refs[d] /\ Hanging(d)
        BY <2>1, Others DEF Hanging, Done, Phase
    <2>3. /\ Phase(d) \in Children /\ ~Done(d)
          /\ HangsOn(Phase(d), refs[d], Solid[Parent[Phase(d)]])
        BY <1>1, <2>2 DEF Hanging, RefsHang, Linked
    <2>4. HangsOn(Phase(d), refs[d], Solid'[Parent[Phase(d)]])
        BY <1>5, <2>1, <2>3
    <2>. QED
        BY <2>2, <2>4 DEF Linked
<1>9. Owned'
    BY <1>1, <1>2, OwnedStep DEF Owned
<1>. QED
    BY <1>6, <1>7, <1>8, <1>9 DEF Family

\* A row is inserted: it has what its thread had from its parent.
LEMMA InsertFamily ==
    ASSUME TInv, Family, Calm, NEW c \in Clients, Insert(c)
    PROVE  Family'
<1>1. ParentsThere /\ PendingHang /\ RefsHang /\ Owned
    BY DEF Family
<1>2. /\ UNCHANGED <<stored, broken, client, step, refs, drawn, faults>> /\ ~broken /\ ~Done(c)
      /\ pending' = [pending EXCEPT ![Table(c)] = @ \cup {NewRow(c)}]
      /\ at' = [at EXCEPT ![c] = "commit"] /\ at[c] = "insert"
    BY DEF Insert, Store, CursorServes
<1>3. \A t \in Tables :
          /\ Solid[t] \subseteq Solid'[t]
          /\ pending[t] \subseteq pending'[t]
          /\ \A r \in pending'[t] : r \in pending[t] \/ (t = Table(c) /\ r = NewRow(c))
    BY <1>2 DEF TInv, DatabaseOK, Solid
<1>4. /\ Phase(c) \in Phases /\ step[c] \in DOMAIN Plan[Phase(c)]
      /\ Column(c) = Plan[Phase(c)][step[c]] /\ Column(c) # Parent[Phase(c)]
    BY <1>2, PostFacts DEF TInv, PostsOK, PostOK, Column
<1>5. ParentsThere'
    BY <1>1, <1>2 DEF ParentsThere
<1>6. PendingHang'
    <2> SUFFICES ASSUME NEW ph \in Children, NEW r \in pending'[ph]
                 PROVE  HangsOn(ph, r.refs, Solid'[Parent[ph]])
        BY DEF PendingHang
    <2>1. ph \in Tables /\ ph \in Phases /\ Parent[ph] \in Tables
        BY LaterColumns
    <2>2. CASE r \in pending[ph]
        BY <1>1, <1>3, <2>1, <2>2, MoreRows DEF PendingHang
    <2>3. CASE ph = Table(c) /\ r = NewRow(c)
        <3>1. Column(c) = Phase(c) /\ Phase(c) = ph
            BY <1>4, <2>1, <2>3, OwnTable DEF Table
        <3>2. r.refs = refs[c]
            BY <2>3, <3>1 DEF NewRow, Row, Links
        <3>3. Hanging(c)
            BY <1>2, <1>4, <3>1, LaterColumns DEF Hanging
        <3>4. HangsOn(ph, refs[c], Solid[Parent[ph]])
            BY <1>1, <3>1, <3>3 DEF RefsHang, Linked
        <3>. QED
            BY <1>3, <2>1, <3>2, <3>4, MoreRows
    <2>. QED
        BY <1>3, <2>1, <2>2, <2>3
<1>7. RefsHang'
    BY <1>1, <1>2, <1>3, RefsStep DEF Serve
<1>8. Owned'
    <2> SUFFICES ASSUME NEW t \in Tables, NEW r \in pending'[t]
                 PROVE  \E d \in Clients : (Committing(d) /\ t = Table(d) /\ r = NewRow(d))'
        BY DEF Owned
    <2>1. CASE r \in pending[t]
        <3>1. ~Commit(c) /\ ~CommitRaises(c)
            BY <1>2 DEF Commit, CommitRaises
        <3>. QED
            BY <1>1, <2>1, <3>1, OwnedStep DEF Serve
    <2>2. CASE t = Table(c) /\ r = NewRow(c)
        <3>1. Committing(c)'
            BY <1>2 DEF Committing, Done, client, TInv, PostsOK
        <3>2. Table(c)' = Table(c) /\ NewRow(c)' = NewRow(c)
            BY <1>2 DEF client, Table, Column, Phase, NewRow, Value, Links
        <3>. QED
            BY <2>2, <3>1, <3>2
    <2>. QED
        BY <1>3, <2>1, <2>2
<1>9. broken' => faults'
    BY <1>2
<1>. QED
    BY <1>5, <1>6, <1>7, <1>8, <1>9 DEF Family

\* The transaction ends, and the tables hold what they were going to hold.
LEMMA CommitFamily ==
    ASSUME TInv, Family, Calm, NEW c \in Clients, Commit(c)
    PROVE  Family'
<1>1. ParentsThere /\ PendingHang /\ RefsHang /\ Owned
    BY DEF Family
<1>2. CommitWork
    BY DEF Commit
<1>3. \A t \in Tables : pending'[t] = {} /\ Solid[t] = Solid'[t] /\ Solid'[t] = Base[t] \cup stored'[t]
    BY <1>2 DEF CommitWork, Solid, TInv, DatabaseOK
<1>4. ParentsThere'
    <2> SUFFICES ASSUME NEW ph \in Children, NEW r \in stored'[ph]
                 PROVE  HangsOn(ph, r.refs, Base[Parent[ph]] \cup stored'[Parent[ph]])
        BY DEF ParentsThere, Children, HangsOn
    <2>1. ph \in Tables /\ Parent[ph] \in Tables
        BY LaterColumns
    <2>2. CASE r \in stored[ph]
        <3>1. HangsOn(ph, r.refs, Base[Parent[ph]] \cup stored[Parent[ph]])
            BY <1>1, <2>2 DEF ParentsThere, Children, HangsOn
        <3>2. stored[Parent[ph]] \subseteq stored'[Parent[ph]]
            BY <1>2, <2>1 DEF CommitWork
        <3>. QED
            BY <3>1, <3>2 DEF HangsOn
    <2>3. CASE r \notin stored[ph]
        <3>1. r \in pending[ph]
            BY <1>2, <2>1, <2>3 DEF CommitWork
        <3>. QED
            BY <1>1, <1>3, <2>1, <3>1, MoreRows DEF PendingHang
    <2>. QED
        BY <2>2, <2>3
<1>5. PendingHang' /\ Owned'
    BY <1>3, LaterColumns DEF PendingHang, Owned
<1>6. RefsHang'
    <2>1. ~ReadParent(c)
        BY DEF Commit, ReadParent
    <2>. QED
        BY <1>1, <1>3, <2>1, RefsStep DEF Serve
<1>7. ~broken'
    BY <1>2 DEF CommitWork
<1>. QED
    BY <1>4, <1>5, <1>6, <1>7 DEF Family

\* Every step keeps the families together.
LEMMA FamilyStep == TInv /\ Family /\ [Next]_vars => Family'
<1> SUFFICES ASSUME TInv, Family, [Next]_vars, Calm' PROVE Family'
    BY DEF Family
<1>1. Calm /\ ~ConnectionLost /\ NeverLost'
    BY WasNeverLost DEF Calm, AtMostTwo
<1>2. CASE UNCHANGED vars
    <2>1. /\ UNCHANGED <<stored, pending, broken, faults>>
          /\ UNCHANGED <<post, at, step, refs, drawn>>
        BY <1>2 DEF vars, database, thread, client
    <2>2. Solid' = Solid
        BY <2>1 DEF Solid
    <2>3. ParentsThere' /\ PendingHang' /\ (broken' => faults')
        BY <1>1, <2>1, <2>2 DEF Family, ParentsThere, PendingHang
    <2>4. RefsHang'
        BY <1>1, <2>1, <2>2 DEF Family, RefsHang, Linked, Hanging, Done, Phase
    <2>5. Owned'
        <3>1. ASSUME NEW c \in Clients
              PROVE  /\ Committing(c)' <=> Committing(c)
                     /\ Table(c)' = Table(c) /\ NewRow(c)' = NewRow(c)
            BY <2>1 DEF Committing, Done, Table, Column, Phase, NewRow, Value, Links
        <3>2. Owned
            BY <1>1 DEF Family
        <3>. QED
            BY <2>1, <3>1, <3>2 DEF Owned
    <2>. QED
        BY <2>3, <2>4, <2>5 DEF Family
<1>3. ASSUME NEW c \in Clients, Serve(c) PROVE Family'
    <2>1. CASE Insert(c) \/ Commit(c)
        BY <1>1, <2>1, InsertFamily, CommitFamily
    <2>2. CASE /\ QueryFails(c) \/ InsertFails(c)
               /\ UNCHANGED <<stored, pending>> /\ broken' /\ faults' /\ ~Committing(c)
        <3>1. AtMostTwo
            BY <2>2 DEF Calm, AtMostTwo
        <3>. QED
            BY <1>1, <1>3, <2>2, <3>1, FailStep
    <2>3. CASE UNCHANGED <<stored, pending, broken, faults>> /\ ~Insert(c) /\ ~Commit(c)
        <3>1. ParentsThere /\ PendingHang /\ RefsHang /\ Owned /\ (broken => faults)
            BY <1>1 DEF Family
        <3>2. Solid' = Solid
            BY <2>3 DEF Solid
        <3>3. ParentsThere' /\ PendingHang' /\ (broken' => faults')
            BY <2>3, <3>1, <3>2 DEF ParentsThere, PendingHang
        <3>4. ReadParent(c) => ~broken
            BY <1>1 DEF ReadParent, Serves, Calm, NeverLost
        <3>5. RefsHang'
            BY <1>3, <3>1, <3>2, <3>4, RefsStep
        <3>6. ~CommitRaises(c)
            BY <1>1, <1>3, TableMoves
        <3>7. Owned'
            BY <1>3, <2>3, <3>1, <3>6, OwnedStep DEF Owned
        <3>. QED
            BY <3>3, <3>5, <3>7 DEF Family
    <2>. QED
        BY <1>1, <1>3, <2>1, <2>2, <2>3, TableMoves
<1>. QED
    BY <1>1, <1>2, <1>3 DEF Next

\* The tables hold nothing that hangs on anything at the start.
LEMMA InitFamily == Init => Family
BY DEF Init, DatabaseInit, Family, ParentsThere, PendingHang, Children, Tables,
   RefsHang, Hanging, Owned

\* A test build or a test run in the database hangs on a row that is there, and
\* what was copied from that row agrees with it, as long as the connection holds
\* and no statement has failed; with at most two clients also when some have.
THEOREM SpecParentsAgree == Spec => []ParentsAgree
<1>1. Spec => [](TInv /\ Family)
    BY SpecTInv, InitFamily, FamilyStep, PTL DEF Spec
<1>2. Family => ParentsAgree
    BY DEF Family, ParentsAgree, Calm
<1>. QED
    BY <1>1, <1>2, PTL
-----------------------------------------------------------------------------
(* Answers.  As long as nothing has failed every row that was inserted is    *)
(* there for all, and a row that is not committed has an owner who is going  *)
(* to commit it.                                                             *)

Faultless == NeverLost /\ ~faults

Inserted == \A c \in Clients : Committing(c) => NewRow(c) \in Visible(Table(c))
Promised == Faultless => Inserted /\ \A ph \in Phases : answers[ph] \subseteq Visible(ph)

\* Only an INSERT makes a thread go on to its commit.
LEMMA InsertedStep ==
    ASSUME TInv, Inserted, NEW c \in Clients, Serve(c), ~Insert(c),
           \A t \in Tables : Visible(t) \subseteq Visible(t)'
    PROVE  Inserted'
<1> SUFFICES ASSUME NEW d \in Clients, Committing(d)' PROVE (NewRow(d) \in Visible(Table(d)))'
    BY DEF Inserted
<1>1. d # c
    <2>1. CASE Draw(c)
        BY <2>1 DEF Draw, Committing, TInv, PostsOK
    <2>2. CASE ~Draw(c)
        BY <2>2, LetsGo DEF Holds, Committing
    <2>. QED
        BY <2>1, <2>2
<1>2. Committing(d) /\ ~Done(d) /\ Table(d)' = Table(d) /\ NewRow(d)' = NewRow(d)
    BY <1>1, Others DEF Committing, Done
<1>3. NewRow(d) \in Visible(Table(d)) /\ Table(d) \in Tables
    BY <1>2, HeldTable DEF Inserted
<1>. QED
    BY <1>2, <1>3

\* Every step keeps the promises.
LEMMA PromisedStep == TInv /\ Family /\ Promised /\ [Next]_vars => Promised'
<1> SUFFICES ASSUME TInv, Family, Promised, [Next]_vars, Faultless' PROVE Promised'
    BY DEF Promised
<1>1. Faultless /\ ~ConnectionLost /\ NeverLost'
    BY WasNeverLost DEF Faultless
<1>2. Inserted /\ (\A ph \in Phases : answers[ph] \subseteq Visible(ph)) /\ ~broken
    BY <1>1 DEF Promised, Family, Calm, Faultless
<1>3. \A ph \in Phases : ph \in Tables /\ Told(ph) \subseteq Visible(ph) /\ answers'[ph] \subseteq Told(ph)'
    BY <1>2 DEF Phases, Tables, Told
<1>4. CASE UNCHANGED vars
    <2>1. UNCHANGED <<stored, pending, answers>> /\ UNCHANGED <<post, at, step, refs, drawn>>
        BY <1>4 DEF vars, database, thread, client
    <2>2. ASSUME NEW c \in Clients
          PROVE  /\ Committing(c)' <=> Committing(c)
                 /\ Table(c)' = Table(c) /\ NewRow(c)' = NewRow(c)
        BY <2>1 DEF Committing, Done, Table, Column, Phase, NewRow, Value, Links
    <2>3. \A t : Visible(t)' = Visible(t)
        BY <2>1 DEF Visible
    <2>. QED
        BY <1>2, <2>1, <2>2, <2>3 DEF Promised, Inserted
<1>5. ASSUME NEW c \in Clients, Serve(c) PROVE Promised'
    <2>1. CASE Insert(c)
        <3>1. /\ \A t \in Tables : Visible(t) \subseteq Visible(t)'
              /\ \A t \in Tables : t = Table(c) => NewRow(c) \in Visible(t)'
            BY <2>1 DEF Insert, Store, Visible, TInv, DatabaseOK
        <3>2. Table(c)' = Table(c) /\ NewRow(c)' = NewRow(c) /\ Table(c) \in Tables
            BY <2>1, HeldTable DEF Insert, client, Table, Column, Phase, NewRow, Value, Links
        <3>3. ASSUME NEW d \in Clients, d # c, Committing(d)'
              PROVE  (NewRow(d) \in Visible(Table(d)))'
            <4>1. Committing(d) /\ ~Done(d) /\ Table(d)' = Table(d) /\ NewRow(d)' = NewRow(d)
                BY <1>5, <3>3, Others DEF Committing, Done
            <4>2. NewRow(d) \in Visible(Table(d)) /\ Table(d) \in Tables
                BY <1>2, <4>1, HeldTable DEF Inserted
            <4>. QED
                BY <3>1, <4>1, <4>2
        <3>4. Inserted'
            BY <3>1, <3>2, <3>3 DEF Inserted
        <3>5. answers' = answers
            BY <2>1 DEF Insert, client
        <3>. QED
            BY <1>2, <1>3, <3>1, <3>4, <3>5 DEF Promised
    <2>2. CASE Commit(c)
        <3>1. \A t \in Tables : Visible(t) = Visible(t)'
            BY <1>2, <2>2 DEF Commit, CommitWork, Visible, TInv, DatabaseOK
        <3>2. Inserted'
            BY <1>2, <1>5, <2>2, <3>1, InsertedStep DEF Commit, Insert
        <3>3. ~Done(c) /\ NewRow(c) \in Visible(Table(c))
            BY <1>2, <2>2 DEF Inserted, Committing, Commit
        <3>4. \A ph \in Phases : answers'[ph] \subseteq Visible(ph)'
            BY <1>3, <2>2, <3>1, <3>3, CommitTold
        <3>. QED
            BY <3>2, <3>4 DEF Promised
    <2>3. CASE ~Insert(c) /\ ~Commit(c)
        <3>1. UNCHANGED <<stored, pending>>
            BY <1>1, <1>5, <2>3, TableMoves
        <3>2. \A t \in Tables : Visible(t) = Visible(t)'
            BY <3>1 DEF Visible
        <3>3. Inserted'
            BY <1>2, <1>5, <2>3, <3>2, InsertedStep
        <3>4. \A ph \in Phases : answers'[ph] \subseteq Visible(ph)'
            BY <1>3, <1>5, <2>3, <3>2, QuietServe
        <3>. QED
            BY <3>3, <3>4 DEF Promised
    <2>. QED
        BY <2>1, <2>2, <2>3
<1>. QED
    BY <1>1, <1>4, <1>5 DEF Next

\* Nobody was told anything at the start.
LEMMA InitPromised == Init => Promised
BY DEF Init, Promised, Inserted, Committing

\* What a client was given an id for is in the database once no thread is on
\* the way to its commit, if no statement has failed and no connection was lost.
THEOREM SpecAnsweredIsStored == Spec => []AnsweredIsStored
<1>1. Spec => [](TInv /\ Family /\ Promised)
    BY SpecTInv, InitFamily, FamilyStep, InitPromised, PromisedStep, PTL DEF Spec
<1>2. TInv /\ Family /\ Promised => AnsweredIsStored
    <2> SUFFICES ASSUME Family, Promised, ~faults, NeverLost,
                        \A c \in Clients : ~Committing(c), NEW ph \in Phases
                 PROVE  answers[ph] \subseteq Base[ph] \cup stored[ph]
        BY DEF AnsweredIsStored
    <2>1. ph \in Tables
        BY DEF Phases, Tables
    <2>2. pending[ph] = {}
        BY <2>1 DEF Family, Calm, Owned
    <2>. QED
        BY <2>2 DEF Promised, Faultless, Visible
<1>. QED
    BY <1>1, <1>2, PTL
=============================================================================
