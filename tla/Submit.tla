------------------------------- MODULE Submit -------------------------------
(***************************************************************************)
(* Clients that report their results (pylib/Stages/Reporter/IUDatabase.py) *)
(* and the threads of the server that serve their POSTs (Submit.POST of    *)
(* dispatchers.py and the insert_* functions of db_pgv3.py), one statement *)
(* at a time.  A client has one POST under way, so a thread is named after *)
(* the client it serves.  A payload of this client holds one entry.        *)
(*                                                                         *)
(* A POST fills the columns of its row in the order of Plan: each value is *)
(* looked up in its own table, and inserted there when it is new, then the *)
(* row itself is looked up and inserted in the same way.                   *)
(***************************************************************************)
EXTENDS Database, Sequences

CONSTANTS
    Session,    \* what each client's log makes it POST
    Absent      \* the value of a field that the log does not have

Clients == DOMAIN Session
Phases == {"mpi_install", "test_build", "test_run"}

\* The columns of an mpi_install, a test_build and a test_run in the order in
\* which they are filled; the last one is the row's own number.
InstallPlan == <<"submit", "compute_cluster", "mpi_install_compiler", "mpi_get",
                 "mpi_install_configure", "description", "result_message",
                 "environment", "mpi_install">>
BuildPlan == <<"submit", "mpi_install", "test_build_compiler", "test_suite",
               "description", "result_message", "environment", "test_build">>
RunPlan == <<"submit", "test_build", "test_name", "description",
             "result_message", "environment", "provision", "test_run">>
Plan == [mpi_install |-> InstallPlan, test_build |-> BuildPlan, test_run |-> RunPlan]

\* The phase whose row this one hangs on, and the columns copied from it.
Parent == [mpi_install |-> "none", test_build |-> "mpi_install",
           test_run |-> "test_build"]
Copied == [mpi_install |-> {}, test_build |-> FromInstall, test_run |-> FromBuild]

\* The client sets every field that the server looks up, to Absent if need be.
IsPayload(p) ==
    /\ p.phase \in Phases
    /\ {Plan[p.phase][i] : i \in DOMAIN Plan[p.phase]} \ {Parent[p.phase]}
           \subseteq DOMAIN p.entry

ASSUME SessionAssumption ==
    \A c \in Clients :
        /\ Len(Session[c]) \in Nat /\ DOMAIN Session[c] = 1 .. Len(Session[c])
        /\ Session[c] # <<>> => Session[c][1].phase = "mpi_install"
        /\ \A k \in DOMAIN Session[c] : IsPayload(Session[c][k])

VARIABLES
    post,       \* the client's POST under way
    given,      \* the ids it sends along: the parents of its next rows
    at, step,   \* where the thread is, and at which column of Plan
    refs,       \* the columns that it has filled
    parent,     \* the id that _find_*_id returned
    drawn,      \* the id that _get_nextval returned
    cursor,     \* the connection of _select_insert's cursor
    answers,    \* history: the rows whose ids a client was given
    faults      \* history: a statement has failed

thread == <<at, step, refs, parent, drawn, cursor>>
client == <<post, given, answers>>
vars == <<database, thread, client, faults>>

Done(c) == post[c] > Len(Session[c])

Init ==
    /\ DatabaseInit
    /\ post = [c \in Clients |-> 1]
    /\ given = [c \in Clients |-> [ph \in {"mpi_install", "test_build"} |-> 0]]
    /\ at = [c \in Clients |-> "column"] /\ step = [c \in Clients |-> 1]
    /\ refs = [c \in Clients |-> Nothing]
    /\ parent = [c \in Clients |-> 0] /\ drawn = [c \in Clients |-> 0]
    /\ cursor = [c \in Clients |-> 0]
    /\ answers = [ph \in Phases |-> {}] /\ faults = FALSE
-----------------------------------------------------------------------------
(* The POST under way                                                      *)

Phase(c) == Session[c][post[c]].phase
Column(c) == Plan[Phase(c)][step[c]]
Table(c) == TableOf[Column(c)]
Value(c) == Session[c][post[c]].entry[Column(c)]

\* What identifies a row next to its value.
Links(c) ==
    IF Column(c) = Phase(c) THEN refs[c]
    ELSE IF Column(c) = "test_name"
    THEN [col \in {"test_suite"} |-> refs[c]["test_suite"]]
    ELSE Nothing

NewRow(c) == Row(drawn[c], Value(c), Links(c))

Filled(c, col, i) ==
    [k \in DOMAIN refs[c] \cup {col} |-> IF k = col THEN i ELSE refs[c][k]]

AtLookup(c) == at[c] = "column" /\ ~Done(c) /\ Column(c) # Parent[Phase(c)]
AtParent(c) == at[c] = "column" /\ ~Done(c) /\ Column(c) = Parent[Phase(c)]
Skips(c) == Phase(c) = "test_run" /\ Column(c) \in {"description", "provision"}
-----------------------------------------------------------------------------
(* The client, once it has its answer                                      *)

\* Where the sections begin that come after the POST under way.
Sections(c) ==
    {k \in post[c] + 1 .. Len(Session[c]) :
        /\ Session[c][k].phase = "mpi_install"
        /\ Session[c][k - 1].phase # "mpi_install"}

MoreInstalls(c) ==
    /\ Phase(c) = "mpi_install" /\ post[c] < Len(Session[c])
    /\ Session[c][post[c] + 1].phase = "mpi_install"

\* After a failure the client goes on with POST k.  A build is reported after
\* every MiddlewareBuild of the log has been, with the last one's answer; what
\* fails otherwise ends its section.
Resumes(c, k) ==
    IF MoreInstalls(c) THEN k = post[c] + 1
    ELSE /\ k \in Sections(c) \cup {Len(Session[c]) + 1}
         /\ \A j \in Sections(c) : k <= j

NextPost(c, k) ==
    /\ post' = [post EXCEPT ![c] = k]
    /\ at' = [at EXCEPT ![c] = "column"] /\ step' = [step EXCEPT ![c] = 1]
    /\ refs' = [refs EXCEPT ![c] = Nothing]

\* No JSON, or a status that is not 0.
AnswerError(c) ==
    \E k \in 1 .. Len(Session[c]) + 2 :
        Resumes(c, k) /\ NextPost(c, k) /\ UNCHANGED <<given, answers>>

AnswerId(c, i) ==
    /\ NextPost(c, post[c] + 1)
    /\ given' = IF Phase(c) = "test_run" THEN given
                ELSE [given EXCEPT ![c][Phase(c)] = i]
    /\ answers' = [answers EXCEPT ![Phase(c)] = @ \cup {Row(i, Value(c), refs[c])}]

\* A column is done, or with the row's own number the POST is.
Take(c, i) ==
    IF Column(c) = Phase(c) THEN AnswerId(c, i)
    ELSE /\ refs' = [refs EXCEPT ![c] = Filled(c, Column(c), i)]
         /\ at' = [at EXCEPT ![c] = "column"]
         /\ step' = [step EXCEPT ![c] = step[c] + 1]
         /\ UNCHANGED client
-----------------------------------------------------------------------------
(* A column                                                                *)

\* Optional, and not in the entry.
LookupSkips(c) ==
    /\ AtLookup(c) /\ Value(c) = Absent /\ Skips(c)
    /\ Take(c, 0)
    /\ UNCHANGED <<database, parent, drawn, cursor, faults>>

\* "Missing field": an error, after what has been inserted so far.
FieldMissing(c) ==
    /\ AtLookup(c) /\ Value(c) = Absent /\ ~Skips(c)
    /\ AnswerError(c)
    /\ UNCHANGED <<database, parent, drawn, cursor, faults>>

\* _select_insert asks for the table's fields and then for the key.
SelectFinds(c) ==
    /\ AtLookup(c) /\ Value(c) # Absent /\ Table(c) \notin Missing
    /\ Serves /\ Fetch
    /\ \E i \in Matches(Table(c), Value(c), Links(c)) :
           /\ \A j \in Matches(Table(c), Value(c), Links(c)) : i <= j
           /\ Take(c, i)
    /\ UNCHANGED <<seq, parent, drawn, cursor, faults>>

SelectFindsNone(c) ==
    /\ AtLookup(c) /\ Value(c) # Absent /\ Table(c) \notin Missing
    /\ Serves /\ Fetch
    /\ Matches(Table(c), Value(c), Links(c)) = {}
    /\ at' = [at EXCEPT ![c] = "nextval"]
    /\ cursor' = [cursor EXCEPT ![c] = Current]
    /\ UNCHANGED <<seq, client, step, refs, parent, drawn, faults>>

\* Mutant: the id is one more than the highest in the table.
DrawHighest(c) ==
    /\ at[c] = "nextval" /\ ~Done(c)
    /\ Serves /\ Fetch
    /\ LET ids == {r.id : r \in Visible(Table(c))}
           top == CHOOSE i \in ids : \A j \in ids : i >= j
       IN /\ seq' = [seq EXCEPT ![Table(c)] = top + 1]
          /\ drawn' = [drawn EXCEPT ![c] = top + 1]
    /\ at' = [at EXCEPT ![c] = "insert"]
    /\ UNCHANGED <<client, step, refs, parent, cursor, faults>>

\* A sequence's numbers are outside of every transaction.
Draw(c) ==
    /\ at[c] = "nextval" /\ ~Done(c)
    /\ Serves /\ Fetch
    /\ seq' = [seq EXCEPT ![Table(c)] = @ + 1]
    /\ drawn' = [drawn EXCEPT ![c] = seq[Table(c)] + 1]
    /\ at' = [at EXCEPT ![c] = "insert"]
    /\ UNCHANGED <<client, step, refs, parent, cursor, faults>>

Insert(c) ==
    /\ at[c] = "insert" /\ ~Done(c)
    /\ CursorServes(cursor[c]) /\ Accepts(Table(c), NewRow(c))
    /\ Store(Table(c), NewRow(c))
    /\ at' = [at EXCEPT ![c] = "commit"]
    /\ UNCHANGED <<client, step, refs, parent, drawn, cursor, faults>>

Commit(c) ==
    /\ at[c] = "commit" /\ ~Done(c)
    /\ CommitWork
    /\ Take(c, drawn[c])
    /\ UNCHANGED <<parent, drawn, cursor, faults>>
-----------------------------------------------------------------------------
(* The column of the parent row                                            *)

\* _find_*_id: the id that the client sent, if there is such a row, or the
\* dummy row.
FindParent(c) ==
    /\ AtParent(c)
    /\ Serves /\ Fetch
    /\ parent' = [parent EXCEPT ![c] =
                    IF Exists(Table(c), given[c][Column(c)])
                    THEN given[c][Column(c)] ELSE 0]
    /\ at' = [at EXCEPT ![c] = "info"]
    /\ UNCHANGED <<seq, client, step, refs, drawn, cursor, faults>>

\* Mutant: the parent's columns are read from the dummy row.
ReadDummy(c) ==
    /\ at[c] = "info" /\ ~Done(c)
    /\ Serves /\ Fetch
    /\ Exists(Table(c), parent[c])
    /\ LET row == RowOf(Table(c), 0)
           new == Copied[Phase(c)] \cup {Column(c)}
       IN refs' = [refs EXCEPT ![c] =
                     [col \in DOMAIN refs[c] \cup new |->
                        IF col = Column(c) THEN parent[c]
                        ELSE IF col \in new THEN row.refs[col] ELSE refs[c][col]]]
    /\ at' = [at EXCEPT ![c] = "column"]
    /\ step' = [step EXCEPT ![c] = step[c] + 1]
    /\ UNCHANGED <<seq, client, parent, drawn, cursor, faults>>

\* _get_*_info: the columns to copy.
ReadParent(c) ==
    /\ at[c] = "info" /\ ~Done(c)
    /\ Serves /\ Fetch
    /\ Exists(Table(c), parent[c])
    /\ LET row == RowOf(Table(c), parent[c])
           new == Copied[Phase(c)] \cup {Column(c)}
       IN refs' = [refs EXCEPT ![c] =
                     [col \in DOMAIN refs[c] \cup new |->
                        IF col = Column(c) THEN parent[c]
                        ELSE IF col \in new THEN row.refs[col] ELSE refs[c][col]]]
    /\ at' = [at EXCEPT ![c] = "column"]
    /\ step' = [step EXCEPT ![c] = step[c] + 1]
    /\ UNCHANGED <<seq, client, parent, drawn, cursor, faults>>

\* The row is gone since: "Not able to associate".
ParentGone(c) ==
    /\ at[c] = "info" /\ ~Done(c)
    /\ Serves /\ Fetch
    /\ ~Exists(Table(c), parent[c])
    /\ AnswerError(c)
    /\ UNCHANGED <<seq, parent, drawn, cursor, faults>>
-----------------------------------------------------------------------------
(* An exception in the handler: the client gets "500"                      *)

QueryFails(c) ==
    /\ \/ AtLookup(c) /\ Value(c) # Absent
       \/ AtParent(c)
       \/ at[c] \in {"nextval", "info"} /\ ~Done(c)
    /\ \/ /\ ~Serves \/ (AtLookup(c) /\ Table(c) \in Missing)
          /\ FetchFails
       \/ ConnectFails
    /\ AnswerError(c)
    /\ faults' = TRUE
    /\ UNCHANGED <<parent, drawn, cursor>>

InsertFails(c) ==
    /\ at[c] = "insert" /\ ~Done(c)
    /\ ~(CursorServes(cursor[c]) /\ Accepts(Table(c), NewRow(c)))
    /\ StoreFails(cursor[c])
    /\ AnswerError(c)
    /\ faults' = TRUE
    /\ UNCHANGED <<parent, drawn, cursor>>

CommitRaises(c) ==
    /\ at[c] = "commit" /\ ~Done(c)
    /\ CommitFails
    /\ AnswerError(c)
    /\ faults' = TRUE
    /\ UNCHANGED <<parent, drawn, cursor>>
-----------------------------------------------------------------------------
Serve(c) ==
    \/ LookupSkips(c) \/ FieldMissing(c)
    \/ SelectFinds(c) \/ SelectFindsNone(c) \/ Draw(c) \/ Insert(c) \/ Commit(c)
    \/ FindParent(c) \/ ReadParent(c) \/ ParentGone(c)
    \/ QueryFails(c) \/ InsertFails(c) \/ CommitRaises(c)

ConnectionLost == Drop /\ UNCHANGED <<thread, client, faults>>

Next == (\E c \in Clients : Serve(c)) \/ ConnectionLost

Spec == Init /\ [][Next]_vars
-----------------------------------------------------------------------------
\* The rows of a table, and those that were there when a client was told.
Told(t) == Visible(t) \cup IF t \in Phases THEN answers[t] ELSE {}

\* Every variable has its type.
TypeOK ==
    /\ DOMAIN stored = Tables /\ DOMAIN pending = Tables
    /\ answers \in [Phases -> {answers[ph] : ph \in Phases}]
    /\ \A t \in Tables : \A r \in Told(t) : IsRow(r)
    /\ seq \in [Tables -> Nat] /\ gen \in 0 .. MaxDrops
    /\ broken \in BOOLEAN /\ link \in {"up", "dead", "closed"}
    /\ post \in [Clients -> Nat] /\ step \in [Clients -> Nat]
    /\ \A c \in Clients :
           /\ post[c] \in 1 .. Len(Session[c]) + 1
           /\ Done(c) \/ step[c] \in DOMAIN Plan[Phase(c)]
           /\ DOMAIN refs[c] \subseteq Columns /\ refs[c] \in [DOMAIN refs[c] -> Nat]
           /\ cursor[c] \in 0 .. gen
    /\ at \in [Clients -> {"column", "nextval", "insert", "commit", "info"}]
    /\ drawn \in [Clients -> Nat] /\ parent \in [Clients -> Nat]
    /\ DOMAIN refs = Clients /\ DOMAIN cursor = Clients
    /\ given \in [Clients -> [{"mpi_install", "test_build"} -> Nat]]
    /\ faults \in BOOLEAN

\* An id names one row for good: no second row gets it, and what a client was
\* told is that its own data have this id, also when that row is lost again.
IdsAreForever == \A t \in Tables : \A r, s \in Told(t) : r.id = s.id => r = s

ParentsThere ==
    \A ph \in {"test_build", "test_run"} : \A r \in stored[ph] :
        \E p \in Base[Parent[ph]] \cup stored[Parent[ph]] :
            /\ p.id = r.refs[Parent[ph]]
            /\ \A col \in Copied[ph] : p.refs[col] = r.refs[col]

NeverLost == link = "up" /\ gen = 0

AtMostTwo == \A c, d, e \in Clients : c = d \/ c = e \/ d = e

\* Unless the connection was lost, a test build or a test run in the database
\* hangs on a row that is there, and what was copied from that row agrees.  It
\* takes three clients to break this otherwise: the first inserts the parent,
\* the second builds on what is not committed yet, and a statement of the third
\* fails, so that the first one's commit is a rollback.
ParentsAgree == NeverLost /\ (faults => AtMostTwo) => ParentsThere

Committing(c) == at[c] = "commit" /\ ~Done(c)

\* As long as no statement has failed, what a client was given an id for is in
\* the database, also if another thread inserted it, once that one is through.
AnsweredIsStored ==
    ~faults /\ NeverLost /\ (\A c \in Clients : ~Committing(c)) =>
        \A ph \in Phases : answers[ph] \subseteq Base[ph] \cup stored[ph]

\* When a transaction has failed and no thread is between its INSERT and its
\* commit, nothing is ever stored again on this connection.
Poisoned == broken /\ \A c \in Clients : ~Committing(c)
PoisonLasts == [][Poisoned => Poisoned' \/ link' # "up"]_vars
-----------------------------------------------------------------------------
(* What the comments say.                                                  *)

\* "Make sure to commit after every INSERT" (db_pgv3.py:640): a thread that
\* goes on after its INSERT has its row in the database.
InsertIsCommitted ==
    [][\A c \in Clients :
         Committing(c) /\ at'[c] # "commit" /\ faults' = faults =>
             NewRow(c) \in stored'[Table(c)]]_vars

\* "we filter because the client may have sent us stuff our database has no
\* clue about" (db_pgv3.py:584-585): no such thing makes a statement fail.
UnknownIsFiltered == ~faults

\* "Try the select to see if we need to insert" (db_pgv3.py:611): no key twice.
NoDuplicates ==
    \A t \in Tables : \A r, s \in Visible(t) :
        r.value = s.value /\ r.refs = s.refs => r = s
=============================================================================
