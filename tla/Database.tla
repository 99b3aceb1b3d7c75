------------------------------ MODULE Database ------------------------------
(***************************************************************************)
(* The result database as the server's Submit resource sees it             *)
(* (server/php/cherrypy/src/webapp/db_pgv3.py, server/sql/schemas-v3.sql): *)
(* one psycopg2 connection, shared by the threads of the pool, and so one  *)
(* transaction, whoever runs the next statement.  After a statement that   *)
(* fails, PostgreSQL refuses every other until the transaction ends, and   *)
(* nothing but commit() ever ends it: then it is a rollback, silently.     *)
(*                                                                         *)
(* A connection that the database dropped is noticed by the first          *)
(* statement that fails on it, and replaced by the next get_cursor.        *)
(***************************************************************************)
EXTENDS Integers, FiniteSets

CONSTANTS
    Known,      \* a row that a table holds at the start, next to its row 0
    Unique,     \* the tables with a UNIQUE constraint on their key
    Missing,    \* the tables that the code names and the schema has not
    TooLong,    \* the values that do not fit their column
    MaxDrops    \* how often the connection may be lost

Tables == {"submit", "compute_cluster", "compiler", "mpi_get",
           "mpi_install_configure_args", "description", "result_message",
           "environment", "mpi_install", "test_suites", "test_build",
           "test_names", "provision", "test_run"}

\* The table a column of ids points into.
TableOf == [submit |-> "submit", compute_cluster |-> "compute_cluster",
            mpi_install_compiler |-> "compiler", mpi_get |-> "mpi_get",
            mpi_install_configure |-> "mpi_install_configure_args",
            description |-> "description", result_message |-> "result_message",
            environment |-> "environment", mpi_install |-> "mpi_install",
            test_build_compiler |-> "compiler", test_suite |-> "test_suites",
            test_build |-> "test_build", test_name |-> "test_names",
            provision |-> "provision", test_run |-> "test_run"]
Columns == DOMAIN TableOf

\* No foreign key guards these: "PARTITION/FK PROBLEM".
Unguarded == {"mpi_install", "test_build"}

VARIABLES
    stored,     \* the rows of committed transactions, next to Base
    pending,    \* the rows of the open one
    seq,        \* the last number that each table's sequence gave
    broken,     \* the open transaction has failed
    link,       \* the connection: "up", "dead" (unnoticed) or "closed"
    gen         \* which connection it is

database == <<stored, pending, seq, broken, link, gen>>

\* A row: its number, what was sent for it, and the rows it points at.
Row(i, v, refs) == [id |-> i, value |-> v, refs |-> refs]

IsRow(r) ==
    /\ r = Row(r.id, r.value, r.refs) /\ r.id \in Nat
    /\ DOMAIN r.refs \subseteq Columns /\ r.refs \in [DOMAIN r.refs -> Nat]

\* Every table begins with an invalid row, "in case we need it".
Nothing == [col \in {} |-> 0]
FromInstall == {"compute_cluster", "mpi_install_compiler", "mpi_get",
                "mpi_install_configure"}
FromBuild == FromInstall \cup {"mpi_install", "test_build_compiler", "test_suite"}
Dummy(t) == Row(0, "undef", CASE t = "mpi_install" -> [col \in FromInstall |-> 0]
                              [] t = "test_build" -> [col \in FromBuild |-> 0]
                              [] OTHER -> Nothing)

ASSUME DatabaseAssumption ==
    /\ MaxDrops \in Nat /\ Unique \subseteq Tables /\ Missing \subseteq Tables
    /\ DOMAIN Known \subseteq Tables
    /\ \A t \in DOMAIN Known :
           /\ IsRow(Known[t]) /\ Known[t].id > 0
           /\ DOMAIN Dummy(t).refs \subseteq DOMAIN Known[t].refs

\* What a table holds at the start.
Base == [t \in Tables |->
           {Dummy(t)} \cup IF t \in DOMAIN Known THEN {Known[t]} ELSE {}]

DatabaseInit ==
    /\ stored = [t \in Tables |-> {}]
    /\ pending = [t \in Tables |-> {}]
    /\ seq = [t \in Tables |-> IF t \in DOMAIN Known THEN Known[t].id ELSE 0]
    /\ broken = FALSE /\ link = "up" /\ gen = 0
-----------------------------------------------------------------------------
Visible(t) == Base[t] \cup stored[t] \cup pending[t]
Exists(t, i) == \E r \in Visible(t) : r.id = i
RowOf(t, i) == CHOOSE r \in Visible(t) : r.id = i

\* The numbers under which a table holds this key.
Matches(t, v, refs) ==
    {r.id : r \in {s \in Visible(t) : s.value = v /\ s.refs = refs}}

\* What the constraints of the table say of a new row.
Accepts(t, row) ==
    /\ row.value \notin TooLong
    /\ t \in Unique => Matches(t, row.value, row.refs) = {}
    /\ \A col \in DOMAIN row.refs \ Unguarded : Exists(TableOf[col], row.refs[col])

\* Mutant: the connection is in autocommit mode.
ServesAutocommit == link # "dead"

\* A statement on a new cursor is served: get_cursor replaces a connection
\* that is known to be closed.
Serves == link = "closed" \/ (link = "up" /\ ~broken)

Current == IF link = "closed" THEN gen + 1 ELSE gen

Fetch ==
    /\ gen' = Current /\ link' = "up" /\ broken' = FALSE
    /\ UNCHANGED <<stored, pending>>

\* It is refused, or it fails.
FetchFails ==
    /\ gen' = Current
    /\ link' = IF link = "dead" THEN "closed" ELSE "up"
    /\ broken' = (link # "dead")
    /\ UNCHANGED <<stored, pending, seq>>

\* There is no new connection to be had: the closed one stays.
ConnectFails == link = "closed" /\ UNCHANGED <<stored, pending, seq, broken, link, gen>>

\* The cursor an INSERT uses was made before the id was drawn.
CursorServes(cursor) == link = "up" /\ ~broken /\ cursor = gen

Store(t, row) ==
    /\ pending' = [pending EXCEPT ![t] = @ \cup {row}]
    /\ UNCHANGED <<stored, seq, broken, link, gen>>

StoreFails(cursor) ==
    /\ link' = IF link = "dead" /\ cursor = gen THEN "closed" ELSE link
    /\ broken' = (broken \/ (link = "up" /\ cursor = gen))
    /\ UNCHANGED <<stored, pending, seq, gen>>

\* Mutant: the commit after an INSERT is forgotten.
ForgetCommit == link = "up" /\ UNCHANGED <<stored, pending, seq, broken, link, gen>>

\* commit() goes to the connection of the moment, and takes along what other
\* threads have inserted.  On a failed transaction it rolls back.
CommitWork ==
    /\ link = "up"
    /\ stored' = IF broken THEN stored ELSE [t \in Tables |-> stored[t] \cup pending[t]]
    /\ pending' = [t \in Tables |-> {}] /\ broken' = FALSE
    /\ UNCHANGED <<seq, link, gen>>

CommitFails ==
    /\ link # "up"
    /\ link' = "closed"
    /\ UNCHANGED <<stored, pending, seq, broken, gen>>

\* The database server restarts.
Drop ==
    /\ link = "up" /\ gen < MaxDrops
    /\ link' = "dead" /\ pending' = [t \in Tables |-> {}] /\ broken' = FALSE
    /\ UNCHANGED <<stored, seq, gen>>
=============================================================================
