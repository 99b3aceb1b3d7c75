------------------------------ MODULE MCSubmit ------------------------------
(* Two clients of one user on one host, whose compiler is new to the       *)
(* database; the rest of what they look up is known.                       *)
EXTENDS Submit

NewTables == {"submit", "compiler", "mpi_install", "test_build", "test_run",
              "provision"}
MCKnown == [t \in Tables \ NewTables |->
              Row(1, "v", IF t = "test_names" THEN [col \in {"test_suite"} |-> 1]
                          ELSE Nothing)]

Entry(over) == [col \in Columns |->
                  IF col \in DOMAIN over THEN over[col]
                  ELSE IF col = "provision" THEN Absent ELSE "v"]
Post(ph, over) == [phase |-> ph, entry |-> Entry(over)]

\* a's first MiddlewareBuild has no compiler, and its second test has a name
\* that is too long for the database; b reports the same install as a.
MCSession ==
    [c \in {"a", "b"} |->
       IF c = "a"
       THEN <<Post("mpi_install", [mpi_install_compiler |-> Absent]),
              Post("mpi_install", [mpi_install |-> "v"]),
              Post("test_build", [test_build |-> "v"]),
              Post("test_run", [test_run |-> "v"]),
              Post("test_run", [test_run |-> "v", test_name |-> "long"])>>
       ELSE <<Post("mpi_install", [mpi_install |-> "v"]),
              Post("test_build", [test_build |-> "w"]),
              Post("test_run", [test_run |-> "w"])>>]

\* The log of a client that has provisioned its nodes.
MCProvisioned ==
    [c \in {"a"} |->
       <<Post("mpi_install", [mpi_install |-> "v"]),
         Post("test_build", [test_build |-> "v"]),
         Post("test_run", [test_run |-> "v", provision |-> "v"])>>]

MCUnique == {"compute_cluster", "compiler", "mpi_get", "mpi_install_configure_args",
             "test_suites", "test_names"}
=============================================================================
