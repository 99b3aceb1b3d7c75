------------------------------ MODULE Provision ------------------------------
(* WWulf3.py, which gives nodes another image and cycles their power, and     *)
(* Hostfile.py, which writes a file of the hosts to be used.  What Hostfile   *)
(* is asked for: nodes, the list, and of it the share num / den (nodeuse_ratio), *)
(* all of it if den is 0.                                                     *)
EXTENDS Shell

CONSTANT Node       \* names of nodes

ASSUME HostfileAssumption ==
    \A r \in Requests : r.nodes \in Seq(Node) /\ r.num \in Nat /\ r.den \in Nat

VARIABLES
    hosts,      \* the hostfile at each place, "none" if there is none
    status      \* idle nodes, as the node status command lists them

hostVars == <<hosts, status>>

NoFile == <<"none">>
HostInit == hosts = [p \in Place |-> NoFile] /\ status = {}
-----------------------------------------------------------------------------
(* WWulf3                                                                   *)

\* Targets, controllers and an image have to be given, Warewulf has to know
\* the targets, and list them at all.
WWulf3Start ==
    /\ At("WWulf3", "start")
    /\ \/ Fail
       \/ cur.options = "good" /\ Go("allocate") /\ UNCHANGED log
    /\ UNCHANGED <<env, stageVars, shellVars, hostVars>>

\* A refusal is looked up in a log that has no stderr yet: KeyError.
WWulf3Allocate ==
    /\ At("WWulf3", "allocate")
    /\ \/ /\ cur.allocates
          /\ held' = [held EXCEPT !["WWulf3"] = @ + 1]
          /\ allocated' = [allocated EXCEPT !["WWulf3"] = TRUE]
          /\ Go("provision")
       \/ /\ cur.allocates
          /\ allocated' = [allocated EXCEPT !["WWulf3"] = FALSE]
          /\ Throw /\ UNCHANGED held
       \/ /\ ~cur.allocates
          /\ allocated' = [allocated EXCEPT !["WWulf3"] = FALSE]
          /\ Go("provision") /\ UNCHANGED held
    /\ UNCHANGED <<env, log, stageVars, shell, excused, harassed, result, hostVars>>

\* Each target is given the image; the nodes are returned if that fails.
WWulf3Provision ==
    /\ At("WWulf3", "provision")
    /\ \/ Go("cycle") /\ UNCHANGED <<log, allocated, held, excused>>
       \/ /\ ~allocated["WWulf3"]
          /\ Fail /\ UNCHANGED <<allocated, held, excused>>
       \/ /\ allocated["WWulf3"]
          /\ Returned("WWulf3") \/ Refused("WWulf3")
          /\ Fail
    /\ UNCHANGED <<env, stageVars, shell, harassed, result, hostVars>>

\* IPMITool is given an empty log, in which it looks for its section: KeyError,
\* and the nodes stay allocated.  Without IPMITool they are returned; if that
\* fails the stderr is a string, which raises too.
WWulf3Cycle ==
    /\ At("WWulf3", "cycle")
    /\ \/ Throw /\ UNCHANGED <<log, allocated, held, excused>>
       \/ /\ log' = [log EXCEPT !.status = 1]
          /\ \/ ~allocated["WWulf3"] /\ Return /\ UNCHANGED <<allocated, held, excused>>
             \/ allocated["WWulf3"] /\ Returned("WWulf3") /\ Return
             \/ allocated["WWulf3"] /\ Refused("WWulf3") /\ Throw
    /\ UNCHANGED <<env, stageVars, shell, harassed, result, hostVars>>
-----------------------------------------------------------------------------
(* Hostfile                                                                 *)

\* A file and nodes or a share have to be given.
HostStart ==
    /\ At("Hostfile", "start")
    /\ IF cur.options # "good" \/ Source = NoPlace THEN Fail
       ELSE IF dry THEN log' = [log EXCEPT !.status = 0, !.memo = TRUE] /\ Return
       ELSE IF cur.asis /\ hosts[Source] # NoFile
       THEN log' = [log EXCEPT !.status = 0, !.located = TRUE, !.memo = TRUE] /\ Return
       ELSE Go("ask") /\ UNCHANGED log
    /\ UNCHANGED <<env, stageVars, shellVars, hostVars>>

\* In the location: the status of each node.  A command that fails raises, its
\* stderr being no variable there; so do a status column that is no number and
\* a host that is not listed.  Other bad input fails, back at home.
HostAsk ==
    /\ At("Hostfile", "ask")
    /\ Leaves(Source, IF built[Source] = "none" THEN "partial" ELSE built[Source])
    /\ \/ /\ status' \in SUBSET Node
          /\ Chdir(Source)
          /\ Go("write") /\ UNCHANGED log
       \/ Chdir(Source) /\ Throw /\ UNCHANGED <<log, status>>
       \/ Fail /\ UNCHANGED <<env, status>>
    /\ UNCHANGED <<complete, paths, envars, found, wanted, shellVars, hosts>>

\* The members of a list that are in X, in their order.
Those(list, X) ==
    LET upTo[i \in 0 .. Len(list)] ==
            IF i = 0 THEN <<>>
            ELSE IF list[i] \in X THEN Append(upTo[i - 1], list[i]) ELSE upTo[i - 1]
    IN  upTo[Len(list)]

\* math.ceil(len * ratio)
Wanted == (Len(cur.nodes) * cur.num + cur.den - 1) \div cur.den
First(list) == SubSeq(list, 1, IF Wanted < Len(list) THEN Wanted ELSE Len(list))

\* Of a share the idle nodes are the first, in the order of the list.
Chosen ==
    IF cur.den = 0 THEN cur.nodes
    ELSE First(Those(cur.nodes, status) \o Those(cur.nodes, Node \ status))

\* The file is written, unless it cannot be.
HostWrite ==
    /\ At("Hostfile", "write")
    /\ env' = [env EXCEPT !.cwd = entry.cwd]
    /\ \/ /\ hosts' = [hosts EXCEPT ![Source] = Chosen]
          /\ log' = [log EXCEPT !.status = 0, !.located = TRUE]
          /\ Return
       \/ Fail /\ UNCHANGED hosts
    /\ UNCHANGED <<stageVars, shellVars, status>>

ProvisionNext ==
    \/ WWulf3Start \/ WWulf3Allocate \/ WWulf3Provision \/ WWulf3Cycle
    \/ HostStart \/ HostAsk \/ HostWrite
=============================================================================
