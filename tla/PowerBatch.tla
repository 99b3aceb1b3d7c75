------------------------------ MODULE PowerBatch ------------------------------
(***************************************************************************)
(* What IPMITool promises to those who call execute(), without its queue,  *)
(* its lock and its threads: a call that is not refused opens a batch of   *)
(* tasks, each of them is carried out once and may ask for one more, and   *)
(* the call is answered when nothing is left to do, with a failure if a    *)
(* task has failed.                                                        *)
(***************************************************************************)
EXTENDS Integers

CONSTANTS
    Command,    \* what a batch may begin with
    Follows     \* what a task that was carried out may ask for: a set of
                \*   pairs of a task and its follow-up

VARIABLES
    open,       \* whether a batch is under way
    todo, done, \* its tasks
    failed,     \* those that were carried out and have failed
    answered,   \* how many calls have been answered
    answer      \* what was answered last

vars == <<open, todo, done, failed, answered, answer>>

Init ==
    /\ open = FALSE
    /\ todo = {} /\ done = {} /\ failed = {}
    /\ answered = 0 /\ answer = "none"

Answer(a) == answered' = answered + 1 /\ answer' = a

Refuse ==
    /\ ~open
    /\ Answer("failed")
    /\ UNCHANGED <<open, todo, done, failed>>

Open ==
    /\ ~open /\ open' = TRUE
    /\ todo' \in (SUBSET Command) \ {{}}
    /\ done' = {} /\ failed' = {}
    /\ UNCHANGED <<answered, answer>>

Perform(t) ==
    /\ open /\ t \in todo
    /\ \/ todo' = todo \ {t}
       \/ \E f \in Follows : /\ f[1] = t /\ f[2] \notin todo \cup done
                             /\ todo' = (todo \ {t}) \cup {f[2]}
    /\ done' = done \cup {t}
    /\ failed' \in {failed, failed \cup {t}}
    /\ UNCHANGED <<open, answered, answer>>

Close ==
    /\ open /\ todo = {} /\ open' = FALSE
    /\ \/ Answer("failed")
       \/ failed = {} /\ Answer("ok")
    /\ UNCHANGED <<todo, done, failed>>

Next == Refuse \/ Open \/ Close \/ \E t \in todo : Perform(t)

SafeSpec == Init /\ [][Next]_vars

\* A batch that was opened is worked off and answered.
Spec == SafeSpec /\ WF_vars(Close) /\ WF_vars(\E t \in todo : Perform(t))
=============================================================================
