-------------------------- MODULE ExecuteCmdProofs --------------------------
(* Proofs about the execution of a command, for every amount of output and   *)
(* every capacity of the pipes.                                              *)
EXTENDS ExecuteCmd, TLAPS

\* What keeps the timer's signals away from a process that is gone: execute()
\* gets to p.wait() only through the join.
Joined ==
    /\ main = "popen" => child = "none" /\ thread = "none" /\ ~struck
    /\ main \in {"wait", "jobids"} => thread = "over"
    /\ raising => struck
    /\ main = "raised" => struck

IInv == TypeOK /\ Joined /\ NoSignalAfterReap

\* When the child never closes a pipe before its end, stderr is the last one
\* open, so the loop cannot end before stdout is empty.
Drained ==
    /\ ~MayClose /\ ~open["err"] => ~open["out"]
    /\ ~MayClose /\ main \in {"cancel", "join", "wait", "jobids", "done"} /\ ~raising
         => ~open["out"] /\ pipe["out"] = 0 /\ buf["out"] = 0
    /\ main = "popen" => /\ ~open["out"] /\ pipe["out"] = 0 /\ buf["out"] = 0
                         /\ ~raising
    /\ main \in {"wait", "jobids", "done"} => ~raising

\* Whose signal the return code tells of.  What was reaped by p.wait() has its
\* code in the results; a child that the hammer still meets alive was alive
\* when SIGTERM was sent.
Signals ==
    /\ child \in {"none", "alive"} => code = NoCode
    /\ code \in Deadly => term \/ foreign
    /\ child \notin {"none", "alive"} => code \in ExitCodes \cup Deadly
    /\ term => thread \in {"hammer", "over"}
    /\ thread = "hammer" /\ child = "alive" => term
    /\ main = "popen" => child = "none" /\ thread = "none"
    /\ main \in {"select", "cancel", "join", "wait"} => child # "reaped"
    /\ main = "jobids" => child = "reaped"
    /\ main \in {"jobids", "done"} /\ child = "reaped" =>
          /\ timedout <=> code \in Deadly
          /\ thread = "over"
    /\ main = "done" => child \in {"none", "reaped"}

\* The thread has the lock for as long as its SIGKILL is to come, and a child
\* that its SIGTERM has met does not outlive it.
Whole ==
    /\ thread = "hammer" <=> lock = "thread"
    /\ term /\ child = "alive" => thread = "hammer"
    /\ child = "none" => ~term

\* Every step keeps the types.
LEMMA TypeStep == TypeOK /\ [Next]_vars => TypeOK'
<1> SUFFICES ASSUME TypeOK, [Next]_vars PROVE TypeOK'
    OBVIOUS
<1> USE CmdAssumption
<1> USE DEF TypeOK, vars, proc, io, timeout, Pipes, ExitCodes, SIGTERM, SIGKILL, Deadly, NoCode
<1>1. CASE Popen
    BY <1>1 DEF Popen
<1>2. CASE PopenFails
    BY <1>2 DEF PopenFails
<1>3. CASE Read
    BY <1>3 DEF Read, Readable, Ready
<1>4. CASE Cancel
    BY <1>4 DEF Cancel
<1>5. CASE Join
    BY <1>5 DEF Join
<1>6. CASE Wait
    BY <1>6 DEF Wait
<1>7. CASE JobIds
    <2>1. main' \in {"done", "raised"} /\ struck' \in BOOLEAN
        BY <1>7 DEF JobIds
    <2>. QED
        BY <1>7, <2>1 DEF JobIds
<1>8. CASE RaiseInLoop
    BY <1>8 DEF RaiseInLoop
<1>9. CASE InterruptOutside
    BY <1>9 DEF InterruptOutside
<1>10. CASE InterruptSwallowed
    BY <1>10 DEF InterruptSwallowed
<1>11. CASE Cleanup
    BY <1>11 DEF Cleanup
<1>12. CASE Enter
    BY <1>12 DEF Enter
<1>13. CASE Expire
    BY <1>13 DEF Expire
<1>14. CASE Spared
    BY <1>14 DEF Spared
<1>15. CASE SendTerm
    BY <1>15 DEF SendTerm
<1>16. CASE SendKill
    BY <1>16 DEF SendKill
<1>17. CASE DieOfTerm
    BY <1>17 DEF DieOfTerm
<1>18. CASE Zombie
    BY <1>18 DEF Zombie
<1>19. ASSUME NEW f \in Pipes, Write(f) PROVE TypeOK'
    BY <1>19 DEF Write
<1>20. ASSUME NEW f \in Pipes, CloseEarly(f) PROVE TypeOK'
    BY <1>20 DEF CloseEarly
<1>21. ASSUME NEW f \in Pipes, CloseAtExit(f) PROVE TypeOK'
    BY <1>21 DEF CloseAtExit
<1>22. ASSUME NEW c \in ExitCodes, Exit(c) PROVE TypeOK'
    BY <1>22 DEF Exit
<1>24. ASSUME NEW c \in Deadly, DieOfOthers(c) PROVE TypeOK'
    BY <1>24 DEF DieOfOthers
<1>23. CASE UNCHANGED vars
    BY <1>23
<1>. QED
    BY <1>1, <1>2, <1>3, <1>4, <1>5, <1>6, <1>7, <1>8, <1>9, <1>10, <1>11, <1>12, <1>13, <1>14, <1>15, <1>16, <1>17, <1>18, <1>19, <1>20, <1>21, <1>22, <1>23, <1>24
       DEF Next, Call, Disturb, Killer, Child, Burial

\* Every step keeps execute() behind the join.
LEMMA JoinedStep == TypeOK /\ Joined /\ NoSignalAfterReap /\ [Next]_vars => (Joined /\ NoSignalAfterReap)'
<1> SUFFICES ASSUME TypeOK /\ Joined /\ NoSignalAfterReap, [Next]_vars PROVE (Joined /\ NoSignalAfterReap)'
    OBVIOUS
<1> USE DEF TypeOK, Joined, NoSignalAfterReap, vars, proc, io, timeout
<1>1. CASE Popen
    BY <1>1 DEF Popen
<1>2. CASE PopenFails
    BY <1>2 DEF PopenFails
<1>3. CASE Read
    BY <1>3 DEF Read
<1>4. CASE Cancel
    BY <1>4 DEF Cancel
<1>5. CASE Join
    BY <1>5 DEF Join
<1>6. CASE Wait
    BY <1>6 DEF Wait
<1>7. CASE JobIds
    BY <1>7 DEF JobIds
<1>8. CASE RaiseInLoop
    BY <1>8 DEF RaiseInLoop
<1>9. CASE InterruptOutside
    BY <1>9 DEF InterruptOutside
<1>10. CASE InterruptSwallowed
    BY <1>10 DEF InterruptSwallowed
<1>11. CASE Cleanup
    BY <1>11 DEF Cleanup
<1>12. CASE Enter
    BY <1>12 DEF Enter
<1>13. CASE Expire
    BY <1>13 DEF Expire
<1>14. CASE Spared
    BY <1>14 DEF Spared
<1>15. CASE SendTerm
    BY <1>15 DEF SendTerm
<1>16. CASE SendKill
    BY <1>16 DEF SendKill
<1>17. CASE DieOfTerm
    BY <1>17 DEF DieOfTerm
<1>18. CASE Zombie
    BY <1>18 DEF Zombie
<1>19. ASSUME NEW f \in Pipes, Write(f) PROVE (Joined /\ NoSignalAfterReap)'
    BY <1>19 DEF Write
<1>20. ASSUME NEW f \in Pipes, CloseEarly(f) PROVE (Joined /\ NoSignalAfterReap)'
    BY <1>20 DEF CloseEarly
<1>21. ASSUME NEW f \in Pipes, CloseAtExit(f) PROVE (Joined /\ NoSignalAfterReap)'
    BY <1>21 DEF CloseAtExit
<1>22. ASSUME NEW c \in ExitCodes, Exit(c) PROVE (Joined /\ NoSignalAfterReap)'
    BY <1>22 DEF Exit
<1>24. ASSUME NEW c \in Deadly, DieOfOthers(c) PROVE (Joined /\ NoSignalAfterReap)'
    BY <1>24 DEF DieOfOthers
<1>23. CASE UNCHANGED vars
    BY <1>23
<1>. QED
    BY <1>1, <1>2, <1>3, <1>4, <1>5, <1>6, <1>7, <1>8, <1>9, <1>10, <1>11, <1>12, <1>13, <1>14, <1>15, <1>16, <1>17, <1>18, <1>19, <1>20, <1>21, <1>22, <1>23, <1>24
       DEF Next, Call, Disturb, Killer, Child, Burial

\* Every step keeps stdout drained once the loop is left.
LEMMA DrainedStep == TypeOK /\ Drained /\ [Next]_vars => Drained'
<1> SUFFICES ASSUME TypeOK /\ Drained, [Next]_vars PROVE Drained'
    OBVIOUS
<1> USE DEF TypeOK, Drained, vars, proc, io, timeout, Pipes
<1>1. CASE Popen
    BY <1>1 DEF Popen
<1>2. CASE PopenFails
    BY <1>2 DEF PopenFails
<1>3. CASE Read
    BY <1>3 DEF Read, Readable, Ready
<1>4. CASE Cancel
    BY <1>4 DEF Cancel
<1>5. CASE Join
    BY <1>5 DEF Join
<1>6. CASE Wait
    BY <1>6 DEF Wait
<1>7. CASE JobIds
    BY <1>7 DEF JobIds
<1>8. CASE RaiseInLoop
    BY <1>8 DEF RaiseInLoop
<1>9. CASE InterruptOutside
    BY <1>9 DEF InterruptOutside
<1>10. CASE InterruptSwallowed
    BY <1>10 DEF InterruptSwallowed
<1>11. CASE Cleanup
    BY <1>11 DEF Cleanup
<1>12. CASE Enter
    BY <1>12 DEF Enter
<1>13. CASE Expire
    BY <1>13 DEF Expire
<1>14. CASE Spared
    BY <1>14 DEF Spared
<1>15. CASE SendTerm
    BY <1>15 DEF SendTerm
<1>16. CASE SendKill
    BY <1>16 DEF SendKill
<1>17. CASE DieOfTerm
    BY <1>17 DEF DieOfTerm
<1>18. CASE Zombie
    BY <1>18 DEF Zombie
<1>19. ASSUME NEW f \in Pipes, Write(f) PROVE Drained'
    BY <1>19 DEF Write
<1>20. ASSUME NEW f \in Pipes, CloseEarly(f) PROVE Drained'
    BY <1>20 DEF CloseEarly
<1>21. ASSUME NEW f \in Pipes, CloseAtExit(f) PROVE Drained'
    BY <1>21 DEF CloseAtExit
<1>22. ASSUME NEW c \in ExitCodes, Exit(c) PROVE Drained'
    BY <1>22 DEF Exit
<1>24. ASSUME NEW c \in Deadly, DieOfOthers(c) PROVE Drained'
    BY <1>24 DEF DieOfOthers
<1>23. CASE UNCHANGED vars
    BY <1>23
<1>. QED
    BY <1>1, <1>2, <1>3, <1>4, <1>5, <1>6, <1>7, <1>8, <1>9, <1>10, <1>11, <1>12, <1>13, <1>14, <1>15, <1>16, <1>17, <1>18, <1>19, <1>20, <1>21, <1>22, <1>23, <1>24
       DEF Next, Call, Disturb, Killer, Child, Burial

\* Every step keeps what the return code tells.
LEMMA SignalsStep == TypeOK /\ Joined /\ Signals /\ [Next]_vars => Signals'
<1> SUFFICES ASSUME TypeOK, Joined, Signals, [Next]_vars PROVE Signals'
    OBVIOUS
<1> USE DEF TypeOK, Joined, Signals, ExitCodes, SIGTERM, SIGKILL, Deadly, NoCode, vars, proc, io, timeout
<1>1. CASE Popen
    BY <1>1 DEF Popen
<1>2. CASE PopenFails
    BY <1>2 DEF PopenFails
<1>3. CASE Read
    BY <1>3 DEF Read
<1>4. CASE Cancel
    BY <1>4 DEF Cancel
<1>5. CASE Join
    BY <1>5 DEF Join
<1>6. CASE Wait
    BY <1>6 DEF Wait
<1>7. CASE JobIds
    BY <1>7 DEF JobIds
<1>8. CASE RaiseInLoop
    BY <1>8 DEF RaiseInLoop
<1>9. CASE InterruptOutside
    BY <1>9 DEF InterruptOutside
<1>10. CASE InterruptSwallowed
    BY <1>10 DEF InterruptSwallowed
<1>11. CASE Cleanup
    BY <1>11 DEF Cleanup
<1>12. CASE Enter
    BY <1>12 DEF Enter
<1>13. CASE Expire
    BY <1>13 DEF Expire
<1>14. CASE Spared
    BY <1>14 DEF Spared
<1>15. CASE SendTerm
    BY <1>15 DEF SendTerm
<1>16. CASE SendKill
    BY <1>16 DEF SendKill
<1>17. CASE DieOfTerm
    BY <1>17 DEF DieOfTerm
<1>18. CASE Zombie
    BY <1>18 DEF Zombie
<1>19. ASSUME NEW f \in Pipes, Write(f) PROVE Signals'
    BY <1>19 DEF Write
<1>20. ASSUME NEW f \in Pipes, CloseEarly(f) PROVE Signals'
    BY <1>20 DEF CloseEarly
<1>21. ASSUME NEW f \in Pipes, CloseAtExit(f) PROVE Signals'
    BY <1>21 DEF CloseAtExit
<1>22. ASSUME NEW c \in ExitCodes, Exit(c) PROVE Signals'
    BY <1>22 DEF Exit
<1>24. ASSUME NEW c \in Deadly, DieOfOthers(c) PROVE Signals'
    BY <1>24 DEF DieOfOthers
<1>23. CASE UNCHANGED vars
    BY <1>23
<1>. QED
    BY <1>1, <1>2, <1>3, <1>4, <1>5, <1>6, <1>7, <1>8, <1>9, <1>10, <1>11, <1>12, <1>13, <1>14, <1>15, <1>16, <1>17, <1>18, <1>19, <1>20, <1>21, <1>22, <1>23, <1>24
       DEF Next, Call, Disturb, Killer, Child, Burial

\* Every step keeps the second of grace inside the lock.
LEMMA WholeStep == TypeOK /\ Joined /\ Whole /\ [Next]_vars => Whole'
<1> SUFFICES ASSUME TypeOK, Joined, Whole, [Next]_vars PROVE Whole'
    OBVIOUS
<1> USE DEF TypeOK, Joined, Whole, vars, proc, io, timeout
<1>1. CASE Popen
    BY <1>1 DEF Popen
<1>2. CASE PopenFails
    BY <1>2 DEF PopenFails
<1>3. CASE Read
    BY <1>3 DEF Read
<1>4. CASE Cancel
    BY <1>4 DEF Cancel
<1>5. CASE Join
    BY <1>5 DEF Join
<1>6. CASE Wait
    BY <1>6 DEF Wait
<1>7. CASE JobIds
    BY <1>7 DEF JobIds
<1>8. CASE RaiseInLoop
    BY <1>8 DEF RaiseInLoop
<1>9. CASE InterruptOutside
    BY <1>9 DEF InterruptOutside
<1>10. CASE InterruptSwallowed
    BY <1>10 DEF InterruptSwallowed
<1>11. CASE Cleanup
    BY <1>11 DEF Cleanup
<1>12. CASE Enter
    BY <1>12 DEF Enter
<1>13. CASE Expire
    BY <1>13 DEF Expire
<1>14. CASE Spared
    BY <1>14 DEF Spared
<1>15. CASE SendTerm
    BY <1>15 DEF SendTerm
<1>16. CASE SendKill
    BY <1>16 DEF SendKill
<1>17. CASE DieOfTerm
    BY <1>17 DEF DieOfTerm
<1>18. CASE Zombie
    BY <1>18 DEF Zombie
<1>19. ASSUME NEW f \in Pipes, Write(f) PROVE Whole'
    BY <1>19 DEF Write
<1>20. ASSUME NEW f \in Pipes, CloseEarly(f) PROVE Whole'
    BY <1>20 DEF CloseEarly
<1>21. ASSUME NEW f \in Pipes, CloseAtExit(f) PROVE Whole'
    BY <1>21 DEF CloseAtExit
<1>22. ASSUME NEW c \in ExitCodes, Exit(c) PROVE Whole'
    BY <1>22 DEF Exit
<1>24. ASSUME NEW c \in Deadly, DieOfOthers(c) PROVE Whole'
    BY <1>24 DEF DieOfOthers
<1>23. CASE UNCHANGED vars
    BY <1>23
<1>. QED
    BY <1>1, <1>2, <1>3, <1>4, <1>5, <1>6, <1>7, <1>8, <1>9, <1>10, <1>11, <1>12, <1>13, <1>14, <1>15, <1>16, <1>17, <1>18, <1>19, <1>20, <1>21, <1>22, <1>23, <1>24
       DEF Next, Call, Disturb, Killer, Child, Burial

\* The invariant behind the theorems below holds in every state.
THEOREM SpecIInv == Spec => []IInv
<1>1. Init => IInv
    <2> SUFFICES ASSUME Init PROVE IInv
        OBVIOUS
    <2>1. TypeOK
        <3>1. /\ left \in [Pipes -> 0 .. Lines]
              /\ pipe \in [Pipes -> 0 .. Capacity]
              /\ buf \in [Pipes -> 0 .. Capacity]
            BY CmdAssumption DEF Init
        <3>2. open \in [Pipes -> BOOLEAN]
            BY DEF Init
        <3>3. code \in ExitCodes \cup Deadly \cup {NoCode}
            BY DEF Init
        <3>. QED
            BY <3>1, <3>2, <3>3 DEF Init, TypeOK
    <2>2. Joined /\ NoSignalAfterReap
        BY DEF Init, Joined, NoSignalAfterReap
    <2>. QED
        BY <2>1, <2>2 DEF IInv
<1>2. IInv /\ [Next]_vars => IInv'
    BY TypeStep, JoinedStep DEF IInv
<1>. QED
    BY <1>1, <1>2, PTL DEF Spec

\* Every variable keeps its type; no file buffer ever holds a negative number
\* of lines.
THEOREM SpecTypeOK == Spec => []TypeOK
<1>1. IInv => TypeOK
    BY DEF IInv
<1>. QED
    BY <1>1, SpecIInv, PTL

\* The timeout's signals never reach a process id that was given back.
THEOREM SpecNoSignalAfterReap == Spec => []NoSignalAfterReap
<1>1. IInv => NoSignalAfterReap
    BY DEF IInv
<1>. QED
    BY <1>1, SpecIInv, PTL

\* Whoever has the lock finds no child that has been sent SIGTERM by the thread
\* and runs on.
THEOREM SpecKillIsWhole == Spec => []KillIsWhole
<1>1. Init => Whole
    BY DEF Init, Whole
<1>2. IInv /\ Whole /\ [Next]_vars => Whole'
    BY WholeStep DEF IInv
<1>3. TypeOK /\ Whole => KillIsWhole
    BY DEF TypeOK, Whole, KillIsWhole
<1>. QED
    BY <1>1, <1>2, <1>3, SpecIInv, SpecTypeOK, PTL DEF Spec

\* A child that keeps its pipes open until it ends loses no line of stdout.
THEOREM SpecStdoutComplete ==
    ASSUME ~MayClose
    PROVE  Spec => []StdoutComplete
<1>1. Init => Drained
    BY DEF Init, Drained, Pipes
<1>2. TypeOK /\ Drained => StdoutComplete
    BY DEF Drained, StdoutComplete
<1>. QED
    BY <1>1, <1>2, DrainedStep, SpecTypeOK, PTL DEF Spec

\* A command that the timer has killed is reported as timed out, and one that
\* is so reported was met by the timer.
THEOREM SpecKilledIsTimedOut == Spec => []KilledIsTimedOut
<1>1. Init => Signals
    BY DEF Init, Signals, ExitCodes, SIGTERM, SIGKILL, Deadly, NoCode
<1>2. IInv /\ Signals /\ [Next]_vars => Signals'
    BY SignalsStep DEF IInv
<1>3. Signals => KilledIsTimedOut
    BY DEF Signals, KilledIsTimedOut
<1>. QED
    BY <1>1, <1>2, <1>3, SpecIInv, PTL DEF Spec
=============================================================================
