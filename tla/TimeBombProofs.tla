--------------------------- MODULE TimeBombProofs ---------------------------
(***************************************************************************)
(* Proofs about TimeBomb, for any number of processes and any values of    *)
(* the time constants.                                                     *)
(***************************************************************************)
EXTENDS TimeBomb, TLAPS

-----------------------------------------------------------------------------
(* The inductive invariant.                                                *)

\* How long each wait and each call may be.
TimersBounded ==
  \A p \in Proc :
    /\ pc[p] = "poll"  => timer[p] <= PollFreq
    /\ pc[p] = "watch" => timer[p] <= WatchTimeout
    /\ pc[p] = "retry" => timer[p] <= FailWait
    /\ pc[p] = "sleep" => timer[p] <= SleepTime
    /\ call[p] # "none" => timer[p] <= AwsTime

\* A process begins with the command that runs it, and a call belongs to a
\* process that waits for it, or that was killed.
CallsOwned ==
  \A p \in Proc :
    /\ ctl[p] = "idle" => pc[p] = "none"
    /\ pc[p] = "call" => call[p] # "none"
    /\ call[p] # "none" => pc[p] \in {"call", "killed"}

\* A command works on the process it read from the file, and sleeps only
\* while its count lasts.
CmdOK ==
  /\ cmdAt # "idle" => cmdPid \in Proc
  /\ cmdAt = "sleep" => cmdCnt # 0

\* The age of a missing file is ResetTime, and an instance that was started
\* or disturbed since the file was touched has been quiet for less long.
AgesOK ==
  /\ ~FileExists => age = ResetTime
  /\ age < ResetTime => quiet <= age

\* The shape of the reachable states that the proofs rest on.
Shape == TimersBounded /\ CallsOwned /\ CmdOK /\ AgesOK

\* How long a process that reaches its poll in t can take to call AWS.
UntilCall(t) ==
  IF age < ResetTime /\ t < ResetTime - age + PollFreq - 1
    THEN ResetTime - age + PollFreq - 1
    ELSE t

\* The time within which the guarding process p has the instance stopped, if
\* nothing more happens but the passing of time.
Left(p) ==
  CASE pc[p] = "poll" -> AwsTime + UntilCall(timer[p])
    [] pc[p] \in {"watch", "retry", "sleep"} ->
         AwsTime + UntilCall(timer[p] + PollFreq)
    [] pc[p] = "call" /\ call[p] = "sent" -> timer[p]
    [] OTHER -> timer[p] + AwsTime + UntilCall(WatchTimeout + PollFreq)

\* Every guarding process still has the time it needs.
Timely ==
  inst = "running" =>
    \A p \in Proc : pc[p] \in Guarding => quiet + Left(p) <= Bound

\* The inductive invariant.
IInv == TypeOK /\ Shape /\ StopJustified /\ Timely

-----------------------------------------------------------------------------
(* Typing. The shape of commands is needed for the type of their count.    *)

\* The poll period is a number of seconds.
LEMMA PollFreqType == PollFreq \in Nat
  BY ConstantsAssumption DEF PollFreq

\* Every command and every step of a process, of EC2 and of the clock keeps
\* the types, and a done or defuse the count that its sleep depends on.
LEMMA TypeStep ==
  ASSUME TypeOK, CmdOK, [Next]_vars
  PROVE  TypeOK' /\ CmdOK'
  <1> USE ConstantsAssumption, PollFreqType
  <1>1. ASSUME NEW p \in Proc, Control(p)
         PROVE  TypeOK' /\ CmdOK'
    BY <1>1 DEF Control, TypeOK, CmdOK, cmdVars
  <1>2. ASSUME NEW p \in Proc, CreateFile(p)
         PROVE  TypeOK' /\ CmdOK'
    BY <1>2 DEF CreateFile, TypeOK, CmdOK, bombVars, cmdVars
  <1>3. ASSUME NEW p \in Proc, CreateFileFails(p)
         PROVE  TypeOK' /\ CmdOK'
    BY <1>3 DEF CreateFileFails, LeftRunning, TypeOK, CmdOK, Dead, cmdVars
  <1>4. ASSUME NEW p \in Proc, AwaitFile(p)
         PROVE  TypeOK' /\ CmdOK'
    BY <1>4 DEF AwaitFile, TypeOK, CmdOK, Guarding, cmdVars
  <1>5. ASSUME NEW p \in Proc, Poll(p)
         PROVE  TypeOK' /\ CmdOK'
    BY <1>5 DEF Poll, TypeOK, CmdOK, Guarding, cmdVars
  <1>6. ASSUME NEW p \in Proc, StopAnswered(p)
         PROVE  TypeOK' /\ CmdOK'
    BY <1>6 DEF StopAnswered, WaitOnFile, TypeOK, CmdOK, Dead, Guarding,
       cmdVars
  <1>7. ASSUME NEW p \in Proc, StopFailed(p)
         PROVE  TypeOK' /\ CmdOK'
    BY <1>7 DEF StopFailed, TypeOK, CmdOK, Dead, Guarding, cmdVars
  <1>8. ASSUME NEW p \in Proc, Rejoin(p)
         PROVE  TypeOK' /\ CmdOK'
    BY <1>8 DEF Rejoin, WaitOnFile, TypeOK, CmdOK, Guarding, cmdVars
  <1>9. ASSUME NEW p \in Proc, Kill(p)
         PROVE  TypeOK' /\ CmdOK'
    BY <1>9 DEF Kill, LeftRunning, TypeOK, CmdOK, Dead, cmdVars
  <1>10. ASSUME NEW p \in Proc, Ec2Stop(p)
         PROVE  TypeOK' /\ CmdOK'
    BY <1>10 DEF Ec2Stop, TypeOK, CmdOK, cmdVars
  <1>11. ASSUME NEW p \in Proc, OrphanEnds(p)
         PROVE  TypeOK' /\ CmdOK'
    BY <1>11 DEF OrphanEnds, TypeOK, CmdOK, cmdVars
  <1>12. ASSUME NEW seconds \in Stamps, Touch(seconds)
         PROVE  TypeOK' /\ CmdOK'
    BY <1>12 DEF Touch, Stamps, Woken, TypeOK, CmdOK, cmdVars
  <1>13. ASSUME Info
         PROVE  TypeOK' /\ CmdOK'
    BY <1>13 DEF Info, Woken, TypeOK, CmdOK, cmdVars
  <1>14. ASSUME NEW op \in {"done", "defuse"}, CmdBegin(op)
         PROVE  TypeOK' /\ CmdOK'
    BY <1>14 DEF CmdBegin, Woken, FileExists, TypeOK, CmdOK
  <1>15. ASSUME DoneRemoves
         PROVE  TypeOK' /\ CmdOK'
    BY <1>15 DEF DoneRemoves, Woken, TypeOK, CmdOK
  <1>16. ASSUME DefuseKills
         PROVE  TypeOK' /\ CmdOK'
    BY <1>16 DEF DefuseKills, Woken, LeftRunning, TypeOK, CmdOK, Dead
  <1>17. ASSUME DefuseStirs
         PROVE  TypeOK' /\ CmdOK'
    BY <1>17 DEF DefuseStirs, Woken, TypeOK, CmdOK
  <1>18. ASSUME CmdCheck
         PROVE  TypeOK' /\ CmdOK'
    BY <1>18 DEF CmdCheck, TypeOK, CmdOK, bombVars
  <1>19. ASSUME CmdReturn
         PROVE  TypeOK' /\ CmdOK'
    BY <1>19 DEF CmdReturn, TypeOK, CmdOK, bombVars
  <1>20. ASSUME Ec2Stopped
         PROVE  TypeOK' /\ CmdOK'
    BY <1>20 DEF Ec2Stopped, TypeOK, CmdOK, bombVars, cmdVars
  <1>21. ASSUME Start
         PROVE  TypeOK' /\ CmdOK'
    BY <1>21 DEF Start, TypeOK, CmdOK, bombVars, cmdVars
  <1>22. ASSUME Tick
         PROVE  TypeOK' /\ CmdOK'
    BY <1>22 DEF Tick, TypeOK, CmdOK
  <1>23. CASE UNCHANGED vars
    BY <1>23 DEF vars, bombVars, cmdVars, TypeOK, CmdOK
  <1>24. QED
    BY <1>1, <1>2, <1>3, <1>4, <1>5, <1>6, <1>7, <1>8, <1>9, <1>10, <1>11,
       <1>12, <1>13, <1>14, <1>15, <1>16, <1>17, <1>18, <1>19, <1>20,
       <1>21, <1>22, <1>23 DEF Next, Step, Command

-----------------------------------------------------------------------------
(* The shape of the state.                                                 *)

\* Every step keeps the bounds of the waits, the owners of the calls, the
\* pid of the command and the relation of the quiet time to the file's age.
LEMMA ShapeStep ==
  ASSUME TypeOK, TypeOK', Shape, [Next]_vars
  PROVE  Shape'
  <1> USE ConstantsAssumption, PollFreqType DEF Shape
  <1>1. TimersBounded' /\ CallsOwned'
    <2>1. ASSUME NEW p \in Proc, Control(p)
           PROVE  TimersBounded' /\ CallsOwned'
      BY <2>1 DEF Control, TypeOK, TimersBounded, CallsOwned
    <2>2. ASSUME NEW p \in Proc, CreateFile(p)
           PROVE  TimersBounded' /\ CallsOwned'
      BY <2>2 DEF CreateFile, bombVars, TimersBounded, CallsOwned
    <2>3. ASSUME NEW p \in Proc, CreateFileFails(p)
           PROVE  TimersBounded' /\ CallsOwned'
      BY <2>3 DEF CreateFileFails, LeftRunning, TimersBounded, CallsOwned
    <2>4. ASSUME NEW p \in Proc, AwaitFile(p)
           PROVE  TimersBounded' /\ CallsOwned'
      BY <2>4 DEF AwaitFile, TypeOK, TimersBounded, CallsOwned
    <2>5. ASSUME NEW p \in Proc, Poll(p)
           PROVE  TimersBounded' /\ CallsOwned'
      BY <2>5 DEF Poll, FileExists, TypeOK, TimersBounded, CallsOwned
    <2>6. ASSUME NEW p \in Proc, StopAnswered(p)
           PROVE  TimersBounded' /\ CallsOwned'
      BY <2>6 DEF StopAnswered, WaitOnFile, TypeOK, TimersBounded, CallsOwned
    <2>7. ASSUME NEW p \in Proc, StopFailed(p)
           PROVE  TimersBounded' /\ CallsOwned'
      BY <2>7 DEF StopFailed, TypeOK, TimersBounded, CallsOwned
    <2>8. ASSUME NEW p \in Proc, Rejoin(p)
           PROVE  TimersBounded' /\ CallsOwned'
      BY <2>8 DEF Rejoin, WaitOnFile, TypeOK, TimersBounded, CallsOwned
    <2>9. ASSUME NEW p \in Proc, Kill(p)
           PROVE  TimersBounded' /\ CallsOwned'
      BY <2>9 DEF Kill, LeftRunning, Dead, TimersBounded, CallsOwned
    <2>10. ASSUME NEW p \in Proc, Ec2Stop(p)
           PROVE  TimersBounded' /\ CallsOwned'
      BY <2>10 DEF Ec2Stop, TimersBounded, CallsOwned
    <2>11. ASSUME NEW p \in Proc, OrphanEnds(p)
           PROVE  TimersBounded' /\ CallsOwned'
      BY <2>11 DEF OrphanEnds, TimersBounded, CallsOwned
    <2>12. ASSUME NEW seconds \in Stamps, Touch(seconds)
           PROVE  TimersBounded' /\ CallsOwned'
      BY <2>12 DEF Touch, Stamps, Woken, TimersBounded, CallsOwned
    <2>13. ASSUME Info
           PROVE  TimersBounded' /\ CallsOwned'
      BY <2>13 DEF Info, Woken, TimersBounded, CallsOwned
    <2>14. ASSUME NEW op \in {"done", "defuse"}, CmdBegin(op)
           PROVE  TimersBounded' /\ CallsOwned'
      BY <2>14 DEF CmdBegin, Woken, TimersBounded, CallsOwned
    <2>15. ASSUME DoneRemoves
           PROVE  TimersBounded' /\ CallsOwned'
      BY <2>15 DEF DoneRemoves, Woken, TimersBounded, CallsOwned
    <2>16. ASSUME DefuseKills
           PROVE  TimersBounded' /\ CallsOwned'
      BY <2>16 DEF DefuseKills, Woken, LeftRunning, Dead, TimersBounded,
         CallsOwned
    <2>17. ASSUME DefuseStirs
           PROVE  TimersBounded' /\ CallsOwned'
      BY <2>17 DEF DefuseStirs, Woken, TimersBounded, CallsOwned
    <2>18. ASSUME CmdCheck
           PROVE  TimersBounded' /\ CallsOwned'
      BY <2>18 DEF CmdCheck, bombVars, TimersBounded, CallsOwned
    <2>19. ASSUME CmdReturn
           PROVE  TimersBounded' /\ CallsOwned'
      BY <2>19 DEF CmdReturn, bombVars, TimersBounded, CallsOwned
    <2>20. ASSUME Ec2Stopped
           PROVE  TimersBounded' /\ CallsOwned'
      BY <2>20 DEF Ec2Stopped, bombVars, TimersBounded, CallsOwned
    <2>21. ASSUME Start
           PROVE  TimersBounded' /\ CallsOwned'
      BY <2>21 DEF Start, bombVars, TimersBounded, CallsOwned
    <2>22. ASSUME Tick
           PROVE  TimersBounded' /\ CallsOwned'
      BY <2>22 DEF Tick, TypeOK, TimersBounded, CallsOwned
    <2>23. CASE UNCHANGED vars
      BY <2>23 DEF vars, bombVars, TimersBounded, CallsOwned
    <2>24. QED
      BY <2>1, <2>2, <2>3, <2>4, <2>5, <2>6, <2>7, <2>8, <2>9, <2>10, <2>11,
         <2>12, <2>13, <2>14, <2>15, <2>16, <2>17, <2>18, <2>19,
         <2>20, <2>21, <2>22, <2>23 DEF Next, Step, Command
  <1>2. CmdOK'
    BY TypeStep
  <1>3. AgesOK'
    <2>1. ASSUME NEW p \in Proc, Control(p)
           PROVE  AgesOK'
      BY <2>1 DEF Control, AgesOK
    <2>2. ASSUME NEW p \in Proc, CreateFile(p)
           PROVE  AgesOK'
      BY <2>2 DEF CreateFile, FileExists, AgesOK
    <2>3. ASSUME NEW p \in Proc, CreateFileFails(p)
           PROVE  AgesOK'
      BY <2>3 DEF CreateFileFails, LeftRunning, FileExists, AgesOK
    <2>4. ASSUME NEW p \in Proc, AwaitFile(p)
           PROVE  AgesOK'
      BY <2>4 DEF AwaitFile, FileExists, TypeOK, AgesOK
    <2>5. ASSUME NEW p \in Proc, Poll(p)
           PROVE  AgesOK'
      BY <2>5 DEF Poll, FileExists, AgesOK
    <2>6. ASSUME NEW p \in Proc, StopAnswered(p)
           PROVE  AgesOK'
      BY <2>6 DEF StopAnswered, WaitOnFile, AgesOK, FileExists
    <2>7. ASSUME NEW p \in Proc, StopFailed(p)
           PROVE  AgesOK'
      BY <2>7 DEF StopFailed, FileExists, TypeOK, AgesOK
    <2>8. ASSUME NEW p \in Proc, Rejoin(p)
           PROVE  AgesOK'
      BY <2>8 DEF Rejoin, WaitOnFile, AgesOK, FileExists
    <2>9. ASSUME NEW p \in Proc, Kill(p)
           PROVE  AgesOK'
      BY <2>9 DEF Kill, LeftRunning, AgesOK, FileExists
    <2>10. ASSUME NEW p \in Proc, Ec2Stop(p)
           PROVE  AgesOK'
      BY <2>10 DEF Ec2Stop, AgesOK, FileExists
    <2>11. ASSUME NEW p \in Proc, OrphanEnds(p)
           PROVE  AgesOK'
      BY <2>11 DEF OrphanEnds, AgesOK, FileExists
    <2>12. ASSUME NEW seconds \in Stamps, Touch(seconds)
           PROVE  AgesOK'
      BY <2>12 DEF Touch, Stamps, Woken, FileExists, AgesOK
    <2>13. ASSUME Info
           PROVE  AgesOK'
      BY <2>13 DEF Info, Woken, FileExists, AgesOK
    <2>14. ASSUME NEW op \in {"done", "defuse"}, CmdBegin(op)
           PROVE  AgesOK'
      BY <2>14 DEF CmdBegin, Woken, FileExists, AgesOK
    <2>15. ASSUME DoneRemoves
           PROVE  AgesOK'
      BY <2>15 DEF DoneRemoves, Woken, AgesOK
    <2>16. ASSUME DefuseKills
           PROVE  AgesOK'
      BY <2>16 DEF DefuseKills, Woken, LeftRunning, FileExists, AgesOK
    <2>17. ASSUME DefuseStirs
           PROVE  AgesOK'
      BY <2>17 DEF DefuseStirs, Woken, FileExists, AgesOK
    <2>18. ASSUME CmdCheck
           PROVE  AgesOK'
      BY <2>18 DEF CmdCheck, AgesOK, FileExists
    <2>19. ASSUME CmdReturn
           PROVE  AgesOK'
      BY <2>19 DEF CmdReturn, AgesOK, FileExists
    <2>20. ASSUME Ec2Stopped
           PROVE  AgesOK'
      BY <2>20 DEF Ec2Stopped, AgesOK, FileExists
    <2>21. ASSUME Start
           PROVE  AgesOK'
      BY <2>21 DEF Start, TypeOK, AgesOK, FileExists
    <2>22. ASSUME Tick
           PROVE  AgesOK'
      BY <2>22 DEF Tick, HasTime, TypeOK, AgesOK, FileExists
    <2>23. CASE UNCHANGED vars
      BY <2>23 DEF vars, AgesOK, FileExists
    <2>24. QED
      BY <2>1, <2>2, <2>3, <2>4, <2>5, <2>6, <2>7, <2>8, <2>9, <2>10, <2>11,
         <2>12, <2>13, <2>14, <2>15, <2>16, <2>17, <2>18, <2>19,
         <2>20, <2>21, <2>22, <2>23 DEF Next, Step, Command
  <1>4. QED
    BY <1>1, <1>2, <1>3

-----------------------------------------------------------------------------
(* Stops in flight are justified.                                          *)

\* No step makes a call in flight unjustified: a poll calls only when the
\* timer has run out, and a reset or a
\* detonate starts an age hardly older than the call.
LEMMA JustifiedStep ==
  ASSUME TypeOK, TypeOK', Shape, StopJustified, [Next]_vars
  PROVE  StopJustified'
  <1> USE ConstantsAssumption, PollFreqType DEF Shape
  <1>1. ASSUME NEW p \in Proc, Control(p)
         PROVE  StopJustified'
    BY <1>1 DEF Control, TypeOK, TimersBounded, StopJustified
  <1>2. ASSUME NEW p \in Proc, CreateFile(p)
         PROVE  StopJustified'
    BY <1>2 DEF CreateFile, FileExists, TypeOK, TimersBounded, StopJustified,
       bombVars
  <1>3. ASSUME NEW p \in Proc, CreateFileFails(p)
         PROVE  StopJustified'
    BY <1>3 DEF CreateFileFails, LeftRunning, FileExists, TypeOK,
       StopJustified
  <1>4. ASSUME NEW p \in Proc, AwaitFile(p)
         PROVE  StopJustified'
    BY <1>4 DEF AwaitFile, FileExists, TypeOK, CallsOwned, StopJustified
  <1>5. ASSUME NEW p \in Proc, Poll(p)
         PROVE  StopJustified'
    BY <1>5 DEF Poll, FileExists, timer_is_running, TypeOK, CallsOwned,
       AgesOK, StopJustified
  <1>6. ASSUME NEW p \in Proc, StopAnswered(p)
         PROVE  StopJustified'
    BY <1>6 DEF StopAnswered, WaitOnFile, TypeOK, TimersBounded, StopJustified
  <1>7. ASSUME NEW p \in Proc, StopFailed(p)
         PROVE  StopJustified'
    BY <1>7 DEF StopFailed, FileExists, TypeOK, StopJustified
  <1>8. ASSUME NEW p \in Proc, Rejoin(p)
         PROVE  StopJustified'
    BY <1>8 DEF Rejoin, WaitOnFile, TypeOK, TimersBounded, CallsOwned,
       StopJustified
  <1>9. ASSUME NEW p \in Proc, Kill(p)
         PROVE  StopJustified'
    BY <1>9 DEF Kill, LeftRunning, TypeOK, TimersBounded, StopJustified
  <1>10. ASSUME NEW p \in Proc, Ec2Stop(p)
         PROVE  StopJustified'
    BY <1>10 DEF Ec2Stop, TypeOK, TimersBounded, StopJustified
  <1>11. ASSUME NEW p \in Proc, OrphanEnds(p)
         PROVE  StopJustified'
    BY <1>11 DEF OrphanEnds, TypeOK, TimersBounded, StopJustified
  <1>12. ASSUME NEW seconds \in Stamps, Touch(seconds)
         PROVE  StopJustified'
    BY <1>12 DEF Touch, Stamps, Woken, FileExists, TypeOK, TimersBounded,
       StopJustified
  <1>13. ASSUME Info
         PROVE  StopJustified'
    BY <1>13 DEF Info, Woken, FileExists, TypeOK, StopJustified
  <1>14. ASSUME NEW op \in {"done", "defuse"}, CmdBegin(op)
         PROVE  StopJustified'
    BY <1>14 DEF CmdBegin, Woken, FileExists, TypeOK, StopJustified
  <1>15. ASSUME DoneRemoves
         PROVE  StopJustified'
    BY <1>15 DEF DoneRemoves, Woken, FileExists, TypeOK, StopJustified
  <1>16. ASSUME DefuseKills
         PROVE  StopJustified'
    BY <1>16 DEF DefuseKills, Woken, LeftRunning, FileExists, TypeOK,
       StopJustified
  <1>17. ASSUME DefuseStirs
         PROVE  StopJustified'
    BY <1>17 DEF DefuseStirs, Woken, FileExists, TypeOK, StopJustified
  <1>18. ASSUME CmdCheck
         PROVE  StopJustified'
    BY <1>18 DEF CmdCheck, TypeOK, TimersBounded, StopJustified, bombVars
  <1>19. ASSUME CmdReturn
         PROVE  StopJustified'
    BY <1>19 DEF CmdReturn, TypeOK, TimersBounded, StopJustified, bombVars
  <1>20. ASSUME Ec2Stopped
         PROVE  StopJustified'
    BY <1>20 DEF Ec2Stopped, TypeOK, TimersBounded, StopJustified, bombVars
  <1>21. ASSUME Start
         PROVE  StopJustified'
    BY <1>21 DEF Start, TypeOK, TimersBounded, StopJustified, bombVars
  <1>22. ASSUME Tick
         PROVE  StopJustified'
    BY <1>22 DEF Tick, HasTime, TypeOK, TimersBounded, StopJustified
  <1>23. CASE UNCHANGED vars
    BY <1>23 DEF vars, bombVars, cmdVars, StopJustified
  <1>24. QED
    BY <1>1, <1>2, <1>3, <1>4, <1>5, <1>6, <1>7, <1>8, <1>9, <1>10, <1>11,
       <1>12, <1>13, <1>14, <1>15, <1>16, <1>17, <1>18, <1>19, <1>20,
       <1>21, <1>22, <1>23 DEF Next, Step, Command

-----------------------------------------------------------------------------
(* What is left of the time of a guarding process.                         *)

\* Bound covers a watch and a reset time, each with two calls and a poll.
LEMMA BoundType ==
  /\ Bound \in Nat
  /\ 2 * AwsTime + PollFreq + WatchTimeout <= Bound
  /\ 2 * AwsTime + PollFreq + ResetTime - 1 <= Bound
  BY ConstantsAssumption, PollFreqType DEF Bound

\* However a guarding process is doing, it starts with no more than Bound.
LeftBounded ==
  \A p \in Proc : pc[p] \in Guarding => Left(p) \in Nat /\ Left(p) <= Bound

\* In a well-formed state no guarding process may still need more than Bound.
LEMMA LeftIsBounded == TypeOK /\ TimersBounded /\ CallsOwned => LeftBounded
  <1> SUFFICES ASSUME TypeOK, TimersBounded, CallsOwned,
                      NEW p \in Proc, pc[p] \in Guarding
               PROVE  Left(p) \in Nat /\ Left(p) <= Bound
    BY DEF LeftBounded
  <1> USE ConstantsAssumption, PollFreqType, BoundType
  <1>1. /\ age \in Nat /\ age <= ResetTime /\ timer[p] \in Nat
        /\ ResetTime \in Nat /\ AwsTime \in Nat /\ WatchTimeout \in Nat
    BY DEF TypeOK
  <1>2. CASE pc[p] = "poll"
    BY <1>1, <1>2 DEF Left, UntilCall, TimersBounded
  <1>3. CASE pc[p] \in {"watch", "retry", "sleep"}
    <2>1. timer[p] <= WatchTimeout
      BY <1>1, <1>3 DEF TimersBounded
    <2>2. QED
      BY <1>1, <1>3, <2>1 DEF Left, UntilCall
  <1>4. CASE pc[p] = "call"
    <2>1. timer[p] <= AwsTime
      BY <1>4 DEF TimersBounded, CallsOwned
    <2>2. QED
      BY <1>1, <1>4, <2>1 DEF Left, UntilCall
  <1>5. QED
    BY <1>2, <1>3, <1>4 DEF Guarding

\* Whatever counts the quiet time afresh leaves every process timely.
LEMMA FreshIsTimely ==
  ASSUME TypeOK', Shape', quiet' = 0
  PROVE  Timely'
  <1>1. LeftBounded'
    BY LeftIsBounded, PTL DEF Shape
  <1>2. QED
    BY <1>1 DEF LeftBounded, Timely

\* A process whose state, time and file age do not change keeps what is left.
LEMMA SameIsTimely ==
  ASSUME Timely, quiet' = quiet, age' = age, timer' = timer, pc' = pc,
         call' = call, inst' # "running" \/ inst' = inst
  PROVE  Timely'
  BY DEF Timely, Left, UntilCall

-----------------------------------------------------------------------------
(* Every guarding process has the instance stopped in time.                *)

\* No step lets a guarding process fall behind: what a tick adds to the quiet
\* time it takes from what is left to the process, and every other step that
\* keeps the quiet time leaves the process no more than it had.
LEMMA TimelyStep ==
  ASSUME TypeOK, TypeOK', Shape, Shape', Timely, [Next]_vars
  PROVE  Timely'
  <1> USE ConstantsAssumption, PollFreqType, BoundType DEF Shape
  <1>1. ASSUME NEW p \in Proc, Control(p)
         PROVE  Timely'
    BY <1>1 DEF Control, TypeOK, TimersBounded, CallsOwned, AgesOK, Timely,
       Left, UntilCall, Guarding
  <1>2. ASSUME NEW p \in Proc, CreateFile(p)
         PROVE  Timely'
    BY <1>2, FreshIsTimely DEF CreateFile
  <1>3. ASSUME NEW p \in Proc, CreateFileFails(p)
         PROVE  Timely'
    BY <1>3 DEF CreateFileFails, LeftRunning, FileExists, TypeOK,
       TimersBounded, CallsOwned, Timely, Left, UntilCall, Guarding
  <1>4. ASSUME NEW p \in Proc, AwaitFile(p)
         PROVE  Timely'
    BY <1>4 DEF AwaitFile, FileExists, TypeOK, TimersBounded, CallsOwned,
       Timely, Left, UntilCall, Guarding
  <1>5. ASSUME NEW p \in Proc, Poll(p)
         PROVE  Timely'
    BY <1>5 DEF Poll, FileExists, timer_is_running, TypeOK, TimersBounded,
       CallsOwned, Timely, Left, UntilCall, Dead
  <1>6. ASSUME NEW p \in Proc, StopAnswered(p)
         PROVE  Timely'
    BY <1>6 DEF StopAnswered, WaitOnFile, TypeOK, TimersBounded, CallsOwned,
       AgesOK, Timely, Left, UntilCall, Dead
  <1>7. ASSUME NEW p \in Proc, StopFailed(p)
         PROVE  Timely'
    BY <1>7, FreshIsTimely DEF StopFailed
  <1>8. ASSUME NEW p \in Proc, Rejoin(p)
         PROVE  Timely'
    BY <1>8 DEF Rejoin, WaitOnFile, TypeOK, TimersBounded, CallsOwned,
       AgesOK, Timely, Left, UntilCall, Dead
  <1>9. ASSUME NEW p \in Proc, Kill(p)
         PROVE  Timely'
    BY <1>9 DEF Kill, LeftRunning, TypeOK, TimersBounded, CallsOwned, AgesOK,
       Timely, Left, UntilCall, Guarding
  <1>10. ASSUME NEW p \in Proc, Ec2Stop(p)
         PROVE  Timely'
    BY <1>10 DEF Ec2Stop, TypeOK, TimersBounded, CallsOwned, AgesOK, Timely
  <1>11. ASSUME NEW p \in Proc, OrphanEnds(p)
         PROVE  Timely'
    BY <1>11 DEF OrphanEnds, TypeOK, TimersBounded, CallsOwned, AgesOK,
       Timely, Left, UntilCall
  <1>12. ASSUME NEW seconds \in Stamps, Touch(seconds)
         PROVE  Timely'
    BY <1>12, FreshIsTimely DEF Touch, Stamps
  <1>13. ASSUME Info
         PROVE  Timely'
    BY <1>13 DEF Info, Woken, FileExists, TypeOK, TimersBounded, CallsOwned,
       Timely, Left, UntilCall
  <1>14. ASSUME NEW op \in {"done", "defuse"}, CmdBegin(op)
         PROVE  Timely'
    BY <1>14 DEF CmdBegin, Woken, FileExists, TypeOK, TimersBounded,
       CallsOwned, Timely, Left, UntilCall
  <1>15. ASSUME DoneRemoves
         PROVE  Timely'
    BY <1>15 DEF DoneRemoves, Woken, FileExists, TypeOK, TimersBounded,
       CallsOwned, Timely, Left, UntilCall
  <1>16. ASSUME DefuseKills
         PROVE  Timely'
    BY <1>16 DEF DefuseKills, Woken, LeftRunning, FileExists, TypeOK,
       TimersBounded, CallsOwned, Timely, Left, UntilCall, Guarding
  <1>17. ASSUME DefuseStirs
         PROVE  Timely'
    BY <1>17 DEF DefuseStirs, Woken, FileExists, TypeOK, TimersBounded,
       CallsOwned, Timely, Left, UntilCall
  <1>18. ASSUME CmdCheck
         PROVE  Timely'
    BY <1>18, SameIsTimely DEF CmdCheck, bombVars
  <1>19. ASSUME CmdReturn
         PROVE  Timely'
    BY <1>19, SameIsTimely DEF CmdReturn, bombVars
  <1>20. ASSUME Ec2Stopped
         PROVE  Timely'
    BY <1>20, SameIsTimely DEF Ec2Stopped, bombVars
  <1>21. ASSUME Start
         PROVE  Timely'
    BY <1>21, FreshIsTimely DEF Start
  <1>22. ASSUME Tick
         PROVE  Timely'
    <2> SUFFICES ASSUME NEW q \in Proc, inst' = "running", pc'[q] \in Guarding
                 PROVE  quiet' + Left(q)' <= Bound
      BY DEF Timely
    <2>1. /\ pc' = pc /\ call' = call /\ inst = "running"
          /\ pc[q] \in Guarding
      BY <1>22 DEF Tick
    <2>2. quiet' \in {quiet, quiet + 1} /\ quiet \in Nat
      BY <1>22, <2>1 DEF Tick, TypeOK, Guarded
    <2>3. /\ timer[q] \in Nat \ {0}
          /\ timer'[q] = timer[q] - 1
      BY <1>22, <2>1 DEF Tick, HasTime, TypeOK, Dead, Guarding
    <2>4. age \in Nat /\ age' \in Nat /\ age' >= age
          /\ (age' = age + 1 \/ age' = ResetTime)
      BY <1>22 DEF Tick, TypeOK
    <2>5. quiet + Left(q) <= Bound
      BY <2>1 DEF Timely
    <2>6. CASE pc[q] = "poll"
      BY <2>1, <2>2, <2>3, <2>4, <2>5, <2>6 DEF Left, UntilCall
    <2>7. CASE pc[q] = "call"
      BY <2>1, <2>2, <2>3, <2>4, <2>5, <2>7 DEF Left, UntilCall
    <2>8. CASE pc[q] \in {"watch", "retry", "sleep"}
      BY <2>1, <2>2, <2>3, <2>4, <2>5, <2>8 DEF Left, UntilCall
    <2>9. QED
      BY <2>1, <2>6, <2>7, <2>8 DEF Guarding
  <1>23. CASE UNCHANGED vars
    BY <1>23 DEF vars, bombVars, cmdVars, TypeOK, TimersBounded, Timely,
       Left, UntilCall
  <1>24. QED
    BY <1>1, <1>2, <1>3, <1>4, <1>5, <1>6, <1>7, <1>8, <1>9, <1>10, <1>11,
       <1>12, <1>13, <1>14, <1>15, <1>16, <1>17, <1>18, <1>19, <1>20,
       <1>21, <1>22, <1>23 DEF Next, Step, Command

-----------------------------------------------------------------------------
(* The theorems.                                                           *)

\* The initial state satisfies the inductive invariant.
LEMMA InitInv == Init => IInv
  <1> SUFFICES ASSUME Init PROVE IInv
    OBVIOUS
  <1> USE ConstantsAssumption DEF Init
  <1>1. TypeOK
    BY DEF TypeOK, Dead
  <1>2. Shape
    BY DEF Shape, TimersBounded, CallsOwned, CmdOK, AgesOK
  <1>3. StopJustified /\ Timely
    BY DEF StopJustified, Timely, Guarding
  <1>4. QED
    BY <1>1, <1>2, <1>3 DEF IInv

\* Every step keeps the inductive invariant.
LEMMA StepInv == IInv /\ [Next]_vars => IInv'
  <1> SUFFICES ASSUME IInv, [Next]_vars PROVE IInv'
    OBVIOUS
  <1>1. TypeOK'
    BY TypeStep DEF IInv, Shape
  <1>2. Shape'
    BY <1>1, ShapeStep DEF IInv
  <1>3. StopJustified'
    BY <1>1, JustifiedStep DEF IInv
  <1>4. Timely'
    BY <1>1, <1>2, TimelyStep DEF IInv
  <1>5. QED
    BY <1>1, <1>2, <1>3, <1>4 DEF IInv

\* The invariant IInv holds of every behaviour.
THEOREM Invariance == Spec => []IInv
  <1>1. QED
    BY InitInv, StepInv, PTL DEF Spec

\* Type correctness.
THEOREM TypeCorrect == Spec => []TypeOK
  <1>1. IInv => TypeOK
    BY DEF IInv
  <1>2. QED
    BY <1>1, Invariance, PTL

\* Every stop that EC2 has yet to take was decided with the timer run out, and
\* only a reset younger than the aws call can be overtaken by it.
THEOREM JustifiedStops == Spec => []StopJustified
  <1>1. IInv => StopJustified
    BY DEF IInv
  <1>2. QED
    BY <1>1, Invariance, PTL

\* A process that has its time left has not exceeded Bound.
LEMMA InvInTime == IInv => StoppedInTime
  <1> SUFFICES ASSUME IInv, inst = "running",
                      NEW p \in Proc, pc[p] \in Guarding
               PROVE  quiet <= Bound
    BY DEF StoppedInTime, Guarded
  <1>1. Left(p) \in Nat
    BY LeftIsBounded DEF IInv, Shape, LeftBounded
  <1>2. quiet + Left(p) <= Bound
    BY DEF IInv, Timely
  <1>3. QED
    BY <1>1, <1>2, BoundType DEF IInv, TypeOK

\* A guarded instance left alone is stopped within Bound, for any number of
\* processes and all times.
THEOREM InTime == Spec => []StoppedInTime
  <1>1. QED
    BY InvInTime, Invariance, PTL

-----------------------------------------------------------------------------
(* TimeBomb implements DeadMansSwitch.                                     *)

\* The script starts where the abstract switch does.
LEMMA SwitchInit == Init => Switch!Init
  BY DEF Init, Switch!Init, Guarded, Guarding

\* Every step of the script but a detonate is one of the abstract switch, or
\* does not change what the switch shows.
LEMMA SwitchStep ==
  ASSUME ~Detonating, IInv, IInv', [Next]_vars
  PROVE  [Switch!Next]_(Switch!vars)
  <1> USE ConstantsAssumption DEF Switch!vars, Switch!Next
  <1>0. TypeOK /\ TypeOK' /\ Shape /\ StopJustified /\ StoppedInTime'
    <2>1. IInv' => StoppedInTime'
      BY InvInTime, PTL
    <2>2. QED
      BY <2>1 DEF IInv
  <1>1. ASSUME NEW p \in Proc, Control(p)
         PROVE  [Switch!Next]_(Switch!vars)
    BY <1>1, <1>0 DEF Control, Switch!Disturb, TypeOK, Shape, Guarding,
       Guarded
  <1>2. ASSUME NEW p \in Proc, CreateFile(p)
         PROVE  [Switch!Next]_(Switch!vars)
    BY <1>2, <1>0 DEF CreateFile, FileExists, Switch!Reset, TypeOK, Guarded,
       bombVars
  <1>3. ASSUME NEW p \in Proc, CreateFileFails(p)
         PROVE  [Switch!Next]_(Switch!vars)
    BY <1>3, <1>0 DEF CreateFileFails, LeftRunning, FileExists,
       Switch!Disturb, TypeOK, Guarding, Guarded
  <1>4. ASSUME NEW p \in Proc, AwaitFile(p)
         PROVE  [Switch!Next]_(Switch!vars)
    BY <1>4, <1>0 DEF AwaitFile, FileExists, Switch!Disturb, TypeOK, Guarded
  <1>5. ASSUME NEW p \in Proc, Poll(p)
         PROVE  [Switch!Next]_(Switch!vars)
    BY <1>5, <1>0 DEF Poll, FileExists, timer_is_running, Switch!Disturb,
       TypeOK, Dead, Guarded
  <1>6. ASSUME NEW p \in Proc, StopAnswered(p)
         PROVE  [Switch!Next]_(Switch!vars)
    BY <1>6, <1>0 DEF StopAnswered, WaitOnFile, DetonateAction, CmdRg,
       Switch!Disturb, TypeOK, Shape, AgesOK, Dead, Guarded, FileExists
  <1>7. ASSUME NEW p \in Proc, StopFailed(p)
         PROVE  [Switch!Next]_(Switch!vars)
    BY <1>7, <1>0 DEF StopFailed, FileExists, Switch!Disturb, TypeOK, Guarded
  <1>8. ASSUME NEW p \in Proc, Rejoin(p)
         PROVE  [Switch!Next]_(Switch!vars)
    BY <1>8, <1>0 DEF Rejoin, WaitOnFile, Switch!Disturb, TypeOK, Shape,
       Dead, Guarded
  <1>9. ASSUME NEW p \in Proc, Kill(p)
         PROVE  [Switch!Next]_(Switch!vars)
    BY <1>9, <1>0 DEF Kill, LeftRunning, Switch!Disturb, TypeOK, Shape,
       Guarding, Guarded
  <1>10. ASSUME NEW p \in Proc, Ec2Stop(p)
         PROVE  [Switch!Next]_(Switch!vars)
    BY <1>10, <1>0 DEF Ec2Stop, StopJustified, Switch!Cut, TypeOK, Shape,
       Guarded
  <1>11. ASSUME NEW p \in Proc, OrphanEnds(p)
         PROVE  [Switch!Next]_(Switch!vars)
    BY <1>11, <1>0 DEF OrphanEnds, TypeOK, Shape, Guarded
  <1>12. ASSUME NEW seconds \in Stamps, Touch(seconds)
         PROVE  [Switch!Next]_(Switch!vars)
    <2>1. age' = 0
      BY <1>12 DEF Touch, Stamps
    <2>2. QED
      BY <1>12, <1>0, <2>1 DEF Touch, Woken, FileExists, Switch!Reset, TypeOK,
         Guarded
  <1>13. ASSUME Info
         PROVE  [Switch!Next]_(Switch!vars)
    BY <1>13, <1>0 DEF Info, Woken, FileExists, TypeOK, Guarded
  <1>14. ASSUME NEW op \in {"done", "defuse"}, CmdBegin(op)
         PROVE  [Switch!Next]_(Switch!vars)
    BY <1>14, <1>0 DEF CmdBegin, Woken, FileExists, TypeOK, Guarded
  <1>15. ASSUME DoneRemoves
         PROVE  [Switch!Next]_(Switch!vars)
    BY <1>15, <1>0 DEF DoneRemoves, Woken, FileExists, Switch!Throw, TypeOK,
       Guarded
  <1>16. ASSUME DefuseKills
         PROVE  [Switch!Next]_(Switch!vars)
    BY <1>16, <1>0 DEF DefuseKills, Woken, LeftRunning, FileExists,
       Switch!Disturb, TypeOK, Guarding, Guarded
  <1>17. ASSUME DefuseStirs
         PROVE  [Switch!Next]_(Switch!vars)
    BY <1>17, <1>0 DEF DefuseStirs, Woken, FileExists, TypeOK, Guarded
  <1>18. ASSUME CmdCheck
         PROVE  [Switch!Next]_(Switch!vars)
    BY <1>18, <1>0 DEF CmdCheck, TypeOK, Shape, Guarded, bombVars
  <1>19. ASSUME CmdReturn
         PROVE  [Switch!Next]_(Switch!vars)
    BY <1>19, <1>0 DEF CmdReturn, TypeOK, Shape, Guarded, bombVars
  <1>20. ASSUME Ec2Stopped
         PROVE  [Switch!Next]_(Switch!vars)
    BY <1>20, <1>0 DEF Ec2Stopped, Switch!Stopped, TypeOK, Shape, Guarded,
       bombVars
  <1>21. ASSUME Start
         PROVE  [Switch!Next]_(Switch!vars)
    BY <1>21, <1>0 DEF Start, Switch!Start, TypeOK, Shape, Guarded, bombVars
  <1>22. ASSUME Tick
         PROVE  [Switch!Next]_(Switch!vars)
    <2>1. Guarded' = Guarded
      BY <1>22 DEF Tick, Guarded
    <2>2. age' = IF age < ResetTime THEN age + 1 ELSE ResetTime
      BY <1>22 DEF Tick
    <2>3. CASE inst = "running" /\ Guarded
      <3>1. quiet' <= Bound
        BY <1>22, <1>0, <2>1, <2>3 DEF Tick, StoppedInTime
      <3>2. quiet' = quiet + 1
        BY <1>22, <1>0, <2>3, <3>1, BoundType DEF Tick
      <3>3. QED
        BY <1>22, <2>1, <2>2, <2>3, <3>1, <3>2 DEF Tick, Switch!Elapse
    <2>4. CASE ~(inst = "running" /\ Guarded)
      <3>1. quiet' = 0 /\ quiet' <= Bound
        BY <1>22, <2>4, BoundType DEF Tick
      <3>2. QED
        BY <1>22, <2>1, <2>2, <2>4, <3>1 DEF Tick, Switch!Elapse
    <2>5. QED
      BY <2>3, <2>4
  <1>23. CASE UNCHANGED vars
    BY <1>23, <1>0 DEF vars, bombVars, cmdVars, Guarded
  <1>24. QED
    BY <1>1, <1>2, <1>3, <1>4, <1>5, <1>6, <1>7, <1>8, <1>9, <1>10, <1>11,
       <1>12, <1>13, <1>14, <1>15, <1>16, <1>17, <1>18, <1>19, <1>20,
       <1>21, <1>22, <1>23 DEF Next, Step, Command

\* While nobody runs detonate, every behaviour of the script is one of the
\* abstract switch: users who reset it in time are not cut off, and an instance
\* left alone is.
THEOREM Implementation ==
  ASSUME ~Detonating
  PROVE  Spec => ImplementsSwitch
  <1>1. IInv /\ IInv' /\ [Next]_vars => [Switch!Next]_(Switch!vars)
    BY SwitchStep
  <1>2. QED
    BY <1>1, SwitchInit, Invariance, PTL DEF Spec, ImplementsSwitch,
       Switch!Spec

=============================================================================
