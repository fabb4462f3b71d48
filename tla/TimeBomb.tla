------------------------------ MODULE TimeBomb ------------------------------
(***************************************************************************)
(* framework/aws/ec2_time_bomb: a background process that stops an EC2     *)
(* instance once the time bomb file has not been touched for ResetTime,    *)
(* and the commands (control, own, reset, detonate, done, defuse, info)    *)
(* that users, the web server among them, run against the same file.       *)
(*                                                                         *)
(* Time is discrete (Tick). Whatever the script does between two waits     *)
(* takes no time: Tick is disabled while a wait has run out and its        *)
(* process has not moved on. A call of the aws command line takes at most  *)
(* AwsTime.                                                                *)
(***************************************************************************)
EXTENDS Naturals

CONSTANTS
  Proc,          \* the process ids that time bomb processes can get
  NoFile,        \* the time bomb file does not exist
  Modes,         \* the commands that create a bomb: "control", "own"
  ResetTime,     \* <reset-time>
  WatchTimeout,  \* $watch_timeout
  FailWait,      \* the wait after a failed stop (3 in the code)
  SleepTime,     \* the sleep after a failed stop without a file (5)
  AwsTime,       \* bound on the duration of one aws call
  DoneWait,      \* how long done/defuse wait for the process to die (10)
  MaxRare,       \* rare conditions tolerated before giving up (1000)
  StartAfterReset, \* whether users start it only while the timer runs
  Detonating     \* whether users run the detonate command

ASSUME ConstantsAssumption ==
  /\ NoFile \notin Proc
  /\ Modes \subseteq {"control", "own"}
  /\ {StartAfterReset, Detonating} \subseteq BOOLEAN
  /\ ResetTime \in Nat \ {0}
  /\ AwsTime \in Nat \ {0}
  /\ {WatchTimeout, FailWait, SleepTime, DoneWait, MaxRare} \subseteq Nat
  /\ FailWait <= WatchTimeout /\ SleepTime <= WatchTimeout

VARIABLES
  file,   \* the pid in the time bomb file, or NoFile
  age,    \* the age of the file's timestamp, no more than ResetTime
  ctl,    \* the shell that runs "control" or "own" for each process
  mode,   \* the command it was given
  pc,     \* where each time bomb process is
  timer,  \* what is left of its current wait or aws call
  call,   \* its stop-instances call, which outlives it if it is killed
  rare,   \* $rare_cnt
  cmdOp,  \* a done or defuse command in progress: which one,
  cmdAt,  \* how far it is,
  cmdPid, \* the pid it read,
  cmdCnt, \* and how many more times it will look for the process
  inst,   \* the instance, pending counted as running
  quiet   \* history: how long the guarded instance has been running since it
          \* was last started, reset, newly guarded or a stop of it failed;
          \* no more than Bound + 1

bombVars == <<pc, timer, call, rare>>
cmdVars == <<cmdOp, cmdAt, cmdPid, cmdCnt>>
vars == <<file, age, ctl, mode, bombVars, cmdVars, inst, quiet>>

-----------------------------------------------------------------------------
PollFreq == (ResetTime + 2) \div 3

\* $cmd_rg, which line 314 tests, is never assigned.
CmdRg(m) == ""
DetonateAction(m) == IF CmdRg(m) = "own" THEN "terminate" ELSE "stop"

FileExists == file # NoFile

\* The states in which a process waits for inotify events on the file.
Waiting == {"poll", "watch", "retry"}

\* The states in which a process will see to it that the instance is stopped.
Guarding == {"poll", "watch", "retry", "sleep", "call"}

Dead == {"none", "exited", "gaveup", "killed"}

Guarded == \E p \in Proc : pc[p] \in Guarding

\* An inotify event on the file ends every wait for one.
Woken == [p \in Proc |-> IF pc[p] \in Waiting THEN 0 ELSE timer[p]]

\* wait_on_time_bomb_file returns at once if there is no file.
WaitOnFile(f, t) == IF f = NoFile THEN 0 ELSE t

\* The timer of p when p dies: a call it has made goes on.
LeftRunning(p) == IF call[p] = "none" THEN 0 ELSE timer[p]

\* Mutants of timer_is_running: it stops early; it never stops.
TimerStopsEarly == FileExists /\ age < ResetTime - 1
TimerNeverStops == FileExists

timer_is_running == FileExists /\ age < ResetTime

\* The longest a guarded instance can run on after the last reset, start or
\* failed stop: a stop may be under way whose answer arrives after AwsTime and
\* whose watch then misses the reset; the poll that follows it calls AWS again.
Bound ==
  2 * AwsTime + PollFreq
    + (IF WatchTimeout >= ResetTime THEN WatchTimeout ELSE ResetTime - 1)

-----------------------------------------------------------------------------
Init ==
  /\ file = NoFile
  /\ age = ResetTime
  /\ ctl = [p \in Proc |-> "idle"]
  /\ mode \in [Proc -> Modes]
  /\ pc = [p \in Proc |-> "none"]
  /\ timer = [p \in Proc |-> 0]
  /\ call = [p \in Proc |-> "none"]
  /\ rare = [p \in Proc |-> 0]
  /\ cmdOp = "none" /\ cmdAt = "idle" /\ cmdPid = NoFile /\ cmdCnt = 0
  /\ inst \in {"stopped", "running"}
  /\ quiet = 0

-----------------------------------------------------------------------------
(* The control and own commands.                                           *)

\* The file does not exist: run the time bomb process in the background.
Control(p) ==
  /\ ctl[p] = "idle"
  /\ ~FileExists
  /\ ctl' = [ctl EXCEPT ![p] = "spawned"]
  /\ pc' = [pc EXCEPT ![p] = "create"]
  /\ timer' = [timer EXCEPT ![p] = 0]
  /\ UNCHANGED <<file, age, mode, call, rare, cmdVars, inst, quiet>>

\* Create the file (noclobber) with the pid of the process.
CreateFile(p) ==
  /\ ctl[p] = "spawned"
  /\ ~FileExists
  /\ ctl' = [ctl EXCEPT ![p] = "done"]
  /\ file' = p
  /\ age' = 0
  /\ quiet' = 0
  /\ UNCHANGED <<mode, bombVars, cmdVars, inst>>

\* Somebody else created the file since Control looked.
CreateFileFails(p) ==
  /\ ctl[p] = "spawned"
  /\ FileExists
  /\ ctl' = [ctl EXCEPT ![p] = "failed"]
  /\ pc' = [pc EXCEPT ![p] = IF @ \in Dead THEN @ ELSE "killed"]
  /\ timer' = [timer EXCEPT ![p] = LeftRunning(p)]
  /\ UNCHANGED <<file, age, mode, call, rare, cmdVars, inst, quiet>>

-----------------------------------------------------------------------------
(* time_bomb_process.                                                      *)

\* Wait for the file to be created, looking once a second, then start polling.
AwaitFile(p) ==
  /\ pc[p] = "create"
  /\ timer[p] = 0
  /\ IF FileExists
       THEN /\ pc' = [pc EXCEPT ![p] = "poll"]
            /\ timer' = [timer EXCEPT ![p] = PollFreq]
            /\ quiet' = 0
       ELSE /\ timer' = [timer EXCEPT ![p] = 1]
            /\ UNCHANGED <<pc, quiet>>
  /\ UNCHANGED <<file, age, ctl, mode, call, rare, cmdVars, inst>>

\* The wait is over: poll again while the timer runs, otherwise detonate.
Poll(p) ==
  /\ pc[p] = "poll"
  /\ timer[p] = 0
  /\ IF timer_is_running
       THEN /\ timer' = [timer EXCEPT ![p] = PollFreq]
            /\ UNCHANGED <<pc, call>>
       ELSE /\ pc' = [pc EXCEPT ![p] = "call"]
            /\ call' = [call EXCEPT ![p] = "sent"]
            /\ timer' = [timer EXCEPT ![p] = AwsTime]
  /\ UNCHANGED <<file, age, ctl, mode, rare, cmdVars, inst, quiet>>

\* Mutant of StopAnswered: it does not look whether the file is gone.
StopAnsweredStays(p) ==
  /\ pc[p] = "call"
  /\ call[p] = "taken"
  /\ pc' = [pc EXCEPT ![p] = "watch"]
  /\ timer' = [timer EXCEPT ![p] = WaitOnFile(file, WatchTimeout)]
  /\ call' = [call EXCEPT ![p] = "none"]
  /\ UNCHANGED <<file, age, ctl, mode, rare, cmdVars, inst, quiet>>

\* The stop command entered the state it should: exit if the file is gone,
\* otherwise watch the file.
StopAnswered(p) ==
  /\ pc[p] = "call"
  /\ call[p] = "taken"
  /\ LET f == IF DetonateAction(mode[p]) = "terminate" THEN NoFile ELSE file
     IN  /\ file' = f
         /\ age' = IF f = NoFile THEN ResetTime ELSE age
         /\ pc' = [pc EXCEPT ![p] = IF f = NoFile THEN "exited" ELSE "watch"]
         /\ timer' = [timer EXCEPT ![p] = WaitOnFile(f, WatchTimeout)]
  /\ call' = [call EXCEPT ![p] = "none"]
  /\ UNCHANGED <<ctl, mode, rare, cmdVars, inst, quiet>>

\* The stop command failed, or its answer was lost: wait a little, or give up
\* when this happens too often without a file.
StopFailed(p) ==
  /\ pc[p] = "call"
  /\ call' = [call EXCEPT ![p] = "none"]
  /\ IF FileExists
       THEN /\ pc' = [pc EXCEPT ![p] = "retry"]
            /\ timer' = [timer EXCEPT ![p] = FailWait]
            /\ UNCHANGED rare
       ELSE IF rare[p] < MaxRare
         THEN /\ rare' = [rare EXCEPT ![p] = @ + 1]
              /\ pc' = [pc EXCEPT ![p] = "sleep"]
              /\ timer' = [timer EXCEPT ![p] = SleepTime]
         ELSE /\ pc' = [pc EXCEPT ![p] = "gaveup"]
              /\ timer' = [timer EXCEPT ![p] = 0]
              /\ UNCHANGED rare
  /\ quiet' = 0
  /\ UNCHANGED <<file, age, ctl, mode, cmdVars, inst>>

\* Mutant of Rejoin: the loop begins with another long wait.
RejoinLate(p) ==
  /\ pc[p] \in {"watch", "retry", "sleep"}
  /\ timer[p] = 0
  /\ pc' = [pc EXCEPT ![p] = "poll"]
  /\ timer' = [timer EXCEPT ![p] = WaitOnFile(file, WatchTimeout)]
  /\ UNCHANGED <<file, age, ctl, mode, call, rare, cmdVars, inst, quiet>>

\* Back to the top of the loop, which begins with a wait.
Rejoin(p) ==
  /\ pc[p] \in {"watch", "retry", "sleep"}
  /\ timer[p] = 0
  /\ pc' = [pc EXCEPT ![p] = "poll"]
  /\ timer' = [timer EXCEPT ![p] = WaitOnFile(file, PollFreq)]
  /\ UNCHANGED <<file, age, ctl, mode, call, rare, cmdVars, inst, quiet>>

\* A signal or a crash: the traps are not inherited by the background
\* process, so it dies on the spot; a call it has made goes on.
Kill(p) ==
  /\ pc[p] \notin Dead
  /\ pc' = [pc EXCEPT ![p] = "killed"]
  /\ timer' = [timer EXCEPT ![p] = LeftRunning(p)]
  /\ UNCHANGED <<file, age, ctl, mode, call, rare, cmdVars, inst, quiet>>

-----------------------------------------------------------------------------
(* The other commands.                                                     *)

\* touch -c, with a time stamp of some seconds ago.
Touch(seconds) ==
  /\ FileExists
  /\ age' = seconds
  /\ timer' = Woken
  /\ quiet' = 0
  /\ UNCHANGED <<file, ctl, mode, pc, call, rare, cmdVars, inst>>

Reset == Touch(0)

\* $reset_time is not set when detonate adds 1 to it.
Detonate == Touch(1)

\* The stamps that users give the file.
Stamps == {0} \cup (IF Detonating THEN {1} ELSE {})

\* info (and the web server's check of the process) reads the file.
Info ==
  /\ FileExists
  /\ timer' = Woken
  /\ UNCHANGED <<file, age, ctl, mode, pc, call, rare, cmdVars, inst, quiet>>

\* done and defuse read the pid from the file.
CmdBegin(op) ==
  /\ cmdAt = "idle"
  /\ FileExists
  /\ cmdOp' = op /\ cmdAt' = "signal" /\ cmdPid' = file /\ cmdCnt' = DoneWait
  /\ timer' = Woken
  /\ UNCHANGED <<file, age, ctl, mode, pc, call, rare, inst, quiet>>

\* done removes the file.
DoneRemoves ==
  /\ cmdOp = "done" /\ cmdAt = "signal"
  /\ cmdAt' = "check"
  /\ file' = NoFile
  /\ age' = ResetTime
  /\ timer' = Woken
  /\ UNCHANGED <<ctl, mode, pc, call, rare, inst, quiet,
                 cmdOp, cmdPid, cmdCnt>>

\* defuse sends SIGTERM to the process, which dies of it and leaves the file
\* alone, and touches the file with its own timestamp.
DefuseKills ==
  /\ cmdOp = "defuse" /\ cmdAt = "signal"
  /\ cmdAt' = "pause"
  /\ pc' = [pc EXCEPT ![cmdPid] = IF @ \in Dead THEN @ ELSE "killed"]
  /\ timer' = [p \in Proc |-> IF p = cmdPid THEN LeftRunning(p)
                              ELSE IF FileExists THEN Woken[p] ELSE timer[p]]
  /\ UNCHANGED <<cmdOp, cmdPid, cmdCnt, file, age, ctl, mode, call, rare, inst,
                 quiet>>

\* A second later it does so again.
DefuseStirs ==
  /\ cmdAt = "stir"
  /\ cmdAt' = "check"
  /\ timer' = IF FileExists THEN Woken ELSE timer
  /\ UNCHANGED <<file, age, ctl, mode, pc, call, rare, inst, quiet,
                 cmdOp, cmdPid, cmdCnt>>

\* Mutant of CmdCheck: the count is not looked at.
CmdCheckForever ==
  /\ cmdAt = "check"
  /\ cmdAt' = IF pc[cmdPid] \in Dead THEN "ok" ELSE "sleep"
  /\ UNCHANGED <<file, age, ctl, mode, bombVars, inst, quiet,
                 cmdOp, cmdPid, cmdCnt>>

\* Both wait for the process to die, looking once a second.
CmdCheck ==
  /\ cmdAt = "check"
  /\ cmdAt' = IF cmdCnt = 0 THEN "failed"
              ELSE IF pc[cmdPid] \in Dead THEN "ok" ELSE "sleep"
  /\ UNCHANGED <<file, age, ctl, mode, bombVars, inst, quiet,
                 cmdOp, cmdPid, cmdCnt>>

CmdReturn ==
  /\ cmdAt \in {"ok", "failed"}
  /\ cmdOp' = "none" /\ cmdAt' = "idle" /\ cmdPid' = NoFile /\ cmdCnt' = 0
  /\ UNCHANGED <<file, age, ctl, mode, bombVars, inst, quiet>>

-----------------------------------------------------------------------------
(* EC2 and its users, outside the script.                                  *)

\* EC2 takes a stop request: it always succeeds on an instance that is up,
\* stopping or stopped.
Ec2Stop(p) ==
  /\ call[p] = "sent"
  /\ call' = [call EXCEPT ![p] = "taken"]
  /\ inst' = IF inst = "running" THEN "stopping" ELSE inst
  /\ UNCHANGED <<file, age, ctl, mode, pc, timer, rare, cmdVars, quiet>>

\* The call of a killed process ends, with or without effect.
OrphanEnds(p) ==
  /\ pc[p] = "killed"
  /\ call[p] # "none"
  /\ call' = [call EXCEPT ![p] = "none"]
  /\ timer' = [timer EXCEPT ![p] = 0]
  /\ UNCHANGED <<file, age, ctl, mode, pc, rare, cmdVars, inst, quiet>>

Ec2Stopped ==
  /\ inst = "stopping"
  /\ inst' = "stopped"
  /\ UNCHANGED <<file, age, ctl, mode, bombVars, cmdVars, quiet>>

Start ==
  /\ inst = "stopped"
  /\ StartAfterReset => timer_is_running
  /\ inst' = "running"
  /\ quiet' = 0
  /\ UNCHANGED <<file, age, ctl, mode, bombVars, cmdVars>>

-----------------------------------------------------------------------------
\* Whether p has a wait or an aws call that has not yet run its time.
HasTime(p) ==
  \/ pc[p] \in Dead /\ call[p] = "none"
  \/ timer[p] > 0

Tick ==
  /\ \A p \in Proc : HasTime(p)
  /\ cmdAt \notin {"signal", "stir", "check"}
  /\ age' = IF age < ResetTime THEN age + 1 ELSE ResetTime
  /\ timer' = [p \in Proc |-> IF timer[p] > 0 THEN timer[p] - 1 ELSE 0]
  /\ cmdAt' = CASE cmdAt = "pause" -> "stir"
                [] cmdAt = "sleep" -> "check"
                [] OTHER -> cmdAt
  /\ cmdCnt' = IF cmdAt = "sleep" THEN cmdCnt - 1 ELSE cmdCnt
  /\ quiet' = IF inst = "running" /\ Guarded
                THEN IF quiet <= Bound THEN quiet + 1 ELSE quiet
                ELSE 0
  /\ UNCHANGED <<file, ctl, mode, pc, call, rare, cmdOp, cmdPid, inst>>

\* One step of the process p or of the script that runs it.
Step(p) ==
  \/ Control(p) \/ CreateFile(p) \/ CreateFileFails(p)
  \/ AwaitFile(p) \/ Poll(p) \/ StopAnswered(p) \/ StopFailed(p) \/ Rejoin(p)
  \/ Kill(p)
  \/ Ec2Stop(p) \/ OrphanEnds(p)

Command ==
  \/ \E seconds \in Stamps : Touch(seconds)
  \/ Info
  \/ CmdBegin("done") \/ CmdBegin("defuse")
  \/ DoneRemoves \/ DefuseKills \/ DefuseStirs \/ CmdCheck \/ CmdReturn

Next ==
  \/ \E p \in Proc : Step(p)
  \/ Command
  \/ Ec2Stopped \/ Start
  \/ Tick

Spec == Init /\ [][Next]_vars

\* Time goes on, the shells and processes run, every aws call ends, and of the
\* stop requests that are made again and again EC2 takes some; their answers
\* may all be lost. Users promise nothing, nor does anything have to be killed.
Fairness ==
  /\ SF_vars(Tick)
  /\ \A p \in Proc :
       /\ WF_vars(CreateFile(p) \/ CreateFileFails(p))
       /\ WF_vars(AwaitFile(p) \/ Poll(p) \/ Rejoin(p))
       /\ SF_vars(Ec2Stop(p)) /\ WF_vars(StopAnswered(p) \/ StopFailed(p))
       /\ WF_vars(OrphanEnds(p))
  /\ WF_vars(DoneRemoves \/ DefuseKills \/ DefuseStirs \/ CmdCheck)
  /\ WF_vars(Ec2Stopped)

FairSpec == Spec /\ Fairness

-----------------------------------------------------------------------------
TypeOK ==
  /\ file \in Proc \cup {NoFile}
  /\ age \in 0 .. ResetTime
  /\ ctl \in [Proc -> {"idle", "spawned", "done", "failed"}]
  /\ mode \in [Proc -> Modes]
  /\ pc \in [Proc -> Dead \cup Guarding \cup {"create"}]
  /\ timer \in [Proc -> Nat]
  /\ call \in [Proc -> {"none", "sent", "taken"}]
  /\ rare \in [Proc -> 0 .. MaxRare]
  /\ cmdOp \in {"none", "done", "defuse"}
  /\ cmdAt \in {"idle", "signal", "pause", "stir", "check", "sleep",
                "ok", "failed"}
  /\ cmdPid \in Proc \cup {NoFile}
  /\ cmdCnt \in 0 .. DoneWait
  /\ inst \in {"stopped", "running", "stopping"}
  /\ quiet \in Nat

\* A guarded instance that nobody resets or starts again is stopped in time,
\* whatever touches, signals, done commands and second processes interfere
\* (lines 455-466 and 508-510).
StoppedInTime == inst = "running" /\ Guarded => quiet <= Bound

\* A stop that EC2 has not taken yet was decided with the file gone or run
\* out; a reset can overtake it only while the aws call lasts (lines 104-105
\* ask users to leave that much time), and a detonate, which stamps the file
\* 1 second in the past.
StopJustified ==
  \A p \in Proc : call[p] = "sent" =>
    \/ age >= ResetTime
    \/ age <= (AwsTime - timer[p]) + (IF Detonating THEN 1 ELSE 0)

\* What the script promises, without its processes (overview, lines 36-40).
\* It is kept as long as nobody runs detonate, see DetonateExpires.
Switch == INSTANCE DeadMansSwitch
            WITH Race <- AwsTime, watched <- Guarded, unattended <- quiet

ImplementsSwitch == Switch!Spec

\* While the file stays unreset and somebody guards the instance, it is turned
\* off again however often it is started (lines 57-59, 508-510).
KeptOff == <>[](Guarded /\ age = ResetTime) => []<>(inst # "running")

\* Processes that guard the instance and find the file removed leave, all of
\* them, unless the file comes back (lines 114-116, 500-506).
DoneExits == Guarded /\ ~FileExists ~> ~Guarded \/ FileExists

-----------------------------------------------------------------------------
(* What the script's text says of it and the code does not do.             *)

\* "Detonation (from a timeout or a "detonate" or "done" command) stops the
\* instance" (line 52), so the timer has run out after a detonate ("Set file
\* timestamp to reflect detonation", line 246). It is set to one second ago.
DetonateExpires == [][Detonate => ~timer_is_running']_vars

=============================================================================
