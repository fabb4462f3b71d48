----------------------------- MODULE F1SystemProofs -----------------------------
(***************************************************************************)
(* Proofs about F1System, for any number of pages and processes and any    *)
(* times: the pages and the web server use the time bomb as it may be used, *)
(* so what is proved of the time bomb holds in the system, and nothing is  *)
(* started without it.                                                     *)
(***************************************************************************)
EXTENDS F1System, TimeBombProofs

-----------------------------------------------------------------------------
(* The system's steps are the time bomb's.                                 *)

\* Whatever a page, the server, the process or EC2 does is a step of the time
\* bomb or leaves it alone.
LEMMA BombStepOrStutter == ASSUME [SysNext]_sysVars PROVE [Next]_vars
<1>0. Stamps = {0, 1}
  BY SystemAssumption DEF Stamps
<1>1. ASSUME NEW c \in Client, Page(c) PROVE UNCHANGED vars
  BY <1>1 DEF Page, Submit, StartFailed, FPGAAnswers, FPGAGivenUp, StopButton, Close,
              ChainFires
<1>2. CASE Server
  <2>1. ASSUME NEW p \in Proc, Associate(p) PROVE Next
    BY <2>1 DEF Associate, Next, Step
  <2>2. CASE ServeReset \/ ServeStart \/ StartBroken
    BY <1>0, <2>2 DEF ServeReset, ServeStart, StartBroken, TouchIfThere, Reset, Detonate, Next,
                      Command
  <2>3. CASE RefuseStart \/ CallStart \/ Booted \/ Described \/ Signal \/ WaitStopped
             \/ Exit \/ Crash
    BY <2>3 DEF RefuseStart, CallStart, Booted, Described, Signal, WaitStopped, Exit,
                Crash, End
  <2>4. CASE StartTaken
    BY <2>4 DEF StartTaken, Next
  <2>5. CASE CleanExit \/ DoneReturns
    BY <2>5 DEF CleanExit, DoneReturns, Next, Command
  <2>. QED
    BY <1>2, <2>1, <2>2, <2>3, <2>4, <2>5 DEF Server
<1>3. CASE Outside
  BY <1>3 DEF Outside, BombStep, Next, Step, Command
<1>4. CASE SysTick
  BY <1>4 DEF SysTick, Next
<1>5. CASE UNCHANGED sysVars
  BY <1>5 DEF sysVars
<1>. QED
  BY <1>1, <1>2, <1>3, <1>4, <1>5 DEF SysNext

\* The composition implements the time bomb's specification.
THEOREM SystemIsTimeBomb == SysSpec => Spec
<1>1. SysInit => Init
  BY DEF SysInit
<1>2. [SysNext]_sysVars => [Next]_vars
  BY BombStepOrStutter
<1>. QED
  BY <1>1, <1>2, PTL DEF SysSpec, Spec

\* So in the system, with any number of pages, servers that block, crash and exit, an
\* instance left alone is stopped within Bound, and a stop is on its way only if the file
\* had run out or was gone when it was decided (ec2_time_bomb 36-40, 104-105;
\* server.py 155-274). The server detonates, so the abstract switch itself is not kept.
THEOREM SystemKeepsTimes == SysSpec => []StoppedInTime /\ []StopJustified
BY SystemIsTimeBomb, InTime, JustifiedStops, PTL

-----------------------------------------------------------------------------
(* Types.                                                                  *)

Request == {ResetRequest} \cup {StartRequest(c) : c \in Client}

SrvState == Busy \cup {"launch", "idle", "closing", "stopping", "draining", "exited"}

SrvTime == 0 .. StartDelay + AwsTime + BootTime

PagesOK ==
  /\ f1_state \in [Client -> {"stopped", "pending", "running", "closed"}]
  /\ chain \in [Client -> [Slot -> 0 .. NoChain]]
  /\ answer \in [Client -> {"none", "ip", "error"}]

ServerOK ==
  /\ queue \in Seq(Request) /\ srv \in SrvState /\ srvFor \in Client
  /\ srvTimer \in SrvTime /\ signaled \in BOOLEAN /\ rested \in 0 .. AwsTime + 1

\* The constants are times.
LEMMA SystemConstants ==
  /\ PingPeriod \in Nat \ {0} /\ StartDelay \in Nat \ {0} /\ BootTime \in Nat \ {0}
  /\ AwsTime \in Nat \ {0} /\ MaxChains \in Nat \ {0} /\ NoChain \in Nat
BY SystemAssumption, ConstantsAssumption DEF NoChain

\* A request that is put into the queue.
LEMMA EnqueueType ==
  ASSUME NEW q \in Seq(Request), NEW r \in Request
  PROVE  Enqueue(q, r) \in Seq(Request)
BY DEF Enqueue

\* What a served queue holds.
LEMMA ServedType ==
  ASSUME queue \in Seq(Request), queue # <<>>
  PROVE  /\ Tail(queue) \in Seq(Request) /\ Head(queue) \in Request
         /\ Head(queue).req = "start" => Head(queue).client \in Client
<1>1. Tail(queue) \in Seq(Request) /\ Head(queue) \in Request
  BY DEF Request
<1>2. ASSUME NEW r \in Request, r.req = "start" PROVE r.client \in Client
  BY <1>2 DEF Request, ResetRequest, StartRequest
<1>. QED
  BY <1>1, <1>2

\* A page's steps keep the types.
LEMMA PageTypes ==
  ASSUME PagesOK, ServerOK, NEW c \in Client, Page(c)
  PROVE  PagesOK' /\ ServerOK'
<1>. USE SystemConstants
<1>1. CASE Submit(c)
  <2>1. chain' \in [Client -> [Slot -> 0 .. NoChain]]
    BY <1>1 DEF Submit, BeginEC2TimeBomb, PagesOK, NoChain
  <2>2. StartRequest(c) \in Request
    BY DEF Request
  <2>3. queue' \in Seq(Request)
    BY <1>1, <2>2, EnqueueType DEF Submit, ServerOK
  <2>4. answer' \in [Client -> {"none", "ip", "error"}]
    BY <1>1 DEF Submit, PagesOK
  <2>5. f1_state' \in [Client -> {"stopped", "pending", "running", "closed"}]
    BY <1>1 DEF Submit, PagesOK
  <2>. QED
    BY <1>1, <2>1, <2>3, <2>4, <2>5 DEF Submit, PagesOK, ServerOK
<1>2. ASSUME NEW k \in Slot, ChainFires(c, k) PROVE PagesOK' /\ ServerOK'
  <2>1. chain' \in [Client -> [Slot -> 0 .. NoChain]]
    BY <1>2 DEF ChainFires, PagesOK, NoChain
  <2>2. ResetRequest \in Request
    BY DEF Request
  <2>3. queue' \in Seq(Request)
    BY <1>2, <2>2, EnqueueType DEF ChainFires, ServerOK
  <2>. QED
    BY <1>2, <2>1, <2>3 DEF ChainFires, PagesOK, ServerOK
<1>3. CASE StartFailed(c) \/ FPGAAnswers(c) \/ FPGAGivenUp(c) \/ StopButton(c)
  <2>1. /\ f1_state' \in [Client -> {"stopped", "pending", "running", "closed"}]
        /\ answer' \in [Client -> {"none", "ip", "error"}]
    BY <1>3 DEF StartFailed, FPGAAnswers, FPGAGivenUp, StopButton, PagesOK
  <2>. QED
    BY <1>3, <2>1 DEF StartFailed, FPGAAnswers, FPGAGivenUp, StopButton, PagesOK, ServerOK,
                      serverVars
<1>4. CASE Close(c)
  <2>1. chain' \in [Client -> [Slot -> 0 .. NoChain]]
    BY <1>4 DEF Close, PagesOK, NoChain
  <2>2. /\ f1_state' \in [Client -> {"stopped", "pending", "running", "closed"}]
        /\ answer' \in [Client -> {"none", "ip", "error"}]
    BY <1>4 DEF Close, PagesOK
  <2>. QED
    BY <1>4, <2>1, <2>2 DEF Close, PagesOK, ServerOK, serverVars
<1>. QED
  BY <1>1, <1>2, <1>3, <1>4 DEF Page

\* An answer to a page.
LEMMA ReplyType ==
  ASSUME PagesOK, NEW c, NEW a \in {"none", "ip", "error"}, Reply(c, a),
         UNCHANGED <<f1_state, chain>>
  PROVE  PagesOK'
BY DEF PagesOK, Reply

\* The server's steps keep the types.
LEMMA ServerTypes ==
  ASSUME PagesOK, ServerOK, Server
  PROVE  PagesOK' /\ ServerOK'
<1>. USE SystemConstants
<1>1. ASSUME NEW p \in Proc, Associate(p) PROVE PagesOK' /\ ServerOK'
  BY <1>1 DEF Associate, clientVars, PagesOK, ServerOK, SrvState, Busy
<1>2. CASE ServeReset
  BY <1>2, ServedType DEF ServeReset, Serving, clientVars, PagesOK, ServerOK
<1>3. CASE ServeStart
  <2>1. Tail(queue) \in Seq(Request) /\ Head(queue).client \in Client
    BY <1>3, ServedType DEF ServeStart, Serving, ServerOK
  <2>2. StartDelay \in SrvTime
    BY DEF SrvTime
  <2>. QED
    BY <1>3, <2>1, <2>2 DEF ServeStart, clientVars, PagesOK, ServerOK, SrvState, Busy
<1>4. CASE RefuseStart
  <2>1. PagesOK'
    BY <1>4, ReplyType DEF RefuseStart
  <2>. QED
    BY <1>4, <2>1, ServedType DEF RefuseStart, Serving, ServerOK
<1>5. CASE CallStart \/ StartTaken \/ Booted
  <2>1. AwsTime \in SrvTime /\ BootTime \in SrvTime
    BY DEF SrvTime
  <2>. QED
    BY <1>5, <2>1 DEF CallStart, StartTaken, Booted, clientVars, PagesOK, ServerOK, SrvState, Busy
<1>6. CASE Described \/ StartBroken
  <2>1. PagesOK'
    BY <1>6, ReplyType DEF Described, StartBroken
  <2>2. 0 \in SrvTime
    BY DEF SrvTime
  <2>. QED
    BY <1>6, <2>1, <2>2 DEF Described, StartBroken, ServerOK, SrvState, Busy
<1>7. CASE Signal \/ CleanExit \/ DoneReturns \/ WaitStopped
  BY <1>7 DEF Signal, CleanExit, DoneReturns, WaitStopped, clientVars, PagesOK, ServerOK, SrvState,
              Busy
<1>8. CASE Exit \/ Crash
  <2>1. End
    BY <1>8 DEF Exit, Crash
  <2>2. answer' \in [Client -> {"none", "ip", "error"}]
    BY <2>1 DEF End, PagesOK
  <2>3. 0 \in SrvTime /\ <<>> \in Seq(Request)
    BY DEF SrvTime
  <2>. QED
    BY <2>1, <2>2, <2>3 DEF End, PagesOK, ServerOK, SrvState, Busy
<1>. QED
  BY <1>1, <1>2, <1>3, <1>4, <1>5, <1>6, <1>7, <1>8 DEF Server

\* The clock keeps the types.
LEMMA TickTypes ==
  ASSUME PagesOK, ServerOK, SysTick
  PROVE  PagesOK' /\ ServerOK'
<1>. USE SystemConstants
<1>1. srvTimer' \in SrvTime
  BY DEF SysTick, ServerOK, SrvTime
<1>2. chain' \in [Client -> [Slot -> 0 .. NoChain]]
  <2>1. ASSUME NEW c \in Client, NEW k \in Slot
        PROVE  (IF chain[c][k] = NoChain THEN NoChain ELSE chain[c][k] - 1) \in 0 .. NoChain
    <3>1. chain[c][k] \in 0 .. NoChain /\ chain[c][k] > 0
      BY DEF SysTick, PagesOK
    <3>. QED
      BY <3>1
  <2>2. chain' = [c \in Client |-> [k \in Slot |->
                    IF chain[c][k] = NoChain THEN NoChain ELSE chain[c][k] - 1]]
    BY DEF SysTick
  <2>. QED
    BY <2>1, <2>2
<1>3. rested' \in 0 .. AwsTime + 1
  BY DEF SysTick, ServerOK
<1>. QED
  BY <1>1, <1>2, <1>3 DEF SysTick, PagesOK, ServerOK

\* Every step does.
LEMMA SystemTypes ==
  ASSUME PagesOK, ServerOK, [SysNext]_sysVars
  PROVE  PagesOK' /\ ServerOK'
<1>1. CASE Outside
  BY <1>1 DEF Outside, clientVars, serverVars, PagesOK, ServerOK
<1>2. CASE UNCHANGED sysVars
  BY <1>2 DEF sysVars, clientVars, serverVars, PagesOK, ServerOK
<1>. QED
  BY <1>1, <1>2, PageTypes, ServerTypes, TickTypes DEF SysNext

\* The state of pages, server and time bomb has its types, for any number of pages
\* and any times.
THEOREM SystemTypeCorrect == SysSpec => []SysTypeOK
<1>1. ASSUME SysInit PROVE PagesOK /\ ServerOK
  <2>1. NoChain \in 0 .. NoChain /\ 0 \in SrvTime
    BY SystemConstants DEF SrvTime
  <2>2. chain \in [Client -> [Slot -> 0 .. NoChain]]
    BY <1>1, <2>1 DEF SysInit
  <2>3. queue \in Seq(Request)
    BY <1>1 DEF SysInit
  <2>4. AwsTime + 1 \in 0 .. AwsTime + 1
    BY SystemConstants
  <2>. QED
    BY <1>1, <2>1, <2>2, <2>3, <2>4 DEF SysInit, PagesOK, ServerOK, SrvState, Busy
<1>2. PagesOK /\ ServerOK /\ [SysNext]_sysVars => (PagesOK /\ ServerOK)'
  BY SystemTypes
<1>3. SysSpec => [](PagesOK /\ ServerOK)
  BY <1>1, <1>2, PTL DEF SysSpec
<1>4. SysSpec => []TypeOK
  BY SystemIsTimeBomb, TypeCorrect, PTL
<1>5. TypeOK /\ PagesOK /\ ServerOK => SysTypeOK
  BY DEF SysTypeOK, PagesOK, ServerOK, Request, SrvState, SrvTime
<1>. QED
  BY <1>3, <1>4, <1>5, PTL

-----------------------------------------------------------------------------
(* Nothing is started without a time bomb.                                 *)

\* done is run by the server that exits alone; it removes the file. Until then the
\* file is there from when the server has created its bomb.
BombThere ==
  /\ srv \in Busy \cup {"idle"} => FileExists
  /\ srv \notin {"closing", "exited"} => cmdAt = "idle"
  /\ srv = "closing" => cmdOp = "done" /\ (cmdAt = "signal" \/ ~ FileExists)
  /\ srv \in {"stopping", "draining"} => ~ FileExists

\* The process and EC2 leave the file and the commands alone: a process stops the
\* instance and never terminates it, which is what would remove the file.
LEMMA ProcessKeepsFile ==
  ASSUME NEW p \in Proc, BombStep(p)
  PROVE  UNCHANGED <<file, cmdOp, cmdAt>>
BY DEF BombStep, AwaitFile, Poll, StopAnswered, DetonateAction, CmdRg, StopFailed, Rejoin,
       Kill, Ec2Stop, OrphanEnds, cmdVars

\* The clock keeps it.
LEMMA TickKeepsFile ==
  ASSUME SysTick
  PROVE  /\ UNCHANGED <<file, cmdOp, srv>>
         /\ cmdAt = "idle" <=> cmdAt' = "idle"
         /\ cmdAt # "signal"
BY DEF SysTick, Tick

\* Every step keeps it.
LEMMA BombThereStep ==
  ASSUME BombThere, TypeOK, NoFile \notin Proc, [SysNext]_sysVars
  PROVE  BombThere'
<1>1. ASSUME UNCHANGED <<file, cmdOp, cmdAt, srv>> PROVE BombThere'
  BY <1>1 DEF BombThere, FileExists, Busy
<1>2. ASSUME NEW c \in Client, Page(c) PROVE BombThere'
  <2>1. UNCHANGED <<file, cmdOp, cmdAt, srv>>
    BY <1>2 DEF Page, Submit, StartFailed, FPGAAnswers, FPGAGivenUp, StopButton, Close,
                ChainFires, serverVars, vars, cmdVars
  <2>. QED
    BY <1>1, <2>1
<1>3. CASE Server
  <2>1. ASSUME NEW p \in Proc, Associate(p) PROVE BombThere'
    <3>1. CASE Control(p)
      <4>1. ctl' = [ctl EXCEPT ![p] = "spawned"] /\ cmdAt' = cmdAt
        BY <3>1 DEF Control, cmdVars
      <4>2. srv = "launch" /\ srv' = "launch"
        BY <2>1, <4>1 DEF Associate, TypeOK
      <4>. QED
        BY <4>1, <4>2 DEF BombThere, Busy
    <3>2. CASE CreateFile(p)
      <4>1. cmdAt' = cmdAt /\ file' = p /\ srv = "launch" /\ srv' \in {"launch", "idle"}
        BY <2>1, <3>2 DEF Associate, CreateFile, cmdVars
      <4>. QED
        BY <4>1 DEF BombThere, FileExists, Busy
    <3>. QED
      BY <2>1, <3>1, <3>2 DEF Associate
  <2>2. CASE ServeReset
    <3>1. UNCHANGED <<file, cmdOp, cmdAt, srv>>
      BY <2>2 DEF ServeReset, TouchIfThere, Reset, Touch, vars, cmdVars
    <3>. QED
      BY <1>1, <3>1
  <2>3. CASE ServeStart
    <3>1. /\ UNCHANGED <<file, cmdAt>> /\ FileExists /\ srv' = "sleep"
          /\ srv \in {"idle", "draining"}
      BY <2>3 DEF ServeStart, Serving, BombRuns, TouchIfThere, Reset, Touch, vars, cmdVars
    <3>. QED
      BY <3>1 DEF BombThere, FileExists, Busy
  <2>4. CASE RefuseStart \/ Signal
    <3>1. UNCHANGED <<file, cmdOp, cmdAt, srv>>
      BY <2>4 DEF RefuseStart, Signal, vars, cmdVars
    <3>. QED
      BY <1>1, <3>1
  <2>5. CASE CallStart \/ StartTaken \/ Booted
    <3>1. /\ UNCHANGED <<file, cmdAt>> /\ srv \in {"sleep", "starting", "booting"}
          /\ srv' \in {"starting", "booting", "describing"}
      BY <2>5 DEF CallStart, StartTaken, Booted, Start, vars, cmdVars
    <3>. QED
      BY <3>1 DEF BombThere, FileExists, Busy
  <2>6. CASE Described \/ StartBroken
    <3>1. /\ UNCHANGED <<file, cmdAt>> /\ srv' = "idle"
          /\ srv \in {"starting", "booting", "describing"}
      BY <2>6 DEF Described, StartBroken, TouchIfThere, Detonate, Touch, vars, cmdVars
    <3>. QED
      BY <3>1 DEF BombThere, FileExists, Busy
  <2>7. CASE CleanExit
    <3>1. srv = "idle" /\ FileExists
      BY <2>7 DEF CleanExit, BombThere
    <3>2. srv' = "closing" /\ cmdOp' = "done" /\ cmdAt' = "signal"
      BY <2>7, <3>1 DEF CleanExit, CmdBegin
    <3>. QED
      BY <3>2 DEF BombThere, Busy
  <2>8. CASE DoneReturns
    <3>1. /\ srv = "closing" /\ cmdAt \in {"ok", "failed"} /\ file' = file
          /\ srv' = "stopping" /\ cmdAt' = "idle"
      BY <2>8 DEF DoneReturns, CmdReturn
    <3>. QED
      BY <3>1 DEF BombThere, FileExists, Busy
  <2>9. CASE WaitStopped
    <3>1. UNCHANGED <<file, cmdAt>> /\ srv = "stopping" /\ srv' = "draining"
      BY <2>9 DEF WaitStopped, vars, cmdVars
    <3>. QED
      BY <3>1 DEF BombThere, FileExists, Busy
  <2>10. CASE Exit \/ Crash
    BY <2>10 DEF Exit, Crash, End, BombThere, Busy
  <2>. QED
    BY <1>3, <2>1, <2>2, <2>3, <2>4, <2>5, <2>6, <2>7, <2>8, <2>9, <2>10 DEF Server
<1>4. CASE Outside
  <2>1. srv' = srv
    BY <1>4 DEF Outside, serverVars
  <2>2. CASE (\E p \in Proc : BombStep(p)) \/ Ec2Stopped
    <3>1. UNCHANGED <<file, cmdOp, cmdAt>>
      BY <2>2, ProcessKeepsFile DEF Ec2Stopped, cmdVars
    <3>. QED
      BY <1>1, <2>1, <3>1
  <2>3. CASE DoneRemoves
    <3>1. /\ cmdAt = "signal" /\ file' = NoFile /\ cmdOp' = cmdOp /\ cmdOp = "done"
      BY <2>3 DEF DoneRemoves
    <3>. QED
      BY <2>1, <3>1 DEF BombThere, FileExists, Busy
  <2>4. CASE CmdCheck
    <3>1. cmdAt = "check" /\ file' = file /\ cmdOp' = cmdOp
      BY <2>4 DEF CmdCheck
    <3>. QED
      BY <2>1, <3>1 DEF BombThere, FileExists, Busy
  <2>5. CASE srv = "exited" /\ CmdReturn
    BY <2>1, <2>5 DEF BombThere, Busy
  <2>. QED
    BY <1>4, <2>2, <2>3, <2>4, <2>5 DEF Outside
<1>5. CASE SysTick
  BY <1>5, TickKeepsFile DEF BombThere, FileExists, Busy
<1>6. CASE UNCHANGED sysVars
  BY <1>1, <1>6 DEF sysVars, serverVars, vars, cmdVars
<1>. QED
  BY <1>2, <1>3, <1>4, <1>5, <1>6 DEF SysNext

\* So it always holds.
LEMMA BombThereAlways == SysSpec => []BombThere
<1>1. SysInit => BombThere
  BY DEF SysInit, Init, BombThere, Busy
<1>2. BombThere /\ TypeOK /\ [SysNext]_sysVars => BombThere'
  BY BombThereStep, ConstantsAssumption
<1>3. SysSpec => []TypeOK
  BY SystemIsTimeBomb, TypeCorrect, PTL
<1>. QED
  BY <1>1, <1>2, <1>3, PTL DEF SysSpec

\* Nothing starts the instance unless there is a time bomb, for any number of pages,
\* signals and crashes at any moment (StartEC2InstanceHandler, cleanExit).
THEOREM StartsAreUnderBomb == SysSpec => StartedUnderBomb
<1>. DEFINE Starts == inst = "stopped" /\ inst' = "running" => FileExists
<1>3. ASSUME BombThere, [SysNext]_sysVars PROVE Starts
  <2>. SUFFICES ASSUME inst = "stopped", inst' = "running" PROVE FileExists
    OBVIOUS
  <2>1. CASE StartTaken
    BY <1>3, <2>1 DEF StartTaken, BombThere, Busy
  <2>2. ASSUME NEW p \in Proc, Associate(p) PROVE FALSE
    BY <2>2 DEF Associate, Control, CreateFile
  <2>3. CASE ServeReset \/ ServeStart \/ StartBroken
    BY <2>3 DEF ServeReset, ServeStart, StartBroken, TouchIfThere, Reset, Detonate, Touch,
                vars
  <2>4. CASE RefuseStart \/ CallStart \/ Booted \/ Described \/ Signal \/ WaitStopped
             \/ Exit \/ Crash
    BY <2>4 DEF RefuseStart, CallStart, Booted, Described, Signal, WaitStopped, Exit,
                Crash, End, vars
  <2>5. CASE CleanExit \/ DoneReturns
    BY <2>5 DEF CleanExit, DoneReturns, CmdBegin, CmdReturn, vars
  <2>6. ASSUME NEW c \in Client, Page(c) PROVE FALSE
    BY <2>6 DEF Page, Submit, StartFailed, FPGAAnswers, FPGAGivenUp, StopButton, Close,
                ChainFires, vars
  <2>7. CASE Outside
    BY <2>7 DEF Outside, BombStep, AwaitFile, Poll, StopAnswered, StopFailed, Rejoin, Kill,
                Ec2Stop, OrphanEnds, DoneRemoves, CmdCheck, CmdReturn, Ec2Stopped
  <2>8. CASE SysTick
    BY <2>8 DEF SysTick, Tick
  <2>9. CASE UNCHANGED sysVars
    BY <2>9 DEF sysVars, vars
  <2>. QED
    BY <1>3, <2>1, <2>2, <2>3, <2>4, <2>5, <2>6, <2>7, <2>8, <2>9 DEF SysNext, Server
<1>4. BombThere /\ [SysNext]_sysVars => [Starts]_sysVars
  BY <1>3
<1>5. SysSpec => [][Starts]_sysVars
  BY <1>4, BombThereAlways, PTL DEF SysSpec
<1>. QED
  BY <1>5 DEF StartedUnderBomb

=============================================================================
