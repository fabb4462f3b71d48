------------------------------ MODULE F1System ------------------------------
(***************************************************************************)
(* Users of an F1 instance: the pages in their browsers                    *)
(* (framework/client/js/fpgaServer.js, "F1 Instance Management"), the web  *)
(* server that starts the instance for them and resets its time bomb       *)
(* (framework/webserver/server.py), and the time bomb itself (TimeBomb,    *)
(* whose variables, process and commands this module uses).                *)
(*                                                                         *)
(* The web server is single threaded: while a handler sleeps or waits for  *)
(* a command, every other request waits in queue. Requests and answers     *)
(* take no time on the network, and a free server serves at once.          *)
(***************************************************************************)
EXTENDS TimeBomb, Sequences, FiniteSets

CONSTANTS
  Client,      \* the pages
  PingPeriod,  \* their time_bomb_reset
  MaxChains,   \* bound on the chains of timeouts of all pages together
  StartDelay,  \* the server's sleep before it starts the instance (1)
  BootTime     \* the longest aws ec2 wait instance-running goes on

ASSUME SystemAssumption ==
  /\ {PingPeriod, MaxChains, StartDelay, BootTime} \subseteq Nat \ {0}
  /\ Client # {}
  /\ Detonating  \* the server does, when a start goes wrong

VARIABLES
  f1_state,  \* what each page shows; "closed" when it is gone
  chain,     \* what is left of each timeout of scheduleEC2TimeBombReset
  answer,    \* the answer to each page's start request
  queue,     \* requests the server has not served
  srv,       \* what the server does
  srvFor,    \* the client it does it for
  srvTimer,  \* what is left of its sleep or command
  signaled,  \* cleanup_handler_called
  rested     \* history: how long the server has been free since it last served
             \* a start; no more than AwsTime + 1

clientVars == <<f1_state, chain, answer>>
serverVars == <<queue, srv, srvFor, srvTimer, signaled>>
sysVars == <<vars, clientVars, serverVars, rested>>

-----------------------------------------------------------------------------
Slot == 1 .. MaxChains
NoChain == PingPeriod + 1

\* The states in which the server serves a start request, and nothing else.
Busy == {"sleep", "starting", "booting", "describing"}

\* Mutants of Wanted: resets do not end; they end when the instance is up.
WantedAlways(c) == f1_state[c] # "closed"
WantedPending(c) == f1_state[c] = "pending"

Wanted(c) == f1_state[c] \in {"running", "pending"}

\* Resets have no sender and several in a row do what one does.
Enqueue(q, r) ==
  IF r.req = "reset" /\ q # <<>> /\ q[Len(q)] = r THEN q ELSE Append(q, r)

ResetRequest == [req |-> "reset"]
StartRequest(c) == [req |-> "start", client |-> c]

SysInit ==
  /\ Init
  /\ f1_state = [c \in Client |-> "stopped"]
  /\ chain = [c \in Client |-> [k \in Slot |-> NoChain]]
  /\ answer = [c \in Client |-> "none"]
  /\ queue = <<>>
  /\ srv = "launch"
  /\ srvFor \in Client
  /\ srvTimer = 0
  /\ signaled = FALSE
  /\ rested = AwsTime + 1

-----------------------------------------------------------------------------
(* The pages.                                                              *)

\* ec2_ping_active, cleared right before it is tested, never keeps
\* beginEC2TimeBomb from beginning another chain of timeouts.
BeginEC2TimeBomb(c) ==
  \E k \in Slot :
    /\ chain[c][k] = NoChain
    /\ \A j \in 1 .. k - 1 : chain[c][j] # NoChain
    /\ Cardinality({x \in Client \X Slot : chain[x[1]][x[2]] # NoChain})
         < MaxChains
    /\ chain' = [chain EXCEPT ![c][k] = PingPeriod]

\* The start form is submitted. Without a server the request fails at once.
Submit(c) ==
  /\ f1_state[c] = "stopped"
  /\ BeginEC2TimeBomb(c)
  /\ f1_state' = [f1_state EXCEPT ![c] = "pending"]
  /\ IF srv = "exited"
       THEN answer' = [answer EXCEPT ![c] = "error"] /\ UNCHANGED queue
       ELSE queue' = Enqueue(queue, StartRequest(c)) /\ UNCHANGED answer
  /\ UNCHANGED <<srv, srvFor, srvTimer, signaled, vars, rested>>

\* A timeout fires: reset the time bomb and go on while the instance is wanted.
ChainFires(c, k) ==
  /\ chain[c][k] = 0
  /\ IF Wanted(c)
       THEN /\ chain' = [chain EXCEPT ![c][k] = PingPeriod]
            /\ queue' = IF srv = "exited" THEN queue
                        ELSE Enqueue(queue, ResetRequest)
       ELSE /\ chain' = [chain EXCEPT ![c][k] = NoChain]
            /\ UNCHANGED queue
  /\ UNCHANGED <<f1_state, answer, srv, srvFor, srvTimer, signaled, vars,
                 rested>>

\* The start request failed.
StartFailed(c) ==
  /\ answer[c] = "error"
  /\ answer' = [answer EXCEPT ![c] = "none"]
  /\ f1_state' = [f1_state EXCEPT ![c] = "stopped"]
  /\ UNCHANGED <<chain, serverVars, vars, rested>>

\* The request brought an IP, and the page asks the instance's own server for
\* it until that answers (which it can only while the instance is up) ...
FPGAAnswers(c) ==
  /\ answer[c] = "ip"
  /\ inst = "running"
  /\ answer' = [answer EXCEPT ![c] = "none"]
  /\ f1_state' = [f1_state EXCEPT ![c] = "running"]
  /\ UNCHANGED <<chain, serverVars, vars, rested>>

\* ... or gives up.
FPGAGivenUp(c) ==
  /\ answer[c] = "ip"
  /\ answer' = [answer EXCEPT ![c] = "none"]
  /\ f1_state' = [f1_state EXCEPT ![c] = "stopped"]
  /\ UNCHANGED <<chain, serverVars, vars, rested>>

StopButton(c) ==
  /\ f1_state[c] = "running"
  /\ f1_state' = [f1_state EXCEPT ![c] = "stopped"]
  /\ UNCHANGED <<chain, answer, serverVars, vars, rested>>

\* The page is left; its timeouts go with it, its requests do not.
Close(c) ==
  /\ f1_state[c] # "closed"
  /\ f1_state' = [f1_state EXCEPT ![c] = "closed"]
  /\ chain' = [chain EXCEPT ![c] = [k \in Slot |-> NoChain]]
  /\ answer' = [answer EXCEPT ![c] = "none"]
  /\ UNCHANGED <<serverVars, vars, rested>>

Page(c) ==
  \/ Submit(c) \/ StartFailed(c) \/ FPGAAnswers(c) \/ FPGAGivenUp(c)
  \/ StopButton(c) \/ Close(c)
  \/ \E k \in Slot : ChainFires(c, k)

-----------------------------------------------------------------------------
(* The web server.                                                         *)

Reply(c, a) ==
  answer' = IF f1_state[c] = "closed" THEN answer ELSE [answer EXCEPT ![c] = a]

Serving == srv \in {"idle", "draining"} /\ queue # <<>>

\* touch -c, which is content without a file.
TouchIfThere(touch) == IF FileExists THEN touch ELSE UNCHANGED vars

\* Before it serves anything, the server creates its time bomb.
Associate(p) ==
  /\ srv = "launch"
  /\ Control(p) \/ CreateFile(p)
  /\ srv' = IF ctl'[p] = "done" THEN "idle" ELSE srv
  /\ UNCHANGED <<clientVars, queue, srvFor, srvTimer, signaled, rested>>

\* TimeBombHandler.get: touch -c.
ServeReset ==
  /\ Serving
  /\ Head(queue) = ResetRequest
  /\ queue' = Tail(queue)
  /\ TouchIfThere(Reset)
  /\ UNCHANGED <<clientVars, srv, srvFor, srvTimer, signaled, rested>>

\* Mutant of BombRuns: the safety check of the start handler is gone.
BombTrusted == TRUE

\* Whether the file names a time bomb process that is running.
BombRuns == FileExists /\ pc[file] \notin Dead

\* StartEC2InstanceHandler.post, up to the sleep: the bomb runs and is reset.
ServeStart ==
  /\ Serving
  /\ Head(queue).req = "start"
  /\ BombRuns
  /\ queue' = Tail(queue)
  /\ srv' = "sleep"
  /\ srvFor' = Head(queue).client
  /\ srvTimer' = StartDelay
  /\ rested' = 0
  /\ TouchIfThere(Reset)
  /\ UNCHANGED <<clientVars, signaled>>

\* A wrong password, or no bomb.
RefuseStart ==
  /\ Serving
  /\ Head(queue).req = "start"
  /\ queue' = Tail(queue)
  /\ Reply(Head(queue).client, "error")
  /\ UNCHANGED <<f1_state, chain, srv, srvFor, srvTimer, signaled, vars,
                 rested>>

CallStart ==
  /\ srv = "sleep"
  /\ srvTimer = 0
  /\ srv' = "starting"
  /\ srvTimer' = AwsTime
  /\ UNCHANGED <<clientVars, queue, srvFor, signaled, vars, rested>>

\* EC2 takes the start request and the server waits for the instance.
StartTaken ==
  /\ srv = "starting"
  /\ inst # "stopping"
  /\ srv' = "booting"
  /\ srvTimer' = BootTime
  /\ IF inst = "stopped" THEN Start ELSE UNCHANGED vars
  /\ UNCHANGED <<clientVars, queue, srvFor, signaled, rested>>

\* The instance is up: the server asks EC2 for its address, ...
Booted ==
  /\ srv = "booting"
  /\ inst = "running"
  /\ srv' = "describing"
  /\ srvTimer' = AwsTime
  /\ UNCHANGED <<clientVars, queue, srvFor, signaled, vars, rested>>

\* ... which an instance has until it is stopped, and answers the page with it.
Described ==
  /\ srv = "describing"
  /\ inst # "stopped"
  /\ srv' = "idle"
  /\ srvTimer' = 0
  /\ Reply(srvFor, "ip")
  /\ UNCHANGED <<f1_state, chain, queue, srvFor, signaled, vars, rested>>

\* An aws command failed, the wait ran out or met a stopping instance, or there
\* is no address: detonate, which stamps the file one second in the past.
StartBroken ==
  /\ srv \in {"starting", "booting", "describing"}
  /\ srv' = "idle"
  /\ srvTimer' = 0
  /\ TouchIfThere(Detonate)
  /\ Reply(srvFor, "error")
  /\ UNCHANGED <<f1_state, chain, queue, srvFor, signaled, rested>>

\* A signal asks for cleanExit, which runs when the server is next free: it
\* ends the time bomb with "done" ...
Signal ==
  /\ ~signaled
  /\ srv # "launch"
  /\ signaled' = TRUE
  /\ UNCHANGED <<clientVars, queue, srv, srvFor, srvTimer, vars, rested>>

CleanExit ==
  /\ signaled
  /\ srv = "idle"
  /\ IF FileExists
       THEN srv' = "closing" /\ CmdBegin("done")
       ELSE srv' = "stopping" /\ UNCHANGED vars
  /\ UNCHANGED <<clientVars, queue, srvFor, srvTimer, signaled, rested>>

DoneReturns ==
  /\ srv = "closing"
  /\ CmdReturn
  /\ srv' = "stopping"
  /\ UNCHANGED <<clientVars, queue, srvFor, srvTimer, signaled, rested>>

\* ... waits, for a time, for the instance to stop, and lets the event loop go
\* round once more, with whatever requests are there.
WaitStopped ==
  /\ srv = "stopping"
  /\ srv' = "draining"
  /\ UNCHANGED <<clientVars, queue, srvFor, srvTimer, signaled, vars, rested>>

\* Mutant of Unanswered: requests still in queue are forgotten.
UnansweredInService ==
  {c \in Client : srv \in Busy /\ srvFor = c}

\* The pages whose requests the server has not answered when it ends.
Unanswered ==
  {c \in Client : \/ \E i \in DOMAIN queue : queue[i] = StartRequest(c)
                  \/ srv \in Busy /\ srvFor = c}

\* The process ends; requests without an answer fail.
End ==
  /\ srv' = "exited"
  /\ srvTimer' = 0
  /\ queue' = <<>>
  /\ answer' = [c \in Client |->
                  IF c \in Unanswered /\ f1_state[c] # "closed"
                    THEN "error" ELSE answer[c]]
  /\ UNCHANGED <<f1_state, chain, srvFor, signaled, vars, rested>>

Exit == srv = "draining" /\ End

\* The server dies, whatever it is doing; a command it runs goes on.
Crash == srv \notin {"launch", "exited"} /\ End

Server ==
  \/ \E p \in Proc : Associate(p)
  \/ ServeReset \/ ServeStart \/ RefuseStart
  \/ CallStart \/ StartTaken \/ Booted \/ Described \/ StartBroken
  \/ Signal \/ CleanExit \/ DoneReturns \/ WaitStopped \/ Exit
  \/ Crash

-----------------------------------------------------------------------------
(* The time bomb, its done command and EC2, as they are.                   *)

BombStep(p) ==
  \/ AwaitFile(p) \/ Poll(p) \/ StopAnswered(p) \/ StopFailed(p) \/ Rejoin(p)
  \/ Kill(p) \/ Ec2Stop(p) \/ OrphanEnds(p)

Outside ==
  /\ \/ \E p \in Proc : BombStep(p)
     \/ DoneRemoves \/ CmdCheck
     \/ srv = "exited" /\ CmdReturn
     \/ Ec2Stopped
  /\ UNCHANGED <<clientVars, serverVars, rested>>

SysTick ==
  /\ Tick
  /\ srv \in Busy => srvTimer > 0
  /\ ~Serving
  /\ \A c \in Client : \A k \in Slot : chain[c][k] > 0
  /\ ~(srv = "closing" /\ cmdAt \in {"ok", "failed"})
  /\ srvTimer' = IF srvTimer > 0 THEN srvTimer - 1 ELSE 0
  /\ chain' = [c \in Client |-> [k \in Slot |->
                IF chain[c][k] = NoChain THEN NoChain ELSE chain[c][k] - 1]]
  /\ rested' = IF srv \in Busy \/ rested > AwsTime THEN rested ELSE rested + 1
  /\ UNCHANGED <<f1_state, answer, queue, srv, srvFor, signaled>>

SysNext ==
  \/ \E c \in Client : Page(c)
  \/ Server
  \/ Outside
  \/ SysTick

SysSpec == SysInit /\ [][SysNext]_sysVars

\* Time goes on; the pages' timeouts, the server and the time bomb run, and of
\* the bomb's stop requests EC2 takes some. Nobody has to start or stop
\* anything, and no call has to succeed for the server.
SysFairness ==
  /\ SF_sysVars(SysTick)
  /\ \A c \in Client :
       /\ WF_sysVars(StartFailed(c))
       /\ WF_sysVars(FPGAAnswers(c) \/ FPGAGivenUp(c))
       /\ \A k \in Slot : WF_sysVars(ChainFires(c, k))
  /\ WF_sysVars(\E p \in Proc : Associate(p))
  /\ WF_sysVars(ServeReset \/ ServeStart \/ RefuseStart)
  /\ WF_sysVars(CallStart \/ StartTaken \/ Booted \/ Described
                  \/ StartBroken)
  /\ WF_sysVars(CleanExit \/ DoneReturns \/ WaitStopped \/ Exit)
  /\ \A p \in Proc :
       /\ WF_sysVars((AwaitFile(p) \/ Poll(p) \/ Rejoin(p)) /\ Outside)
       /\ SF_sysVars(Ec2Stop(p) /\ Outside)
       /\ WF_sysVars((StopAnswered(p) \/ StopFailed(p)) /\ Outside)
       /\ WF_sysVars(OrphanEnds(p) /\ Outside)
  /\ WF_sysVars((DoneRemoves \/ CmdCheck) /\ Outside)
  /\ WF_sysVars(Ec2Stopped /\ Outside)

SysFairSpec == SysSpec /\ SysFairness

-----------------------------------------------------------------------------
SysTypeOK ==
  /\ TypeOK
  /\ f1_state \in [Client -> {"stopped", "pending", "running", "closed"}]
  /\ chain \in [Client -> [Slot -> 0 .. NoChain]]
  /\ answer \in [Client -> {"none", "ip", "error"}]
  /\ queue \in Seq({ResetRequest} \cup {StartRequest(c) : c \in Client})
  /\ srv \in Busy \cup {"launch", "idle", "closing", "stopping", "draining",
                        "exited"}
  /\ srvFor \in Client
  /\ srvTimer \in 0 .. StartDelay + AwsTime + BootTime
  /\ signaled \in BOOLEAN
  /\ rested \in 0 .. AwsTime + 1

\* A page uses the instance from when the server starts it for the page, until
\* the page stops it, gives up or goes.
Uses(c) ==
  \/ f1_state[c] = "running"
  \/ f1_state[c] = "pending" /\ answer[c] = "ip"
  \/ f1_state[c] = "pending" /\ srvFor = c
       /\ srv \in {"starting", "booting", "describing"}

CutOff == inst = "running" /\ inst' = "stopping"

\* The time bomb never stops the instance under a page that uses it and goes
\* on resetting the bomb, on two conditions the code does not rule out: the
\* server, which serves nobody's resets while it starts the instance for a
\* page, has been free again for longer than a call of the bomb can take, and
\* it is not ending (fpgaServer.js 253-278, server.py 193-274).
KeptAlive ==
  [][CutOff => \/ srv \in {"closing", "stopping", "draining", "exited"}
               \/ rested <= AwsTime
               \/ \A c \in Client : ~Uses(c)]_sysVars

\* Nothing starts the instance once the server's exit has removed the time
\* bomb, neither a request that is still queued nor one being served when the
\* signal came: there would be nobody to stop it (server.py 205-208, 448-476).
StartedUnderBomb ==
  [][(inst = "stopped" /\ inst' = "running") => FileExists]_sysVars

\* A page does not wait for the instance forever: the server answers every
\* start request, also when it fails, exits or crashes, or there is no bomb.
PendingResolves ==
  \A c \in Client : f1_state[c] = "pending" ~> f1_state[c] # "pending"

\* When no page wants the instance any more, or the server is gone and with it
\* the resets, a time bomb that goes on running turns the instance off, and it
\* stays off (fpgaServer.js 264-266, ec2_time_bomb 137-138).
NobodyLeft ==
  <>[](Guarded /\ (srv = "exited" \/
                 \A c \in Client : f1_state[c] \in {"stopped", "closed"}))
    => <>[](inst # "running")

-----------------------------------------------------------------------------
(* What a comment of the server says of it and the code does not do.       *)

\* "First wait a second to be sure the time bombs reset and a bomb doesn't
\* detonate as we start the instance" (server.py 228). A second is less than
\* an aws call of the bomb may take.
NoDetonationAtStart ==
  [][CutOff => srv \notin {"booting", "describing"}]_sysVars

=============================================================================
