--------------------------- MODULE F1KeptAliveProofs ---------------------------
(***************************************************************************)
(* The proof that a page is cut off in F1System only around a start: what   *)
(* has to be true of the times for it, and the inductive invariant that     *)
(* follows the requests and the pings from one reset to the next, and the   *)
(* calls of the bomb from the server's last start on.                       *)
(***************************************************************************)
EXTENDS F1SystemProofs

-----------------------------------------------------------------------------
(* The times that are needed, and the inductive invariant.                 *)

\* A reset that comes when it should is in time for the bomb: it runs out later than
\* the next ping comes, although a detonate may have cost a second.
LongEnough == ResetTime > PingPeriod + 1

\* A request in a queue, and one that is there no more than once.
Has(q, r) == \E i \in DOMAIN q : q[i] = r
Once(q, r) == \A i, j \in DOMAIN q : q[i] = r /\ q[j] = r => i = j

\* The server has not begun to end.
Alive == srv \in Busy \cup {"launch", "idle"}

\* The server starts the instance for c.
InService(c) == srv \in Busy /\ srvFor = c

\* A page has one start request at a time, which is in the queue, in service, answered,
\* or of a page that has been left.
RequestOK(c) ==
  /\ answer[c] # "none" => f1_state[c] = "pending"
  /\ Has(queue, StartRequest(c)) =>
       f1_state[c] \in {"pending", "closed"} /\ answer[c] = "none" /\ ~ InService(c)
  /\ InService(c) => f1_state[c] \in {"pending", "closed"} /\ answer[c] = "none"
  /\ Once(queue, StartRequest(c))

\* Nothing is answered before the server has its time bomb.
LaunchOK(c) == srv = "launch" => f1_state[c] # "running" /\ answer[c] = "none"

\* A page that wants the instance has a chain of timeouts.
ChainLives(c) == Wanted(c) => \E k \in Slot : chain[c][k] # NoChain

\* The next ping of a page comes in time.
PingInTime(c) ==
  Alive /\ (InService(c) \/ Uses(c)) =>
    \A k \in Slot :
      chain[c][k] # NoChain => Has(queue, ResetRequest) \/ age + chain[c][k] <= PingPeriod + 1

\* What holds of each page.
PageInv(c) == RequestOK(c) /\ LaunchOK(c) /\ ChainLives(c) /\ PingInTime(c)
PagesInv == \A c \in Client : PageInv(c)

\* A server that is busy with a start has not rested.
RestInv == srv \in Busy => rested = 0

\* While the instance is used and the server is free, the bomb's timer runs once a second
\* has gone by, and the calls that were made before then are on their way to an end.
UseInv ==
  Alive /\ srv \notin Busy /\ (\E c \in Client : Uses(c)) =>
    /\ rested > 0 => age < ResetTime
    /\ \A p \in Proc : call[p] = "sent" => timer[p] + rested <= AwsTime

\* The inductive invariant, with what is known already.
Known == TypeOK /\ Shape /\ PagesOK /\ ServerOK /\ BombThere
KInv == Known /\ PagesInv /\ RestInv /\ UseInv

-----------------------------------------------------------------------------
(* Requests in queues.                                                     *)

\* Requests differ.
LEMMA RequestsDiffer ==
  /\ \A c : StartRequest(c) # ResetRequest
  /\ \A c, d : StartRequest(c) = StartRequest(d) => c = d
  /\ \A c : StartRequest(c).req = "start" /\ StartRequest(c).client = c
  /\ ResetRequest.req = "reset"
BY DEF StartRequest, ResetRequest

\* A request of the server's queue is one of these.
LEMMA RequestCases ==
  ASSUME NEW r \in Request
  PROVE  r = ResetRequest \/ (r.req = "start" /\ r.client \in Client /\ r = StartRequest(r.client))
BY DEF Request, StartRequest, ResetRequest

\* What is in a queue that got a request.
LEMMA HasEnqueued ==
  ASSUME NEW q \in Seq(Request), NEW r \in Request, NEW x
  PROVE  Has(Enqueue(q, r), x) <=> Has(q, x) \/ x = r
<1>1. CASE r.req = "reset" /\ q # <<>> /\ q[Len(q)] = r
  <2>1. Enqueue(q, r) = q
    BY <1>1 DEF Enqueue
  <2>2. Len(q) \in DOMAIN q
    BY <1>1
  <2>. QED
    BY <1>1, <2>1, <2>2 DEF Has
<1>2. CASE ~ (r.req = "reset" /\ q # <<>> /\ q[Len(q)] = r)
  <2>1. Enqueue(q, r) = Append(q, r)
    BY <1>2 DEF Enqueue
  <2>2. Has(Append(q, r), x) <=> Has(q, x) \/ x = r
    <3>1. /\ Len(Append(q, r)) = Len(q) + 1
          /\ \A i \in 1 .. Len(q) : Append(q, r)[i] = q[i]
          /\ Append(q, r)[Len(q) + 1] = r
          /\ DOMAIN Append(q, r) = 1 .. Len(q) + 1
          /\ DOMAIN q = 1 .. Len(q) /\ Len(q) \in Nat
      OBVIOUS
    <3>2. \A i \in 1 .. Len(q) + 1 : i \in 1 .. Len(q) \/ i = Len(q) + 1
      BY <3>1
    <3>3. 1 .. Len(q) \subseteq 1 .. Len(q) + 1 /\ Len(q) + 1 \in 1 .. Len(q) + 1
      BY <3>1
    <3>. QED
      BY <3>1, <3>2, <3>3 DEF Has
  <2>. QED
    BY <2>1, <2>2
<1>. QED
  BY <1>1, <1>2

\* A request is once in the queue if it was not there.
LEMMA OnceEnqueued ==
  ASSUME NEW q \in Seq(Request), NEW r \in Request, NEW x,
         Once(q, x), x = r => ~ Has(q, x)
  PROVE  Once(Enqueue(q, r), x)
<1>1. CASE r.req = "reset" /\ q # <<>> /\ q[Len(q)] = r
  BY <1>1 DEF Enqueue
<1>2. CASE ~ (r.req = "reset" /\ q # <<>> /\ q[Len(q)] = r)
  <2>1. Enqueue(q, r) = Append(q, r)
    BY <1>2 DEF Enqueue
  <2>2. /\ \A i \in 1 .. Len(q) : Append(q, r)[i] = q[i]
        /\ Append(q, r)[Len(q) + 1] = r
        /\ DOMAIN Append(q, r) = 1 .. Len(q) + 1
        /\ DOMAIN q = 1 .. Len(q) /\ Len(q) \in Nat
    OBVIOUS
  <2>3. \A i \in 1 .. Len(q) + 1 : i \in 1 .. Len(q) \/ i = Len(q) + 1
    BY <2>2
  <2>4. SUFFICES ASSUME NEW i \in 1 .. Len(q) + 1, NEW j \in 1 .. Len(q) + 1,
                        Append(q, r)[i] = x, Append(q, r)[j] = x
                 PROVE  i = j
    BY <2>1, <2>2 DEF Once
  <2>5. CASE x = r
    <3>1. i = Len(q) + 1 /\ j = Len(q) + 1
      BY <2>2, <2>3, <2>4, <2>5 DEF Has
    <3>. QED
      BY <3>1
  <2>6. CASE x # r
    <3>1. i \in 1 .. Len(q) /\ j \in 1 .. Len(q)
      BY <2>2, <2>3, <2>4, <2>6
    <3>. QED
      BY <2>2, <2>4, <3>1 DEF Once
  <2>. QED
    BY <2>5, <2>6
<1>. QED
  BY <1>1, <1>2

\* What is left when the first request is served.
LEMMA Served ==
  ASSUME NEW q \in Seq(Request), q # <<>>, NEW x
  PROVE  /\ Has(q, Head(q))
         /\ Has(Tail(q), x) => Has(q, x)
         /\ Has(q, x) /\ x # Head(q) => Has(Tail(q), x)
         /\ Once(q, x) => Once(Tail(q), x)
         /\ Once(q, x) /\ x = Head(q) => ~ Has(Tail(q), x)
<1>1. /\ Len(q) \in Nat /\ Len(q) > 0 /\ DOMAIN q = 1 .. Len(q)
      /\ DOMAIN Tail(q) = 1 .. Len(q) - 1
      /\ \A i \in 1 .. Len(q) - 1 : Tail(q)[i] = q[i + 1]
      /\ Head(q) = q[1]
  OBVIOUS
<1>2. /\ \A i \in 1 .. Len(q) - 1 : i + 1 \in 1 .. Len(q) /\ i + 1 # 1
      /\ \A i \in 1 .. Len(q) : i = 1 \/ (i - 1 \in 1 .. Len(q) - 1 /\ (i - 1) + 1 = i)
      /\ \A i, j \in 1 .. Len(q) - 1 : i + 1 = j + 1 => i = j
      /\ 1 \in 1 .. Len(q)
  BY <1>1
<1>3. Has(q, Head(q))
  BY <1>1, <1>2 DEF Has
<1>4. Has(Tail(q), x) => Has(q, x)
  BY <1>1, <1>2 DEF Has
<1>5. Has(q, x) /\ x # Head(q) => Has(Tail(q), x)
  <2>. SUFFICES ASSUME Has(q, x), x # Head(q) PROVE Has(Tail(q), x)
    OBVIOUS
  <2>1. PICK i \in DOMAIN q : q[i] = x
    BY DEF Has
  <2>2. i - 1 \in DOMAIN Tail(q) /\ Tail(q)[i - 1] = x
    <3>1. i \in 1 .. Len(q) /\ i # 1
      BY <1>1, <2>1
    <3>2. i - 1 \in 1 .. Len(q) - 1 /\ (i - 1) + 1 = i
      BY <1>1, <3>1
    <3>3. Tail(q)[i - 1] = q[(i - 1) + 1]
      BY <1>1, <3>2
    <3>. QED
      BY <1>1, <2>1, <3>2, <3>3
  <2>. QED
    BY <2>2 DEF Has
<1>6. Once(q, x) => Once(Tail(q), x)
  BY <1>1, <1>2 DEF Once
<1>7. Once(q, x) /\ x = Head(q) => ~ Has(Tail(q), x)
  BY <1>1, <1>2 DEF Once, Has
<1>. QED
  BY <1>3, <1>4, <1>5, <1>6, <1>7

\* Nothing is in an empty queue.
LEMMA EmptyHas == \A x : ~ Has(<<>>, x) /\ Once(<<>>, x)
BY DEF Has, Once

-----------------------------------------------------------------------------
(* Steps of the pages.                                                     *)

\* A page of which nothing changes but that resets and the requests of others come into
\* the queue.
LEMMA SamePage ==
  ASSUME NEW c \in Client, PageInv(c),
         f1_state'[c] = f1_state[c], answer'[c] = answer[c], chain'[c] = chain[c],
         UNCHANGED <<srv, srvFor, age>>,
         Has(queue', StartRequest(c)) <=> Has(queue, StartRequest(c)),
         Once(queue', StartRequest(c)),
         Has(queue, ResetRequest) => Has(queue', ResetRequest)
  PROVE  PageInv(c)'
<1>1. RequestOK(c)'
  BY DEF PageInv, RequestOK, InService
<1>2. LaunchOK(c)' /\ ChainLives(c)'
  BY DEF PageInv, LaunchOK, ChainLives, Wanted
<1>3. PingInTime(c)'
  BY DEF PageInv, PingInTime, Alive, InService, Uses
<1>. QED
  BY <1>1, <1>2, <1>3 DEF PageInv

\* What a page's step leaves alone.
LEMMA PageFrame ==
  ASSUME NEW d \in Client, Page(d)
  PROVE  UNCHANGED <<srv, srvFor, srvTimer, age, timer, call, inst, rested>>
BY DEF Page, Submit, StartFailed, FPGAAnswers, FPGAGivenUp, StopButton, Close, ChainFires,
       serverVars, vars, bombVars

\* A start request is submitted.
LEMMA SubmitKeeps ==
  ASSUME Known, PagesInv, NEW d \in Client, Submit(d)
  PROVE  PagesInv' /\ \A c \in Client : Uses(c)' => Uses(c)
<1>0. UNCHANGED <<srv, srvFor, age>>
  BY PageFrame DEF Page
<1>1. PageInv(d) /\ f1_state[d] = "stopped"
  BY DEF PagesInv, Submit
<1>2. answer[d] = "none" /\ ~ Has(queue, StartRequest(d)) /\ ~ InService(d)
      /\ Once(queue, StartRequest(d))
  BY <1>1 DEF PageInv, RequestOK, Known, PagesOK
<1>3. f1_state' = [f1_state EXCEPT ![d] = "pending"]
  BY DEF Submit
<1>4. f1_state'[d] = "pending" /\ \A c \in Client \ {d} : f1_state'[c] = f1_state[c]
  BY <1>3 DEF Known, PagesOK
<1>5. PICK k \in Slot : chain' = [chain EXCEPT ![d][k] = PingPeriod]
  BY DEF Submit, BeginEC2TimeBomb
<1>6. chain'[d][k] = PingPeriod /\ \A c \in Client \ {d} : chain'[c] = chain[c]
  BY <1>5 DEF Known, PagesOK
<1>7. StartRequest(d) \in Request /\ queue \in Seq(Request)
  BY DEF Request, Known, ServerOK
<1>8. CASE srv = "exited"
  <2>1. answer' = [answer EXCEPT ![d] = "error"] /\ queue' = queue
    BY <1>8 DEF Submit
  <2>2. answer'[d] = "error" /\ \A c \in Client \ {d} : answer'[c] = answer[c]
    BY <2>1 DEF Known, PagesOK
  <2>3. ASSUME NEW c \in Client \ {d} PROVE PageInv(c)'
    <3>1. PageInv(c) /\ Once(queue', StartRequest(c))
      BY <2>1, <2>3 DEF PagesInv, PageInv, RequestOK
    <3>. QED
      BY <1>0, <1>4, <1>6, <2>1, <2>2, <3>1, SamePage
  <2>4. RequestOK(d)'
    BY <1>0, <1>2, <1>4, <2>1, <2>2 DEF RequestOK, InService
  <2>5. LaunchOK(d)' /\ PingInTime(d)'
    BY <1>0, <1>8 DEF LaunchOK, PingInTime, Alive, Busy
  <2>6. ChainLives(d)'
    BY <1>6, SystemConstants DEF ChainLives, NoChain
  <2>7. \A c \in Client : Uses(c)' => Uses(c)
    BY <1>0, <1>4, <1>8, <2>2 DEF Uses
  <2>. QED
    BY <2>3, <2>4, <2>5, <2>6, <2>7 DEF PagesInv, PageInv
<1>9. CASE srv # "exited"
  <2>1. answer' = answer /\ queue' = Enqueue(queue, StartRequest(d))
    BY <1>9 DEF Submit
  <2>2. ASSUME NEW c \in Client \ {d} PROVE PageInv(c)'
    <3>1. PageInv(c) /\ Once(queue, StartRequest(c))
      BY DEF PagesInv, PageInv, RequestOK
    <3>2. StartRequest(c) # StartRequest(d)
      BY <2>2, RequestsDiffer
    <3>3. /\ Has(queue', StartRequest(c)) <=> Has(queue, StartRequest(c))
          /\ Has(queue, ResetRequest) => Has(queue', ResetRequest)
      BY <1>7, <2>1, <3>2, HasEnqueued
    <3>4. Once(queue', StartRequest(c))
      BY <1>7, <2>1, <3>1, <3>2, OnceEnqueued
    <3>. QED
      BY <1>0, <1>4, <1>6, <2>1, <3>1, <3>3, <3>4, SamePage
  <2>3. RequestOK(d)'
    <3>1. Once(queue', StartRequest(d))
      BY <1>2, <1>7, <2>1, OnceEnqueued
    <3>. QED
      BY <1>0, <1>2, <1>4, <2>1, <3>1 DEF RequestOK, InService
  <2>4. LaunchOK(d)'
    BY <1>0, <1>2, <1>4, <2>1 DEF LaunchOK
  <2>5. ~ InService(d)' /\ ~ Uses(d)'
    BY <1>0, <1>2, <1>4, <2>1 DEF InService, Uses, Busy
  <2>6. PingInTime(d)'
    BY <2>5 DEF PingInTime
  <2>7. ChainLives(d)'
    BY <1>6, SystemConstants DEF ChainLives, NoChain
  <2>8. \A c \in Client : Uses(c)' => Uses(c)
    BY <1>0, <1>4, <2>1, <2>5 DEF Uses
  <2>. QED
    BY <2>2, <2>3, <2>4, <2>6, <2>7, <2>8 DEF PagesInv, PageInv
<1>. QED
  BY <1>8, <1>9

\* A timeout fires.
LEMMA ChainFiresKeeps ==
  ASSUME Known, PagesInv, NEW d \in Client, NEW k \in Slot, ChainFires(d, k)
  PROVE  PagesInv' /\ \A c \in Client : Uses(c)' => Uses(c)
<1>0. UNCHANGED <<srv, srvFor, age, f1_state, answer>>
  BY DEF ChainFires, vars
<1>1. ResetRequest \in Request /\ queue \in Seq(Request)
  BY DEF Request, Known, ServerOK
<1>2. queue' = queue \/ queue' = Enqueue(queue, ResetRequest)
  BY DEF ChainFires
<1>3. \A c \in Client : Has(queue', StartRequest(c)) <=> Has(queue, StartRequest(c))
  BY <1>1, <1>2, HasEnqueued, RequestsDiffer
<1>4. \A c \in Client : Once(queue', StartRequest(c))
  <2>1. \A c \in Client : Once(queue, StartRequest(c))
    BY DEF PagesInv, PageInv, RequestOK
  <2>. QED
    BY <1>1, <1>2, <2>1, OnceEnqueued, RequestsDiffer
<1>5. Has(queue, ResetRequest) => Has(queue', ResetRequest)
  BY <1>1, <1>2, HasEnqueued
<1>6. \A c \in Client \ {d} : chain'[c] = chain[c]
  BY DEF ChainFires, Known, PagesOK
<1>7. ASSUME NEW c \in Client \ {d} PROVE PageInv(c)'
  BY <1>0, <1>3, <1>4, <1>5, <1>6, SamePage DEF PagesInv
<1>8. PageInv(d)
  BY DEF PagesInv
<1>9. RequestOK(d)' /\ LaunchOK(d)'
  BY <1>0, <1>3, <1>4, <1>8 DEF PageInv, RequestOK, LaunchOK, InService
<1>10. CASE Wanted(d)
  <2>1. chain' = [chain EXCEPT ![d][k] = PingPeriod]
    BY <1>10 DEF ChainFires
  <2>2. chain'[d][k] = PingPeriod /\ \A j \in Slot \ {k} : chain'[d][j] = chain[d][j]
    BY <2>1 DEF Known, PagesOK
  <2>3. ChainLives(d)'
    BY <2>2, SystemConstants DEF ChainLives, NoChain
  <2>4. PingInTime(d)'
    <3>1. CASE srv = "exited"
      BY <1>0, <3>1 DEF PingInTime, Alive, Busy
    <3>2. CASE srv # "exited"
      <4>1. Has(queue', ResetRequest)
        BY <1>1, <1>10, <3>2, HasEnqueued DEF ChainFires
      <4>. QED
        BY <4>1 DEF PingInTime
    <3>. QED
      BY <3>1, <3>2
  <2>. QED
    BY <1>0, <1>7, <1>9, <2>3, <2>4 DEF PagesInv, PageInv, Uses
<1>11. CASE ~ Wanted(d)
  <2>1. chain' = [chain EXCEPT ![d][k] = NoChain]
    BY <1>11 DEF ChainFires
  <2>2. chain'[d][k] = NoChain /\ \A j \in Slot \ {k} : chain'[d][j] = chain[d][j]
    BY <2>1 DEF Known, PagesOK
  <2>3. ChainLives(d)'
    BY <1>0, <1>11 DEF ChainLives, Wanted
  <2>4. PingInTime(d)'
    BY <1>0, <1>5, <1>8, <2>2 DEF PageInv, PingInTime, Alive, InService, Uses
  <2>. QED
    BY <1>0, <1>7, <1>9, <2>3, <2>4 DEF PagesInv, PageInv, Uses
<1>. QED
  BY <1>10, <1>11

\* A page is answered, stops the instance or is left.
LEMMA PageEventKeeps ==
  ASSUME Known, PagesInv, NEW d \in Client,
         \/ StartFailed(d) \/ FPGAAnswers(d) \/ FPGAGivenUp(d) \/ StopButton(d) \/ Close(d)
  PROVE  PagesInv' /\ \A c \in Client : Uses(c)' => Uses(c)
<1>0. UNCHANGED <<srv, srvFor, age, queue>>
  BY DEF StartFailed, FPGAAnswers, FPGAGivenUp, StopButton, Close, serverVars, vars
<1>1. \A c \in Client \ {d} :
        f1_state'[c] = f1_state[c] /\ answer'[c] = answer[c] /\ chain'[c] = chain[c]
  BY DEF StartFailed, FPGAAnswers, FPGAGivenUp, StopButton, Close, Known, PagesOK
<1>2. PageInv(d) /\ RequestOK(d) /\ Once(queue, StartRequest(d))
  BY DEF PagesInv, PageInv, RequestOK
<1>3. ASSUME NEW c \in Client \ {d} PROVE PageInv(c)' /\ (Uses(c)' => Uses(c))
  <2>1. PageInv(c) /\ Once(queue', StartRequest(c))
    BY <1>0 DEF PagesInv, PageInv, RequestOK
  <2>2. PageInv(c)'
    BY <1>0, <1>1, <2>1, SamePage
  <2>. QED
    BY <1>0, <1>1, <2>2 DEF Uses
<1>4. CASE Close(d)
  <2>1. f1_state'[d] = "closed" /\ answer'[d] = "none"
        /\ \A k \in Slot : chain'[d][k] = NoChain
    BY <1>4 DEF Close, Known, PagesOK
  <2>2. RequestOK(d)'
    BY <1>0, <1>2, <2>1 DEF RequestOK, InService
  <2>3. LaunchOK(d)' /\ ChainLives(d)' /\ PingInTime(d)' /\ ~ Uses(d)'
    BY <2>1 DEF LaunchOK, ChainLives, PingInTime, Wanted, Uses
  <2>. QED
    BY <1>3, <2>2, <2>3 DEF PagesInv, PageInv
<1>5. CASE ~ Close(d)
  <2>1. chain' = chain /\ answer'[d] = "none"
    <3>1. CASE StopButton(d)
      BY <1>2, <3>1 DEF StopButton, RequestOK, Known, PagesOK
    <3>. QED
      BY <1>5, <3>1 DEF StartFailed, FPGAAnswers, FPGAGivenUp, Known, PagesOK
  <2>2. f1_state[d] \in {"pending", "running"} /\ ~ Has(queue, StartRequest(d)) /\ ~ InService(d)
    BY <1>2, <1>5 DEF StartFailed, FPGAAnswers, FPGAGivenUp, StopButton, RequestOK
  <2>3. /\ f1_state'[d] \in {"stopped", "running"}
        /\ f1_state'[d] = "running" => f1_state[d] = "pending" /\ answer[d] = "ip"
    BY <1>2, <1>5 DEF StartFailed, FPGAAnswers, FPGAGivenUp, StopButton, RequestOK, Known,
                      PagesOK
  <2>4. RequestOK(d)'
    BY <1>0, <1>2, <2>1, <2>2 DEF RequestOK, InService
  <2>5. LaunchOK(d)'
    BY <1>0, <1>2, <2>1, <2>3 DEF PageInv, LaunchOK
  <2>6. ChainLives(d)'
    BY <1>2, <2>1, <2>2 DEF PageInv, ChainLives, Wanted
  <2>7. Uses(d)' => Uses(d)
    BY <1>0, <2>1, <2>3 DEF Uses
  <2>8. ~ InService(d)'
    BY <1>0, <2>2 DEF InService
  <2>9. PingInTime(d)'
    BY <1>0, <1>2, <2>1, <2>7, <2>8 DEF PageInv, PingInTime, Alive
  <2>. QED
    BY <1>3, <2>4, <2>5, <2>6, <2>7, <2>9 DEF PagesInv, PageInv
<1>. QED
  BY <1>4, <1>5

\* Whatever a page does.
LEMMA PageKeeps ==
  ASSUME KInv, NEW d \in Client, Page(d)
  PROVE  PagesInv' /\ RestInv' /\ UseInv'
<1>1. PagesInv' /\ \A c \in Client : Uses(c)' => Uses(c)
  BY SubmitKeeps, ChainFiresKeeps, PageEventKeeps DEF Page, KInv
<1>2. UNCHANGED <<srv, srvFor, srvTimer, age, timer, call, inst, rested>>
  BY PageFrame
<1>3. RestInv'
  BY <1>2 DEF KInv, RestInv
<1>4. UseInv'
  BY <1>1, <1>2 DEF KInv, UseInv, Alive
<1>. QED
  BY <1>1, <1>3, <1>4

-----------------------------------------------------------------------------
(* Steps of the server.                                                    *)

\* The server's time bomb is created. No page has been served yet.
LEMMA AssociateKeeps ==
  ASSUME KInv, NEW p \in Proc, Associate(p)
  PROVE  PagesInv' /\ RestInv' /\ UseInv'
<1>1. srv = "launch" /\ srv' \in {"launch", "idle"}
      /\ UNCHANGED <<f1_state, chain, answer, queue, srvFor>>
  BY DEF Associate, clientVars
<1>2. \A c \in Client : PageInv(c) /\ f1_state[c] # "running" /\ answer[c] = "none"
  BY <1>1 DEF KInv, PagesInv, PageInv, LaunchOK
<1>3. \A c \in Client : ~ InService(c)' /\ ~ InService(c) /\ ~ Uses(c)'
  BY <1>1, <1>2 DEF InService, Uses, Busy
<1>4. ASSUME NEW c \in Client PROVE PageInv(c)'
  <2>1. RequestOK(c)'
    BY <1>1, <1>2, <1>3 DEF PageInv, RequestOK
  <2>2. LaunchOK(c)' /\ ChainLives(c)'
    BY <1>1, <1>2 DEF PageInv, LaunchOK, ChainLives, Wanted
  <2>3. PingInTime(c)'
    BY <1>3 DEF PingInTime
  <2>. QED
    BY <2>1, <2>2, <2>3 DEF PageInv
<1>5. RestInv'
  BY <1>1 DEF RestInv, Busy
<1>6. UseInv'
  BY <1>3 DEF UseInv
<1>. QED
  BY <1>4, <1>5, <1>6 DEF PagesInv

\* What is served when the server is free.
LEMMA HeadServed ==
  ASSUME Known, PagesInv, Serving, queue' = Tail(queue)
  PROVE  /\ queue \in Seq(Request) /\ queue # <<>> /\ Head(queue) \in Request
         /\ \A c \in Client :
              /\ Has(queue', StartRequest(c)) => Has(queue, StartRequest(c))
              /\ Once(queue', StartRequest(c))
              /\ Head(queue) = StartRequest(c) =>
                    /\ Has(queue, StartRequest(c))
                    /\ ~ Has(queue', StartRequest(c))
         /\ Has(queue, ResetRequest) /\ Head(queue) # ResetRequest => Has(queue', ResetRequest)
         /\ \A c \in Client : ~ InService(c)
<1>1. queue \in Seq(Request) /\ queue # <<>>
  BY DEF Known, ServerOK, Serving
<1>2. Head(queue) \in Request
  BY <1>1
<1>3. \A c \in Client : Once(queue, StartRequest(c))
  BY DEF PagesInv, PageInv, RequestOK
<1>4. ASSUME NEW c \in Client
      PROVE  /\ Has(queue', StartRequest(c)) => Has(queue, StartRequest(c))
             /\ Once(queue', StartRequest(c))
             /\ Head(queue) = StartRequest(c) =>
                   Has(queue, StartRequest(c)) /\ ~ Has(queue', StartRequest(c))
  BY <1>1, <1>3, Served
<1>5. Has(queue, ResetRequest) /\ Head(queue) # ResetRequest => Has(queue', ResetRequest)
  BY <1>1, Served
<1>6. \A c \in Client : ~ InService(c)
  BY DEF InService, Serving, Busy
<1>. QED
  BY <1>1, <1>2, <1>4, <1>5, <1>6

\* After a reset every ping is in time.
LEMMA FreshPing ==
  ASSUME PagesOK', age' \in {0, 1}, NEW c \in Client
  PROVE  PingInTime(c)'
<1>1. ASSUME NEW k \in Slot, chain'[c][k] # NoChain
      PROVE  age' + chain'[c][k] <= PingPeriod + 1
  <2>1. chain'[c][k] \in 0 .. NoChain
    BY DEF PagesOK
  <2>. QED
    BY <1>1, <2>1, SystemConstants DEF NoChain
<1>. QED
  BY <1>1 DEF PingInTime

\* A server that has not rested since a start promises nothing of the file's age, and of
\* calls only that they do not take longer than calls can.
LEMMA UnrestedUse ==
  ASSUME Known', rested' = 0
  PROVE  UseInv'
<1>1. ASSUME NEW p \in Proc, call'[p] = "sent" PROVE timer'[p] + rested' <= AwsTime
  <2>1. timer'[p] \in Nat /\ timer'[p] <= AwsTime
    BY <1>1 DEF Known, TypeOK, Shape, TimersBounded
  <2>. QED
    BY <2>1
<1>. QED
  BY <1>1 DEF UseInv

\* A reset is served.
LEMMA ServeResetKeeps ==
  ASSUME KInv, Known', ServeReset
  PROVE  PagesInv' /\ RestInv' /\ UseInv'
<1>1. /\ UNCHANGED <<f1_state, chain, answer, srv, srvFor, call, rested>>
      /\ srv \in {"idle", "draining"}
  BY DEF ServeReset, Serving, TouchIfThere, Reset, Touch, clientVars, vars, bombVars
<1>2. srv = "idle" => age' = 0 /\ timer' = Woken
  BY DEF KInv, Known, BombThere, ServeReset, TouchIfThere, Reset, Touch, Busy
<1>3. \A c \in Client :
        /\ Has(queue', StartRequest(c)) => Has(queue, StartRequest(c))
        /\ Once(queue', StartRequest(c))
        /\ PageInv(c)
  BY HeadServed DEF ServeReset, KInv, PagesInv
<1>4. ASSUME NEW c \in Client PROVE PageInv(c)'
  <2>1. RequestOK(c)'
    BY <1>1, <1>3 DEF PageInv, RequestOK, InService
  <2>2. LaunchOK(c)' /\ ChainLives(c)'
    BY <1>1, <1>3 DEF PageInv, LaunchOK, ChainLives, Wanted
  <2>3. PingInTime(c)'
    <3>1. CASE srv = "idle"
      BY <1>2, <3>1, FreshPing DEF Known
    <3>2. CASE srv = "draining"
      BY <1>1, <3>2 DEF PingInTime, Alive, Busy
    <3>. QED
      BY <1>1, <3>1, <3>2
  <2>. QED
    BY <2>1, <2>2, <2>3 DEF PageInv
<1>5. RestInv'
  BY <1>1 DEF KInv, RestInv
<1>6. UseInv'
  <2>1. CASE srv = "draining"
    BY <1>1, <2>1 DEF UseInv, Alive, Busy
  <2>2. CASE srv = "idle"
    <3>1. \A c \in Client : Uses(c)' <=> Uses(c)
      BY <1>1 DEF Uses
    <3>2. SUFFICES ASSUME \E c \in Client : Uses(c), NEW p \in Proc, call[p] = "sent"
                   PROVE  timer'[p] + rested <= AwsTime
      <4>1. age' < ResetTime
        BY <1>2, <2>2, ConstantsAssumption
      <4>. QED
        BY <1>1, <3>1, <4>1 DEF UseInv
    <3>3. timer[p] + rested <= AwsTime /\ timer[p] \in Nat /\ rested \in Nat
      <4>1. timer[p] + rested <= AwsTime
        BY <2>2, <3>2 DEF KInv, UseInv, Alive, Busy
      <4>. QED
        BY <4>1, SystemConstants DEF KInv, Known, TypeOK, ServerOK
    <3>4. timer'[p] \in {0, timer[p]}
      BY <1>2, <2>2 DEF Woken
    <3>. QED
      BY <3>3, <3>4, ConstantsAssumption
  <2>. QED
    BY <1>1, <2>1, <2>2
<1>. QED
  BY <1>4, <1>5, <1>6 DEF PagesInv

\* A start request is served: from now on the reset at its beginning counts.
LEMMA ServeStartKeeps ==
  ASSUME KInv, Known', ServeStart
  PROVE  PagesInv' /\ RestInv' /\ UseInv'
<1>1. /\ UNCHANGED <<f1_state, chain, answer, call>>
      /\ srv = "idle" /\ srv' = "sleep"
      /\ age' = 0 /\ rested' = 0
  <2>1. FileExists /\ srv = "idle"
    BY DEF KInv, Known, BombThere, ServeStart, Serving, BombRuns, Busy
  <2>. QED
    BY <2>1 DEF ServeStart, TouchIfThere, Reset, Touch, clientVars, bombVars
<1>2. Head(queue) \in Request /\ Head(queue).req = "start" /\ srvFor' = Head(queue).client
  BY HeadServed DEF ServeStart, KInv
<1>3. srvFor' \in Client /\ Head(queue) = StartRequest(srvFor')
  BY <1>2, RequestCases, RequestsDiffer
<1>4. \A c \in Client :
        /\ Has(queue', StartRequest(c)) => Has(queue, StartRequest(c))
        /\ Once(queue', StartRequest(c))
        /\ Head(queue) = StartRequest(c) =>
              Has(queue, StartRequest(c)) /\ ~ Has(queue', StartRequest(c))
        /\ PageInv(c)
  BY HeadServed DEF ServeStart, KInv, PagesInv
<1>5. ASSUME NEW c \in Client PROVE PageInv(c)'
  <2>1. RequestOK(c)'
    <3>1. CASE c = srvFor'
      <4>1. Has(queue, StartRequest(c)) /\ ~ Has(queue', StartRequest(c))
        BY <1>3, <1>4, <3>1
      <4>2. f1_state[c] \in {"pending", "closed"} /\ answer[c] = "none"
        BY <1>4, <4>1 DEF PageInv, RequestOK
      <4>. QED
        BY <1>1, <1>4, <4>1, <4>2 DEF RequestOK
    <3>2. CASE c # srvFor'
      BY <1>1, <1>4, <3>2 DEF PageInv, RequestOK, InService, Busy
    <3>. QED
      BY <3>1, <3>2
  <2>2. LaunchOK(c)' /\ ChainLives(c)'
    BY <1>1, <1>4 DEF PageInv, LaunchOK, ChainLives, Wanted
  <2>3. PingInTime(c)'
    BY <1>1, FreshPing DEF Known
  <2>. QED
    BY <2>1, <2>2, <2>3 DEF PageInv
<1>6. RestInv' /\ UseInv'
  BY <1>1, UnrestedUse DEF RestInv
<1>. QED
  BY <1>5, <1>6 DEF PagesInv

\* A start request is refused.
LEMMA RefuseStartKeeps ==
  ASSUME KInv, RefuseStart
  PROVE  PagesInv' /\ RestInv' /\ UseInv'
<1>. DEFINE d == Head(queue).client
<1>1. /\ UNCHANGED <<f1_state, chain, srv, srvFor, age, timer, call, rested>>
      /\ srv \in {"idle", "draining"}
  BY DEF RefuseStart, Serving, vars, bombVars
<1>2. Head(queue) \in Request /\ Head(queue).req = "start"
  BY HeadServed DEF RefuseStart, KInv
<1>3. d \in Client /\ Head(queue) = StartRequest(d) /\ Head(queue) # ResetRequest
  BY <1>2, RequestCases, RequestsDiffer
<1>4. \A c \in Client :
        /\ Has(queue', StartRequest(c)) => Has(queue, StartRequest(c))
        /\ Once(queue', StartRequest(c))
        /\ Head(queue) = StartRequest(c) =>
              Has(queue, StartRequest(c)) /\ ~ Has(queue', StartRequest(c))
        /\ PageInv(c)
  BY HeadServed DEF RefuseStart, KInv, PagesInv
<1>5. Has(queue, ResetRequest) => Has(queue', ResetRequest)
  BY <1>3, HeadServed DEF RefuseStart, KInv
<1>6. /\ \A c \in Client \ {d} : answer'[c] = answer[c]
      /\ answer'[d] = IF f1_state[d] = "closed" THEN answer[d] ELSE "error"
  BY <1>3 DEF RefuseStart, Reply, KInv, Known, PagesOK
<1>7. f1_state[d] \in {"pending", "closed"} /\ answer[d] = "none" /\ ~ Has(queue', StartRequest(d))
  BY <1>3, <1>4 DEF PageInv, RequestOK
<1>. HIDE DEF d
<1>8. \A c \in Client : ~ InService(c)' /\ (Uses(c)' => Uses(c))
  BY <1>1, <1>3, <1>6, <1>7 DEF InService, Uses, Busy
<1>9. ASSUME NEW c \in Client PROVE PageInv(c)'
  <2>1. RequestOK(c)'
    <3>1. CASE c = d
      BY <1>1, <1>4, <1>6, <1>7, <1>8, <3>1 DEF RequestOK
    <3>2. CASE c # d
      BY <1>1, <1>4, <1>6, <1>8, <3>2 DEF PageInv, RequestOK, InService
    <3>. QED
      BY <3>1, <3>2
  <2>2. LaunchOK(c)' /\ ChainLives(c)'
    BY <1>1, <1>4 DEF PageInv, LaunchOK, ChainLives, Wanted
  <2>3. PingInTime(c)'
    BY <1>1, <1>4, <1>5, <1>8 DEF PageInv, PingInTime, Alive
  <2>. QED
    BY <2>1, <2>2, <2>3 DEF PageInv
<1>10. RestInv'
  BY <1>1 DEF KInv, RestInv
<1>11. UseInv'
  BY <1>1, <1>8 DEF KInv, UseInv, Alive
<1>. QED
  BY <1>9, <1>10, <1>11 DEF PagesInv

\* The server goes on with a start.
LEMMA BusyKeeps ==
  ASSUME KInv, Known', CallStart \/ StartTaken \/ Booted
  PROVE  PagesInv' /\ RestInv' /\ UseInv'
<1>1. /\ UNCHANGED <<f1_state, chain, answer, queue, srvFor, age, rested>>
      /\ srv \in {"sleep", "starting", "booting"}
      /\ srv' \in {"starting", "booting", "describing"}
  BY DEF CallStart, StartTaken, Booted, Start, clientVars, vars
<1>2. rested' = 0
  BY <1>1 DEF KInv, RestInv, Busy
<1>3. \A c \in Client :
        /\ PageInv(c) /\ (InService(c)' <=> InService(c))
        /\ Uses(c)' => Uses(c) \/ InService(c)
  BY <1>1 DEF KInv, PagesInv, InService, Uses, Busy
<1>4. ASSUME NEW c \in Client PROVE PageInv(c)'
  <2>1. RequestOK(c)' /\ LaunchOK(c)' /\ ChainLives(c)'
    BY <1>1, <1>3 DEF PageInv, RequestOK, LaunchOK, ChainLives, Wanted
  <2>2. PingInTime(c)'
    BY <1>1, <1>3 DEF PageInv, PingInTime, Alive, Busy
  <2>. QED
    BY <2>1, <2>2 DEF PageInv
<1>. QED
  BY <1>2, <1>4, UnrestedUse DEF PagesInv, RestInv

\* The server answers and is free again.
LEMMA AnsweredKeeps ==
  ASSUME KInv, Known', Described \/ StartBroken
  PROVE  PagesInv' /\ RestInv' /\ UseInv'
<1>1. /\ UNCHANGED <<f1_state, chain, queue, srvFor, rested>>
      /\ srv \in {"starting", "booting", "describing"} /\ srv' = "idle"
      /\ age' = age \/ age' = 1
  BY DEF Described, StartBroken, TouchIfThere, Detonate, Touch, vars
<1>2. srvFor \in Client
  BY DEF KInv, Known, ServerOK
<1>3. /\ \A c \in Client \ {srvFor} : answer'[c] = answer[c]
      /\ f1_state[srvFor] = "closed" => answer'[srvFor] = answer[srvFor]
  BY <1>2 DEF Described, StartBroken, Reply, KInv, Known, PagesOK
<1>4. PageInv(srvFor) /\ InService(srvFor)
  BY <1>1, <1>2 DEF KInv, PagesInv, InService, Busy
<1>5. /\ f1_state[srvFor] \in {"pending", "closed"} /\ answer[srvFor] = "none"
      /\ ~ Has(queue, StartRequest(srvFor))
  BY <1>4 DEF PageInv, RequestOK
<1>6. \A c \in Client : ~ InService(c)' /\ (Uses(c)' => Uses(c))
  BY <1>1, <1>2, <1>3, <1>5 DEF InService, Uses, Busy
<1>7. ASSUME NEW c \in Client PROVE PageInv(c)'
  <2>0. PageInv(c)
    BY DEF KInv, PagesInv
  <2>1. RequestOK(c)'
    <3>1. CASE c = srvFor
      BY <1>1, <1>3, <1>5, <1>6, <2>0, <3>1 DEF PageInv, RequestOK
    <3>2. CASE c # srvFor
      BY <1>1, <1>3, <1>6, <2>0, <3>2 DEF PageInv, RequestOK, InService
    <3>. QED
      BY <3>1, <3>2
  <2>2. LaunchOK(c)' /\ ChainLives(c)'
    BY <1>1, <2>0 DEF PageInv, LaunchOK, ChainLives, Wanted
  <2>3. PingInTime(c)'
    <3>1. CASE age' = 1
      BY <3>1, FreshPing DEF Known
    <3>2. CASE age' = age
      BY <1>1, <1>6, <2>0, <3>2 DEF PageInv, PingInTime, Alive, Busy
    <3>. QED
      BY <1>1, <3>1, <3>2
  <2>. QED
    BY <2>1, <2>2, <2>3 DEF PageInv
<1>8. RestInv' /\ UseInv'
  <2>1. rested' = 0
    BY <1>1 DEF KInv, RestInv, Busy
  <2>. QED
    BY <2>1, UnrestedUse DEF RestInv
<1>. QED
  BY <1>7, <1>8 DEF PagesInv

\* A signal comes.
LEMMA SignalKeeps ==
  ASSUME KInv, Signal
  PROVE  PagesInv' /\ RestInv' /\ UseInv'
<1>1. UNCHANGED <<f1_state, chain, answer, queue, srv, srvFor, age, timer, call, rested>>
  BY DEF Signal, clientVars, vars, bombVars
<1>2. \A c \in Client :
        PageInv(c) /\ (InService(c)' <=> InService(c)) /\ (Uses(c)' <=> Uses(c))
  BY <1>1 DEF KInv, PagesInv, InService, Uses
<1>3. \A c \in Client : PageInv(c)'
  BY <1>1, <1>2 DEF PageInv, RequestOK, LaunchOK, ChainLives, Wanted, PingInTime, Alive
<1>4. RestInv' /\ UseInv'
  BY <1>1, <1>2 DEF KInv, RestInv, UseInv, Alive
<1>. QED
  BY <1>3, <1>4 DEF PagesInv

\* The server ends: what remains is that of each request.
LEMMA EndingKeeps ==
  ASSUME KInv, CleanExit \/ DoneReturns \/ WaitStopped
  PROVE  PagesInv' /\ RestInv' /\ UseInv'
<1>1. /\ UNCHANGED <<f1_state, chain, answer, queue, srvFor>>
      /\ srv \in {"idle", "closing", "stopping"}
      /\ srv' \in {"closing", "stopping", "draining"}
  BY DEF CleanExit, DoneReturns, WaitStopped, clientVars
<1>2. ~ Alive'
  BY <1>1 DEF Alive, Busy
<1>3. \A c \in Client : PageInv(c) /\ ~ InService(c)'
  BY <1>1 DEF KInv, PagesInv, InService, Busy
<1>4. \A c \in Client : PageInv(c)'
  BY <1>1, <1>2, <1>3 DEF PageInv, RequestOK, LaunchOK, ChainLives, Wanted, PingInTime
<1>5. RestInv' /\ UseInv'
  BY <1>1, <1>2 DEF RestInv, UseInv, Busy
<1>. QED
  BY <1>4, <1>5 DEF PagesInv

\* The process ends, and what it has not answered fails.
LEMMA EndKeeps ==
  ASSUME KInv, End
  PROVE  PagesInv' /\ RestInv' /\ UseInv'
<1>1. /\ UNCHANGED <<f1_state, chain, srvFor>> /\ srv' = "exited" /\ queue' = <<>>
      /\ \A c \in Client : answer'[c] = IF c \in Unanswered /\ f1_state[c] # "closed"
                                         THEN "error" ELSE answer[c]
  BY DEF End
<1>2. ~ Alive'
  BY <1>1 DEF Alive, Busy
<1>3. ASSUME NEW c \in Client PROVE PageInv(c)'
  <2>1. PageInv(c)
    BY DEF KInv, PagesInv
  <2>2. c \in Unanswered => f1_state[c] \in {"pending", "closed"}
    BY <2>1 DEF Unanswered, PageInv, RequestOK, Has, InService
  <2>3. RequestOK(c)'
    BY <1>1, <2>1, <2>2, EmptyHas DEF PageInv, RequestOK, InService, Busy
  <2>4. LaunchOK(c)' /\ ChainLives(c)' /\ PingInTime(c)'
    BY <1>1, <1>2, <2>1 DEF PageInv, LaunchOK, ChainLives, Wanted, PingInTime
  <2>. QED
    BY <2>3, <2>4 DEF PageInv
<1>4. RestInv' /\ UseInv'
  BY <1>1, <1>2 DEF RestInv, UseInv, Busy
<1>. QED
  BY <1>3, <1>4 DEF PagesInv

\* Whatever the server does.
LEMMA ServerKeeps ==
  ASSUME KInv, Known', Server
  PROVE  PagesInv' /\ RestInv' /\ UseInv'
<1>1. CASE Exit \/ Crash
  BY <1>1, EndKeeps DEF Exit, Crash
<1>2. CASE ~ (Exit \/ Crash)
  BY <1>2, AssociateKeeps, ServeResetKeeps, ServeStartKeeps, RefuseStartKeeps, BusyKeeps,
     AnsweredKeeps, SignalKeeps, EndingKeeps DEF Server
<1>. QED
  BY <1>1, <1>2

-----------------------------------------------------------------------------
(* Steps of the time bomb and of the clock.                                *)

\* What the bomb does while its file is there: it makes no new call while the timer
\* runs, and no call gets more time.
LEMMA OutsideFrame ==
  ASSUME Known, Outside
  PROVE  /\ UNCHANGED <<f1_state, chain, answer, queue, srv, srvFor, srvTimer, rested>>
         /\ Alive /\ FileExists =>
              /\ age' = age
              /\ age < ResetTime =>
                   \A p \in Proc : call'[p] = "sent" => call[p] = "sent" /\ timer'[p] = timer[p]
<1>1. UNCHANGED <<f1_state, chain, answer, queue, srv, srvFor, srvTimer, rested>>
  BY DEF Outside, clientVars, serverVars
<1>. SUFFICES ASSUME Alive, FileExists
              PROVE  /\ age' = age
                     /\ age < ResetTime =>
                          \A p \in Proc :
                            call'[p] = "sent" => call[p] = "sent" /\ timer'[p] = timer[p]
  BY <1>1
<1>2. cmdAt = "idle"
  BY DEF Known, BombThere, Alive, Busy
<1>3. CASE DoneRemoves \/ CmdCheck \/ (srv = "exited" /\ CmdReturn)
  BY <1>2, <1>3 DEF DoneRemoves, CmdCheck, Alive, Busy
<1>4. CASE Ec2Stopped
  BY <1>4 DEF Ec2Stopped, bombVars
<1>5. ASSUME NEW q \in Proc, BombStep(q)
      PROVE  /\ age' = age
             /\ age < ResetTime =>
                  \A p \in Proc :
                    call'[p] = "sent" => call[p] = "sent" /\ timer'[p] = timer[p]
  <2>1. age' = age
    BY <1>5 DEF BombStep, AwaitFile, Poll, StopAnswered, DetonateAction, CmdRg, StopFailed,
                Rejoin, Kill, Ec2Stop, OrphanEnds, FileExists
  <2>2. SUFFICES ASSUME age < ResetTime, NEW p \in Proc, call'[p] = "sent"
                 PROVE  call[p] = "sent" /\ timer'[p] = timer[p]
    BY <2>1
  <2>3. CASE p # q
    BY <1>5, <2>2, <2>3 DEF BombStep, AwaitFile, Poll, StopAnswered, StopFailed, Rejoin,
                            Kill, Ec2Stop, OrphanEnds, Known, TypeOK
  <2>4. CASE p = q
    <3>1. CASE StopAnswered(q) \/ StopFailed(q) \/ Ec2Stop(q) \/ OrphanEnds(q)
      BY <2>2, <2>4, <3>1 DEF StopAnswered, StopFailed, Ec2Stop, OrphanEnds, Known, TypeOK
    <3>2. CASE Kill(q)
      BY <2>2, <2>4, <3>2 DEF Kill, LeftRunning, Known, TypeOK
    <3>3. CASE AwaitFile(q) \/ Poll(q) \/ Rejoin(q)
      <4>1. call' = call
        BY <2>2, <3>3 DEF AwaitFile, Poll, Rejoin, timer_is_running
      <4>2. pc[q] \in {"create", "poll", "watch", "retry", "sleep"}
        BY <3>3 DEF AwaitFile, Poll, Rejoin
      <4>3. call[q] = "none"
        BY <4>2 DEF Known, Shape, CallsOwned
      <4>. QED
        BY <2>2, <2>4, <4>1, <4>3
    <3>. QED
      BY <1>5, <3>1, <3>2, <3>3 DEF BombStep
  <2>. QED
    BY <2>3, <2>4
<1>. QED
  BY <1>3, <1>4, <1>5 DEF Outside

\* Before the server is launched nobody uses the instance.
LEMMA LaunchUnused ==
  ASSUME PagesInv, srv = "launch"
  PROVE  \A c \in Client : ~ InService(c) /\ ~ Uses(c)
BY DEF PagesInv, PageInv, LaunchOK, InService, Uses, Busy

\* The bomb's steps keep the invariant.
LEMMA OutsideKeeps ==
  ASSUME KInv, Known', Outside
  PROVE  PagesInv' /\ RestInv' /\ UseInv'
<1>1. UNCHANGED <<f1_state, chain, answer, queue, srv, srvFor, srvTimer, rested>>
  BY OutsideFrame DEF KInv
<1>2. Alive /\ srv # "launch" =>
        /\ age' = age
        /\ age < ResetTime =>
             \A p \in Proc : call'[p] = "sent" => call[p] = "sent" /\ timer'[p] = timer[p]
  BY OutsideFrame DEF KInv, Known, BombThere, Alive, Busy
<1>3. \A c \in Client :
        PageInv(c) /\ (InService(c)' <=> InService(c)) /\ (Uses(c)' <=> Uses(c))
  BY <1>1 DEF KInv, PagesInv, InService, Uses
<1>4. ASSUME NEW c \in Client PROVE PageInv(c)'
  <2>1. RequestOK(c)' /\ LaunchOK(c)' /\ ChainLives(c)'
    BY <1>1, <1>3 DEF PageInv, RequestOK, LaunchOK, ChainLives, Wanted
  <2>2. PingInTime(c)'
    <3>1. CASE srv = "launch"
      BY <1>3, <3>1, LaunchUnused DEF KInv, PingInTime
    <3>2. CASE srv # "launch"
      BY <1>1, <1>2, <1>3, <3>2 DEF PageInv, PingInTime, Alive
    <3>. QED
      BY <3>1, <3>2
  <2>. QED
    BY <2>1, <2>2 DEF PageInv
<1>5. RestInv'
  BY <1>1 DEF KInv, RestInv
<1>6. UseInv'
  <2>1. CASE srv = "launch"
    BY <1>3, <2>1, LaunchUnused DEF KInv, UseInv
  <2>2. CASE srv # "launch" /\ rested = 0
    BY <1>1, <2>2, UnrestedUse
  <2>3. CASE srv # "launch" /\ rested # 0
    <3>1. rested \in Nat /\ rested > 0
      BY <2>3 DEF KInv, Known, ServerOK
    <3>. QED
      BY <1>1, <1>2, <1>3, <2>3, <3>1 DEF KInv, UseInv, Alive
  <2>. QED
    BY <2>1, <2>2, <2>3
<1>. QED
  BY <1>4, <1>5, <1>6 DEF PagesInv

\* A second goes by: if the server is free, its queue is empty and the next ping of whoever
\* uses the instance is on its way, and every call has a second less to go.
LEMMA TickKeeps ==
  ASSUME KInv, LongEnough, SysTick
  PROVE  PagesInv' /\ RestInv' /\ UseInv'
<1>1. /\ UNCHANGED <<f1_state, answer, queue, srv, srvFor, call>>
      /\ age' = IF age < ResetTime THEN age + 1 ELSE ResetTime
  BY DEF SysTick, Tick
<1>2. age \in Nat /\ age' \in Nat /\ age' <= age + 1
  BY <1>1, ConstantsAssumption DEF KInv, Known, TypeOK
<1>3. ASSUME NEW c \in Client, NEW k \in Slot
      PROVE  /\ chain[c][k] \in Nat /\ chain[c][k] > 0 /\ chain[c][k] <= NoChain
             /\ chain'[c][k] = IF chain[c][k] = NoChain THEN NoChain ELSE chain[c][k] - 1
  <2>1. chain[c][k] \in 0 .. NoChain
    BY DEF KInv, Known, PagesOK
  <2>. QED
    BY <2>1, SystemConstants DEF SysTick
<1>4. \A c \in Client :
        PageInv(c) /\ (InService(c)' <=> InService(c)) /\ (Uses(c)' <=> Uses(c))
  BY <1>1 DEF KInv, PagesInv, InService, Uses
<1>5. ASSUME NEW c \in Client PROVE PageInv(c)'
  <2>1. RequestOK(c)' /\ LaunchOK(c)'
    BY <1>1, <1>4 DEF PageInv, RequestOK, LaunchOK
  <2>2. ChainLives(c)'
    <3>1. SUFFICES ASSUME Wanted(c) PROVE \E k \in Slot : chain'[c][k] # NoChain
      BY <1>1 DEF ChainLives, Wanted
    <3>2. PICK k \in Slot : chain[c][k] # NoChain
      BY <1>4, <3>1 DEF PageInv, ChainLives
    <3>. QED
      BY <1>3, <3>2, SystemConstants
  <2>3. PingInTime(c)'
    <3>1. SUFFICES ASSUME Alive, InService(c) \/ Uses(c), NEW k \in Slot,
                          chain'[c][k] # NoChain, ~ Has(queue, ResetRequest)
                   PROVE  age' + chain'[c][k] <= PingPeriod + 1
      BY <1>1, <1>4 DEF PingInTime, Alive
    <3>2. chain[c][k] # NoChain /\ chain'[c][k] = chain[c][k] - 1 /\ chain[c][k] \in Nat
          /\ chain[c][k] > 0
      BY <1>3, <3>1
    <3>3. age + chain[c][k] <= PingPeriod + 1
      BY <1>4, <3>1, <3>2 DEF PageInv, PingInTime
    <3>. QED
      BY <1>2, <3>2, <3>3, SystemConstants
  <2>. QED
    BY <2>1, <2>2, <2>3 DEF PageInv
<1>6. /\ rested \in Nat /\ rested' \in Nat /\ rested' <= rested + 1
      /\ rested' = IF srv \in Busy \/ rested > AwsTime THEN rested ELSE rested + 1
  BY SystemConstants DEF SysTick, KInv, Known, ServerOK
<1>7. RestInv'
  BY <1>1, <1>6 DEF KInv, RestInv
<1>8. UseInv'
  <2>1. SUFFICES ASSUME Alive, srv \notin Busy, NEW c \in Client, Uses(c)
                 PROVE  /\ age' < ResetTime
                        /\ \A p \in Proc : call[p] = "sent" => timer'[p] + rested' <= AwsTime
    BY <1>1, <1>4 DEF UseInv, Alive
  <2>2. CASE srv = "launch"
    BY <2>1, <2>2, LaunchUnused DEF KInv
  <2>3. CASE srv # "launch"
    <3>1. queue = <<>>
      BY <2>1, <2>3 DEF SysTick, Serving, Alive
    <3>2. ~ Has(queue, ResetRequest)
      BY <3>1, EmptyHas
    <3>3. Wanted(c)
      BY <2>1 DEF Wanted, Uses
    <3>4. PICK k \in Slot : chain[c][k] # NoChain
      BY <1>4, <3>3 DEF PageInv, ChainLives
    <3>5. age + chain[c][k] <= PingPeriod + 1
      BY <1>4, <2>1, <3>2, <3>4 DEF PageInv, PingInTime
    <3>6. chain[c][k] \in Nat /\ chain[c][k] > 0
      BY <1>3
    <3>7. age' < ResetTime
      BY <1>2, <3>5, <3>6, SystemConstants, ConstantsAssumption DEF LongEnough
    <3>8. ASSUME NEW p \in Proc, call[p] = "sent" PROVE timer'[p] + rested' <= AwsTime
      <4>1. timer[p] \in Nat /\ timer[p] + rested <= AwsTime
        BY <2>1, <3>8 DEF KInv, UseInv, Known, TypeOK
      <4>2. HasTime(p)
        BY DEF SysTick, Tick
      <4>3. timer[p] > 0
        BY <3>8, <4>2 DEF HasTime
      <4>4. timer'[p] = timer[p] - 1
        BY <4>3 DEF SysTick, Tick
      <4>. QED
        BY <1>6, <4>1, <4>3, <4>4, SystemConstants
    <3>. QED
      BY <3>7, <3>8
  <2>. QED
    BY <2>2, <2>3
<1>. QED
  BY <1>5, <1>7, <1>8 DEF PagesInv

-----------------------------------------------------------------------------
(* The theorem.                                                            *)

\* What is proved elsewhere.
LEMMA KnownAlways == SysSpec => []Known
<1>1. SysSpec => []IInv
  BY SystemIsTimeBomb, Invariance, PTL
<1>2. SysSpec => []SysTypeOK
  BY SystemTypeCorrect
<1>3. IInv /\ SysTypeOK /\ BombThere => Known
  BY DEF IInv, SysTypeOK, Known, PagesOK, ServerOK, Request, SrvState, SrvTime, Busy
<1>. QED
  BY <1>1, <1>2, <1>3, BombThereAlways, PTL

\* The invariant holds.
LEMMA KInvAlways ==
  ASSUME LongEnough
  PROVE  SysSpec => []KInv
<1>. DEFINE New == PagesInv /\ RestInv /\ UseInv
<1>1. SysInit => New
  <2>. SUFFICES ASSUME SysInit PROVE New
    OBVIOUS
  <2>1. \A c \in Client : ~ Uses(c) /\ ~ InService(c)
    BY DEF SysInit, Uses, InService, Busy
  <2>2. ASSUME NEW c \in Client PROVE PageInv(c)
    <3>1. RequestOK(c)
      BY <2>1, EmptyHas DEF SysInit, RequestOK
    <3>2. LaunchOK(c) /\ ChainLives(c) /\ PingInTime(c)
      BY <2>1 DEF SysInit, LaunchOK, ChainLives, PingInTime, Wanted
    <3>. QED
      BY <3>1, <3>2 DEF PageInv
  <2>3. RestInv /\ UseInv
    BY <2>1 DEF SysInit, RestInv, UseInv, Busy
  <2>. QED
    BY <2>2, <2>3 DEF PagesInv
<1>2. Known /\ Known' /\ New /\ [SysNext]_sysVars => New'
  <2>. SUFFICES ASSUME KInv, Known', [SysNext]_sysVars PROVE New'
    BY DEF KInv
  <2>1. CASE UNCHANGED sysVars
    <3>1. UNCHANGED <<f1_state, chain, answer, queue, srv, srvFor, age, timer, call, rested>>
      BY <2>1 DEF sysVars, clientVars, serverVars, vars, bombVars
    <3>2. \A c \in Client :
            PageInv(c) /\ (InService(c)' <=> InService(c)) /\ (Uses(c)' <=> Uses(c))
      BY <3>1 DEF KInv, PagesInv, InService, Uses
    <3>3. \A c \in Client : PageInv(c)'
      BY <3>1, <3>2 DEF PageInv, RequestOK, LaunchOK, ChainLives, Wanted, PingInTime, Alive
    <3>4. RestInv' /\ UseInv'
      BY <3>1, <3>2 DEF KInv, RestInv, UseInv, Alive
    <3>. QED
      BY <3>3, <3>4 DEF PagesInv
  <2>2. CASE SysNext
    BY <2>2, PageKeeps, ServerKeeps, OutsideKeeps, TickKeeps DEF SysNext
  <2>. QED
    BY <2>1, <2>2
<1>3. Known /\ New => KInv
  BY DEF KInv
<1>. HIDE DEF New
<1>. QED
  BY <1>1, <1>2, <1>3, KnownAlways, PTL DEF SysSpec

\* If the reset time is longer than the ping period by more than a second, the time bomb
\* never stops the instance under a page that uses it and goes on resetting it once the
\* server has been free for longer than an aws call: for any number of pages and of chains
\* of timeouts, any length of the server's starts, detonates and calls on their way
\* (fpgaServer.js 253-278, server.py 193-274).
THEOREM UsersAreKept ==
  ASSUME LongEnough
  PROVE  SysSpec => KeptAlive
<1>. DEFINE Kept == CutOff => \/ srv \in {"closing", "stopping", "draining", "exited"}
                              \/ rested <= AwsTime
                              \/ \A c \in Client : ~ Uses(c)
<1>1. ASSUME KInv, [SysNext]_sysVars PROVE Kept
  <2>. SUFFICES ASSUME inst = "running", inst' = "stopping", NEW c \in Client, Uses(c),
                       ~ (rested <= AwsTime)
                PROVE  srv \in {"closing", "stopping", "draining", "exited"}
    BY DEF CutOff
  <2>1. ASSUME NEW p \in Proc, Ec2Stop(p)
        PROVE  srv \in {"closing", "stopping", "draining", "exited"}
    <3>1. call[p] = "sent" /\ timer[p] \in Nat /\ rested \in Nat
      BY <1>1, <2>1 DEF Ec2Stop, KInv, Known, TypeOK, ServerOK
    <3>2. ~ (timer[p] + rested <= AwsTime)
      BY <3>1, SystemConstants
    <3>3. srv \notin Busy
      BY <1>1, SystemConstants DEF KInv, RestInv
    <3>4. ~ Alive
      BY <1>1, <3>1, <3>2, <3>3 DEF KInv, UseInv
    <3>. QED
      BY <1>1, <3>4 DEF Alive, KInv, Known, ServerOK, SrvState
  <2>2. ASSUME NEW d \in Client, Page(d) PROVE FALSE
    BY <2>2, PageFrame
  <2>3. ASSUME NEW p \in Proc, Associate(p) PROVE FALSE
    BY <2>3 DEF Associate, Control, CreateFile
  <2>4. CASE ServeReset \/ ServeStart \/ StartBroken
    BY <2>4 DEF ServeReset, ServeStart, StartBroken, TouchIfThere, Reset, Detonate, Touch,
                vars
  <2>5. CASE RefuseStart \/ CallStart \/ Booted \/ Described \/ Signal \/ WaitStopped
             \/ Exit \/ Crash
    BY <2>5 DEF RefuseStart, CallStart, Booted, Described, Signal, WaitStopped, Exit,
                Crash, End, vars
  <2>6. CASE StartTaken \/ CleanExit \/ DoneReturns
    BY <2>6 DEF StartTaken, Start, CleanExit, DoneReturns, CmdBegin, CmdReturn, vars
  <2>7. CASE Outside
    <3>1. CASE \E p \in Proc : Ec2Stop(p)
      BY <2>1, <3>1
    <3>2. CASE ~ \E p \in Proc : Ec2Stop(p)
      BY <2>7, <3>2 DEF Outside, BombStep, AwaitFile, Poll, StopAnswered, StopFailed, Rejoin,
                        Kill, OrphanEnds, DoneRemoves, CmdCheck, CmdReturn, Ec2Stopped
    <3>. QED
      BY <3>1, <3>2
  <2>8. CASE SysTick
    BY <2>8 DEF SysTick, Tick
  <2>9. CASE UNCHANGED sysVars
    BY <2>9 DEF sysVars, vars
  <2>. QED
    BY <1>1, <2>2, <2>3, <2>4, <2>5, <2>6, <2>7, <2>8, <2>9 DEF SysNext, Server
<1>2. KInv /\ [SysNext]_sysVars => [Kept]_sysVars
  BY <1>1
<1>3. SysSpec => [][Kept]_sysVars
  BY <1>2, KInvAlways, PTL DEF SysSpec
<1>. QED
  BY <1>3 DEF KeptAlive

=============================================================================
