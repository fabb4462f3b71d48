---------------------------- MODULE ConnectionProofs ----------------------------
(***************************************************************************)
(* Proofs about Connection, for any number of sockets, of clicks and of     *)
(* entries of the instruction memory.                                      *)
(***************************************************************************)
EXTENDS Connection, TLAPS

-----------------------------------------------------------------------------
(* The inductive invariant.                                                *)

\* The messages of the pages, and the answers to them.
Request ==
  [type : {"PING", "START_TRACING", "STOP_TRACING"}]
    \cup [type : {"WRITE"}, program : Nat, addrs : SUBSET Addr]
    \cup [type : {"READ"}, addr : Addr]
    \cup [type : {"RUN"}, program : Nat, lines : 0 .. IMEM_SIZE]
    \cup [type : {"DATA"}, program : Nat]

Response ==
  [type : {"typed", "empty"}]
    \cup [type : {"WRITE", "DATA"}, program : Nat]
    \cup [type : {"READ"}, addr : Addr, program : Nat]
    \cup [type : {"RUN"}, program : Nat, lines : 0 .. IMEM_SIZE, ran : [Addr -> Nat]]

Page ==
  [run : Nat, sent : Nat, lines : 0 .. IMEM_SIZE,
   button : {"enabled", "disabled", "stuck", "invalid"},
   traces : Nat, tracing : BOOLEAN,
   rx : Nat, imem : [Addr -> Nat], rsp : [Addr -> Nat]]

Message == [msg : Request, socket : Nat]
Reply == [msg : Response, socket : Nat]

\* The types of the variables: the connection's, and the others'.
ConnectionType ==
  /\ kind \in {"warpv", "testbench"}
  /\ ws \in {"CONNECTING", "OPEN", "CLOSED"}
  /\ socket \in 1 .. MaxSockets
  /\ handler \in BOOLEAN
  /\ chains \in Nat
  /\ reconnect \in [cnt : 0 .. 3, recent : BOOLEAN, timer : BOOLEAN]
  /\ told \in BOOLEAN

DataType ==
  /\ inbox \in Seq(Message)
  /\ down \in Seq(Reply)
  /\ kernel \in [mem : [Addr -> Nat], tracing : BOOLEAN]
  /\ page \in Page
  /\ lost \in BOOLEAN

\* Every socket begins one chain of pings, when it opens.
OneChainEach == chains <= (IF ws = "CONNECTING" THEN socket - 1 ELSE socket)

\* Only a page with callbacks reconnects, and only to a socket within the bound.
MayReconnect ==
  /\ reconnect.timer => cb
  /\ ws = "CLOSED" => socket < MaxSockets

\* Message j writes every line of the program that message i runs, and is the
\* last to write.
Writes(q, j, i) ==
  /\ q[j].msg.type = "WRITE" /\ q[j].msg.program = q[i].msg.program
  /\ Lines(q[i].msg.lines) \subseteq q[j].msg.addrs
  /\ \A l \in j + 1 .. i - 1 : q[l].msg.type # "WRITE"

\* Memory mem holds every line of the program that message m runs.
Holds(mem, m) == \A a \in Lines(m.lines) : mem[a] = m.program

\* The program that message i runs is written by the last message before it that
\* writes, or is in memory if none does.
IsWritten(q, i, mem) ==
  \/ \E j \in 1 .. i - 1 : Writes(q, j, i)
  \/ /\ \A l \in 1 .. i - 1 : q[l].msg.type # "WRITE"
     /\ Holds(mem, q[i].msg)

WrittenFirst(q, mem) ==
  \A i \in 1 .. Len(q) : q[i].msg.type = "RUN" => IsWritten(q, i, mem)

\* A batch of messages that brings the program of each of its runs.
SelfContained(b) ==
  \A i \in 1 .. Len(b) : b[i].msg.type = "RUN" => \E j \in 1 .. i - 1 : Writes(b, j, i)

\* The inductive invariant: what it says of the connection, and of the messages.
ConnectionInv ==
  /\ ConnectionType /\ OneChainEach /\ MayReconnect
  /\ NeverForgotten /\ KeptAlive

RunsAreWritten == WrittenFirst(inbox, kernel.mem)

DataInv == DataType /\ RunsAreWritten /\ RunsWhatWasSent

IInv == ConnectionInv /\ DataInv

-----------------------------------------------------------------------------
(* Sequences of messages.                                                  *)

\* It depends on the messages up to i only.
LEMMA SamePrefix ==
  ASSUME NEW q, NEW r, NEW i \in Nat \ {0}, \A l \in 1 .. i : r[l] = q[l],
         NEW p, IsWritten(q, i, p)
  PROVE  IsWritten(r, i, p)
<1>1. r[i] = q[i]
  OBVIOUS
<1>2. CASE \E j \in 1 .. i - 1 : Writes(q, j, i)
  <2>1. PICK j \in 1 .. i - 1 : Writes(q, j, i)
    BY <1>2
  <2>2. r[j] = q[j]
    OBVIOUS
  <2>3. ASSUME NEW l \in j + 1 .. i - 1
        PROVE  r[l].msg.type # "WRITE"
    <3>1. l \in 1 .. i
      OBVIOUS
    <3>. QED
      BY <2>1, <3>1 DEF Writes
  <2>4. Writes(r, j, i)
    BY <1>1, <2>1, <2>2, <2>3 DEF Writes
  <2>. QED
    BY <2>4 DEF IsWritten
<1>3. CASE /\ \A l \in 1 .. i - 1 : q[l].msg.type # "WRITE"
           /\ Holds(p, q[i].msg)
  <2>1. ASSUME NEW l \in 1 .. i - 1
        PROVE  r[l].msg.type # "WRITE"
    BY <1>3
  <2>. QED
    BY <1>1, <1>3, <2>1 DEF IsWritten
<1>. QED
  BY <1>2, <1>3 DEF IsWritten

\* It is the same in a sequence that is moved on by n.
LEMMA Shifted ==
  ASSUME NEW q, NEW r, NEW i \in Nat \ {0}, NEW j \in 1 .. i - 1, NEW n \in Nat,
         \A l \in j .. i : r[l + n] = q[l],
         Writes(q, j, i)
  PROVE  Writes(r, j + n, i + n)
<1>1. r[j + n] = q[j] /\ r[i + n] = q[i]
  OBVIOUS
<1>2. ASSUME NEW l \in j + n + 1 .. i + n - 1
      PROVE  r[l].msg.type # "WRITE"
  <2>1. l - n \in j + 1 .. i - 1 /\ l - n \in j .. i /\ (l - n) + n = l
    OBVIOUS
  <2>2. r[l] = q[l - n]
    BY <2>1
  <2>. QED
    BY <2>1, <2>2 DEF Writes
<1>. QED
  BY <1>1, <1>2 DEF Writes

\* What the socket's end leaves of the messages is still in order.
LEMMA PrefixWritten ==
  ASSUME NEW S, NEW q \in Seq(S), NEW p, NEW n \in 0 .. Len(q), WrittenFirst(q, p)
  PROVE  WrittenFirst(SubSeq(q, 1, n), p)
<1>. DEFINE r == SubSeq(q, 1, n)
<1>1. Len(r) = n /\ \A i \in 1 .. n : r[i] = q[i]
  OBVIOUS
<1>. HIDE DEF r
<1>2. ASSUME NEW i \in 1 .. n, r[i].msg.type = "RUN"
      PROVE  IsWritten(r, i, p)
  <2>1. i \in 1 .. Len(q) /\ i \in Nat \ {0} /\ r[i] = q[i] /\ \A l \in 1 .. i : r[l] = q[l]
    BY <1>1
  <2>2. IsWritten(q, i, p)
    BY <1>2, <2>1 DEF WrittenFirst
  <2>. QED
    BY <2>1, <2>2, SamePrefix
<1>. QED
  BY <1>1, <1>2 DEF WrittenFirst, r

\* The elements of a concatenation.
LEMMA Concatenation ==
  ASSUME NEW S, NEW q \in Seq(S), NEW b \in Seq(S)
  PROVE  /\ q \o b \in Seq(S)
         /\ Len(q) \in Nat /\ Len(b) \in Nat /\ Len(q \o b) = Len(q) + Len(b)
         /\ \A i \in 1 .. Len(q) : (q \o b)[i] = q[i]
         /\ \A i \in 1 .. Len(b) : (q \o b)[i + Len(q)] = b[i]
OBVIOUS

\* Messages are appended in batches that bring their programs.
LEMMA BatchWritten ==
  ASSUME NEW S, NEW q \in Seq(S), NEW b \in Seq(S), NEW p,
         WrittenFirst(q, p), SelfContained(b)
  PROVE  WrittenFirst(q \o b, p)
<1>. DEFINE r == q \o b
<1>1. /\ Len(r) = Len(q) + Len(b) /\ Len(q) \in Nat /\ Len(b) \in Nat
      /\ \A i \in 1 .. Len(q) : r[i] = q[i]
      /\ \A i \in 1 .. Len(b) : r[i + Len(q)] = b[i]
  BY Concatenation
<1>. HIDE DEF r
<1>2. ASSUME NEW i \in 1 .. Len(r), r[i].msg.type = "RUN"
      PROVE  IsWritten(r, i, p)
  <2>1. CASE i <= Len(q)
    <3>1. /\ i \in 1 .. Len(q) /\ i \in Nat \ {0} /\ r[i] = q[i]
          /\ \A l \in 1 .. i : r[l] = q[l]
      BY <1>1, <2>1
    <3>2. IsWritten(q, i, p)
      BY <1>2, <3>1 DEF WrittenFirst
    <3>. QED
      BY <3>1, <3>2, SamePrefix
  <2>2. CASE i > Len(q)
    <3>1. PICK k \in 1 .. Len(b) : i = k + Len(q)
      <4>1. i - Len(q) \in 1 .. Len(b) /\ i = (i - Len(q)) + Len(q)
        BY <1>1, <2>2
      <4>. QED
        BY <4>1
    <3>2. PICK j \in 1 .. k - 1 : Writes(b, j, k)
      BY <1>1, <1>2, <3>1 DEF SelfContained
    <3>3. /\ k \in Nat \ {0} /\ j + Len(q) \in 1 .. i - 1
          /\ \A l \in j .. k : r[l + Len(q)] = b[l]
      BY <1>1, <3>1
    <3>4. Writes(r, j + Len(q), i)
      BY <1>1, <3>1, <3>2, <3>3, Shifted
    <3>. QED
      BY <3>3, <3>4 DEF IsWritten
  <2>. QED
    BY <2>1, <2>2, <1>1
<1>. QED
  BY <1>2 DEF WrittenFirst, r

\* When the first message is served, what it writes is in memory.
LEMMA TailWritten ==
  ASSUME NEW S, NEW q \in Seq(S), q # <<>>, NEW p, NEW p2, WrittenFirst(q, p),
         Head(q).msg.type = "WRITE"
           => \A a \in Head(q).msg.addrs : p2[a] = Head(q).msg.program,
         Head(q).msg.type # "WRITE" => p2 = p
  PROVE  WrittenFirst(Tail(q), p2)
<1>. DEFINE r == Tail(q)
<1>1. /\ Len(r) = Len(q) - 1 /\ Len(q) \in Nat \ {0} /\ Head(q) = q[1]
      /\ \A i \in 1 .. Len(q) - 1 : r[i] = q[i + 1]
  OBVIOUS
<1>. HIDE DEF r
<1>2. ASSUME NEW i \in 1 .. Len(r), r[i].msg.type = "RUN"
      PROVE  IsWritten(r, i, p2)
  <2>1. /\ i + 1 \in 1 .. Len(q) /\ i \in Nat \ {0} /\ r[i] = q[i + 1]
        /\ \A l \in 1 .. i : r[l] = q[l + 1]
    BY <1>1
  <2>2. IsWritten(q, i + 1, p)
    BY <1>2, <2>1 DEF WrittenFirst
  <2>3. CASE \E j \in 2 .. i : Writes(q, j, i + 1)
    <3>1. PICK j \in 2 .. i : Writes(q, j, i + 1)
      BY <2>3
    <3>2. j - 1 \in 1 .. i - 1 /\ r[j - 1] = q[j]
      BY <2>1
    <3>3. ASSUME NEW l \in (j - 1) + 1 .. i - 1
          PROVE  r[l].msg.type # "WRITE"
      <4>1. l \in 1 .. i /\ l + 1 \in j + 1 .. (i + 1) - 1
        OBVIOUS
      <4>. QED
        BY <2>1, <3>1, <4>1 DEF Writes
    <3>4. Writes(r, j - 1, i)
      BY <2>1, <3>1, <3>2, <3>3 DEF Writes
    <3>. QED
      BY <3>2, <3>4 DEF IsWritten
  <2>4. CASE Writes(q, 1, i + 1)
    <3>1. Holds(p2, r[i].msg)
      <4>1. /\ \A a \in q[1].msg.addrs : p2[a] = q[1].msg.program
            /\ q[1].msg.program = q[i + 1].msg.program
            /\ Lines(q[i + 1].msg.lines) \subseteq q[1].msg.addrs
        BY <1>1, <2>4 DEF Writes
      <4>. QED
        BY <2>1, <4>1 DEF Holds
    <3>2. ASSUME NEW l \in 1 .. i - 1
          PROVE  r[l].msg.type # "WRITE"
      <4>1. l \in 1 .. i /\ l + 1 \in 1 + 1 .. (i + 1) - 1
        OBVIOUS
      <4>. QED
        BY <2>1, <2>4, <4>1 DEF Writes
    <3>. QED
      BY <3>1, <3>2 DEF IsWritten
  <2>5. CASE /\ \A l \in 1 .. (i + 1) - 1 : q[l].msg.type # "WRITE"
             /\ Holds(p, q[i + 1].msg)
    <3>1. Head(q).msg.type # "WRITE"
      BY <1>1, <2>1, <2>5
    <3>2. ASSUME NEW l \in 1 .. i - 1
          PROVE  r[l].msg.type # "WRITE"
      <4>1. l \in 1 .. i /\ l + 1 \in 1 .. (i + 1) - 1
        OBVIOUS
      <4>. QED
        BY <2>1, <2>5, <4>1
    <3>. QED
      BY <2>1, <2>5, <3>1, <3>2 DEF IsWritten
  <2>6. ASSUME NEW j \in 1 .. (i + 1) - 1, j # 1
        PROVE  j \in 2 .. i
    BY <2>6
  <2>. QED
    BY <2>2, <2>3, <2>4, <2>5, <2>6 DEF IsWritten
<1>. QED
  BY <1>2 DEF WrittenFirst, r

\* A batch without a run brings all it needs.
LEMMA NoRun ==
  ASSUME NEW b, \A i \in 1 .. Len(b) : b[i].msg.type # "RUN"
  PROVE  SelfContained(b)
BY DEF SelfContained

\* What Send appends.
Batch(ms) == [i \in 1 .. Len(ms) |-> [msg |-> ms[i], socket |-> socket]]

\* Its type.
LEMMA BatchType ==
  ASSUME NEW ms \in Seq(Request), socket \in 1 .. MaxSockets
  PROVE  Batch(ms) \in Seq(Message)
<1>1. socket \in Nat
  BY ConnectionAssumption
<1>2. ASSUME NEW i \in 1 .. Len(ms)
      PROVE  [msg |-> ms[i], socket |-> socket] \in Message
  BY <1>1 DEF Message
<1>3. Len(ms) \in Nat
  OBVIOUS
<1>. QED
  BY <1>2, <1>3 DEF Batch

\* Send keeps the types and the order of the messages.
LEMMA SendKeeps ==
  ASSUME ConnectionType, DataInv,
         NEW ms \in Seq(Request),
         SelfContained(Batch(ms)), Send(ms)
  PROVE  /\ inbox' \in Seq(Message)
         /\ WrittenFirst(inbox', kernel.mem)
         /\ lost' \in BOOLEAN
<1>. DEFINE b == Batch(ms)
<1>1. inbox \in Seq(Message) /\ socket \in Nat
  BY ConnectionAssumption DEF ConnectionType, DataInv, DataType
<1>2. b \in Seq(Message)
  BY BatchType DEF ConnectionType
<1>3. inbox' = IF ws = "OPEN" THEN inbox \o b ELSE inbox
  BY DEF Send, Batch
<1>. HIDE DEF b
<1>4. SelfContained(b)
  BY DEF b
<1>5. WrittenFirst(inbox \o b, kernel.mem)
  BY <1>1, <1>2, <1>4, BatchWritten DEF DataInv, RunsAreWritten
<1>6. inbox \o b \in Seq(Message)
  BY <1>1, <1>2
<1>7. lost' \in BOOLEAN
  BY DEF Send, DataInv, DataType
<1>. QED
  BY <1>1, <1>3, <1>5, <1>6, <1>7 DEF DataInv, RunsAreWritten

\* A run's messages write the program first and run it last.
LEMMA RunsBringPrograms ==
  ASSUME NEW n \in Nat, NEW c \in Converted
  PROVE  /\ RunMessages(n, c.addrs, c.lines) \in Seq(Request)
         /\ Len(RunMessages(n, c.addrs, c.lines)) \in Nat
         /\ SelfContained(Batch(RunMessages(n, c.addrs, c.lines)))
<1>. DEFINE w == <<[type |-> "WRITE", program |-> n, addrs |-> c.addrs]>>
            r == [i \in 1 .. IMEM_SIZE |-> [type |-> "READ", addr |-> i - 1]]
            g == <<[type |-> "RUN", program |-> n, lines |-> c.lines]>>
            ms == RunMessages(n, c.addrs, c.lines)
            b == Batch(ms)
<1>1. IMEM_SIZE \in Nat
  BY ConnectionAssumption
<1>2. w \in Seq(Request) /\ g \in Seq(Request)
  <2>1. c.addrs \in SUBSET Addr /\ c.lines \in 0 .. IMEM_SIZE
    BY DEF Converted
  <2>. QED
    BY <2>1 DEF Request
<1>3. r \in Seq(Request) /\ Len(r) = IMEM_SIZE
  <2>1. ASSUME NEW i \in 1 .. IMEM_SIZE
        PROVE  [type |-> "READ", addr |-> i - 1] \in Request
    BY <1>1 DEF Request, Addr
  <2>. QED
    BY <1>1, <2>1
<1>4. ms = (w \o r) \o g
  BY DEF RunMessages
<1>5. \A i \in 1 .. IMEM_SIZE : r[i].type = "READ"
  OBVIOUS
<1>6. Len(w) = 1 /\ w[1] = [type |-> "WRITE", program |-> n, addrs |-> c.addrs]
  OBVIOUS
<1>7. Len(g) = 1 /\ g[1] = [type |-> "RUN", program |-> n, lines |-> c.lines]
  OBVIOUS
<1>. HIDE DEF w, r, g, ms
<1>8. /\ w \o r \in Seq(Request) /\ Len(w \o r) = IMEM_SIZE + 1
      /\ (w \o r)[1] = w[1]
      /\ \A i \in 1 .. IMEM_SIZE : (w \o r)[i + 1] = r[i]
  <2>1. /\ w \o r \in Seq(Request) /\ Len(w \o r) = Len(w) + Len(r)
        /\ \A i \in 1 .. Len(w) : (w \o r)[i] = w[i]
        /\ \A i \in 1 .. Len(r) : (w \o r)[i + Len(w)] = r[i]
    BY <1>2, <1>3, Concatenation
  <2>2. Len(w) = 1 /\ Len(r) = IMEM_SIZE
    BY <1>3, <1>6
  <2>. QED
    BY <1>1, <2>1, <2>2
<1>. DEFINE wr == w \o r
<1>. HIDE DEF wr
<1>9. /\ ms \in Seq(Request) /\ Len(ms) = IMEM_SIZE + 2
      /\ \A i \in 1 .. IMEM_SIZE + 1 : ms[i] = wr[i]
      /\ ms[IMEM_SIZE + 2] = g[1]
  <2>1. Len(wr) = IMEM_SIZE + 1 /\ ms = wr \o g
    BY <1>4, <1>8 DEF wr
  <2>2. /\ ms \in Seq(Request) /\ Len(ms) = (IMEM_SIZE + 1) + 1
        /\ \A i \in 1 .. IMEM_SIZE + 1 : ms[i] = wr[i]
        /\ \A i \in 1 .. 1 : ms[i + (IMEM_SIZE + 1)] = g[i]
    <3>1. /\ wr \o g \in Seq(Request) /\ Len(wr \o g) = Len(wr) + Len(g)
          /\ \A i \in 1 .. Len(wr) : (wr \o g)[i] = wr[i]
          /\ \A i \in 1 .. Len(g) : (wr \o g)[i + Len(wr)] = g[i]
      <4>1. wr \in Seq(Request) /\ g \in Seq(Request)
        BY <1>2, <1>8 DEF wr
      <4>. QED
        BY <4>1, Concatenation
    <3>2. Len(g) = 1
      BY <1>7
    <3>. QED
      BY <2>1, <3>1, <3>2
  <2>3. ms[1 + (IMEM_SIZE + 1)] = g[1]
    BY <2>2
  <2>. QED
    BY <1>1, <2>2, <2>3
<1>10. /\ ms[1].type = "WRITE" /\ ms[1].program = n /\ ms[1].addrs = c.addrs
       /\ ms[IMEM_SIZE + 2].program = n /\ ms[IMEM_SIZE + 2].lines = c.lines
  BY <1>1, <1>6, <1>7, <1>8, <1>9 DEF wr
<1>11. \A i \in 2 .. IMEM_SIZE + 1 : ms[i].type = "READ"
  <2>1. ASSUME NEW i \in 2 .. IMEM_SIZE + 1
        PROVE  ms[i].type = "READ"
    <3>1. i - 1 \in 1 .. IMEM_SIZE
      BY <1>1
    <3>2. ms[i] = r[i - 1]
      <4>1. ms[i] = wr[i] /\ (i - 1) + 1 = i
        BY <1>1, <1>9
      <4>2. wr[(i - 1) + 1] = r[i - 1]
        BY <1>8, <3>1 DEF wr
      <4>. QED
        BY <4>1, <4>2
    <3>. QED
      BY <1>5, <3>1, <3>2
  <2>. QED
    BY <2>1
<1>12. Len(b) = IMEM_SIZE + 2 /\ \A i \in 1 .. IMEM_SIZE + 2 : b[i].msg = ms[i]
  BY <1>1, <1>9 DEF Batch
<1>. HIDE DEF b
<1>13. ASSUME NEW i \in 1 .. Len(b), b[i].msg.type = "RUN"
       PROVE  \E j \in 1 .. i - 1 : Writes(b, j, i)
  <2>1. i = IMEM_SIZE + 2
    BY <1>1, <1>10, <1>11, <1>12, <1>13
  <2>2. \A l \in 1 + 1 .. i - 1 : b[l].msg.type # "WRITE"
    BY <1>1, <1>11, <1>12, <2>1
  <2>3. 1 \in 1 .. i - 1
    BY <1>1, <2>1
  <2>4. Lines(c.lines) \subseteq c.addrs
    BY DEF Converted, Lines
  <2>5. Writes(b, 1, i)
    BY <1>1, <1>10, <1>12, <2>1, <2>2, <2>4 DEF Writes
  <2>. QED
    BY <2>3, <2>5
<1>14. SelfContained(b)
  BY <1>13 DEF SelfContained
<1>15. Len(ms) \in Nat
  BY <1>1, <1>9
<1>. QED
  BY <1>9, <1>14, <1>15 DEF ms, b

\* A single message that is no run.
LEMMA OneMessage ==
  ASSUME NEW m \in Request, m.type # "RUN"
  PROVE  <<m>> \in Seq(Request) /\ SelfContained(Batch(<<m>>))
<1>1. Len(Batch(<<m>>)) = 1 /\ Batch(<<m>>)[1].msg = m
  BY DEF Batch
<1>. QED
  BY <1>1, NoRun

-----------------------------------------------------------------------------
(* The connection.                                                         *)

\* At first there is one socket, and nothing has gone wrong.
LEMMA InitialConnection == Init => ConnectionInv
<1>. SUFFICES ASSUME Init PROVE ConnectionInv
  OBVIOUS
<1>1. ConnectionType
  <2>1. socket \in 1 .. MaxSockets
    BY ConnectionAssumption DEF Init
  <2>2. reconnect \in [cnt : 0 .. 3, recent : BOOLEAN, timer : BOOLEAN]
    BY DEF Init
  <2>. QED
    BY <2>1, <2>2 DEF Init, ConnectionType
<1>2. OneChainEach /\ MayReconnect /\ NeverForgotten /\ KeptAlive
  BY ConnectionAssumption DEF Init, OneChainEach, MayReconnect, NeverForgotten, KeptAlive
<1>. QED
  BY <1>1, <1>2 DEF ConnectionInv

\* A socket opens: a chain more.
LEMMA OpensKeepsConnection == ConnectionInv /\ SocketOpens => ConnectionInv'
<1>. SUFFICES ASSUME ConnectionInv, SocketOpens PROVE ConnectionInv'
  OBVIOUS
<1>1. ConnectionType'
  BY ConnectionAssumption DEF SocketOpens, ConnectionInv, ConnectionType
<1>2. OneChainEach' /\ MayReconnect' /\ NeverForgotten' /\ KeptAlive'
  BY ConnectionAssumption
  DEF SocketOpens, ConnectionInv, ConnectionType, OneChainEach, MayReconnect,
      NeverForgotten, KeptAlive, cb
<1>. QED
  BY <1>1, <1>2 DEF ConnectionInv

\* The socket closes: a timeout, or the page is told, never both.
LEMMA CloseKeepsConnection == ConnectionInv /\ SocketCloses => ConnectionInv'
<1>. SUFFICES ASSUME ConnectionInv, SocketCloses PROVE ConnectionInv'
  OBVIOUS
<1>1. /\ ws' = "CLOSED" /\ ws # "CLOSED" /\ socket < MaxSockets
      /\ UNCHANGED <<kind, socket, handler, chains>>
      /\ IF cb THEN OnClose ELSE UNCHANGED <<reconnect, told>>
  BY DEF SocketCloses
<1>2. /\ reconnect \in [cnt : 0 .. 3, recent : BOOLEAN, timer : BOOLEAN]
      /\ socket \in 1 .. MaxSockets /\ chains \in Nat /\ told \in BOOLEAN
  BY DEF ConnectionInv, ConnectionType
<1>3. /\ reconnect' \in [cnt : 0 .. 3, recent : BOOLEAN, timer : BOOLEAN]
      /\ told' \in BOOLEAN
      /\ cb => (reconnect'.timer <=> ~ told')
      /\ ~ cb => reconnect' = reconnect
  <2>1. CASE cb
    <3>1. OnClose /\ told = FALSE
      BY <1>1, <1>2, <2>1 DEF ConnectionInv, NeverForgotten
    <3>2. CASE reconnect.cnt + 1 > 3
      <4>1. /\ reconnect' = [cnt |-> 0, recent |-> TRUE, timer |-> ~ reconnect.recent]
            /\ told' = reconnect.recent
        BY <3>1, <3>2, <1>2 DEF OnClose
      <4>2. CASE reconnect.recent = TRUE
        <5>1. reconnect' = [cnt |-> 0, recent |-> TRUE, timer |-> FALSE] /\ told' = TRUE
          BY <4>1, <4>2
        <5>2. reconnect'.timer <=> ~ told'
          BY <5>1
        <5>3. reconnect' \in [cnt : 0 .. 3, recent : BOOLEAN, timer : BOOLEAN]
          BY <5>1
        <5>. QED
          BY <5>1, <5>2, <5>3, <2>1
      <4>3. CASE reconnect.recent = FALSE
        <5>1. reconnect' = [cnt |-> 0, recent |-> TRUE, timer |-> TRUE] /\ told' = FALSE
          BY <4>1, <4>3
        <5>2. reconnect'.timer <=> ~ told'
          BY <5>1
        <5>3. reconnect' \in [cnt : 0 .. 3, recent : BOOLEAN, timer : BOOLEAN]
          BY <5>1
        <5>. QED
          BY <5>1, <5>2, <5>3, <2>1
      <4>. QED
        BY <1>2, <4>2, <4>3
    <3>3. CASE ~ (reconnect.cnt + 1 > 3)
      <4>1. /\ reconnect' = [cnt |-> reconnect.cnt + 1, recent |-> reconnect.recent,
                             timer |-> TRUE]
            /\ told' = FALSE
        BY <3>1, <3>3, <1>2 DEF OnClose
      <4>2. reconnect.cnt + 1 \in 0 .. 3
        BY <1>2, <3>3
      <4>. QED
        BY <4>1, <4>2, <1>2, <2>1
    <3>. QED
      BY <3>2, <3>3
  <2>2. CASE ~ cb
    BY <1>1, <1>2, <2>2
  <2>. QED
    BY <2>1, <2>2
<1>4. ConnectionType'
  BY <1>1, <1>2, <1>3 DEF ConnectionInv, ConnectionType
<1>5. OneChainEach' /\ KeptAlive'
  BY <1>1, <1>2 DEF ConnectionInv, OneChainEach, KeptAlive
<1>6. MayReconnect' /\ NeverForgotten'
  BY <1>1, <1>3 DEF ConnectionInv, MayReconnect, NeverForgotten, cb
<1>. QED
  BY <1>4, <1>5, <1>6 DEF ConnectionInv

\* The timeout reconnects: the last socket was closed.
LEMMA ReconnectKeepsConnection == ConnectionInv /\ Reconnect => ConnectionInv'
<1>. SUFFICES ASSUME ConnectionInv, Reconnect PROVE ConnectionInv'
  OBVIOUS
<1>1. cb /\ ws = "CLOSED" /\ ~ told /\ socket < MaxSockets
  BY DEF Reconnect, ConnectionInv, NeverForgotten, MayReconnect
<1>2. /\ reconnect \in [cnt : 0 .. 3, recent : BOOLEAN, timer : BOOLEAN]
      /\ socket \in 1 .. MaxSockets /\ chains \in Nat /\ chains <= socket
  BY <1>1 DEF ConnectionInv, ConnectionType, OneChainEach
<1>3. /\ ws' = "CONNECTING" /\ socket' = socket + 1 /\ handler' = FALSE
      /\ reconnect' = [reconnect EXCEPT !.timer = FALSE]
      /\ UNCHANGED <<kind, chains, told>>
  BY DEF Reconnect
<1>4. socket' \in 1 .. MaxSockets
  BY <1>1, <1>2, <1>3, ConnectionAssumption
<1>5. ConnectionType'
  BY <1>2, <1>3, <1>4 DEF ConnectionInv, ConnectionType
<1>6. OneChainEach' /\ KeptAlive'
  BY <1>1, <1>2, <1>3 DEF OneChainEach, KeptAlive
<1>7. MayReconnect' /\ NeverForgotten'
  BY <1>1, <1>2, <1>3 DEF MayReconnect, NeverForgotten, cb
<1>. QED
  BY <1>5, <1>6, <1>7 DEF ConnectionInv

\* Ten seconds pass.
LEMMA TimeKeepsConnection == ConnectionInv /\ TimePasses => ConnectionInv'
<1>. SUFFICES ASSUME ConnectionInv, TimePasses PROVE ConnectionInv'
  OBVIOUS
<1>1. ConnectionType'
  BY DEF TimePasses, ConnectionInv, ConnectionType
<1>2. OneChainEach' /\ MayReconnect' /\ NeverForgotten' /\ KeptAlive'
  BY DEF TimePasses, ConnectionInv, ConnectionType, OneChainEach, MayReconnect,
         NeverForgotten, KeptAlive, cb
<1>. QED
  BY <1>1, <1>2 DEF ConnectionInv

\* A chain of pings goes on, or ends because the socket is closed.
LEMMA KeepAliveKeepsConnection == ConnectionInv /\ KeepAlive => ConnectionInv'
<1>. SUFFICES ASSUME ConnectionInv, KeepAlive PROVE ConnectionInv'
  OBVIOUS
<1>1. /\ chains > 0
      /\ chains' = IF ws = "CLOSED" THEN chains - 1 ELSE chains
      /\ UNCHANGED <<kind, ws, socket, handler, reconnect, told>>
  BY DEF KeepAlive
<1>2. ConnectionType'
  BY <1>1 DEF ConnectionInv, ConnectionType
<1>3. OneChainEach' /\ MayReconnect' /\ NeverForgotten' /\ KeptAlive'
  BY <1>1 DEF ConnectionInv, ConnectionType, OneChainEach, MayReconnect,
              NeverForgotten, KeptAlive, cb
<1>. QED
  BY <1>2, <1>3 DEF ConnectionInv

\* No other step concerns the connection.
LEMMA ConnectionUnchanged ==
  ConnectionInv /\ UNCHANGED <<kind, connVars>> => ConnectionInv'
BY DEF connVars, ConnectionInv, ConnectionType, OneChainEach, MayReconnect,
       NeverForgotten, KeptAlive, cb

-----------------------------------------------------------------------------
(* The messages.                                                           *)

\* At first there are none.
LEMMA InitialData == Init => DataInv
<1>. SUFFICES ASSUME Init PROVE DataInv
  OBVIOUS
<1>1. inbox = <<>> /\ down = <<>>
  BY DEF Init
<1>2. kernel \in [mem : [Addr -> Nat], tracing : BOOLEAN] /\ lost \in BOOLEAN
  BY DEF Init, Blank, Nothing
<1>3. page \in Page
  BY ConnectionAssumption DEF Init, Page, Blank, Nothing
<1>4. DataType
  BY <1>1, <1>2, <1>3 DEF DataType
<1>5. RunsAreWritten /\ RunsWhatWasSent
  BY <1>1 DEF RunsAreWritten, WrittenFirst, RunsWhatWasSent
<1>. QED
  BY <1>4, <1>5 DEF DataInv

\* A step that changes only what the page shows.
LEMMA PageStep ==
  ASSUME DataInv, UNCHANGED <<inbox, down, kernel, lost>>, page' \in Page
  PROVE  DataInv'
<1>1. DataType'
  BY DEF DataInv, DataType
<1>2. RunsAreWritten'
  BY DEF DataInv, RunsAreWritten, WrittenFirst, IsWritten, Writes
<1>3. RunsWhatWasSent'
  BY DEF DataInv, RunsWhatWasSent
<1>. QED
  BY <1>1, <1>2, <1>3 DEF DataInv

\* A step that sends messages.
LEMMA SendStep ==
  ASSUME ConnectionInv, DataInv, NEW ms \in Seq(Request),
         SelfContained(Batch(ms)), Send(ms),
         UNCHANGED <<down, kernel>>, page' \in Page
  PROVE  DataInv'
<1>1. /\ inbox' \in Seq(Message)
      /\ WrittenFirst(inbox', kernel.mem)
      /\ lost' \in BOOLEAN
  BY SendKeeps DEF ConnectionInv
<1>2. DataType'
  BY <1>1 DEF DataInv, DataType
<1>3. RunsAreWritten'
  BY <1>1 DEF RunsAreWritten
<1>4. RunsWhatWasSent'
  BY DEF DataInv, RunsWhatWasSent
<1>. QED
  BY <1>2, <1>3, <1>4 DEF DataInv

\* The socket's end leaves the server a part of the messages.
LEMMA CloseKeepsData == DataInv /\ SocketCloses => DataInv'
<1>. SUFFICES ASSUME DataInv, SocketCloses PROVE DataInv'
  OBVIOUS
<1>1. PICK n \in 0 .. Len(inbox) : inbox' = SubSeq(inbox, 1, n)
  BY DEF SocketCloses
<1>2. inbox \in Seq(Message) /\ RunsAreWritten
  BY DEF DataInv, DataType
<1>3. WrittenFirst(inbox', kernel.mem)
  BY <1>1, <1>2, PrefixWritten DEF RunsAreWritten
<1>4. /\ down' = <<>> /\ UNCHANGED <<kernel, page>>
      /\ lost' \in BOOLEAN
  BY DEF SocketCloses, DataInv, DataType
<1>5. inbox' \in Seq(Message)
  BY <1>1, <1>2
<1>6. DataType'
  BY <1>4, <1>5 DEF DataInv, DataType
<1>7. RunsAreWritten'
  BY <1>3, <1>4 DEF RunsAreWritten
<1>8. RunsWhatWasSent'
  BY <1>4 DEF RunsWhatWasSent
<1>. QED
  BY <1>6, <1>7, <1>8 DEF DataInv

\* The result of a run is of the program that was sent with it.
IsResult(m) == \A a \in Lines(m.lines) : m.ran[a] = m.program

\* What the server answers has a type, and is the sent program's result if it
\* answers the first message that waits.
LEMMA AnswerOfFirst ==
  ASSUME DataInv, inbox # <<>>
  PROVE  /\ Head(inbox) \in Message /\ Head(inbox).msg \in Request
         /\ Answer(kernel, Head(inbox).msg) \in Response
         /\ Answer(kernel, Head(inbox).msg).type = "RUN"
              => IsResult(Answer(kernel, Head(inbox).msg))
<1>. DEFINE m == Head(inbox).msg
<1>1. /\ inbox \in Seq(Message) /\ Len(inbox) \in Nat \ {0}
      /\ Head(inbox) = inbox[1] /\ Head(inbox) \in Message
  BY DEF DataInv, DataType
<1>2. m \in Request
  BY <1>1 DEF Message
<1>3. kernel.mem \in [Addr -> Nat] /\ 0 \in Addr
  BY ConnectionAssumption DEF DataInv, DataType, Addr
<1>4. m.type = "RUN" => Holds(kernel.mem, m)
  <2>1. 1 \in 1 .. Len(inbox)
    BY <1>1
  <2>2. m.type = "RUN" => IsWritten(inbox, 1, kernel.mem)
    BY <1>1, <2>1 DEF DataInv, RunsAreWritten, WrittenFirst
  <2>. QED
    BY <1>1, <2>2 DEF IsWritten
<1>. HIDE DEF m
<1>5. CASE m.type = "WRITE" /\ m.addrs # {}
  <2>1. m.program \in Nat
    BY <1>2, <1>5 DEF Request
  <2>2. Answer(kernel, m) = [type |-> "WRITE", program |-> m.program]
    BY <1>5 DEF Answer
  <2>3. Answer(kernel, m) \in Response /\ Answer(kernel, m).type = "WRITE"
    BY <2>1, <2>2 DEF Response
  <2>. QED
    BY <1>1, <1>2, <2>3 DEF m
<1>6. CASE m.type = "READ"
  <2>1. m.addr \in Addr
    BY <1>2, <1>6 DEF Request
  <2>2. kernel.mem[m.addr] \in Nat
    BY <1>3, <2>1
  <2>3. Answer(kernel, m) = [type |-> "READ", addr |-> m.addr, program |-> kernel.mem[m.addr]]
    BY <1>6 DEF Answer
  <2>4. Answer(kernel, m) \in Response /\ Answer(kernel, m).type = "READ"
    BY <2>1, <2>2, <2>3 DEF Response
  <2>. QED
    BY <1>1, <1>2, <2>4 DEF m
<1>7. CASE m.type = "RUN"
  <2>1. m.program \in Nat /\ m.lines \in 0 .. IMEM_SIZE
    BY <1>2, <1>7 DEF Request
  <2>2. Answer(kernel, m) = [type |-> "RUN", program |-> m.program, lines |-> m.lines,
                             ran |-> kernel.mem]
    BY <1>7 DEF Answer
  <2>3. Answer(kernel, m) \in Response
    BY <1>3, <2>1, <2>2 DEF Response
  <2>4. IsResult(Answer(kernel, m))
    BY <1>4, <1>7, <2>2 DEF Holds, IsResult
  <2>. QED
    BY <1>1, <1>2, <2>3, <2>4 DEF m
<1>8. CASE m.type = "DATA"
  <2>1. m.program \in Nat
    BY <1>2, <1>8 DEF Request
  <2>2. Answer(kernel, m) = [type |-> "DATA", program |-> m.program]
    BY <1>8 DEF Answer
  <2>3. Answer(kernel, m) \in Response /\ Answer(kernel, m).type = "DATA"
    BY <2>1, <2>2 DEF Response
  <2>. QED
    BY <1>1, <1>2, <2>3 DEF m
<1>9. CASE m.type \notin {"WRITE", "READ", "RUN", "DATA"}
  <2>1. Answer(kernel, m) = [type |-> "typed"]
    BY <1>9 DEF Answer
  <2>2. Answer(kernel, m) \in Response /\ Answer(kernel, m).type = "typed"
    BY <2>1 DEF Response
  <2>. QED
    BY <1>1, <1>2, <2>2 DEF m
<1>10. CASE m.type = "WRITE" /\ m.addrs = {}
  <2>1. Answer(kernel, m) = [type |-> "empty"]
    BY <1>10 DEF Answer
  <2>2. Answer(kernel, m) \in Response /\ Answer(kernel, m).type = "empty"
    BY <2>1 DEF Response
  <2>. QED
    BY <1>1, <1>2, <2>2 DEF m
<1>. QED
  BY <1>5, <1>6, <1>7, <1>8, <1>9, <1>10

\* The server serves the first message.
LEMMA ServeKeepsData == DataInv /\ Serve => DataInv'
<1>. SUFFICES ASSUME DataInv, Serve PROVE DataInv'
  OBVIOUS
<1>. DEFINE m == Head(inbox).msg
            a == Answer(kernel, m)
<1>1. /\ inbox # <<>> /\ inbox' = Tail(inbox) /\ UNCHANGED <<page, lost>>
      /\ kernel' = Served(kernel, m)
      /\ \/ down' = Append(down, [Head(inbox) EXCEPT !.msg = a])
         \/ down' = down
  BY DEF Serve
<1>2. /\ Head(inbox) \in Message /\ m \in Request
      /\ a \in Response /\ (a.type = "RUN" => IsResult(a))
  BY <1>1, AnswerOfFirst
<1>3. /\ inbox \in Seq(Message) /\ down \in Seq(Reply)
      /\ kernel \in [mem : [Addr -> Nat], tracing : BOOLEAN] /\ page \in Page /\ lost \in BOOLEAN
  BY DEF DataInv, DataType
<1>4. /\ kernel' \in [mem : [Addr -> Nat], tracing : BOOLEAN]
      /\ m.type = "WRITE" => \A x \in m.addrs : kernel'.mem[x] = m.program
      /\ m.type # "WRITE" => kernel'.mem = kernel.mem
  <2>2. CASE m.type = "WRITE"
    <3>1. m.program \in Nat /\ m.addrs \subseteq Addr
      BY <1>2, <2>2 DEF Request
    <3>. DEFINE mem2 == [x \in Addr |-> IF x \in m.addrs THEN m.program ELSE kernel.mem[x]]
    <3>2. kernel' = [kernel EXCEPT !.mem = mem2]
      BY <1>1, <2>2 DEF Served
    <3>3. mem2 \in [Addr -> Nat] /\ \A x \in m.addrs : mem2[x] = m.program
      BY <1>3, <3>1
    <3>. HIDE DEF mem2
    <3>. QED
      BY <1>3, <2>2, <3>2, <3>3
  <2>3. CASE m.type = "START_TRACING"
    BY <1>1, <1>3, <2>3 DEF Served
  <2>4. CASE m.type = "STOP_TRACING"
    BY <1>1, <1>3, <2>4 DEF Served
  <2>5. CASE m.type \notin {"WRITE", "START_TRACING", "STOP_TRACING"}
    BY <1>1, <1>3, <2>5 DEF Served
  <2>. QED
    BY <2>2, <2>3, <2>4, <2>5
<1>5. WrittenFirst(inbox', kernel'.mem)
  <2>1. WrittenFirst(inbox, kernel.mem)
    BY DEF DataInv, RunsAreWritten
  <2>2. WrittenFirst(Tail(inbox), kernel'.mem)
    BY <1>1, <1>3, <1>4, <2>1, TailWritten
  <2>. QED
    BY <1>1, <2>2
<1>. DEFINE r == [Head(inbox) EXCEPT !.msg = a]
<1>6. r \in Reply /\ r.msg = a
  BY <1>2 DEF Message, Reply
<1>. HIDE DEF a, m, r
<1>7. /\ down' \in Seq(Reply)
      /\ \A i \in 1 .. Len(down') :
           down'[i].msg.type = "RUN" => IsResult(down'[i].msg)
  <2>1. \A i \in 1 .. Len(down) :
          down[i].msg.type = "RUN" => IsResult(down[i].msg)
    BY DEF DataInv, RunsWhatWasSent, IsResult
  <2>2. CASE down' = down
    BY <1>3, <2>1, <2>2
  <2>3. CASE down' = Append(down, r)
    <3>1. /\ down' \in Seq(Reply)
          /\ Len(down') = Len(down) + 1 /\ Len(down) \in Nat
          /\ \A i \in 1 .. Len(down) : down'[i] = down[i]
          /\ down'[Len(down) + 1] = r
      BY <1>3, <1>6, <2>3
    <3>. QED
      BY <1>2, <1>6, <2>1, <3>1
  <2>. QED
    BY <1>1, <2>2, <2>3 DEF r, a
<1>8. inbox' \in Seq(Message)
  BY <1>1, <1>3
<1>9. DataType'
  BY <1>1, <1>3, <1>4, <1>7, <1>8 DEF DataType
<1>. QED
  BY <1>5, <1>7, <1>9 DEF DataInv, RunsAreWritten, RunsWhatWasSent, IsResult

\* What the page shows keeps its type.
LEMMA ShownType ==
  ASSUME NEW p \in Page, NEW m \in Response
  PROVE  Shown(p, m) \in Page
<1>1. CASE m.type \in {"WRITE", "DATA"}
  <2>1. m.program \in Nat
    BY <1>1 DEF Response
  <2>2. Shown(p, m) = [p EXCEPT !.rx = m.program]
    BY <1>1 DEF Shown
  <2>. QED
    BY <2>1, <2>2 DEF Page
<1>2. CASE m.type = "READ"
  <2>1. m.program \in Nat /\ m.addr \in Addr
    BY <1>2 DEF Response
  <2>2. Shown(p, m) = [p EXCEPT !.imem[m.addr] = m.program]
    BY <1>2 DEF Shown
  <2>. QED
    BY <2>1, <2>2 DEF Page
<1>3. CASE m.type = "RUN"
  <2>1. m.ran \in [Addr -> Nat]
    BY <1>3 DEF Response
  <2>2. Shown(p, m) = [p EXCEPT !.rsp = m.ran]
    BY <1>3 DEF Shown
  <2>. QED
    BY <2>1, <2>2 DEF Page
<1>4. CASE m.type \notin {"WRITE", "DATA", "READ", "RUN"}
  BY <1>4 DEF Shown
<1>. QED
  BY <1>1, <1>2, <1>3, <1>4

\* An answer arrives.
LEMMA ReceiveKeepsData == DataInv /\ Receive => DataInv'
<1>. SUFFICES ASSUME DataInv, Receive PROVE DataInv'
  OBVIOUS
<1>1. /\ down # <<>> /\ down' = Tail(down) /\ UNCHANGED <<inbox, kernel, lost>>
      /\ \/ page' = page
         \/ page' = Shown(page, Head(down).msg)
  BY DEF Receive
<1>2. down \in Seq(Reply) /\ page \in Page
  BY DEF DataInv, DataType
<1>3. Head(down).msg \in Response
  <2>1. Head(down) \in Reply
    BY <1>1, <1>2
  <2>. QED
    BY <2>1 DEF Reply
<1>4. page' \in Page
  <2>1. CASE page' = page
    BY <1>2, <2>1
  <2>2. CASE page' = Shown(page, Head(down).msg)
    BY <1>2, <1>3, <2>2, ShownType
  <2>. QED
    BY <1>1, <2>1, <2>2
<1>5. DataType'
  <2>1. down' \in Seq(Reply)
    BY <1>1, <1>2
  <2>. QED
    BY <1>1, <1>4, <2>1 DEF DataInv, DataType
<1>6. RunsAreWritten'
  BY <1>1 DEF DataInv, RunsAreWritten, WrittenFirst, IsWritten, Writes
<1>7. RunsWhatWasSent'
  <2>1. /\ Len(down') = Len(down) - 1 /\ Len(down) \in Nat \ {0}
        /\ \A i \in 1 .. Len(down) - 1 : down'[i] = down[i + 1]
    BY <1>1, <1>2
  <2>2. ASSUME NEW i \in 1 .. Len(down'), down'[i].msg.type = "RUN"
        PROVE  IsResult(down'[i].msg)
    <3>1. i + 1 \in 1 .. Len(down) /\ down'[i] = down[i + 1]
      BY <2>1
    <3>. QED
      BY <2>2, <3>1 DEF DataInv, RunsWhatWasSent, IsResult
  <2>. QED
    BY <2>2 DEF RunsWhatWasSent, IsResult
<1>. QED
  BY <1>5, <1>6, <1>7 DEF DataInv

\* A ping is sent to an open socket.
LEMMA KeepAliveKeepsData == ConnectionInv /\ DataInv /\ KeepAlive => DataInv'
<1>. SUFFICES ASSUME ConnectionInv, DataInv, KeepAlive PROVE DataInv'
  OBVIOUS
<1>1. UNCHANGED <<down, kernel, page>> /\ page \in Page
  BY DEF KeepAlive, DataInv, DataType
<1>2. CASE ws = "OPEN"
  <2>1. Send(<<[type |-> "PING"]>>)
    BY <1>2 DEF KeepAlive
  <2>2. [type |-> "PING"] \in Request
    BY DEF Request
  <2>3. /\ <<[type |-> "PING"]>> \in Seq(Request)
        /\ SelfContained(Batch(<<[type |-> "PING"]>>))
    BY <2>2, OneMessage
  <2>. QED
    BY <1>1, <2>1, <2>3, SendStep
<1>3. CASE ws # "OPEN"
  BY <1>1, <1>3, PageStep DEF KeepAlive
<1>. QED
  BY <1>2, <1>3

\* Changes of the page that keep its type.
LEMMA PageUpdates ==
  ASSUME NEW p \in Page, NEW n \in Nat, NEW k \in Nat, NEW t \in BOOLEAN
  PROVE  /\ [p EXCEPT !.tracing = t, !.traces = n] \in Page
         /\ [p EXCEPT !.sent = k] \in Page
         /\ [p EXCEPT !.run = n] \in Page
         /\ {p.run, p.sent} \subseteq Nat
BY DEF Page

\* Those of a run.
LEMMA RunUpdates ==
  ASSUME NEW p \in Page, NEW n \in Nat, NEW k \in Nat,
         NEW l \in 0 .. IMEM_SIZE, NEW f \in [Addr -> Nat]
  PROVE  /\ [p EXCEPT !.button = "disabled", !.run = n, !.lines = l, !.rx = k, !.rsp = f]
              \in Page
         /\ [p EXCEPT !.button = "enabled", !.lines = l] \in Page
BY DEF Page

\* Put keeps the type of the page.
LEMMA PutType ==
  ASSUME NEW p \in Page, NEW ms, Put(ms, p)
  PROVE  page' \in Page
<1>1. p.run \in Nat /\ p.sent \in Nat
  BY DEF Page
<1>. DEFINE k == IF ws = "OPEN" THEN p.run ELSE p.sent
<1>2. k \in Nat
  BY <1>1
<1>3. page' = [p EXCEPT !.sent = k]
  BY DEF Put
<1>. HIDE DEF k
<1>. QED
  BY <1>2, <1>3, PageUpdates

\* The run button's program, if assembled, is sent as one batch.
LEMMA AssembledKeepsData == ConnectionInv /\ DataInv /\ Assembled => DataInv'
<1>. SUFFICES ASSUME ConnectionInv, DataInv, Assembled PROVE DataInv'
  OBVIOUS
<1>1. page \in Page /\ page.run \in Nat
  BY DEF DataInv, DataType, Page
<1>2. ASSUME NEW c \in Converted,
             Put(RunMessages(page.run, c.addrs, c.lines),
                 [page EXCEPT !.button = "enabled", !.lines = c.lines])
      PROVE  DataInv'
  <2>1. /\ RunMessages(page.run, c.addrs, c.lines) \in Seq(Request)
        /\ SelfContained(Batch(RunMessages(page.run, c.addrs, c.lines)))
    BY <1>1, RunsBringPrograms
  <2>2. /\ Send(RunMessages(page.run, c.addrs, c.lines)) /\ UNCHANGED <<down, kernel>>
    BY <1>2 DEF Put, Assembled
  <2>3. page' \in Page
    <3>1. [page EXCEPT !.button = "enabled", !.lines = c.lines] \in Page
      <4>1. c.lines \in 0 .. IMEM_SIZE /\ Blank \in [Addr -> Nat]
        BY DEF Converted, Blank, Nothing
      <4>. QED
        BY <1>1, <4>1, RunUpdates
    <3>. QED
      BY <1>2, <3>1, PutType
  <2>. QED
    BY <1>1, <2>1, <2>2, <2>3, SendStep
<1>3. CASE page' = [page EXCEPT !.button = "stuck"] /\ UNCHANGED <<inbox, lost>>
  <2>1. page' \in Page /\ UNCHANGED <<inbox, down, kernel, lost>>
    BY <1>1, <1>3 DEF Page, Assembled
  <2>. QED
    BY <2>1, PageStep
<1>. QED
  BY <1>2, <1>3 DEF Assembled

\* The test bench sends its data.
LEMMA SendDataKeepsData == ConnectionInv /\ DataInv /\ SendData => DataInv'
<1>. SUFFICES ASSUME ConnectionInv, DataInv, SendData PROVE DataInv'
  OBVIOUS
<1>. DEFINE m == [type |-> "DATA", program |-> page.run + 1]
<1>1. page \in Page /\ page.run \in Nat
  BY DEF DataInv, DataType, Page
<1>2. m \in Request /\ m.type # "RUN"
  BY <1>1 DEF Request
<1>3. Put(<<m>>, [page EXCEPT !.run = @ + 1]) /\ UNCHANGED <<down, kernel>>
  BY DEF SendData
<1>. HIDE DEF m
<1>4. <<m>> \in Seq(Request) /\ SelfContained(Batch(<<m>>))
  BY <1>2, OneMessage
<1>5. Send(<<m>>) /\ page' \in Page
  <2>1. [page EXCEPT !.run = page.run + 1] \in Page
    <3>1. page.run + 1 \in Nat
      BY <1>1
    <3>. QED
      BY <1>1, <3>1, PageUpdates
  <2>2. page' \in Page
    BY <1>3, <2>1, PutType
  <2>. QED
    BY <1>3, <2>2 DEF Put
<1>. QED
  BY <1>1, <1>3, <1>4, <1>5, SendStep

\* The trace button sends one message.
LEMMA TraceKeepsData == ConnectionInv /\ DataInv /\ TraceButton => DataInv'
<1>. SUFFICES ASSUME ConnectionInv, DataInv, TraceButton PROVE DataInv'
  OBVIOUS
<1>1. /\ page \in Page
      /\ page.traces \in Nat /\ page.tracing \in BOOLEAN
  BY DEF DataInv, DataType, Page
<1>2. TraceMessage \in Request /\ TraceMessage.type # "RUN"
  BY DEF TraceMessage, Request
<1>3. /\ Send(<<TraceMessage>>) /\ UNCHANGED <<down, kernel>>
      /\ page' = [page EXCEPT !.tracing = ~ @, !.traces = @ + 1]
  BY DEF TraceButton
<1>4. page' \in Page
  <2>1. page.traces + 1 \in Nat /\ (~ page.tracing) \in BOOLEAN
    BY <1>1
  <2>. DEFINE t == ~ page.tracing
              n == page.traces + 1
  <2>2. page' = [page EXCEPT !.tracing = t, !.traces = n]
    BY <1>3
  <2>. HIDE DEF t, n
  <2>3. t \in BOOLEAN /\ n \in Nat
    BY <2>1 DEF t, n
  <2>. QED
    BY <1>1, <2>2, <2>3, PageUpdates
<1>5. <<TraceMessage>> \in Seq(Request) /\ SelfContained(Batch(<<TraceMessage>>))
  BY <1>2, OneMessage
<1>. QED
  BY <1>1, <1>3, <1>4, <1>5, SendStep

\* The buttons that send nothing.
LEMMA ButtonsKeepData ==
  DataInv /\ (RunButton \/ AssemblyFails \/ ParseTxData) => DataInv'
<1>. SUFFICES ASSUME DataInv, RunButton \/ AssemblyFails \/ ParseTxData
              PROVE  DataInv'
  OBVIOUS
<1>1. page \in Page
  BY DEF DataInv, DataType
<1>2. UNCHANGED <<inbox, down, kernel, lost>>
  BY DEF RunButton, AssemblyFails, ParseTxData
<1>3. CASE RunButton
  <2>1. page' \in Page
    <3>1. /\ page.run + 1 \in Nat /\ Nothing \in Nat /\ 0 \in 0 .. IMEM_SIZE
          /\ Blank \in [Addr -> Nat]
      BY <1>1, ConnectionAssumption DEF Page, Nothing, Blank
    <3>2. page' = [page EXCEPT !.button = "disabled", !.run = page.run + 1, !.lines = 0,
                               !.rx = Nothing, !.rsp = Blank]
      BY <1>3 DEF RunButton
    <3>. QED
      BY <1>1, <3>1, <3>2, RunUpdates
  <2>. QED
    BY <1>2, <2>1, PageStep
<1>4. CASE AssemblyFails
  <2>1. page' \in Page
    BY <1>1, <1>4 DEF AssemblyFails, Page
  <2>. QED
    BY <1>2, <2>1, PageStep
<1>5. CASE ParseTxData
  <2>1. page' \in Page
    BY <1>1, <1>5 DEF ParseTxData, Page
  <2>. QED
    BY <1>2, <2>1, PageStep
<1>. QED
  BY <1>3, <1>4, <1>5

-----------------------------------------------------------------------------
(* The kernel's tracing: what the inbox will make of it.                    *)

IsTrace(m) == m.msg.type \in {"START_TRACING", "STOP_TRACING"}

\* Of the messages q that wait the last about tracing asks for p; if there is
\* none, the kernel traces (k) as p says.
WillTrace(q, k, p) ==
  /\ (\A i \in 1 .. Len(q) : ~ IsTrace(q[i])) => k = p
  /\ \A i \in 1 .. Len(q) :
       IsTrace(q[i]) /\ (\A j \in i + 1 .. Len(q) : ~ IsTrace(q[j]))
         => p = (q[i].msg.type = "START_TRACING")

TracingInv == ~ lost => WillTrace(inbox, kernel.tracing, page.tracing)

\* Messages about other things change nothing.
LEMMA OthersAppended ==
  ASSUME NEW S, NEW q \in Seq(S), NEW b \in Seq(S), NEW k, NEW p,
         \A i \in 1 .. Len(b) : ~ IsTrace(b[i]),
         WillTrace(q, k, p)
  PROVE  WillTrace(q \o b, k, p)
<1>. DEFINE r == q \o b
<1>1. /\ Len(r) = Len(q) + Len(b) /\ Len(q) \in Nat /\ Len(b) \in Nat
      /\ \A i \in 1 .. Len(q) : r[i] = q[i]
      /\ \A i \in 1 .. Len(b) : r[i + Len(q)] = b[i]
  BY Concatenation
<1>. HIDE DEF r
<1>2. ASSUME NEW i \in 1 .. Len(r), i > Len(q)
      PROVE  ~ IsTrace(r[i])
  <2>1. i - Len(q) \in 1 .. Len(b) /\ (i - Len(q)) + Len(q) = i
    BY <1>1, <1>2
  <2>2. r[i] = b[i - Len(q)]
    BY <1>1, <2>1
  <2>. QED
    BY <2>1, <2>2
<1>3. ASSUME \A i \in 1 .. Len(r) : ~ IsTrace(r[i])
      PROVE  k = p
  <2>1. ASSUME NEW i \in 1 .. Len(q) PROVE ~ IsTrace(q[i])
    <3>1. i \in 1 .. Len(r) /\ r[i] = q[i]
      BY <1>1
    <3>. QED
      BY <1>3, <3>1
  <2>. QED
    BY <2>1 DEF WillTrace
<1>4. ASSUME NEW i \in 1 .. Len(r), IsTrace(r[i]),
             \A j \in i + 1 .. Len(r) : ~ IsTrace(r[j])
      PROVE  p = (r[i].msg.type = "START_TRACING")
  <2>1. i \in 1 .. Len(q) /\ r[i] = q[i]
    BY <1>1, <1>2, <1>4
  <2>2. ASSUME NEW j \in i + 1 .. Len(q) PROVE ~ IsTrace(q[j])
    <3>1. j \in i + 1 .. Len(r) /\ j \in 1 .. Len(q)
      BY <1>1, <2>1
    <3>. QED
      BY <1>1, <1>4, <3>1
  <2>. QED
    BY <1>4, <2>1, <2>2 DEF WillTrace
<1>. QED
  BY <1>3, <1>4 DEF WillTrace, r

\* A message about tracing decides, whatever waits before it.
LEMMA TraceAppended ==
  ASSUME NEW S, NEW q \in Seq(S), NEW m \in S, IsTrace(m), NEW k
  PROVE  WillTrace(q \o <<m>>, k, m.msg.type = "START_TRACING")
<1>. DEFINE r == q \o <<m>>
<1>1. Len(r) = Len(q) + 1 /\ Len(q) \in Nat /\ r[Len(q) + 1] = m
  OBVIOUS
<1>. HIDE DEF r
<1>2. Len(r) \in 1 .. Len(r) /\ r[Len(r)] = m
  BY <1>1
<1>3. ASSUME NEW i \in 1 .. Len(r), \A j \in i + 1 .. Len(r) : ~ IsTrace(r[j])
      PROVE  i = Len(r)
  <2>1. CASE i # Len(r)
    <3>1. Len(r) \in i + 1 .. Len(r)
      BY <1>1, <2>1
    <3>. QED
      BY <1>2, <1>3, <3>1
  <2>. QED
    BY <2>1
<1>. QED
  BY <1>2, <1>3 DEF WillTrace, r

\* A message is served (Served).
LEMMA TraceServed ==
  ASSUME NEW S, NEW q \in Seq(S), q # <<>>, NEW k, NEW k2, NEW p, WillTrace(q, k, p),
         k2 = IF IsTrace(Head(q)) THEN Head(q).msg.type = "START_TRACING" ELSE k
  PROVE  WillTrace(Tail(q), k2, p)
<1>. DEFINE r == Tail(q)
<1>1. /\ Len(r) = Len(q) - 1 /\ Len(q) \in Nat \ {0} /\ Head(q) = q[1]
      /\ \A i \in 1 .. Len(q) - 1 : r[i] = q[i + 1]
  OBVIOUS
<1>. HIDE DEF r
<1>2. ASSUME \A i \in 1 .. Len(r) : ~ IsTrace(r[i])
      PROVE  k2 = p
  <2>1. ASSUME NEW i \in 2 .. Len(q) PROVE ~ IsTrace(q[i])
    <3>1. i - 1 \in 1 .. Len(r) /\ q[i] = r[i - 1]
      BY <1>1
    <3>. QED
      BY <1>2, <3>1
  <2>2. CASE IsTrace(q[1])
    <3>1. 1 \in 1 .. Len(q) /\ \A j \in 1 + 1 .. Len(q) : ~ IsTrace(q[j])
      BY <1>1, <2>1
    <3>2. p = (q[1].msg.type = "START_TRACING")
      BY <2>2, <3>1 DEF WillTrace
    <3>. QED
      BY <1>1, <2>2, <3>2
  <2>3. CASE ~ IsTrace(q[1])
    <3>1. \A i \in 1 .. Len(q) : ~ IsTrace(q[i])
      BY <1>1, <2>1, <2>3
    <3>. QED
      BY <1>1, <2>3, <3>1 DEF WillTrace
  <2>. QED
    BY <2>2, <2>3
<1>3. ASSUME NEW i \in 1 .. Len(r), IsTrace(r[i]),
             \A j \in i + 1 .. Len(r) : ~ IsTrace(r[j])
      PROVE  p = (r[i].msg.type = "START_TRACING")
  <2>1. i + 1 \in 1 .. Len(q) /\ r[i] = q[i + 1]
    BY <1>1
  <2>2. ASSUME NEW j \in (i + 1) + 1 .. Len(q) PROVE ~ IsTrace(q[j])
    <3>1. j - 1 \in i + 1 .. Len(r) /\ q[j] = r[j - 1]
      BY <1>1
    <3>. QED
      BY <1>3, <3>1
  <2>. QED
    BY <1>3, <2>1, <2>2 DEF WillTrace
<1>. QED
  BY <1>2, <1>3 DEF WillTrace, r

\* A run's messages are about other things.
LEMMA RunsTraceNothing ==
  ASSUME NEW n \in Nat, NEW c \in Converted
  PROVE  \A i \in 1 .. Len(RunMessages(n, c.addrs, c.lines)) :
           RunMessages(n, c.addrs, c.lines)[i].type
             \notin {"START_TRACING", "STOP_TRACING"}
<1>. DEFINE w == <<[type |-> "WRITE", program |-> n, addrs |-> c.addrs]>>
            r == [i \in 1 .. IMEM_SIZE |-> [type |-> "READ", addr |-> i - 1]]
            g == <<[type |-> "RUN", program |-> n, lines |-> c.lines]>>
            Other(q) == \A i \in 1 .. Len(q) : q[i].type \notin {"START_TRACING", "STOP_TRACING"}
<1>. DEFINE S == Request
<1>1. IMEM_SIZE \in Nat
  BY ConnectionAssumption
<1>2. w \in Seq(S) /\ g \in Seq(S) /\ r \in Seq(S)
  <2>1. ASSUME NEW i \in 1 .. IMEM_SIZE
        PROVE  [type |-> "READ", addr |-> i - 1] \in Request
    BY <1>1 DEF Request, Addr
  <2>2. c.addrs \in SUBSET Addr /\ c.lines \in 0 .. IMEM_SIZE
    BY DEF Converted
  <2>. QED
    BY <1>1, <2>1, <2>2 DEF Request
<1>3. Other(w) /\ Other(r) /\ Other(g)
  BY <1>1
<1>4. RunMessages(n, c.addrs, c.lines) = (w \o r) \o g
  BY DEF RunMessages
<1>. HIDE DEF w, r, g, S
<1>5. ASSUME NEW q \in Seq(S), NEW b \in Seq(S), Other(q), Other(b)
      PROVE  Other(q \o b)
  <2>1. ASSUME NEW i \in 1 .. Len(q \o b)
        PROVE  (q \o b)[i].type \notin {"START_TRACING", "STOP_TRACING"}
    <3>1. CASE i <= Len(q)
      <4>1. i \in 1 .. Len(q) /\ (q \o b)[i] = q[i]
        BY <3>1
      <4>. QED
        BY <1>5, <4>1
    <3>2. CASE i > Len(q)
      <4>1. i - Len(q) \in 1 .. Len(b) /\ (q \o b)[i] = b[i - Len(q)]
        BY <3>2
      <4>. QED
        BY <1>5, <4>1
    <3>. QED
      BY <3>1, <3>2
  <2>. QED
    BY <2>1
<1>6. Other(w \o r) /\ w \o r \in Seq(S)
  BY <1>2, <1>3, <1>5
<1>7. Other((w \o r) \o g)
  BY <1>2, <1>3, <1>5, <1>6
<1>. QED
  BY <1>4, <1>7

\* Messages about other things are sent.
LEMMA OthersSent ==
  ASSUME DataInv, TracingInv, ConnectionType,
         NEW ms \in Seq(Request), \A i \in 1 .. Len(ms) :
           ms[i].type \notin {"START_TRACING", "STOP_TRACING"},
         Send(ms), kernel' = kernel, page'.tracing = page.tracing
  PROVE  TracingInv'
<1>. SUFFICES ASSUME ~ lost' PROVE WillTrace(inbox', kernel.tracing, page.tracing)
  BY DEF TracingInv
<1>1. ~ lost /\ ws = "OPEN" /\ inbox' = inbox \o Batch(ms)
  BY DEF Send, Batch
<1>2. inbox \in Seq(Message) /\ WillTrace(inbox, kernel.tracing, page.tracing)
  BY <1>1 DEF DataInv, DataType, TracingInv
<1>3. Batch(ms) \in Seq(Message)
  BY BatchType DEF ConnectionType
<1>4. \A i \in 1 .. Len(Batch(ms)) : ~ IsTrace(Batch(ms)[i])
  BY DEF Batch, IsTrace
<1>. QED
  BY <1>1, <1>2, <1>3, <1>4, OthersAppended

\* The trace button's message says what the page has become.
LEMMA TraceButtonKeepsTracing ==
  DataInv /\ ConnectionType /\ TraceButton => TracingInv'
<1>. SUFFICES ASSUME DataInv, ConnectionType, TraceButton, ~ lost'
              PROVE  WillTrace(inbox', kernel'.tracing, page'.tracing)
  BY DEF TracingInv
<1>. DEFINE m == [msg |-> TraceMessage, socket |-> socket]
<1>1. page \in Page /\ inbox \in Seq(Message)
  BY DEF DataInv, DataType
<1>2. /\ page'.tracing = ~ page.tracing
      /\ Send(<<TraceMessage>>)
  BY <1>1 DEF TraceButton, Page
<1>3. inbox' = inbox \o <<m>>
  <2>1. [i \in 1 .. Len(<<TraceMessage>>) |-> [msg |-> <<TraceMessage>>[i], socket |-> socket]] = <<m>>
    OBVIOUS
  <2>. QED
    BY <1>2, <2>1 DEF Send
<1>4. m \in Message /\ IsTrace(m) /\ m.msg.type = TraceMessage.type
  <2>1. TraceMessage \in Request
    BY DEF TraceMessage, Request
  <2>. QED
    BY <2>1 DEF Message, IsTrace, TraceMessage, ConnectionType
<1>5. (m.msg.type = "START_TRACING") = page'.tracing
  <2>1. page.tracing \in BOOLEAN
    BY <1>1 DEF Page
  <2>. HIDE DEF m
  <2>2. CASE page.tracing
    BY <1>2, <1>4, <2>2 DEF TraceMessage
  <2>3. CASE ~ page.tracing
    BY <1>2, <1>4, <2>3 DEF TraceMessage
  <2>. QED
    BY <2>2, <2>3
<1>. HIDE DEF m
<1>. QED
  BY <1>1, <1>3, <1>4, <1>5, TraceAppended

\* The server serves a message.
LEMMA ServeKeepsTracing == DataInv /\ TracingInv /\ Serve => TracingInv'
<1>. SUFFICES ASSUME DataInv, TracingInv, Serve, ~ lost'
              PROVE  WillTrace(inbox', kernel'.tracing, page'.tracing)
  BY DEF TracingInv
<1>1. /\ inbox # <<>> /\ inbox' = Tail(inbox) /\ UNCHANGED <<page, lost>>
      /\ kernel' = Served(kernel, Head(inbox).msg)
  BY DEF Serve
<1>2. /\ inbox \in Seq(Message) /\ kernel \in [mem : [Addr -> Nat], tracing : BOOLEAN]
      /\ WillTrace(inbox, kernel.tracing, page.tracing)
  BY <1>1 DEF DataInv, DataType, TracingInv
<1>3. kernel'.tracing = IF IsTrace(Head(inbox)) THEN Head(inbox).msg.type = "START_TRACING"
                        ELSE kernel.tracing
  BY <1>1, <1>2 DEF Served, IsTrace
<1>. QED
  BY <1>1, <1>2, <1>3, TraceServed

\* The socket's end loses messages, or it loses none.
LEMMA CloseKeepsTracing == DataInv /\ TracingInv /\ SocketCloses => TracingInv'
<1>. SUFFICES ASSUME DataInv, TracingInv, SocketCloses, ~ lost'
              PROVE  WillTrace(inbox', kernel'.tracing, page'.tracing)
  BY DEF TracingInv
<1>1. PICK n \in 0 .. Len(inbox) :
        /\ inbox' = SubSeq(inbox, 1, n)
        /\ lost' = (lost \/ n < Len(inbox) \/ down # <<>>)
  BY DEF SocketCloses
<1>2. inbox \in Seq(Message) /\ UNCHANGED <<kernel, page>>
  BY DEF DataInv, DataType, SocketCloses
<1>3. inbox' = inbox /\ ~ lost
  <2>1. ~ lost /\ ~ (n < Len(inbox))
    BY <1>1
  <2>2. n = Len(inbox)
    BY <1>2, <2>1
  <2>. QED
    BY <1>1, <1>2, <2>1, <2>2
<1>. QED
  BY <1>2, <1>3 DEF TracingInv

-----------------------------------------------------------------------------
(* The theorems.                                                           *)

\* Every step keeps the invariant.
LEMMA Inductive == IInv /\ [Next]_vars => IInv'
<1>. SUFFICES ASSUME IInv, [Next]_vars PROVE IInv'
  OBVIOUS
<1>1. ConnectionInv /\ DataInv
  BY DEF IInv
<1>2. DataInv => page \in Page
  BY DEF DataInv, DataType
<1>3. CASE SocketOpens
  <2>1. UNCHANGED <<inbox, down, kernel, page, lost>>
    BY <1>3 DEF SocketOpens
  <2>. QED
    BY <1>1, <1>2, <1>3, <2>1, OpensKeepsConnection, PageStep DEF IInv
<1>4. CASE SocketCloses
  BY <1>1, <1>4, CloseKeepsConnection, CloseKeepsData DEF IInv
<1>5. CASE Reconnect
  <2>1. UNCHANGED <<inbox, down, kernel, page, lost>>
    BY <1>5 DEF Reconnect
  <2>. QED
    BY <1>1, <1>2, <1>5, <2>1, ReconnectKeepsConnection, PageStep DEF IInv
<1>6. CASE TimePasses
  <2>1. UNCHANGED <<inbox, down, kernel, page, lost>>
    BY <1>6 DEF TimePasses
  <2>. QED
    BY <1>1, <1>2, <1>6, <2>1, TimeKeepsConnection, PageStep DEF IInv
<1>7. CASE KeepAlive
  BY <1>1, <1>7, KeepAliveKeepsConnection, KeepAliveKeepsData DEF IInv
<1>8. CASE Serve
  <2>1. UNCHANGED <<kind, connVars>>
    BY <1>8 DEF Serve
  <2>. QED
    BY <1>1, <1>8, <2>1, ConnectionUnchanged, ServeKeepsData DEF IInv
<1>9. CASE Receive
  <2>1. UNCHANGED <<kind, connVars>>
    BY <1>9 DEF Receive
  <2>. QED
    BY <1>1, <1>9, <2>1, ConnectionUnchanged, ReceiveKeepsData DEF IInv
<1>10. CASE Assembled
  <2>1. UNCHANGED <<kind, connVars>>
    BY <1>10 DEF Assembled
  <2>. QED
    BY <1>1, <1>10, <2>1, ConnectionUnchanged, AssembledKeepsData DEF IInv
<1>11. CASE SendData
  <2>1. UNCHANGED <<kind, connVars>>
    BY <1>11 DEF SendData
  <2>. QED
    BY <1>1, <1>11, <2>1, ConnectionUnchanged, SendDataKeepsData DEF IInv
<1>12. CASE TraceButton
  <2>1. UNCHANGED <<kind, connVars>>
    BY <1>12 DEF TraceButton
  <2>. QED
    BY <1>1, <1>12, <2>1, ConnectionUnchanged, TraceKeepsData DEF IInv
<1>13. CASE RunButton \/ AssemblyFails \/ ParseTxData
  <2>1. UNCHANGED <<kind, connVars>>
    BY <1>13 DEF RunButton, AssemblyFails, ParseTxData
  <2>. QED
    BY <1>1, <1>13, <2>1, ConnectionUnchanged, ButtonsKeepData DEF IInv
<1>14. CASE UNCHANGED vars
  <2>1. UNCHANGED <<kind, connVars>> /\ UNCHANGED <<inbox, down, kernel, page, lost>>
    BY <1>14 DEF vars
  <2>. QED
    BY <1>1, <1>2, <2>1, ConnectionUnchanged, PageStep DEF IInv
<1>. QED
  BY <1>3, <1>4, <1>5, <1>6, <1>7, <1>8, <1>9, <1>10, <1>11, <1>12, <1>13, <1>14 DEF Next

\* The invariant holds in every reachable state.
LEMMA Invariant == Spec => []IInv
<1>1. Init => IInv
  BY InitialConnection, InitialData DEF IInv
<1>. QED
  BY <1>1, Inductive, PTL DEF Spec

\* The variables have their types; in particular there are never more chains of
\* pings than there have been sockets (keepAlive).
THEOREM ChainsBounded == Spec => []ConnTypeOK
<1>1. IInv => ConnTypeOK
  <2>. SUFFICES ASSUME IInv PROVE ConnTypeOK
    OBVIOUS
  <2>1. ConnectionType /\ DataType /\ OneChainEach
    BY DEF IInv, ConnectionInv, DataInv
  <2>2. chains \in 0 .. MaxSockets
    BY <2>1, ConnectionAssumption DEF ConnectionType, OneChainEach
  <2>3. page.button \in {"enabled", "disabled", "stuck", "invalid"}
    BY <2>1 DEF DataType, Page
  <2>. QED
    BY <2>1, <2>2, <2>3 DEF ConnectionType, DataType, ConnTypeOK
<1>. QED
  BY <1>1, Invariant, PTL

\* A page with callbacks has a living socket, or a timeout that reconnects, or
\* has been told (onclose); never two of these.
THEOREM ConnectionNeverForgotten == Spec => []NeverForgotten
<1>1. IInv => NeverForgotten
  BY DEF IInv, ConnectionInv
<1>. QED
  BY <1>1, Invariant, PTL

\* An open socket is pinged (onopen, keepAlive).
THEOREM OpenIsKeptAlive == Spec => []KeptAlive
<1>1. IInv => KeptAlive
  BY DEF IInv, ConnectionInv
<1>. QED
  BY <1>1, Invariant, PTL

\* At first nothing is traced.
LEMMA InitialTracing == Init => TracingInv
BY DEF Init, TracingInv, WillTrace

\* Every step keeps the invariant of tracing.
LEMMA TracingInductive == IInv /\ TracingInv /\ [Next]_vars => TracingInv'
<1>. SUFFICES ASSUME IInv, TracingInv, [Next]_vars PROVE TracingInv'
  OBVIOUS
<1>1. DataInv /\ ConnectionType /\ page \in Page
  BY DEF IInv, ConnectionInv, DataInv, DataType
<1>2. ASSUME UNCHANGED <<inbox, kernel, lost>>, page'.tracing = page.tracing
      PROVE  TracingInv'
  BY <1>2 DEF TracingInv
<1>3. CASE SocketOpens \/ Reconnect \/ TimePasses \/ UNCHANGED vars
  BY <1>2, <1>3 DEF SocketOpens, Reconnect, TimePasses, vars
<1>4. CASE SocketCloses
  BY <1>1, <1>4, CloseKeepsTracing
<1>5. CASE KeepAlive
  <2>1. CASE ws = "OPEN"
    <3>1. Send(<<[type |-> "PING"]>>) /\ UNCHANGED <<kernel, page>>
      BY <1>5, <2>1 DEF KeepAlive
    <3>2. [type |-> "PING"] \in Request
      BY DEF Request
    <3>3. <<[type |-> "PING"]>> \in Seq(Request)
      BY <3>2
    <3>4. \A i \in 1 .. Len(<<[type |-> "PING"]>>) :
            <<[type |-> "PING"]>>[i].type \notin {"START_TRACING", "STOP_TRACING"}
      OBVIOUS
    <3>. QED
      BY <1>1, <3>1, <3>3, <3>4, OthersSent
  <2>2. CASE ws # "OPEN"
    BY <1>2, <1>5, <2>2 DEF KeepAlive
  <2>. QED
    BY <2>1, <2>2
<1>6. CASE Serve
  BY <1>1, <1>6, ServeKeepsTracing
<1>7. CASE Receive
  <2>1. /\ UNCHANGED <<inbox, kernel, lost>>
        /\ page' = page \/ page' = Shown(page, Head(down).msg)
    BY <1>7 DEF Receive
  <2>2. Shown(page, Head(down).msg).tracing = page.tracing
    BY <1>1 DEF Shown, Page
  <2>. QED
    BY <1>2, <2>1, <2>2
<1>8. CASE RunButton \/ AssemblyFails \/ ParseTxData
  <2>1. UNCHANGED <<inbox, kernel, lost>>
    BY <1>8 DEF RunButton, AssemblyFails, ParseTxData
  <2>2. page'.tracing = page.tracing
    BY <1>1, <1>8 DEF RunButton, AssemblyFails, ParseTxData, Page
  <2>. QED
    BY <1>2, <2>1, <2>2
<1>9. CASE Assembled
  <2>1. ASSUME NEW c \in Converted,
               Put(RunMessages(page.run, c.addrs, c.lines),
                   [page EXCEPT !.button = "enabled", !.lines = c.lines])
        PROVE  TracingInv'
    <3>1. page.run \in Nat
      BY <1>1 DEF Page
    <3>2. RunMessages(page.run, c.addrs, c.lines) \in Seq(Request)
      BY <3>1, RunsBringPrograms
    <3>3. Send(RunMessages(page.run, c.addrs, c.lines)) /\ kernel' = kernel /\ page'.tracing = page.tracing
      BY <1>1, <1>9, <2>1 DEF Put, Assembled, Page
    <3>. QED
      BY <1>1, <3>1, <3>2, <3>3, RunsTraceNothing, OthersSent
  <2>2. CASE page' = [page EXCEPT !.button = "stuck"] /\ UNCHANGED <<inbox, lost>>
    BY <1>1, <1>2, <1>9, <2>2 DEF Assembled, Page
  <2>. QED
    BY <1>9, <2>1, <2>2 DEF Assembled
<1>10. CASE SendData
  <2>. DEFINE m == [type |-> "DATA", program |-> page.run + 1]
  <2>1. page.run + 1 \in Nat
    BY <1>1 DEF Page
  <2>2. m \in Request /\ m.type = "DATA"
    BY <2>1 DEF Request
  <2>3. Put(<<m>>, [page EXCEPT !.run = @ + 1]) /\ kernel' = kernel
    BY <1>10 DEF SendData
  <2>. HIDE DEF m
  <2>4. /\ <<m>> \in Seq(Request)
        /\ \A i \in 1 .. Len(<<m>>) : <<m>>[i].type \notin {"START_TRACING", "STOP_TRACING"}
    BY <2>2
  <2>5. Send(<<m>>) /\ page'.tracing = page.tracing
    BY <1>1, <2>3 DEF Put, Page
  <2>. QED
    BY <1>1, <2>3, <2>4, <2>5, OthersSent
<1>11. CASE TraceButton
  BY <1>1, <1>11, TraceButtonKeepsTracing
<1>. QED
  BY <1>3, <1>4, <1>5, <1>6, <1>7, <1>8, <1>9, <1>10, <1>11 DEF Next

\* As long as nothing is lost, the kernel traces when the page says so, once it has
\* been served what was sent about it (the trace button's flag, which changes before the
\* message is sent, and the server's order).
THEOREM TracingStaysInStep == Spec => []TracingInStep
<1>1. TracingInv => TracingInStep
  BY DEF TracingInv, WillTrace, IsTrace, TracingInStep
<1>. QED
  BY <1>1, InitialTracing, TracingInductive, Invariant, PTL DEF Spec

\* The result of a run is of every line of the program that was sent with it, if it
\* was converted without an error, whatever the sockets lose and whatever earlier
\* programs left in memory (the messages of a run, and the server's order).
THEOREM ResultOfWhatWasSent == Spec => []RunsWhatWasSent
<1>1. IInv => RunsWhatWasSent
  BY DEF IInv, DataInv
<1>. QED
  BY <1>1, Invariant, PTL

=============================================================================
