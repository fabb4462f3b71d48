------------------------------ MODULE Connection ------------------------------
(***************************************************************************)
(* The WebSocket of a page (framework/client/js/fpgaServer.js), the web    *)
(* server that answers its messages in order (server.py), and the pages     *)
(* that use them: WARP-V and manycore (warpv.js, manycore.js: the same code) *)
(* and the test bench (testbench.js). The socket may fail to connect or     *)
(* close at any time; what is on its way then is lost, except what has      *)
(* reached the server, which serves it before anything that comes over a    *)
(* later socket. The program of a run is its number; the kernel's memory    *)
(* holds for each address the program whose instruction was written there,  *)
(* and that memory is all that the result of a run depends on.              *)
(***************************************************************************)
EXTENDS Integers, Sequences, SequencesExt

CONSTANTS
  IMEM_SIZE,   \* entries of the instruction memory that are read back (16)
  MaxClicks,   \* bound on the clicks that run a program, send data or trace
  MaxSockets,  \* bound on the sockets: the last one stays
  MaxPending   \* bound on the messages on their way when a ping is sent

ASSUME ConnectionAssumption ==
  /\ {IMEM_SIZE, MaxClicks, MaxSockets, MaxPending} \subseteq Nat
  /\ IMEM_SIZE > 0 /\ MaxSockets > 0

VARIABLES
  kind,       \* which page it is
  ws,         \* readyState of the page's socket: this.ws is always the last one
  socket,     \* its number
  handler,    \* it has the page's onmessage
  chains,     \* timeouts of keepAlive
  reconnect,  \* reconnect_cnt, whether reconnect_time is less than ten seconds
              \* ago, and whether the timeout that reconnects is pending
  told,       \* the page's onclose was called
  inbox,      \* messages that the server has not served, oldest first
  down,       \* answers on their way over the page's socket
  kernel,     \* the kernel's memory, and whether it is tracing
  page,       \* what the page shows and knows
  lost        \* a message of the page has been lost

connVars == <<ws, socket, handler, chains, reconnect, told>>
vars == <<kind, connVars, inbox, down, kernel, page, lost>>

Addr == 0 .. IMEM_SIZE - 1
Nothing == 0   \* "-", an empty element: no program has this number
Blank == [a \in Addr |-> Nothing]

\* The addresses of a program of so many lines.
Lines(n) == 0 .. n - 1

\* Only the test bench connects without callbacks.
cb == kind # "testbench"

\* The clicks that have been made.
Clicks == page.run + page.traces

Init ==
  /\ kind \in {"warpv", "testbench"}
  /\ ws = "CONNECTING"
  /\ socket = 1
  /\ handler = TRUE
  /\ chains = 0
  /\ reconnect = [cnt |-> 0, recent |-> TRUE, timer |-> FALSE]
  /\ told = FALSE
  /\ inbox = <<>>
  /\ down = <<>>
  /\ kernel = [mem |-> Blank, tracing |-> FALSE]
  /\ page = [run |-> 0, sent |-> 0, lines |-> 0, button |-> "enabled",
             traces |-> 0, tracing |-> FALSE,
             rx |-> Nothing, imem |-> Blank, rsp |-> Blank]
  /\ lost = FALSE

-----------------------------------------------------------------------------
(* The connection (connectURL).                                            *)

\* Mutant of SocketOpens: a socket that reconnects is not kept alive.
SocketOpensOnce ==
  /\ ws = "CONNECTING"
  /\ ws' = "OPEN"
  /\ chains' = IF cb /\ socket = 1 THEN chains + 1 ELSE chains
  /\ UNCHANGED <<kind, socket, handler, reconnect, told, inbox, down, kernel, page, lost>>

\* onopen begins a chain of pings, whether or not an older one goes on.
SocketOpens ==
  /\ ws = "CONNECTING"
  /\ ws' = "OPEN"
  /\ chains' = IF cb THEN chains + 1 ELSE chains
  /\ UNCHANGED <<kind, socket, handler, reconnect, told, inbox, down, kernel, page, lost>>

\* Mutant of OnClose: the socket reconnects before the check that it may.
OnCloseEager ==
  LET many == reconnect.cnt + 1 > 3 IN
  /\ reconnect' = [cnt |-> IF many THEN 0 ELSE reconnect.cnt + 1,
                   recent |-> reconnect.recent \/ many,
                   timer |-> TRUE]
  /\ told' = (told \/ (many /\ reconnect.recent))

\* Mutant of OnClose: after a reset of the count there is no reconnection.
OnCloseStops ==
  LET many == reconnect.cnt + 1 > 3 IN
  /\ reconnect' = [cnt |-> IF many THEN 0 ELSE reconnect.cnt + 1,
                   recent |-> reconnect.recent \/ many,
                   timer |-> ~ many]
  /\ told' = (told \/ (many /\ reconnect.recent))

\* Mutant of OnClose: the count is not reset.
OnCloseCountsOn ==
  LET refused == reconnect.cnt + 1 > 3 /\ reconnect.recent IN
  /\ reconnect' = [cnt |-> reconnect.cnt + 1, recent |-> reconnect.recent,
                   timer |-> ~ refused]
  /\ told' = (told \/ refused)

\* onclose: reconnect, by a timeout; but the fourth time in ten seconds tell
\* the page instead.
OnClose ==
  LET many == reconnect.cnt + 1 > 3
      refused == many /\ reconnect.recent IN
  /\ reconnect' = [cnt |-> IF many THEN 0 ELSE reconnect.cnt + 1,
                   recent |-> reconnect.recent \/ many,
                   timer |-> ~ refused]
  /\ told' = (told \/ refused)

\* The socket fails or closes. Of the messages it carried the server has a part.
SocketCloses ==
  /\ ws # "CLOSED" /\ socket < MaxSockets
  /\ ws' = "CLOSED"
  /\ \E n \in 0 .. Len(inbox) :
       /\ \A i \in n + 1 .. Len(inbox) : inbox[i].socket = socket
       /\ inbox' = SubSeq(inbox, 1, n)
       /\ lost' = (lost \/ n < Len(inbox) \/ down # <<>>)
  /\ down' = <<>>
  /\ IF cb THEN OnClose ELSE UNCHANGED <<reconnect, told>>
  /\ UNCHANGED <<kind, socket, handler, chains, kernel, page>>

\* The timeout calls connectURL again: a new socket, with the callbacks that the
\* page passed to connect (there is no onmessage among them).
Reconnect ==
  /\ reconnect.timer
  /\ reconnect' = [reconnect EXCEPT !.timer = FALSE]
  /\ ws' = "CONNECTING"
  /\ socket' = socket + 1
  /\ handler' = FALSE
  /\ UNCHANGED <<kind, chains, told, inbox, down, kernel, page, lost>>

\* Ten seconds have passed since reconnect_time.
TimePasses ==
  /\ reconnect.recent
  /\ reconnect' = [reconnect EXCEPT !.recent = FALSE]
  /\ UNCHANGED <<kind, ws, socket, handler, chains, told, inbox, down, kernel, page, lost>>

\* ws.send of several messages: a closed socket drops them. (One that connects
\* throws, and the callers say what that leaves undone.)
Send(ms) ==
  /\ inbox' = IF ws = "OPEN"
              THEN inbox \o [i \in 1 .. Len(ms) |-> [msg |-> ms[i], socket |-> socket]]
              ELSE inbox
  /\ lost' = (lost \/ ws # "OPEN")

\* keepAlive: ping an open socket; go on unless the socket is closed.
KeepAlive ==
  /\ chains > 0
  /\ Len(inbox) + Len(down) < MaxPending
  /\ IF ws = "OPEN"
       THEN Send(<<[type |-> "PING"]>>)
       ELSE UNCHANGED <<inbox, lost>>
  /\ chains' = IF ws = "CLOSED" THEN chains - 1 ELSE chains
  /\ UNCHANGED <<kind, ws, socket, handler, reconnect, told, down, kernel, page>>

-----------------------------------------------------------------------------
(* The server: WSHandler and its handlers, and the kernel behind them.     *)

\* Mutant of Served: a write begins one address too late.
ServedLate(k, m) ==
  CASE m.type = "WRITE" ->
         [k EXCEPT !.mem = [a \in Addr |->
                              IF a - 1 \in m.addrs THEN m.program ELSE @[a]]]
    [] m.type = "START_TRACING" -> [k EXCEPT !.tracing = TRUE]
    [] m.type = "STOP_TRACING" -> [k EXCEPT !.tracing = FALSE]
    [] OTHER -> k

\* What a message does to the kernel. A write leaves the other addresses alone.
Served(k, m) ==
  CASE m.type = "WRITE" ->
         [k EXCEPT !.mem = [a \in Addr |->
                              IF a \in m.addrs THEN m.program ELSE @[a]]]
    [] m.type = "START_TRACING" -> [k EXCEPT !.tracing = TRUE]
    [] m.type = "STOP_TRACING" -> [k EXCEPT !.tracing = FALSE]
    [] OTHER -> k

\* What it is answered: a run with what the memory held; a write of nothing with
\* an empty list, in which the page finds no type.
Answer(k, m) ==
  CASE m.type = "WRITE" /\ m.addrs # {} -> [type |-> "WRITE", program |-> m.program]
    [] m.type = "WRITE" /\ m.addrs = {} -> [type |-> "empty"]
    [] m.type = "READ" -> [type |-> "READ", addr |-> m.addr, program |-> k.mem[m.addr]]
    [] m.type = "RUN" -> [type |-> "RUN", program |-> m.program, lines |-> m.lines,
                          ran |-> k.mem]
    [] m.type = "DATA" -> [type |-> "DATA", program |-> m.program]
    [] OTHER -> [type |-> "typed"]

\* on_message: the handler is called and what it returns is written, to the
\* socket that the message came from.
Serve ==
  /\ inbox # <<>>
  /\ LET m == Head(inbox) IN
       /\ kernel' = Served(kernel, m.msg)
       /\ down' = IF m.socket = socket /\ ws = "OPEN"
                  THEN Append(down, [m EXCEPT !.msg = Answer(kernel, m.msg)])
                  ELSE down
  /\ inbox' = Tail(inbox)
  /\ UNCHANGED <<kind, connVars, page, lost>>

-----------------------------------------------------------------------------
(* The pages.                                                              *)

\* onmessage of both pages. The empty answer has no type to look at: an exception
\* that is caught.
Shown(p, m) ==
  CASE m.type \in {"WRITE", "DATA"} -> [p EXCEPT !.rx = m.program]
    [] m.type = "READ" -> [p EXCEPT !.imem[m.addr] = m.program]
    [] m.type = "RUN" -> [p EXCEPT !.rsp = m.ran]
    [] OTHER -> p

\* An answer arrives; a socket without a handler drops it.
Receive ==
  /\ down # <<>>
  /\ down' = Tail(down)
  /\ page' = IF handler THEN Shown(page, Head(down).msg) ELSE page
  /\ UNCHANGED <<kind, connVars, inbox, kernel, lost>>

\* The run button: the output is cleared and the program is sent to be
\* assembled. The button is disabled meanwhile.
RunButton ==
  /\ kind = "warpv" /\ page.button = "enabled" /\ Clicks < MaxClicks
  /\ page' = [page EXCEPT !.button = "disabled", !.run = @ + 1,
                          !.lines = 0, !.rx = Nothing, !.rsp = Blank]
  /\ UNCHANGED <<kind, connVars, inbox, down, kernel, lost>>

\* Mutant of RunMessages: the program is run before it is written.
RunMessagesFirst(n, addrs, lines) ==
  <<[type |-> "RUN", program |-> n, lines |-> lines],
    [type |-> "WRITE", program |-> n, addrs |-> addrs]>>
    \o [i \in 1 .. IMEM_SIZE |-> [type |-> "READ", addr |-> i - 1]]

RunMessages(n, addrs, lines) ==
  <<[type |-> "WRITE", program |-> n, addrs |-> addrs]>>
    \o [i \in 1 .. IMEM_SIZE |-> [type |-> "READ", addr |-> i - 1]]
    \o <<[type |-> "RUN", program |-> n, lines |-> lines]>>

Put(ms, p) ==
  /\ Send(ms)
  /\ page' = [p EXCEPT !.sent = IF ws = "OPEN" THEN p.run ELSE @]

\* What verilogToChunks can make of the answer: the addresses of the lines that
\* converted, and the number of lines, 0 if an error was shown. With one, any of the
\* lines may be missing, or all of them when there is no program in the answer.
\* (Lines that the memory has no address for are left out.)
Converted ==
  {c \in [addrs : SUBSET Addr, lines : 0 .. IMEM_SIZE] :
     c.lines > 0 => c.addrs = Lines(c.lines)}

\* The program is assembled: write what was converted, read the memory back, run,
\* also when there was an error. An exception (the answer has no text, or the
\* socket is connecting) leaves the button disabled, because complete is not
\* called after it.
Assembled ==
  /\ page.button = "disabled"
  /\ \/ \E c \in Converted :
          /\ ws # "CONNECTING"
          /\ Put(RunMessages(page.run, c.addrs, c.lines),
                 [page EXCEPT !.button = "enabled", !.lines = c.lines])
     \/ /\ page' = [page EXCEPT !.button = "stuck"]
        /\ UNCHANGED <<inbox, lost>>
  /\ UNCHANGED <<kind, connVars, down, kernel>>

\* The request to assemble fails.
AssemblyFails ==
  /\ page.button = "disabled"
  /\ page' = [page EXCEPT !.button = "enabled"]
  /\ UNCHANGED <<kind, connVars, inbox, down, kernel, lost>>

\* The test bench's data is changed: it can be sent when it parses.
ParseTxData ==
  /\ kind = "testbench"
  /\ page' = [page EXCEPT !.button = IF @ = "enabled" THEN "invalid" ELSE "enabled"]
  /\ UNCHANGED <<kind, connVars, inbox, down, kernel, lost>>

\* The send button: sendData, which throws while the socket connects.
SendData ==
  /\ kind = "testbench" /\ page.button = "enabled" /\ Clicks < MaxClicks
  /\ ws # "CONNECTING"
  /\ Put(<<[type |-> "DATA", program |-> page.run + 1]>>, [page EXCEPT !.run = @ + 1])
  /\ UNCHANGED <<kind, connVars, down, kernel>>

\* Mutant of TraceMessage: the button asks for what it has already.
TraceMessageBefore == [type |-> IF page.tracing THEN "START_TRACING" ELSE "STOP_TRACING"]

TraceMessage == [type |-> IF page.tracing THEN "STOP_TRACING" ELSE "START_TRACING"]

\* The trace button: the flag changes before the message is sent (or not).
TraceButton ==
  /\ Clicks < MaxClicks
  /\ page' = [page EXCEPT !.tracing = ~ @, !.traces = @ + 1]
  /\ Send(<<TraceMessage>>)
  /\ UNCHANGED <<kind, connVars, down, kernel>>

-----------------------------------------------------------------------------
Next ==
  \/ SocketOpens \/ SocketCloses \/ Reconnect \/ TimePasses \/ KeepAlive
  \/ Serve \/ Receive
  \/ RunButton \/ Assembled \/ AssemblyFails
  \/ ParseTxData \/ SendData \/ TraceButton

Spec == Init /\ [][Next]_vars

\* A socket opens or closes in the end, timeouts fire, the server serves, the
\* network delivers, requests to assemble are answered. Nobody need click.
FairSpec ==
  /\ Spec
  /\ WF_vars(SocketOpens) /\ WF_vars(Reconnect)
  /\ WF_vars(Serve) /\ WF_vars(Receive)
  /\ WF_vars(Assembled \/ AssemblyFails)

-----------------------------------------------------------------------------
(* Properties.                                                             *)

ConnTypeOK ==
  /\ ws \in {"CONNECTING", "OPEN", "CLOSED"}
  /\ socket \in 1 .. MaxSockets
  /\ chains \in 0 .. MaxSockets
  /\ reconnect \in [cnt : 0 .. 3, recent : BOOLEAN, timer : BOOLEAN]
  /\ {handler, told, lost} \subseteq BOOLEAN
  /\ page.button \in {"enabled", "disabled", "stuck", "invalid"}

\* The connection of a page with callbacks is never forgotten and never
\* doubled: its socket lives, or a timeout will reconnect, or the page has been
\* told that there will be none; never two of these.
NeverForgotten ==
  cb => /\ ws = "CLOSED" <=> reconnect.timer \/ told
        /\ ~ (reconnect.timer /\ told)

\* An open socket is pinged, however often it has been reconnected and although
\* the chains of timeouts of earlier sockets may have ended.
KeptAlive == cb /\ ws = "OPEN" => chains > 0

\* A run's answer is the result of the program that the page sent with it, every
\* line of it, if it converted without an error: also when an earlier run was cut
\* off by the socket's end in the middle, or left its instructions in memory
\* (warpv.js 114-123).
RunsWhatWasSent ==
  \A i \in 1 .. Len(down) :
    LET m == down[i].msg IN
      m.type = "RUN" => \A a \in Lines(m.lines) : m.ran[a] = m.program

\* While no message is lost, the kernel traces when the page says so, once the
\* server has served the page's messages.
TracingInStep ==
  ~ lost /\ (\A i \in 1 .. Len(inbox) :
               inbox[i].msg.type \notin {"START_TRACING", "STOP_TRACING"})
    => kernel.tracing = page.tracing

\* If the socket stays, the page comes to show the answers to the data or the
\* program without an error that it sent last, not those to an earlier run that
\* arrive after the output was cleared, or what an earlier one left in memory.
LastIsShown ==
  <>[](\/ socket > 1 \/ ws # "OPEN" \/ page.sent = 0 \/ page.sent # page.run
       \/ kind = "warpv" /\ page.lines = 0
       \/ /\ page.rx = page.run
          /\ \A a \in Lines(page.lines) :
               page.rsp[a] = page.run /\ page.imem[a] = page.run)

\* Once the network holds, a page with callbacks is connected or has been told
\* that it is not.
Reconnects == <>[](cb => ws = "OPEN" \/ told)

\* Every answer of the kernel that arrives is handled by the page.
AnswersAreHeard ==
  \A i \in 1 .. Len(down) : down[i].msg.type \notin {"typed", "empty"} => handler

=============================================================================
