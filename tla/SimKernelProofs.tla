--------------------------- MODULE SimKernelProofs ---------------------------
(***************************************************************************)
(* Kernel and driver are a first-in first-out stream, for every pipeline   *)
(* depth, every limit of phases and any sequence of runs of any sizes.     *)
(*                                                                         *)
(* FirstInFirstOut speaks of what was received; to be inductive it has to  *)
(* say what is on its way. What the driver counts and what the kernel      *)
(* holds differ between the handshake and the clock edge that carries it   *)
(* out, by the chunk about to be taken (Taking) and the result about to be *)
(* given away (Giving), also while no run is in progress.                  *)
(***************************************************************************)
EXTENDS SimKernel, TLAPS

\* The driver has counted a chunk that the pipeline takes at the next rising edge.
Taking == at # "drive" /\ in_avail /\ in_ready(out_ready)

\* It has counted a result that the pipeline gives away at the next rising edge.
Giving == at # "drive" /\ out_ready /\ offers

\* A pipeline holds, in order, what was sent and not received, but for what is about to
\* change hands.
PipelineInOrder ==
  LET given == IF Giving THEN Received - 1 ELSE Received
      taken == IF Taking THEN Sent - 1 ELSE Sent
  IN  /\ given \in Nat /\ taken \in Nat
      /\ taken = given + Len(held)
      /\ \A i \in 1 .. Len(held) : held[i] = given + i
      /\ Taking => in_data = Sent
      /\ offers => held # <<>>

\* A run of vadd that sends more than it may receive: vadd blocks until tick() gives up.
Jammed ==
  /\ at \in {"rise", "drive"}
  /\ recv_cntr = resp_data_size
  /\ send_cntr < data_size
  /\ in_avail /\ ~ out_ready

\* All that vadd holds is what is on its pins, which stays there after a run that asks for
\* fewer results than it sends.
VaddInOrder ==
  /\ Received <= Sent
  /\ ~ in_avail => Sent = Received
  /\ in_avail /\ ~ Jammed => Sent = Received + 1 /\ in_data = Sent

\* Kernel and driver are one first-in first-out stream also while a run is in progress: the
\* results received are those of the oldest chunks not yet answered.
FirstInFirstOut ==
  /\ Received <= Sent
  /\ Len(output_buff) = recv_cntr
  /\ \A i \in 1 .. recv_cntr : output_buff[i] = answered + i

InLoop == at \in {"rise", "drive"} => Unfinished(send_cntr, recv_cntr)

InOrder ==
  /\ kernel = "pipeline" => PipelineInOrder
  /\ kernel = "vadd" => VaddInOrder

\* Before the reset nothing has happened, and between runs nothing is counted.
Quiet ==
  /\ at = "new" => phase_cnt = 0 /\ held = <<>> /\ ~ offers /\ Sent = 0 /\ Received = 0
  /\ at \in {"new", "idle", "written"} => send_cntr = 0 /\ recv_cntr = 0 /\ output_buff = <<>>

IInv ==
  /\ SimTypeOK
  /\ InLoop
  /\ Quiet
  /\ at # "exited" => InOrder
  /\ FirstInFirstOut

-----------------------------------------------------------------------------
\* The initial states satisfy the invariant.
LEMMA InitIInv == ASSUME Init PROVE IInv
<1> USE SimAssumption DEF Init, ResetPhases
<1>1. SimTypeOK
  <2>1. held \in Seq(Nat) /\ Len(held) <= Depth /\ output_buff \in Seq(Nat)
    OBVIOUS
  <2>2. /\ phase_cnt \in 0 .. MAX_PHASES + 1 /\ trace_phase_cnt \in 0 .. MAX_TRACE_PHASES
        /\ data_size \in 0 .. MaxSize /\ resp_data_size \in 0 .. MaxSize
        /\ send_cntr \in 0 .. data_size /\ recv_cntr \in 0 .. resp_data_size
        /\ runs \in 0 .. MaxRuns
        /\ in_data \in Nat /\ before \in Nat /\ answered \in Nat /\ begun \in Nat
    OBVIOUS
  <2>3. /\ accepts \in BOOLEAN /\ offers \in BOOLEAN /\ in_avail \in BOOLEAN
        /\ out_ready \in BOOLEAN /\ tracing_enabled \in BOOLEAN
    OBVIOUS
  <2>4. kernel \in Kernels /\ at \in {"new", "idle", "written", "rise", "drive", "done", "exited"}
    OBVIOUS
  <2> HIDE DEF Init
  <2> QED
    BY <2>1, <2>2, <2>3, <2>4 DEF SimTypeOK
<1>2. InLoop /\ Quiet /\ FirstInFirstOut
  BY DEF InLoop, Quiet, FirstInFirstOut, Sent, Received
<1>3. InOrder
  BY DEF InOrder, PipelineInOrder, VaddInOrder, Taking, Giving, Sent, Received
<1> QED
  BY <1>1, <1>2, <1>3 DEF IInv

\* What happens between two runs leaves the kernel and its pins alone.
LEMMA OrderKept ==
  ASSUME InOrder, at \notin {"rise", "drive"}, at' # "drive",
         UNCHANGED <<kernelVars, pins>>, Sent' = Sent, Received' = Received
  PROVE  InOrder'
<1>1. /\ kernel' = kernel /\ held' = held /\ accepts' = accepts /\ offers' = offers
      /\ in_avail' = in_avail /\ in_data' = in_data /\ out_ready' = out_ready
  BY DEF kernelVars, pins
<1>2. Taking' = Taking /\ Giving' = Giving
  BY <1>1 DEF Taking, Giving, in_ready
<1>3. ASSUME PipelineInOrder PROVE PipelineInOrder'
  BY <1>1, <1>2, <1>3 DEF PipelineInOrder
<1>4. ASSUME VaddInOrder PROVE VaddInOrder'
  BY <1>1, <1>4 DEF VaddInOrder, Jammed
<1> QED
  BY <1>1, <1>3, <1>4 DEF InOrder

\* Tick does not count beyond the limits.
LEMMA TickTyped ==
  ASSUME SimTypeOK, ~ TickExits, Tick
  PROVE  /\ phase_cnt' \in 0 .. MAX_PHASES + 1
         /\ trace_phase_cnt' \in 0 .. MAX_TRACE_PHASES
         /\ tracing_enabled' \in BOOLEAN
  BY SimAssumption DEF SimTypeOK, TickExits, Tick

\* The end of the host's process leaves everything as it was.
LEMMA ExitKeeps == ASSUME IInv, Exit PROVE IInv'
<1> USE DEF Exit, kernelVars, pins, run, trace, history
<1>1. SimTypeOK'
  BY DEF IInv, SimTypeOK
<1>2. InLoop' /\ Quiet'
  BY DEF InLoop, Quiet
<1>3. FirstInFirstOut'
  BY DEF IInv, FirstInFirstOut, Sent, Received
<1> QED
  BY <1>1, <1>2, <1>3 DEF IInv

\* The operations between the runs.
LEMMA ResetKeeps == ASSUME IInv, ResetKernel PROVE IInv'
<1> USE SimAssumption DEF ResetKernel, run, trace, history, ResetPhases
<1>1. SimTypeOK'
  <2>1. phase_cnt' \in 0 .. MAX_PHASES + 1
    BY DEF IInv, Quiet
  <2> QED
    BY <2>1 DEF IInv, SimTypeOK
<1>2. InLoop' /\ Quiet'
  BY DEF IInv, InLoop, Quiet
<1>3. Sent = 0 /\ Received = 0 /\ Sent' = Sent /\ Received' = Received /\ held = <<>> /\ ~ offers
  BY DEF IInv, Quiet, Sent, Received
<1>4. FirstInFirstOut'
  BY <1>3 DEF IInv, FirstInFirstOut
<1>5. InOrder'
  BY <1>3 DEF InOrder, PipelineInOrder, VaddInOrder, Taking, Giving
<1> QED
  BY <1>1, <1>2, <1>4, <1>5 DEF IInv

LEMMA TracingKeeps == ASSUME IInv, EnableTracing \/ DisableTracing PROVE IInv'
<1> USE SimAssumption DEF EnableTracing, DisableTracing
<1>1. /\ UNCHANGED <<kernelVars, pins, at, run, phase_cnt, history>>
      /\ trace_phase_cnt' \in {0, trace_phase_cnt} /\ tracing_enabled' \in BOOLEAN
      /\ at = "idle"
  OBVIOUS
<1>2. SimTypeOK'
  BY <1>1 DEF IInv, SimTypeOK, kernelVars, pins, run, history
<1>3. InLoop' /\ Quiet' /\ FirstInFirstOut' /\ Sent' = Sent /\ Received' = Received
  BY <1>1 DEF IInv, InLoop, Quiet, Unfinished, FirstInFirstOut, Sent, Received, kernelVars,
              run, history
<1>4. InOrder'
  BY <1>1, <1>3, OrderKept DEF IInv
<1> QED
  BY <1>2, <1>3, <1>4 DEF IInv

LEMMA WriteKeeps ==
  ASSUME IInv, NEW size \in 0 .. MaxSize, NEW resp \in 0 .. MaxSize, WriteKernelData(size, resp)
  PROVE  IInv'
<1> USE SimAssumption DEF WriteKernelData
<1>1. send_cntr = 0 /\ recv_cntr = 0
  BY DEF IInv, Quiet
<1>2. SimTypeOK'
  BY <1>1 DEF IInv, SimTypeOK, kernelVars, pins, trace
<1>3. InLoop' /\ Quiet' /\ Sent' = Sent /\ Received' = Received
  BY <1>1 DEF InLoop, Quiet, Sent, Received
<1>4. FirstInFirstOut'
  BY <1>1, <1>3 DEF IInv, FirstInFirstOut
<1>5. InOrder'
  BY <1>3, OrderKept DEF IInv
<1> QED
  BY <1>2, <1>3, <1>4, <1>5 DEF IInv

LEMMA StartKeeps == ASSUME IInv, StartKernel PROVE IInv'
<1> USE SimAssumption DEF StartKernel, BeginRun
<1>1. /\ send_cntr = 0 /\ recv_cntr = 0 /\ output_buff = <<>>
      /\ data_size \in Nat /\ resp_data_size \in Nat
  BY DEF IInv, Quiet, SimTypeOK
<1>2. SimTypeOK'
  BY <1>1 DEF IInv, SimTypeOK, kernelVars, trace
<1>3. InLoop' /\ Quiet' /\ Sent' = Sent /\ Received' = Received
  BY <1>1 DEF InLoop, Quiet, Unfinished, Sent, Received
<1>4. FirstInFirstOut'
  BY <1>1, <1>3 DEF IInv, FirstInFirstOut
<1>5. UNCHANGED <<kernelVars, pins>> /\ at' # "drive" /\ at \notin {"rise", "drive"} /\ InOrder
  BY DEF pins, IInv
<1>6. InOrder'
  BY <1>3, <1>5, OrderKept
<1> QED
  BY <1>2, <1>3, <1>4, <1>6 DEF IInv

LEMMA ReadKeeps == ASSUME IInv, ReadKernelData PROVE IInv'
<1> USE SimAssumption DEF ReadKernelData
<1>1. Sent \in Nat /\ Received \in Nat /\ data_size \in Nat /\ resp_data_size \in Nat
  BY DEF IInv, SimTypeOK, Sent, Received
<1>2. SimTypeOK'
  BY <1>1 DEF IInv, SimTypeOK, kernelVars, pins, trace
<1>3. Sent' = Sent /\ Received' = Received
  BY <1>1 DEF Sent, Received
<1>4. InLoop' /\ Quiet'
  BY DEF InLoop, Quiet
<1>5. FirstInFirstOut'
  BY <1>3 DEF IInv, FirstInFirstOut
<1>6. InOrder'
  BY <1>3, OrderKept DEF IInv
<1> QED
  BY <1>2, <1>4, <1>5, <1>6 DEF IInv

-----------------------------------------------------------------------------
\* The rising edge of the clock carries out what was agreed.
LEMMA EdgeInOrder ==
  ASSUME SimTypeOK, InOrder, at = "rise", at' = "drive", ClockEdge,
         UNCHANGED <<pins, run, history>>
  PROVE  InOrder' /\ held' \in Seq(Nat) /\ Len(held') <= Depth
                  /\ accepts' \in BOOLEAN /\ offers' \in BOOLEAN
<1> USE SimAssumption
<1>1. /\ in_avail' = in_avail /\ in_data' = in_data /\ out_ready' = out_ready
      /\ Sent' = Sent /\ Received' = Received /\ kernel' = kernel
      /\ Sent \in Nat /\ Received \in Nat /\ kernel \in {"vadd", "pipeline"}
      /\ recv_cntr' = recv_cntr /\ resp_data_size' = resp_data_size
      /\ send_cntr' = send_cntr /\ data_size' = data_size
  BY DEF SimTypeOK, pins, run, history, Sent, Received, ClockEdge
<1>2. CASE kernel = "vadd"
  <2>1. VaddInOrder'
    BY <1>1, <1>2 DEF InOrder, VaddInOrder, Jammed
  <2> QED
    BY <1>1, <1>2, <2>1 DEF InOrder, ClockEdge, SimTypeOK
<1>3. CASE kernel = "pipeline"
  <2> DEFINE left == IF offers /\ out_ready THEN Tail(held) ELSE held
             given == IF Giving THEN Received - 1 ELSE Received
             taken == IF Taking THEN Sent - 1 ELSE Sent
  <2>1. /\ given \in Nat /\ taken \in Nat /\ taken = given + Len(held)
        /\ \A i \in 1 .. Len(held) : held[i] = given + i
        /\ Taking => in_data = Sent
        /\ offers => held # <<>>
    BY <1>3 DEF InOrder, PipelineInOrder
  <2>2. held \in Seq(Nat) /\ Len(held) <= Depth /\ in_data \in Nat /\ offers \in BOOLEAN
    BY DEF SimTypeOK
  <2>3. /\ held' = IF Taking THEN Append(left, in_data) ELSE left
        /\ accepts' \in BOOLEAN /\ offers' \in BOOLEAN
        /\ offers' => held' # <<>>
    BY <1>3 DEF ClockEdge, Taking
  <2>4. Taking => Len(held) < Depth \/ (offers /\ out_ready)
    BY <1>3 DEF Taking, in_ready
  <2>5. Giving = (offers /\ out_ready)
    BY DEF Giving
  <2>6. /\ left \in Seq(Nat)
        /\ Len(left) = taken - Received
        /\ \A i \in 1 .. Len(left) : left[i] = Received + i
        /\ Len(left) = IF offers /\ out_ready THEN Len(held) - 1 ELSE Len(held)
    <3>1. CASE Giving
      <4>1. /\ left = Tail(held) /\ Len(held) > 0 /\ given = Received - 1
            /\ Len(left) = Len(held) - 1 /\ left \in Seq(Nat)
        <5>1. offers /\ out_ready
          BY <2>5, <3>1
        <5>2. left = Tail(held) /\ given = Received - 1 /\ held # <<>>
          BY <2>1, <3>1, <5>1
        <5>3. Len(held) > 0
          BY <2>2, <5>2
        <5> QED
          BY <2>2, <5>2, <5>3
      <4>2. \A i \in 1 .. Len(left) : left[i] = held[i + 1] /\ i + 1 \in 1 .. Len(held)
        BY <2>2, <4>1
      <4>3. \A i \in 1 .. Len(left) : left[i] = Received + i
        BY <1>1, <2>1, <4>1, <4>2
      <4> QED
        BY <1>1, <2>1, <2>2, <2>5, <3>1, <4>1, <4>3
    <3>2. CASE ~ Giving
      BY <1>1, <2>1, <2>2, <2>5, <3>2
    <3> QED
      BY <3>1, <3>2
  <2> HIDE DEF left, given
  <2>7. /\ held' \in Seq(Nat) /\ Len(held') <= Depth
        /\ Sent = Received + Len(held')
        /\ \A i \in 1 .. Len(held') : held'[i] = Received + i
    <3>1. CASE Taking
      <4>1. /\ held' = Append(left, in_data) /\ in_data = Sent /\ taken = Sent - 1
            /\ Len(held') = Len(left) + 1
        BY <2>1, <2>2, <2>3, <2>6, <3>1
      <4>2. ASSUME NEW i \in 1 .. Len(held') PROVE held'[i] = Received + i
        <5>1. CASE i = Len(held')
          <6>1. held'[Len(left) + 1] = in_data
            BY <2>2, <2>6, <4>1
          <6>2. i = Sent - Received /\ i = Len(left) + 1
            BY <1>1, <2>6, <4>1, <5>1
          <6> QED
            BY <1>1, <4>1, <6>1, <6>2
        <5>2. CASE i # Len(held')
          BY <1>1, <2>2, <2>6, <4>1, <5>2
        <5> QED
          BY <5>1, <5>2
      <4>3. held' \in Seq(Nat)
        BY <2>2, <2>6, <4>1
      <4>4. Len(left) < Depth /\ Len(left) \in Nat
        BY <2>2, <2>4, <2>5, <2>6, <3>1
      <4>5. Len(held') <= Depth
        BY <4>1, <4>4
      <4>6. Sent = Received + Len(held')
        BY <1>1, <2>6, <4>1, <4>4
      <4> QED
        BY <4>2, <4>3, <4>5, <4>6
    <3>2. CASE ~ Taking
      BY <1>1, <2>1, <2>2, <2>3, <2>6, <3>2
    <3> QED
      BY <3>1, <3>2
  <2>8. ~ Taking' /\ ~ Giving'
    BY DEF Taking, Giving
  <2>9. PipelineInOrder'
    BY <1>1, <2>3, <2>7, <2>8 DEF PipelineInOrder
  <2> QED
    BY <1>1, <1>3, <2>3, <2>7, <2>9 DEF InOrder
<1> QED
  BY <1>1, <1>2, <1>3

LEMMA RiseKeeps == ASSUME IInv, Rise PROVE IInv'
<1>1. CASE Exit
  BY <1>1, ExitKeeps
<1>2. CASE ~ TickExits /\ Tick /\ ClockEdge /\ at' = "drive" /\ UNCHANGED <<pins, run, history>>
  <2>1. /\ SimTypeOK /\ InOrder /\ at = "rise" /\ FirstInFirstOut /\ InLoop
    BY DEF IInv, Rise
  <2>2. /\ InOrder' /\ held' \in Seq(Nat) /\ Len(held') <= Depth
        /\ accepts' \in BOOLEAN /\ offers' \in BOOLEAN
    BY <1>2, <2>1, EdgeInOrder
  <2>3. /\ phase_cnt' \in 0 .. MAX_PHASES + 1
        /\ trace_phase_cnt' \in 0 .. MAX_TRACE_PHASES
        /\ tracing_enabled' \in BOOLEAN
    BY <1>2, <2>1, TickTyped
  <2>4. kernel' = kernel
    BY <1>2 DEF ClockEdge
  <2>5. SimTypeOK'
    BY <1>2, <2>1, <2>2, <2>3, <2>4 DEF SimTypeOK, pins, run, history
  <2>6. InLoop' /\ Quiet' /\ FirstInFirstOut'
    BY <1>2, <2>1 DEF InLoop, Quiet, Unfinished, FirstInFirstOut, Sent, Received, run, history
  <2> QED
    BY <1>2, <2>2, <2>5, <2>6 DEF IInv
<1> QED
  BY <1>1, <1>2 DEF Rise

\* The handshakes count the oldest result and the next chunk.
LEMMA HandshakeInOrder ==
  ASSUME SimTypeOK, InOrder, InLoop, FirstInFirstOut, at = "drive", at' \in {"rise", "done"},
         at' = IF Unfinished(send_cntr', recv_cntr') THEN "rise" ELSE "done",
         Handshake, UNCHANGED <<kernelVars, data_size, resp_data_size, history>>
  PROVE  /\ InOrder' /\ FirstInFirstOut'
         /\ send_cntr' \in 0 .. data_size /\ recv_cntr' \in 0 .. resp_data_size
         /\ output_buff' \in Seq(Nat) /\ in_data' \in Nat
         /\ in_avail' \in BOOLEAN /\ out_ready' \in BOOLEAN
<1> USE SimAssumption
<1> DEFINE ready == recv_cntr < resp_data_size
           sends == send_cntr < data_size
           receives == ready /\ out_avail
           counted == sends /\ in_ready(ready)
<1>1. /\ kernel' = kernel /\ held' = held /\ accepts' = accepts /\ offers' = offers
      /\ data_size' = data_size /\ resp_data_size' = resp_data_size
      /\ before' = before /\ answered' = answered
      /\ data_size \in Nat /\ resp_data_size \in Nat
      /\ send_cntr \in 0 .. data_size /\ recv_cntr \in 0 .. resp_data_size
      /\ before \in Nat /\ answered \in Nat /\ in_data \in Nat /\ held \in Seq(Nat)
      /\ output_buff \in Seq(Nat) /\ in_avail \in BOOLEAN /\ offers \in BOOLEAN
      /\ kernel \in {"vadd", "pipeline"}
  BY DEF SimTypeOK, kernelVars, history
<1>2. /\ Sent = before + send_cntr /\ Received = answered + recv_cntr
      /\ Sent \in Nat /\ Received \in Nat
  BY <1>1 DEF Sent, Received
<1>3. /\ out_ready' = ready
      /\ output_buff' = IF receives THEN Append(output_buff, out_data) ELSE output_buff
      /\ recv_cntr' = IF receives THEN recv_cntr + 1 ELSE recv_cntr
      /\ in_avail' = sends
      /\ in_data' = IF sends THEN Sent + 1 ELSE in_data
      /\ send_cntr' = IF counted THEN send_cntr + 1 ELSE send_cntr
  BY DEF Handshake, Transfer
<1>4. /\ Sent' = IF counted THEN Sent + 1 ELSE Sent
      /\ Received' = IF receives THEN Received + 1 ELSE Received
  BY <1>1, <1>2, <1>3 DEF Sent, Received
<1>5. ready \in BOOLEAN /\ sends \in BOOLEAN
  OBVIOUS
<1>11. (sends => in_avail') /\ (~ sends => ~ in_avail')
  BY <1>3, Zenon
<1>6. /\ send_cntr' \in 0 .. data_size /\ recv_cntr' \in 0 .. resp_data_size
      /\ in_data' \in Nat /\ in_avail' \in BOOLEAN /\ out_ready' \in BOOLEAN
  BY <1>1, <1>2, <1>3
<1>7. receives => out_data = Received + 1 /\ Received < Sent
  <2>1. CASE kernel = "vadd"
    <3>1. receives => in_avail /\ ~ Jammed /\ out_data = in_data
      BY <1>1, <2>1 DEF Jammed, out_avail, out_data
    <3> QED
      BY <1>2, <2>1, <3>1 DEF InOrder, VaddInOrder
  <2>2. CASE kernel = "pipeline"
    <3>1. ~ Taking /\ ~ Giving
      BY DEF Taking, Giving
    <3>2. /\ Sent = Received + Len(held)
          /\ \A i \in 1 .. Len(held) : held[i] = Received + i
          /\ offers => held # <<>>
      BY <2>2, <3>1 DEF InOrder, PipelineInOrder
    <3>3. receives => offers /\ out_data = Head(held)
      BY <2>2 DEF out_avail, out_data
    <3>4. ASSUME offers PROVE Len(held) > 0 /\ Head(held) = held[1]
      BY <1>1, <3>2, <3>4
    <3> QED
      BY <1>2, <3>2, <3>3, <3>4
  <2> QED
    BY <1>1, <2>1, <2>2
<1>8. output_buff' \in Seq(Nat) /\ FirstInFirstOut'
  <2>1. Len(output_buff) = recv_cntr /\ \A i \in 1 .. recv_cntr : output_buff[i] = answered + i
    BY DEF FirstInFirstOut
  <2>2. Received' <= Sent'
    BY <1>2, <1>4, <1>7 DEF FirstInFirstOut
  <2>3. CASE receives
    <3>1. /\ output_buff' = Append(output_buff, Received + 1) /\ recv_cntr' = recv_cntr + 1
      BY <1>3, <1>7, <2>3
    <3>2. output_buff' \in Seq(Nat) /\ Len(output_buff') = recv_cntr'
      BY <1>1, <1>2, <2>1, <3>1
    <3>3. ASSUME NEW i \in 1 .. recv_cntr' PROVE output_buff'[i] = answered' + i
      <4>1. CASE i = recv_cntr'
        BY <1>1, <1>2, <2>1, <3>1, <4>1
      <4>2. CASE i # recv_cntr'
        BY <1>1, <1>2, <2>1, <3>1, <4>2
      <4> QED
        BY <4>1, <4>2
    <3> QED
      BY <2>2, <3>2, <3>3 DEF FirstInFirstOut
  <2>4. CASE ~ receives
    BY <1>1, <1>3, <2>1, <2>2, <2>4 DEF FirstInFirstOut
  <2> QED
    BY <2>3, <2>4
<1>9. CASE kernel = "vadd"
  <2>1. /\ Received <= Sent /\ (~ in_avail => Sent = Received)
        /\ (in_avail /\ ~ Jammed => Sent = Received + 1 /\ in_data = Sent)
    BY <1>9 DEF InOrder, VaddInOrder
  <2>2. receives = (ready /\ in_avail) /\ counted = (sends /\ ready)
    BY <1>9 DEF out_avail, in_ready
  <2>3. ASSUME ready PROVE InOrder'
    <3>1. ~ Jammed
      BY <1>1, <2>3 DEF Jammed
    <3>2. Received' = Sent
      BY <1>2, <1>4, <2>1, <2>2, <2>3, <3>1
    <3>3. Sent' = IF sends THEN Sent + 1 ELSE Sent
      BY <1>4, <2>2, <2>3
    <3>4. /\ ~ sends => Sent' = Received'
          /\ sends => Sent' = Received' + 1 /\ in_data' = Sent'
      BY <1>2, <1>3, <3>2, <3>3
    <3>5. VaddInOrder'
      BY <1>2, <1>11, <3>2, <3>4 DEF VaddInOrder
    <3> QED
      BY <1>1, <1>9, <3>5 DEF InOrder
  <2>4. ASSUME ~ ready PROVE InOrder'
    <3>1. recv_cntr = resp_data_size /\ sends
      BY <1>1, <2>4 DEF InLoop, Unfinished
    <3>2. /\ send_cntr' = send_cntr /\ recv_cntr' = recv_cntr /\ Sent' = Sent
          /\ Received' = Received /\ in_avail' /\ ~ out_ready'
      BY <1>3, <1>4, <2>2, <2>4, <3>1
    <3>3. Jammed'
      BY <1>1, <3>1, <3>2 DEF Jammed, Unfinished
    <3>4. VaddInOrder'
      BY <2>1, <3>2, <3>3 DEF VaddInOrder
    <3> QED
      BY <1>1, <1>9, <3>4 DEF InOrder
  <2> QED
    BY <1>6, <1>8, <2>3, <2>4
<1>10. CASE kernel = "pipeline"
  <2>1. ~ Taking /\ ~ Giving
    BY DEF Taking, Giving
  <2>2. /\ Sent = Received + Len(held)
        /\ \A i \in 1 .. Len(held) : held[i] = Received + i
        /\ offers => held # <<>>
    BY <1>10, <2>1 DEF InOrder, PipelineInOrder
  <2>3. receives = (ready /\ offers)
    BY <1>10 DEF out_avail
  <2>4. in_ready(out_ready)' = in_ready(ready)
    BY <1>1, <1>3 DEF in_ready
  <2>5. Giving' = receives /\ Taking' = counted
    BY <1>1, <1>3, <1>5, <2>3, <2>4 DEF Giving, Taking
  <2>6. Taking' => in_data' = Sent'
    BY <1>3, <1>4, <2>5
  <2>10. (IF Taking' THEN Sent' - 1 ELSE Sent') = Sent
    <3>1. CASE counted
      <4>1. Taking' /\ Sent' = Sent + 1
        BY <1>4, <2>5, <3>1
      <4> QED
        BY <1>2, <4>1
    <3>2. CASE ~ counted
      BY <1>4, <2>5, <3>2
    <3> QED
      BY <3>1, <3>2
  <2>7. /\ (IF Giving' THEN Received' - 1 ELSE Received') = Received
        /\ (IF Taking' THEN Sent' - 1 ELSE Sent') = Sent
    <3>1. CASE receives
      <4>1. Giving' /\ Received' = Received + 1
        BY <1>4, <2>5, <3>1
      <4> QED
        BY <1>2, <2>10, <4>1
    <3>2. CASE ~ receives
      BY <1>4, <2>5, <2>10, <3>2
    <3> QED
      BY <3>1, <3>2
  <2>8. PipelineInOrder'
    BY <1>1, <1>2, <2>2, <2>6, <2>7 DEF PipelineInOrder
  <2> QED
    BY <1>1, <1>6, <1>8, <1>10, <2>8 DEF InOrder
<1> QED
  BY <1>1, <1>9, <1>10, <1>6, <1>8

LEMMA DriveKeeps == ASSUME IInv, Drive PROVE IInv'
<1>1. CASE Exit
  BY <1>1, ExitKeeps
<1>2. CASE /\ ~ TickExits /\ Tick /\ Handshake
           /\ at' = IF Unfinished(send_cntr', recv_cntr') THEN "rise" ELSE "done"
           /\ UNCHANGED <<kernelVars, data_size, resp_data_size, history>>
  <2>1. /\ SimTypeOK /\ InOrder /\ InLoop /\ FirstInFirstOut /\ at = "drive"
        /\ at' \in {"rise", "done"}
    BY <1>2 DEF IInv, Drive
  <2>2. /\ InOrder' /\ FirstInFirstOut'
        /\ send_cntr' \in 0 .. data_size /\ recv_cntr' \in 0 .. resp_data_size
        /\ output_buff' \in Seq(Nat) /\ in_data' \in Nat
        /\ in_avail' \in BOOLEAN /\ out_ready' \in BOOLEAN
    BY <1>2, <2>1, HandshakeInOrder
  <2>3. /\ phase_cnt' \in 0 .. MAX_PHASES + 1
        /\ trace_phase_cnt' \in 0 .. MAX_TRACE_PHASES
        /\ tracing_enabled' \in BOOLEAN
    BY <1>2, <2>1, TickTyped
  <2>4. SimTypeOK'
    BY <1>2, <2>1, <2>2, <2>3 DEF SimTypeOK, kernelVars, history
  <2>5. InLoop' /\ Quiet'
    BY <1>2, <2>1 DEF InLoop, Quiet, Unfinished
  <2> QED
    BY <2>2, <2>4, <2>5 DEF IInv
<1> QED
  BY <1>1, <1>2 DEF Drive

\* Every step keeps the invariant.
LEMMA NextKeeps == ASSUME IInv, [Next]_vars PROVE IInv'
<1>1. CASE ResetKernel BY <1>1, ResetKeeps
<1>2. CASE EnableTracing \/ DisableTracing BY <1>2, TracingKeeps
<1>3. CASE \E size, resp \in 0 .. MaxSize : WriteKernelData(size, resp) BY <1>3, WriteKeeps
<1>4. CASE StartKernel BY <1>4, StartKeeps
<1>5. CASE Rise BY <1>5, RiseKeeps
<1>6. CASE Drive BY <1>6, DriveKeeps
<1>7. CASE ReadKernelData BY <1>7, ReadKeeps
<1>8. CASE UNCHANGED vars
  <2> USE <1>8 DEF vars, kernelVars, pins, run, trace, history
  <2>1. SimTypeOK' /\ InLoop' /\ Quiet' /\ FirstInFirstOut'
    BY DEF IInv, SimTypeOK, InLoop, Unfinished, Quiet, FirstInFirstOut, Sent, Received
  <2>2. Taking' = Taking /\ Giving' = Giving /\ Jammed' = Jammed /\ Sent' = Sent
        /\ Received' = Received
    BY DEF Taking, Giving, Jammed, in_ready, Sent, Received
  <2>3. InOrder => InOrder'
    BY <2>2 DEF InOrder, PipelineInOrder, VaddInOrder
  <2> QED
    BY <2>1, <2>3 DEF IInv
<1> QED
  BY <1>1, <1>2, <1>3, <1>4, <1>5, <1>6, <1>7, <1>8 DEF Next, Loop

\* The invariant holds.
LEMMA Invariance == Spec => []IInv
<1>1. Init => IInv
  BY InitIInv
<1>2. IInv /\ [Next]_vars => IInv'
  BY NextKeeps
<1> QED
  BY <1>1, <1>2, PTL DEF Spec

\* The driver's counters stay within the sizes of the run, the phases and the trace within
\* their limits, and a pipeline never holds more than it can.
THEOREM SimTypes == Spec => []SimTypeOK
<1>1. IInv => SimTypeOK
  BY DEF IInv
<1> QED
  BY <1>1, Invariance, PTL

\* No chunk is lost, answered twice or overtaken, for any pipeline that stalls as it likes
\* and for vadd, across runs that ask for more or fewer results than they send.
THEOREM StreamInOrder == Spec => []FirstInFirstOut
<1>1. IInv => FirstInFirstOut
  BY DEF IInv
<1> QED
  BY <1>1, Invariance, PTL

-----------------------------------------------------------------------------
\* A run of vadd that begins with nothing left over and asks for as much as it sends.
EvenRun ==
  kernel = "vadd" /\ before = answered /\ data_size = resp_data_size /\ data_size > 0

\* After its first cycle vadd is always one chunk ahead, and each cycle is two phases.
Pace ==
  EvenRun =>
    /\ at = "rise" =>
         \/ phase_cnt = begun /\ send_cntr = 0 /\ recv_cntr = 0
         \/ phase_cnt = begun + 2 * (recv_cntr + 1) /\ send_cntr = recv_cntr + 1
    /\ at = "drive" =>
         \/ phase_cnt = begun + 1 /\ send_cntr = 0 /\ recv_cntr = 0
         \/ phase_cnt = begun + 2 * (recv_cntr + 1) + 1 /\ send_cntr = recv_cntr + 1
    /\ at = "done" => phase_cnt = begun + 2 * (data_size + 1)

\* One handshake of such a run.
LEMMA DrivePaces ==
  ASSUME IInv, Pace, EvenRun, at = "drive", Tick, Handshake,
         at' = IF Unfinished(send_cntr', recv_cntr') THEN "rise" ELSE "done",
         UNCHANGED <<kernelVars, data_size, resp_data_size, history>>
  PROVE  Pace'
<1> DEFINE ready == recv_cntr < resp_data_size
           sends == send_cntr < data_size
<1>1. /\ kernel = "vadd" /\ before = answered /\ data_size = resp_data_size /\ data_size > 0
      /\ data_size' = data_size /\ resp_data_size' = resp_data_size /\ begun' = begun
      /\ data_size \in Nat /\ send_cntr \in 0 .. data_size /\ recv_cntr \in 0 .. data_size
      /\ before \in Nat /\ begun \in Nat /\ phase_cnt \in Nat /\ phase_cnt' = phase_cnt + 1
  BY SimAssumption DEF IInv, SimTypeOK, EvenRun, history, Tick
<1>2. /\ \/ phase_cnt = begun + 1 /\ send_cntr = 0 /\ recv_cntr = 0
         \/ phase_cnt = begun + 2 * (recv_cntr + 1) + 1 /\ send_cntr = recv_cntr + 1
      /\ recv_cntr < data_size
  BY <1>1 DEF Pace, IInv, InLoop, Unfinished
<1>3. /\ recv_cntr' = IF ready /\ in_avail THEN recv_cntr + 1 ELSE recv_cntr
      /\ send_cntr' = IF sends /\ ready THEN send_cntr + 1 ELSE send_cntr
  BY <1>1 DEF Handshake, Transfer, out_avail, in_ready
<1>4. /\ ~ in_avail => send_cntr = recv_cntr
      /\ in_avail => send_cntr = recv_cntr + 1
  BY <1>1, <1>2 DEF IInv, InOrder, VaddInOrder, Jammed, Sent, Received
<1>5. CASE send_cntr = 0 /\ recv_cntr = 0 /\ phase_cnt = begun + 1
  <2>1. send_cntr' = 1 /\ recv_cntr' = 0
    BY <1>1, <1>3, <1>4, <1>5
  <2>2. at' = "rise"
    BY <1>1, <2>1 DEF Unfinished
  <2> QED
    BY <1>1, <1>5, <2>1, <2>2 DEF Pace
<1>6. CASE phase_cnt = begun + 2 * (recv_cntr + 1) + 1 /\ send_cntr = recv_cntr + 1
  <2>1. recv_cntr' = recv_cntr + 1
    BY <1>1, <1>2, <1>3, <1>4, <1>6
  <2>2. CASE sends
    <3>1. send_cntr' = recv_cntr' + 1 /\ recv_cntr' < data_size
      BY <1>1, <1>2, <1>3, <1>6, <2>1, <2>2
    <3>2. at' = "rise"
      BY <1>1, <3>1 DEF Unfinished
    <3> QED
      BY <1>1, <1>6, <2>1, <3>1, <3>2 DEF Pace
  <2>3. CASE ~ sends
    <3>1. send_cntr' = data_size /\ recv_cntr' = data_size
      BY <1>1, <1>2, <1>3, <1>6, <2>1, <2>3
    <3>2. at' = "done"
      BY <1>1, <3>1 DEF Unfinished
    <3> QED
      BY <1>1, <1>6, <2>1, <3>1, <3>2 DEF Pace
  <2> QED
    BY <2>2, <2>3
<1> QED
  BY <1>2, <1>5, <1>6

\* Every step keeps the pace.
LEMMA PaceKept == ASSUME IInv, Pace, [Next]_vars PROVE Pace'
<1>1. CASE at' \notin {"rise", "drive", "done"}
  BY <1>1 DEF Pace
<1>2. CASE StartKernel
  BY <1>2, SimAssumption DEF StartKernel, BeginRun, Pace, EvenRun, Unfinished, IInv, SimTypeOK
<1>3. CASE Rise
  <2>1. CASE Exit
    BY <1>1, <2>1 DEF Exit
  <2>2. CASE Tick /\ ClockEdge /\ at' = "drive" /\ UNCHANGED <<pins, run, history>>
    <3>1. /\ phase_cnt' = phase_cnt + 1 /\ at = "rise" /\ kernel' = kernel
          /\ phase_cnt \in Nat /\ begun \in Nat /\ recv_cntr \in Nat
      BY <1>3, <2>2, SimAssumption DEF Rise, Tick, ClockEdge, IInv, SimTypeOK
    <3> QED
      BY <2>2, <3>1 DEF Pace, EvenRun, run, history
  <2> QED
    BY <1>3, <2>1, <2>2 DEF Rise
<1>4. CASE Drive
  <2>1. CASE Exit
    BY <1>1, <2>1 DEF Exit
  <2>2. CASE /\ Tick /\ Handshake
             /\ at' = IF Unfinished(send_cntr', recv_cntr') THEN "rise" ELSE "done"
             /\ UNCHANGED <<kernelVars, data_size, resp_data_size, history>>
    <3>1. CASE EvenRun
      BY <1>4, <2>2, <3>1, DrivePaces DEF Drive
    <3>2. CASE ~ EvenRun
      BY <2>2, <3>2 DEF Pace, EvenRun, kernelVars, history
    <3> QED
      BY <3>1, <3>2
  <2> QED
    BY <1>4, <2>1, <2>2 DEF Drive
<1>5. CASE UNCHANGED vars
  BY <1>5 DEF Pace, EvenRun, vars, kernelVars, run, history
<1>6. CASE ResetKernel \/ EnableTracing \/ DisableTracing \/ ReadKernelData
           \/ \E size, resp \in 0 .. MaxSize : WriteKernelData(size, resp)
  BY <1>1, <1>6 DEF ResetKernel, EnableTracing, DisableTracing, ReadKernelData, WriteKernelData
<1> QED
  BY <1>2, <1>3, <1>4, <1>5, <1>6 DEF Next, Loop

\* vadd needs one clock cycle more than it has chunks, for runs of any size.
THEOREM VaddPace == Spec => []VaddKeepsPace
<1>1. Init => Pace
  BY DEF Init, Pace
<1>2. IInv /\ Pace /\ [Next]_vars => Pace'
  BY PaceKept
<1>3. Pace => VaddKeepsPace
  BY DEF Pace, EvenRun, VaddKeepsPace
<1> QED
  BY <1>1, <1>2, <1>3, Invariance, PTL DEF Spec

-----------------------------------------------------------------------------
(* A run is one step of the abstract kernel. The loop stutters until its   *)
(* last handshake; Room says why that handshake may be such a step.        *)

\* Between the runs the kernel keeps what is on its way, and no more than it can.
Room ==
  at \in {"idle", "written", "done"} =>
    /\ Received <= Sent
    /\ Sent <= Received + (IF kernel = "vadd" THEN 1 ELSE Depth)

LEMMA RoomKept == ASSUME IInv PROVE Room
<1>. SUFFICES ASSUME at \in {"idle", "written", "done"}
              PROVE  /\ Received <= Sent
                     /\ Sent <= Received + (IF kernel = "vadd" THEN 1 ELSE Depth)
  BY DEF Room
<1>1. /\ Sent \in Nat /\ Received \in Nat /\ Received <= Sent /\ InOrder
      /\ held \in Seq(Nat) /\ Len(held) <= Depth /\ Depth \in Nat
      /\ kernel \in {"vadd", "pipeline"} /\ in_avail \in BOOLEAN
  BY SimAssumption DEF IInv, SimTypeOK, FirstInFirstOut, Sent, Received
<1>2. CASE kernel = "vadd"
  <2>1. VaddInOrder /\ ~ Jammed
    BY <1>1, <1>2 DEF InOrder, Jammed
  <2>2. Sent <= Received + 1
    BY <1>1, <2>1 DEF VaddInOrder
  <2>. QED
    BY <1>1, <1>2, <2>2
<1>3. CASE kernel = "pipeline"
  <2>. DEFINE givenOut == IF Giving THEN Received - 1 ELSE Received
              takenIn == IF Taking THEN Sent - 1 ELSE Sent
  <2>1. takenIn = givenOut + Len(held)
    BY <1>1, <1>3 DEF InOrder, PipelineInOrder
  <2>2. Taking => Len(held) < Depth \/ Giving
    BY <1>3 DEF Taking, Giving, in_ready
  <2>3. Sent <= Received + Depth
    BY <1>1, <2>1, <2>2
  <2>. QED
    BY <1>1, <1>3, <2>3
<1>. QED
  BY <1>1, <1>2, <1>3

\* The results of a run that has returned.
LEMMA ResultsAre ==
  ASSUME NEW buffer \in Seq(Nat), NEW n \in Nat, NEW k \in Nat, Len(buffer) = n,
         \A j \in 1 .. n : buffer[j] = k + j
  PROVE  buffer = [j \in 1 .. n |-> k + j]
  OBVIOUS

LEMMA CallsInit == ASSUME Init PROVE Calls!Init
  BY SimAssumption DEF Init, Calls!Init

\* The step with which a run returns.
LEMMA Returns ==
  ASSUME IInv, IInv', Room', at \in {"written", "drive"}, at' = "done",
         ~ Unfinished(send_cntr', recv_cntr'),
         UNCHANGED <<kernel, data_size, resp_data_size, before, answered>>
  PROVE  Calls!Run
<1>1. /\ data_size' = data_size /\ resp_data_size' = resp_data_size
      /\ before' = before /\ answered' = answered /\ kernel' = kernel
      /\ data_size \in Nat /\ resp_data_size \in Nat /\ before \in Nat /\ answered \in Nat
  BY SimAssumption DEF IInv, SimTypeOK
<1>2. send_cntr' \in 0 .. data_size /\ recv_cntr' \in 0 .. resp_data_size
  BY <1>1 DEF IInv, SimTypeOK
<1>3. send_cntr' = data_size /\ recv_cntr' = resp_data_size
  BY <1>1, <1>2 DEF Unfinished
<1>4. Sent' = before + data_size /\ Received' = answered + resp_data_size
  BY <1>1, <1>3 DEF Sent, Received
<1>5. /\ Received' <= Sent'
      /\ Sent' <= Received' + (IF kernel' = "vadd" THEN 1 ELSE Depth)
  BY DEF Room
<1>6. output_buff' = [j \in 1 .. resp_data_size |-> answered + j]
  <2>1. /\ output_buff' \in Seq(Nat) /\ Len(output_buff') = resp_data_size
        /\ \A j \in 1 .. resp_data_size : output_buff'[j] = answered + j
    BY <1>1, <1>3 DEF IInv, SimTypeOK, FirstInFirstOut
  <2>. QED
    BY <1>1, <2>1, ResultsAre
<1>. QED
  BY <1>1, <1>4, <1>5, <1>6 DEF Calls!Run

\* Every step is one of the abstract kernel, or none.
LEMMA CallsStep ==
  ASSUME IInv, IInv', Room', [Next]_vars
  PROVE  [Calls!Next]_(Calls!vars)
<1>1. CASE ResetKernel
  <2>1. Calls!Reset
    BY <1>1 DEF ResetKernel, run, history, Calls!Reset
  <2>. QED
    BY <2>1 DEF Calls!Next
<1>2. CASE EnableTracing \/ DisableTracing
  <2>1. UNCHANGED <<kernelVars, at, run, history>>
    BY <1>2 DEF EnableTracing, DisableTracing
  <2>. QED
    BY <2>1 DEF kernelVars, run, history, Calls!vars, Sent, Received
<1>3. ASSUME NEW newSize \in 0 .. MaxSize, NEW newResp \in 0 .. MaxSize,
             WriteKernelData(newSize, newResp)
      PROVE  [Calls!Next]_(Calls!vars)
  <2>1. newSize \in Nat /\ newResp \in Nat
    BY SimAssumption
  <2>2. Calls!Write
    BY <1>3, <2>1 DEF WriteKernelData, kernelVars, Calls!Write
  <2>. QED
    BY <2>2 DEF Calls!Next
<1>4. CASE StartKernel
  <2>1. /\ at = "written" /\ UNCHANGED <<kernel, data_size, resp_data_size, before, answered>>
        /\ at' = IF Unfinished(0, 0) THEN "rise" ELSE "done"
        /\ send_cntr' = 0 /\ recv_cntr' = 0
    BY <1>4 DEF StartKernel, BeginRun, kernelVars
  <2>2. CASE at' = "rise"
    BY <2>1, <2>2 DEF Calls!vars
  <2>3. CASE at' = "done"
    <3>1. ~ Unfinished(send_cntr', recv_cntr')
      BY <2>1, <2>3 DEF Unfinished
    <3>. QED
      BY <2>1, <2>3, <3>1, Returns DEF Calls!Next
  <2>. QED
    BY <2>1, <2>2, <2>3
<1>5. ASSUME at \in {"rise", "drive"}, Exit
      PROVE  [Calls!Next]_(Calls!vars)
  <2>1. Calls!Exit
    BY <1>5 DEF Exit, kernelVars, run, history, Calls!Exit
  <2>. QED
    BY <2>1 DEF Calls!Next
<1>6. CASE Rise
  <2>1. CASE Exit
    BY <1>5, <1>6, <2>1 DEF Rise
  <2>2. CASE ClockEdge /\ at' = "drive" /\ UNCHANGED <<pins, run, history>>
    BY <1>6, <2>2 DEF Rise, ClockEdge, run, history, Calls!vars
  <2>. QED
    BY <1>6, <2>1, <2>2 DEF Rise
<1>7. CASE Drive
  <2>1. CASE Exit
    BY <1>5, <1>7, <2>1 DEF Drive
  <2>2. CASE /\ at' = IF Unfinished(send_cntr', recv_cntr') THEN "rise" ELSE "done"
             /\ UNCHANGED <<kernelVars, data_size, resp_data_size, history>>
    <3>1. at = "drive" /\ UNCHANGED <<kernel, data_size, resp_data_size, before, answered>>
      BY <1>7, <2>2 DEF Drive, kernelVars, history
    <3>2. CASE at' = "rise"
      BY <3>1, <3>2 DEF Calls!vars
    <3>3. CASE at' = "done"
      <4>1. ~ Unfinished(send_cntr', recv_cntr')
        BY <2>2, <3>3 DEF Unfinished
      <4>. QED
        BY <3>1, <3>3, <4>1, Returns DEF Calls!Next
    <3>. QED
      BY <2>2, <3>2, <3>3
  <2>. QED
    BY <1>7, <2>1, <2>2 DEF Drive
<1>8. CASE ReadKernelData
  <2>1. Calls!Read
    BY <1>8 DEF ReadKernelData, kernelVars, Calls!Read
  <2>. QED
    BY <2>1 DEF Calls!Next
<1>9. CASE UNCHANGED vars
  BY <1>9 DEF vars, kernelVars, run, history, Calls!vars, Sent, Received
<1>. QED
  BY <1>1, <1>2, <1>3, <1>4, <1>6, <1>7, <1>8, <1>9 DEF Next, Loop

\* Whatever the sizes of the runs and however the pipeline stalls, start_kernel() is one
\* step to its caller: it returns with all chunks given and exactly the results of the
\* oldest chunks unanswered, leaving no more than the kernel can keep, or it does not
\* return.
THEOREM RunsAreCalls == Spec => ImplementsCalls
<1>1. Init => Calls!Init
  BY CallsInit
<1>2. IInv => Room
  BY RoomKept
<1>3. IInv /\ IInv' /\ Room' /\ [Next]_vars => [Calls!Next]_(Calls!vars)
  BY CallsStep
<1>. QED
  BY <1>1, <1>2, <1>3, Invariance, PTL DEF Spec, ImplementsCalls, Calls!Spec
=============================================================================
