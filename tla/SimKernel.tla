------------------------------ MODULE SimKernel ------------------------------
(***************************************************************************)
(* The simulated kernel (framework/host/sim_kernel.c): the driver clocks a *)
(* Verilator model, hands it chunks and takes its results by ready/avail   *)
(* handshakes, one run after the other. The kernel is                      *)
(*   "vadd"      apps/vadd/fpga/src/vadd_kernel.sv, combinational, or      *)
(*   "pipeline"  a back-pressured pipeline that may stall, like that of    *)
(*               apps/warpv/fpga/src/warpv_kernel.tlv.                     *)
(*                                                                         *)
(* A chunk is its number, in the order in which the host hands chunks to   *)
(* the driver, and a result is the number of the chunk it was made from.   *)
(* The driver runs in one thread: what it does between two clock edges is  *)
(* one action.                                                             *)
(***************************************************************************)
EXTENDS Naturals, Sequences

CONSTANTS
  Kernels,           \* the kernels considered
  Depth,             \* how many chunks a pipeline holds
  MaxSize,           \* bound on the chunks and on the results of a run
  MaxRuns,           \* bound on the runs
  MAX_PHASES,
  MAX_TRACE_PHASES

ResetPhases == 10

ASSUME SimAssumption ==
  /\ Kernels \subseteq {"vadd", "pipeline"}
  /\ Depth \in Nat /\ MaxSize \in Nat /\ MaxRuns \in Nat
  /\ MAX_TRACE_PHASES \in Nat
  /\ MAX_PHASES \in Nat /\ MAX_PHASES >= ResetPhases

VARIABLES
  kernel,            \* which kernel it is,
  held,              \* the chunks in the pipeline, the oldest first,
  accepts, offers,   \* whether it can take a chunk, whether it has a result
  in_avail, in_data, out_ready,  \* what the driver put on the kernel's pins
  at,                \* where the driver is
  data_size, resp_data_size, send_cntr, recv_cntr,
  output_buff,       \* the results of the run
  phase_cnt, tracing_enabled, trace_phase_cnt,
  runs, before, answered,  \* history: the runs, the chunks sent and the results received
                           \* in earlier runs,
  begun              \* and phase_cnt when the run began

kernelVars == <<kernel, held, accepts, offers>>
pins == <<in_avail, in_data, out_ready>>
run == <<data_size, resp_data_size, send_cntr, recv_cntr, output_buff>>
trace == <<tracing_enabled, trace_phase_cnt>>
history == <<runs, before, answered, begun>>
vars == <<kernelVars, pins, at, run, phase_cnt, trace, history>>

Sent == before + send_cntr
Received == answered + recv_cntr

-----------------------------------------------------------------------------
(* The kernel's pins, for what the driver has on its own, and its clock.    *)

in_ready(ready) ==
  IF kernel = "vadd" THEN ready
  ELSE accepts /\ (Len(held) < Depth \/ (offers /\ ready))

out_avail == IF kernel = "vadd" THEN in_avail ELSE offers

out_data == IF kernel = "vadd" THEN in_data ELSE Head(held)

\* The rising edge of the clock: what is ready and available changes hands. Then the
\* pipeline stalls or not, and does not withdraw what it has offered.
ClockEdge ==
  /\ kernel' = kernel
  /\ IF kernel = "vadd"
       THEN UNCHANGED <<held, accepts, offers>>
       ELSE LET left == IF offers /\ out_ready THEN Tail(held) ELSE held
            IN  /\ held' = IF in_avail /\ in_ready(out_ready)
                             THEN Append(left, in_data) ELSE left
                /\ accepts' \in BOOLEAN
                /\ offers' \in BOOLEAN
                /\ offers' => held' # <<>>
                /\ (offers /\ ~ out_ready) => offers'

-----------------------------------------------------------------------------
(* The driver.                                                              *)

\* Mutant: what was traced is compared before this phase is counted.
TickExitsLate ==
  \/ tracing_enabled /\ trace_phase_cnt > MAX_TRACE_PHASES
  \/ phase_cnt > MAX_PHASES

\* tick() gives up on a kernel that does not complete, or on a trace that gets too long.
TickExits ==
  \/ tracing_enabled /\ trace_phase_cnt + 1 > MAX_TRACE_PHASES
  \/ phase_cnt > MAX_PHASES

\* Mutant: the phases are counted only with those of the trace.
TickTraced ==
  /\ trace_phase_cnt' = IF tracing_enabled THEN trace_phase_cnt + 1 ELSE trace_phase_cnt
  /\ phase_cnt' = IF tracing_enabled THEN phase_cnt + 1 ELSE phase_cnt
  /\ UNCHANGED tracing_enabled

\* What tick() counts: the phases of all runs, and those of the trace.
Tick ==
  /\ trace_phase_cnt' = IF tracing_enabled THEN trace_phase_cnt + 1 ELSE trace_phase_cnt
  /\ phase_cnt' = phase_cnt + 1
  /\ UNCHANGED tracing_enabled

\* exit(1), from whatever the host was doing.
Exit ==
  /\ at' = "exited"
  /\ UNCHANGED <<kernelVars, pins, run, phase_cnt, trace, history>>

Init ==
  /\ kernel \in Kernels
  /\ held = <<>> /\ accepts = FALSE /\ offers = FALSE
  /\ in_avail = FALSE /\ in_data = 0 /\ out_ready = FALSE
  /\ at = "new"
  /\ data_size = 0 /\ resp_data_size = 0 /\ send_cntr = 0 /\ recv_cntr = 0
  /\ output_buff = <<>>
  /\ phase_cnt = 0 /\ tracing_enabled = FALSE /\ trace_phase_cnt = 0
  /\ runs = 0 /\ before = 0 /\ answered = 0 /\ begun = 0

\* reset_kernel(), which is called once and before anything is traced.
ResetKernel ==
  /\ at = "new"
  /\ at' = "idle"
  /\ in_avail' = FALSE
  /\ out_ready' = FALSE
  /\ accepts' \in BOOLEAN
  /\ phase_cnt' = phase_cnt + ResetPhases
  /\ UNCHANGED <<kernel, held, offers, in_data, run, trace, history>>

EnableTracing ==
  /\ at = "idle"
  /\ tracing_enabled' = TRUE
  /\ trace_phase_cnt' = 0
  /\ UNCHANGED <<kernelVars, pins, at, run, phase_cnt, history>>

DisableTracing ==
  /\ at = "idle"
  /\ tracing_enabled' = FALSE
  /\ UNCHANGED <<kernelVars, pins, at, run, phase_cnt, trace_phase_cnt, history>>

WriteKernelData(size, resp) ==
  /\ at = "idle"
  /\ runs < MaxRuns
  /\ at' = "written"
  /\ data_size' = size
  /\ resp_data_size' = resp
  /\ output_buff' = <<>>
  /\ runs' = runs + 1
  /\ UNCHANGED <<kernelVars, pins, send_cntr, recv_cntr, phase_cnt, trace, before, answered,
                 begun>>

\* The condition of start_kernel's loop.
Unfinished(sends, recvs) == sends < data_size \/ recvs < resp_data_size

\* The counters of start_kernel() begin at zero.
BeginRun ==
  /\ at = "written"
  /\ send_cntr' = 0
  /\ recv_cntr' = 0
  /\ at' = IF Unfinished(0, 0) THEN "rise" ELSE "done"
  /\ begun' = phase_cnt
  /\ UNCHANGED <<kernelVars, in_data, data_size, resp_data_size, output_buff, phase_cnt, trace,
                 runs, before, answered>>

\* Mutant: the pins are cleared first, as they are by a reset.
StartKernelClears == BeginRun /\ in_avail' = FALSE /\ out_ready' = FALSE

\* What the last run has left on the pins stays there.
StartKernel == BeginRun /\ UNCHANGED <<in_avail, out_ready>>

\* The first tick of the loop.
Rise ==
  /\ at = "rise"
  /\ \/ /\ TickExits
        /\ Exit
     \/ /\ ~ TickExits
        /\ Tick
        /\ ClockEdge
        /\ at' = "drive"
        /\ UNCHANGED <<pins, run, history>>

\* A result is taken, the next chunk offered, and counted if the kernel, seeing the given
\* out_ready, says that it will take it.
Transfer(seen, sends) ==
  LET ready == recv_cntr < resp_data_size
      receives == ready /\ out_avail
  IN  /\ out_ready' = ready
      /\ output_buff' = IF receives THEN Append(output_buff, out_data) ELSE output_buff
      /\ recv_cntr' = IF receives THEN recv_cntr + 1 ELSE recv_cntr
      /\ in_avail' = sends
      /\ in_data' = IF sends THEN Sent + 1 ELSE in_data
      /\ send_cntr' = IF sends /\ in_ready(seen) THEN send_cntr + 1 ELSE send_cntr

\* Mutant: the kernel is not evaluated with the new out_ready.
HandshakeNoEval == Transfer(out_ready, send_cntr < data_size)

\* Mutant: a chunk is offered only when no result was taken.
HandshakeElse ==
  Transfer(recv_cntr < resp_data_size,
           send_cntr < data_size /\ ~ (recv_cntr < resp_data_size /\ out_avail))

\* out_ready is driven and takes effect before the rest.
Handshake == Transfer(recv_cntr < resp_data_size, send_cntr < data_size)

\* The rest of the loop and its second tick.
Drive ==
  /\ at = "drive"
  /\ \/ /\ TickExits
        /\ Exit
     \/ /\ ~ TickExits
        /\ Tick
        /\ Handshake
        /\ at' = IF Unfinished(send_cntr', recv_cntr') THEN "rise" ELSE "done"
        /\ UNCHANGED <<kernelVars, data_size, resp_data_size, history>>

\* read_kernel_data() hands the results over.
ReadKernelData ==
  /\ at = "done"
  /\ at' = "idle"
  /\ before' = Sent
  /\ answered' = Received
  /\ send_cntr' = 0 /\ recv_cntr' = 0 /\ output_buff' = <<>>
  /\ UNCHANGED <<kernelVars, pins, data_size, resp_data_size, phase_cnt, trace, runs, begun>>

Loop == Rise \/ Drive

Next ==
  \/ ResetKernel
  \/ EnableTracing
  \/ DisableTracing
  \/ \E size, resp \in 0 .. MaxSize : WriteKernelData(size, resp)
  \/ StartKernel
  \/ Loop
  \/ ReadKernelData

Spec == Init /\ [][Next]_vars

FairSpec == Spec /\ WF_vars(Loop)

-----------------------------------------------------------------------------
(* What should hold.                                                        *)

SimTypeOK ==
  /\ kernel \in Kernels
  /\ held \in Seq(Nat)
  /\ Len(held) <= Depth
  /\ accepts \in BOOLEAN /\ offers \in BOOLEAN
  /\ in_avail \in BOOLEAN /\ in_data \in Nat /\ out_ready \in BOOLEAN
  /\ at \in {"new", "idle", "written", "rise", "drive", "done", "exited"}
  /\ data_size \in 0 .. MaxSize /\ resp_data_size \in 0 .. MaxSize
  /\ send_cntr \in 0 .. data_size /\ recv_cntr \in 0 .. resp_data_size
  /\ output_buff \in Seq(Nat)
  /\ phase_cnt \in 0 .. MAX_PHASES + 1
  /\ tracing_enabled \in BOOLEAN
  /\ trace_phase_cnt \in 0 .. MAX_TRACE_PHASES
  /\ runs \in 0 .. MaxRuns
  /\ before \in Nat /\ answered \in Nat /\ begun \in Nat

\* To the host a run is one step, however the driver and the kernel interleave within it:
\* a call that returns has given all chunks and taken exactly the results it asked for,
\* those of the oldest chunks not yet answered, in order, none lost, none twice, across
\* runs of uneven sizes; though a chunk is counted (line 183) before the clock edge that
\* takes it, a result (line 171) before the edge that gives it away, and a run may end
\* between the two (line 154). A run that cannot be completed does not return.
Calls == INSTANCE KernelCalls WITH
  stage <- IF at \in {"rise", "drive"} THEN "written" ELSE at,
  size <- data_size,
  resp <- resp_data_size,
  given <- IF at = "done" THEN Sent ELSE before,
  taken <- IF at = "done" THEN Received ELSE answered,
  results <- IF at = "done" THEN output_buff ELSE <<>>,
  capacity <- IF kernel = "vadd" THEN 1 ELSE Depth

ImplementsCalls == Calls!Spec

\* vadd takes a chunk and gives a result every clock cycle: a run that asks for as many
\* results as it sends, none left over from earlier runs, needs one cycle more than chunks.
\* It is what the evaluation between the edges (line 164) is for.
VaddKeepsPace ==
  (kernel = "vadd" /\ at = "done" /\ before = answered
     /\ data_size = resp_data_size /\ data_size > 0)
    => phase_cnt = begun + 2 * (data_size + 1)

\* start_kernel() returns or ends the host, whatever the kernel does and however many
\* results it is asked for: that is what MAX_PHASES is for (lines 111-114).
StartEnds == (at = "rise") ~> (at \in {"done", "exited"})
=============================================================================
