---------------------------- MODULE KernelCalls ----------------------------
(***************************************************************************)
(* What the simulated kernel promises to the host that calls it            *)
(* (framework/host/sim_kernel.c), without clock, pins or handshakes.       *)
(*                                                                         *)
(* start_kernel() is one step: it gives the kernel the chunks that were    *)
(* written and takes the results that were asked for, which are those of   *)
(* the oldest chunks not yet answered, in order, or it ends the host. It   *)
(* never returns from a run that asks for results of chunks that were not  *)
(* given, or that leaves more chunks unanswered than the kernel can keep.  *)
(*                                                                         *)
(* SimKernel implements this module (SimKernel!Calls).                     *)
(***************************************************************************)
EXTENDS Naturals

VARIABLES
  stage,        \* between which calls the host is
  size, resp,   \* the chunks written and the results asked for
  given,        \* the chunks given to the kernel in all runs that returned
  taken,        \* the results taken in those runs
  results,      \* the results of the run that has just returned
  capacity      \* how many chunks the kernel can keep unanswered

vars == <<stage, size, resp, given, taken, results, capacity>>

Init ==
  /\ stage = "new"
  /\ size = 0 /\ resp = 0
  /\ given = 0 /\ taken = 0
  /\ results = <<>>
  /\ capacity \in Nat

Reset ==
  /\ stage = "new"
  /\ stage' = "idle"
  /\ UNCHANGED <<size, resp, given, taken, results, capacity>>

Write ==
  /\ stage = "idle"
  /\ stage' = "written"
  /\ size' \in Nat
  /\ resp' \in Nat
  /\ UNCHANGED <<given, taken, results, capacity>>

\* start_kernel() returns.
Run ==
  /\ stage = "written"
  /\ stage' = "done"
  /\ given' = given + size
  /\ taken' = taken + resp
  /\ taken' <= given'
  /\ given' <= taken' + capacity
  /\ results' = [k \in 1 .. resp |-> taken + k]
  /\ UNCHANGED <<size, resp, capacity>>

\* start_kernel() gives up.
Exit ==
  /\ stage = "written"
  /\ stage' = "exited"
  /\ UNCHANGED <<size, resp, given, taken, results, capacity>>

Read ==
  /\ stage = "done"
  /\ stage' = "idle"
  /\ results' = <<>>
  /\ UNCHANGED <<size, resp, given, taken, capacity>>

Next == Reset \/ Write \/ Run \/ Exit \/ Read

Spec == Init /\ [][Next]_vars

=============================================================================
