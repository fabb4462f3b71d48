--------------------------- MODULE DeadMansSwitch ---------------------------
(***************************************************************************)
(* What framework/aws/ec2_time_bomb promises to the users of an EC2        *)
(* instance, without processes, files or AWS calls.                        *)
(*                                                                         *)
(* An instance is cut off only when the switch has run out, or by a        *)
(* decision so recent that a user who has waited Race time units since     *)
(* the last reset cannot meet it; and while somebody watches the switch,   *)
(* an instance that nobody attends to is never up for more than Bound.     *)
(*                                                                         *)
(* TimeBomb implements this module (TimeBomb!Switch).                      *)
(***************************************************************************)
EXTENDS Naturals

CONSTANTS
  ResetTime,  \* the age at which the switch has run out
  Race,       \* how young a reset may be and still lose against a decision
  Bound       \* the longest an unattended instance stays up

VARIABLES
  inst,       \* "stopped", "running" or "stopping"
  age,        \* time since the last reset, no more than ResetTime
  watched,    \* whether some process watches the switch
  unattended  \* how long a watched instance has been up with nobody attending

vars == <<inst, age, watched, unattended>>

TypeOK ==
  /\ inst \in {"stopped", "running", "stopping"}
  /\ age \in 0 .. ResetTime
  /\ watched \in BOOLEAN
  /\ unattended \in 0 .. Bound

Init ==
  /\ inst \in {"stopped", "running"}
  /\ age = ResetTime
  /\ watched = FALSE
  /\ unattended = 0

\* A user resets the switch.
Reset ==
  /\ age' = 0
  /\ unattended' = 0
  /\ UNCHANGED <<inst, watched>>

\* A user throws the switch: it has run out at once.
Throw ==
  /\ age' = ResetTime
  /\ UNCHANGED <<inst, watched, unattended>>

\* Watching begins or ends, or an attempt to cut the instance off fails: the
\* time for which the instance was left alone is counted afresh.
Disturb ==
  /\ watched' \in BOOLEAN
  /\ unattended' \in {unattended, 0}
  /\ watched' /\ ~watched => unattended' = 0
  /\ UNCHANGED <<inst, age>>

Start ==
  /\ inst = "stopped"
  /\ inst' = "running"
  /\ unattended' = 0
  /\ UNCHANGED <<age, watched>>

\* The instance is cut off: never under a user whose reset is neither run
\* out nor as recent as Race.
Cut ==
  /\ inst = "running"
  /\ age >= ResetTime \/ age <= Race
  /\ inst' = "stopping"
  /\ UNCHANGED <<age, watched, unattended>>

Stopped ==
  /\ inst = "stopping"
  /\ inst' = "stopped"
  /\ UNCHANGED <<age, watched, unattended>>

\* Time may pass only while no watched instance is overdue.
Elapse ==
  /\ age' = IF age < ResetTime THEN age + 1 ELSE ResetTime
  /\ unattended' = IF inst = "running" /\ watched THEN unattended + 1 ELSE 0
  /\ unattended' <= Bound
  /\ UNCHANGED <<inst, watched>>

Next == Reset \/ Throw \/ Disturb \/ Start \/ Cut \/ Stopped \/ Elapse

Spec == Init /\ [][Next]_vars

=============================================================================
