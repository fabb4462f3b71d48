---------------------------- MODULE MC_TimeBomb ----------------------------
(* Instances of TimeBomb for TLC. *)
EXTENDS TimeBomb
=============================================================================
