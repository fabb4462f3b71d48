---------------------------- MODULE MC_F1System ----------------------------
(* Instances of F1System for TLC. *)
EXTENDS F1System, TLC

\* The pages are interchangeable.
Symmetry == Permutations(Client)
=============================================================================
