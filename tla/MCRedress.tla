----------------------------- MODULE MCRedress -----------------------------
(* Instances of Redress for TLC. *)
EXTENDS Redress, TLC
Symmetry == Permutations(Workers) \cup Permutations(Refs)
AllDecisions == Statuses
============================================================================
