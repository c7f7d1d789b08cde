----------------------------- MODULE MCScoring -----------------------------
(* Instances of Scoring for TLC: thresholds of 2 to 3 events instead of 100, *)
(* a span of one day, a clock of whole days.                                 *)
EXTENDS Scoring
============================================================================
