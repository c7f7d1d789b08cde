----------------------------- MODULE MCWelfare -----------------------------
(* Instances of Welfare for TLC: a gate of two events on two dimensions  *)
(* over one day instead of 100, 3 and 14.                                  *)
EXTENDS Welfare
MCKinds == {[meta |-> "none", type |-> "welfare_hours"],
            [meta |-> "tokens", type |-> "welfare_hours"],
            [meta |-> "none", type |-> "welfare_break_violated"],
            [meta |-> "none", type |-> "break_honored"]}
============================================================================
