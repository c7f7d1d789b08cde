----------------------------- MODULE MCTenants -----------------------------
(* Instances of Tenants for TLC. *)
EXTENDS Tenants, TLC

Symmetry == Permutations(Orgs) \cup Permutations(Keys) \cup Permutations(Tokens)
              \cup Permutations(Workers)
============================================================================
