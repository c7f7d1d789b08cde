----------------------------- MODULE MCStartup -----------------------------
(* Instances of Startup for TLC. *)
EXTENDS Startup, TLC
MCUpgraded == <<"governance_events", "incident_log">>
Symmetry == Permutations(Workers)
PgUpgraded == {"governance_events", "incident_log", "redress_requests", "tenants"}
PgFresh == {}
============================================================================
