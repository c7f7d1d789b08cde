------------------------------- MODULE Ledger -------------------------------
(***************************************************************************)
(* What the two-store persistence promises its callers, without workers,   *)
(* connections or outages: a submission is recorded at most once in each   *)
(* store, an item is acknowledged only once it is recorded, and neither a  *)
(* record nor an acknowledgement is ever taken back.                       *)
(***************************************************************************)
EXTENDS Naturals

CONSTANTS Items, Stores

VARIABLES tries,   \* submissions of each item
          copies,  \* records of each item in each store
          told     \* items whose sender has been told they are recorded

lvars == <<tries, copies, told>>

Init ==
  /\ tries = [i \in Items |-> 0]
  /\ copies = [s \in Stores |-> [i \in Items |-> 0]]
  /\ told = {}

Submit(i) ==
  /\ tries' = [tries EXCEPT ![i] = @ + 1]
  /\ UNCHANGED <<copies, told>>

\* The sender is told in the same step, later, or never.
Recorded(i, s) ==
  /\ copies[s][i] < tries[i]
  /\ copies' = [copies EXCEPT ![s][i] = @ + 1]
  /\ UNCHANGED tries
Record(i, s) == Recorded(i, s) /\ told' \in {told, told \cup {i}}
Acknowledge(i) ==
  /\ \E s \in Stores : copies[s][i] > 0
  /\ told' = told \cup {i}
  /\ UNCHANGED <<tries, copies>>

Next ==
  \E i \in Items : Submit(i) \/ Acknowledge(i) \/ \E s \in Stores : Record(i, s)

Spec == Init /\ [][Next]_lvars
==============================================================================
