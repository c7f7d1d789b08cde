----------------------------- MODULE OrgAccess -----------------------------
(***************************************************************************)
(* What the multi-tenant core promises, without requests, transactions or  *)
(* e-mail: organisations apply, an administrator admits or refuses each    *)
(* applicant once, an admission issues exactly one key in the same step,   *)
(* and events are accepted from admitted organisations with a key issued   *)
(* to them, never from anyone else.                                        *)
(***************************************************************************)
CONSTANTS Orgs, Keys, Nobody

VARIABLES standing,  \* "none", "pending", "active" or "suspended"
          holder,    \* the organisation a key was issued to
          live,      \* keys not revoked
          accepted   \* accepted events, by organisation and key

avars == <<standing, holder, live, accepted>>

Init ==
  /\ standing = [o \in Orgs |-> "none"]
  /\ holder = [k \in Keys |-> Nobody]
  /\ live = {} /\ accepted = {}

Issued(o, k) ==
  /\ holder[k] = Nobody
  /\ holder' = [holder EXCEPT ![k] = o]
  /\ live' = live \cup {k}

Register(o) ==
  /\ standing[o] = "none"
  /\ \E s \in {"pending", "active", "suspended"} : standing' = [standing EXCEPT ![o] = s]
  /\ UNCHANGED <<holder, live, accepted>>

Admit(o, k) ==
  /\ standing[o] = "pending"
  /\ standing' = [standing EXCEPT ![o] = "active"]
  /\ Issued(o, k)
  /\ UNCHANGED accepted

Refuse(o) ==
  /\ standing[o] = "pending"
  /\ standing' = [standing EXCEPT ![o] = "suspended"]
  /\ UNCHANGED <<holder, live, accepted>>

IssueKey(o, k) ==
  /\ standing[o] # "none"
  /\ Issued(o, k)
  /\ UNCHANGED <<standing, accepted>>

RevokeKey(k) ==
  /\ live' = live \ {k}
  /\ UNCHANGED <<standing, holder, accepted>>

\* The key may have been revoked since the request was authenticated.
Accept(o, k) ==
  /\ standing[o] = "active" /\ holder[k] = o
  /\ accepted' = accepted \cup {[org |-> o, key |-> k]}
  /\ UNCHANGED <<standing, holder, live>>

Next ==
  \/ \E o \in Orgs : Register(o) \/ Refuse(o)
  \/ \E o \in Orgs, k \in Keys : Admit(o, k) \/ IssueKey(o, k) \/ Accept(o, k)
  \/ \E k \in Keys : RevokeKey(k)

Spec == Init /\ [][Next]_avars
============================================================================
