------------------------------ MODULE Tenants ------------------------------
(***************************************************************************)
(* The multi-tenant core: the Postgres tables `tenants` and `api_keys`,    *)
(* the onboarding queue, key management, the organisation portal and keyed *)
(* event ingest (routes/onboarding_routes.py, routes/orgs_routes.py,       *)
(* routes/tenant_portal_routes.py, tenant_auth.py, routes/api_routes.py).  *)
(*                                                                         *)
(* Each request is served by a worker in two steps: the statements of its  *)
(* transaction, which lock the tenants row they write and read committed   *)
(* data, and the COMMIT that publishes the writes.  Between the two any    *)
(* other worker runs, the transaction may roll back (an exception, a       *)
(* killed worker), and the answer to a commit may be lost.  A request that *)
(* matches no row, or is refused before its first write, changes nothing.  *)
(***************************************************************************)

CONSTANTS Orgs,      \* slugs an application or an administrator may register
          Keys,      \* creed_sk_ keys secrets.token_urlsafe may draw
          Tokens,    \* e-mail verification tokens it may draw
          Workers,   \* gunicorn workers
          Browsers,  \* portal cookies
          NoOrg, NoKey, NoToken, NoWorker, NoBrowser

ASSUME NoneAssumption ==
  /\ NoOrg \notin Orgs /\ NoKey \notin Keys /\ NoToken \notin Tokens
  /\ NoWorker \notin Workers /\ NoBrowser \notin Browsers

VARIABLES org,      \* tenants: the committed row of each slug
          key,      \* api_keys: the committed row of each key
          lock,     \* the worker whose open transaction wrote a tenants row
          req,      \* what each worker is serving
          session,  \* the organisation each portal cookie is logged in to
          shown,    \* keys whose plaintext reached somebody
          links,    \* tokens whose verification link reached somebody
          events    \* stored keyed events, by the tenant and key they carry

vars == <<org, key, lock, req, session, shown, links, events>>

Decisions == {"active", "suspended"}
Row == [status : {"none", "pending"} \cup Decisions,
        verified : BOOLEAN, token : Tokens \cup {NoToken}]
NoRow == [status |-> "none", verified |-> FALSE, token |-> NoToken]

\* `origin` is not a column: it records which handler inserted the key.
Cell == [owner : Orgs \cup {NoOrg}, active : BOOLEAN,
         origin : {"none", "approve", "mint", "tp_mint"}]
NoCell == [owner |-> NoOrg, active |-> FALSE, origin |-> "none"]

RowOps == {"apply", "create", "verify", "regen", "approve", "reject"}
MintOps == {"approve", "mint", "tp_mint"}
Ops == RowOps \cup MintOps \cup {"login", "revoke", "ingest"}
Request == [op : Ops \cup {"idle"}, org : Orgs \cup {NoOrg}, row : Row,
            key : Keys \cup {NoKey}, by : Browsers \cup {NoBrowser}]
Idle == [op |-> "idle", org |-> NoOrg, row |-> NoRow, key |-> NoKey, by |-> NoBrowser]

Init ==
  /\ org = [o \in Orgs |-> NoRow]
  /\ key = [k \in Keys |-> NoCell]
  /\ lock = [o \in Orgs |-> NoWorker]
  /\ req = [w \in Workers |-> Idle]
  /\ session = [b \in Browsers |-> NoOrg]
  /\ shown = {} /\ links = {} /\ events = {}

----------------------------------------------------------------------------
(* Statements: the part of a handler before its COMMIT.                    *)

\* secrets.token_urlsafe never repeats a value that left a trace.
FreshKey(k) ==
  /\ key[k].owner = NoOrg /\ k \notin shown
  /\ \A w \in Workers : req[w].key # k
FreshToken(t) ==
  /\ t \notin links
  /\ \A o \in Orgs : org[o].token # t
  /\ \A w \in Workers : req[w].row.token # t

\* An INSERT or UPDATE of tenants row o, with key k inserted in the same
\* transaction.  It waits while another open transaction holds the row.
WriteRow(w, op, o, row, k) ==
  /\ req[w] = Idle
  /\ lock[o] = NoWorker
  /\ lock' = [lock EXCEPT ![o] = w]
  /\ req' = [req EXCEPT ![w] =
               [op |-> op, org |-> o, row |-> row, key |-> k, by |-> NoBrowser]]
  /\ UNCHANGED <<org, key, session, shown, links, events>>

\* Statements on api_keys only, for organisation o, sent by browser b.
WriteKey(w, op, o, k, b) ==
  /\ req[w] = Idle
  /\ req' = [req EXCEPT ![w] =
               [op |-> op, org |-> o, row |-> NoRow, key |-> k, by |-> b]]
  /\ UNCHANGED <<org, key, lock, session, shown, links, events>>

\* ON CONFLICT (slug) DO NOTHING
Unregistered(o) == org[o].status = "none"
Apply(w, o) ==
  /\ Unregistered(o)
  /\ \E t \in Tokens :
       /\ FreshToken(t)
       /\ WriteRow(w, "apply", o,
                   [status |-> "pending", verified |-> FALSE, token |-> t], NoKey)

CreateOrg(w, o) ==
  /\ Unregistered(o)
  /\ \E s \in {"pending"} \cup Decisions :
       WriteRow(w, "create", o, [NoRow EXCEPT !.status = s], NoKey)

\* The WHERE clauses of the four UPDATEs.
VerifyWhere_AnyStatus(o) == org[o].token \in links
VerifyWhere(o) == org[o].token \in links /\ org[o].status = "pending"
VerifyEmail(w, o) ==
  /\ VerifyWhere(o)
  /\ WriteRow(w, "verify", o, [org[o] EXCEPT !.verified = TRUE, !.token = NoToken], NoKey)

RegenWhere_Verified(o) == org[o].status = "pending"
RegenWhere(o) == org[o].status = "pending" /\ ~org[o].verified
RegenVerifyLink(w, o) ==
  /\ RegenWhere(o)
  /\ \E t \in Tokens :
       /\ FreshToken(t)
       /\ WriteRow(w, "regen", o, [org[o] EXCEPT !.token = t], NoKey)

ApproveWhere_AnyStatus(o) == org[o].status # "none"
ApproveWhere(o) == org[o].status = "pending"
ApproveOrg_WrongStatus(w, o) ==
  /\ ApproveWhere(o)
  /\ \E k \in Keys :
       /\ FreshKey(k)
       /\ WriteRow(w, "approve", o, [org[o] EXCEPT !.status = "approved"], k)
ApproveOrg(w, o) ==
  /\ ApproveWhere(o)
  /\ \E k \in Keys :
       /\ FreshKey(k)
       /\ WriteRow(w, "approve", o, [org[o] EXCEPT !.status = "active"], k)

RejectWhere_AnyStatus(o) == org[o].status # "none"
RejectWhere(o) == org[o].status = "pending"
RejectOrg(w, o) ==
  /\ RejectWhere(o)
  /\ WriteRow(w, "reject", o, [org[o] EXCEPT !.status = "suspended"], NoKey)

\* mint_org_key looks at no status.
MintOrgKey(w, o) ==
  /\ ~Unregistered(o)
  /\ \E k \in Keys : FreshKey(k) /\ WriteKey(w, "mint", o, k, NoBrowser)

\* Somebody who was shown key k presents it: the JOIN of resolve_tenant and
\* tp_login, and the status test after it.
Authenticates_NoStatus(k) == k \in shown /\ key[k].active
Authenticates_Revoked(k) ==
  k \in shown /\ key[k].owner # NoOrg /\ org[key[k].owner].status = "active"
Authenticates(k) ==
  /\ k \in shown /\ key[k].active
  /\ key[k].owner # NoOrg /\ org[key[k].owner].status = "active"

ResolveTenant(w, k) ==
  /\ Authenticates(k)
  /\ WriteKey(w, "ingest", key[k].owner, k, NoBrowser)

TpLogin(w, b, k) ==
  /\ Authenticates(k)
  /\ WriteKey(w, "login", key[k].owner, k, b)

\* The cookie alone authorises the two portal handlers below.
TpMintKey(w, b) ==
  /\ session[b] # NoOrg
  /\ \E k \in Keys : FreshKey(k) /\ WriteKey(w, "tp_mint", session[b], k, b)

RevokeWhere(b, k) == key[k].owner = session[b]
TpRevokeKey(w, b, k) ==
  /\ session[b] # NoOrg
  /\ RevokeWhere(b, k)
  /\ WriteKey(w, "revoke", session[b], k, b)

----------------------------------------------------------------------------
(* COMMIT, ROLLBACK, and the steps outside a transaction.                  *)

Unlock(w) == [o \in Orgs |-> IF lock[o] = w THEN NoWorker ELSE lock[o]]

\* What the answer to a committed request hands to the caller.
Answer(r) ==
  /\ shown' = IF r.op \in MintOps THEN shown \cup {r.key} ELSE shown
  /\ links' = IF r.op \in {"apply", "regen"} THEN links \cup {r.row.token} ELSE links
  /\ session' = IF r.op = "login" THEN [session EXCEPT ![r.by] = r.org] ELSE session
Lost == UNCHANGED <<shown, links, session>>

Commit(w) ==
  LET r == req[w] IN
  /\ r.op \in RowOps \cup MintOps \cup {"login", "revoke"}
  /\ org' = IF r.op \in RowOps THEN [org EXCEPT ![r.org] = r.row] ELSE org
  /\ key' = IF r.op \in MintOps
            THEN [key EXCEPT ![r.key] = [owner |-> r.org, active |-> TRUE, origin |-> r.op]]
            ELSE IF r.op = "revoke" THEN [key EXCEPT ![r.key].active = FALSE] ELSE key
  /\ lock' = Unlock(w)
  /\ req' = [req EXCEPT ![w] = Idle]
  /\ Answer(r) \/ Lost
  /\ UNCHANGED events

\* An exception, a failed commit or a killed worker: the connection closes
\* and the transaction is gone; ingest_guard refusing an event ends here too.
Rollback(w) ==
  /\ req[w] # Idle
  /\ lock' = Unlock(w)
  /\ req' = [req EXCEPT ![w] = Idle]
  /\ UNCHANGED <<org, key, session, shown, links, events>>

\* post_event after resolve_tenant: _store_event with the tenant id it read.
StoreEvent(w) ==
  /\ req[w].op = "ingest"
  /\ events' = events \cup {[org |-> req[w].org, key |-> req[w].key]}
  /\ req' = [req EXCEPT ![w] = Idle]
  /\ UNCHANGED <<org, key, lock, session, shown, links>>

TpLogout(b) ==
  /\ session[b] # NoOrg
  /\ session' = [session EXCEPT ![b] = NoOrg]
  /\ UNCHANGED <<org, key, lock, req, shown, links, events>>

Finish(w) == Commit(w) \/ Rollback(w) \/ StoreEvent(w)

Next ==
  \/ \E w \in Workers, o \in Orgs :
       \/ Apply(w, o) \/ CreateOrg(w, o) \/ VerifyEmail(w, o) \/ RegenVerifyLink(w, o)
       \/ ApproveOrg(w, o) \/ RejectOrg(w, o) \/ MintOrgKey(w, o)
  \/ \E w \in Workers, k \in Keys :
       \/ ResolveTenant(w, k)
       \/ \E b \in Browsers : TpLogin(w, b, k) \/ TpRevokeKey(w, b, k)
  \/ \E w \in Workers, b \in Browsers : TpMintKey(w, b)
  \/ \E w \in Workers : Finish(w)
  \/ \E b \in Browsers : TpLogout(b)

Spec == Init /\ [][Next]_vars

----------------------------------------------------------------------------
TypeOK ==
  /\ org \in [Orgs -> Row]
  /\ key \in [Keys -> Cell]
  /\ lock \in [Orgs -> Workers \cup {NoWorker}]
  /\ req \in [Workers -> Request]
  /\ session \in [Browsers -> Orgs \cup {NoOrg}]
  /\ shown \subseteq Keys /\ links \subseteq Tokens
  /\ events \subseteq [org : Orgs, key : Keys]

Approved(k) == key[k].origin = "approve"

\* However approvals and rejections race and crash, an organisation has at
\* most one onboarding key, and has one only if it is active: approve_org's
\* UPDATE and INSERT take effect together or not at all, and once.
OneOnboardingKey ==
  \A k \in Keys : Approved(k) =>
    /\ key[k].owner \in Orgs /\ org[key[k].owner].status = "active"
    /\ \A j \in Keys : Approved(j) /\ key[j].owner = key[k].owner => j = k

\* Every stored keyed event belongs to the owner of the key it came with,
\* and that organisation is an approved one, although post_event stores
\* the event after the transaction that looked the key up has ended.
EventsOnlyFromActiveOrgs ==
  \A e \in events : key[e.key].owner = e.org /\ org[e.org].status = "active"

\* A key handed to anybody is a row of api_keys: the handlers answer after
\* the commit, so a rolled-back mint never shows a key that does not work.
ShownKeysAreStored == \A k \in shown : key[k].owner # NoOrg

\* A verified organisation has no verification link that could still work
\* (verify_email clears the token, regen_verify_link skips verified rows),
\* and one link never works for two organisations.
LinksAreSpent ==
  \A o \in Orgs :
    /\ org[o].verified => org[o].token = NoToken
    /\ \A p \in Orgs : org[o].token = org[p].token /\ org[o].token # NoToken => o = p

\* Chain of custody: an organisation mints its own keys in the portal only
\* after an administrator issued it one, and only once it is active.
PortalKeysNeedAnIssuedKey ==
  \A k \in Keys : key[k].origin = "tp_mint" =>
    /\ org[key[k].owner].status = "active"
    /\ \E j \in Keys : key[j].owner = key[k].owner /\ key[j].origin \in {"approve", "mint"}

\* Approval and rejection are final: no handler touches the status, the
\* verification flag or the token of an organisation once it is decided.
DecisionIsFinal ==
  [][\A o \in Orgs : org[o].status \in Decisions => org'[o] = org[o]]_vars

\* Revocation takes: a revoked key stays revoked, and no request or login
\* that had not passed the key check before the revocation passes it after.
RevocationTakes ==
  [][\A k \in Keys : key[k].owner # NoOrg /\ ~key[k].active =>
       /\ ~key'[k].active
       /\ \A w \in Workers : req'[w].op \in {"ingest", "login"} /\ req'[w].key = k
                               => req'[w] = req[w]]_vars

\* Tenant isolation of the portal: only a request sent with a cookie of the
\* owning organisation deactivates a key.
OnlyTheOwnerRevokes ==
  [][\A k \in Keys : key[k].active /\ ~key'[k].active =>
       \E w \in Workers : req[w].op = "revoke" /\ req[w].org = key[k].owner]_vars

\* The handlers implement OrgAccess: seen through the committed tables, each
\* request is one step of the access rules or none, whatever its worker, its
\* transaction and its answer went through.
Access == INSTANCE OrgAccess WITH
  Nobody <- NoOrg,
  standing <- [o \in Orgs |-> org[o].status],
  holder <- [k \in Keys |-> key[k].owner],
  live <- {k \in Keys : key[k].active},
  accepted <- events
ImplementsOrgAccess == Access!Spec

\* The inductive invariant behind the properties above.
\* An open transaction that wrote a row holds its lock, and what it will
\* publish is still the change its handler may make to the committed row.
Registers(r) == r.op \in {"apply", "create"}
Decides(r) == r.op \in {"approve", "reject"}
Fits(r) ==
  /\ org[r.org].status = IF Registers(r) THEN "none" ELSE "pending"
  /\ r.row.status # "none"
  /\ r.op \in {"apply", "regen"} => r.row.status = "pending" /\ ~r.row.verified
  /\ r.op \in {"create", "verify"} => r.row.token = NoToken
  /\ r.op = "verify" => r.row.status = "pending"
  /\ Decides(r) => /\ r.row.token = org[r.org].token
                   /\ r.row.verified = org[r.org].verified
                   /\ r.row.status = IF r.op = "approve" THEN "active" ELSE "suspended"
RowInv ==
  \A w \in Workers : req[w].op \in RowOps =>
    req[w].org \in Orgs /\ lock[req[w].org] = w /\ Fits(req[w])
\* A key about to be inserted is nobody else's, and its organisation exists.
MintInv ==
  \A w \in Workers : req[w].op \in MintOps =>
    /\ req[w].key \in Keys /\ key[req[w].key].owner = NoOrg
    /\ req[w].org \in Orgs /\ org[req[w].org].status # "none"
    /\ \A v \in Workers : req[v].key = req[w].key => v = w
KeyInv ==
  \A k \in Keys : IF key[k].owner = NoOrg THEN key[k] = NoCell
                  ELSE key[k].origin # "none" /\ org[key[k].owner].status # "none"
\* The portal and the ingest path serve members: active organisations that
\* hold a key an administrator issued.
Member(o) ==
  /\ o \in Orgs /\ org[o].status = "active"
  /\ \E j \in Keys : key[j].owner = o /\ key[j].origin \in {"approve", "mint"}
MemberInv ==
  /\ \A b \in Browsers : session[b] # NoOrg => Member(session[b])
  /\ \A k \in Keys : key[k].origin = "tp_mint" => Member(key[k].owner)
  /\ \A w \in Workers :
       /\ req[w].op \in {"ingest", "login", "tp_mint", "revoke"} => Member(req[w].org)
       /\ req[w].op \in {"ingest", "login", "revoke"} =>
            req[w].key \in Keys /\ key[req[w].key].owner = req[w].org
       /\ req[w].op \in {"login", "revoke", "tp_mint"} => req[w].by \in Browsers
\* A token about to be stored is no organisation's yet.
TokenInv ==
  \A w \in Workers : req[w].op \in {"apply", "regen"} =>
    /\ req[w].row.token \in Tokens
    /\ \A o \in Orgs : org[o].token # req[w].row.token
    /\ \A v \in Workers : req[v].row.token = req[w].row.token => v = w
IInv ==
  /\ TypeOK /\ RowInv /\ MintInv /\ KeyInv /\ MemberInv /\ TokenInv
  /\ OneOnboardingKey /\ EventsOnlyFromActiveOrgs /\ ShownKeysAreStored /\ LinksAreSpent
============================================================================
