----------------------------- MODULE EventStore -----------------------------
(***************************************************************************)
(* Ingest and reads over two stores: Postgres first, the SQLite file when  *)
(* Postgres cannot be reached or raises (pg.py get_pg, api_routes.py,      *)
(* incident_store.py, tenant_auth.py, the retrying client of               *)
(* clients/python).  Governance events and incidents are stored alike.     *)
(*                                                                         *)
(* Every worker opens a connection of its own for each database call, so   *)
(* Postgres may come and go between two calls of one request; an outage    *)
(* also breaks the connections that are open.  A commit may be applied     *)
(* although its acknowledgement never arrives.                             *)
(***************************************************************************)
EXTENDS Naturals

CONSTANTS Events,    \* events and incidents a client sends once each
          Workers, NoEvent,
          MaxTries,  \* retries + 1 of the client
          PgHost     \* PG_HOST is configured

ASSUME StoreAssumption ==
  /\ NoEvent \notin Events
  /\ MaxTries \in Nat \ {0} /\ PgHost \in BOOLEAN

VARIABLES up,      \* Postgres accepts connections
          flag,    \* _pg_available, per worker
          known,   \* the worker has cached _institute_tenant_id
          pg,      \* copies of each event in Postgres
          lite,    \* copies of each event in SQLite
          client,  \* what the client knows of each event
          req      \* what each worker is serving

vars == <<up, flag, known, pg, lite, client, req>>

\* Events sent with the key of an organisation; the others come keyless, for
\* the Institute.  Postgres refuses the rows of some (a VARCHAR too long).
\* Incidents have a table of their own, in which the reference is UNIQUE: the
\* one the client names, or a random one.  Those here are disclosed ones, the
\* public list shows no others.
Keyed == {e \in Events : client[e].keyed}
Refused == {e \in Events : client[e].refused}
Incidents == {e \in Events : client[e].kind # "event"}
Named == {e \in Events : client[e].kind = "named"}
Taken_Never(copies) == {}
Taken(copies) == {e \in Named : copies[e] > 0}
Call == [state : {"new", "waiting", "retry", "acked", "failed"}, tries : 0..MaxTries,
         keyed : BOOLEAN, refused : BOOLEAN, kind : {"event", "incident", "named"}]

\* Tenant ids: "inst" is the uuid Postgres drew for the Institute, "fixed" the
\* one hard-wired for it in SQLite, "org" the uuid of the organisation.
PgId(e) == IF e \in Keyed THEN "org" ELSE "inst"
LiteId(e) == IF e \in Keyed THEN "org" ELSE "fixed"
Scopes == {"inst", "fixed", "org", "all"}

Reads == {"scores", "feed", "own", "incidents"}
Stages == {"idle", "auth", "connect", "pg", "broken", "lite", "done"}
Request == [op : Reads \cup {"idle", "post"}, at : Stages, ev : Events \cup {NoEvent},
            heard : BOOLEAN, scope : Scopes, from : {"none", "pg", "lite"},
            result : SUBSET Events]
Idle == [op |-> "idle", at |-> "idle", ev |-> NoEvent, heard |-> FALSE,
         scope |-> "all", from |-> "none", result |-> {}]

Init ==
  /\ up \in BOOLEAN
  /\ flag \in [Workers -> BOOLEAN]
  /\ known = [w \in Workers |-> FALSE]
  /\ pg = [e \in Events |-> 0] /\ lite = [e \in Events |-> 0]
  /\ client \in [Events -> {c \in Call : c.state = "new" /\ c.tries = 0}]
  /\ req = [w \in Workers |-> Idle]

----------------------------------------------------------------------------
(* Postgres and the connections to it.                                     *)

PgGoesDown ==
  /\ up
  /\ up' = FALSE
  /\ req' = [w \in Workers |->
               IF req[w].at = "pg" THEN [req[w] EXCEPT !.at = "broken"] ELSE req[w]]
  /\ UNCHANGED <<flag, known, pg, lite, client>>
PgComesBack == ~up /\ up' = TRUE /\ UNCHANGED <<flag, known, pg, lite, client, req>>

\* get_pg: with PG_HOST set a connection is attempted whatever the flag says.
Connects_Flag(w) == flag[w] /\ up
Connects(w) == (flag[w] \/ PgHost) /\ up

Connect(w) ==
  /\ req[w].at = "connect"
  /\ IF Connects(w)
     THEN /\ req' = [req EXCEPT ![w].at = "pg"]
          /\ flag' = [flag EXCEPT ![w] = TRUE]
     ELSE req' = [req EXCEPT ![w].at = "lite"] /\ UNCHANGED flag
  /\ UNCHANGED <<up, known, pg, lite, client>>

----------------------------------------------------------------------------
(* The client: 5xx and refused connections are retried, other failures are *)
(* raised to its caller.                                                   *)

Told(e, s) == client' = [client EXCEPT ![e].state = s]
Told5xx_NoLimit(e) == Told(e, "retry")
Told5xx(e) == Told(e, IF client[e].tries < MaxTries THEN "retry" ELSE "failed")
Reply(r, s) == IF r.heard THEN Told(r.ev, s) ELSE UNCHANGED client
Reply5xx(r) == IF r.heard THEN Told5xx(r.ev) ELSE UNCHANGED client

Send(w, e) ==
  /\ req[w] = Idle
  /\ client[e].state \in {"new", "retry"}
  /\ client' = [client EXCEPT ![e].state = "waiting", ![e].tries = @ + 1]
  /\ req' = [req EXCEPT ![w] = [Idle EXCEPT !.op = "post", !.ev = e, !.heard = TRUE,
               !.at = IF e \in Keyed THEN "auth" ELSE "connect"]]
  /\ UNCHANGED <<up, flag, known, pg, lite>>
PostEvent(w, e) == e \notin Incidents /\ Send(w, e)
PostIncident(w, e) == e \in Incidents /\ Send(w, e)

\* A proxy in front answers 504, or the connection is reset, while the worker
\* goes on with the request.
AnswerLost(w) ==
  /\ req[w].heard
  /\ Told5xx(req[w].ev) \/ Told(req[w].ev, "failed")
  /\ req' = [req EXCEPT ![w].heard = FALSE]
  /\ UNCHANGED <<up, flag, known, pg, lite>>

----------------------------------------------------------------------------
(* The handlers.                                                           *)

\* resolve_tenant: without Postgres, or when it fails meanwhile, a request
\* with a key ends in a 503; one over the key's rate, or with a key that was
\* revoked, in a 4xx.
ResolveTenant(w) ==
  /\ req[w].at = "auth"
  /\ flag' = [flag EXCEPT ![w] = @ \/ Connects(w)]
  /\ \/ Connects(w) /\ req' = [req EXCEPT ![w].at = "connect"] /\ UNCHANGED client
     \/ req' = [req EXCEPT ![w] = Idle] /\ Reply5xx(req[w])
     \/ Connects(w) /\ req' = [req EXCEPT ![w] = Idle] /\ Reply(req[w], "failed")
  /\ UNCHANGED <<up, known, pg, lite>>

\* _store_event and store_incident on Postgres: committed and answered, or an exception with the
\* row committed (acknowledgement lost) or not, and then on to SQLite.
StorePg_NoCommit(w) ==
  LET e == req[w].ev IN
  /\ req[w].op = "post" /\ req[w].at = "pg" /\ e \notin Refused \cup Taken(pg)
  /\ req' = [req EXCEPT ![w] = Idle] /\ Reply(req[w], "acked")
  /\ UNCHANGED <<up, flag, known, pg, lite>>
StorePg(w) ==
  LET e == req[w].ev IN
  /\ req[w].op = "post" /\ req[w].at = "pg" /\ e \notin Refused \cup Taken(pg)
  /\ pg' = [pg EXCEPT ![e] = @ + 1]
  /\ \/ req' = [req EXCEPT ![w] = Idle] /\ Reply(req[w], "acked")
     \/ req' = [req EXCEPT ![w].at = "broken"] /\ UNCHANGED client
  /\ UNCHANGED <<up, flag, known, lite>>
PgRaises(w) ==
  /\ req[w].at = "broken" \/ (req[w].at = "pg" /\ req[w].ev \in Refused \cup Taken(pg))
  /\ req' = [req EXCEPT ![w].at = "lite"]
  /\ UNCHANGED <<up, flag, known, pg, lite, client>>

\* ... on SQLite; an error there (a locked file, a reference that exists) is
\* a plain 500.
StoreLite(w) ==
  LET e == req[w].ev IN
  /\ req[w].op = "post" /\ req[w].at = "lite"
  /\ \/ e \notin Taken(lite) /\ lite' = [lite EXCEPT ![e] = @ + 1] /\ Reply(req[w], "acked")
     \/ UNCHANGED lite /\ Reply5xx(req[w])
  /\ req' = [req EXCEPT ![w] = Idle]
  /\ UNCHANGED <<up, flag, known, pg>>

\* get_institute_tenant_id, and what each handler does when it returns None.
Fallback_Unscoped(op) == "all"
Fallback(op) == IF op = "feed" THEN "fixed" ELSE "all"
ReadInstitute(w, op) ==
  /\ req[w] = Idle
  /\ known' = [known EXCEPT ![w] = @ \/ Connects(w)]
  /\ flag' = [flag EXCEPT ![w] = @ \/ (~known[w] /\ Connects(w))]
  /\ req' = [req EXCEPT ![w] = [Idle EXCEPT !.op = op, !.at = "connect",
               !.scope = IF known'[w] THEN "inst" ELSE Fallback(op)]]
  /\ UNCHANGED <<up, pg, lite, client>>
\* The query of get_institute_tenant_id raises: a 500, the connection was made.
ReadInstituteRaises(w) ==
  /\ req[w] = Idle /\ ~known[w] /\ Connects(w)
  /\ flag' = [flag EXCEPT ![w] = TRUE]
  /\ UNCHANGED <<up, known, pg, lite, client, req>>
GetScores(w) == ReadInstitute(w, "scores")
GetEvents(w) == ReadInstitute(w, "feed")

\* GET /events with the organisation's key.
GetOwnEvents(w) ==
  /\ req[w] = Idle
  /\ req' = [req EXCEPT ![w] = [Idle EXCEPT !.op = "own", !.at = "auth", !.scope = "org"]]
  /\ UNCHANGED <<up, flag, known, pg, lite, client>>

\* list_incidents: the public list is that of every organisation.
ListIncidents(w) ==
  /\ req[w] = Idle
  /\ req' = [req EXCEPT ![w] = [Idle EXCEPT !.op = "incidents", !.at = "connect"]]
  /\ UNCHANGED <<up, flag, known, pg, lite, client>>

TableOf(op) == IF op = "incidents" THEN Incidents ELSE Events \ Incidents
InScope(id, scope) == scope = "all" \/ id = scope
FetchPg(w) ==
  /\ req[w].op \in Reads /\ req[w].at = "pg"
  /\ req' = [req EXCEPT ![w].at = "done", ![w].from = "pg",
       ![w].result = {e \in TableOf(req[w].op) : pg[e] > 0 /\ InScope(PgId(e), req[w].scope)}]
  /\ UNCHANGED <<up, flag, known, pg, lite, client>>
FetchLite(w) ==
  /\ req[w].op \in Reads /\ req[w].at = "lite"
  /\ req' = [req EXCEPT ![w].at = "done", ![w].from = "lite",
       ![w].result = {e \in TableOf(req[w].op) : lite[e] > 0 /\ InScope(LiteId(e), req[w].scope)}]
  /\ UNCHANGED <<up, flag, known, pg, lite, client>>
Respond(w) ==
  /\ req[w].at = "done"
  /\ req' = [req EXCEPT ![w] = Idle]
  /\ UNCHANGED <<up, flag, known, pg, lite, client>>

\* gunicorn replaces a worker: a new process, its caches empty; the startup
\* init_pg sets the flag if Postgres answers.
Restart(w) ==
  /\ req' = [req EXCEPT ![w] = Idle]
  /\ known' = [known EXCEPT ![w] = FALSE]
  /\ flag' = [flag EXCEPT ![w] = up]
  /\ IF req[w].heard THEN Told5xx(req[w].ev) \/ Told(req[w].ev, "failed") ELSE UNCHANGED client
  /\ UNCHANGED <<up, pg, lite>>

Serve(w) ==
  \/ Connect(w) \/ ResolveTenant(w) \/ StorePg(w) \/ PgRaises(w) \/ StoreLite(w)
  \/ FetchPg(w) \/ FetchLite(w) \/ Respond(w)

Next ==
  \/ PgGoesDown \/ PgComesBack
  \/ \E w \in Workers :
       \/ Serve(w) \/ AnswerLost(w) \/ Restart(w)
       \/ GetScores(w) \/ GetEvents(w) \/ GetOwnEvents(w) \/ ListIncidents(w)
       \/ ReadInstituteRaises(w)
       \/ \E e \in Events : PostEvent(w, e) \/ PostIncident(w, e)

Spec == Init /\ [][Next]_vars

\* A worker finishes the request it serves; nothing obliges clients to send
\* one or Postgres to return.
FairSpec == Spec /\ \A w \in Workers : WF_vars(Serve(w))

----------------------------------------------------------------------------
TypeOK ==
  /\ up \in BOOLEAN
  /\ flag \in [Workers -> BOOLEAN] /\ known \in [Workers -> BOOLEAN]
  /\ pg \in [Events -> Nat] /\ lite \in [Events -> Nat]
  /\ client \in [Events -> Call]
  /\ req \in [Workers -> Request]

Answered(w, op) == req[w].op = op /\ req[w].at = "done"

\* Tenant isolation of GET /events, whatever Postgres does between the calls
\* of one request: a keyless read returns Institute events only, and a read
\* with a key only those of its organisation.
FeedIsolation ==
  \A w \in Workers :
    /\ Answered(w, "feed") => req[w].result \cap Keyed = {}
    /\ Answered(w, "own") => req[w].result \subseteq Keyed

\* No acknowledged event or incident is lost or taken back: the two stores, the
\* retries and every lost answer together implement Ledger, in which a 201
\* needs a committed copy and a try leaves at most one in each store.
Promise == INSTANCE Ledger WITH
  Items <- Events, Stores <- {"pg", "lite"},
  tries <- [e \in Events |-> client[e].tries],
  copies <- [pg |-> pg, lite |-> lite],
  told <- {e \in Events : client[e].state = "acked"}
ImplementsLedger == Promise!Spec

\* Retries and fallbacks duplicate an event boundedly: one nobody sent is in no
\* store, and an incident whose reference the client chose is at most once in
\* each, however its tries fail and overlap.
CopiesBounded ==
  \A e \in Events : \A copies \in {pg[e], lite[e]} :
    copies <= client[e].tries /\ (e \in Named => copies <= 1)

\* The fallback is left behind: once Postgres stays up, every worker, also one
\* that started without it, serves the Institute feed from Postgres under the
\* Institute's own id, and the public list of incidents from Postgres.
FeedRecovers ==
  <>[]up => <>[](\A w \in Workers :
     /\ Answered(w, "feed") => req[w].from = "pg" /\ req[w].scope = "inst"
     /\ Answered(w, "incidents") => req[w].from = "pg")

\* api_routes.py on GET /scores: "When PG is unavailable the institute id is
\* None -> unfiltered": scores read from Postgres are the Institute's alone.
PgScoresAreInstituteOnly ==
  \A w \in Workers : Answered(w, "scores") /\ req[w].from = "pg" => req[w].result \cap Keyed = {}
==============================================================================
