-------------------------- MODULE EventStoreProofs --------------------------
(***************************************************************************)
(* Machine-checked proofs about EventStore, for any events, workers and    *)
(* number of tries: tenant isolation of the feeds, the bound on            *)
(* duplicates, and that the two stores with the client's retries           *)
(* implement Ledger.                                                       *)
(***************************************************************************)
EXTENDS EventStore, FiniteSetTheorems, TLAPS

\* The requests that may still write event e to a store.
About(e) == {w \in Workers : req[w].op = "post" /\ req[w].ev = e}
PgDue(e) == {w \in About(e) : req[w].at \in {"auth", "connect", "pg"}}

\* A request a client still listens to is the one it waits for; a read keeps
\* the scope its handler gave it, and its answer is within it.
ReqInv(w) ==
  LET r == req[w] IN
  /\ r.op = "post" => r.ev \in Events /\ r.at \in {"auth", "connect", "pg", "broken", "lite"}
  /\ r.heard => r.op = "post" /\ client[r.ev].state = "waiting"
  /\ r.op = "feed" => r.scope \in {"inst", "fixed"} /\ (r.at = "done" => r.result \cap Keyed = {})
  /\ r.op = "own" => r.scope = "org" /\ (r.at = "done" => r.result \subseteq Keyed)

HeardOnce ==
  \A v, w \in Workers : req[v].heard /\ req[w].heard /\ req[v].ev = req[w].ev => v = w

TriesInv(e) ==
  /\ client[e].state = "new" => client[e].tries = 0
  /\ client[e].state = "retry" => client[e].tries < MaxTries

\* Every try is a copy, a request that may yet make one, or neither.
CopyInv(e) ==
  /\ IsFiniteSet(About(e))
  /\ pg[e] + Cardinality(PgDue(e)) <= client[e].tries
  /\ lite[e] + Cardinality(About(e)) <= client[e].tries
  /\ e \in Named => pg[e] <= 1 /\ lite[e] <= 1

IInv ==
  /\ TypeOK /\ HeardOnce
  /\ \A w \in Workers : ReqInv(w)
  /\ \A e \in Events : TriesInv(e) /\ CopyInv(e)

----------------------------------------------------------------------------
(* Sets and records.                                                       *)

LEMMA Fewer ==
  ASSUME NEW S, IsFiniteSet(S), NEW T \in SUBSET S
  PROVE  /\ IsFiniteSet(T) /\ Cardinality(T) \in Nat /\ Cardinality(S) \in Nat
         /\ Cardinality(T) <= Cardinality(S)
         /\ \A x \in S \ T : Cardinality(T) + 1 <= Cardinality(S)
  <1>1. /\ IsFiniteSet(T) /\ Cardinality(T) \in Nat /\ Cardinality(S) \in Nat
        /\ Cardinality(T) <= Cardinality(S)
    BY FS_Subset, FS_CardinalityType
  <1>2. ASSUME NEW x \in S \ T PROVE Cardinality(T) + 1 <= Cardinality(S)
    <2>1. IsFiniteSet(S \ {x}) /\ Cardinality(S \ {x}) = Cardinality(S) - 1
      BY FS_RemoveElement
    <2>2. T \subseteq S \ {x}
      OBVIOUS
    <2>3. Cardinality(T) <= Cardinality(S \ {x})
      BY <2>1, <2>2, FS_Subset
    <2> QED BY <2>1, <2>3, <1>1
  <1> QED BY <1>1, <1>2

LEMMA IdleOK == /\ Idle \in Request /\ ~Idle.heard /\ Idle.op = "idle" /\ Idle.at = "idle"
                /\ Idle.result = {} /\ Idle.scope = "all" /\ Idle.ev = NoEvent
  BY DEF Idle, Request, Reads, Stages, Scopes

\* What the client may learn from a step of the worker it waits for.
ClientLearns(w) ==
  \/ client' = client
  \/ \E s \in {"acked", "failed", "retry"} :
       /\ req[w].heard /\ (s = "retry" => client[req[w].ev].tries < MaxTries)
       /\ client' = [client EXCEPT ![req[w].ev].state = s]

LEMMA ClientOK ==
  ASSUME IInv, NEW w \in Workers, ClientLearns(w)
  PROVE  /\ client' \in [Events -> Call]
         /\ \A e \in Events : /\ client'[e].tries = client[e].tries
                              /\ client'[e].keyed = client[e].keyed
                              /\ client'[e].refused = client[e].refused
                              /\ client'[e].kind = client[e].kind
                              /\ TriesInv(e)'
         /\ \A v \in Workers \ {w} : req[v].heard => client'[req[v].ev] = client[req[v].ev]
         /\ Keyed' = Keyed /\ Named' = Named /\ Refused' = Refused /\ Incidents' = Incidents
  <1>1. CASE client' = client
    BY <1>1 DEF IInv, TypeOK, TriesInv, Keyed, Named, Refused, Incidents
  <1>2. ASSUME NEW s \in {"acked", "failed", "retry"}, req[w].heard,
               s = "retry" => client[req[w].ev].tries < MaxTries,
               client' = [client EXCEPT ![req[w].ev].state = s]
        PROVE  /\ client' \in [Events -> Call]
               /\ \A e \in Events : /\ client'[e].tries = client[e].tries
                                    /\ client'[e].keyed = client[e].keyed
                                    /\ client'[e].refused = client[e].refused
                                    /\ client'[e].kind = client[e].kind
                                    /\ TriesInv(e)'
               /\ \A v \in Workers \ {w} : req[v].heard => client'[req[v].ev] = client[req[v].ev]
               /\ Keyed' = Keyed /\ Named' = Named /\ Refused' = Refused /\ Incidents' = Incidents
    <2> DEFINE x == req[w].ev
    <2>1. x \in Events
      BY <1>2 DEF IInv, ReqInv
    <2>2. client \in [Events -> Call]
      BY DEF IInv, TypeOK
    <2>3. [client[x] EXCEPT !.state = s] \in Call
      BY <2>1, <2>2 DEF Call
    <2>4. /\ client' \in [Events -> Call]
          /\ client'[x].state = s /\ client'[x].tries = client[x].tries
          /\ client'[x].keyed = client[x].keyed /\ client'[x].refused = client[x].refused
          /\ client'[x].kind = client[x].kind
          /\ \A e \in Events \ {x} : client'[e] = client[e]
      BY <1>2, <2>1, <2>2, <2>3 DEF Call
    <2> HIDE DEF x
    <2>5. \A e \in Events : /\ client'[e].tries = client[e].tries
                            /\ client'[e].keyed = client[e].keyed
                            /\ client'[e].refused = client[e].refused
                            /\ client'[e].kind = client[e].kind
      BY <2>4
    <2>6. \A e \in Events : TriesInv(e)'
      BY <1>2, <2>4 DEF IInv, TriesInv, x
    <2>7. ASSUME NEW v \in Workers \ {w}, req[v].heard
          PROVE  client'[req[v].ev] = client[req[v].ev]
      <3>1. req[v].ev # x /\ req[v].ev \in Events
        BY <2>7, <1>2 DEF x, IInv, HeardOnce, ReqInv
      <3> QED BY <3>1, <2>4
    <2>8. Keyed' = Keyed /\ Named' = Named /\ Refused' = Refused /\ Incidents' = Incidents
      BY <2>5 DEF Keyed, Named, Refused, Incidents
    <2> QED BY <2>4, <2>5, <2>6, <2>7, <2>8
  <1> QED BY <1>1, <1>2 DEF ClientLearns

\* The copies a step of worker w makes, when its request becomes r.
Copies(w, r) ==
  LET e == req[w].ev IN
  \/ pg' = pg /\ lite' = lite
  \/ /\ req[w].op = "post" /\ req[w].at = "pg" /\ r.at \notin {"auth", "connect", "pg"}
     /\ e \notin Taken(pg) /\ pg' = [pg EXCEPT ![e] = @ + 1] /\ lite' = lite
  \/ /\ req[w].op = "post" /\ r.op # "post"
     /\ e \notin Taken(lite) /\ lite' = [lite EXCEPT ![e] = @ + 1] /\ pg' = pg

\* Request r goes on with what worker w was doing, or does something else.
Continues(w, r) ==
  /\ req' = [req EXCEPT ![w] = r]
  /\ r.op = "post" => /\ req[w].op = "post" /\ r.ev = req[w].ev
                      /\ r.at \in {"auth", "connect", "pg", "broken", "lite"}
                      /\ r.at \in {"auth", "connect", "pg"} => req[w].at \in {"auth", "connect", "pg"}
  /\ r.heard => r.op = "post" /\ req[w].heard /\ client' = client
  /\ r.op = "feed" => r.scope \in {"inst", "fixed"} /\ (r.at = "done" => r.result \cap Keyed = {})
  /\ r.op = "own" => r.scope = "org" /\ (r.at = "done" => r.result \subseteq Keyed)

LEMMA CopiesOK ==
  ASSUME IInv, NEW w \in Workers, NEW r \in Request, Continues(w, r), Copies(w, r), ClientLearns(w)
  PROVE  pg' \in [Events -> Nat] /\ lite' \in [Events -> Nat] /\ \A e \in Events : CopyInv(e)'
  <1>1. req'[w] = r /\ \A v \in Workers \ {w} : req'[v] = req[v]
    BY DEF Continues, IInv, TypeOK
  <1>2. /\ pg \in [Events -> Nat] /\ lite \in [Events -> Nat] /\ client \in [Events -> Call]
        /\ \A e \in Events : client[e].tries \in Nat
    BY DEF IInv, TypeOK, Call
  <1>3. \A e \in Events : client'[e].tries = client[e].tries /\ Named' = Named
    BY ClientOK
  <1>4. req[w].op = "post" => req[w].ev \in Events
    BY DEF IInv, ReqInv
  <1>5. pg' \in [Events -> Nat] /\ lite' \in [Events -> Nat]
    BY <1>2, <1>4 DEF Copies
  <1>6. ASSUME NEW e \in Events PROVE CopyInv(e)'
    <2> DEFINE S == About(e)
               T == PgDue(e)
    <2>1. IsFiniteSet(S) /\ T \in SUBSET S
      BY DEF IInv, CopyInv, PgDue
    <2>2. About(e)' \in SUBSET S
      BY <1>1 DEF About, Continues
    <2>3. PgDue(e)' \in SUBSET T
      BY <1>1, <2>2 DEF PgDue, About, Continues
    <2>4. /\ IsFiniteSet(T) /\ Cardinality(T) \in Nat /\ Cardinality(S) \in Nat
          /\ IsFiniteSet(About(e)') /\ Cardinality(About(e)') \in Nat
          /\ Cardinality(PgDue(e)') \in Nat
          /\ Cardinality(About(e)') <= Cardinality(S) /\ Cardinality(PgDue(e)') <= Cardinality(T)
          /\ \A x \in S \ About(e)' : Cardinality(About(e)') + 1 <= Cardinality(S)
          /\ \A x \in T \ PgDue(e)' : Cardinality(PgDue(e)') + 1 <= Cardinality(T)
      <3>1. IsFiniteSet(T)
        BY <2>1, Fewer
      <3> HIDE DEF S, T
      <3> QED BY <3>1, <2>1, <2>2, <2>3, Fewer
    <2>5. /\ pg[e] \in Nat /\ lite[e] \in Nat /\ client[e].tries \in Nat
          /\ pg[e] + Cardinality(T) <= client[e].tries /\ lite[e] + Cardinality(S) <= client[e].tries
          /\ e \in Named => pg[e] <= 1 /\ lite[e] <= 1
      BY <1>2 DEF IInv, CopyInv
    <2>6. CASE pg' = pg /\ lite' = lite
      <3> HIDE DEF S, T
      <3> QED BY <2>4, <2>5, <2>6, <1>3 DEF CopyInv
    <2>7. CASE /\ req[w].op = "post" /\ req[w].at = "pg" /\ r.at \notin {"auth", "connect", "pg"}
               /\ req[w].ev \notin Taken(pg)
               /\ pg' = [pg EXCEPT ![req[w].ev] = @ + 1] /\ lite' = lite
      <3>1. CASE req[w].ev = e
        <4>1. w \in T /\ w \notin PgDue(e)'
          BY <2>7, <3>1, <1>1 DEF PgDue, About
        <4>2. pg'[e] = pg[e] + 1 /\ lite'[e] = lite[e]
          BY <2>7, <3>1, <1>2
        <4>3. e \in Named => pg[e] = 0
          BY <2>7, <3>1, <2>5 DEF Taken
        <4> HIDE DEF S, T
        <4> QED BY <4>1, <4>2, <4>3, <2>4, <2>5, <1>3 DEF CopyInv
      <3>2. CASE req[w].ev # e
        <4>1. pg'[e] = pg[e] /\ lite'[e] = lite[e]
          BY <2>7, <3>2, <1>2
        <4> HIDE DEF S, T
        <4> QED BY <4>1, <2>4, <2>5, <1>3 DEF CopyInv
      <3> QED BY <3>1, <3>2
    <2>8. CASE /\ req[w].op = "post" /\ r.op # "post" /\ req[w].ev \notin Taken(lite)
               /\ lite' = [lite EXCEPT ![req[w].ev] = @ + 1] /\ pg' = pg
      <3>1. CASE req[w].ev = e
        <4>1. w \in S /\ w \notin About(e)'
          BY <2>8, <3>1, <1>1 DEF About
        <4>2. lite'[e] = lite[e] + 1 /\ pg'[e] = pg[e]
          BY <2>8, <3>1, <1>2
        <4>3. e \in Named => lite[e] = 0
          BY <2>8, <3>1, <2>5 DEF Taken
        <4> HIDE DEF S, T
        <4> QED BY <4>1, <4>2, <4>3, <2>4, <2>5, <1>3 DEF CopyInv
      <3>2. CASE req[w].ev # e
        <4>1. pg'[e] = pg[e] /\ lite'[e] = lite[e]
          BY <2>8, <3>2, <1>2
        <4> HIDE DEF S, T
        <4> QED BY <4>1, <2>4, <2>5, <1>3 DEF CopyInv
      <3> QED BY <3>1, <3>2
    <2> QED BY <2>6, <2>7, <2>8 DEF Copies
  <1> QED BY <1>5, <1>6

\* What a worker's step must show to keep the invariant; the requests of the
\* other workers are untouched.
LEMMA Progress ==
  ASSUME IInv, NEW w \in Workers, NEW r \in Request, Continues(w, r), Copies(w, r), ClientLearns(w),
         up' \in BOOLEAN, flag' \in [Workers -> BOOLEAN], known' \in [Workers -> BOOLEAN]
  PROVE  IInv'
  <1>1. /\ req' \in [Workers -> Request] /\ req'[w] = r
        /\ \A v \in Workers \ {w} : req'[v] = req[v]
    BY DEF Continues, IInv, TypeOK
  <1>2. TypeOK'
    BY <1>1, ClientOK, CopiesOK DEF TypeOK
  <1>3. HeardOnce'
    <2>1. r.heard => req[w].heard /\ r.ev = req[w].ev
      BY DEF Continues
    <2> QED BY <1>1, <2>1 DEF HeardOnce, IInv
  <1>4. ASSUME NEW v \in Workers PROVE ReqInv(v)'
    <2>1. CASE v = w
      <3>1. r.heard => client'[r.ev].state = "waiting"
        BY DEF Continues, IInv, ReqInv
      <3>2. r.op = "post" => r.ev \in Events
        BY DEF Continues, IInv, ReqInv
      <3> QED BY <2>1, <3>1, <3>2, <1>1, ClientOK DEF Continues, ReqInv
    <2>2. CASE v # w
      BY <2>2, <1>1, ClientOK DEF ReqInv, IInv
    <2> QED BY <2>1, <2>2
  <1> QED BY <1>2, <1>3, <1>4, ClientOK, CopiesOK DEF IInv

\* A step of one worker, other than taking a try of the client.
StepOf(w) ==
  /\ \E r \in Request : Continues(w, r) /\ Copies(w, r) /\ ClientLearns(w)
  /\ up' \in BOOLEAN /\ flag' \in [Workers -> BOOLEAN] /\ known' \in [Workers -> BOOLEAN]

LEMMA RepliesOK ==
  ASSUME IInv, NEW w \in Workers
  PROVE  /\ Reply(req[w], "acked") => ClientLearns(w)
         /\ Reply(req[w], "failed") => ClientLearns(w)
         /\ Reply5xx(req[w]) => ClientLearns(w)
         /\ req[w].heard /\ Told5xx(req[w].ev) => ClientLearns(w)
         /\ req[w].heard /\ Told(req[w].ev, "failed") => ClientLearns(w)
  BY DEF Reply, Reply5xx, Told5xx, Told, ClientLearns

LEMMA WorkerTypes ==
  ASSUME IInv, NEW w \in Workers
  PROVE  /\ up \in BOOLEAN /\ flag \in [Workers -> BOOLEAN] /\ known \in [Workers -> BOOLEAN]
         /\ req \in [Workers -> Request] /\ req[w] \in Request
         /\ \A b \in BOOLEAN : /\ [flag EXCEPT ![w] = b] \in [Workers -> BOOLEAN]
                               /\ [known EXCEPT ![w] = b] \in [Workers -> BOOLEAN]
  BY DEF IInv, TypeOK

LEMMA BackToIdle ==
  ASSUME IInv, NEW w \in Workers, req' = [req EXCEPT ![w] = Idle]
  PROVE  Idle \in Request /\ Continues(w, Idle)
  BY IdleOK DEF Continues

\* A request that only moves on to another stage.
LEMMA MovesOn ==
  ASSUME IInv, NEW w \in Workers, NEW a \in Stages, a # "done", a # "idle",
         req' = [req EXCEPT ![w].at = a], client' = client,
         a \in {"auth", "connect", "pg"} => req[w].at \in {"auth", "connect", "pg"}
  PROVE  [req[w] EXCEPT !.at = a] \in Request /\ Continues(w, [req[w] EXCEPT !.at = a])
  <1> DEFINE q == req[w]
             r == [req[w] EXCEPT !.at = a]
  <1>1. q \in Request /\ req \in [Workers -> Request]
    BY WorkerTypes
  <1>2. /\ r \in Request /\ r.at = a /\ r.op = q.op /\ r.ev = q.ev /\ r.heard = q.heard
        /\ r.scope = q.scope /\ r.result = q.result
    BY <1>1 DEF Request
  <1>3. req' = [req EXCEPT ![w] = r]
    BY <1>1
  <1>4. ReqInv(w)
    BY DEF IInv
  <1> HIDE DEF r
  <1>5. a \in {"auth", "connect", "pg", "broken", "lite"}
    BY DEF Stages
  <1>6. Continues(w, r)
    BY <1>2, <1>3, <1>4, <1>5 DEF Continues, ReqInv
  <1> QED BY <1>2, <1>6 DEF r

LEMMA NoCopies ==
  ASSUME NEW w, NEW r, pg' = pg, lite' = lite
  PROVE  Copies(w, r)
  BY DEF Copies

LEMMA ConnectStep == ASSUME IInv, NEW w \in Workers, Connect(w) PROVE StepOf(w)
  <1>1. CASE req' = [req EXCEPT ![w].at = "pg"]
    BY <1>1, MovesOn, NoCopies, WorkerTypes DEF Connect, StepOf, ClientLearns, Stages
  <1>2. CASE req' = [req EXCEPT ![w].at = "lite"]
    BY <1>2, MovesOn, NoCopies, WorkerTypes DEF Connect, StepOf, ClientLearns, Stages
  <1> QED BY <1>1, <1>2 DEF Connect

LEMMA ResolveTenantStep == ASSUME IInv, NEW w \in Workers, ResolveTenant(w) PROVE StepOf(w)
  <1>0. up' \in BOOLEAN /\ flag' \in [Workers -> BOOLEAN] /\ known' \in [Workers -> BOOLEAN]
    BY WorkerTypes DEF ResolveTenant
  <1>1. CASE req' = [req EXCEPT ![w].at = "connect"] /\ client' = client
    <2>1. [req[w] EXCEPT !.at = "connect"] \in Request /\ Continues(w, [req[w] EXCEPT !.at = "connect"])
      BY <1>1, MovesOn DEF ResolveTenant, Stages
    <2> QED BY <1>0, <1>1, <2>1, NoCopies DEF ResolveTenant, StepOf, ClientLearns
  <1>2. CASE req' = [req EXCEPT ![w] = Idle] /\ (Reply5xx(req[w]) \/ Reply(req[w], "failed"))
    BY <1>0, <1>2, BackToIdle, RepliesOK, NoCopies DEF ResolveTenant, StepOf
  <1> QED BY <1>1, <1>2 DEF ResolveTenant

LEMMA StorePgStep == ASSUME IInv, NEW w \in Workers, StorePg(w) PROVE StepOf(w)
  <1>0. up' \in BOOLEAN /\ flag' \in [Workers -> BOOLEAN] /\ known' \in [Workers -> BOOLEAN]
    BY WorkerTypes DEF StorePg
  <1>1. CASE req' = [req EXCEPT ![w] = Idle] /\ Reply(req[w], "acked")
    <2>1. Idle \in Request /\ Continues(w, Idle) /\ Copies(w, Idle)
      BY <1>1, BackToIdle, IdleOK DEF StorePg, Copies
    <2> QED BY <1>0, <1>1, <2>1, RepliesOK DEF StepOf
  <1>2. CASE req' = [req EXCEPT ![w].at = "broken"] /\ client' = client
    <2> DEFINE r == [req[w] EXCEPT !.at = "broken"]
    <2>1. r \in Request /\ Continues(w, r)
      BY <1>2, MovesOn DEF Stages
    <2>2. r.at = "broken"
      BY WorkerTypes DEF Request
    <2> HIDE DEF r
    <2>3. Copies(w, r)
      BY <2>2 DEF StorePg, Copies
    <2> QED BY <1>0, <1>2, <2>1, <2>3 DEF StepOf, ClientLearns
  <1> QED BY <1>1, <1>2 DEF StorePg

LEMMA PgRaisesStep == ASSUME IInv, NEW w \in Workers, PgRaises(w) PROVE StepOf(w)
  BY MovesOn, NoCopies, WorkerTypes DEF PgRaises, StepOf, ClientLearns, Stages

LEMMA StoreLiteStep == ASSUME IInv, NEW w \in Workers, StoreLite(w) PROVE StepOf(w)
  <1>0. up' \in BOOLEAN /\ flag' \in [Workers -> BOOLEAN] /\ known' \in [Workers -> BOOLEAN]
    BY WorkerTypes DEF StoreLite
  <1>1. Idle \in Request /\ Continues(w, Idle) /\ Copies(w, Idle)
    BY BackToIdle, IdleOK DEF StoreLite, Copies
  <1>2. ClientLearns(w)
    BY RepliesOK DEF StoreLite
  <1> QED BY <1>0, <1>1, <1>2 DEF StepOf

\* A handler that starts to read.
LEMMA StartsToRead ==
  ASSUME IInv, NEW w \in Workers, NEW op \in Reads, NEW a \in {"auth", "connect"}, NEW s \in Scopes,
         req' = [req EXCEPT ![w] = [Idle EXCEPT !.op = op, !.at = a, !.scope = s]],
         op = "feed" => s \in {"inst", "fixed"}, op = "own" => s = "org",
         up' \in BOOLEAN, flag' \in [Workers -> BOOLEAN], known' \in [Workers -> BOOLEAN],
         UNCHANGED <<pg, lite, client>>
  PROVE  StepOf(w)
  <1> DEFINE r == [Idle EXCEPT !.op = op, !.at = a, !.scope = s]
  <1>1. r \in Request /\ ~r.heard /\ r.op = op /\ r.at = a /\ r.scope = s
    BY DEF Idle, Request, Stages
  <1>2. req' = [req EXCEPT ![w] = r]
    OBVIOUS
  <1> HIDE DEF r
  <1>3. Continues(w, r)
    BY <1>1, <1>2 DEF Continues, Reads
  <1> QED BY <1>1, <1>3, NoCopies DEF StepOf, ClientLearns

LEMMA ReadInstituteStep ==
  ASSUME IInv, NEW w \in Workers, NEW op \in {"scores", "feed"}, ReadInstitute(w, op)
  PROVE  StepOf(w)
  <1> DEFINE s == IF known'[w] THEN "inst" ELSE Fallback(op)
  <1>1. s \in Scopes /\ (op = "feed" => s \in {"inst", "fixed"}) /\ op \in Reads
    BY DEF Fallback, Scopes, Reads
  <1>2. req' = [req EXCEPT ![w] = [Idle EXCEPT !.op = op, !.at = "connect", !.scope = s]]
    BY DEF ReadInstitute
  <1>3. up' \in BOOLEAN /\ flag' \in [Workers -> BOOLEAN] /\ known' \in [Workers -> BOOLEAN]
    BY WorkerTypes DEF ReadInstitute
  <1> HIDE DEF s
  <1> QED BY <1>1, <1>2, <1>3, StartsToRead DEF ReadInstitute

LEMMA OtherReadsStep ==
  ASSUME IInv, NEW w \in Workers, GetOwnEvents(w) \/ ListIncidents(w)
  PROVE  StepOf(w)
  <1>0. up' \in BOOLEAN /\ flag' \in [Workers -> BOOLEAN] /\ known' \in [Workers -> BOOLEAN]
    BY WorkerTypes DEF GetOwnEvents, ListIncidents
  <1>1. CASE GetOwnEvents(w)
    BY <1>0, <1>1, StartsToRead DEF GetOwnEvents, Reads, Scopes
  <1>2. CASE ListIncidents(w)
    <2> DEFINE r == [Idle EXCEPT !.op = "incidents", !.at = "connect"]
    <2>1. r \in Request /\ ~r.heard /\ r.op = "incidents" /\ req' = [req EXCEPT ![w] = r]
      BY <1>2 DEF ListIncidents, Idle, Request, Reads, Stages, Scopes
    <2> HIDE DEF r
    <2>2. Continues(w, r)
      BY <2>1 DEF Continues
    <2> QED BY <1>0, <1>2, <2>1, <2>2, NoCopies DEF StepOf, ClientLearns, ListIncidents
  <1> QED BY <1>1, <1>2

\* A step that leaves the request as it is.
LEMMA SameRequest ==
  ASSUME IInv, NEW w \in Workers, req' = req, client' = client
  PROVE  req[w] \in Request /\ Continues(w, req[w])
  <1>1. req' = [req EXCEPT ![w] = req[w]] /\ req[w] \in Request
    BY WorkerTypes
  <1> QED BY <1>1 DEF IInv, ReqInv, Continues

LEMMA ReadInstituteRaisesStep ==
  ASSUME IInv, NEW w \in Workers, ReadInstituteRaises(w) PROVE StepOf(w)
  BY SameRequest, NoCopies, WorkerTypes DEF ReadInstituteRaises, StepOf, ClientLearns

\* A query answers with the rows of one store that are in the request's scope.
LEMMA Answers ==
  ASSUME IInv, NEW w \in Workers, NEW result \in SUBSET Events, NEW from \in {"pg", "lite"},
         req[w].op \in Reads, UNCHANGED <<up, flag, known, pg, lite, client>>,
         req' = [req EXCEPT ![w].at = "done", ![w].from = from, ![w].result = result],
         req[w].op = "feed" => result \cap Keyed = {},
         req[w].op = "own" => result \subseteq Keyed
  PROVE  StepOf(w)
  <1> DEFINE q == req[w]
             r == [req[w] EXCEPT !.at = "done", !.from = from, !.result = result]
  <1>1. q \in Request /\ req \in [Workers -> Request]
    BY WorkerTypes
  <1>2. /\ r \in Request /\ r.at = "done" /\ r.op = q.op /\ r.heard = q.heard
        /\ r.scope = q.scope /\ r.result = result
    BY <1>1 DEF Request, Stages
  <1>3. req' = [req EXCEPT ![w] = r]
    BY <1>1
  <1>4. ReqInv(w) /\ q.op # "post"
    BY DEF IInv, Reads
  <1> HIDE DEF r
  <1>5. Continues(w, r)
    BY <1>2, <1>3, <1>4 DEF Continues, ReqInv
  <1> QED BY <1>2, <1>5, NoCopies, WorkerTypes DEF StepOf, ClientLearns

LEMMA FetchStep ==
  ASSUME IInv, NEW w \in Workers, FetchPg(w) \/ FetchLite(w) PROVE StepOf(w)
  <1> DEFINE Rows(from) ==
        {e \in TableOf(req[w].op) :
           (IF from = "pg" THEN pg[e] ELSE lite[e]) > 0
           /\ InScope(IF from = "pg" THEN PgId(e) ELSE LiteId(e), req[w].scope)}
  <1>1. \A from \in {"pg", "lite"} :
          /\ Rows(from) \in SUBSET Events
          /\ req[w].op = "feed" => Rows(from) \cap Keyed = {}
          /\ req[w].op = "own" => Rows(from) \subseteq Keyed
    BY DEF IInv, ReqInv, TableOf, Incidents, InScope, PgId, LiteId
  <1>2. CASE FetchPg(w)
    <2>1. req' = [req EXCEPT ![w].at = "done", ![w].from = "pg", ![w].result = Rows("pg")]
      BY <1>2 DEF FetchPg
    <2> HIDE DEF Rows
    <2> QED BY <1>1, <1>2, <2>1, Answers DEF FetchPg
  <1>3. CASE FetchLite(w)
    <2>1. req' = [req EXCEPT ![w].at = "done", ![w].from = "lite", ![w].result = Rows("lite")]
      BY <1>3 DEF FetchLite
    <2> HIDE DEF Rows
    <2> QED BY <1>1, <1>3, <2>1, Answers DEF FetchLite
  <1> QED BY <1>2, <1>3

LEMMA RespondStep == ASSUME IInv, NEW w \in Workers, Respond(w) PROVE StepOf(w)
  BY BackToIdle, NoCopies, WorkerTypes DEF Respond, StepOf, ClientLearns

LEMMA AnswerLostStep == ASSUME IInv, NEW w \in Workers, AnswerLost(w) PROVE StepOf(w)
  <1> DEFINE q == req[w]
             r == [req[w] EXCEPT !.heard = FALSE]
  <1>1. q \in Request /\ req \in [Workers -> Request]
    BY WorkerTypes
  <1>2. /\ r \in Request /\ r.at = q.at /\ r.op = q.op /\ r.ev = q.ev /\ ~r.heard
        /\ r.scope = q.scope /\ r.result = q.result
    BY <1>1 DEF Request
  <1>3. req' = [req EXCEPT ![w] = r]
    BY <1>1 DEF AnswerLost
  <1>4. ReqInv(w) /\ q.op = "post"
    BY DEF IInv, ReqInv, AnswerLost
  <1>5. ClientLearns(w)
    BY RepliesOK DEF AnswerLost
  <1> HIDE DEF r
  <1>6. Continues(w, r)
    BY <1>2, <1>3, <1>4 DEF Continues, ReqInv
  <1> QED BY <1>2, <1>5, <1>6, NoCopies, WorkerTypes DEF StepOf, AnswerLost

LEMMA RestartStep == ASSUME IInv, NEW w \in Workers, Restart(w) PROVE StepOf(w)
  <1>1. up' \in BOOLEAN /\ flag' \in [Workers -> BOOLEAN] /\ known' \in [Workers -> BOOLEAN]
    BY WorkerTypes DEF Restart
  <1>2. ClientLearns(w)
    <2>1. CASE req[w].heard
      BY <2>1, RepliesOK DEF Restart
    <2>2. CASE ~req[w].heard
      BY <2>2 DEF Restart, ClientLearns
    <2> QED BY <2>1, <2>2
  <1> QED BY <1>1, <1>2, BackToIdle, NoCopies DEF StepOf, Restart

----------------------------------------------------------------------------
(* The invariant.                                                          *)

LEMMA InitStep == Init => IInv
  <1> SUFFICES ASSUME Init PROVE IInv
    OBVIOUS
  <1>1. TypeOK
    BY StoreAssumption, IdleOK DEF Init, TypeOK, Call
  <1>2. \A w \in Workers : ~req[w].heard /\ req[w].op = "idle"
    BY IdleOK DEF Init
  <1>3. HeardOnce /\ \A w \in Workers : ReqInv(w)
    BY <1>2 DEF HeardOnce, ReqInv
  <1>4. ASSUME NEW e \in Events PROVE TriesInv(e) /\ CopyInv(e)
    <2>1. client[e].state = "new" /\ client[e].tries = 0 /\ pg[e] = 0 /\ lite[e] = 0
      BY DEF Init
    <2>2. About(e) = {} /\ PgDue(e) = {}
      BY <1>2 DEF About, PgDue
    <2> QED BY <2>1, <2>2, FS_EmptySet, StoreAssumption DEF TriesInv, CopyInv
  <1> QED BY <1>1, <1>3, <1>4 DEF IInv

LEMMA PgGoesDownStep == IInv /\ PgGoesDown => IInv'
  <1> SUFFICES ASSUME IInv, PgGoesDown PROVE IInv'
    OBVIOUS
  <1>1. /\ req \in [Workers -> Request] /\ up' \in BOOLEAN
        /\ client' = client /\ pg' = pg /\ lite' = lite /\ flag' = flag /\ known' = known
    BY DEF IInv, TypeOK, PgGoesDown
  <1>2. ASSUME NEW w \in Workers
        PROVE  /\ req'[w] \in Request
               /\ req'[w].at = IF req[w].at = "pg" THEN "broken" ELSE req[w].at
               /\ req'[w].op = req[w].op /\ req'[w].ev = req[w].ev /\ req'[w].heard = req[w].heard
               /\ req'[w].scope = req[w].scope /\ req'[w].result = req[w].result
    <2>1. req[w] \in Request
      BY <1>1
    <2>2. req'[w] = IF req[w].at = "pg" THEN [req[w] EXCEPT !.at = "broken"] ELSE req[w]
      BY DEF PgGoesDown
    <2> QED BY <2>1, <2>2 DEF Request, Stages
  <1>3. req' \in [Workers -> Request]
    <2>1. req' = [w \in Workers |-> req'[w]]
      BY DEF PgGoesDown
    <2> QED BY <2>1, <1>2
  <1>4. TypeOK'
    BY <1>1, <1>3 DEF TypeOK, IInv
  <1>5. HeardOnce' /\ Keyed' = Keyed /\ Named' = Named
    BY <1>1, <1>2 DEF HeardOnce, IInv, Keyed, Named
  <1>6. ASSUME NEW w \in Workers PROVE ReqInv(w)'
    BY <1>1, <1>2, <1>5 DEF IInv, ReqInv
  <1>7. ASSUME NEW e \in Events PROVE TriesInv(e)' /\ CopyInv(e)'
    <2>1. TriesInv(e)' /\ About(e)' = About(e)
      BY <1>1, <1>2 DEF IInv, TriesInv, About
    <2>2. PgDue(e)' \in SUBSET PgDue(e)
      BY <1>2, <2>1 DEF PgDue, About
    <2>3. /\ Cardinality(PgDue(e)') \in Nat /\ Cardinality(PgDue(e)) \in Nat
          /\ Cardinality(PgDue(e)') <= Cardinality(PgDue(e))
      <3>1. IsFiniteSet(PgDue(e))
        BY Fewer DEF IInv, CopyInv, PgDue
      <3> QED BY <3>1, <2>2, Fewer
    <2>4. pg[e] \in Nat /\ client[e].tries \in Nat
      BY DEF IInv, TypeOK, Call
    <2>5. /\ IsFiniteSet(About(e))
          /\ pg[e] + Cardinality(PgDue(e)) <= client[e].tries
          /\ lite[e] + Cardinality(About(e)) <= client[e].tries
          /\ e \in Named => pg[e] <= 1 /\ lite[e] <= 1
      BY DEF IInv, CopyInv
    <2> QED BY <1>1, <1>5, <2>1, <2>3, <2>4, <2>5 DEF CopyInv
  <1> QED BY <1>4, <1>5, <1>6, <1>7 DEF IInv

\* A step that changes only whether Postgres answers, or nothing.
LEMMA NothingLearnt ==
  ASSUME IInv, up' \in BOOLEAN, UNCHANGED <<flag, known, pg, lite, client, req>>
  PROVE  IInv'
  BY DEF IInv, TypeOK, HeardOnce, ReqInv, TriesInv, CopyInv, About, PgDue, Keyed, Named

\* The client takes up an event: it was not listening to any request for it.
LEMMA SendStep ==
  ASSUME IInv, NEW w \in Workers, NEW e \in Events, Send(w, e)
  PROVE  IInv'
  <1> DEFINE r == [Idle EXCEPT !.op = "post", !.ev = e, !.heard = TRUE,
                     !.at = IF e \in Keyed THEN "auth" ELSE "connect"]
  <1>1. /\ r \in Request /\ r.op = "post" /\ r.ev = e /\ r.heard
        /\ r.at \in {"auth", "connect"} /\ r.result = {}
    BY DEF Idle, Request, Stages, Scopes
  <1>2. /\ req[w] = Idle /\ req \in [Workers -> Request]
        /\ req' = [req EXCEPT ![w] = r] /\ UNCHANGED <<up, flag, known, pg, lite>>
    BY DEF Send, IInv, TypeOK
  <1> HIDE DEF r
  <1>3. req'[w] = r /\ req' \in [Workers -> Request] /\ \A v \in Workers \ {w} : req'[v] = req[v]
    BY <1>1, <1>2
  <1>4. client[e] \in Call /\ client[e].state \in {"new", "retry"} /\ client \in [Events -> Call]
    BY DEF IInv, TypeOK, Send
  <1>5. client[e].tries \in Nat /\ client[e].tries + 1 \in 0..MaxTries
    BY <1>4, StoreAssumption DEF IInv, TriesInv, Call
  <1>6. [client[e] EXCEPT !.state = "waiting", !.tries = client[e].tries + 1] \in Call
    BY <1>4, <1>5 DEF Call
  <1>7. client' = [client EXCEPT ![e] = [client[e] EXCEPT !.state = "waiting", !.tries = client[e].tries + 1]]
    BY <1>4 DEF Send
  <1>8. /\ client' \in [Events -> Call]
        /\ client'[e].state = "waiting" /\ client'[e].tries = client[e].tries + 1
        /\ \A d \in Events \ {e} : client'[d] = client[d]
        /\ \A d \in Events : client'[d].keyed = client[d].keyed /\ client'[d].kind = client[d].kind
    BY <1>4, <1>6, <1>7 DEF Call
  <1>9. Keyed' = Keyed /\ Named' = Named
    BY <1>8 DEF Keyed, Named
  <1>10. \A v \in Workers : req[v].heard => req[v].ev # e /\ v # w
    BY <1>2, <1>4, IdleOK DEF IInv, ReqInv
  <1>11. HeardOnce'
    BY <1>1, <1>3, <1>10 DEF HeardOnce, IInv
  <1>12. ASSUME NEW v \in Workers PROVE ReqInv(v)'
    <2>1. CASE v = w
      BY <1>1, <1>3, <1>8, <2>1 DEF ReqInv
    <2>2. CASE v # w
      <3>1. req[v].heard => client'[req[v].ev] = client[req[v].ev]
        BY <1>8, <1>10 DEF IInv, ReqInv
      <3> QED BY <1>3, <1>9, <2>2, <3>1 DEF ReqInv, IInv
    <2> QED BY <2>1, <2>2
  <1>13. ASSUME NEW d \in Events PROVE TriesInv(d)' /\ CopyInv(d)'
    <2>0. CopyInv(d) /\ TriesInv(d) /\ pg[d] \in Nat /\ lite[d] \in Nat /\ client[d].tries \in Nat
      BY DEF IInv, TypeOK, Call
    <2>1. CASE d # e
      <3>1. About(d)' = About(d) /\ PgDue(d)' = PgDue(d)
        BY <1>1, <1>2, <1>3, <2>1, IdleOK DEF About, PgDue
      <3> QED BY <2>0, <2>1, <3>1, <1>2, <1>8, <1>9 DEF TriesInv, CopyInv
    <2>2. CASE d = e
      <3>1. About(e)' = About(e) \cup {w} /\ w \notin About(e)
        BY <1>1, <1>2, <1>3, IdleOK DEF About
      <3>2. PgDue(e)' = PgDue(e) \cup {w} /\ w \notin PgDue(e)
        BY <1>1, <1>2, <1>3, IdleOK DEF PgDue, About
      <3>3. IsFiniteSet(About(e)) /\ IsFiniteSet(PgDue(e))
        BY <2>0, <2>2, Fewer DEF CopyInv, PgDue
      <3>4. /\ IsFiniteSet(About(e)')
            /\ Cardinality(About(e)') = Cardinality(About(e)) + 1 /\ Cardinality(About(e)) \in Nat
            /\ Cardinality(PgDue(e)') = Cardinality(PgDue(e)) + 1 /\ Cardinality(PgDue(e)) \in Nat
        <4>1. ASSUME NEW S, NEW T, IsFiniteSet(S), w \notin S, T = S \cup {w}
              PROVE  IsFiniteSet(T) /\ Cardinality(T) = Cardinality(S) + 1 /\ Cardinality(S) \in Nat
          BY <4>1, FS_AddElement, FS_CardinalityType
        <4>2. /\ IsFiniteSet(About(e)')
              /\ Cardinality(About(e)') = Cardinality(About(e)) + 1 /\ Cardinality(About(e)) \in Nat
          BY <3>1, <3>3, <4>1
        <4>3. Cardinality(PgDue(e)') = Cardinality(PgDue(e)) + 1 /\ Cardinality(PgDue(e)) \in Nat
          BY <3>2, <3>3, <4>1
        <4> QED BY <4>2, <4>3
      <3> HIDE DEF About, PgDue
      <3> QED BY <2>0, <2>2, <3>4, <1>2, <1>8, <1>9 DEF TriesInv, CopyInv
    <2> QED BY <2>1, <2>2
  <1>14. TypeOK'
    BY <1>2, <1>3, <1>8 DEF TypeOK, IInv
  <1> QED BY <1>11, <1>12, <1>13, <1>14 DEF IInv

\* The steps of Next: a client's, Postgres's, or one of a worker.
LEMMA StepCases ==
  ASSUME IInv, [Next]_vars
  PROVE  \/ PgGoesDown
         \/ up' \in BOOLEAN /\ UNCHANGED <<flag, known, pg, lite, client, req>>
         \/ \E w \in Workers, e \in Events : Send(w, e)
         \/ \E w \in Workers : StepOf(w)
  <1>1. CASE PgComesBack \/ UNCHANGED vars
    BY <1>1 DEF PgComesBack, vars, IInv, TypeOK
  <1>2. ASSUME NEW w \in Workers, Serve(w) PROVE StepOf(w)
    BY <1>2, ConnectStep, ResolveTenantStep, StorePgStep, PgRaisesStep, StoreLiteStep, FetchStep,
       RespondStep DEF Serve
  <1>3. ASSUME NEW w \in Workers, GetScores(w) \/ GetEvents(w) PROVE StepOf(w)
    BY <1>3, ReadInstituteStep DEF GetScores, GetEvents
  <1>4. ASSUME NEW w \in Workers,
               \/ AnswerLost(w) \/ Restart(w) \/ GetOwnEvents(w) \/ ListIncidents(w)
               \/ ReadInstituteRaises(w)
        PROVE  StepOf(w)
    BY <1>4, AnswerLostStep, RestartStep, OtherReadsStep, ReadInstituteRaisesStep
  <1> QED BY <1>1, <1>2, <1>3, <1>4 DEF Next, PostEvent, PostIncident

LEMMA NextStep == IInv /\ [Next]_vars => IInv'
  <1> SUFFICES ASSUME IInv, [Next]_vars PROVE IInv'
    OBVIOUS
  <1>1. ASSUME NEW w \in Workers, StepOf(w) PROVE IInv'
    BY <1>1, Progress DEF StepOf
  <1> QED BY <1>1, StepCases, PgGoesDownStep, NothingLearnt, SendStep

\* The inductive invariant holds of every behaviour of the handlers, the
\* client's retries and the outages of Postgres.
THEOREM Invariance == Spec => []IInv
  BY InitStep, NextStep, PTL DEF Spec

\* The declared types hold in every reachable state; in particular the client
\* never counts more tries than its limit.
THEOREM TypeCorrect == Spec => []TypeOK
  <1>1. IInv => TypeOK
    BY DEF IInv
  <1> QED BY <1>1, Invariance, PTL

\* GET /events answers a keyless reader with Institute events only and an
\* organisation with its own only, for any number of workers and any outages.
THEOREM FeedsAreIsolated == Spec => []FeedIsolation
  <1>1. IInv => FeedIsolation
    BY DEF IInv, ReqInv, FeedIsolation, Answered
  <1> QED BY <1>1, Invariance, PTL

\* No store ever holds more copies of an event than the client made tries, nor
\* two of an incident with a reference of its own.
THEOREM DuplicatesAreBounded == Spec => []CopiesBounded
  <1>1. IInv => CopiesBounded
    <2> SUFFICES ASSUME IInv, NEW e \in Events
                 PROVE  /\ pg[e] <= client[e].tries /\ lite[e] <= client[e].tries
                        /\ e \in Named => pg[e] <= 1 /\ lite[e] <= 1
      BY DEF CopiesBounded
    <2>1. Cardinality(PgDue(e)) \in Nat /\ Cardinality(About(e)) \in Nat
      BY Fewer DEF IInv, CopyInv, PgDue
    <2> QED BY <2>1 DEF IInv, TypeOK, Call, CopyInv
  <1> QED BY <1>1, Invariance, PTL

----------------------------------------------------------------------------
(* The two stores implement Ledger.                                        *)

\* A worker's step records at most the event it was sent, and only when fewer
\* copies than tries are there.
LEMMA RoomForACopy ==
  ASSUME IInv, NEW w \in Workers, req[w].op = "post"
  PROVE  LET e == req[w].ev IN
         /\ e \in Events /\ lite[e] < client[e].tries
         /\ req[w].at = "pg" => pg[e] < client[e].tries
  <1> DEFINE e == req[w].ev
  <1>1. e \in Events
    BY DEF IInv, ReqInv
  <1>2. /\ IsFiniteSet(About(e)) /\ IsFiniteSet(PgDue(e)) /\ pg[e] \in Nat /\ lite[e] \in Nat
        /\ client[e].tries \in Nat
        /\ pg[e] + Cardinality(PgDue(e)) <= client[e].tries
        /\ lite[e] + Cardinality(About(e)) <= client[e].tries
    <2>1. IsFiniteSet(About(e)) /\ PgDue(e) \in SUBSET About(e)
      BY <1>1 DEF IInv, CopyInv, PgDue
    <2>2. IsFiniteSet(PgDue(e))
      BY <2>1, Fewer
    <2> HIDE DEF e
    <2> QED BY <1>1, <2>1, <2>2 DEF IInv, TypeOK, Call, CopyInv
  <1>3. \A S : IsFiniteSet(S) /\ S # {} => Cardinality(S) \in Nat \ {0}
    BY FS_EmptySet, FS_CardinalityType
  <1>4. w \in About(e) /\ (req[w].at = "pg" => w \in PgDue(e))
    BY DEF About, PgDue
  <1> HIDE DEF e
  <1>5. Cardinality(About(e)) \in Nat \ {0} /\ (req[w].at = "pg" => Cardinality(PgDue(e)) \in Nat \ {0})
    BY <1>2, <1>3, <1>4
  <1>6. e \in Events /\ lite[e] < client[e].tries /\ (req[w].at = "pg" => pg[e] < client[e].tries)
    BY <1>1, <1>2, <1>5, <1>4, FS_CardinalityType
  <1> QED BY <1>6 DEF e

AckedEvents == {e \in Events : client[e].state = "acked"}
TriesOf == [e \in Events |-> client[e].tries]

\* An answer that is not a 201 leaves what was acknowledged as it is, and a 201
\* adds the event it answers.
LEMMA OnlyA201Acknowledges ==
  ASSUME IInv, NEW w \in Workers
  PROVE  /\ Reply5xx(req[w]) \/ Reply(req[w], "failed")
              \/ (req[w].heard /\ (Told5xx(req[w].ev) \/ Told(req[w].ev, "failed")))
            => TriesOf' = TriesOf /\ AckedEvents' = AckedEvents
         /\ Reply(req[w], "acked")
            => TriesOf' = TriesOf /\ AckedEvents' \in {AckedEvents, AckedEvents \cup {req[w].ev}}
  <1> DEFINE x == req[w].ev
  <1>1. client' = client => TriesOf' = TriesOf /\ AckedEvents' = AckedEvents
    BY DEF TriesOf, AckedEvents
  <1>2. ASSUME NEW s, req[w].heard, Told(x, s)
        PROVE  /\ TriesOf' = TriesOf
               /\ s # "acked" => AckedEvents' = AckedEvents
               /\ s = "acked" => AckedEvents' = AckedEvents \cup {x}
    <2>1. x \in Events /\ client[x].state = "waiting" /\ client \in [Events -> Call]
      BY <1>2 DEF IInv, ReqInv, TypeOK
    <2>2. client' = [client EXCEPT ![x].state = s]
      BY <1>2 DEF Told
    <2> HIDE DEF x
    <2>3. /\ client'[x].state = s /\ client'[x].tries = client[x].tries
          /\ \A e \in Events \ {x} : client'[e] = client[e]
      BY <2>1, <2>2 DEF Call
    <2> QED BY <2>1, <2>3 DEF TriesOf, AckedEvents
  <1> QED BY <1>1, <1>2 DEF Reply, Reply5xx, Told5xx

\* Only StorePg and StoreLite record a copy or acknowledge, only Send submits.
LEMMA QuietStep ==
  ASSUME IInv, [Next]_vars,
         ~\E w \in Workers : \/ StorePg(w) \/ StoreLite(w)
                             \/ \E e \in Events : Send(w, e)
  PROVE  TriesOf' = TriesOf /\ AckedEvents' = AckedEvents /\ pg' = pg /\ lite' = lite
  <1>0. client' = client => TriesOf' = TriesOf /\ AckedEvents' = AckedEvents
    BY DEF TriesOf, AckedEvents
  <1>1. CASE PgGoesDown \/ PgComesBack \/ UNCHANGED vars
    BY <1>0, <1>1 DEF PgGoesDown, PgComesBack, vars
  <1>2. ASSUME NEW w \in Workers, Connect(w) \/ PgRaises(w) \/ FetchPg(w) \/ FetchLite(w) \/ Respond(w)
        PROVE  client' = client /\ pg' = pg /\ lite' = lite
    BY <1>2 DEF Connect, PgRaises, FetchPg, FetchLite, Respond
  <1>3. ASSUME NEW w \in Workers,
               \/ GetScores(w) \/ GetEvents(w) \/ GetOwnEvents(w) \/ ListIncidents(w)
               \/ ReadInstituteRaises(w)
        PROVE  client' = client /\ pg' = pg /\ lite' = lite
    BY <1>3 DEF GetScores, GetEvents, ReadInstitute, GetOwnEvents, ListIncidents, ReadInstituteRaises
  <1>4. ASSUME NEW w \in Workers, ResolveTenant(w) \/ AnswerLost(w) \/ Restart(w)
        PROVE  TriesOf' = TriesOf /\ AckedEvents' = AckedEvents /\ pg' = pg /\ lite' = lite
    <2>1. pg' = pg /\ lite' = lite
      BY <1>4 DEF ResolveTenant, AnswerLost, Restart
    <2>2. CASE ResolveTenant(w)
      BY <2>1, <2>2, <1>0, OnlyA201Acknowledges DEF ResolveTenant
    <2>3. CASE AnswerLost(w)
      BY <2>1, <2>3, OnlyA201Acknowledges DEF AnswerLost
    <2>4. CASE Restart(w)
      <3>1. CASE req[w].heard
        BY <2>1, <2>4, <3>1, OnlyA201Acknowledges DEF Restart
      <3>2. CASE ~req[w].heard
        BY <2>1, <2>4, <3>2, <1>0 DEF Restart
      <3> QED BY <3>1, <3>2
    <2> QED BY <1>4, <2>2, <2>3, <2>4
  <1> QED BY <1>0, <1>1, <1>2, <1>3, <1>4 DEF Next, Serve, PostEvent, PostIncident

\* Whatever fails between two calls, nothing acknowledged is lost: a 201 is
\* sent for a committed copy, and no step removes a copy or an acknowledgement.
THEOREM Refinement == Spec => ImplementsLedger
  <1> DEFINE stores == [pg |-> pg, lite |-> lite]
  <1>1. Init => Promise!Init
    <2> SUFFICES ASSUME Init PROVE Promise!Init
      OBVIOUS
    <2>1. TriesOf = [e \in Events |-> 0] /\ AckedEvents = {}
      BY DEF Init, TriesOf, AckedEvents
    <2>2. stores = [s \in {"pg", "lite"} |-> [e \in Events |-> 0]]
      BY DEF Init
    <2> QED BY <2>1, <2>2 DEF Promise!Init, TriesOf, AckedEvents
  <1>2. IInv /\ [Next]_vars => [Promise!Next]_(Promise!lvars)
    <2> SUFFICES ASSUME IInv, [Next]_vars PROVE Promise!Next \/ UNCHANGED Promise!lvars
      OBVIOUS
    <2>0. pg \in [Events -> Nat] /\ lite \in [Events -> Nat] /\ client \in [Events -> Call]
      BY DEF IInv, TypeOK
    <2>1. ASSUME NEW w \in Workers, NEW e \in Events, Send(w, e) PROVE Promise!Next
      <3>1. /\ client[e].state \in {"new", "retry"} /\ pg' = pg /\ lite' = lite
            /\ client'[e].state = "waiting" /\ client'[e].tries = client[e].tries + 1
            /\ \A d \in Events \ {e} : client'[d] = client[d]
        BY <2>0, <2>1 DEF Send, Call
      <3>2. TriesOf' = [TriesOf EXCEPT ![e] = @ + 1] /\ AckedEvents' = AckedEvents
        BY <3>1 DEF TriesOf, AckedEvents
      <3>3. Promise!Submit(e)
        BY <3>1, <3>2 DEF Promise!Submit, TriesOf, AckedEvents
      <3> QED BY <3>3 DEF Promise!Next
    <2>2. ASSUME NEW w \in Workers, StorePg(w) PROVE Promise!Next
      <3> DEFINE e == req[w].ev
      <3>1. e \in Events /\ pg[e] < TriesOf[e]
        BY <2>2, RoomForACopy DEF StorePg, TriesOf
      <3>2. TriesOf' = TriesOf /\ AckedEvents' \in {AckedEvents, AckedEvents \cup {e}}
        BY <2>2, OnlyA201Acknowledges DEF StorePg, TriesOf, AckedEvents
      <3>3. stores' = [stores EXCEPT !["pg"][e] = @ + 1]
        BY <2>2 DEF StorePg
      <3> HIDE DEF e
      <3>4. Promise!Record(e, "pg")
        BY <3>1, <3>2, <3>3 DEF Promise!Record, Promise!Recorded, TriesOf, AckedEvents
      <3> QED BY <3>1, <3>4 DEF Promise!Next
    <2>3. ASSUME NEW w \in Workers, StoreLite(w) PROVE Promise!Next \/ UNCHANGED Promise!lvars
      <3> DEFINE e == req[w].ev
      <3>1. CASE lite' = [lite EXCEPT ![e] = @ + 1] /\ Reply(req[w], "acked")
        <4>1. e \in Events /\ lite[e] < TriesOf[e]
          BY <2>3, RoomForACopy DEF StoreLite, TriesOf
        <4>2. TriesOf' = TriesOf /\ AckedEvents' \in {AckedEvents, AckedEvents \cup {e}}
          BY <3>1, OnlyA201Acknowledges
        <4>3. stores' = [stores EXCEPT !["lite"][e] = @ + 1]
          BY <2>3, <3>1 DEF StoreLite
        <4> HIDE DEF e
        <4>4. Promise!Record(e, "lite")
          BY <4>1, <4>2, <4>3 DEF Promise!Record, Promise!Recorded, TriesOf, AckedEvents
        <4> QED BY <4>1, <4>4 DEF Promise!Next
      <3>2. CASE lite' = lite /\ Reply5xx(req[w])
        BY <2>3, <3>2, OnlyA201Acknowledges DEF StoreLite, Promise!lvars, TriesOf, AckedEvents
      <3> QED BY <2>3, <3>1, <3>2 DEF StoreLite
    <2>4. CASE TriesOf' = TriesOf /\ AckedEvents' = AckedEvents /\ pg' = pg /\ lite' = lite
      BY <2>4 DEF Promise!lvars, TriesOf, AckedEvents
    <2> QED BY <2>1, <2>2, <2>3, <2>4, QuietStep
  <1> QED BY <1>1, <1>2, Invariance, PTL DEF Spec, ImplementsLedger, Promise!Spec
=============================================================================
