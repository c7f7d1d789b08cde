--------------------------- MODULE TenantsProofs ---------------------------
(***************************************************************************)
(* Machine-checked proofs about Tenants, for every value of its constants. *)
(***************************************************************************)
EXTENDS Tenants, TLAPS

LEMMA IdleType == Idle \in Request /\ Idle.op \notin Ops /\ NoRow \in Row /\ NoCell \in Cell
  BY DEF Idle, Request, Row, NoRow, Cell, NoCell, Ops, RowOps, MintOps, Decisions

\* A WriteRow step keeps the types, given a well-typed row and key.
LEMMA WriteRowType ==
  ASSUME TypeOK, NEW w \in Workers, NEW o \in Orgs, NEW op \in RowOps,
         NEW row \in Row, NEW k \in Keys \cup {NoKey}, WriteRow(w, op, o, row, k)
  PROVE  TypeOK'
  <1>1. [op |-> op, org |-> o, row |-> row, key |-> k, by |-> NoBrowser] \in Request
    BY DEF Request, Ops
  <1>2. req' \in [Workers -> Request]
    BY <1>1 DEF TypeOK, WriteRow
  <1>3. lock' \in [Orgs -> Workers \cup {NoWorker}]
    BY DEF TypeOK, WriteRow
  <1> QED BY <1>2, <1>3 DEF TypeOK, WriteRow

LEMMA WriteKeyType ==
  ASSUME TypeOK, NEW w \in Workers, NEW o \in Orgs \cup {NoOrg}, NEW op \in Ops,
         NEW b \in Browsers \cup {NoBrowser}, NEW k \in Keys \cup {NoKey},
         WriteKey(w, op, o, k, b)
  PROVE  TypeOK'
  <1>1. [op |-> op, org |-> o, row |-> NoRow, key |-> k, by |-> b] \in Request
    BY IdleType DEF Request
  <1>2. req' \in [Workers -> Request]
    BY <1>1 DEF TypeOK, WriteKey
  <1> QED BY <1>2 DEF TypeOK, WriteKey


----------------------------------------------------------------------------
(* Steps that only begin a request.                                        *)

\* A tenants row written by a handler keeps the invariant, given that the
\* row fits the handler, a key it draws is fresh and so is a token it draws.
LEMMA WriteRowStep ==
  ASSUME IInv, NEW w \in Workers, NEW o \in Orgs, NEW op \in RowOps,
         NEW row \in Row, NEW k \in Keys \cup {NoKey}, WriteRow(w, op, o, row, k),
         Fits([op |-> op, org |-> o, row |-> row, key |-> k, by |-> NoBrowser]),
         op = "approve" => k \in Keys /\ FreshKey(k),
         op # "approve" => k = NoKey,
         op \in {"apply", "regen"} => row.token \in Tokens /\ FreshToken(row.token),
         op \notin {"apply", "regen"} => row.token = NoToken \/ row.token = org[o].token
  PROVE  IInv'
  <1> DEFINE r == [op |-> op, org |-> o, row |-> row, key |-> k, by |-> NoBrowser]
  <1>1. TypeOK' BY WriteRowType DEF IInv
  <1>2. /\ req[w] = Idle /\ lock[o] = NoWorker
        /\ req'[w] = r /\ \A v \in Workers : v # w => req'[v] = req[v]
        /\ lock'[o] = w /\ \A p \in Orgs : p # o => lock'[p] = lock[p]
        /\ UNCHANGED <<org, key, session, shown, links, events>>
    BY DEF WriteRow, IInv, TypeOK
  <1>3. RowInv'
    <2> SUFFICES ASSUME NEW v \in Workers, req'[v].op \in RowOps
                 PROVE  req'[v].org \in Orgs /\ lock'[req'[v].org] = v /\ Fits(req[v])'
      BY DEF RowInv
    <2>1. CASE v = w
      BY <2>1, <1>2 DEF Fits, Registers, Decides
    <2>2. CASE v # w
      <3>1. req'[v] = req[v] /\ req[v].org \in Orgs /\ lock[req[v].org] = v /\ Fits(req[v])
        BY <2>2, <1>2 DEF IInv, RowInv
      <3>2. req[v].org # o
        BY <3>1, <1>2, NoneAssumption
      <3> QED BY <3>1, <3>2, <1>2 DEF Fits, Registers, Decides
    <2> QED BY <2>1, <2>2
  <1>4. MintInv'
    <2> SUFFICES ASSUME NEW v \in Workers, req'[v].op \in MintOps
                 PROVE  /\ req'[v].key \in Keys /\ key'[req'[v].key].owner = NoOrg
                        /\ req'[v].org \in Orgs /\ org'[req'[v].org].status # "none"
                        /\ \A u \in Workers : req'[u].key = req'[v].key => u = v
      BY DEF MintInv
    <2>1. CASE v = w
      <3>1. op = "approve" /\ k \in Keys /\ FreshKey(k)
        BY <2>1, <1>2 DEF RowOps, MintOps
      <3>2. org[o].status # "none"
        BY <3>1 DEF Fits, Registers
      <3> QED BY <3>1, <3>2, <2>1, <1>2 DEF FreshKey
    <2>2. CASE v # w
      <3>1. /\ req[v].key \in Keys /\ key[req[v].key].owner = NoOrg
            /\ req[v].org \in Orgs /\ org[req[v].org].status # "none"
            /\ \A u \in Workers : req[u].key = req[v].key => u = v
        BY <2>2, <1>2 DEF IInv, MintInv
      <3>2. k # req[v].key
        BY <3>1, NoneAssumption DEF FreshKey
      <3> QED BY <3>1, <3>2, <2>2, <1>2
    <2> QED BY <2>1, <2>2
  <1>5. MemberInv'
    <2>1. op \notin {"ingest", "login", "tp_mint", "revoke"}
      BY DEF RowOps
    <2> QED BY <2>1, <1>2 DEF IInv, MemberInv, Member
  <1>6. TokenInv'
    <2> SUFFICES ASSUME NEW v \in Workers, req'[v].op \in {"apply", "regen"}
                 PROVE  /\ req'[v].row.token \in Tokens
                        /\ \A p \in Orgs : org'[p].token # req'[v].row.token
                        /\ \A u \in Workers : req'[u].row.token = req'[v].row.token => u = v
      BY DEF TokenInv
    <2>1. CASE v = w
      BY <2>1, <1>2 DEF FreshToken
    <2>2. CASE v # w
      <3>1. /\ req[v].row.token \in Tokens
            /\ \A p \in Orgs : org[p].token # req[v].row.token
            /\ \A u \in Workers : req[u].row.token = req[v].row.token => u = v
        BY <2>2, <1>2 DEF IInv, TokenInv
      <3>2. row.token # req[v].row.token
        BY <3>1, NoneAssumption DEF FreshToken
      <3> QED BY <3>1, <3>2, <2>2, <1>2
    <2> QED BY <2>1, <2>2
  <1> QED
    BY <1>1, <1>2, <1>3, <1>4, <1>5, <1>6
       DEF IInv, KeyInv, OneOnboardingKey, EventsOnlyFromActiveOrgs, ShownKeysAreStored,
           LinksAreSpent, Approved

\* Statements on api_keys keep the invariant, given a fresh key for a mint
\* and a member, with a key of its own, for the requests of members.
LEMMA WriteKeyStep ==
  ASSUME IInv, NEW w \in Workers, NEW o \in Orgs, NEW op \in Ops \ RowOps,
         NEW k \in Keys, NEW b \in Browsers \cup {NoBrowser}, WriteKey(w, op, o, k, b),
         op \in MintOps => FreshKey(k) /\ org[o].status # "none",
         op # "mint" => Member(o),
         op \in {"ingest", "login", "revoke"} => key[k].owner = o,
         op \in {"login", "revoke", "tp_mint"} => b \in Browsers
  PROVE  IInv'
  <1>1. TypeOK' BY WriteKeyType DEF IInv
  <1>2. /\ req[w] = Idle
        /\ req'[w] = [op |-> op, org |-> o, row |-> NoRow, key |-> k, by |-> b]
        /\ \A v \in Workers : v # w => req'[v] = req[v]
        /\ UNCHANGED <<org, key, lock, session, shown, links, events>>
    BY DEF WriteKey, IInv, TypeOK
  <1>3. RowInv'
    BY <1>2 DEF IInv, RowInv, Fits, Registers, Decides
  <1>4. MintInv'
    <2> SUFFICES ASSUME NEW v \in Workers, req'[v].op \in MintOps
                 PROVE  /\ req'[v].key \in Keys /\ key'[req'[v].key].owner = NoOrg
                        /\ req'[v].org \in Orgs /\ org'[req'[v].org].status # "none"
                        /\ \A u \in Workers : req'[u].key = req'[v].key => u = v
      BY DEF MintInv
    <2>1. CASE v = w
      BY <2>1, <1>2 DEF FreshKey
    <2>2. CASE v # w
      <3>1. /\ req[v].key \in Keys /\ key[req[v].key].owner = NoOrg
            /\ req[v].org \in Orgs /\ org[req[v].org].status # "none"
            /\ \A u \in Workers : req[u].key = req[v].key => u = v
        BY <2>2, <1>2 DEF IInv, MintInv
      <3>2. k # req[v].key
        BY <3>1, NoneAssumption DEF FreshKey, Ops, MintOps
      <3> QED BY <3>1, <3>2, <2>2, <1>2
    <2> QED BY <2>1, <2>2
  <1>5. MemberInv'
    BY <1>2, NoneAssumption DEF IInv, MemberInv, Member, Ops, MintOps, RowOps
  <1>6. TokenInv'
    <2>1. req'[w].row.token = NoToken /\ req'[w].op \notin {"apply", "regen"}
      BY <1>2 DEF NoRow, RowOps
    <2> QED BY <2>1, <1>2, NoneAssumption DEF IInv, TokenInv
  <1> QED
    BY <1>1, <1>2, <1>3, <1>4, <1>5, <1>6
       DEF IInv, KeyInv, OneOnboardingKey, EventsOnlyFromActiveOrgs, ShownKeysAreStored,
           LinksAreSpent, Approved

----------------------------------------------------------------------------
(* Steps that end a request.                                               *)

LEMMA UnlockType == TypeOK => \A w \in Workers : Unlock(w) \in [Orgs -> Workers \cup {NoWorker}]
  BY DEF TypeOK, Unlock

\* What ending a request on worker w leaves behind.
Ends(w) ==
  /\ req[w] # Idle /\ req'[w] = Idle /\ \A v \in Workers : v # w => req'[v] = req[v]
  /\ \A o \in Orgs : lock[o] # w => lock'[o] = lock[o]

\* Committed rows only move forward: statuses leave "none" and "pending" once,
\* a stored key keeps its owner and origin.
Forward ==
  /\ \A o \in Orgs : org[o].status # "none" => org'[o].status # "none"
  /\ \A o \in Orgs : org[o].status = "active" => org'[o].status = "active"
  /\ \A k \in Keys : key[k].owner # NoOrg =>
       key'[k].owner = key[k].owner /\ key'[k].origin = key[k].origin

\* Member in the next state.
MemberNext(o) ==
  /\ o \in Orgs /\ org'[o].status = "active"
  /\ \E j \in Keys : key'[j].owner = o /\ key'[j].origin \in {"approve", "mint"}

LEMMA MemberForward == Forward => \A o : Member(o) => MemberNext(o)
  BY NoneAssumption DEF Forward, Member, MemberNext

\* The parts of the invariant about the other workers survive when one
\* request ends: its writes concern a row and a key that are not theirs.
LEMMA OthersStep ==
  ASSUME IInv, NEW w \in Workers, Ends(w), Forward,
         \A o \in Orgs : org'[o] # org[o] =>
            req[w].op \in RowOps /\ o = req[w].org /\ org'[o] = req[w].row,
         \A k \in Keys : key'[k].owner # key[k].owner =>
            req[w].op \in MintOps /\ k = req[w].key
  PROVE  RowInv' /\ MintInv' /\ TokenInv'
  <1>0. Idle.op \notin RowOps \cup MintOps /\ Idle.key = NoKey /\ Idle.row.token = NoToken
    BY DEF Idle, RowOps, MintOps, NoRow
  <1>1. RowInv'
    <2> SUFFICES ASSUME NEW v \in Workers, req'[v].op \in RowOps
                 PROVE  req'[v].org \in Orgs /\ lock'[req'[v].org] = v /\ Fits(req[v])'
      BY DEF RowInv
    <2>1. v # w /\ req'[v] = req[v]
      BY <1>0 DEF Ends
    <2>2. req[v].org \in Orgs /\ lock[req[v].org] = v /\ Fits(req[v])
      BY <2>1 DEF IInv, RowInv
    <2>3. org'[req[v].org] = org[req[v].org] /\ lock'[req[v].org] = v
      BY <2>1, <2>2 DEF IInv, RowInv, Ends
    <2> QED BY <2>1, <2>2, <2>3 DEF Fits, Registers, Decides
  <1>2. MintInv'
    <2> SUFFICES ASSUME NEW v \in Workers, req'[v].op \in MintOps
                 PROVE  /\ req'[v].key \in Keys /\ key'[req'[v].key].owner = NoOrg
                        /\ req'[v].org \in Orgs /\ org'[req'[v].org].status # "none"
                        /\ \A u \in Workers : req'[u].key = req'[v].key => u = v
      BY DEF MintInv
    <2>1. v # w /\ req'[v] = req[v]
      BY <1>0 DEF Ends
    <2>2. /\ req[v].key \in Keys /\ key[req[v].key].owner = NoOrg
          /\ req[v].org \in Orgs /\ org[req[v].org].status # "none"
          /\ \A u \in Workers : req[u].key = req[v].key => u = v
      BY <2>1 DEF IInv, MintInv
    <2>3. key'[req[v].key].owner = NoOrg
      BY <2>1, <2>2
    <2> QED BY <2>1, <2>2, <2>3, <1>0, NoneAssumption DEF Ends, Forward
  <1>3. TokenInv'
    <2> SUFFICES ASSUME NEW v \in Workers, req'[v].op \in {"apply", "regen"}
                 PROVE  /\ req'[v].row.token \in Tokens
                        /\ \A p \in Orgs : org'[p].token # req'[v].row.token
                        /\ \A u \in Workers : req'[u].row.token = req'[v].row.token => u = v
      BY DEF TokenInv
    <2>1. v # w /\ req'[v] = req[v]
      BY <1>0 DEF Ends, RowOps
    <2>2. /\ req[v].row.token \in Tokens
          /\ \A p \in Orgs : org[p].token # req[v].row.token
          /\ \A u \in Workers : req[u].row.token = req[v].row.token => u = v
      BY <2>1 DEF IInv, TokenInv
    <2>3. \A p \in Orgs : org'[p].token # req[v].row.token
      BY <2>1, <2>2
    <2> QED BY <2>1, <2>2, <2>3, <1>0, NoneAssumption DEF Ends
  <1> QED BY <1>1, <1>2, <1>3

\* A request that ends without a commit keeps the invariant.
LEMMA QuietEnd ==
  ASSUME IInv, NEW w \in Workers, Ends(w), TypeOK', UNCHANGED <<org, key, shown, links>>,
         session' = session,
         \A e \in events' \ events : req[w].op = "ingest" /\ e = [org |-> req[w].org, key |-> req[w].key]
  PROVE  IInv'
  <1>1. Forward
    BY DEF Forward
  <1>2. RowInv' /\ MintInv' /\ TokenInv'
    BY <1>1, OthersStep
  <1>3. MemberInv'
    <2>1. Idle.op \notin {"ingest", "login", "tp_mint", "revoke"}
      BY DEF Idle
    <2> QED BY <2>1 DEF IInv, MemberInv, Member, Ends
  <1>4. EventsOnlyFromActiveOrgs'
    <2> SUFFICES ASSUME NEW e \in events'
                 PROVE  key[e.key].owner = e.org /\ org[e.org].status = "active"
      BY DEF EventsOnlyFromActiveOrgs
    <2>1. CASE e \in events
      BY <2>1 DEF IInv, EventsOnlyFromActiveOrgs
    <2>2. CASE e \notin events
      BY <2>2 DEF IInv, MemberInv, Member
    <2> QED BY <2>1, <2>2
  <1> QED
    BY <1>2, <1>3, <1>4
       DEF IInv, KeyInv, OneOnboardingKey, ShownKeysAreStored, LinksAreSpent, Approved

LEMMA RollbackStep == ASSUME IInv, NEW w \in Workers, Rollback(w) PROVE IInv'
  <1>1. TypeOK'
    BY IdleType, UnlockType DEF IInv, TypeOK, Rollback
  <1>2. Ends(w)
    BY DEF Ends, Rollback, IInv, TypeOK, Unlock
  <1> QED BY <1>1, <1>2, QuietEnd DEF Rollback

LEMMA StoreEventStep == ASSUME IInv, NEW w \in Workers, StoreEvent(w) PROVE IInv'
  <1>1. req[w].org \in Orgs /\ req[w].key \in Keys
    BY DEF StoreEvent, IInv, MemberInv, Member
  <1>2. TypeOK'
    BY <1>1, IdleType DEF IInv, TypeOK, StoreEvent
  <1>3. Ends(w)
    <2>1. req[w] # Idle
      BY DEF StoreEvent, Idle
    <2> QED BY <2>1 DEF Ends, StoreEvent, IInv, TypeOK
  <1> QED BY <1>2, <1>3, QuietEnd DEF StoreEvent

\* A commit publishes what its handler computed; the key, if any, belongs to
\* the organisation of the request.
LEMMA CommitStep == ASSUME IInv, NEW w \in Workers, Commit(w) PROVE IInv'
  <1> DEFINE r == req[w]
  <1>1. /\ r \in Request /\ r.row \in Row
        /\ r.op \in RowOps => r.org \in Orgs /\ lock[r.org] = w /\ Fits(r)
        /\ r.op \in MintOps => /\ r.key \in Keys /\ key[r.key].owner = NoOrg /\ r.org \in Orgs
                               /\ org[r.org].status # "none"
        /\ r.op \in {"apply", "regen"} => r.row.token \in Tokens
    BY DEF IInv, TypeOK, RowInv, MintInv, TokenInv, Request
  <1>2. TypeOK'
    <2>1. org' \in [Orgs -> Row]
      BY <1>1 DEF Commit, IInv, TypeOK
    <2>2. key' \in [Keys -> Cell]
      <3>1. key \in [Keys -> Cell]
        BY DEF IInv, TypeOK
      <3>2. CASE r.op \in MintOps
        <4>1. [owner |-> r.org, active |-> TRUE, origin |-> r.op] \in Cell
          BY <1>1, <3>2 DEF Cell, MintOps
        <4>2. key' = [key EXCEPT ![r.key] = [owner |-> r.org, active |-> TRUE, origin |-> r.op]]
          BY <3>2 DEF Commit
        <4> HIDE DEF r
        <4> QED BY <3>1, <4>1, <4>2
      <3>3. CASE r.op \notin MintOps
        <4>1. key' = key \/ key' = [key EXCEPT ![r.key].active = FALSE]
          BY <3>3 DEF Commit
        <4> HIDE DEF r
        <4> QED BY <3>1, <4>1 DEF Cell
      <3> QED BY <3>2, <3>3
    <2>3. shown' \subseteq Keys /\ links' \subseteq Tokens
      BY <1>1 DEF Commit, Answer, Lost, IInv, TypeOK
    <2>4. session' \in [Browsers -> Orgs \cup {NoOrg}]
      BY <1>1 DEF Commit, Answer, Lost, IInv, TypeOK, Request
    <2> QED BY <2>1, <2>2, <2>3, <2>4, IdleType, UnlockType DEF Commit, IInv, TypeOK
  <1>3. Ends(w)
    <2>1. r # Idle
      BY DEF Commit, Idle, RowOps, MintOps
    <2> QED BY <2>1 DEF Ends, Commit, IInv, TypeOK, Unlock
  <1>4. /\ \A o \in Orgs : org'[o] = IF r.op \in RowOps /\ o = r.org THEN r.row ELSE org[o]
        /\ \A k \in Keys : ~(r.op \in MintOps /\ k = r.key) =>
             key'[k].owner = key[k].owner /\ key'[k].origin = key[k].origin
        /\ r.op \in MintOps =>
             key'[r.key] = [owner |-> r.org, active |-> TRUE, origin |-> r.op]
        /\ r.op # "revoke" => \A k \in Keys : ~(r.op \in MintOps /\ k = r.key) => key'[k] = key[k]
    BY <1>1 DEF Commit, IInv, TypeOK, Cell
  <1>5. Forward
    <2>1. \A o \in Orgs : org[o].status # "none" => org'[o].status # "none"
      BY <1>1, <1>4 DEF Fits
    <2>2. \A o \in Orgs : org[o].status = "active" => org'[o].status = "active"
      BY <1>1, <1>4 DEF Fits
    <2> QED BY <2>1, <2>2, <1>1, <1>4 DEF Forward
  <1>6. RowInv' /\ MintInv' /\ TokenInv'
    BY <1>3, <1>4, <1>5, OthersStep
  <1>7. KeyInv'
    <2> SUFFICES ASSUME NEW k \in Keys
                 PROVE  IF key'[k].owner = NoOrg THEN key'[k] = NoCell
                        ELSE key'[k].origin # "none" /\ org'[key'[k].owner].status # "none"
      BY DEF KeyInv
    <2>1. CASE r.op \in MintOps /\ k = r.key
      BY <2>1, <1>1, <1>4, <1>5, NoneAssumption DEF MintOps, Forward
    <2>2. CASE ~(r.op \in MintOps /\ k = r.key) /\ key[k].owner = NoOrg
      <3>1. r.op = "revoke" => k # r.key
        BY <2>2, NoneAssumption DEF IInv, MemberInv, Member
      <3>2. key'[k] = key[k]
        BY <3>1, <2>2, <1>4 DEF Commit, MintOps, IInv, TypeOK
      <3> QED BY <3>2, <2>2 DEF IInv, KeyInv
    <2>3. CASE ~(r.op \in MintOps /\ k = r.key) /\ key[k].owner # NoOrg
      <3>1. key[k].owner \in Orgs
        BY <2>3 DEF IInv, TypeOK, Cell
      <3> QED BY <3>1, <2>3, <1>4, <1>5 DEF IInv, KeyInv, Forward
    <2> QED BY <2>1, <2>2, <2>3
  <1>8. MemberInv'
    <2>1. \A o : Member(o) => MemberNext(o)
      BY <1>5, MemberForward
    <2>2. \A b \in Browsers : session'[b] # NoOrg => MemberNext(session'[b])
      <3>1. CASE session' = session
        BY <3>1, <2>1 DEF IInv, MemberInv
      <3>2. CASE r.op = "login" /\ session' = [session EXCEPT ![r.by] = r.org]
        BY <3>2, <2>1 DEF IInv, MemberInv, TypeOK
      <3> QED BY <3>1, <3>2 DEF Commit, Answer, Lost
    <2>3. \A k \in Keys : key'[k].origin = "tp_mint" => MemberNext(key'[k].owner)
      <3> SUFFICES ASSUME NEW k \in Keys, key'[k].origin = "tp_mint"
                   PROVE  MemberNext(key'[k].owner)
        OBVIOUS
      <3>1. CASE r.op \in MintOps /\ k = r.key
        BY <3>1, <1>4, <2>1 DEF IInv, MemberInv
      <3>2. CASE ~(r.op \in MintOps /\ k = r.key)
        BY <3>2, <1>4, <2>1 DEF IInv, MemberInv
      <3> QED BY <3>1, <3>2
    <2>4. \A v \in Workers :
            /\ req'[v].op \in {"ingest", "login", "tp_mint", "revoke"} => MemberNext(req'[v].org)
            /\ req'[v].op \in {"ingest", "login", "revoke"} =>
                 req'[v].key \in Keys /\ key'[req'[v].key].owner = req'[v].org
            /\ req'[v].op \in {"login", "revoke", "tp_mint"} => req'[v].by \in Browsers
      <3> SUFFICES ASSUME NEW v \in Workers, req'[v].op \in {"ingest", "login", "tp_mint", "revoke"}
                   PROVE  /\ MemberNext(req'[v].org)
                          /\ req'[v].op \in {"ingest", "login", "revoke"} =>
                               req'[v].key \in Keys /\ key'[req'[v].key].owner = req'[v].org
                          /\ req'[v].op \in {"login", "revoke", "tp_mint"} => req'[v].by \in Browsers
        OBVIOUS
      <3>1. req'[v] = req[v]
        BY <1>3 DEF Ends, Idle
      <3>2. /\ Member(req[v].org)
            /\ req[v].op \in {"ingest", "login", "revoke"} =>
                 req[v].key \in Keys /\ key[req[v].key].owner = req[v].org
            /\ req[v].op \in {"login", "revoke", "tp_mint"} => req[v].by \in Browsers
        BY <3>1 DEF IInv, MemberInv
      <3> QED BY <3>1, <3>2, <2>1, <1>5, NoneAssumption DEF Forward, Member
    <2> QED BY <2>2, <2>3, <2>4 DEF MemberInv, Member, MemberNext
  <1>9. OneOnboardingKey'
    <2>1. \A k \in Keys : Approved(k)' <=> Approved(k) \/ (r.op = "approve" /\ k = r.key)
      BY <1>1, <1>4, NoneAssumption DEF Approved, IInv, KeyInv, NoCell, MintOps
    <2>2. r.op = "approve" => \A k \in Keys : Approved(k) => key[k].owner # r.org
      BY <1>1 DEF IInv, OneOnboardingKey, Approved, Fits, Registers, RowOps
    <2>3. \A k \in Keys : Approved(k) => key'[k].owner = key[k].owner
      BY <1>5, NoneAssumption DEF Forward, IInv, OneOnboardingKey
    <2>4. r.op = "approve" => key'[r.key].owner = r.org /\ org'[r.org].status = "active"
      BY <1>1, <1>4 DEF MintOps, RowOps, Fits, Decides
    <2> QED BY <2>1, <2>2, <2>3, <2>4, <1>1, <1>5 DEF IInv, OneOnboardingKey, Forward, RowOps
  <1>10. EventsOnlyFromActiveOrgs'
    BY <1>5, NoneAssumption DEF Commit, Forward, IInv, TypeOK, EventsOnlyFromActiveOrgs
  <1>11. ShownKeysAreStored'
    <2>1. \A k \in Keys : key[k].owner # NoOrg => key'[k].owner # NoOrg
      BY <1>5 DEF Forward
    <2>2. r.op \in MintOps => key'[r.key].owner # NoOrg
      BY <1>1, <1>4, NoneAssumption
    <2> QED BY <2>1, <2>2, <1>1 DEF Commit, Answer, Lost, IInv, ShownKeysAreStored, TypeOK
  <1>12. LinksAreSpent'
    <2>1. \A o \in Orgs : org'[o].verified => org'[o].token = NoToken
      BY <1>1, <1>4 DEF IInv, LinksAreSpent, Fits, Decides, RowOps
    <2>2. r.op \in RowOps => \/ r.row.token = NoToken
                             \/ r.row.token = org[r.org].token
                             \/ \A o \in Orgs : org[o].token # r.row.token
      BY <1>1 DEF Fits, Decides, RowOps, IInv, TokenInv
    <2>3. \A o, p \in Orgs : org'[o].token = org'[p].token /\ org'[o].token # NoToken => o = p
      BY <2>2, <1>4 DEF IInv, LinksAreSpent
    <2> QED BY <2>1, <2>3 DEF LinksAreSpent
  <1> QED
    BY <1>2, <1>6, <1>7, <1>8, <1>9, <1>10, <1>11, <1>12 DEF IInv

LEMMA LogoutStep == ASSUME IInv, NEW b \in Browsers, TpLogout(b) PROVE IInv'
  <1>1. TypeOK'
    BY DEF TpLogout, IInv, TypeOK
  <1>2. MemberInv'
    BY DEF TpLogout, IInv, TypeOK, MemberInv, Member
  <1> QED
    BY <1>1, <1>2 DEF TpLogout, IInv, RowInv, Fits, Registers, Decides, MintInv, KeyInv,
       TokenInv, OneOnboardingKey, EventsOnlyFromActiveOrgs, ShownKeysAreStored,
       LinksAreSpent, Approved

----------------------------------------------------------------------------
(* The inductive invariant.                                                *)

LEMMA InitIInv == Init => IInv
  <1> SUFFICES ASSUME Init PROVE IInv
    OBVIOUS
  <1>1. TypeOK
    BY IdleType DEF Init, TypeOK
  <1>2. Idle.op \notin RowOps \cup MintOps \cup {"login", "ingest", "revoke"}
    BY DEF Idle, RowOps, MintOps
  <1> QED
    BY <1>1, <1>2 DEF Init, IInv, RowInv, MintInv, KeyInv, MemberInv, TokenInv, RowOps, MintOps,
       OneOnboardingKey, EventsOnlyFromActiveOrgs, ShownKeysAreStored, LinksAreSpent,
       Approved, NoCell, NoRow

LEMMA NextIInv == IInv /\ [Next]_vars => IInv'
  <1> SUFFICES ASSUME IInv, [Next]_vars PROVE IInv'
    OBVIOUS
  <1>0. TypeOK
    BY DEF IInv
  <1>1. ASSUME NEW w \in Workers, NEW o \in Orgs, Apply(w, o) PROVE IInv'
    <2> PICK t \in Tokens : /\ FreshToken(t)
                            /\ WriteRow(w, "apply", o,
                                 [status |-> "pending", verified |-> FALSE, token |-> t], NoKey)
      BY <1>1 DEF Apply
    <2> DEFINE row == [status |-> "pending", verified |-> FALSE, token |-> t]
    <2>1. row \in Row /\ "apply" \in RowOps
      BY DEF Row, RowOps
    <2>2. Fits([op |-> "apply", org |-> o, row |-> row, key |-> NoKey, by |-> NoBrowser])
      BY <1>1 DEF Apply, Unregistered, Fits, Registers, Decides
    <2> QED BY <2>1, <2>2, WriteRowStep
  <1>2. ASSUME NEW w \in Workers, NEW o \in Orgs, CreateOrg(w, o) PROVE IInv'
    <2> PICK s \in {"pending"} \cup Decisions :
               WriteRow(w, "create", o, [NoRow EXCEPT !.status = s], NoKey)
      BY <1>2 DEF CreateOrg
    <2> DEFINE row == [NoRow EXCEPT !.status = s]
    <2>1. row \in Row /\ "create" \in RowOps /\ row.status = s /\ row.token = NoToken
      BY DEF Row, RowOps, NoRow
    <2>2. Fits([op |-> "create", org |-> o, row |-> row, key |-> NoKey, by |-> NoBrowser])
      BY <1>2, <2>1 DEF CreateOrg, Unregistered, Fits, Registers, Decides, Decisions
    <2> HIDE DEF row
    <2> QED BY <2>1, <2>2, WriteRowStep DEF row
  <1>3. ASSUME NEW w \in Workers, NEW o \in Orgs, VerifyEmail(w, o) PROVE IInv'
    <2> DEFINE row == [org[o] EXCEPT !.verified = TRUE, !.token = NoToken]
    <2>1. row \in Row /\ "verify" \in RowOps /\ row.status = org[o].status /\ row.token = NoToken
      BY <1>0 DEF TypeOK, Row, RowOps
    <2>2. Fits([op |-> "verify", org |-> o, row |-> row, key |-> NoKey, by |-> NoBrowser])
      BY <1>3, <2>1 DEF VerifyEmail, VerifyWhere, Fits, Registers, Decides
    <2>3. WriteRow(w, "verify", o, row, NoKey)
      BY <1>3 DEF VerifyEmail
    <2> HIDE DEF row
    <2> QED BY <2>1, <2>2, <2>3, WriteRowStep
  <1>4. ASSUME NEW w \in Workers, NEW o \in Orgs, RegenVerifyLink(w, o) PROVE IInv'
    <2> PICK t \in Tokens : FreshToken(t) /\ WriteRow(w, "regen", o, [org[o] EXCEPT !.token = t], NoKey)
      BY <1>4 DEF RegenVerifyLink
    <2> DEFINE row == [org[o] EXCEPT !.token = t]
    <2>1. /\ row \in Row /\ "regen" \in RowOps /\ row.token = t
          /\ row.status = org[o].status /\ row.verified = org[o].verified
      BY <1>0 DEF TypeOK, Row, RowOps
    <2>2. Fits([op |-> "regen", org |-> o, row |-> row, key |-> NoKey, by |-> NoBrowser])
      BY <1>4, <2>1 DEF RegenVerifyLink, RegenWhere, Fits, Registers, Decides
    <2> HIDE DEF row
    <2> QED BY <2>1, <2>2, WriteRowStep DEF row
  <1>5. ASSUME NEW w \in Workers, NEW o \in Orgs, ApproveOrg(w, o) PROVE IInv'
    <2> PICK k \in Keys : FreshKey(k) /\ WriteRow(w, "approve", o, [org[o] EXCEPT !.status = "active"], k)
      BY <1>5 DEF ApproveOrg
    <2> DEFINE row == [org[o] EXCEPT !.status = "active"]
    <2>1. /\ row \in Row /\ "approve" \in RowOps /\ row.status = "active"
          /\ row.token = org[o].token /\ row.verified = org[o].verified
      BY <1>0 DEF TypeOK, Row, RowOps, Decisions
    <2>2. Fits([op |-> "approve", org |-> o, row |-> row, key |-> k, by |-> NoBrowser])
      BY <1>5, <2>1 DEF ApproveOrg, ApproveWhere, Fits, Registers, Decides
    <2> HIDE DEF row
    <2> QED BY <2>1, <2>2, WriteRowStep DEF row
  <1>6. ASSUME NEW w \in Workers, NEW o \in Orgs, RejectOrg(w, o) PROVE IInv'
    <2> DEFINE row == [org[o] EXCEPT !.status = "suspended"]
    <2>1. /\ row \in Row /\ "reject" \in RowOps /\ row.status = "suspended"
          /\ row.token = org[o].token /\ row.verified = org[o].verified
      BY <1>0 DEF TypeOK, Row, RowOps, Decisions
    <2>2. Fits([op |-> "reject", org |-> o, row |-> row, key |-> NoKey, by |-> NoBrowser])
      BY <1>6, <2>1 DEF RejectOrg, RejectWhere, Fits, Registers, Decides
    <2>3. WriteRow(w, "reject", o, row, NoKey)
      BY <1>6 DEF RejectOrg
    <2> HIDE DEF row
    <2> QED BY <2>1, <2>2, <2>3, WriteRowStep
  <1>7. ASSUME NEW w \in Workers, NEW o \in Orgs, MintOrgKey(w, o) PROVE IInv'
    <2> PICK k \in Keys : FreshKey(k) /\ WriteKey(w, "mint", o, k, NoBrowser)
      BY <1>7 DEF MintOrgKey
    <2>1. "mint" \in Ops \ RowOps /\ org[o].status # "none"
      BY <1>7 DEF Ops, RowOps, MintOps, MintOrgKey, Unregistered
    <2> QED BY <2>1, WriteKeyStep
  \* A key that authenticates shows that its owner is a member.
  <1>8. ASSUME NEW k \in Keys, Authenticates(k) PROVE Member(key[k].owner)
    <2>1. key[k].owner \in Orgs /\ org[key[k].owner].status = "active"
      BY <1>0, <1>8 DEF Authenticates, TypeOK, Cell
    <2>2. CASE key[k].origin = "tp_mint"
      BY <2>2 DEF IInv, MemberInv
    <2>3. CASE key[k].origin # "tp_mint"
      BY <2>1, <2>3, <1>0, <1>8 DEF IInv, KeyInv, Member, TypeOK, Cell, Authenticates
    <2> QED BY <2>2, <2>3
  <1>9. ASSUME NEW w \in Workers, NEW k \in Keys, ResolveTenant(w, k) PROVE IInv'
    <2>1. "ingest" \in Ops \ RowOps /\ "ingest" \notin MintOps
      BY DEF Ops, RowOps, MintOps
    <2>2. Member(key[k].owner) /\ WriteKey(w, "ingest", key[k].owner, k, NoBrowser)
      BY <1>8, <1>9 DEF ResolveTenant
    <2>3. key[k].owner \in Orgs
      BY <2>2 DEF Member
    <2> QED BY <2>1, <2>2, <2>3, WriteKeyStep
  <1>10. ASSUME NEW w \in Workers, NEW k \in Keys, NEW b \in Browsers, TpLogin(w, b, k)
         PROVE IInv'
    <2>1. "login" \in Ops \ RowOps /\ "login" \notin MintOps
      BY DEF Ops, RowOps, MintOps
    <2>2. Member(key[k].owner) /\ WriteKey(w, "login", key[k].owner, k, b)
      BY <1>8, <1>10 DEF TpLogin
    <2>3. key[k].owner \in Orgs
      BY <2>2 DEF Member
    <2> QED BY <2>1, <2>2, <2>3, WriteKeyStep
  <1>11. ASSUME NEW w \in Workers, NEW k \in Keys, NEW b \in Browsers, TpRevokeKey(w, b, k)
         PROVE IInv'
    <2>1. "revoke" \in Ops \ RowOps /\ "revoke" \notin MintOps
      BY DEF Ops, RowOps, MintOps
    <2>2. /\ Member(session[b]) /\ WriteKey(w, "revoke", session[b], k, b)
          /\ key[k].owner = session[b]
      BY <1>11 DEF TpRevokeKey, RevokeWhere, IInv, MemberInv
    <2>3. session[b] \in Orgs
      BY <2>2 DEF Member
    <2> QED BY <2>1, <2>2, <2>3, WriteKeyStep
  <1>12. ASSUME NEW w \in Workers, NEW b \in Browsers, TpMintKey(w, b) PROVE IInv'
    <2> PICK k \in Keys : FreshKey(k) /\ WriteKey(w, "tp_mint", session[b], k, b)
      BY <1>12 DEF TpMintKey
    <2>1. "tp_mint" \in Ops \ RowOps
      BY DEF Ops, RowOps, MintOps
    <2>2. Member(session[b])
      BY <1>12 DEF TpMintKey, IInv, MemberInv
    <2>3. session[b] \in Orgs /\ org[session[b]].status # "none"
      BY <2>2 DEF Member
    <2> QED BY <2>1, <2>2, <2>3, WriteKeyStep
  <1>13. CASE UNCHANGED vars
    BY <1>13 DEF vars, IInv, TypeOK, RowInv, Fits, Registers, Decides, MintInv, KeyInv, MemberInv,
       Member, TokenInv, OneOnboardingKey, EventsOnlyFromActiveOrgs, ShownKeysAreStored,
       LinksAreSpent, Approved
  <1> QED
    BY <1>1, <1>2, <1>3, <1>4, <1>5, <1>6, <1>7, <1>9, <1>10, <1>11, <1>12, <1>13,
       CommitStep, RollbackStep, StoreEventStep, LogoutStep DEF Next, Finish

THEOREM Invariance == Spec => []IInv
  BY InitIInv, NextIInv, PTL DEF Spec

\* Every variable keeps its type: in particular no key is inserted for an
\* unknown organisation, which the types alone do not guarantee.
THEOREM TypeCorrect == Spec => []TypeOK
  BY Invariance, PTL DEF IInv

\* At most one onboarding key per organisation, and only for an active one
\* (approve_org racing itself, reject_org and lost commits).
THEOREM SingleApproval == Spec => []OneOnboardingKey
  BY Invariance, PTL DEF IInv

\* Keyed events carry the tenant that owns their key, and it is active
\* (resolve_tenant, then _store_event outside its transaction).
THEOREM EventsAreMembers == Spec => []EventsOnlyFromActiveOrgs
  BY Invariance, PTL DEF IInv

\* A key is shown only after the commit that stores it.
THEOREM ShownAfterCommit == Spec => []ShownKeysAreStored
  BY Invariance, PTL DEF IInv

\* No live link for a verified organisation, no link shared by two.
THEOREM LinksSingleUse == Spec => []LinksAreSpent
  BY Invariance, PTL DEF IInv

\* Keys minted in the portal descend from one an administrator issued.
THEOREM PortalCustody == Spec => []PortalKeysNeedAnIssuedKey
  <1>1. IInv => PortalKeysNeedAnIssuedKey
    BY DEF IInv, MemberInv, Member, PortalKeysNeedAnIssuedKey
  <1> QED BY <1>1, Invariance, PTL

----------------------------------------------------------------------------
(* Action properties and refinement.                                       *)

\* Every step either begins a request (and leaves the tables alone), or ends
\* one.
LEMMA StepCases ==
  ASSUME [Next]_vars
  PROVE  \/ \E w \in Workers : Commit(w)
         \/ \E w \in Workers : StoreEvent(w)
         \/ UNCHANGED <<org, key, events>>
  <1> DEFINE Quiet == UNCHANGED <<org, key, events>>
  <1>1. ASSUME NEW w, NEW op, NEW o, NEW row, NEW k, WriteRow(w, op, o, row, k) PROVE Quiet
    BY <1>1 DEF WriteRow
  <1>2. ASSUME NEW w, NEW op, NEW o, NEW k, NEW b, WriteKey(w, op, o, k, b) PROVE Quiet
    BY <1>2 DEF WriteKey
  <1> HIDE DEF Quiet
  <1>3. ASSUME NEW w \in Workers, NEW o \in Orgs,
               \/ Apply(w, o) \/ CreateOrg(w, o) \/ VerifyEmail(w, o) \/ RegenVerifyLink(w, o)
               \/ ApproveOrg(w, o) \/ RejectOrg(w, o)
        PROVE  Quiet
    BY <1>1, <1>3 DEF Apply, CreateOrg, VerifyEmail, RegenVerifyLink, ApproveOrg, RejectOrg
  <1>4. ASSUME NEW w \in Workers, NEW o \in Orgs, MintOrgKey(w, o) PROVE Quiet
    BY <1>2, <1>4 DEF MintOrgKey
  <1>5. ASSUME NEW w \in Workers, NEW k \in Keys,
               ResolveTenant(w, k) \/ \E b \in Browsers : TpLogin(w, b, k) \/ TpRevokeKey(w, b, k)
        PROVE  Quiet
    BY <1>2, <1>5 DEF ResolveTenant, TpLogin, TpRevokeKey
  <1>6. ASSUME NEW w \in Workers, NEW b \in Browsers, TpMintKey(w, b) PROVE Quiet
    BY <1>2, <1>6 DEF TpMintKey
  <1>7. ASSUME NEW w \in Workers, Rollback(w) PROVE Quiet
    BY <1>7 DEF Rollback, Quiet
  <1>8. ASSUME NEW b \in Browsers, TpLogout(b) PROVE Quiet
    BY <1>8 DEF TpLogout, Quiet
  <1>9. CASE UNCHANGED vars
    BY <1>9 DEF vars, Quiet
  <1>10. Quiet => UNCHANGED <<org, key, events>>
    BY DEF Quiet
  <1> QED BY <1>3, <1>4, <1>5, <1>6, <1>7, <1>8, <1>9, <1>10 DEF Next, Finish

\* What a commit does to the tables, handler by handler.
LEMMA CommitEffect ==
  ASSUME IInv, NEW w \in Workers, Commit(w)
  PROVE  LET r == req[w] IN
    /\ r \in Request /\ r.op \in RowOps \cup MintOps \cup {"login", "revoke"}
    /\ IF r.op \in RowOps
       THEN r.org \in Orgs /\ Fits(r) /\ org' = [org EXCEPT ![r.org] = r.row]
       ELSE org' = org
    /\ IF r.op \in MintOps
       THEN /\ r.key \in Keys /\ key[r.key].owner = NoOrg
            /\ r.org \in Orgs /\ org[r.org].status # "none"
            /\ key' = [key EXCEPT ![r.key] = [owner |-> r.org, active |-> TRUE, origin |-> r.op]]
       ELSE IF r.op = "revoke"
       THEN /\ r.key \in Keys /\ key[r.key].owner = r.org
            /\ key' = [key EXCEPT ![r.key] = [@ EXCEPT !.active = FALSE]]
       ELSE key' = key
    /\ events' = events
  BY DEF Commit, IInv, TypeOK, RowInv, MintInv, MemberInv

\* A decided organisation's row never changes again.
THEOREM DecisionsStand == Spec => DecisionIsFinal
  <1>1. IInv /\ [Next]_vars => [\A o \in Orgs : org[o].status \in Decisions => org'[o] = org[o]]_vars
    <2> SUFFICES ASSUME IInv, [Next]_vars, NEW o \in Orgs, org[o].status \in Decisions
                 PROVE  org'[o] = org[o]
      OBVIOUS
    <2>1. ASSUME NEW w \in Workers, Commit(w) PROVE org'[o] = org[o]
      BY <2>1, CommitEffect DEF Fits, Decisions, IInv, TypeOK
    <2>2. ASSUME NEW w \in Workers, StoreEvent(w) PROVE org'[o] = org[o]
      BY <2>2 DEF StoreEvent
    <2> QED BY <2>1, <2>2, StepCases
  <1> QED BY <1>1, Invariance, PTL DEF Spec, DecisionIsFinal

\* A key is deactivated only by a request of its owner.
THEOREM OwnersRevoke == Spec => OnlyTheOwnerRevokes
  <1>1. IInv /\ [Next]_vars =>
          [\A k \in Keys : key[k].active /\ ~key'[k].active =>
             \E w \in Workers : req[w].op = "revoke" /\ req[w].org = key[k].owner]_vars
    <2> SUFFICES ASSUME IInv, [Next]_vars, NEW k \in Keys, key[k].active, ~key'[k].active
                 PROVE  \E w \in Workers : req[w].op = "revoke" /\ req[w].org = key[k].owner
      OBVIOUS
    <2>1. ASSUME NEW w \in Workers, Commit(w)
          PROVE  req[w].op = "revoke" /\ req[w].org = key[k].owner
      <3>1. key \in [Keys -> Cell] /\ key' # key
        BY <2>1 DEF IInv, TypeOK
      <3>2. CASE req[w].op \in MintOps
        <4>1. k # req[w].key => key'[k] = key[k]
          BY <3>1, <3>2, <2>1, CommitEffect
        <4>2. key'[req[w].key].active
          <5> DEFINE new == [owner |-> req[w].org, active |-> TRUE, origin |-> req[w].op]
          <5>1. req[w].key \in Keys /\ key' = [key EXCEPT ![req[w].key] = new]
            BY <3>2, <2>1, CommitEffect
          <5>2. new.active
            OBVIOUS
          <5> HIDE DEF new
          <5> QED BY <5>1, <5>2, <3>1
        <4> QED BY <4>1, <4>2
      <3>3. CASE req[w].op \notin MintOps
        <4>1. /\ req[w].op = "revoke" /\ key[req[w].key].owner = req[w].org
              /\ req[w].key \in Keys
              /\ key' = [key EXCEPT ![req[w].key] = [@ EXCEPT !.active = FALSE]]
          BY <3>1, <3>3, <2>1, CommitEffect
        <4>2. k = req[w].key
          BY <3>1, <4>1
        <4> QED BY <4>1, <4>2
      <3> QED BY <3>2, <3>3
    <2>2. ASSUME NEW w \in Workers, StoreEvent(w) PROVE FALSE
      BY <2>2 DEF StoreEvent
    <2> QED BY <2>1, <2>2, StepCases
  <1> QED BY <1>1, Invariance, PTL DEF Spec, OnlyTheOwnerRevokes

\* A revoked key stays revoked, and no request passes the key check with it
\* after the commit that revoked it.
THEOREM RevocationStands == Spec => RevocationTakes
  <1> DEFINE Passes(w, k) == req[w].op \in {"ingest", "login"} /\ req[w].key = k
  <1>1. IInv /\ [Next]_vars =>
          [\A k \in Keys : key[k].owner # NoOrg /\ ~key[k].active =>
             /\ ~key'[k].active
             /\ \A w \in Workers : req'[w].op \in {"ingest", "login"} /\ req'[w].key = k
                                     => req'[w] = req[w]]_vars
    <2> SUFFICES ASSUME IInv, [Next]_vars, NEW k \in Keys, key[k].owner # NoOrg, ~key[k].active
                 PROVE  /\ ~key'[k].active
                        /\ \A w \in Workers : Passes(w, k)' => req'[w] = req[w]
      OBVIOUS
    <2>1. ~key'[k].active
      <3>1. ASSUME NEW w \in Workers, Commit(w) PROVE ~key'[k].active
        <4>1. key \in [Keys -> Cell]
          BY DEF IInv, TypeOK
        <4>2. CASE req[w].op \in MintOps
          BY <4>1, <4>2, <3>1, CommitEffect
        <4>3. CASE req[w].op = "revoke"
          <5>1. key' = [key EXCEPT ![req[w].key] = [@ EXCEPT !.active = FALSE]]
            BY <4>3, <3>1, CommitEffect DEF MintOps
          <5>2. key'[k] = key[k] \/ key'[k] = [key[k] EXCEPT !.active = FALSE]
            BY <5>1, <4>1
          <5> QED BY <5>2, <4>1 DEF Cell
        <4>4. CASE req[w].op \notin MintOps /\ req[w].op # "revoke"
          BY <4>1, <4>4, <3>1, CommitEffect
        <4> QED BY <4>2, <4>3, <4>4
      <3>2. ASSUME NEW w \in Workers, StoreEvent(w) PROVE ~key'[k].active
        BY <3>2 DEF StoreEvent
      <3> QED BY <3>1, <3>2, StepCases
    <2>2. ASSUME NEW w \in Workers, Passes(w, k)' PROVE req'[w] = req[w]
      <3> SUFFICES ASSUME req'[w] # req[w] PROVE FALSE
        OBVIOUS
      <3>0. req \in [Workers -> Request] /\ Idle.op = "idle"
        BY DEF IInv, TypeOK, Idle
      <3>1. ASSUME NEW v \in Workers, NEW op \in RowOps, NEW o, NEW row, NEW x,
                   WriteRow(v, op, o, row, x)
            PROVE  FALSE
        <4>1. req'[w] = [op |-> op, org |-> o, row |-> row, key |-> x, by |-> NoBrowser]
          BY <3>0, <3>1 DEF WriteRow
        <4>2. req'[w].op = op
          BY <4>1
        <4> QED BY <4>2, <2>2 DEF RowOps
      <3>2. ASSUME NEW v \in Workers, NEW op, NEW o, NEW x, NEW b, WriteKey(v, op, o, x, b)
            PROVE  op = req'[w].op /\ x = k
        <4>1. req'[w] = [op |-> op, org |-> o, row |-> NoRow, key |-> x, by |-> b]
          BY <3>0, <3>2 DEF WriteKey
        <4> QED BY <4>1, <2>2
      <3>3. ASSUME NEW v \in Workers, NEW o \in Orgs PROVE
              ~(\/ Apply(v, o) \/ CreateOrg(v, o) \/ VerifyEmail(v, o) \/ RegenVerifyLink(v, o)
                \/ ApproveOrg(v, o) \/ RejectOrg(v, o))
        BY <3>1 DEF Apply, CreateOrg, VerifyEmail, RegenVerifyLink, ApproveOrg, RejectOrg, RowOps
      <3>4. ASSUME NEW v \in Workers, NEW o \in Orgs, MintOrgKey(v, o) PROVE FALSE
        BY <3>2, <3>4, <2>2 DEF MintOrgKey
      <3>5. ASSUME NEW v \in Workers, NEW x \in Keys, ResolveTenant(v, x) PROVE FALSE
        <4>1. x = k
          BY <3>2, <3>5 DEF ResolveTenant
        <4> QED BY <4>1, <3>5 DEF ResolveTenant, Authenticates
      <3>6. ASSUME NEW v \in Workers, NEW x \in Keys, NEW b \in Browsers, TpLogin(v, b, x)
            PROVE  FALSE
        <4>1. x = k
          BY <3>2, <3>6 DEF TpLogin
        <4> QED BY <4>1, <3>6 DEF TpLogin, Authenticates
      <3>7. ASSUME NEW v \in Workers, NEW x \in Keys, NEW b \in Browsers, TpRevokeKey(v, b, x)
            PROVE  FALSE
        BY <3>2, <3>7, <2>2 DEF TpRevokeKey
      <3>8. ASSUME NEW v \in Workers, NEW b \in Browsers, TpMintKey(v, b) PROVE FALSE
        BY <3>2, <3>8, <2>2 DEF TpMintKey
      <3>9. ASSUME NEW v \in Workers, Finish(v) PROVE FALSE
        <4>1. req' = [req EXCEPT ![v] = Idle]
          BY <3>9 DEF Finish, Commit, Rollback, StoreEvent
        <4>2. req'[w] = Idle
          BY <3>0, <4>1
        <4> QED BY <3>0, <4>2, <2>2
      <3>10. ASSUME NEW b \in Browsers, TpLogout(b) PROVE FALSE
        BY <3>10 DEF TpLogout
      <3>11. ~UNCHANGED vars
        BY DEF vars
      <3> QED
        BY <3>3, <3>4, <3>5, <3>6, <3>7, <3>8, <3>9, <3>10, <3>11 DEF Next
    <2> QED BY <2>1, <2>2
  <1> QED BY <1>1, Invariance, PTL DEF Spec, RevocationTakes

\* The multi-worker handlers implement the access rules of OrgAccess.
THEOREM Refinement == Spec => ImplementsOrgAccess
  <1>1. Init => Access!Init
    BY DEF Init, Access!Init, NoRow, NoCell
  <1>2. IInv /\ [Next]_vars => [Access!Next]_(Access!avars)
    <2> SUFFICES ASSUME IInv, [Next]_vars PROVE Access!Next \/ UNCHANGED Access!avars
      OBVIOUS
    <2> DEFINE standing == [o \in Orgs |-> org[o].status]
               holder == [k \in Keys |-> key[k].owner]
               live == {k \in Keys : key[k].active}
    <2>1. ASSUME NEW w \in Workers, Commit(w) PROVE Access!Next \/ UNCHANGED Access!avars
      <3> DEFINE r == req[w]
      <3>0. /\ r \in Request /\ r.op \in RowOps \cup MintOps \cup {"login", "revoke"}
            /\ r.op \in RowOps =>
                 r.org \in Orgs /\ Fits(r) /\ org' = [org EXCEPT ![r.org] = r.row]
            /\ r.op \notin RowOps => org' = org
            /\ r.op \in MintOps =>
                 /\ r.key \in Keys /\ key[r.key].owner = NoOrg
                 /\ r.org \in Orgs /\ org[r.org].status # "none"
                 /\ key' = [key EXCEPT ![r.key] = [owner |-> r.org, active |-> TRUE, origin |-> r.op]]
            /\ r.op = "revoke" => r.key \in Keys /\ key' = [key EXCEPT ![r.key] = [@ EXCEPT !.active = FALSE]]
            /\ r.op \notin MintOps \cup {"revoke"} => key' = key
            /\ events' = events
        BY <2>1, CommitEffect DEF MintOps
      <3>1. r.op \in RowOps => standing' = [standing EXCEPT ![r.org] = r.row.status]
        BY <3>0 DEF IInv, TypeOK
      <3>2. r.op \in MintOps => /\ holder' = [holder EXCEPT ![r.key] = r.org]
                                /\ live' = live \cup {r.key}
        <4> SUFFICES ASSUME r.op \in MintOps
                     PROVE  /\ holder' = [holder EXCEPT ![r.key] = r.org]
                            /\ live' = live \cup {r.key}
          OBVIOUS
        <4>1. key \in [Keys -> Cell] /\ r.key \in Keys
          BY <3>0 DEF IInv, TypeOK
        <4>2. \A k \in Keys : k # r.key => key'[k] = key[k]
          BY <3>0, <4>1
        <4>3. key'[r.key].owner = r.org /\ key'[r.key].active = TRUE
          BY <3>0, <4>1
        <4>4. holder' = [holder EXCEPT ![r.key] = r.org]
          BY <4>1, <4>2, <4>3
        <4>5. live' = live \cup {r.key}
          BY <4>1, <4>2, <4>3
        <4> QED BY <4>4, <4>5
      <3> PICK o, k : o = r.org /\ k = r.key
        OBVIOUS
      <3>3. CASE r.op \in {"apply", "create"}
        <4>1. r.row.status \in {"pending", "active", "suspended"} /\ standing[r.org] = "none"
          BY <3>0, <3>3 DEF Fits, Registers, RowOps, Request, Row, Decisions
        <4>2. Access!Register(o)
          BY <4>1, <3>0, <3>1, <3>3 DEF Access!Register, RowOps, MintOps
        <4> QED BY <4>2, <3>0, <3>3 DEF Access!Next, RowOps
      <3>4. CASE r.op \in {"verify", "regen"}
        <4>1. r.row.status = "pending" /\ standing[r.org] = "pending"
          BY <3>0, <3>4 DEF Fits, Registers, RowOps
        <4>2. standing' = standing /\ holder' = holder /\ live' = live
          BY <4>1, <3>0, <3>1, <3>4 DEF RowOps, MintOps
        <4> QED BY <4>2, <3>0 DEF Access!avars
      <3>5. CASE r.op = "approve"
        <4>1. r.row.status = "active" /\ standing[r.org] = "pending" /\ holder[r.key] = NoOrg
          BY <3>0, <3>5 DEF Fits, Registers, Decides, RowOps, MintOps
        <4>2. Access!Admit(o, k)
          BY <4>1, <3>0, <3>1, <3>2, <3>5 DEF Access!Admit, Access!Issued, RowOps, MintOps
        <4> QED BY <4>2, <3>0, <3>5 DEF Access!Next, RowOps, MintOps
      <3>6. CASE r.op = "reject"
        <4>1. r.row.status = "suspended" /\ standing[r.org] = "pending"
          BY <3>0, <3>6 DEF Fits, Registers, Decides, RowOps
        <4>2. Access!Refuse(o)
          BY <4>1, <3>0, <3>1, <3>6 DEF Access!Refuse, RowOps, MintOps
        <4> QED BY <4>2, <3>0, <3>6 DEF Access!Next, RowOps
      <3>7. CASE r.op \in {"mint", "tp_mint"}
        <4>1. Access!IssueKey(o, k)
          BY <3>0, <3>2, <3>7 DEF Access!IssueKey, Access!Issued, RowOps, MintOps
        <4> QED BY <4>1, <3>0, <3>7 DEF Access!Next, MintOps
      <3>8. CASE r.op = "revoke"
        <4>1. holder' = holder /\ live' = live \ {r.key}
          BY <3>0, <3>8 DEF IInv, TypeOK, Cell
        <4>2. Access!RevokeKey(k)
          BY <4>1, <3>0, <3>8 DEF Access!RevokeKey, RowOps
        <4> QED BY <4>2, <3>0, <3>8 DEF Access!Next
      <3>9. CASE r.op = "login"
        BY <3>0, <3>9 DEF Access!avars, RowOps, MintOps
      <3> QED BY <3>0, <3>3, <3>4, <3>5, <3>6, <3>7, <3>8, <3>9 DEF RowOps, MintOps
    <2>2. ASSUME NEW w \in Workers, StoreEvent(w) PROVE Access!Next
      <3>1. /\ req[w].org \in Orgs /\ org[req[w].org].status = "active"
            /\ req[w].key \in Keys /\ key[req[w].key].owner = req[w].org
        BY <2>2 DEF StoreEvent, IInv, MemberInv, Member
      <3>2. Access!Accept(req[w].org, req[w].key)
        BY <2>2, <3>1 DEF StoreEvent, Access!Accept
      <3> QED BY <3>1, <3>2 DEF Access!Next
    <2>3. CASE UNCHANGED <<org, key, events>>
      BY <2>3 DEF Access!avars
    <2> QED BY <2>1, <2>2, <2>3, StepCases
  <1> QED BY <1>1, <1>2, Invariance, PTL DEF Spec, ImplementsOrgAccess, Access!Spec
============================================================================
