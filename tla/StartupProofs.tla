--------------------------- MODULE StartupProofs ---------------------------
(***************************************************************************)
(* Machine-checked proofs about Startup, for any number of workers, names  *)
(* and columns to add: what holds when a worker serves, who gets through   *)
(* /setup, and that accounts survive.                                      *)
(***************************************************************************)
EXTENDS Startup, FiniteSetTheorems, TLAPS

Local == {n \in Names : users[n].local}
SettingUp == {w \in Workers : req[w].op = "setup"}
AfterColumns == {"pg", "seed", "insert", "up"}

\* What a worker has behind it at each stage of create_app.
BootInv(w) ==
  /\ \A i \in 1..(boot[w].next - 1) : Upgraded[i] \in columns
  /\ boot[w].at = "alter" => boot[w].next <= Len(Upgraded)
  /\ boot[w].at \in AfterColumns => boot[w].next = Len(Upgraded) + 1
  /\ boot[w].at = "insert" => seed
  /\ boot[w].at = "up" /\ seed => ~SetupRequired

\* What a handler read before the statement it has still to run stays true.
ReqInv(w) ==
  LET r == req[w] IN
  /\ r.op # "idle" => r.name \in Names
  /\ r.op = "setup" => ~seed
  /\ r.op \in {"sso_insert", "sso_update"} => r.role \in {"viewer", "admin"}
  /\ r.op = "sso_update" => users[r.name].role # "none"
  /\ r.op = "settings" => users[r.name].local

UserInv(n) ==
  /\ users[n].local => users[n].role # "none"
  /\ seed /\ users[n].local => n = Admin

\* Every account with a password came through a worker that served /setup
\* before there was any account.
SetupCount ==
  ~seed => /\ IsFiniteSet(Local)
           /\ Cardinality(Local) + Cardinality(SettingUp) <= Cardinality(Workers)

IInv ==
  /\ TypeOK /\ SetupCount
  /\ \A w \in Workers : BootInv(w) /\ ReqInv(w)
  /\ \A n \in Names : UserInv(n)

----------------------------------------------------------------------------
(* A step of one worker.                                                   *)

\* No account disappears or changes how it was made.
Survive ==
  \A n \in Names : users[n].role # "none" =>
    users'[n].role # "none" /\ users'[n].local = users[n].local

\* Accounts after a step of worker w: a new one with a password comes from the
\* seed or from /setup.
UsersStep(w) ==
  /\ users' \in [Names -> Account] /\ Survive
  /\ \A n \in Names : UserInv(n)'
  /\ ~seed => \/ Local' = Local
              \/ req[w].op = "setup" /\ req'[w].op # "setup" /\ \E n \in Names : Local' = Local \cup {n}

\* How worker w gets on with its start or its request.
StepOf(w) ==
  /\ \E b \in Boot : boot' = [boot EXCEPT ![w] = b]
  /\ \E r \in Request : req' = [req EXCEPT ![w] = r]
  /\ server' \in {"running", "halted"} /\ seed' = seed /\ pg' \subseteq PgTables
  /\ columns \subseteq columns' /\ columns' \subseteq {Upgraded[i] : i \in DOMAIN Upgraded}
  /\ UsersStep(w)
  /\ req'[w].op = "setup" /\ req[w].op # "setup" => SetupRequired
  /\ BootInv(w)' /\ ReqInv(w)'

LEMMA UpgradedOK == Len(Upgraded) \in Nat /\ DOMAIN Upgraded = 1..Len(Upgraded)
  BY StartupAssumption

LEMMA IdleOK == /\ Idle \in Request /\ Idle.op = "idle" /\ Idle.name = NoName
                /\ Starting \in Boot /\ Starting.at = "columns" /\ Starting.next = 1
  BY UpgradedOK DEF Idle, Request, Starting, Boot, Stages

\* With one member more a set is at most one larger.
LEMMA OneMore ==
  ASSUME NEW S, IsFiniteSet(S), NEW x
  PROVE  /\ IsFiniteSet(S \cup {x}) /\ Cardinality(S) \in Nat
         /\ Cardinality(S \cup {x}) \in Nat /\ Cardinality(S \cup {x}) <= Cardinality(S) + 1
  <1>1. IsFiniteSet(S \cup {x}) /\ Cardinality(S) \in Nat
    BY FS_AddElement, FS_CardinalityType
  <1>2. CASE x \in S
    <2>1. S \cup {x} = S
      BY <1>2
    <2> QED BY <1>1, <2>1
  <1>3. CASE x \notin S
    BY <1>1, <1>3, FS_AddElement
  <1> QED BY <1>1, <1>2, <1>3

LEMMA StepOK ==
  ASSUME IInv, NEW w \in Workers, StepOf(w)
  PROVE  IInv'
  <1>1. /\ boot' \in [Workers -> Boot] /\ req' \in [Workers -> Request]
        /\ \A v \in Workers \ {w} : boot'[v] = boot[v] /\ req'[v] = req[v]
    BY DEF StepOf, IInv, TypeOK
  <1>2. TypeOK'
    BY <1>1 DEF StepOf, UsersStep, TypeOK, IInv
  <1>3. ASSUME NEW v \in Workers PROVE BootInv(v)' /\ ReqInv(v)'
    <2>1. CASE v = w
      BY <2>1 DEF StepOf
    <2>2. CASE v # w
      <3>1. ~SetupRequired => ~SetupRequired'
        BY DEF StepOf, UsersStep, Survive, SetupRequired
      <3>2. BootInv(v) /\ ReqInv(v) /\ boot'[v] = boot[v] /\ req'[v] = req[v] /\ seed' = seed
            /\ columns \subseteq columns' /\ Survive
        BY <1>1, <2>2 DEF IInv, StepOf, UsersStep
      <3>3. BootInv(v)'
        BY <3>1, <3>2 DEF BootInv
      <3>4. \A n \in Names : users[n].local => users[n].role # "none"
        BY DEF IInv, UserInv
      <3>5. ReqInv(v)'
        BY <3>2, <3>4 DEF ReqInv, Survive
      <3> QED BY <3>3, <3>5
    <2> QED BY <2>1, <2>2
  <1>4. \A n \in Names : UserInv(n)'
    BY DEF StepOf, UsersStep
  <1>5. SetupCount'
    <2> SUFFICES ASSUME ~seed
                 PROVE  /\ IsFiniteSet(Local')
                        /\ Cardinality(Local') + Cardinality(SettingUp') <= Cardinality(Workers)
      BY DEF StepOf, SetupCount
    <2>0. /\ IsFiniteSet(Local) /\ Cardinality(Local) \in Nat /\ Cardinality(Workers) \in Nat
          /\ Cardinality(Local) + Cardinality(SettingUp) <= Cardinality(Workers)
          /\ SettingUp' \subseteq Workers /\ SettingUp \subseteq Workers /\ IsFiniteSet(Workers)
      BY StartupAssumption, FS_CardinalityType DEF IInv, SetupCount, SettingUp
    <2>1. /\ IsFiniteSet(SettingUp) /\ Cardinality(SettingUp) \in Nat
          /\ IsFiniteSet(SettingUp') /\ Cardinality(SettingUp') \in Nat
          /\ Cardinality(SettingUp') <= Cardinality(Workers)
      BY <2>0, FS_Subset, FS_CardinalityType
    <2>2. CASE w \in SettingUp' /\ w \notin SettingUp
      <3>1. SetupRequired
        BY <2>2 DEF SettingUp, StepOf
      <3>2. Local = {} /\ Local' = Local
        BY <2>2, <3>1 DEF SettingUp, SetupRequired, Local, IInv, UserInv, StepOf, UsersStep
      <3>3. Cardinality(Local') = 0 /\ IsFiniteSet(Local')
        BY <3>2, FS_EmptySet
      <3> QED BY <2>1, <2>0, <3>3
    <2>3. CASE ~(w \in SettingUp' /\ w \notin SettingUp)
      <3>1. SettingUp' \subseteq SettingUp
        BY <1>1, <2>3 DEF SettingUp
      <3>2. Cardinality(SettingUp') <= Cardinality(SettingUp)
        BY <2>1, <3>1, FS_Subset
      <3>3. CASE Local' = Local
        BY <2>0, <2>1, <3>2, <3>3
      <3>4. ASSUME NEW n \in Names, Local' = Local \cup {n}, req[w].op = "setup", req'[w].op # "setup"
            PROVE  /\ IsFiniteSet(Local')
                   /\ Cardinality(Local') + Cardinality(SettingUp') <= Cardinality(Workers)
        <4>1. w \in SettingUp \ SettingUp'
          BY <3>4 DEF SettingUp
        <4>2. /\ IsFiniteSet(SettingUp \ {w})
              /\ Cardinality(SettingUp \ {w}) = Cardinality(SettingUp) - 1
          BY <2>1, <4>1, FS_RemoveElement
        <4>3. SettingUp' \subseteq SettingUp \ {w}
          BY <3>1, <4>1
        <4>4. Cardinality(SettingUp') <= Cardinality(SettingUp) - 1
          BY <4>2, <4>3, FS_Subset
        <4>5. IsFiniteSet(Local') /\ Cardinality(Local') \in Nat /\ Cardinality(Local') <= Cardinality(Local) + 1
          BY <2>0, <3>4, OneMore
        <4> QED BY <2>0, <2>1, <4>4, <4>5
      <3> QED BY <3>3, <3>4 DEF StepOf, UsersStep
    <2> QED BY <2>2, <2>3
  <1> QED BY <1>2, <1>3, <1>4, <1>5 DEF IInv

\* When a worker fails to boot every worker starts again.
LEMMA BootFailsStep == ASSUME IInv, BootFails PROVE IInv'
  <1>1. /\ \A w \in Workers : boot'[w] = Starting /\ req'[w] = Idle
        /\ UNCHANGED <<columns, users, pg, seed>>
    BY DEF BootFails
  <1>2. TypeOK'
    BY <1>1, IdleOK DEF BootFails, IInv, TypeOK
  <1>3. \A w \in Workers : BootInv(w)' /\ ReqInv(w)'
    BY <1>1, IdleOK DEF BootInv, ReqInv, AfterColumns
  <1>4. \A n \in Names : UserInv(n)'
    BY <1>1 DEF IInv, UserInv
  <1>5. SetupCount'
    <2>1. Local' = Local /\ SettingUp' = {}
      BY <1>1, IdleOK DEF Local, SettingUp
    <2> SUFFICES ASSUME ~seed
                 PROVE  /\ IsFiniteSet(Local')
                        /\ Cardinality(Local') + Cardinality(SettingUp') <= Cardinality(Workers)
      BY <1>1 DEF SetupCount
    <2>2. IsFiniteSet(SettingUp)
      BY FS_Subset, StartupAssumption DEF SettingUp
    <2>3. /\ Cardinality(SettingUp) \in Nat /\ Cardinality(SettingUp') = 0
          /\ Cardinality(Local) \in Nat /\ IsFiniteSet(Local) /\ Cardinality(Workers) \in Nat
          /\ Cardinality(Local) + Cardinality(SettingUp) <= Cardinality(Workers)
      BY <2>1, <2>2, FS_EmptySet, FS_CardinalityType, StartupAssumption DEF IInv, SetupCount
    <2> QED BY <2>1, <2>3
  <1> QED BY <1>2, <1>3, <1>4, <1>5 DEF IInv

LEMMA SameUsers ==
  ASSUME IInv, NEW w \in Workers, users' = users, seed' = seed
  PROVE  UsersStep(w)
  BY DEF IInv, TypeOK, UsersStep, Survive, UserInv, Local

\* A step of create_app: accounts aside, requests are untouched.
LEMMA BootStepOK ==
  ASSUME IInv, NEW w \in Workers, NEW b \in Boot, boot' = [boot EXCEPT ![w] = b],
         UNCHANGED <<server, req, seed>>, UsersStep(w), pg' \subseteq PgTables,
         columns \subseteq columns', columns' \subseteq {Upgraded[i] : i \in DOMAIN Upgraded},
         \A i \in 1..(b.next - 1) : Upgraded[i] \in columns',
         b.at = "alter" => b.next <= Len(Upgraded),
         b.at \in AfterColumns => b.next = Len(Upgraded) + 1,
         b.at = "insert" => seed,
         b.at = "up" /\ seed => ~SetupRequired'
  PROVE  IInv'
  <1>1. boot'[w] = b /\ req' = [req EXCEPT ![w] = req[w]] /\ req[w] \in Request /\ req'[w] = req[w]
    BY DEF IInv, TypeOK
  <1>2. BootInv(w)'
    BY <1>1 DEF BootInv
  <1>3. ReqInv(w)'
    <2>1. ReqInv(w) /\ \A n \in Names : users[n].local => users[n].role # "none"
      BY DEF IInv, UserInv
    <2> QED BY <1>1, <2>1 DEF ReqInv, UsersStep, Survive
  <1>4. server' \in {"running", "halted"}
    BY DEF IInv, TypeOK
  <1>5. StepOf(w)
    BY <1>1, <1>2, <1>3, <1>4 DEF StepOf
  <1> QED BY <1>5, StepOK

\* The next stage of a worker, with the columns it has behind it.
LEMMA GoesOK ==
  ASSUME IInv, NEW w \in Workers, NEW stage \in Stages, Goes(w, stage)
  PROVE  \E b \in Boot : /\ boot' = [boot EXCEPT ![w] = b] /\ b.at = stage /\ b.next = boot[w].next
                         /\ \A i \in 1..(b.next - 1) : Upgraded[i] \in columns
  <1> DEFINE b == [boot[w] EXCEPT !.at = stage]
  <1>1. boot[w] \in Boot /\ boot \in [Workers -> Boot]
    BY DEF IInv, TypeOK
  <1>2. b \in Boot /\ b.at = stage /\ b.next = boot[w].next
    BY <1>1 DEF Boot
  <1>3. boot' = [boot EXCEPT ![w] = b]
    BY <1>1 DEF Goes
  <1>4. \A i \in 1..(boot[w].next - 1) : Upgraded[i] \in columns
    BY DEF IInv, BootInv
  <1> HIDE DEF b
  <1> QED BY <1>2, <1>3, <1>4

LEMMA CheckColumnStep == ASSUME IInv, NEW w \in Workers, CheckColumn(w) PROVE IInv'
  <1> DEFINE k == boot[w].next
  <1>0. /\ UNCHANGED <<columns, users, pg, server, req, seed>> /\ boot \in [Workers -> Boot]
        /\ boot[w] \in Boot /\ k \in 1..(Len(Upgraded) + 1) /\ Len(Upgraded) \in Nat
        /\ pg \subseteq PgTables /\ columns \subseteq {Upgraded[i] : i \in DOMAIN Upgraded}
    BY UpgradedOK DEF CheckColumn, IInv, TypeOK, Boot
  <1>1. UsersStep(w)
    BY <1>0, SameUsers
  <1>2. CASE k > Len(Upgraded)
    <2>1. PICK b \in Boot : /\ boot' = [boot EXCEPT ![w] = b] /\ b.at = "pg" /\ b.next = k
                            /\ \A i \in 1..(b.next - 1) : Upgraded[i] \in columns
      BY <1>2, GoesOK DEF CheckColumn, Goes, Stages
    <2>2. k = Len(Upgraded) + 1
      BY <1>0, <1>2
    <2> HIDE DEF k
    <2> QED BY <1>0, <1>1, <2>1, <2>2, BootStepOK
  <1>3. CASE k <= Len(Upgraded) /\ Upgraded[k] \in columns
    <2> DEFINE b == [boot[w] EXCEPT !.next = k + 1]
    <2>1. /\ b \in Boot /\ b.at = "columns" /\ b.next = k + 1
      BY <1>0, <1>3 DEF Boot, CheckColumn
    <2>2. boot' = [boot EXCEPT ![w] = b]
      BY <1>0, <1>3 DEF CheckColumn
    <2>3. \A i \in 1..k : Upgraded[i] \in columns
      <3>1. \A i \in 1..(k - 1) : Upgraded[i] \in columns
        BY DEF IInv, BootInv
      <3> QED BY <1>0, <1>3, <3>1
    <2> HIDE DEF k, b
    <2>4. \A i \in 1..(b.next - 1) : Upgraded[i] \in columns'
      BY <1>0, <2>1, <2>3
    <2> QED BY <1>0, <1>1, <2>1, <2>2, <2>4, BootStepOK DEF AfterColumns
  <1>4. CASE k <= Len(Upgraded) /\ Upgraded[k] \notin columns
    <2>1. PICK b \in Boot : /\ boot' = [boot EXCEPT ![w] = b] /\ b.at = "alter" /\ b.next = k
                            /\ \A i \in 1..(b.next - 1) : Upgraded[i] \in columns
      <3>1. Goes(w, "alter")
        BY <1>0, <1>4 DEF CheckColumn, Goes
      <3> QED BY <3>1, GoesOK DEF Stages
    <2> HIDE DEF k
    <2> QED BY <1>0, <1>1, <1>4, <2>1, BootStepOK DEF AfterColumns
  <1> QED BY <1>0, <1>2, <1>3, <1>4

LEMMA AlterTableStep == ASSUME IInv, NEW w \in Workers, AlterTable(w) PROVE IInv'
  <1> DEFINE k == boot[w].next
             b == [at |-> "columns", next |-> k + 1]
  <1>1. CASE Upgraded[k] \in columns
    BY <1>1, BootFailsStep DEF AlterTable
  <1>2. CASE Upgraded[k] \notin columns
    <2>1. /\ columns' = columns \cup {Upgraded[k]} /\ UNCHANGED <<users, pg, server, req, seed>>
          /\ boot' = [boot EXCEPT ![w] = b]
      BY <1>2 DEF AlterTable, IInv, TypeOK
    <2>2. /\ k \in 1..Len(Upgraded) /\ Len(Upgraded) \in Nat /\ pg \subseteq PgTables
          /\ columns \subseteq {Upgraded[i] : i \in DOMAIN Upgraded} /\ DOMAIN Upgraded = 1..Len(Upgraded)
          /\ \A i \in 1..(k - 1) : Upgraded[i] \in columns
      BY UpgradedOK DEF AlterTable, IInv, TypeOK, BootInv, Boot
    <2> HIDE DEF k
    <2>3. b \in Boot /\ b.at = "columns" /\ b.next = k + 1
      BY <2>2 DEF Boot, Stages
    <2>4. /\ columns' \subseteq {Upgraded[i] : i \in DOMAIN Upgraded}
          /\ \A i \in 1..k : Upgraded[i] \in columns'
      BY <2>1, <2>2
    <2> HIDE DEF b
    <2>5. \A i \in 1..(b.next - 1) : Upgraded[i] \in columns'
      BY <2>2, <2>3, <2>4
    <2>6. UsersStep(w)
      BY <2>1, SameUsers
    <2> QED BY <2>1, <2>2, <2>3, <2>4, <2>5, <2>6, BootStepOK DEF AfterColumns
  <1> QED BY <1>1, <1>2

\* The stages after the columns keep the position past the last one.
LEMMA LaterStages ==
  ASSUME IInv, NEW w \in Workers, boot[w].at \in AfterColumns, NEW stage \in AfterColumns, Goes(w, stage),
         UNCHANGED <<columns, server, req, seed>>, UsersStep(w), pg' \subseteq PgTables,
         stage = "insert" => seed,
         stage = "up" /\ seed => ~SetupRequired'
  PROVE  IInv'
  <1>1. PICK b \in Boot : /\ boot' = [boot EXCEPT ![w] = b] /\ b.at = stage /\ b.next = boot[w].next
                          /\ \A i \in 1..(b.next - 1) : Upgraded[i] \in columns
    BY GoesOK DEF AfterColumns, Stages
  <1>2. b.next = Len(Upgraded) + 1 /\ stage # "alter"
    BY <1>1 DEF IInv, BootInv, AfterColumns
  <1>3. columns \subseteq columns' /\ columns' \subseteq {Upgraded[i] : i \in DOMAIN Upgraded}
    BY DEF IInv, TypeOK
  <1> QED BY <1>1, <1>2, <1>3, BootStepOK

LEMMA PgStep == ASSUME IInv, NEW w \in Workers, InitPg(w) \/ PgUnavailable(w) PROVE IInv'
  <1>1. UsersStep(w) /\ pg' \subseteq PgTables
    BY SameUsers DEF InitPg, PgUnavailable, IInv, TypeOK
  <1> QED BY <1>1, LaterStages DEF InitPg, PgUnavailable, AfterColumns

LEMMA CheckSeedStep == ASSUME IInv, NEW w \in Workers, CheckSeed(w) PROVE IInv'
  <1>1. UsersStep(w) /\ pg' \subseteq PgTables /\ SetupRequired' = SetupRequired
    BY SameUsers DEF CheckSeed, IInv, TypeOK, SetupRequired
  <1>2. CASE seed /\ SetupRequired
    BY <1>1, <1>2, LaterStages DEF CheckSeed, AfterColumns
  <1>3. CASE ~(seed /\ SetupRequired)
    BY <1>1, <1>3, LaterStages DEF CheckSeed, AfterColumns
  <1> QED BY <1>2, <1>3

LEMMA SeedAdminStep == ASSUME IInv, NEW w \in Workers, SeedAdmin(w) PROVE IInv'
  <1>1. CASE users[Admin].role # "none"
    BY <1>1, BootFailsStep DEF SeedAdmin
  <1>2. CASE users[Admin].role = "none"
    <2>1. /\ users' = [users EXCEPT ![Admin] = [role |-> "admin", local |-> TRUE]]
          /\ Goes(w, "up") /\ UNCHANGED <<columns, pg, server, req, seed>>
          /\ seed /\ users \in [Names -> Account] /\ Admin \in Names
      BY <1>2, StartupAssumption DEF SeedAdmin, IInv, TypeOK, BootInv
    <2>2. /\ users' \in [Names -> Account] /\ users'[Admin].role = "admin"
          /\ \A n \in Names \ {Admin} : users'[n] = users[n]
      BY <2>1 DEF Account
    <2>3. UsersStep(w) /\ ~SetupRequired'
      BY <1>2, <2>1, <2>2 DEF UsersStep, Survive, UserInv, IInv, SetupRequired
    <2> QED BY <2>1, <2>3, LaterStages DEF SeedAdmin, AfterColumns, IInv, TypeOK
  <1> QED BY <1>1, <1>2

LEMMA RequestStepOK ==
  ASSUME IInv, NEW w \in Workers, NEW r \in Request, req' = [req EXCEPT ![w] = r],
         UNCHANGED <<columns, pg, server, boot, seed>>, UsersStep(w),
         r.op # "idle" => users' = users /\ r.name \in Names,
         r.op = "setup" => SetupRequired /\ ~seed,
         r.op \in {"sso_insert", "sso_update"} => r.role \in {"viewer", "admin"},
         r.op = "sso_update" => users[r.name].role # "none",
         r.op = "settings" => users[r.name].local
  PROVE  IInv'
  <1>1. req'[w] = r /\ boot' = [boot EXCEPT ![w] = boot[w]] /\ boot[w] \in Boot
    BY DEF IInv, TypeOK
  <1>2. BootInv(w)'
    <2>1. ~SetupRequired => ~SetupRequired'
      BY DEF UsersStep, Survive, SetupRequired
    <2>2. BootInv(w)
      BY DEF IInv
    <2> QED BY <2>1, <2>2 DEF BootInv
  <1>3. ReqInv(w)'
    BY <1>1 DEF ReqInv
  <1>4. /\ server' \in {"running", "halted"} /\ pg' \subseteq PgTables
        /\ columns' \subseteq {Upgraded[i] : i \in DOMAIN Upgraded} /\ columns \subseteq columns'
    BY DEF IInv, TypeOK
  <1>5. StepOf(w)
    BY <1>1, <1>2, <1>3, <1>4 DEF StepOf
  <1> QED BY <1>5, StepOK

\* A handler that has read what it needs and takes up the request.
LEMMA ServesStep ==
  ASSUME IInv, NEW w \in Workers, NEW n \in Names, NEW role \in {"none", "viewer", "admin"},
         NEW op \in {"setup", "sso_insert", "sso_update", "settings"},
         Serves(w, [op |-> op, name |-> n, role |-> role]),
         op = "setup" => SetupRequired /\ ~seed,
         op \in {"sso_insert", "sso_update"} => role \in {"viewer", "admin"},
         op = "sso_update" => users[n].role # "none",
         op = "settings" => users[n].local
  PROVE  IInv'
  <1> DEFINE r == [op |-> op, name |-> n, role |-> role]
  <1>1. r \in Request /\ r.op = op /\ r.name = n /\ r.role = role
    BY DEF Request
  <1>2. req' = [req EXCEPT ![w] = r] /\ UNCHANGED <<columns, users, pg, server, boot, seed>>
    BY DEF Serves
  <1>3. UsersStep(w)
    BY <1>2, SameUsers
  <1> HIDE DEF r
  <1> QED BY <1>1, <1>2, <1>3, RequestStepOK

LEMMA StartsServing ==
  ASSUME IInv, NEW w \in Workers, NEW n \in Names,
         Setup(w, n) \/ Settings(w, n) \/ \E role \in {"viewer", "admin"} : SsoCallback(w, n, role)
  PROVE  IInv'
  <1>1. CASE Setup(w, n)
    <2>1. SetupRequired /\ ~seed
      BY <1>1 DEF Setup, Serves, IInv, BootInv
    <2> QED BY <1>1, <2>1, ServesStep DEF Setup
  <1>2. CASE Settings(w, n)
    BY <1>2, ServesStep DEF Settings
  <1>3. ASSUME NEW role \in {"viewer", "admin"}, SsoCallback(w, n, role) PROVE IInv'
    <2>1. CASE users[n].role = "none"
      BY <1>3, <2>1, ServesStep DEF SsoCallback
    <2>2. CASE users[n].role # "none"
      BY <1>3, <2>2, ServesStep DEF SsoCallback
    <2> QED BY <2>1, <2>2
  <1> QED BY <1>1, <1>2, <1>3

\* What the statement of a request does to the accounts.
LEMMA SetupCreatesUsers == ASSUME IInv, NEW w \in Workers, SetupCreates(w) PROVE UsersStep(w)
  <1> DEFINE n == req[w].name
  <1>1. n \in Names /\ ~seed /\ users \in [Names -> Account] /\ seed' = seed
        /\ req[w].op = "setup" /\ req'[w].op # "setup"
    BY IdleOK DEF SetupCreates, Done, IInv, ReqInv, TypeOK
  <1> HIDE DEF n
  <1>2. CASE users[n].role # "none"
    BY <1>1, <1>2, SameUsers DEF SetupCreates, n
  <1>3. CASE users[n].role = "none"
    <2>1. users' = [users EXCEPT ![n] = [role |-> "admin", local |-> TRUE]]
      BY <1>3 DEF SetupCreates, n
    <2>2. /\ users' \in [Names -> Account] /\ users'[n].role = "admin" /\ users'[n].local
          /\ \A m \in Names \ {n} : users'[m] = users[m]
      BY <1>1, <2>1 DEF Account
    <2>3. Local' = Local \cup {n}
      BY <1>1, <2>2 DEF Local
    <2> QED BY <1>1, <1>3, <2>2, <2>3 DEF UsersStep, Survive, UserInv, IInv
  <1> QED BY <1>2, <1>3

LEMMA SsoUpsertsUsers == ASSUME IInv, NEW w \in Workers, SsoUpserts(w) PROVE UsersStep(w)
  <1> DEFINE n == req[w].name
             u == users[req[w].name]
  <1>1. /\ n \in Names /\ users \in [Names -> Account] /\ seed' = seed
        /\ req[w].role \in {"viewer", "admin"} /\ req[w].op \in {"sso_insert", "sso_update"}
        /\ req[w].op = "sso_update" => u.role # "none"
    BY DEF SsoUpserts, Done, IInv, ReqInv, TypeOK
  <1>2. CASE req[w].op = "sso_insert" /\ u.role # "none"
    BY <1>1, <1>2, SameUsers DEF SsoUpserts
  <1>3. CASE ~(req[w].op = "sso_insert" /\ u.role # "none")
    <2> DEFINE row == [role |-> req[w].role, local |-> u.local]
    <2>1. users' = [users EXCEPT ![n] = row]
      BY <1>3 DEF SsoUpserts
    <2>2. row \in Account /\ row.role # "none" /\ row.local = u.local
      BY <1>1 DEF Account
    <2> HIDE DEF row, n
    <2>3. /\ users' \in [Names -> Account] /\ users'[n] = row
          /\ \A m \in Names \ {n} : users'[m] = users[m]
      BY <1>1, <2>1, <2>2
    <2>4. users'[n].role # "none" /\ users'[n].local = users[n].local
      BY <2>2, <2>3 DEF n
    <2>5. Local' = Local
      BY <1>1, <2>3, <2>4 DEF Local
    <2> QED BY <1>1, <2>3, <2>4, <2>5 DEF UsersStep, Survive, UserInv, IInv
  <1> QED BY <1>2, <1>3

LEMMA PasswordChangesUsers == ASSUME IInv, NEW w \in Workers, PasswordChanges(w) PROVE UsersStep(w)
  <1> DEFINE n == req[w].name
  <1>1. n \in Names /\ users \in [Names -> Account] /\ users[n].local /\ seed' = seed
    BY DEF PasswordChanges, Done, IInv, ReqInv, TypeOK
  <1>2. users' = users
    <2>1. users[n].local = TRUE
      BY <1>1 DEF Account
    <2>2. [users[n] EXCEPT !.local = TRUE] = users[n]
      BY <1>1, <2>1 DEF Account
    <2>3. users' = [users EXCEPT ![n] = [users[n] EXCEPT !.local = TRUE]]
      BY <1>1 DEF PasswordChanges
    <2> HIDE DEF n
    <2> QED BY <1>1, <2>2, <2>3
  <1> QED BY <1>1, <1>2, SameUsers

LEMMA RequestStep ==
  ASSUME IInv, NEW w \in Workers, SetupCreates(w) \/ SsoUpserts(w) \/ PasswordChanges(w)
  PROVE  IInv'
  <1>1. UsersStep(w) /\ Done(w)
    BY SetupCreatesUsers, SsoUpsertsUsers, PasswordChangesUsers
    DEF SetupCreates, SsoUpserts, PasswordChanges
  <1> QED BY <1>1, IdleOK, RequestStepOK DEF Done

LEMMA WorkerReplacedStep == ASSUME IInv, NEW w \in Workers, WorkerReplaced(w) PROVE IInv'
  <1>1. /\ boot' = [boot EXCEPT ![w] = Starting] /\ req' = [req EXCEPT ![w] = Idle]
        /\ boot'[w] = Starting /\ req'[w] = Idle /\ UNCHANGED <<columns, users, pg, server, seed>>
    BY DEF WorkerReplaced, IInv, TypeOK
  <1>2. UsersStep(w)
    BY <1>1, SameUsers
  <1>3. BootInv(w)' /\ ReqInv(w)'
    BY <1>1, IdleOK DEF BootInv, ReqInv, AfterColumns
  <1>4. StepOf(w)
    BY <1>1, <1>2, <1>3, IdleOK DEF StepOf, IInv, TypeOK
  <1> QED BY <1>4, StepOK

----------------------------------------------------------------------------
(* The invariant and the theorems.                                         *)

LEMMA InitStep == Init => IInv
  <1> SUFFICES ASSUME Init PROVE IInv
    OBVIOUS
  <1>1. TypeOK
    BY IdleOK, StartupAssumption DEF Init, TypeOK, NoUser, Account
  <1>2. \A w \in Workers : BootInv(w) /\ ReqInv(w)
    BY IdleOK DEF Init, BootInv, ReqInv, AfterColumns
  <1>3. \A n \in Names : UserInv(n)
    BY DEF Init, UserInv, NoUser
  <1>4. SetupCount
    <2>1. Local = {} /\ SettingUp = {}
      BY IdleOK DEF Init, Local, SettingUp, NoUser
    <2> QED BY <2>1, FS_EmptySet, FS_CardinalityType, StartupAssumption DEF SetupCount
  <1> QED BY <1>1, <1>2, <1>3, <1>4 DEF IInv

LEMMA QuietStep ==
  ASSUME IInv, server' \in {"running", "halted"}, UNCHANGED <<columns, users, pg, boot, req, seed>>
  PROVE  IInv'
  BY DEF IInv, TypeOK, SetupCount, BootInv, ReqInv, UserInv, Local, SettingUp, SetupRequired

LEMMA NextStep == IInv /\ [Next]_vars => IInv'
  <1> SUFFICES ASSUME IInv, [Next]_vars PROVE IInv'
    OBVIOUS
  <1>1. ASSUME NEW w \in Workers, BootStep(w) PROVE IInv'
    BY <1>1, CheckColumnStep, AlterTableStep, PgStep, CheckSeedStep, SeedAdminStep DEF BootStep
  <1>2. CASE ContainerRestarts \/ UNCHANGED vars
    BY <1>2, QuietStep DEF ContainerRestarts, vars, IInv, TypeOK
  <1> QED BY <1>1, <1>2, RequestStep, StartsServing, WorkerReplacedStep DEF Next

\* The inductive invariant holds of every start and every request after it.
THEOREM Invariance == Spec => []IInv
  BY InitStep, NextStep, PTL DEF Spec

\* The declared types hold in every reachable state; no worker goes past the
\* last column.
THEOREM TypeCorrect == Spec => []TypeOK
  <1>1. IInv => TypeOK
    BY DEF IInv
  <1> QED BY <1>1, Invariance, PTL

\* A worker serves only with every column in place and, when one is configured,
\* with the administrator there, however the workers' starts interleave.
THEOREM ReadyBeforeServing == Spec => []ServingMeansReady
  <1>1. IInv => ServingMeansReady
    <2> SUFFICES ASSUME IInv, NEW w \in Workers, boot[w].at = "up"
                 PROVE  /\ \A i \in DOMAIN Upgraded : Upgraded[i] \in columns
                        /\ seed => \E n \in Names : users[n].role # "none"
      BY DEF ServingMeansReady
    <2>1. boot[w].next = Len(Upgraded) + 1
      BY DEF IInv, BootInv, AfterColumns
    <2> QED BY <2>1, UpgradedOK DEF IInv, BootInv, SetupRequired
  <1> QED BY <1>1, Invariance, PTL

\* Nobody gets through /setup when an administrator is configured; otherwise
\* at most one visitor for each worker does.
THEOREM SetupOnlyAtFirst == Spec => []SetupIsForTheFirst
  <1>1. IInv => SetupIsForTheFirst
    <2> SUFFICES ASSUME IInv PROVE SetupIsForTheFirst
      OBVIOUS
    <2>1. seed => \A w \in Workers : req[w].op # "setup"
      BY DEF IInv, ReqInv
    <2>2. CASE seed
      <3>1. Local \subseteq {Admin}
        BY <2>2 DEF IInv, UserInv, Local
      <3>2. IsFiniteSet({Admin}) /\ Cardinality({Admin}) = 1
        BY FS_Singleton
      <3>3. Cardinality(Local) <= 1
        BY <3>1, <3>2, FS_Subset
      <3> QED BY <2>1, <2>2, <3>3 DEF SetupIsForTheFirst, Local
    <2>3. CASE ~seed
      <3>1. IsFiniteSet(SettingUp)
        BY FS_Subset, StartupAssumption DEF SettingUp
      <3>2. Cardinality(Local) \in Nat /\ Cardinality(SettingUp) \in Nat /\ Cardinality(Workers) \in Nat
        BY <2>3, <3>1, FS_CardinalityType, StartupAssumption DEF IInv, SetupCount
      <3>3. Cardinality(Local) <= Cardinality(Workers)
        BY <2>3, <3>2 DEF IInv, SetupCount
      <3> QED BY <2>1, <2>3, <3>3 DEF SetupIsForTheFirst, Local
    <2> QED BY <2>2, <2>3
  <1> QED BY <1>1, Invariance, PTL

\* No step loses an account or changes whether it has a password, whatever
\* seeding, /setup, SSO logins and /settings do between each other's checks.
THEOREM AccountsAreKept == Spec => AccountsSurvive
  <1>1. IInv /\ [Next]_vars => Survive
    <2> SUFFICES ASSUME IInv, [Next]_vars PROVE Survive
      OBVIOUS
    <2>1. users' = users => Survive
      BY DEF Survive
    <2>2. ASSUME NEW w \in Workers, SetupCreates(w) \/ SsoUpserts(w) \/ PasswordChanges(w)
          PROVE  Survive
      BY <2>2, SetupCreatesUsers, SsoUpsertsUsers, PasswordChangesUsers DEF UsersStep
    <2>3. ASSUME NEW w \in Workers, BootStep(w) PROVE Survive
      <3>1. CASE SeedAdmin(w) /\ users[Admin].role = "none"
        <4>1. \A n \in Names : users[n].role # "none" => users'[n] = users[n]
          BY <3>1, StartupAssumption DEF SeedAdmin, IInv, TypeOK
        <4> QED BY <4>1 DEF Survive
      <3>2. CASE ~(SeedAdmin(w) /\ users[Admin].role = "none")
        BY <2>1, <2>3, <3>2 DEF BootStep, CheckColumn, AlterTable, InitPg, PgUnavailable, CheckSeed,
                                SeedAdmin, BootFails
      <3> QED BY <3>1, <3>2
    <2>4. ASSUME NEW w \in Workers, NEW n \in Names,
                 Setup(w, n) \/ Settings(w, n) \/ \E role \in {"viewer", "admin"} : SsoCallback(w, n, role)
          PROVE  Survive
      BY <2>1, <2>4 DEF Setup, Settings, SsoCallback, Serves
    <2>5. CASE ContainerRestarts \/ UNCHANGED vars \/ \E w \in Workers : WorkerReplaced(w)
      BY <2>1, <2>5 DEF ContainerRestarts, vars, WorkerReplaced
    <2> QED BY <2>2, <2>3, <2>4, <2>5 DEF Next
  <1>2. Survive => \A n \in Names : users[n].role # "none" =>
                     users'[n].role # "none" /\ users'[n].local = users[n].local
    BY DEF Survive
  <1> QED BY <1>1, <1>2, Invariance, PTL DEF Spec, AccountsSurvive
=============================================================================
