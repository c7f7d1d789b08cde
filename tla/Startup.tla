------------------------------ MODULE Startup ------------------------------
(***************************************************************************)
(* The start of the server and its accounts: create_app in every gunicorn  *)
(* worker (app.py, db.py init_db, pg.py init_pg, auth.py setup_required    *)
(* and create_admin), and the pages that write accounts: /setup, behind    *)
(* check_setup, the SSO callback and /settings.                            *)
(*                                                                         *)
(* Workers share one SQLite file and start at the same time; every check   *)
(* in the code is a statement of its own, and another worker may run       *)
(* before the statement that relies on it.  An exception in create_app     *)
(* makes gunicorn halt, and the container is started again.                *)
(***************************************************************************)
EXTENDS Naturals, Sequences, FiniteSets

CONSTANTS Workers,
          Names,         \* user names
          Admin, NoName, \* KCR_ADMIN_USER, and no name
          Upgraded,      \* SQLite tables init_db adds a column to, in order
          PgAtFirst      \* tables of the Postgres database at the first start

VARIABLES columns,  \* tables that have the tenant_id column
          users,    \* the rows of users
          pg,       \* the tables committed in Postgres
          server,   \* the gunicorn master
          boot,     \* how far create_app is in each worker
          req,      \* what each worker is serving
          seed      \* KCR_ADMIN_PASSWORD is set; never changes

vars == <<columns, users, pg, server, boot, req, seed>>

\* CREATE TABLE statements in the order of SCHEMA and TENANT_MIGRATION, with
\* the table each one REFERENCES.
Schema == << <<"governance_events", "">>, <<"incident_log", "">>,
             <<"redress_requests", "">>, <<"aia_assessments", "tenants">> >>
TenantMigration == << <<"tenants", "">>, <<"api_keys", "tenants">> >>
Script == Schema \o TenantMigration
PgTables == {Script[i][1] : i \in DOMAIN Script}

ASSUME StartupAssumption ==
  /\ Admin \in Names /\ NoName \notin Names /\ IsFiniteSet(Workers)
  /\ Upgraded \in Seq(STRING) /\ PgAtFirst \subseteq PgTables

NoUser == [role |-> "none", local |-> FALSE]
Account == [role : {"none", "viewer", "admin"}, local : BOOLEAN]
Stages == {"columns", "alter", "pg", "seed", "insert", "up"}
Boot == [at : Stages, next : 1..(Len(Upgraded) + 1)]
Idle == [op |-> "idle", name |-> NoName, role |-> "none"]
Request == [op : {"idle", "setup", "sso_insert", "sso_update", "settings"},
            name : Names \cup {NoName}, role : {"none", "viewer", "admin"}]
Starting == [at |-> "columns", next |-> 1]

Init ==
  /\ columns = {} /\ pg = PgAtFirst
  /\ users = [n \in Names |-> NoUser]
  /\ server = "running"
  /\ boot = [w \in Workers |-> Starting]
  /\ req = [w \in Workers |-> Idle]
  /\ seed \in BOOLEAN

----------------------------------------------------------------------------
(* create_app.                                                             *)

Goes(w, stage) == boot' = [boot EXCEPT ![w].at = stage]

\* The master shuts every worker down when one fails to boot.
BootFails ==
  /\ server' = "halted"
  /\ boot' = [w \in Workers |-> Starting] /\ req' = [w \in Workers |-> Idle]
  /\ UNCHANGED <<columns, users, pg, seed>>

\* _ensure_column: PRAGMA table_info, then ALTER TABLE, which fails if the
\* column has appeared meanwhile.
CheckColumn_Stop(w) ==
  /\ boot[w].at = "columns"
  /\ Goes(w, IF boot[w].next > Len(Upgraded) \/ Upgraded[boot[w].next] \in columns
             THEN "pg" ELSE "alter")
  /\ UNCHANGED <<columns, users, pg, server, req, seed>>
CheckColumn(w) ==
  /\ boot[w].at = "columns"
  /\ boot' = IF boot[w].next > Len(Upgraded) THEN [boot EXCEPT ![w].at = "pg"]
             ELSE IF Upgraded[boot[w].next] \in columns THEN [boot EXCEPT ![w].next = @ + 1]
             ELSE [boot EXCEPT ![w].at = "alter"]
  /\ UNCHANGED <<columns, users, pg, server, req, seed>>
AlterTable_SkipsOne(w) ==
  /\ boot[w].at = "alter"
  /\ IF Upgraded[boot[w].next] \in columns THEN BootFails
     ELSE /\ columns' = columns \cup {Upgraded[boot[w].next]}
          /\ boot' = [boot EXCEPT ![w] = [at |-> "columns", next |-> @.next + 2]]
          /\ UNCHANGED <<users, pg, server, req, seed>>
AlterTable(w) ==
  /\ boot[w].at = "alter"
  /\ IF Upgraded[boot[w].next] \in columns THEN BootFails
     ELSE /\ columns' = columns \cup {Upgraded[boot[w].next]}
          /\ boot' = [boot EXCEPT ![w] = [at |-> "columns", next |-> @.next + 1]]
          /\ UNCHANGED <<users, pg, server, req, seed>>

\* CREATE TABLE IF NOT EXISTS fails if it has a table to make and the one it
\* REFERENCES is neither there nor made by a statement before it.
CreateFails(i) ==
  /\ Script[i][1] \notin pg /\ Script[i][2] # ""
  /\ Script[i][2] \notin pg \cup {Script[j][1] : j \in 1..(i - 1)}

\* init_pg is one transaction; every exception is caught, and the worker goes
\* on with SQLite.
InitPg(w) ==
  /\ boot[w].at = "pg" /\ Goes(w, "seed")
  /\ pg' = IF \E i \in DOMAIN Script : CreateFails(i) THEN pg ELSE pg \cup PgTables
  /\ UNCHANGED <<columns, users, server, req, seed>>
PgUnavailable(w) ==
  /\ boot[w].at = "pg" /\ Goes(w, "seed")
  /\ UNCHANGED <<columns, users, pg, server, req, seed>>

SetupRequired == \A n \in Names : users[n].role = "none"
CheckSeed_Always(w) ==
  /\ boot[w].at = "seed"
  /\ Goes(w, IF seed THEN "insert" ELSE "up")
  /\ UNCHANGED <<columns, users, pg, server, req, seed>>
CheckSeed(w) ==
  /\ boot[w].at = "seed"
  /\ Goes(w, IF seed /\ SetupRequired THEN "insert" ELSE "up")
  /\ UNCHANGED <<columns, users, pg, server, req, seed>>

\* create_admin: the INSERT fails on the UNIQUE username.
SeedAdmin(w) ==
  /\ boot[w].at = "insert"
  /\ IF users[Admin].role # "none" THEN BootFails
     ELSE /\ users' = [users EXCEPT ![Admin] = [role |-> "admin", local |-> TRUE]]
          /\ Goes(w, "up") /\ UNCHANGED <<columns, pg, server, req, seed>>

----------------------------------------------------------------------------
(* Requests.                                                               *)

Serves(w, r) ==
  /\ boot[w].at = "up" /\ req[w] = Idle
  /\ req' = [req EXCEPT ![w] = r]
  /\ UNCHANGED <<columns, users, pg, server, boot, seed>>
Done(w) == req' = [req EXCEPT ![w] = Idle] /\ UNCHANGED <<columns, pg, server, boot, seed>>

Setup_Open(w, n) == Serves(w, [op |-> "setup", name |-> n, role |-> "admin"])
Setup(w, n) == SetupRequired /\ Serves(w, [op |-> "setup", name |-> n, role |-> "admin"])
SetupCreates(w) ==
  /\ req[w].op = "setup" /\ Done(w)
  /\ users' = IF users[req[w].name].role # "none" THEN users
              ELSE [users EXCEPT ![req[w].name] = [role |-> "admin", local |-> TRUE]]

\* check_setup sends every other page to /setup until an account exists.
\* kytran_sso_callback: SELECT, then UPDATE or INSERT, the role taken from the
\* platform; an IntegrityError is caught.
SsoCallback(w, n, role) ==
  ~SetupRequired /\ Serves(w, [op |-> IF users[n].role = "none" THEN "sso_insert" ELSE "sso_update",
             name |-> n, role |-> role])
SsoUpserts_Replace(w) ==
  /\ req[w].op \in {"sso_insert", "sso_update"} /\ Done(w)
  /\ users' = [users EXCEPT ![req[w].name] = [role |-> req[w].role, local |-> FALSE]]
SsoUpserts(w) ==
  /\ req[w].op \in {"sso_insert", "sso_update"} /\ Done(w)
  /\ LET u == users[req[w].name] IN
     users' = IF req[w].op = "sso_insert" /\ u.role # "none" THEN users
              ELSE [users EXCEPT ![req[w].name] = [role |-> req[w].role, local |-> u.local]]

\* /settings of whoever is logged in: the current password is checked against
\* the row, and then the row is updated.  An account without a password ends
\* in an exception.
Settings(w, n) ==
  ~SetupRequired /\ users[n].local
    /\ Serves(w, [op |-> "settings", name |-> n, role |-> "none"])
PasswordChanges(w) ==
  /\ req[w].op = "settings" /\ Done(w)
  /\ users' = [users EXCEPT ![req[w].name].local = TRUE]

\* gunicorn kills a worker that hangs and starts another one.
WorkerReplaced(w) ==
  /\ boot[w].at = "up"
  /\ boot' = [boot EXCEPT ![w] = Starting] /\ req' = [req EXCEPT ![w] = Idle]
  /\ UNCHANGED <<columns, users, pg, server, seed>>

\* docker-compose.yml: restart: unless-stopped.
ContainerRestarts ==
  /\ server = "halted" /\ server' = "running"
  /\ UNCHANGED <<columns, users, pg, boot, req, seed>>

BootStep(w) ==
  /\ server = "running"
  /\ \/ CheckColumn(w) \/ AlterTable(w) \/ InitPg(w) \/ PgUnavailable(w)
     \/ CheckSeed(w) \/ SeedAdmin(w)

Next ==
  \/ \E w \in Workers : BootStep(w) \/ WorkerReplaced(w) \/ SetupCreates(w) \/ SsoUpserts(w)
                          \/ PasswordChanges(w)
  \/ \E w \in Workers, n \in Names :
       Setup(w, n) \/ Settings(w, n) \/ \E role \in {"viewer", "admin"} : SsoCallback(w, n, role)
  \/ ContainerRestarts

Spec == Init /\ [][Next]_vars

\* A worker that has started to boot goes on, and docker restarts the server.
FairSpec == Spec /\ WF_vars(ContainerRestarts) /\ \A w \in Workers : WF_vars(BootStep(w))

----------------------------------------------------------------------------
TypeOK ==
  /\ columns \subseteq {Upgraded[i] : i \in DOMAIN Upgraded} /\ pg \subseteq PgTables
  /\ users \in [Names -> Account]
  /\ server \in {"running", "halted"} /\ seed \in BOOLEAN
  /\ boot \in [Workers -> Boot] /\ req \in [Workers -> Request]

\* A worker serves only when every column its queries use is there, and when
\* the configured administrator exists, whichever worker made them and
\* however often the start failed in between.
ServingMeansReady ==
  \A w \in Workers : boot[w].at = "up" =>
    /\ \A i \in DOMAIN Upgraded : Upgraded[i] \in columns
    /\ seed => \E n \in Names : users[n].role # "none"

\* /setup is for the first visitor: with a configured administrator nobody ever
\* gets to create an account through it, not even before all workers have
\* started; without one, visitors may race through it, but then the accounts
\* with a password are at most as many as the workers.
SetupIsForTheFirst ==
  /\ seed => \A w \in Workers : req[w].op # "setup"
  /\ Cardinality({n \in Names : users[n].local}) <= IF seed THEN 1 ELSE Cardinality(Workers)

\* No account disappears, and how it was made stays: one with a password keeps
\* it, and one the platform vouches for never gets one, whatever seeding,
\* /setup, SSO logins and /settings do at the same time.
AccountsSurvive ==
  [][\A n \in Names : users[n].role # "none" =>
       users'[n].role # "none" /\ users'[n].local = users[n].local]_vars

\* Workers that trip over each other at the start halt the server only
\* finitely often, and every worker gets to serve again and again.
EventuallyServing ==
  <>[](server = "running") /\ \A w \in Workers : []<>(boot[w].at = "up")

\* pg.py on TENANT_MIGRATION: "Idempotent - runs on every startup after
\* SCHEMA": init_pg on a reachable database leaves every table in place.
InitPgInstallsSchema == [][\A w \in Workers : InitPg(w) => pg' = PgTables]_vars
============================================================================
