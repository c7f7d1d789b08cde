# A TLA+ model of KYTRAN CREED

CREED is a Flask service in which organisations file the governance events of
their AI systems and which publishes a grade for each of them. It runs as two
synchronous gunicorn workers (`Dockerfile:26`) over a Postgres database, with
an SQLite file on the side that takes over, one call at a time, whenever
Postgres cannot be reached or raises. There is no thread, no queue and no
background job: everything that is hard about the program comes from

* two worker processes that interleave between any two statements, and keep
  caches, flags and rate buckets of their own, lost when the worker is replaced;
* two stores that do not know of each other, where each *call* (not each
  request) chooses its store;
* commits whose acknowledgement, and answers whose delivery, may be lost, in
  front of a client that retries;
* decisions (approve, reject, verify, revoke, resolve) that several people may
  take at the same time;
* arithmetic on thresholds: gates, windows, business days, weighted averages.

This directory models those parts, checks them with TLC and proves, with TLAPS and
for every instance, every safety property the runs check. Paths below are relative
to `src/kytran_creed/`.

## 1. Inventory

### Onboarding, keys and the portal
*State*: tables `tenants` and `api_keys`, portal cookies, `governance_events`.
*Operations*: `apply` (a pending row and a verification token), `verify_email`,
`regen_verify_link`, `approve_org` (status and first key in one transaction),
`reject_org`, `create_org` and `mint_org_key` for administrators; `tp_login`
with a key, `tp_mint_key`, `tp_revoke_key`, `tp_logout` with a cookie;
`resolve_tenant` and `ingest_guard` before every keyed ingest.
*Interaction*: only through the tables. Each handler is one transaction, but
authentication is a transaction of its own that ends before the event is stored.
*Hard*: two administrators deciding one application; a rollback or a lost answer
after a key was drawn; a key revoked between its check and its use; a session
that outlives its key; links regenerated, used twice, or used after a decision.
*Correct when*: an application is decided once; the approval and its key are one
step; revoked keys stay out; nobody acts for another organisation; nothing is
shown that is not stored.

### Event ingest and reads over two stores
*State*: the tables `governance_events` and `incident_log` in both stores, the
worker's `_pg_available` flag and `_institute_tenant_id` cache, what the client knows.
*Operations*: `post_event`/`_store_event`, `post_incident`/`store_incident`,
`get_events`, `get_scores`, `list_incidents`, `get_pg`, `get_institute_tenant_id`,
the client's `_request` with retries.
*Hard*: Postgres going away or coming back between the calls of one request, a
commit that took effect but raised, a retry of something already stored, a
UNIQUE violation taken for an outage, a worker that started during one.
*Correct when*: reads stay within their organisation, what was acknowledged is
stored, duplicates are bounded, the fallback is left again.

### Ethics scoring and the substance gate
*State*: the rows of one organisation, the clock, a one-off SQL migration.
*Operations*: `calculate_scores`, `_tenant_stats`, the gate of the portal, every
page and badge that shows a letter (`org_scores`, `list_orgs`, the directory, the
profile, `internal_tenants`, the dashboard, the badges of the overall and of a
pillar), `migrations/backfill_4138_bias_artifact.sql`.
*Hard*: thresholds, two reads on two connections of which the second may end in
the other store, a dashboard that reads in the opposite order, several letters on
one page of which only some are behind the gate.
*Correct when*: a pillar with few events does not move the grade, and a letter is
only shown for a feed with substance. The second holds of headlines and badges; of
the rows of the profile it does not (section 4), and what does hold is that such a
letter stands for a pillar with enough events of its own.

### Welfare scoring
*State*: the welfare rows of an organisation. *Operations*: `calculate_welfare`,
the summary, the badge, the daily history, and the rate of honoured breaks.
*Hard*: rows without an order under an exponentially weighted average; days
against totals, where a rate of rates would be wrong; events without a dimension.
*Correct when*: the grade is a function of the set of events, averages stay
within the scores they average, the daily history adds up.

### Redress requests
*State*: `redress_requests` in both stores. *Operations*:
`store_redress_request` with its SLA date, `update_redress_status`, the
statistics of `get_redress_stats`.
*Hard*: a decision against a request that is in the other store, commits that
raise, repeated and reversed decisions, statistics made of two statements,
business days.
*Correct when*: a request is kept with the date its visitor was given, what the
statistics count they can average, the date is the promised number of days away.

### Rate limiters
*State*: per worker, the times of the admitted requests of each client.
*Operations*: admit, refuse, trim, clean up. *Hard*: window edges, cleanup,
several and replaced workers. *Correct when*: no window holds too many, nobody
is refused below the limit, being refused does not last.

### Server start and accounts
*State*: columns of SQLite tables, tables of Postgres, `users`, how far each
worker's `create_app` is. *Operations*: `init_db`, `init_pg`, the seeded
administrator, `check_setup`, `/setup`, `/settings`, the SSO callback. *Hard*: check-then-act in two workers
at the same moment, a failing boot that halts the server, scripts that depend on
one another. *Correct when*: a serving worker has its schema and its
administrator, `/setup` makes accounts only for visitors who came while there was
none, no account is replaced and none made by SSO gets a password, the server
comes up.

### Platform statistics
*State*: per worker, five caches with a lifetime each, one of them (the agents of
a department) made from another (the fleet). *Operations*: `get_platform_stats`,
`get_fleet_agents`, `get_ethics_trend`, `get_overflow_activations`,
`get_wtf_agents`, under the pages of `routes/dashboard_routes.py`. *Hard*: a
fetch takes up to ten seconds, and the clock was read before it; the platform
goes away and comes back during it; stale data is served while it is away; the
list is cached whatever it was made of. *Correct when*: what is served without
asking is as fresh as the lifetimes say, a process never goes back to older data
or to none, an outage is left behind.

### The rest
Public statistics are the scores above, over an unfiltered read. Impact
assessments: see section 4, no operation of theirs takes effect.
Pages, translations, the oversight and remediation registries and the SVG of the
badges are rendering and constants.

`PROJECT.json` lists every component, every hazard at its line, and for each
definition of a module the lines it stands for.

## 2. Modules

| Module | Models | Properties |
|---|---|---|
| `Tenants` | onboarding, keys, portal, keyed ingest | safety, finality, refinement, the inductive invariant |
| `OrgAccess` | abstract: what `Tenants` promises | is a property of `Tenants` |
| `TenantsProofs` | proofs about `Tenants` | see section 5 |
| `EventStore` | both stores, connections, client | isolation, duplicates, recovery, refinement |
| `EventStoreProofs` | proofs about `EventStore` | see section 5 |
| `Ledger` | abstract: what either store promises a caller | is a property of `EventStore` and of `Redress` |
| `Scoring` | ethics score, gates, every place with a letter, migration | neutrality, substance, volume |
| `ScoringProofs` | proofs about `Scoring` | see section 5 |
| `RateLimiter` | the list and the deque limiters | window bound, exactness, progress |
| `RateLimiterProofs` | proofs about `RateLimiter` | see section 5 |
| `Startup` | boot, schema, setup, accounts, passwords | readiness, setup, progress |
| `StartupProofs` | proofs about `Startup` | see section 5 |
| `Redress` | filing, deciding and counting over two stores | refinement, statistics, SLA |
| `RedressProofs` | proofs about `Redress` | see section 5 |
| `Welfare` | welfare score, summary, badge, history | order, averages, totals |
| `WelfareProofs` | proofs about `Welfare` | see section 5 |
| `PlatformCache` | the caches, the platform, the pages | freshness, no way back, recovery |
| `PlatformCacheProofs` | proofs about `PlatformCache` | see section 5 |

`MC<Module>` only gives a module its symmetry sets and the values a .cfg cannot
spell. Operators named `X_Something` next to an operator `X` are plausible
mistakes in `X`; no specification uses them. They are there so that each property
can be shown to notice at least one.

### Tenants
`org` and `key` are the committed rows; `req[w]` is what worker `w` serves,
`lock` the rows an open transaction has written. A request is two steps: its
statements (`ApproveOrg`, `VerifyEmail`, ...: the guard is the WHERE clause, and
an UPDATE waits for the row lock) and `Commit`, which publishes all writes. In
between any worker may run; `Rollback` stands for every exception and killed
worker. `Commit` answers (`Answer`: the plaintext key, the link, the cookie) or
the answer is lost. Reads see committed rows only, which is what Postgres does at
its default isolation level. `ResolveTenant` and `StoreEvent` are separate steps
without a lock, as in the code. Keys and tokens are drawn from sets; a drawn
value is one that left no trace anywhere, as with 32 random bytes.
`Cell.origin` is a history variable: which handler inserted a key.

Left out: contact data and listing flags (no guard reads them), the mail server
(failing to send changes nothing), and `last_used_at`. A request that matches no
row changes nothing, so it is not a step.

### EventStore
Each request is a chain of calls, each of which first asks `get_pg`: `at` is
where the request is. `PgGoesDown` breaks open connections. `StorePg` may
commit and then raise. `scope` is the tenant filter a read carries, where `inst`
is the id Postgres drew for the Institute and `fixed` the constant SQLite uses.
Incidents go the same way into a table of their own, where the reference is
UNIQUE: `Taken` is what that refuses when the client chose it.
`ImplementsLedger` maps both tables onto `Ledger`: an item is recorded at most
once per store and try, and what was acknowledged stays recorded.
`heard` says whether the client still listens to this request. Events carry only
what filters and constraints look at: keyed (of an organisation) or not, event
or incident, refused by Postgres or not.

### Scoring and Welfare
Scores are integers in tenths of a point; `Round` is Python's `round(x, 1)`
except for exact ties, on which no property depends. The exponentially weighted
average is exact rational arithmetic over a growing power of ten. A read of rows
without ORDER BY is any enumeration of the positions of the window (`Orders`); a read
that failed over to SQLite finds nothing. `Tally` is the loop over the events at a set
of positions, in the order of the read: all of them for the summary and the totals,
those `On` a day for a record of the history. `TypeDimension` is the table of event
types, with one name for each outcome of the loose match behind it.

A page of `Scoring` is its two reads, in the order the handler makes them, and one of
the letters it then shows: any of them, since all come from the same two reads. `what`
is whom the letter is about, the overall or a pillar, and `place` where it stands. A
`headline` (of a page, of an answer, of the list) and a `badge` read the gate; a `row`
of the profile reads the pillar's own mark instead (`Thin`); an `entry` of
`by_category` reads nothing and carries that mark beside it. `Withheld` says which is
which. The dashboard makes both reads on one connection and in the other order.

### RateLimiter
A hit is its age, capped one past the window, so time needs no bound. `Trim` is the
popleft loop of the deques; that the list limiter's filter comes to the same is a
lemma (`TrimFilters`), which needs the hits in the order of their times.
`log` is history: what each process really admitted within the window. A process
that is replaced keeps its log under a name of `Replaced`, and `since` says how long
ago it ended; the name is free again once the window is past that.

### Startup
Each check (`PRAGMA table_info`, `setup_required`, the SSO SELECT) and the
statement that relies on it are separate steps. Any exception in `create_app`
halts the server and docker starts it again (`docker-compose.yml:30`).
`check_setup` is the guard of every other request; a change of password checks the
current one and writes the new one in separate steps.
`pg` is the set of tables; `Script` lists the statements of both scripts in order, and
`CreateFails(i)` says that statement `i` refers to a table that neither exists nor
is created before it, which fails the whole transaction as in Postgres.

### Redress
`Resolve` and `File` start a request; `PgWrites` or `PgFails` (with or without
effect), then `LiteWrites` or `LiteFails`. `GetStats` starts with the counts
(`CountByStatus`) and ends with the average, decisions of the other worker in
between; either statement may fail over to SQLite, both or none. The clock has
slots per day; day 0 may be any weekday. `after` is the loop of `_add_business_days`:
`Pass` is one pass through its body, which counts a day unless it is of a weekend. In the mapping to `Ledger` a record is a
row together with its due date.

### PlatformCache
`cache[w]` keeps no numbers, only how old they are: `old` counts from when the
platform read them, `age` from the `now` that the expiry was computed from.
`work[w]` is the page a worker makes: which part, and how long the fetch of that
part has taken (`waited`). `PlatformFails` makes running fetches `doubtful`: they
may still succeed if the platform returns in time. `failed` marks a list made
while the platform was away. Deadlock is checked: time always passes.

## 3. Runs

One run per module asks everything about it at once; the others show a sentence
of the repository that the code does not keep.

| Run | Question | Instance | States |
|---|---|---|---|
| `tenants` | safety and refinement of the core, all interleavings | 2 organisations, 2 keys, 2 tokens, 2 workers, 1 cookie | 255,718 |
| `event_store` | isolation, duplicates, the promise of `Ledger`, and the return to Postgres | 1 event or incident of any kind, 2 workers, 2 tries | 2,021,972 |
| `scoring` | neutrality, and every letter of every page, over all short histories | 2 pillars and welfare, 4 events, 3 days | 3,227,527 |
| `limiter` | both kinds of limiter: exactness, bound, progress | 2 clients, 2 workers, limit 2 in 2 ticks, 1 replacement per window | 1,186,897 |
| `startup` | readiness, accounts and passwords, races, coming up | 2 workers, 3 names, 2 columns to add | 76,546 |
| `redress` | the promise of `Ledger`, statistics, dates, the order of the queue | 2 workers, 1 request, 2 slots a day for 7 days | 1,634,115 |
| `welfare` | order, averages, totals | 3 events, 4 kinds, 3 days | 74,931 |
| `platform_cache` | freshness, no way back, recovery from outages | 1 worker, pages of 1 to 3 parts, lifetimes of 1 to 3 ticks | 544,428 |
| `event_store_mixed` | *violated*: are scores from Postgres the Institute's? | 1 event, 2 workers | |
| `scoring_rows` | *violated*: is every letter of a page behind the gate? | as `scoring` | |
| `scoring_thin` | *violated*: is a headline or badge backed by a qualified pillar? | gate and pillar thresholds equal, as by default | |
| `startup_fresh` | *violated*: does `init_pg` work on an empty database? | no tables | |

**Why these bounds.** Two workers are what the image starts, and every race in
the code is between one check and one use. Two organisations are needed for
isolation and for one link or key reaching the wrong one; two keys for an
approval racing another, or a minted key after an issued one. In `event_store`
one event is enough because no row's fate depends on another's and a filter looks
at one row at a time: it is an event or an incident, of an organisation or the
Institute, accepted or refused by Postgres, in each combination. Two tries make one retry of something
already stored. The thresholds of the gates are scaled down (2 to 3 events for
100), so that both sides of every threshold, and the step across it, occur within
four events; the program reads them from its configuration. A limit of 2 with a
window of 2 lets hits expire one by one, at either edge; `MaxBuckets = 1` makes the
cleanup happen. Two slots a day for a week let a request be filed on every weekday
at two times of day. One worker is enough for `platform_cache`: the workers share
nothing but the platform, and the proofs are for any number of them. Its lifetimes
of 1 to 3 ticks let a fetch take less and more than a lifetime, and `Horizon` is
the longest age that any property compares. `MaxSlot`, `MaxEvents`, `MaxDay` and the size of
`Replaced` are the only bounds on counters; they appear in the guards and are named as bounds where
they are declared. `PgFresh` and `PgUpgraded` are the two databases the program
meets: a new one, and one made before `aia_assessments` referred to `tenants`.

Three rigid choices are part of the initial state, so that one run covers all
their values: the kind of limiter (`deque`), whether an administrator is
configured (`seed`), and the kind of each event (`keyed`, `refused`, `kind`).

Symmetry is used for identities no definition orders, and never in a run that
checks liveness. Deadlock is checked in `event_store`, `limiter`, `startup`,
`redress` and `platform_cache`; it is off where the sets run out: all keys drawn and all requests
served (`tenants`), the clock or the table at its bound (`scoring`, `welfare`).

**Fairness.** `EventStore`: a worker goes on with the request it serves; nothing
obliges Postgres to return, which is why `FeedRecovers` assumes that it stays up.
`RateLimiter`: time passes and the client keeps asking. `Startup`: a booting
worker goes on, and docker restarts a halted server (`unless-stopped`).
`PlatformCache`: time passes and a worker finishes its page, which the timeout of
every fetch makes it do; nobody has to visit, and nothing obliges the platform to
return, which is why `OutagesAreForgotten` assumes that it stays up. `Tenants`,
`Scoring`, `Redress` and `Welfare` have no liveness property: nothing there acts on
its own, and a request ends because gunicorn ends it.

## 4. What the runs found

Properties taken from the repository's own words that do not hold. Each has a run
whose counterexample shows it, and an entry with the quoted line.

1. `InitPgInstallsSchema` (defect): `aia_assessments` REFERENCES `tenants`,
   which a later script of the same transaction creates. On a fresh database
   `init_pg` fails at every start and CREED stays on SQLite (`pg.py:81`).
2. `NoGradeBeforeSubstance`: the gate withholds the headline only. The rows of the
   profile (`routes/orgs_routes.py:409`, `templates/org_profile.html:106`) and
   `by_category` of the scores (`routes/orgs_routes.py:155`) show the letter of every
   pillar with enough events of its own: 100 events of one pillar in a day are an
   `A+` in its row, on a page that says PROVISIONAL above it and "A grade is
   published once the feed has substance" (`templates/org_profile.html:91`; so do
   `templates/standard.html:152` and the client's README).
3. `PgScoresAreInstituteOnly`: the score endpoint mixes organisations when
   Postgres comes back between its two calls (`routes/api_routes.py:373`).
4. `ConfidentMeansQualified`: a letter for a score that is `overall_provisional`
   (`routes/orgs_routes.py:155`), in any of the headlines, the dashboard's too, and
   on the badges; the badge of a pillar does not read that pillar's flag either.

Seen while modelling and not run, because they can be read off one line:
approval does not read `email_verified` (`routes/onboarding_routes.py:295`), while
`pg.py:143` says that "email verification + admin identity check (D1) gate
activation"; no operation of the impact assessments takes effect, since
`routes/aia_routes.py` calls `_get_pg` and `_get_db` (lines 43, 62, 75, 93, 122, 151)
without defining or importing them: only the form is rendered, by its GET and by a
POST with missing fields, and everything else ends in a NameError;
a quiet feed can lose score, since the score is that of 30 days and good events leave
it too (`routes/api_routes.py:99`, against `templates/standard.html:155`);
a row below the volume threshold is said to be excluded from the overall
(`templates/org_profile.html:106`), which is not so when no pillar reaches it
(`services/scoring_engine.py:91`);
the dashboard of the portal takes `by_category` records for numbers, and shows 0.0 for
each pillar (`templates/tenant_dashboard.html:156`);
the SQLite fallback of the scores is filtered by a cached Postgres id no SQLite row
carries (`pg.py:223`); welfare events count in the ethics gate
(`routes/orgs_routes.py:71`, against `services/welfare_engine.py:350`); the welfare
letter is the raw score's, not the smoothed one's (`services/welfare_engine.py:254`,
against line 317), and each day of the history has a letter however few its events
(`routes/welfare_routes.py:436`); the redress limiter is one per worker
(`routes/public_routes.py:234`, against line 291); a redress request may go from any
status to any other (`redress_store.py:177`, against line 5); the portal counts
incidents with a status that does not exist (`routes/tenant_portal_routes.py:209`);
a reviewer is told 404 for an update whose commit took effect but raised
(`redress_store.py:189`, after the transaction that begins at line 172); the redress queue is
the 200 requests due soonest, decided ones included (`redress_store.py:108`);
the public accountability page shows zeros when both stores fail;
a page whose second connection ends in SQLite finds no rows, and no rows score 100
and `A+` behind a gate that was read in Postgres (`routes/api_routes.py:110`);
the badge of the Institute has no gate at all;
`get_fleet_agents` says "None on failure" (`services/platform_stats.py:58`) and
returns stale data, which its own last comment intends, and `get_wtf_agents` says "empty
list on failure" (`services/platform_stats.py:115`) and returns the agents of that data.

What the passing runs show is that much holds where it looks most fragile: decisions are final under
every race, because each UPDATE repeats its condition in the WHERE clause; an
approval and its key are atomic; feeds stay isolated through outages although
scores do not; a boot race costs restarts and never the administrator; a slow
platform never makes a cache outlive its promise, because the expiry counts from
before the fetch.

## 5. Proofs

### Tenants
`TenantsProofs` proves, for every number of organisations, keys, tokens, workers
and cookies, from the only assumption that the "none" values are not members of
those sets (`NoneAssumption`):

* `Invariance`: `Spec => []IInv`, and from it `TypeCorrect`, `SingleApproval`,
  `EventsAreMembers`, `ShownAfterCommit`, `LinksSingleUse`, `PortalCustody`;
* the action properties `DecisionsStand`, `RevocationStands`, `OwnersRevoke`;
* `Refinement`: `Spec => Access!Spec`, the handlers implement `OrgAccess`.

The properties are about committed rows, but a step that commits writes what was
computed from rows read earlier. So they are not inductive by themselves: one must
know that what an open transaction is about to publish is still a change its
handler may make. That is the strengthening `IInv`:

* `RowInv`: a transaction that wrote a row holds its lock, and its pending row
  still `Fits` the committed one. No other worker can disturb this, because only
  the holder of a lock commits that row;
* `MintInv`, `KeyInv`: a key about to be inserted is nobody else's and its
  organisation exists; unissued keys have no cell;
* `TokenInv`: a token about to be stored is no organisation's and in no other
  transaction;
* `MemberInv`: sessions, portal keys and requests past the key check belong to
  organisations that are active and hold an issued key. It survives because
  decisions are final, which `RowInv` gives.

The preservation proof has one lemma for the statements that take a lock, one for
those that do not, and one for each way a request ends; each is split by the
conjuncts of `IInv`. `ShownAfterCommit` and `OwnersRevoke` state properties that no
run lists, because what proves them is that they hold for every instance.

### PlatformCache
`PlatformCacheProofs` proves, for every number of workers, every choice of visited
pages and all lifetimes (`CacheAssumption`: they are positive, and `Horizon` tells
apart the ages they compare), `Invariance`: `Spec => []IInv`, and from it
`TypeCorrect`, `Freshness` (`UsableIsFresh`) and the action property `NoWayBack`
(`NeverGoesBack`). Neither is inductive: a cache is fresh when a fetch that began
long ago ends, and it does not go back when what that fetch brings is newer than
what has been cached meanwhile. `IInv` adds

* `AgeInv`: data is never older than the clock its lifetime runs on says, the
  agents at most by a lifetime of the fleet, and the agents are never newer than the
  fleet they were made of;
* `WorkInv`: as long as a fetch has waited, the cache it will fill holds nothing
  newer than that wait, since a synchronous worker does nothing else meanwhile.

A step of one worker answers only for its own cache and work (`OwnStep`,
`OthersKeep`); the end of a part and the list of agents have a lemma each.

### EventStore
`EventStoreProofs` proves, for every set of events of any kind, of workers and any
number of tries, `TypeCorrect`, `FeedsAreIsolated` (`FeedIsolation`),
`DuplicatesAreBounded` (`CopiesBounded`) and `Refinement` (`ImplementsLedger`). A
copy is made long after the try that makes it, perhaps by a request whose client
has given up and sent another; so the number of copies says nothing by itself. What
`IInv` keeps is a count of causes:

* `CopyInv`: copies in a store plus requests that may still write one there are no
  more than the tries of the client, and an event under a client's own reference is
  in each store at most once;
* `HeardOnce`, `TriesInv`: a client listens to one request at a time, and sends
  another only if a try is left;
* `ReqInv`: a read carries the scope its handler gave it until it answers, and what
  it has read is within that scope.

The refinement adds one lemma for each side of `Ledger`: there is room for a copy
when one is written (`RoomForACopy`), and only a 201 that was heard acknowledges
(`OnlyA201Acknowledges`).

### Redress
`RedressProofs` proves, for every set of requests and workers, length of the SLA,
slots per day and first weekday, `TypeCorrect`, `DecidedIsAveraged`
(`DecisionsAreAveraged`), `DatesAreBusinessDays` (`SlaIsBusinessDays`),
`FirstComeFirstServed` (`OvertakenOnlyOnTheWeekend`) and `Refinement`. `IInv` ties
what a worker is about to write to what was promised: `WorkInv` (a filing worker
carries the date that follows from the day of filing, SQLite has no row yet, and
Postgres one at most if its commit was applied without an answer; statistics that
counted a decision will find its date in the store they counted in), `FiledOnce`
(one worker files a reference) and `RefInv` (a decided row has a date, an
acknowledged request the date that was computed).

The dates are the part with data. `LoopUnfolds` shows that the recursive function
`after` satisfies its equation: the passes of the loop descend in a well-founded
order (`PassesDescend`), since at most two in a row meet a weekend.
`LoopReturns` is that the result is a weekday reached by exactly so many business
days; both argue from the least counterexample (`LeastNat`) where a textbook would
use induction. `Overtaking` then says which two days of filing a date cannot tell apart.

### Startup
`StartupProofs` proves, for every number of workers and names, any columns to add
and any tables at first, `TypeCorrect`, `ReadyBeforeServing` (`ServingMeansReady`),
`SetupOnlyAtFirst` (`SetupIsForTheFirst`) and the action property `AccountsAreKept`
(`AccountsSurvive`). The hazard is check-then-act in several workers, so `IInv`
says what each check still means when its statement runs: `BootInv` (a worker past
a column leaves it behind in the shared table, one past the seed an administrator),
`ReqInv` (nobody serves `/setup` with an administrator configured; an account seen
by the SSO or the password check is still there, because accounts are never
deleted) and `SetupCount`: accounts with a password plus workers about to create
one by `/setup` are at most the workers, for each of them got past the check
when there was no account.

### RateLimiter
`RateLimiterProofs` proves, for either kind of limiter and every limit, window,
number of clients, of workers and of replaced processes, `TypeCorrect` (no bucket
is longer than the limit), `HitsAreExact` (`HitsAreTheWindow`) and
`WindowIsBounded` (`WindowBound`). `HitsInv`, buckets are in the order of their
times, is what makes popping from the left the same as filtering; `LogInv`, a log
holds the limit at most, follows from exactness at the moment of admission and
survives ageing; `GoneInv`, the log of a replaced process is at least as old as its
end, frees its name for another. The bound is then the cardinality of a
product, `Limit` times the processes that admitted anything within the window.

### Scoring
`ScoringProofs` proves, for every finite set of pillars, other categories, all
thresholds, windows and sizes of the table:

* `TypeCorrect`: with the types, that the overall and every pillar score are between
  0 and 100 points;
* `ThinPillarsStayNeutral` (`ThinPillarsAreNeutral`), and the action property
  `CriticalsNeverHelp` (`CriticalNeverHelps`);
* `LettersHaveSubstance` (`GatedLettersHaveSubstance`), of headlines and badges, and
  `RowsHaveVolume` (`RowLettersHaveVolume`), of the rows of the profile.

The last two need an invariant: the gate is read in one statement, the letter is
computed in another, and in between the table grows, time passes and the migration
renames a category. `GatePassed` and `ShownPassed` say that what passed the gate
still would. They are inductive because substance stays once it is there:
appending an event adds to count, categories and span, as long as the table is
`OldestFirst` (`AppendKeepsSubstance`), and a category that the migration empties
makes room for "retired", which is new by `RetiredLast` (`RetireKeepsSubstance`).
`RowPassed` says the same of a pillar's volume: a row has a letter only if enough of
the events it was read from are the pillar's (`RowVolume`), whichever store they came
from, and no step takes one from what the pillar has been reported (`VolumeStep`).

The others are about arithmetic. `calculate_scores` adds scores up, and a sum over
a set is a recursion; `TotalIsCount` shows that it is the number of points under the
function, from which its bound (`TotalBounded`) and its order (`TotalMonotone`)
follow without an induction each. `RoundBounded`, `RoundMonotone` and `RoundShrinks`
are what rounding of an average keeps. `CriticalCounts` is the one step where they
meet: a critical event adds its full weight to what is lost and to what there was
to lose, so that the same remainder is shared by more. The operators `ScoreAt`,
`OverallAt`, ... are those of `Scoring` with the table as a parameter, for facts that
compare the table before a step with the one after it.

### Welfare
`WelfareProofs` proves, for any dimensions, event types, severities, gate, window, and
bounds of clock and table, `TypeCorrect`, `OrderDoesNotMatter`
(`GradeIgnoresRowOrder`), `EwmaStaysBetween` (`EwmaIsAnAverage`) and `DaysAddUp`
(`DaysMakeUpTheTotals`). The invariant is simple, since the handlers only read: a page
is one read of the present window (`Invariance`), which an ingest or midnight replaces
by no page. The work is in what a page is a function of, one lemma after the other:

* `Unfolds`: the fold of `calculate_welfare` satisfies its equation, the last event
  after all the others. It is recursion over sets, whose solution is first built up by
  cardinality (`FoldExistsTo`) and then shown to be the one the fold chooses
  (`FoldUnique`);
* `TallySums`: each counter of the loop is then a sum over the positions, the number
  of points under a function of the position, and so independent of their order:
  two reads are bijections onto one window (`ReadIs`, `SumRenamed`), and all that
  differs between them is the smoothed score (`SummaryOfOrders`);
* `EwmaBand`: that score, exact over its scale, never leaves a band that holds every
  event's score, nor does its rounding (`RoundBetween`);
* `Mediant`: a ratio of two sums, rounded, is between the rounded ratios of the
  parts. `OverDays` carries it from the days to the window, for the score and for the
  break rate, where a day without a break has no ratio and must not count as zero;
* `CountsAddUp`: the counts of the days sum up to the total, as days are disjoint and
  their records differ in the date;
* `WholePercentKeepsGrade`: cutting a score to a whole percent crosses no threshold.

### Assumptions
Every theorem assumes only the named assumption of its module. They say that
thresholds, limits and lifetimes are positive, "none" values are no members, and
that the sets something is counted over (workers, replaced processes, pillars) are
finite. No bound used for model-checking is assumed to have a particular value.

### Only model-checked
The four liveness properties (`FeedRecovers`, `EventuallyAdmitted`,
`EventuallyServing`, `OutagesAreForgotten`) are out of the prover's reach: they need
fairness and ENABLED. Every other property of a passing run is a theorem. Facts that
a textbook would prove by induction over numbers or sets are proved from the least
counterexample (`LeastNat`) or as the equality of a set of subsets with all of them
(`SubsetInduction`), since the library's induction takes a predicate as a parameter.

## 6. Not modelled

The assessments would be modelled by one failing action: no handler reaches a
statement that changes anything. `get_governance_report` has no caller. The
overall numbers of the public pages are `calculate_scores` over rows of every
organisation, and no text says which they should be. Logins, the SSO token's signature and the
admin password check write nothing that another component reads. Pages, badges'
SVG, CSV layout, translations and registries are rendering. Validation of
request bodies appears only as the sets inputs are drawn from.

## 7. Plan

Order of work, the most important behaviour first; items 1 to 11 are done.

1. `Tenants` and `OrgAccess`; 2. `TenantsProofs`; 3. `EventStore`;
4. `Scoring`; 5. `RateLimiter`; 6. `Startup`; 7. `Redress`, `Welfare`;
8. `PlatformCache` and its proofs; 9. `Ledger`, which `EventStore` and `Redress`
implement.
10. Proofs of the safety of `EventStore`, `Redress` (with both refinements of
    `Ledger`), `Startup`, `RateLimiter` and `Scoring`.
11. Proofs about `Welfare`: rows in any order, averages, and days against totals.
12. The assessments, once their handlers reach a store: edits that overwrite one
    another, and ids that mean different rows in the two stores.
