--------------------------- MODULE PlatformCache ---------------------------
(***************************************************************************)
(* The caches in front of the A.R.C.H.I.E. platform (services/             *)
(* platform_stats.py) and the pages made from them (routes/                *)
(* dashboard_routes.py): each gunicorn worker keeps its own, fills them    *)
(* while a visitor waits, and forgets them when it is replaced.            *)
(*                                                                         *)
(* Time passes while a fetch is under way, and the platform may go away    *)
(* and come back meanwhile.  Nothing is said of what the platform sends    *)
(* but how old it is; ages stop counting at Horizon.                       *)
(***************************************************************************)
EXTENDS Naturals, Sequences

CONSTANTS Workers,
          Visited,  \* bound: the pages visitors ask for
          TTL,      \* how long each cache is used, in ticks
          Horizon   \* bound: ages above it are not told apart

\* "live" is fetched for every visitor; "agents", a list of the agents of one
\* department, is made from "fleet" and cached on its own.
Remote == {"stats", "fleet", "trend", "overflow"}
Cached == Remote \cup {"agents"}
Pages == [platform     |-> <<"stats">>,
          ethics       |-> <<"stats">>,
          welfare      |-> <<"live", "trend", "overflow">>,
          mood_journal |-> <<"fleet">>,
          wtf_agents   |-> <<"agents">>]

ASSUME CacheAssumption ==
  /\ Visited \subseteq DOMAIN Pages
  /\ Horizon \in Nat /\ TTL \in [Cached -> 1..Horizon]
  /\ TTL["fleet"] + TTL["agents"] <= Horizon

VARIABLES up,     \* the platform answers, and with "success"
          cache,  \* _stats_cache, _fleet_cache, ... of each worker
          work    \* the page each worker is making

vars == <<up, cache, work>>

\* `old`: since the platform read the data; `age`: since the `now` that
\* `expires` was computed from; `failed`: made while the platform failed.
Ages == 0..Horizon
Entry == [has : {"nothing", "empty", "data"}, old : Ages, age : Ages, failed : BOOLEAN]
Nothing == [has |-> "nothing", old |-> Horizon, age |-> Horizon, failed |-> FALSE]
Older(n) == IF n < Horizon THEN n + 1 ELSE n

Idle == [page |-> "none", part |-> 1, at |-> "look", waited |-> 0]
Work == [page : Visited \cup {"none"}, part : 1..3, at : {"look", "fetch", "doubtful"}, waited : Ages]
Busy(w) == work[w].page # "none"
Part(w) == Pages[work[w].page][work[w].part]
Source(w) == IF Part(w) = "agents" THEN "fleet" ELSE Part(w)

Init ==
  /\ up \in BOOLEAN
  /\ cache = [w \in Workers |-> [c \in Cached |-> Nothing]]
  /\ work = [w \in Workers |-> Idle]

----------------------------------------------------------------------------
(* The platform, time and the processes.                                   *)

PlatformFails ==
  /\ up /\ up' = FALSE
  /\ work' = [w \in Workers |-> IF work[w].at = "fetch" THEN [work[w] EXCEPT !.at = "doubtful"]
                                ELSE work[w]]
  /\ UNCHANGED cache
PlatformReturns == ~up /\ up' = TRUE /\ UNCHANGED <<cache, work>>

Tick ==
  /\ cache' = [w \in Workers |-> [c \in Cached |->
                 LET e == cache[w][c] IN [e EXCEPT !.old = Older(e.old), !.age = Older(e.age)]]]
  /\ work' = [w \in Workers |->
                LET x == work[w] IN
                IF x.at = "look" THEN x ELSE [x EXCEPT !.waited = Older(x.waited)]]
  /\ UNCHANGED up

Restart(w) ==
  /\ cache' = [cache EXCEPT ![w] = [c \in Cached |-> Nothing]]
  /\ work' = [work EXCEPT ![w] = Idle]
  /\ UNCHANGED up

----------------------------------------------------------------------------
(* A page.                                                                 *)

Visit(w, p) ==
  /\ ~Busy(w)
  /\ work' = [work EXCEPT ![w] = [Idle EXCEPT !.page = p]]
  /\ UNCHANGED <<up, cache>>

\* `now < expires`, and the data is there: a list may be there and empty.
Usable_Forever(e, c) == e.has = "data" \/ (e.has = "empty" /\ c = "agents")
Usable(e, c) == e.age < TTL[c] /\ (e.has = "data" \/ (e.has = "empty" /\ c = "agents"))
Fresh(w, c) == Usable(cache[w][c], c)

\* The answer to the current part is there: on to the next one, or the page.
PartDone(w) ==
  LET x == work[w] IN
  work' = [work EXCEPT ![w] = IF x.part = Len(Pages[x.page]) THEN Idle
                              ELSE [x EXCEPT !.part = x.part + 1, !.at = "look", !.waited = 0]]

\* get_wtf_agents keeps the list it makes, of whatever get_fleet_agents
\* returned; the lifetime of the list is its own.
AgentsOf(fleet, waited, fails) ==
  [has |-> IF fleet.has = "data" THEN "data" ELSE "empty",
   old |-> fleet.old, age |-> waited, failed |-> fails]
WithAgents(w, caches, fails) ==
  IF Part(w) = "agents"
  THEN [caches EXCEPT !["agents"] = AgentsOf(caches["fleet"], work[w].waited, fails)] ELSE caches

FromCache(w) ==
  /\ Busy(w) /\ work[w].at = "look" /\ Part(w) # "live" /\ Fresh(w, Part(w))
  /\ PartDone(w) /\ UNCHANGED <<up, cache>>
AgentsFromFleet(w) ==
  /\ Busy(w) /\ work[w].at = "look" /\ Part(w) = "agents"
  /\ ~Fresh(w, "agents") /\ Fresh(w, "fleet")
  /\ cache' = [cache EXCEPT ![w] = WithAgents(w, cache[w], FALSE)]
  /\ PartDone(w) /\ UNCHANGED up
StartFetch(w) ==
  /\ Busy(w) /\ work[w].at = "look"
  /\ Part(w) # "live" => ~Fresh(w, Part(w)) /\ ~Fresh(w, Source(w))
  /\ work' = [work EXCEPT ![w].at = IF up THEN "fetch" ELSE "doubtful"]
  /\ UNCHANGED <<up, cache>>

\* The platform read its numbers at any moment since it was asked.
Stored_ExpiresFromNow(old, waited) == [has |-> "data", old |-> old, age |-> 0, failed |-> FALSE]
Stored(old, waited) == [has |-> "data", old |-> old, age |-> waited, failed |-> FALSE]
FetchSucceeds(w) ==
  /\ work[w].at \in {"fetch", "doubtful"} /\ up
  /\ IF Part(w) = "live" THEN UNCHANGED cache
     ELSE \E old \in 0..work[w].waited :
            cache' = [cache EXCEPT ![w] =
                        WithAgents(w, [cache[w] EXCEPT ![Source(w)] = Stored(old, work[w].waited)], FALSE)]
  /\ PartDone(w) /\ UNCHANGED up

\* An exception, or an answer without "success": what is cached stays, and
\* is served, and nothing stops the next visitor from trying again.
Kept_Empty(e) == [Nothing EXCEPT !.has = "empty"]
Kept(e) == e
FetchFails(w) ==
  /\ work[w].at = "doubtful"
  /\ IF Part(w) = "live" THEN UNCHANGED cache
     ELSE LET c == Source(w) IN
          cache' = [cache EXCEPT ![w] = WithAgents(w, [cache[w] EXCEPT ![c] = Kept(cache[w][c])], TRUE)]
  /\ PartDone(w) /\ UNCHANGED up

Serve(w) ==
  FromCache(w) \/ AgentsFromFleet(w) \/ StartFetch(w) \/ FetchSucceeds(w) \/ FetchFails(w)

Next ==
  \/ PlatformFails \/ PlatformReturns \/ Tick
  \/ \E w \in Workers : Serve(w) \/ Restart(w) \/ \E p \in Visited : Visit(w, p)

Spec == Init /\ [][Next]_vars

\* Time passes and a worker finishes its page; nobody has to visit one.
FairSpec == Spec /\ WF_vars(Tick) /\ \A w \in Workers : WF_vars(Serve(w))

----------------------------------------------------------------------------
TypeOK ==
  /\ up \in BOOLEAN
  /\ cache \in [Workers -> [Cached -> Entry]]
  /\ work \in [Workers -> Work]
  /\ \A w \in Workers, c \in Remote : cache[w][c].has # "empty" /\ ~cache[w][c].failed

\* What a worker serves without asking the platform is younger than the
\* lifetimes promise ("refreshing every 5 minutes"), however long the fetch
\* that filled the cache took; the agents add their lifetime to the fleet's,
\* unless the list was made while the platform failed.
UsableIsFresh ==
  \A w \in Workers :
    /\ \A c \in Remote : Fresh(w, c) => cache[w][c].old < TTL[c]
    /\ Fresh(w, "agents") /\ ~cache[w]["agents"].failed =>
         cache[w]["agents"].has = "data" /\ cache[w]["agents"].old < TTL["fleet"] + TTL["agents"]

\* "Return stale data on failure": a process never serves older data than it
\* has served, nor none after some, the list made of another cache included.
NeverGoesBack ==
  [][\A w \in Workers, c \in Cached :
       cache[w][c].has = "data" /\ ~Restart(w) =>
         cache'[w][c].has = "data" /\ (Tick \/ cache'[w][c].old <= cache[w][c].old)]_vars

\* An outage is left behind: once the platform stays up, no worker goes on
\* showing the empty or old list it made while it was away, nor ever again
\* answers from a failed fetch.
OutagesAreForgotten ==
  <>[]up => <>[](\A w \in Workers :
     /\ ~(Fresh(w, "agents") /\ cache[w]["agents"].failed)
     /\ work[w].at # "doubtful")
============================================================================
