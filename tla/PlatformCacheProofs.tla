------------------------ MODULE PlatformCacheProofs ------------------------
(***************************************************************************)
(* Machine-checked proofs about PlatformCache, for any number of workers,  *)
(* any pages visited and any lifetimes.                                    *)
(***************************************************************************)
EXTENDS PlatformCache, TLAPS

\* A worker that waits is making a part of a page, and for as long as it has
\* waited its cache has held nothing newer.
WorkInv(w) ==
  /\ Busy(w) => work[w].part <= Len(Pages[work[w].page])
  /\ ~Busy(w) => work[w].at = "look"
  /\ work[w].at = "look" => work[w].waited = 0
  /\ work[w].at # "look" /\ Part(w) # "live" /\ cache[w][Source(w)].has = "data" =>
       work[w].waited <= cache[w][Source(w)].old

\* What was fetched is no older than its lifetime has run; the agents may be
\* older by a lifetime of the fleet, and never newer than the fleet.
AgeInv(w) ==
  /\ \A c \in Remote : cache[w][c].has = "data" => cache[w][c].old <= cache[w][c].age
  /\ LET a == cache[w]["agents"] IN
       /\ a.has # "nothing" /\ ~a.failed => a.has = "data" /\ a.old < TTL["fleet"] + a.age
       /\ a.has = "data" => cache[w]["fleet"].has = "data" /\ cache[w]["fleet"].old <= a.old

IInv == TypeOK /\ \A w \in Workers : WorkInv(w) /\ AgeInv(w)

----------------------------------------------------------------------------
(* Types.                                                                  *)

LEMMA PagesOK ==
  \A p \in Visited : /\ p # "none" /\ Len(Pages[p]) \in 1..3
                     /\ \A i \in 1..Len(Pages[p]) : Pages[p][i] \in Cached \cup {"live"}
  <1> SUFFICES ASSUME NEW p \in {"platform", "ethics", "welfare", "mood_journal", "wtf_agents"}
               PROVE  /\ p # "none" /\ Len(Pages[p]) \in 1..3
                      /\ \A i \in 1..Len(Pages[p]) : Pages[p][i] \in Cached \cup {"live"}
    BY CacheAssumption DEF Pages
  <1>1. CASE p = "welfare" BY <1>1 DEF Pages, Cached, Remote
  <1>2. CASE p # "welfare" BY <1>2 DEF Pages, Cached, Remote
  <1> QED BY <1>1, <1>2

LEMMA TTLOK == /\ Horizon \in Nat /\ \A c \in Cached : TTL[c] \in 1..Horizon
               /\ "agents" \in Cached /\ "agents" \notin Remote /\ "fleet" \in Remote
               /\ Remote \subseteq Cached /\ "live" \notin Cached
  BY CacheAssumption DEF Cached, Remote

LEMMA OlderOK ==
  /\ \A n \in Ages : Older(n) \in Ages /\ n <= Older(n) /\ Older(n) <= n + 1
  /\ \A m, n \in Ages : m <= n => Older(m) <= Older(n)
  /\ \A m, n \in Ages, t \in Nat \ {0} : m < t + n => Older(m) < t + Older(n)
  BY TTLOK DEF Ages, Older

LEMMA OlderEntry ==
  ASSUME NEW e \in Entry
  PROVE  LET f == [e EXCEPT !.old = Older(e.old), !.age = Older(e.age)] IN
         /\ f \in Entry /\ f.has = e.has /\ f.failed = e.failed
         /\ f.old = Older(e.old) /\ f.age = Older(e.age)
  <1>1. Older(e.old) \in Ages /\ Older(e.age) \in Ages
    BY OlderOK DEF Entry
  <1> QED BY <1>1 DEF Entry

LEMMA NothingOK == Nothing \in Entry /\ Idle \in Work /\ Idle.page = "none" /\ Idle.at = "look"
                   /\ Idle.waited = 0 /\ Nothing.has = "nothing" /\ ~Nothing.failed
  BY TTLOK DEF Nothing, Entry, Ages, Idle, Work

\* The part a busy worker is making, and the cache it comes from.
LEMMA PartOK ==
  ASSUME TypeOK, NEW w \in Workers, WorkInv(w), Busy(w)
  PROVE  /\ work[w].page \in Visited /\ work[w].part \in 1..Len(Pages[work[w].page])
         /\ Part(w) \in Cached \cup {"live"}
         /\ Part(w) # "live" => Source(w) \in Remote
         /\ Part(w) = "agents" => Source(w) = "fleet"
         /\ Part(w) \in Remote => Source(w) = Part(w)
  <1>1. work[w].page \in Visited /\ work[w].part \in 1..3
    BY DEF TypeOK, Work, Busy
  <1>2. Len(Pages[work[w].page]) \in 1..3 /\ work[w].part \in 1..Len(Pages[work[w].page])
    BY <1>1, PagesOK DEF WorkInv
  <1>3. Part(w) \in Cached \cup {"live"}
    BY <1>1, <1>2, PagesOK DEF Part
  <1> QED BY <1>1, <1>2, <1>3 DEF Source, Cached, Remote

\* The invariant of a worker is about its own cache and work.
LEMMA OthersKeep ==
  ASSUME NEW w \in Workers, WorkInv(w), AgeInv(w), work'[w] = work[w], cache'[w] = cache[w]
  PROVE  WorkInv(w)' /\ AgeInv(w)'
  BY DEF WorkInv, AgeInv, Busy, Part, Source

\* The next part of a page starts without having waited.
LEMMA PartDoneOK ==
  ASSUME TypeOK, NEW w \in Workers, WorkInv(w), Busy(w), PartDone(w)
  PROVE  /\ work' \in [Workers -> Work] /\ \A v \in Workers \ {w} : work'[v] = work[v]
         /\ WorkInv(w)'
  <1> DEFINE x == work[w]
             last == x.part = Len(Pages[x.page])
             y == [x EXCEPT !.part = x.part + 1, !.at = "look", !.waited = 0]
  <1>1. x \in Work /\ x.page \in Visited /\ x.part \in 1..Len(Pages[x.page])
        /\ Len(Pages[x.page]) \in 1..3 /\ x.page # "none"
    BY PartOK, PagesOK DEF TypeOK
  <1>2. /\ work'[w] = IF last THEN Idle ELSE y
        /\ \A v \in Workers \ {w} : work'[v] = work[v]
    BY DEF PartDone, TypeOK
  <1>3. CASE last
    <2>1. work'[w] = Idle
      BY <1>2, <1>3
    <2>2. work' \in [Workers -> Work]
      BY <1>3, NothingOK DEF PartDone, TypeOK
    <2> QED BY <2>1, <2>2, <1>2, NothingOK DEF WorkInv, Busy
  <1>4. CASE ~last
    <2>1. y \in Work /\ y.page = x.page /\ y.part = x.part + 1 /\ y.at = "look" /\ y.waited = 0
      <3>1. \A n \in 1..3 : \A m \in 1..n : m # n => m + 1 \in 1..3
        OBVIOUS
      <3>2. 0 \in Ages
        BY TTLOK DEF Ages
      <3> HIDE DEF x
      <3>3. x.part + 1 \in 1..3
        BY <3>1, <1>1, <1>4
      <3> QED BY <1>1, <3>2, <3>3 DEF Work
    <2>2. work' \in [Workers -> Work]
      BY <2>1, <1>4 DEF PartDone, TypeOK
    <2>3. work'[w] = y /\ y.part <= Len(Pages[y.page]) /\ y.page # "none"
      BY <2>1, <1>1, <1>2, <1>4
    <2> HIDE DEF y, x
    <2> QED BY <2>1, <2>2, <2>3, <1>2 DEF WorkInv, Busy
  <1> QED BY <1>3, <1>4

\* What a step of worker w must show to keep the invariant: its own cache and
\* work, the others are untouched.
LEMMA OwnStep ==
  ASSUME IInv, NEW w \in Workers, up' = up,
         cache' \in [Workers -> [Cached -> Entry]], work' \in [Workers -> Work],
         \A v \in Workers \ {w} : cache'[v] = cache[v] /\ work'[v] = work[v],
         \A c \in Remote : cache'[w][c].has # "empty" /\ ~cache'[w][c].failed,
         WorkInv(w)', AgeInv(w)'
  PROVE  IInv'
  <1>1. TypeOK'
    BY DEF IInv, TypeOK
  <1>2. ASSUME NEW v \in Workers PROVE WorkInv(v)' /\ AgeInv(v)'
    BY <1>2, OthersKeep DEF IInv
  <1> QED BY <1>1, <1>2 DEF IInv

----------------------------------------------------------------------------
(* The steps.                                                              *)

LEMMA InitStep == Init => IInv
  <1> SUFFICES ASSUME Init PROVE IInv
    OBVIOUS
  <1>1. TypeOK
    BY NothingOK, TTLOK DEF Init, TypeOK
  <1>2. \A w \in Workers : WorkInv(w) /\ AgeInv(w)
    BY NothingOK, TTLOK DEF Init, WorkInv, AgeInv, Busy
  <1> QED BY <1>1, <1>2 DEF IInv

LEMMA PlatformStep == ASSUME IInv, PlatformFails \/ PlatformReturns PROVE IInv'
  <1>1. CASE PlatformReturns
    <2>1. TypeOK' BY <1>1 DEF PlatformReturns, IInv, TypeOK
    <2>2. \A v \in Workers : WorkInv(v)' /\ AgeInv(v)'
      BY <1>1, OthersKeep DEF PlatformReturns, IInv
    <2> QED BY <2>1, <2>2 DEF IInv
  <1>2. CASE PlatformFails
    <2>1. ASSUME NEW v \in Workers
          PROVE  /\ work'[v] \in Work /\ cache'[v] = cache[v]
                 /\ work'[v].page = work[v].page /\ work'[v].part = work[v].part
                 /\ work'[v].waited = work[v].waited
                 /\ work'[v].at = "look" <=> work[v].at = "look"
      <3>1. work[v] \in Work
        BY DEF IInv, TypeOK
      <3> QED BY <1>2, <3>1 DEF PlatformFails, Work
    <2>2. work' \in [Workers -> Work]
      BY <1>2, <2>1 DEF PlatformFails
    <2>3. TypeOK'
      BY <1>2, <2>2 DEF PlatformFails, IInv, TypeOK
    <2>4. \A v \in Workers : WorkInv(v)' /\ AgeInv(v)'
      BY <2>1 DEF IInv, WorkInv, AgeInv, Busy, Part, Source
    <2> QED BY <2>3, <2>4 DEF IInv
  <1> QED BY <1>1, <1>2

\* Ages and waiting times grow together.
LEMMA TickStep == ASSUME IInv, Tick PROVE IInv'
  <1>1. ASSUME NEW v \in Workers
        PROVE  /\ cache'[v] \in [Cached -> Entry]
               /\ \A c \in Cached : /\ cache'[v][c].has = cache[v][c].has
                                    /\ cache'[v][c].failed = cache[v][c].failed
                                    /\ cache'[v][c].old = Older(cache[v][c].old)
                                    /\ cache'[v][c].age = Older(cache[v][c].age)
    <2>1. \A c \in Cached : cache[v][c] \in Entry
      BY DEF IInv, TypeOK
    <2>2. cache'[v] = [c \in Cached |-> [cache[v][c] EXCEPT !.old = Older(cache[v][c].old),
                                                           !.age = Older(cache[v][c].age)]]
      BY DEF Tick
    <2>3. ASSUME NEW c \in Cached
          PROVE  /\ cache'[v][c] \in Entry
                 /\ cache'[v][c].has = cache[v][c].has /\ cache'[v][c].failed = cache[v][c].failed
                 /\ cache'[v][c].old = Older(cache[v][c].old)
                 /\ cache'[v][c].age = Older(cache[v][c].age)
      <3> DEFINE e == cache[v][c]
      <3>1. e \in Entry
        BY <2>1
      <3>2. cache'[v][c] = [e EXCEPT !.old = Older(e.old), !.age = Older(e.age)]
        BY <2>2
      <3> HIDE DEF e
      <3>3. /\ cache'[v][c] \in Entry /\ cache'[v][c].has = e.has /\ cache'[v][c].failed = e.failed
            /\ cache'[v][c].old = Older(e.old) /\ cache'[v][c].age = Older(e.age)
        BY <3>1, <3>2, OlderEntry
      <3> QED BY <3>3 DEF e
    <2> QED BY <2>2, <2>3
  <1>2. ASSUME NEW v \in Workers
        PROVE  /\ work'[v] \in Work
               /\ work'[v].page = work[v].page /\ work'[v].part = work[v].part
               /\ work'[v].at = work[v].at
               /\ work'[v].waited = IF work[v].at = "look" THEN work[v].waited
                                    ELSE Older(work[v].waited)
    <2>1. work[v] \in Work
      BY DEF IInv, TypeOK
    <2> QED BY <2>1, OlderOK DEF Tick, Work
  <1>3. TypeOK'
    <2>1. cache' \in [Workers -> [Cached -> Entry]] /\ work' \in [Workers -> Work]
      BY <1>1, <1>2 DEF Tick
    <2>2. \A w \in Workers, c \in Remote : cache'[w][c].has # "empty" /\ ~cache'[w][c].failed
      BY <1>1, TTLOK DEF IInv, TypeOK
    <2> QED BY <2>1, <2>2 DEF Tick, IInv, TypeOK
  <1>4. ASSUME NEW v \in Workers PROVE WorkInv(v)' /\ AgeInv(v)'
    <2>1. \A c \in Cached : cache[v][c].old \in Ages /\ cache[v][c].age \in Ages
      BY DEF IInv, TypeOK, Entry
    <2>2. work[v].waited \in Ages
      BY DEF IInv, TypeOK, Work
    <2>3. WorkInv(v)'
      <3>1. CASE ~Busy(v) \/ Part(v) = "live" \/ work[v].at = "look"
        BY <3>1, <1>2 DEF IInv, WorkInv, Busy, Part, Source
      <3>2. CASE Busy(v) /\ Part(v) # "live" /\ work[v].at # "look"
        <4>1. Source(v) \in Cached /\ Source(v)' = Source(v) /\ Part(v)' = Part(v) /\ Busy(v)'
          BY <3>2, <1>2, PartOK, TTLOK DEF IInv, Part, Source, Busy
        <4> QED BY <4>1, <3>2, <2>1, <2>2, <1>1, <1>2, OlderOK DEF IInv, WorkInv
      <3> QED BY <3>1, <3>2
    <2>4. AgeInv(v)'
      <3>1. TTL["fleet"] \in Nat \ {0}
        BY TTLOK
      <3>2. AgeInv(v)
        BY DEF IInv
      <3>3. \A c \in Remote : cache'[v][c].has = "data" => cache'[v][c].old <= cache'[v][c].age
        BY <3>2, <2>1, <1>1, TTLOK, OlderOK DEF AgeInv
      <3>4. LET a == cache'[v]["agents"] IN
              a.has # "nothing" /\ ~a.failed => a.has = "data" /\ a.old < TTL["fleet"] + a.age
        BY <3>1, <3>2, <2>1, <1>1, TTLOK, OlderOK DEF AgeInv
      <3>5. LET a == cache'[v]["agents"] IN
              a.has = "data" => cache'[v]["fleet"].has = "data" /\ cache'[v]["fleet"].old <= a.old
        BY <3>2, <2>1, <1>1, TTLOK, OlderOK DEF AgeInv
      <3> QED BY <3>3, <3>4, <3>5 DEF AgeInv
    <2> QED BY <2>3, <2>4
  <1> QED BY <1>3, <1>4 DEF IInv

LEMMA VisitStep == ASSUME IInv, NEW w \in Workers, NEW p \in Visited, Visit(w, p) PROVE IInv'
  <1> DEFINE y == [Idle EXCEPT !.page = p]
  <1>1. y \in Work /\ y.page = p /\ y.part = 1 /\ y.at = "look" /\ y.waited = 0
    BY TTLOK DEF Idle, Work, Ages
  <1>2. cache' = cache /\ up' = up /\ work' = [work EXCEPT ![w] = y]
    BY DEF Visit
  <1> HIDE DEF y
  <1>3. work' \in [Workers -> Work] /\ work'[w] = y /\ \A v \in Workers \ {w} : work'[v] = work[v]
    BY <1>1, <1>2 DEF IInv, TypeOK
  <1>4. WorkInv(w)'
    <2>1. 1 <= Len(Pages[p]) /\ p # "none"
      BY PagesOK
    <2> QED BY <2>1, <1>1, <1>3 DEF WorkInv, Busy
  <1>5. AgeInv(w)'
    BY <1>2 DEF IInv, AgeInv
  <1> QED BY <1>2, <1>3, <1>4, <1>5, OwnStep DEF IInv, TypeOK

LEMMA RestartStep == ASSUME IInv, NEW w \in Workers, Restart(w) PROVE IInv'
  <1>1. /\ cache' \in [Workers -> [Cached -> Entry]] /\ work' \in [Workers -> Work]
        /\ \A v \in Workers \ {w} : cache'[v] = cache[v] /\ work'[v] = work[v]
        /\ work'[w] = Idle /\ \A c \in Cached : cache'[w][c] = Nothing
    BY NothingOK DEF Restart, IInv, TypeOK
  <1>2. WorkInv(w)' /\ AgeInv(w)'
    BY <1>1, NothingOK, TTLOK DEF WorkInv, AgeInv, Busy
  <1>3. \A c \in Remote : cache'[w][c].has # "empty" /\ ~cache'[w][c].failed
    BY <1>1, NothingOK, TTLOK
  <1> QED BY <1>1, <1>2, <1>3, OwnStep DEF Restart

LEMMA StartFetchStep == ASSUME IInv, NEW w \in Workers, StartFetch(w) PROVE IInv'
  <1> DEFINE y == [work[w] EXCEPT !.at = IF up THEN "fetch" ELSE "doubtful"]
  <1>1. cache' = cache /\ up' = up /\ work' = [work EXCEPT ![w] = y] /\ Busy(w) /\ work[w].at = "look"
    BY DEF StartFetch, IInv, TypeOK
  <1>2. /\ y \in Work /\ y.page = work[w].page /\ y.part = work[w].part /\ y.at # "look"
        /\ y.waited = work[w].waited
    BY DEF IInv, TypeOK, Work
  <1> HIDE DEF y
  <1>3. work' \in [Workers -> Work] /\ work'[w] = y /\ \A v \in Workers \ {w} : work'[v] = work[v]
    BY <1>1, <1>2 DEF IInv, TypeOK
  <1>4. Part(w)' = Part(w) /\ Source(w)' = Source(w) /\ Busy(w)' /\ work'[w].waited = 0
    BY <1>1, <1>2, <1>3 DEF Part, Source, Busy, IInv, WorkInv
  <1>5. WorkInv(w)'
    <2>1. ASSUME Part(w) # "live" PROVE 0 <= cache[w][Source(w)].old
      <3>1. Source(w) \in Cached
        BY <2>1, <1>1, PartOK, TTLOK DEF IInv
      <3>2. cache[w][Source(w)] \in Entry
        BY <3>1 DEF IInv, TypeOK
      <3> QED BY <3>2, TTLOK DEF Entry, Ages
    <2> QED BY <2>1, <1>1, <1>2, <1>3, <1>4 DEF WorkInv, IInv
  <1>6. AgeInv(w)'
    BY <1>1 DEF IInv, AgeInv
  <1> QED BY <1>1, <1>3, <1>5, <1>6, OwnStep DEF IInv, TypeOK

\* A step that finishes a part need only answer for the worker's cache.
LEMMA PartStep ==
  ASSUME IInv, NEW w \in Workers, Busy(w), PartDone(w), up' = up,
         NEW d \in [Cached -> Entry], cache' = [cache EXCEPT ![w] = d],
         \A c \in Remote : d[c].has # "empty" /\ ~d[c].failed,
         AgeInv(w)'
  PROVE  IInv'
  <1>1. /\ cache' \in [Workers -> [Cached -> Entry]] /\ cache'[w] = d
        /\ \A v \in Workers \ {w} : cache'[v] = cache[v]
    BY DEF IInv, TypeOK
  <1>2. /\ work' \in [Workers -> Work] /\ \A v \in Workers \ {w} : work'[v] = work[v]
        /\ WorkInv(w)'
    BY PartDoneOK DEF IInv
  <1> QED BY <1>1, <1>2, OwnStep

\* The worker's cache, unchanged.
LEMMA SameCache ==
  ASSUME IInv, NEW w \in Workers, Busy(w), PartDone(w), up' = up, cache' = cache
  PROVE  IInv'
  <1>1. cache[w] \in [Cached -> Entry] /\ cache' = [cache EXCEPT ![w] = cache[w]]
        /\ \A c \in Remote : cache[w][c].has # "empty" /\ ~cache[w][c].failed
    BY DEF IInv, TypeOK
  <1>2. AgeInv(w)'
    BY DEF IInv, AgeInv
  <1> QED BY <1>1, <1>2, PartStep

\* The agents made of a cached fleet have its age.
LEMMA AgentsOfOK ==
  ASSUME NEW f \in Entry, NEW n \in Ages, NEW b \in BOOLEAN, f.has # "empty"
  PROVE  LET a == AgentsOf(f, n, b) IN
         /\ a \in Entry /\ a.old = f.old /\ a.age = n /\ a.failed = b
         /\ a.has # "nothing" /\ a.has = "data" <=> f.has = "data"
  BY DEF AgentsOf, Entry

LEMMA AgentsFromFleetStep == ASSUME IInv, NEW w \in Workers, AgentsFromFleet(w) PROVE IInv'
  <1> DEFINE f == cache[w]["fleet"]
             a == AgentsOf(f, work[w].waited, FALSE)
             d == [cache[w] EXCEPT !["agents"] = a]
  <1>1. cache' = [cache EXCEPT ![w] = d] /\ Busy(w) /\ PartDone(w) /\ up' = up
    BY DEF AgentsFromFleet, WithAgents
  <1>2. work[w].waited = 0 /\ work[w].waited \in Ages
    BY DEF AgentsFromFleet, IInv, WorkInv, TypeOK, Work
  <1>3. f \in Entry /\ f.has = "data" /\ f.old \in Ages /\ f.age \in Ages /\ f.age < TTL["fleet"]
    BY TTLOK DEF AgentsFromFleet, Fresh, Usable, IInv, TypeOK, Entry
  <1>4. f.old <= f.age
    BY <1>3, TTLOK DEF IInv, AgeInv
  <1>5. a \in Entry /\ a.old = f.old /\ a.age = 0 /\ ~a.failed /\ a.has = "data"
    BY <1>2, <1>3, AgentsOfOK
  <1> HIDE DEF a, f
  <1>6. a.old < TTL["fleet"] + a.age
    <2>1. \A m, n \in Ages : m <= n /\ n < TTL["fleet"] => m < TTL["fleet"] + 0
      BY TTLOK DEF Ages
    <2> QED BY <2>1, <1>3, <1>4, <1>5
  <1>7. f.old <= f.old
    BY <1>3 DEF Ages
  <1>8. /\ d \in [Cached -> Entry] /\ d["agents"] = a /\ \A c \in Remote : d[c] = cache[w][c]
    BY <1>5, TTLOK DEF IInv, TypeOK
  <1>9. cache'[w] = d
    BY <1>1 DEF IInv, TypeOK
  <1> HIDE DEF d
  <1>10. \A c \in Remote : d[c].has # "empty" /\ ~d[c].failed
    BY <1>8 DEF IInv, TypeOK
  <1>11. AgeInv(w)'
    <2>1. \A c \in Remote : cache'[w][c].has = "data" => cache'[w][c].old <= cache'[w][c].age
      BY <1>8, <1>9 DEF IInv, AgeInv
    <2>2. cache'[w]["agents"] = a /\ cache'[w]["fleet"] = f
      BY <1>8, <1>9, TTLOK DEF f
    <2> QED BY <2>1, <2>2, <1>3, <1>5, <1>6, <1>7 DEF AgeInv
  <1> QED BY <1>1, <1>8, <1>10, <1>11, PartStep

\* A fetch leaves something that is not older than the worker has waited.
LEMMA FetchSucceedsStep == ASSUME IInv, NEW w \in Workers, FetchSucceeds(w) PROVE IInv'
  <1>1. Busy(w) /\ PartDone(w) /\ up' = up /\ work[w].at # "look" /\ work[w].waited \in Ages
    BY DEF FetchSucceeds, IInv, WorkInv, TypeOK, Work
  <1>2. CASE Part(w) = "live"
    BY <1>1, <1>2, SameCache DEF FetchSucceeds
  <1>3. CASE Part(w) # "live"
    <2>1. PICK old \in 0..work[w].waited :
            cache' = [cache EXCEPT ![w] =
                        WithAgents(w, [cache[w] EXCEPT ![Source(w)] = Stored(old, work[w].waited)], FALSE)]
      BY <1>3 DEF FetchSucceeds
    <2> DEFINE s == Source(w)
               e == Stored(old, work[w].waited)
               b == [cache[w] EXCEPT ![s] = e]
               d == WithAgents(w, b, FALSE)
    <2>2. s \in Remote /\ s \in Cached /\ (Part(w) = "agents" => s = "fleet")
      BY <1>1, <1>3, PartOK, TTLOK DEF IInv
    <2>3. old \in Ages /\ old <= work[w].waited
      BY <1>1, TTLOK DEF Ages
    <2>4. /\ e \in Entry /\ e.has = "data" /\ e.old = old /\ e.age = work[w].waited
          /\ ~e.failed
      BY <1>1, <2>3 DEF Stored, Entry
    <2> HIDE DEF e, s
    <2>5. /\ b \in [Cached -> Entry] /\ b[s] = e
          /\ \A c \in Cached \ {s} : b[c] = cache[w][c]
      BY <2>2, <2>4 DEF IInv, TypeOK
    <2>6. cache' = [cache EXCEPT ![w] = d]
      BY <2>1 DEF s, e
    <2> HIDE DEF b
    <2> DEFINE a == AgentsOf(b["fleet"], work[w].waited, FALSE)
    <2>7. /\ d \in [Cached -> Entry] /\ \A c \in Remote : d[c] = b[c]
          /\ d["agents"] = IF Part(w) = "agents" THEN a ELSE b["agents"]
      <3>1. CASE Part(w) = "agents"
        <4>1. a \in Entry
          BY <3>1, <1>1, <2>2, <2>4, <2>5, AgentsOfOK, TTLOK
        <4> HIDE DEF a
        <4>2. d = [b EXCEPT !["agents"] = a]
          BY <3>1 DEF WithAgents, a
        <4> QED BY <3>1, <4>1, <4>2, <2>5, TTLOK
      <3>2. CASE Part(w) # "agents"
        BY <3>2, <2>5, TTLOK DEF WithAgents
      <3> QED BY <3>1, <3>2
    <2>8. cache'[w] = d
      BY <2>6 DEF IInv, TypeOK
    <2> HIDE DEF d
    <2>9. \A c \in Remote : d[c].has # "empty" /\ ~d[c].failed
      BY <2>2, <2>4, <2>5, <2>7, TTLOK DEF IInv, TypeOK
    <2>10. AgeInv(w)'
      <3>1. \A c \in Remote : d[c].has = "data" => d[c].old <= d[c].age
        BY <2>2, <2>3, <2>4, <2>5, <2>7, TTLOK DEF IInv, AgeInv
      <3>2. CASE Part(w) = "agents"
        <4>1. b["fleet"] = e /\ d["fleet"] = e
          BY <3>2, <2>2, <2>5, <2>7, TTLOK
        <4>2. a.old = old /\ a.age = work[w].waited /\ ~a.failed /\ a.has = "data"
          <5>1. b["fleet"] \in Entry /\ b["fleet"].has = "data" /\ b["fleet"].old = old
            BY <4>1, <2>4
          <5>2. /\ a.old = b["fleet"].old /\ a.age = work[w].waited /\ a.failed = FALSE
                /\ a.has = "data" <=> b["fleet"].has = "data"
            BY <5>1, <1>1, AgentsOfOK
          <5> QED BY <5>1, <5>2
        <4>3. \A m, n \in Ages : m <= n => m < TTL["fleet"] + n /\ m <= m
          BY TTLOK DEF Ages
        <4> HIDE DEF a
        <4>4. d["agents"] = a
          BY <3>2, <2>7
        <4>5. a.old < TTL["fleet"] + a.age /\ old <= old
          BY <4>2, <4>3, <1>1, <2>3
        <4> QED BY <3>1, <4>1, <4>2, <4>4, <4>5, <2>4, <2>8 DEF AgeInv
      <3>3. CASE Part(w) # "agents"
        <4>1. d["agents"] = cache[w]["agents"]
          BY <3>3, <2>2, <2>5, <2>7, TTLOK
        <4>2. CASE s = "fleet"
          <5>1. d["fleet"] = e
            BY <4>2, <2>2, <2>5, <2>7
          <5>2. ASSUME cache[w]["agents"].has = "data"
                PROVE  e.old <= cache[w]["agents"].old
            <6>1. /\ cache[w]["fleet"].has = "data"
                  /\ cache[w]["fleet"].old <= cache[w]["agents"].old
              BY <5>2 DEF IInv, AgeInv
            <6>2. work[w].waited <= cache[w]["fleet"].old
              BY <6>1, <4>2, <1>1, <1>3 DEF IInv, WorkInv, s
            <6>3. cache[w]["fleet"].old \in Ages /\ cache[w]["agents"].old \in Ages
              BY TTLOK DEF IInv, TypeOK, Entry
            <6>4. \A k, l, m, n \in Ages : k <= l /\ l <= m /\ m <= n => k <= n
              BY TTLOK DEF Ages
            <6> QED BY <6>1, <6>2, <6>3, <6>4, <1>1, <2>3, <2>4
          <5> QED BY <3>1, <4>1, <5>1, <5>2, <2>4, <2>8 DEF IInv, AgeInv
        <4>3. CASE s # "fleet"
          <5>1. d["fleet"] = cache[w]["fleet"]
            BY <4>3, <2>5, <2>7, TTLOK
          <5> QED BY <3>1, <4>1, <5>1, <2>8 DEF IInv, AgeInv
        <4> QED BY <4>2, <4>3
      <3> QED BY <3>2, <3>3
    <2> QED BY <1>1, <2>6, <2>7, <2>9, <2>10, PartStep
  <1> QED BY <1>2, <1>3

\* A failed fetch changes only the agents, which it marks.
LEMMA FetchFailsStep == ASSUME IInv, NEW w \in Workers, FetchFails(w) PROVE IInv'
  <1>1. Busy(w) /\ PartDone(w) /\ up' = up /\ work[w].waited \in Ages
    BY DEF FetchFails, IInv, WorkInv, TypeOK, Work
  <1>2. CASE Part(w) = "live"
    BY <1>1, <1>2, SameCache DEF FetchFails
  <1>3. CASE Part(w) # "live"
    <2> DEFINE d == WithAgents(w, cache[w], TRUE)
    <2>1. Source(w) \in Cached /\ cache[w] \in [Cached -> Entry]
      BY <1>1, <1>3, PartOK, TTLOK DEF IInv, TypeOK
    <2>2. [cache[w] EXCEPT ![Source(w)] = Kept(cache[w][Source(w)])] = cache[w]
      BY <2>1 DEF Kept
    <2>3. cache' = [cache EXCEPT ![w] = d]
      BY <1>3, <2>2 DEF FetchFails
    <2>4. CASE Part(w) # "agents"
      <3>1. cache' = cache
        BY <2>3, <2>4 DEF WithAgents, IInv, TypeOK
      <3> QED BY <3>1, <1>1, SameCache
    <2>5. CASE Part(w) = "agents"
      <3> DEFINE f == cache[w]["fleet"]
                 a == AgentsOf(f, work[w].waited, TRUE)
      <3>1. f \in Entry /\ f.has # "empty" /\ f.old \in Ages
        BY <2>1, TTLOK DEF IInv, TypeOK, Entry
      <3>2. a \in Entry /\ a.old = f.old /\ a.failed /\ (a.has = "data" <=> f.has = "data")
        BY <3>1, <1>1, AgentsOfOK
      <3> HIDE DEF a
      <3>3. d = [cache[w] EXCEPT !["agents"] = a]
        BY <2>5 DEF WithAgents, a
      <3>4. d \in [Cached -> Entry] /\ d["agents"] = a /\ \A c \in Remote : d[c] = cache[w][c]
        BY <3>2, <3>3, <2>1, TTLOK
      <3> HIDE DEF d
      <3>5. cache'[w] = d
        BY <2>3 DEF IInv, TypeOK
      <3>6. \A c \in Remote : d[c].has # "empty" /\ ~d[c].failed
        BY <3>4 DEF IInv, TypeOK
      <3>7. AgeInv(w)'
        <4>1. \A c \in Remote : d[c].has = "data" => d[c].old <= d[c].age
          BY <3>4 DEF IInv, AgeInv
        <4>2. d["fleet"] = f /\ f.old <= f.old
          BY <3>1, <3>4, TTLOK DEF Ages
        <4> HIDE DEF f
        <4> QED BY <4>1, <4>2, <3>2, <3>4, <3>5 DEF AgeInv
      <3> QED BY <1>1, <2>3, <3>4, <3>6, <3>7, PartStep
    <2> QED BY <2>4, <2>5
  <1> QED BY <1>2, <1>3

LEMMA NextStep == IInv /\ [Next]_vars => IInv'
  <1> SUFFICES ASSUME IInv, [Next]_vars PROVE IInv'
    OBVIOUS
  <1>1. CASE PlatformFails \/ PlatformReturns
    BY <1>1, PlatformStep
  <1>2. CASE Tick
    BY <1>2, TickStep
  <1>3. ASSUME NEW w \in Workers, Serve(w) PROVE IInv'
    <2>1. CASE FromCache(w)
      BY <2>1, SameCache DEF FromCache
    <2>2. CASE AgentsFromFleet(w)
      BY <2>2, AgentsFromFleetStep
    <2>3. CASE StartFetch(w)
      BY <2>3, StartFetchStep
    <2>4. CASE FetchSucceeds(w)
      BY <2>4, FetchSucceedsStep
    <2>5. CASE FetchFails(w)
      BY <2>5, FetchFailsStep
    <2> QED BY <1>3, <2>1, <2>2, <2>3, <2>4, <2>5 DEF Serve
  <1>4. ASSUME NEW w \in Workers, Restart(w) PROVE IInv'
    BY <1>4, RestartStep
  <1>5. ASSUME NEW w \in Workers, NEW p \in Visited, Visit(w, p) PROVE IInv'
    BY <1>5, VisitStep
  <1>6. CASE UNCHANGED vars
    <2>1. TypeOK'
      BY <1>6 DEF vars, IInv, TypeOK
    <2>2. \A w \in Workers : WorkInv(w)' /\ AgeInv(w)'
      BY <1>6, OthersKeep DEF vars, IInv
    <2> QED BY <2>1, <2>2 DEF IInv
  <1> QED BY <1>1, <1>2, <1>3, <1>4, <1>5, <1>6 DEF Next

----------------------------------------------------------------------------
(* What follows.                                                           *)

\* The ages and waiting times of every worker's caches stay consistent: the
\* invariant the other theorems use.
THEOREM Invariance == Spec => []IInv
  <1> QED BY InitStep, NextStep, PTL DEF Spec

\* The caches hold what get_platform_stats and its siblings can put there.
THEOREM TypeCorrect == Spec => []TypeOK
  <1>1. IInv => TypeOK
    BY DEF IInv
  <1> QED BY <1>1, Invariance, PTL

\* What a worker serves without asking is younger than the cache's lifetime
\* (the agents': than both lifetimes), however slowly the platform answers.
THEOREM Freshness == Spec => []UsableIsFresh
  <1>1. IInv => UsableIsFresh
    <2> SUFFICES ASSUME IInv, NEW w \in Workers
                 PROVE /\ \A c \in Remote : Fresh(w, c) => cache[w][c].old < TTL[c]
                       /\ Fresh(w, "agents") /\ ~cache[w]["agents"].failed =>
                            /\ cache[w]["agents"].has = "data"
                            /\ cache[w]["agents"].old < TTL["fleet"] + TTL["agents"]
      BY DEF UsableIsFresh
    <2>1. \A m, n \in Ages, t \in 1..Horizon : m <= n /\ n < t => m < t
      BY TTLOK DEF Ages
    <2>2. \A m, n \in Ages, t, u \in 1..Horizon : m < t + n /\ n < u => m < t + u
      BY TTLOK DEF Ages
    <2>3. \A c \in Cached : cache[w][c].old \in Ages /\ cache[w][c].age \in Ages
      BY DEF IInv, TypeOK, Entry
    <2>4. ASSUME NEW c \in Remote, Fresh(w, c) PROVE cache[w][c].old < TTL[c]
      <3>1. cache[w][c].has = "data" /\ cache[w][c].age < TTL[c] /\ c \in Cached
        BY <2>4, TTLOK DEF Fresh, Usable, IInv, TypeOK
      <3>2. cache[w][c].old <= cache[w][c].age
        BY <3>1 DEF IInv, AgeInv
      <3> QED BY <3>1, <3>2, <2>1, <2>3, TTLOK
    <2>5. ASSUME Fresh(w, "agents"), ~cache[w]["agents"].failed
          PROVE  /\ cache[w]["agents"].has = "data"
                 /\ cache[w]["agents"].old < TTL["fleet"] + TTL["agents"]
      <3>1. cache[w]["agents"].has # "nothing" /\ cache[w]["agents"].age < TTL["agents"]
        BY <2>5 DEF Fresh, Usable
      <3>2. /\ cache[w]["agents"].has = "data"
            /\ cache[w]["agents"].old < TTL["fleet"] + cache[w]["agents"].age
        BY <3>1, <2>5 DEF IInv, AgeInv
      <3> QED BY <3>1, <3>2, <2>2, <2>3, TTLOK
    <2> QED BY <2>4, <2>5
  <1> QED BY <1>1, Invariance, PTL

----------------------------------------------------------------------------
(* Nothing older than before.                                              *)

Newer(w) ==
  \A c \in Cached : cache[w][c].has = "data" =>
    cache'[w][c].has = "data" /\ cache'[w][c].old <= cache[w][c].old

LEMMA SameIsNewer == ASSUME IInv, NEW w \in Workers, cache'[w] = cache[w] PROVE Newer(w)
  <1>1. \A c \in Cached : cache[w][c].old \in Ages
    BY DEF IInv, TypeOK, Entry
  <1>2. \A n \in Ages : n <= n
    BY TTLOK DEF Ages
  <1> QED BY <1>1, <1>2 DEF Newer

\* An agents list made of a fleet that is newer than the list was.
LEMMA AgentsAreNewer ==
  ASSUME IInv, NEW w \in Workers, NEW d \in [Cached -> Entry], NEW n \in Ages, NEW b \in BOOLEAN,
         cache'[w] = [d EXCEPT !["agents"] = AgentsOf(d["fleet"], n, b)],
         d["fleet"].has # "empty",
         \A c \in Remote : cache[w][c].has = "data" =>
           d[c].has = "data" /\ d[c].old <= cache[w][c].old
  PROVE  Newer(w)
  <1> DEFINE a == AgentsOf(d["fleet"], n, b)
  <1>1. d["fleet"] \in Entry /\ d["fleet"].old \in Ages
    BY TTLOK DEF Entry
  <1>2. a.old = d["fleet"].old /\ (a.has = "data" <=> d["fleet"].has = "data")
    BY <1>1, AgentsOfOK
  <1>3. cache'[w] = [d EXCEPT !["agents"] = a]
    OBVIOUS
  <1> HIDE DEF a
  <1>4. cache'[w]["agents"] = a /\ \A c \in Remote : cache'[w][c] = d[c]
    BY <1>3, TTLOK
  <1>5. ASSUME cache[w]["agents"].has = "data"
        PROVE  a.has = "data" /\ a.old <= cache[w]["agents"].old
    <2>1. cache[w]["fleet"].has = "data" /\ cache[w]["fleet"].old <= cache[w]["agents"].old
      BY <1>5 DEF IInv, AgeInv
    <2>2. cache[w]["fleet"].old \in Ages /\ cache[w]["agents"].old \in Ages
      BY TTLOK DEF IInv, TypeOK, Entry
    <2>3. \A k, l, m \in Ages : k <= l /\ l <= m => k <= m
      BY TTLOK DEF Ages
    <2>4. d["fleet"].has = "data" /\ d["fleet"].old <= cache[w]["fleet"].old
      BY <2>1, TTLOK
    <2> QED BY <1>1, <1>2, <2>1, <2>2, <2>3, <2>4
  <1> QED BY <1>4, <1>5 DEF Newer, Cached

LEMMA ServeIsNewer == ASSUME IInv, NEW w \in Workers, Serve(w) PROVE Newer(w)
  <1>1. CASE FromCache(w) \/ StartFetch(w)
    BY <1>1, SameIsNewer DEF FromCache, StartFetch
  <1>2. CASE AgentsFromFleet(w)
    <2>1. /\ cache[w] \in [Cached -> Entry] /\ work[w].waited \in Ages
          /\ cache[w]["fleet"].has # "empty"
      BY TTLOK DEF IInv, TypeOK, Work
    <2>2. cache'[w] = [cache[w] EXCEPT !["agents"] =
                         AgentsOf(cache[w]["fleet"], work[w].waited, FALSE)]
      BY <1>2 DEF AgentsFromFleet, WithAgents, IInv, TypeOK
    <2>3. \A c \in Remote : cache[w][c].old <= cache[w][c].old
      BY TTLOK DEF IInv, TypeOK, Entry, Ages
    <2> QED BY <2>1, <2>2, <2>3, AgentsAreNewer
  <1>3. CASE FetchFails(w)
    <2>1. /\ Busy(w) /\ cache[w] \in [Cached -> Entry] /\ work[w].waited \in Ages
          /\ cache[w]["fleet"].has # "empty"
      BY <1>3, TTLOK DEF FetchFails, IInv, WorkInv, TypeOK, Work
    <2>2. CASE Part(w) = "live"
      BY <1>3, <2>2, SameIsNewer DEF FetchFails
    <2>3. CASE Part(w) # "live"
      <3>1. [cache[w] EXCEPT ![Source(w)] = Kept(cache[w][Source(w)])] = cache[w]
        BY <2>1 DEF Kept
      <3>2. cache'[w] = WithAgents(w, cache[w], TRUE)
        BY <1>3, <2>3, <3>1 DEF FetchFails, IInv, TypeOK
      <3>3. \A c \in Remote : cache[w][c].old <= cache[w][c].old
        BY TTLOK DEF IInv, TypeOK, Entry, Ages
      <3>4. CASE Part(w) = "agents"
        <4>1. cache'[w] = [cache[w] EXCEPT !["agents"] =
                             AgentsOf(cache[w]["fleet"], work[w].waited, TRUE)]
          BY <3>2, <3>4 DEF WithAgents
        <4> QED BY <4>1, <2>1, <3>3, AgentsAreNewer
      <3>5. CASE Part(w) # "agents"
        BY <3>2, <3>5, SameIsNewer DEF WithAgents
      <3> QED BY <3>4, <3>5
    <2> QED BY <2>2, <2>3
  <1>4. CASE FetchSucceeds(w)
    <2>1. /\ Busy(w) /\ cache[w] \in [Cached -> Entry] /\ work[w].waited \in Ages
          /\ work[w].at # "look"
      BY <1>4 DEF FetchSucceeds, IInv, WorkInv, TypeOK, Work
    <2>2. CASE Part(w) = "live"
      BY <1>4, <2>2, SameIsNewer DEF FetchSucceeds
    <2>3. CASE Part(w) # "live"
      <3>1. PICK old \in 0..work[w].waited :
              cache' = [cache EXCEPT ![w] =
                          WithAgents(w, [cache[w] EXCEPT ![Source(w)] = Stored(old, work[w].waited)], FALSE)]
        BY <1>4, <2>3 DEF FetchSucceeds
      <3> DEFINE s == Source(w)
                 e == Stored(old, work[w].waited)
                 d == [cache[w] EXCEPT ![s] = e]
      <3>2. s \in Remote /\ s \in Cached /\ "agents" # s
        BY <2>1, <2>3, PartOK, TTLOK DEF IInv
      <3>3. old \in Ages /\ old <= work[w].waited
        BY <2>1, TTLOK DEF Ages
      <3>4. e \in Entry /\ e.has = "data" /\ e.old = old
        BY <2>1, <3>3 DEF Stored, Entry
      <3>5. cache'[w] = WithAgents(w, d, FALSE)
        BY <3>1 DEF IInv, TypeOK
      <3>6. ASSUME cache[w][s].has = "data" PROVE e.old <= cache[w][s].old
        <4>1. work[w].waited <= cache[w][s].old
          BY <3>6, <2>1, <2>3 DEF IInv, WorkInv
        <4>2. cache[w][s].old \in Ages
          BY <3>2 DEF IInv, TypeOK, Entry
        <4>3. \A k, l, m \in Ages : k <= l /\ l <= m => k <= m
          BY TTLOK DEF Ages
        <4> QED BY <4>1, <4>2, <4>3, <2>1, <3>3, <3>4
      <3> HIDE DEF e, s
      <3>7. /\ d \in [Cached -> Entry] /\ d[s] = e
            /\ \A c \in Cached \ {s} : d[c] = cache[w][c]
        BY <2>1, <3>2, <3>4
      <3> HIDE DEF d
      <3>8. \A c \in Cached : cache[w][c].old <= cache[w][c].old
        BY TTLOK DEF IInv, TypeOK, Entry, Ages
      <3>9. \A c \in Cached : cache[w][c].has = "data" =>
              d[c].has = "data" /\ d[c].old <= cache[w][c].old
        BY <3>4, <3>6, <3>7, <3>8
      <3>10. d["fleet"].has # "empty"
        BY <3>4, <3>7, TTLOK DEF IInv, TypeOK
      <3>11. CASE Part(w) = "agents"
        <4>1. cache'[w] = [d EXCEPT !["agents"] = AgentsOf(d["fleet"], work[w].waited, FALSE)]
          BY <3>5, <3>11 DEF WithAgents
        <4> QED BY <4>1, <2>1, <3>7, <3>9, <3>10, TTLOK, AgentsAreNewer
      <3>12. CASE Part(w) # "agents"
        BY <3>5, <3>9, <3>12 DEF WithAgents, Newer
      <3> QED BY <3>11, <3>12
    <2> QED BY <2>2, <2>3
  <1> QED BY <1>1, <1>2, <1>3, <1>4 DEF Serve

\* No step but a restart makes a worker's cache lose its data or hold older
\* data, the list that get_wtf_agents makes of another cache included.
THEOREM NoWayBack == Spec => NeverGoesBack
  <1> DEFINE A == \A w \in Workers, c \in Cached :
                    cache[w][c].has = "data" /\ ~Restart(w) =>
                      cache'[w][c].has = "data" /\ (Tick \/ cache'[w][c].old <= cache[w][c].old)
  <1>1. IInv /\ [Next]_vars => [A]_vars
    <2> SUFFICES ASSUME IInv, Next, NEW w \in Workers, NEW c \in Cached,
                        cache[w][c].has = "data", ~Restart(w)
                 PROVE  cache'[w][c].has = "data" /\ (Tick \/ cache'[w][c].old <= cache[w][c].old)
      OBVIOUS
    <2>1. CASE Tick
      <3>1. cache[w][c] \in Entry
        BY DEF IInv, TypeOK
      <3> DEFINE e == cache[w][c]
      <3>2. cache'[w][c] = [e EXCEPT !.old = Older(e.old), !.age = Older(e.age)]
        BY <2>1 DEF Tick
      <3> HIDE DEF e
      <3>3. cache'[w][c].has = e.has
        BY <3>1, <3>2, OlderEntry DEF e
      <3> QED BY <2>1, <3>3 DEF e
    <2>2. CASE PlatformFails \/ PlatformReturns
      BY <2>2, SameIsNewer DEF PlatformFails, PlatformReturns, Newer
    <2>3. ASSUME NEW v \in Workers, Serve(v) PROVE Newer(w)
      <3>1. CASE v = w
        BY <2>3, <3>1, ServeIsNewer
      <3>2. CASE v # w
        <4>1. cache'[w] = cache[w]
          BY <2>3, <3>2 DEF Serve, FromCache, AgentsFromFleet, StartFetch, FetchSucceeds,
                            FetchFails, IInv, TypeOK
        <4> QED BY <4>1, SameIsNewer
      <3> QED BY <3>1, <3>2
    <2>4. ASSUME NEW v \in Workers, Restart(v) PROVE Newer(w)
      <3>1. cache'[w] = cache[w]
        BY <2>4 DEF Restart, IInv, TypeOK
      <3> QED BY <3>1, SameIsNewer
    <2>5. ASSUME NEW v \in Workers, NEW p \in Visited, Visit(v, p) PROVE Newer(w)
      BY <2>5, SameIsNewer DEF Visit
    <2> QED BY <2>1, <2>2, <2>3, <2>4, <2>5 DEF Next, Newer
  <1> QED BY <1>1, Invariance, PTL DEF Spec, NeverGoesBack
============================================================================
