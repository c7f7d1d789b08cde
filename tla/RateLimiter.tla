---------------------------- MODULE RateLimiter ----------------------------
(***************************************************************************)
(* The in-process sliding-window limiters: the public one (routes/         *)
(* public_routes.py _rate_limited, a list per address with cleanup) and    *)
(* the deques of tenant_auth.py _rate_limited, routes/onboarding_routes.py *)
(* _apply_rate_limited and routes/public_routes.py _redress_rate_limited.  *)
(*                                                                         *)
(* Every gunicorn worker is one thread with limiters of its own, lost when *)
(* the worker is replaced; a client's requests reach any worker.  A hit is *)
(* kept as its age, which stops growing once the window is past it, so     *)
(* the clock needs no bound.                                               *)
(***************************************************************************)
EXTENDS Naturals, Sequences, FiniteSets

CONSTANTS Clients, Workers,
          Limit, Window,  \* RATE_LIMIT hits in RATE_WINDOW ticks
          MaxBuckets,     \* 4096: buckets before the public one cleans up
          Replaced        \* bound: names of processes replaced within a window

ASSUME LimiterAssumption ==
  /\ Limit \in Nat \ {0} /\ Window \in Nat \ {0}
  /\ MaxBuckets \in Nat
  /\ IsFiniteSet(Workers) /\ IsFiniteSet(Replaced) /\ Workers \cap Replaced = {}

VARIABLES hits,     \* _rate_buckets or _key_hits of each worker, oldest first
          log,      \* the requests each process admitted within the window
          since,    \* how long ago a replaced process ended
          deque     \* a deque limiter, the public one otherwise; never changes

vars == <<hits, log, since, deque>>

Processes == Workers \cup Replaced

\* deque: hits[0] < now - WINDOW is popped; list: t > now - WINDOW is kept.
Expired == IF deque THEN Window + 1 ELSE Window
Live(age) == age < Expired
Ages == Seq(0..Expired)
Older(ages) == [i \in DOMAIN ages |-> IF ages[i] < Expired THEN ages[i] + 1 ELSE Expired]

Trim_Head(ages) == IF ages # <<>> /\ ~Live(Head(ages)) THEN Tail(ages) ELSE ages

\* popleft as long as the first hit has expired; filtering the list comes to
\* the same, since hits are appended as they happen.
Trim(ages) ==
  SubSeq(ages, Cardinality({i \in DOMAIN ages : \A j \in 1..i : ~Live(ages[j])}) + 1, Len(ages))

NoHits == [c \in Clients |-> <<>>]

Init ==
  /\ hits = [w \in Workers |-> NoHits]
  /\ log = [p \in Processes |-> NoHits]
  /\ deque \in BOOLEAN
  /\ since = [p \in Replaced |-> Expired]

\* The public limiter drops the buckets with no live hit when there are many.
Buckets(b) == {c \in Clients : b[c] # <<>>}
Cleanup_AnyBucket(b) ==
  IF ~deque /\ Cardinality(Buckets(b)) > MaxBuckets
  THEN [c \in Clients |-> IF b[c] # <<>> /\ b[c][Len(b[c])] = 0 THEN b[c] ELSE <<>>] ELSE b
Cleanup(b) ==
  IF ~deque /\ Cardinality(Buckets(b)) > MaxBuckets
  THEN [c \in Clients |-> IF b[c] # <<>> /\ Live(b[c][Len(b[c])]) THEN b[c] ELSE <<>>] ELSE b

Admits_OffByOne(ages) == Len(ages) <= Limit
Admits(ages) == Len(ages) < Limit

Refuse_Count(w, c) ==
  /\ ~Admits(Trim(hits[w][c]))
  /\ hits' = [hits EXCEPT ![w][c] = Append(Tail(Trim(@)), 0)]
  /\ UNCHANGED <<log, since, deque>>
Refuse(w, c) ==
  /\ ~Admits(Trim(hits[w][c]))
  /\ hits' = [hits EXCEPT ![w][c] = Trim(@)]
  /\ UNCHANGED <<log, since, deque>>

Admit(w, c) ==
  /\ Admits(Trim(hits[w][c]))
  /\ log' = [log EXCEPT ![w][c] = Append(@, 0)]
  /\ UNCHANGED <<since, deque>>
  /\ hits' = [hits EXCEPT ![w] = Cleanup([hits[w] EXCEPT ![c] = Append(Trim(hits[w][c]), 0)])]

Request(w, c) == Refuse(w, c) \/ Admit(w, c)

\* gunicorn replaces a worker: the new process starts with empty buckets.
Restart(w) ==
  \E r \in Replaced :
    /\ ~Live(since[r])
    /\ hits' = [hits EXCEPT ![w] = NoHits]
    /\ log' = [log EXCEPT ![r] = log[w], ![w] = NoHits]
    /\ since' = [since EXCEPT ![r] = 0]
    /\ UNCHANGED deque

Tick ==
  /\ hits' = [w \in Workers |-> [c \in Clients |-> Older(hits[w][c])]]
  /\ log' = [p \in Processes |-> [c \in Clients |-> Trim(Older(log[p][c]))]]
  /\ since' = Older(since)
  /\ UNCHANGED deque

Next ==
  \/ \E w \in Workers, c \in Clients : Request(w, c)
  \/ \E w \in Workers : Restart(w)
  \/ Tick

Spec == Init /\ [][Next]_vars

\* Time passes, and the client under consideration keeps asking.
FairSpec ==
  /\ Spec /\ WF_vars(Tick)
  /\ \A w \in Workers, c \in Clients : WF_vars(Request(w, c))

----------------------------------------------------------------------------
TypeOK ==
  /\ hits \in [Workers -> [Clients -> Ages]]
  /\ log \in [Processes -> [Clients -> Ages]]
  /\ since \in [Replaced -> 0..Expired] /\ deque \in BOOLEAN
  /\ \A w \in Workers, c \in Clients : Len(hits[w][c]) <= Limit

\* All workers together, and those replaced meanwhile, admit at most LIMIT
\* requests of a client each in any window: "the effective limit is RATE *
\* worker_count" of tenant_auth.py, plus what the replaced ones forgot.
Admitted(c) == UNION {{p} \X DOMAIN log[p][c] : p \in Processes}
WindowBound ==
  \A c \in Clients :
    Cardinality(Admitted(c)) <=
      Limit * Cardinality(Workers \cup {r \in Replaced : Live(since[r])})

\* A worker keeps exactly the requests that count: lazy trimming and the
\* cleanup of idle buckets forget no live hit, and a refusal leaves none.
HitsAreTheWindow ==
  \A w \in Workers, c \in Clients : Trim(hits[w][c]) = log[w][c]

\* A client that keeps asking is served again and again: being refused does
\* not prolong the refusal.
EventuallyAdmitted ==
  \A w \in Workers, c \in Clients : []<><<Admit(w, c)>>_vars
============================================================================
