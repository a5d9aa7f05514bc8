---------------------------- MODULE RateLimiter ----------------------------
(***************************************************************************)
(* One instance of the middleware RateLimit: a map from client address to  *)
(* token bucket behind a mutex, and a goroutine that drops the entries of  *)
(* clients not seen for a while.                                           *)
(*                                                                         *)
(* A request looks its bucket up under the mutex and asks it for a token   *)
(* after the mutex is released: the clean-up and other requests run in     *)
(* between.  Nothing blocks a request there, so it is assumed to ask       *)
(* within MaxStall ticks; this is the only assumption on scheduling.       *)
(*                                                                         *)
(* The bucket is golang.org/x/time/rate: it is kept as the time it has     *)
(* been refilling, so that a token costs Period and a full bucket holds    *)
(* Burst * Period.  lastSeen is kept as the time since it.                 *)
(***************************************************************************)
EXTENDS Naturals

CONSTANTS
  Clients,    \* what c.RealIP() returns
  Requests,   \* requests that can be in flight at once
  Limiters,   \* addresses of rate.Limiter objects
  Burst,      \* burst: 3 for register and login, 10 for writing posts
  Period,     \* 1 / rate, in ticks: 12 seconds and 2 seconds
  IdleLimit,  \* 3 * time.Minute, in ticks
  MaxStall,   \* bound: ticks between the look-up and the question
  NULL        \* nil

Capacity == Burst * Period

\* A dropped bucket has had the time to become full: at most 36 s of 180 s.
ASSUME RateLimiterAssumption ==
  /\ Burst \in Nat /\ Burst > 0
  /\ Period \in Nat /\ Period > 0
  /\ IdleLimit \in Nat /\ MaxStall \in Nat
  /\ Capacity + MaxStall <= IdleLimit
  /\ NULL \notin Limiters

VARIABLES
  visitors,  \* store.visitors: each client's limiter, NULL where there is none
  idle,      \* time since visitor.lastSeen, up to IdleLimit + 1; 0 without entry
  level,     \* what is in each limiter
  held,      \* the limiter each request got from getLimiter, NULL outside
  client,    \* the client of each request that has a limiter
  wait,      \* time since each such request got it
  nap,       \* time the clean-up goroutine goes on sleeping
  verdict    \* the last answer, and whom it was for

vars == <<visitors, idle, level, held, client, wait, nap, verdict>>

Idle == 0 .. IdleLimit + 1

-----------------------------------------------------------------------------
(* A request *)

\* Limiters nothing points to: the garbage a new one is made of.
Unreferenced ==
  {l \in Limiters : (\A c \in Clients : visitors[c] # l) /\ (\A r \in Requests : held[r] # l)}

\* Mutant: lastSeen is only set when the entry is made.
GetLimiterUnseen(r, c) ==
  /\ held[r] = NULL
  /\ \/ /\ visitors[c] # NULL
        /\ held' = [held EXCEPT ![r] = visitors[c]]
        /\ UNCHANGED <<visitors, level, idle>>
     \/ /\ visitors[c] = NULL
        /\ \E l \in Unreferenced :
             /\ visitors' = [visitors EXCEPT ![c] = l]
             /\ level' = [level EXCEPT ![l] = Capacity]
             /\ held' = [held EXCEPT ![r] = l]
        /\ idle' = [idle EXCEPT ![c] = 0]
  /\ client' = [client EXCEPT ![r] = c]
  /\ wait' = [wait EXCEPT ![r] = 0]
  /\ UNCHANGED <<nap, verdict>>

\* getLimiter, all of it under the mutex.
GetLimiter(r, c) ==
  /\ held[r] = NULL
  /\ \/ /\ visitors[c] # NULL
        /\ held' = [held EXCEPT ![r] = visitors[c]]
        /\ UNCHANGED <<visitors, level>>
     \/ /\ visitors[c] = NULL
        /\ \E l \in Unreferenced :
             /\ visitors' = [visitors EXCEPT ![c] = l]
             /\ level' = [level EXCEPT ![l] = Capacity]
             /\ held' = [held EXCEPT ![r] = l]
  /\ idle' = [idle EXCEPT ![c] = 0]
  /\ client' = [client EXCEPT ![r] = c]
  /\ wait' = [wait EXCEPT ![r] = 0]
  /\ UNCHANGED <<nap, verdict>>

\* limiter.Allow(): a token if there is one, or the answer 429.
Allow(r) ==
  /\ held[r] # NULL
  /\ \/ /\ level[held[r]] >= Period
        /\ level' = [level EXCEPT ![held[r]] = @ - Period]
        /\ verdict' = <<client[r], "admitted">>
     \/ /\ level[held[r]] < Period
        /\ verdict' = <<client[r], "refused">>
        /\ UNCHANGED level
  /\ held' = [held EXCEPT ![r] = NULL]
  /\ client' = [client EXCEPT ![r] = NULL]
  /\ wait' = [wait EXCEPT ![r] = 0]
  /\ UNCHANGED <<visitors, idle, nap>>

-----------------------------------------------------------------------------
(* The clean-up goroutine, and time *)

\* Mutant: the comparison is the wrong way round.
Fresh(c) == idle[c] <= IdleLimit

\* Mutant: every entry is dropped at every wake-up.
Present(c) == visitors[c] # NULL

\* time.Since(v.lastSeen) > 3 * time.Minute
Expired(c) == idle[c] > IdleLimit

\* The goroutine wakes up and drops, under the mutex, what has expired.
Sweep ==
  /\ nap = 0
  /\ visitors' = [c \in Clients |-> IF Expired(c) THEN NULL ELSE visitors[c]]
  /\ idle' = [c \in Clients |-> IF Expired(c) THEN 0 ELSE idle[c]]
  /\ nap' = IdleLimit
  /\ UNCHANGED <<level, held, client, wait, verdict>>

\* Mutant: a bucket refills without end.
RefillAlways(n) == n + 1

Refill(n) == IF n < Capacity THEN n + 1 ELSE n

Tick ==
  /\ \A r \in Requests : held[r] # NULL => wait[r] < MaxStall
  /\ idle' = [c \in Clients |-> IF visitors[c] # NULL /\ idle[c] <= IdleLimit
                               THEN idle[c] + 1 ELSE idle[c]]
  /\ level' = [l \in Limiters |-> Refill(level[l])]
  /\ wait' = [r \in Requests |-> IF held[r] # NULL THEN wait[r] + 1 ELSE wait[r]]
  /\ nap' = IF nap > 0 THEN nap - 1 ELSE 0
  /\ UNCHANGED <<visitors, held, client, verdict>>

\* No visitors; level means nothing yet.
Init ==
  /\ visitors = [c \in Clients |-> NULL]
  /\ idle = [c \in Clients |-> 0]
  /\ level = [l \in Limiters |-> Capacity]
  /\ held = [r \in Requests |-> NULL]
  /\ client = [r \in Requests |-> NULL]
  /\ wait = [r \in Requests |-> 0]
  /\ nap = IdleLimit
  /\ verdict = <<>>

Next ==
  \/ \E r \in Requests : Allow(r) \/ \E c \in Clients : GetLimiter(r, c)
  \/ Sweep
  \/ Tick

Spec == Init /\ [][Next]_vars

\* Time passes, and Go runs every goroutine that can run.
FairSpec == Spec /\ WF_vars(Tick) /\ WF_vars(Sweep) /\ \A r \in Requests : WF_vars(Allow(r))

-----------------------------------------------------------------------------
(* Properties *)

TypeOK ==
  /\ visitors \in [Clients -> Limiters \cup {NULL}]
  /\ idle \in [Clients -> Idle]
  /\ level \in [Limiters -> 0 .. Capacity]
  /\ held \in [Requests -> Limiters \cup {NULL}]
  /\ client \in [Requests -> Clients \cup {NULL}]
  /\ wait \in [Requests -> 0 .. MaxStall]
  /\ nap \in 0 .. IdleLimit
  /\ verdict \in {<<>>} \cup Clients \X {"admitted", "refused"}

\* A request always asks the bucket that the map holds for its client, never
\* one that was dropped after the look-up, and no two clients share a bucket.
AsksOwnBucket ==
  /\ \A r \in Requests : held[r] # NULL => client[r] \in Clients /\ held[r] = visitors[client[r]]
  /\ \A c, d \in Clients : visitors[c] # NULL /\ visitors[c] = visitors[d] => c = d

\* The bucket of a client, full when the client has no entry.
Bucket(c) == IF visitors[c] = NULL THEN Capacity ELSE level[visitors[c]]

Buckets == INSTANCE TokenBuckets WITH
  Cost <- Period, level <- [c \in Clients |-> Bucket(c)]

\* Dropping entries is invisible: no client ever gets more, or fewer, requests
\* through than one bucket kept for ever would let it.
ImplementsTokenBuckets == Buckets!Spec

\* The map does not grow for ever: an entry is dropped unless its client is
\* seen again.
EntriesGo ==
  \A c \in Clients : visitors[c] # NULL /\ idle[c] > 0 ~> visitors[c] = NULL \/ idle[c] = 0
=============================================================================
