------------------------- MODULE RateLimiterProofs -------------------------
(* Proofs about RateLimiter, for any number of clients and requests and any *)
(* rate, burst and idle time that satisfy RateLimiterAssumption.            *)
EXTENDS RateLimiter, TLAPS

-----------------------------------------------------------------------------
(* The inductive invariant *)

\* A request got its limiter no earlier than its client was last seen.
SeenSince ==
  \A r \in Requests : held[r] # NULL => idle[client[r]] <= wait[r]

\* Since its client was last seen, a bucket has refilled for all but MaxStall
\* ticks, unless it is full.
Refilled ==
  \A c \in Clients :
    visitors[c] # NULL =>
      level[visitors[c]] = Capacity \/ idle[c] <= level[visitors[c]] + MaxStall

Inv == TypeOK /\ AsksOwnBucket /\ SeenSince /\ Refilled

\* The capacity of a bucket is a natural number.
LEMMA CapacityNat == Capacity \in Nat
  BY RateLimiterAssumption DEF Capacity

\* The initial states satisfy the invariant.
LEMMA InitInv == Init => Inv
  <1> SUFFICES ASSUME Init PROVE Inv  OBVIOUS
  <1>1. TypeOK
    BY RateLimiterAssumption, CapacityNat DEF Init, TypeOK, Idle
  <1>2. AsksOwnBucket /\ SeenSince /\ Refilled
    BY DEF Init, AsksOwnBucket, SeenSince, Refilled
  <1> QED  BY <1>1, <1>2 DEF Inv

\* A look-up preserves the invariant: a new limiter is one nothing points to.
LEMMA GetLimiterInv ==
  ASSUME Inv, NEW r \in Requests, NEW c \in Clients, GetLimiter(r, c)
  PROVE  Inv'
  <1> USE RateLimiterAssumption, CapacityNat
  <1> DEFINE L == held'[r]
  <1>0. TypeOK /\ AsksOwnBucket /\ SeenSince /\ Refilled  BY DEF Inv
  <1>1. /\ held[r] = NULL
        /\ held' = [held EXCEPT ![r] = L]
        /\ idle' = [idle EXCEPT ![c] = 0]
        /\ client' = [client EXCEPT ![r] = c]
        /\ wait' = [wait EXCEPT ![r] = 0]
        /\ UNCHANGED <<nap, verdict>>
    BY <1>0 DEF GetLimiter, TypeOK
  <1>2. \/ L = visitors[c] /\ visitors[c] # NULL /\ UNCHANGED <<visitors, level>>
        \/ /\ visitors[c] = NULL /\ L \in Unreferenced
           /\ visitors' = [visitors EXCEPT ![c] = L]
           /\ level' = [level EXCEPT ![L] = Capacity]
    BY <1>0 DEF GetLimiter, TypeOK, Unreferenced
  <1>3. L \in Limiters
    BY <1>0, <1>2 DEF TypeOK, Unreferenced
  <1> HIDE DEF L
  <1>4. TypeOK'
    <2>1. visitors' \in [Clients -> Limiters \cup {NULL}]
      BY <1>0, <1>2, <1>3 DEF TypeOK
    <2>2. level' \in [Limiters -> 0 .. Capacity]
      BY <1>0, <1>2, <1>3 DEF TypeOK
    <2>3. /\ idle' \in [Clients -> Idle] /\ wait' \in [Requests -> 0 .. MaxStall]
          /\ held' \in [Requests -> Limiters \cup {NULL}]
          /\ client' \in [Requests -> Clients \cup {NULL}]
      BY <1>0, <1>1, <1>3 DEF TypeOK, Idle
    <2> QED  BY <1>0, <1>1, <2>1, <2>2, <2>3 DEF TypeOK
  <1>5. AsksOwnBucket'
    <2>1. ASSUME NEW q \in Requests, held'[q] # NULL
          PROVE  client'[q] \in Clients /\ held'[q] = visitors'[client'[q]]
      BY <1>0, <1>1, <1>2, <1>3, <2>1 DEF TypeOK, AsksOwnBucket, Unreferenced
    <2>2. ASSUME NEW d \in Clients, NEW e \in Clients,
                 visitors'[d] # NULL, visitors'[d] = visitors'[e]
          PROVE  d = e
      <3>1. \A f \in Clients : visitors'[f] = IF f = c THEN L ELSE visitors[f]
        BY <1>0, <1>2 DEF TypeOK
      <3>2. \A f \in Clients : f # c => visitors[f] # L
        BY <1>0, <1>2, <1>3 DEF AsksOwnBucket, Unreferenced
      <3>3. visitors[d] # NULL /\ visitors[d] = visitors[e] => d = e
        BY <1>0 DEF AsksOwnBucket
      <3> QED  BY <2>2, <3>1, <3>2, <3>3
    <2> QED  BY <2>1, <2>2 DEF AsksOwnBucket
  <1>6. SeenSince'
    BY <1>0, <1>1, <1>3 DEF TypeOK, AsksOwnBucket, SeenSince, Idle
  <1>7. Refilled'
    <2> SUFFICES ASSUME NEW d \in Clients, visitors'[d] # NULL
                 PROVE  \/ level'[visitors'[d]] = Capacity
                        \/ idle'[d] <= level'[visitors'[d]] + MaxStall
      BY DEF Refilled
    <2>1. CASE d = c
      <3>1. idle'[d] = 0 /\ level'[visitors'[d]] \in 0 .. Capacity
        BY <1>0, <1>1, <1>4, <2>1 DEF TypeOK
      <3> QED  BY <3>1
    <2>2. CASE d # c
      <3>1. /\ visitors'[d] = visitors[d] /\ idle'[d] = idle[d]
            /\ level'[visitors[d]] = level[visitors[d]]
        BY <1>0, <1>1, <1>2, <1>3, <2>2 DEF TypeOK, Unreferenced
      <3> QED  BY <1>0, <3>1 DEF Refilled
    <2> QED  BY <2>1, <2>2
  <1> QED  BY <1>4, <1>5, <1>6, <1>7 DEF Inv

\* Taking a token preserves the invariant: it is taken at most MaxStall ticks
\* after the client was last seen.
LEMMA AllowInv ==
  ASSUME Inv, NEW r \in Requests, Allow(r)
  PROVE  Inv'
  <1> USE RateLimiterAssumption, CapacityNat
  <1> DEFINE L == held[r]
             c == client[r]
  <1>0. TypeOK /\ AsksOwnBucket /\ SeenSince /\ Refilled  BY DEF Inv
  <1>1. /\ L # NULL /\ L \in Limiters /\ c \in Clients /\ visitors[c] = L
        /\ held' = [held EXCEPT ![r] = NULL]
        /\ client' = [client EXCEPT ![r] = NULL]
        /\ wait' = [wait EXCEPT ![r] = 0]
        /\ UNCHANGED <<visitors, idle, nap>>
    BY <1>0 DEF Allow, TypeOK, AsksOwnBucket
  <1>2. /\ level' \in [Limiters -> 0 .. Capacity]
        /\ \A l \in Limiters : l # L => level'[l] = level[l]
    <2>1. CASE level[L] >= Period /\ level' = [level EXCEPT ![L] = @ - Period]
      <3>1. level[L] \in 0 .. Capacity /\ level \in [Limiters -> 0 .. Capacity]
        BY <1>0, <1>1 DEF TypeOK
      <3>2. level[L] - Period \in 0 .. Capacity
        BY <2>1, <3>1
      <3> QED  BY <1>1, <2>1, <3>1, <3>2
    <2>2. CASE UNCHANGED level
      BY <1>0, <2>2 DEF TypeOK
    <2> QED  BY <2>1, <2>2 DEF Allow
  <1>3. verdict' \in {<<>>} \cup Clients \X {"admitted", "refused"}
    BY <1>1 DEF Allow
  <1>4. idle[c] \in Nat /\ idle[c] <= MaxStall
    BY <1>0, <1>1 DEF TypeOK, SeenSince, Idle
  <1>5. TypeOK'
    BY <1>0, <1>1, <1>2, <1>3 DEF TypeOK
  <1>6. AsksOwnBucket'
    BY <1>0, <1>1 DEF TypeOK, AsksOwnBucket
  <1>7. SeenSince'
    BY <1>0, <1>1 DEF TypeOK, SeenSince
  <1>8. Refilled'
    <2> SUFFICES ASSUME NEW d \in Clients, visitors[d] # NULL
                 PROVE  \/ level'[visitors[d]] = Capacity
                        \/ idle[d] <= level'[visitors[d]] + MaxStall
      BY <1>1 DEF Refilled
    <2>1. CASE d = c
      <3>1. level'[visitors[d]] \in 0 .. Capacity
        BY <1>1, <1>2, <2>1
      <3> QED  BY <1>4, <2>1, <3>1
    <2>2. CASE d # c
      <3>1. level'[visitors[d]] = level[visitors[d]]
        BY <1>0, <1>1, <1>2, <2>2 DEF TypeOK, AsksOwnBucket
      <3> QED  BY <1>0, <3>1 DEF Refilled
    <2> QED  BY <2>1, <2>2
  <1> QED  BY <1>5, <1>6, <1>7, <1>8 DEF Inv

\* What a dropped entry held was a full bucket, and nobody was about to ask it.
LEMMA ExpiredIsFull ==
  ASSUME Inv, NEW c \in Clients, visitors[c] # NULL, Expired(c)
  PROVE  /\ level[visitors[c]] = Capacity
         /\ \A r \in Requests : held[r] # NULL => client[r] # c
  <1> USE RateLimiterAssumption, CapacityNat
  <1>0. TypeOK /\ SeenSince /\ Refilled  BY DEF Inv
  <1>1. idle[c] \in Nat /\ level[visitors[c]] \in 0 .. Capacity
    BY <1>0 DEF TypeOK, Idle
  <1>2. level[visitors[c]] = Capacity
    BY <1>0, <1>1 DEF Refilled, Expired
  <1>3. ASSUME NEW r \in Requests, held[r] # NULL, client[r] = c  PROVE FALSE
    <2>1. wait[r] \in 0 .. MaxStall /\ idle[c] <= wait[r]
      BY <1>0, <1>3 DEF TypeOK, SeenSince
    <2> QED  BY <1>1, <2>1 DEF Expired
  <1> QED  BY <1>2, <1>3

\* A clean-up preserves the invariant.
LEMMA SweepInv ==
  ASSUME Inv, Sweep
  PROVE  Inv'
  <1> USE RateLimiterAssumption, CapacityNat
  <1>0. TypeOK /\ AsksOwnBucket /\ SeenSince /\ Refilled  BY DEF Inv
  <1>1. \A d \in Clients :
          IF Expired(d) THEN visitors'[d] = NULL /\ idle'[d] = 0
          ELSE visitors'[d] = visitors[d] /\ idle'[d] = idle[d]
    BY DEF Sweep
  <1>2. UNCHANGED <<level, held, client, wait, verdict>> /\ nap' = IdleLimit
    BY DEF Sweep
  <1>3. TypeOK'
    <2>1. /\ visitors' \in [Clients -> Limiters \cup {NULL}]
          /\ idle' \in [Clients -> Idle]
      BY <1>0 DEF Sweep, TypeOK, Idle
    <2> QED  BY <1>0, <1>2, <2>1 DEF TypeOK
  <1>4. \A r \in Requests : held[r] # NULL => client[r] \in Clients /\ ~Expired(client[r])
    <2> SUFFICES ASSUME NEW r \in Requests, held[r] # NULL
                 PROVE  client[r] \in Clients /\ ~Expired(client[r])
      OBVIOUS
    <2>1. client[r] \in Clients /\ visitors[client[r]] # NULL
      BY <1>0 DEF AsksOwnBucket
    <2> QED  BY <2>1, ExpiredIsFull
  <1>5. AsksOwnBucket'
    BY <1>0, <1>1, <1>2, <1>4 DEF AsksOwnBucket
  <1>6. SeenSince'
    BY <1>0, <1>1, <1>2, <1>4 DEF SeenSince
  <1>7. Refilled'
    BY <1>0, <1>1, <1>2 DEF Refilled
  <1> QED  BY <1>3, <1>5, <1>6, <1>7 DEF Inv

\* A tick preserves the invariant: buckets refill as fast as clients age.
LEMMA TickInv ==
  ASSUME Inv, Tick
  PROVE  Inv'
  <1> USE RateLimiterAssumption, CapacityNat
  <1>0. TypeOK /\ AsksOwnBucket /\ SeenSince /\ Refilled  BY DEF Inv
  <1>1. UNCHANGED <<visitors, held, client, verdict>>
    BY DEF Tick
  <1>2. \A d \in Clients : idle[d] \in Nat /\ idle'[d] \in Idle /\ idle'[d] <= idle[d] + 1
    BY <1>0 DEF Tick, TypeOK, Idle
  <1>3. \A l \in Limiters :
          /\ level[l] \in 0 .. Capacity /\ level'[l] \in 0 .. Capacity
          /\ level'[l] = IF level[l] < Capacity THEN level[l] + 1 ELSE level[l]
    BY <1>0 DEF Tick, TypeOK, Refill
  <1>4. \A r \in Requests :
          /\ wait[r] \in 0 .. MaxStall /\ wait'[r] \in 0 .. MaxStall
          /\ held[r] # NULL => wait'[r] = wait[r] + 1
    BY <1>0 DEF Tick, TypeOK
  <1>5. TypeOK'
    <2>1. idle' \in [Clients -> Idle]  BY <1>2 DEF Tick
    <2>2. level' \in [Limiters -> 0 .. Capacity]  BY <1>3 DEF Tick
    <2>3. wait' \in [Requests -> 0 .. MaxStall]  BY <1>4 DEF Tick
    <2>4. nap' \in 0 .. IdleLimit  BY <1>0 DEF Tick, TypeOK
    <2> QED  BY <1>0, <1>1, <2>1, <2>2, <2>3, <2>4 DEF TypeOK
  <1>6. AsksOwnBucket'
    BY <1>0, <1>1 DEF AsksOwnBucket
  <1>7. SeenSince'
    <2> SUFFICES ASSUME NEW r \in Requests, held[r] # NULL
                 PROVE  idle'[client[r]] <= wait'[r]
      BY <1>1 DEF SeenSince
    <2>1. client[r] \in Clients /\ idle[client[r]] <= wait[r]
      BY <1>0 DEF AsksOwnBucket, SeenSince
    <2>2. idle'[client[r]] \in Nat
      BY <1>2, <2>1 DEF Idle
    <2> QED  BY <1>2, <1>4, <2>1, <2>2
  <1>8. Refilled'
    <2> SUFFICES ASSUME NEW d \in Clients, visitors[d] # NULL
                 PROVE  \/ level'[visitors[d]] = Capacity
                        \/ idle'[d] <= level'[visitors[d]] + MaxStall
      BY <1>1 DEF Refilled
    <2>1. visitors[d] \in Limiters
      BY <1>0 DEF TypeOK
    <2>2. level[visitors[d]] = Capacity \/ idle[d] <= level[visitors[d]] + MaxStall
      BY <1>0 DEF Refilled
    <2>3. idle'[d] \in Nat
      BY <1>2 DEF Idle
    <2> QED  BY <1>2, <1>3, <2>1, <2>2, <2>3
  <1> QED  BY <1>5, <1>6, <1>7, <1>8 DEF Inv

\* Every step preserves the invariant.
LEMMA NextInv == Inv /\ [Next]_vars => Inv'
  <1> SUFFICES ASSUME Inv, [Next]_vars PROVE Inv'  OBVIOUS
  <1>1. ASSUME NEW r \in Requests, Allow(r)  PROVE Inv'
    BY <1>1, AllowInv
  <1>2. ASSUME NEW r \in Requests, NEW c \in Clients, GetLimiter(r, c)  PROVE Inv'
    BY <1>2, GetLimiterInv
  <1>3. CASE Sweep  BY <1>3, SweepInv
  <1>4. CASE Tick  BY <1>4, TickInv
  <1>5. CASE UNCHANGED vars
    BY <1>5 DEF vars, Inv, TypeOK, AsksOwnBucket, SeenSince, Refilled
  <1> QED  BY <1>1, <1>2, <1>3, <1>4, <1>5 DEF Next

\* Inv holds in every reachable state.
LEMMA Invariance == Spec => []Inv
  BY InitInv, NextInv, PTL DEF Spec

-----------------------------------------------------------------------------
(* Theorems *)

\* The variables of the store keep their types; no bucket overflows.
THEOREM LimiterTypeCorrect == Spec => []TypeOK
  <1>1. Inv => TypeOK  BY DEF Inv
  <1> QED  BY <1>1, Invariance, PTL

\* No request ever asks a bucket that was dropped, or another client's.
THEOREM BucketsAreOwn == Spec => []AsksOwnBucket
  <1>1. Inv => AsksOwnBucket  BY DEF Inv
  <1> QED  BY <1>1, Invariance, PTL

\* The step of one request is one of its client's bucket.
LEMMA AllowImplements ==
  ASSUME Inv, NEW r \in Requests, Allow(r)
  PROVE  \E c \in Clients : Buckets!Admit(c) \/ Buckets!Refuse(c)
  <1> DEFINE L == held[r]
             c == client[r]
             B == [d \in Clients |-> Bucket(d)]
  <1>0. TypeOK /\ AsksOwnBucket  BY DEF Inv
  <1>1. L # NULL /\ L \in Limiters /\ c \in Clients /\ visitors[c] = L /\ visitors' = visitors
    BY <1>0 DEF Allow, TypeOK, AsksOwnBucket
  <1>2. B[c] = level[L]
    BY <1>1 DEF Bucket
  <1>3. \A d \in Clients : d # c /\ visitors[d] # NULL => visitors[d] \in Limiters \ {L}
    BY <1>0, <1>1 DEF TypeOK, AsksOwnBucket
  <1>4. CASE level[L] >= Period
    <2>1. level' = [level EXCEPT ![L] = @ - Period] /\ verdict' = <<c, "admitted">>
      BY <1>0, <1>1, <1>4, RateLimiterAssumption, CapacityNat DEF Allow, TypeOK
    <2>2. [d \in Clients |-> Bucket(d)]' = [B EXCEPT ![c] = @ - Period]
      BY <1>0, <1>1, <1>3, <2>1 DEF Bucket, TypeOK
    <2>3. Buckets!Admit(c)
      BY <1>2, <1>4, <2>1, <2>2 DEF Buckets!Admit
    <2> QED  BY <1>1, <2>3
  <1>5. CASE level[L] < Period
    <2>1. level' = level /\ verdict' = <<c, "refused">>
      BY <1>0, <1>1, <1>5, RateLimiterAssumption, CapacityNat DEF Allow, TypeOK
    <2>2. [d \in Clients |-> Bucket(d)]' = B
      BY <1>1, <2>1 DEF Bucket
    <2>3. Buckets!Refuse(c)
      BY <1>2, <1>5, <2>1, <2>2 DEF Buckets!Refuse
    <2> QED  BY <1>1, <2>3
  <1>6. level[L] \in Nat
    BY <1>0, <1>1, CapacityNat DEF TypeOK
  <1> QED  BY <1>4, <1>5, <1>6, RateLimiterAssumption

\* Every step of the store is one of the buckets or changes none of them.
LEMMA StepImplements ==
  ASSUME Inv, [Next]_vars
  PROVE  Buckets!Next \/ UNCHANGED <<[c \in Clients |-> Bucket(c)], verdict>>
  <1> DEFINE B == [c \in Clients |-> Bucket(c)]
  <1>0. TypeOK /\ AsksOwnBucket  BY DEF Inv
  <1>1. ASSUME NEW r \in Requests, Allow(r)  PROVE Buckets!Next
    BY <1>1, AllowImplements DEF Buckets!Next
  <1>2. ASSUME NEW r \in Requests, NEW c \in Clients, GetLimiter(r, c)
        PROVE  UNCHANGED <<[d \in Clients |-> Bucket(d)], verdict>>
    <2>1. CASE visitors[c] # NULL
      BY <1>2, <2>1 DEF GetLimiter, Bucket
    <2>2. CASE visitors[c] = NULL
      <3>1. PICK l \in Unreferenced : visitors' = [visitors EXCEPT ![c] = l]
                                      /\ level' = [level EXCEPT ![l] = Capacity]
        BY <1>2, <2>2 DEF GetLimiter
      <3>2. l \in Limiters /\ l # NULL /\ \A d \in Clients : visitors[d] # l
        BY RateLimiterAssumption DEF Unreferenced
      <3>3. ASSUME NEW d \in Clients  PROVE Bucket(d)' = Bucket(d)
        BY <1>0, <2>2, <3>1, <3>2 DEF Bucket, TypeOK
      <3> QED  BY <1>2, <3>3 DEF GetLimiter
    <2> QED  BY <2>1, <2>2
  <1>3. CASE Sweep
    <2>1. ASSUME NEW d \in Clients  PROVE Bucket(d)' = Bucket(d)
      <3>1. CASE Expired(d) /\ visitors[d] # NULL
        <4>1. level[visitors[d]] = Capacity  BY <3>1, ExpiredIsFull
        <4> QED  BY <1>3, <3>1, <4>1 DEF Sweep, Bucket
      <3>2. CASE ~(Expired(d) /\ visitors[d] # NULL)
        BY <1>3, <3>2 DEF Sweep, Bucket
      <3> QED  BY <3>1, <3>2
    <2> QED  BY <1>3, <2>1 DEF Sweep
  <1>4. CASE Tick
    <2>1. ASSUME NEW d \in Clients
          PROVE  Bucket(d)' = IF Bucket(d) < Capacity THEN Bucket(d) + 1 ELSE Bucket(d)
      BY <1>0, <1>4, <2>1, CapacityNat DEF Tick, Bucket, Refill, TypeOK
    <2>2. B' = [d \in Clients |-> IF B[d] < Capacity THEN B[d] + 1 ELSE B[d]]
      BY <2>1
    <2>3. Buckets!Refill
      BY <1>4, <2>2 DEF Tick, Buckets!Refill
    <2> QED  BY <2>3 DEF Buckets!Next
  <1>5. CASE UNCHANGED vars
    BY <1>5 DEF vars, Bucket
  <1> QED  BY <1>1, <1>2, <1>3, <1>4, <1>5 DEF Next

\* Looking buckets up under a mutex, using them outside it and dropping them is
\* the same as one bucket per client for ever.
THEOREM LimiterImplementsBuckets == Spec => ImplementsTokenBuckets
  <1>1. Init => Buckets!Init
    BY DEF Init, Bucket, Buckets!Init
  <1>2. Inv /\ [Next]_vars => [Buckets!Next]_Buckets!bvars
    BY StepImplements DEF Buckets!bvars
  <1> QED  BY <1>1, <1>2, Invariance, PTL DEF Spec, Buckets!Spec, ImplementsTokenBuckets
=============================================================================
