---------------------------- MODULE LoginProofs ----------------------------
(***************************************************************************)
(* What holds of the lockout for any number of logins in flight, any       *)
(* threshold and any duration.                                             *)
(***************************************************************************)
EXTENDS Login, FiniteSetTheorems, TLAPS

InFlight == {r \in Requests : pc[r] # "idle"}

\* While the account is locked, every late guess has used up a login that was in
\* flight when the lock began, and the one that locked it is not among them.
LateInv ==
  IF Locked THEN late + Cardinality(InFlight) < Cardinality(Requests) ELSE late = 0

\* The inductive invariant: the stored counter is the true one.
LoginInv == TypeOK /\ attempts = failed /\ LockCountsEveryFailure /\ LateInv

-----------------------------------------------------------------------------
(* Counting *)

\* One more, up to the threshold, is a count, and is above zero.
LEMMA IncrementType ==
  ASSUME NEW n \in Count
  PROVE  /\ Increment(n) \in Count
         /\ Increment(n) >= MaxFailedLoginAttempts <=> Increment(n) = MaxFailedLoginAttempts
         /\ n = MaxFailedLoginAttempts => Increment(n) = MaxFailedLoginAttempts
  BY LoginAssumption DEF Count, Increment

\* The logins in flight are finitely many, and no more than there can be.
LEMMA InFlightFinite ==
  /\ IsFiniteSet(InFlight)
  /\ Cardinality(InFlight) \in Nat /\ Cardinality(Requests) \in Nat
  /\ Cardinality(InFlight) <= Cardinality(Requests)
  /\ Cardinality(Requests) > 0
<1>1. InFlight \subseteq Requests
  BY DEF InFlight
<1>2. Cardinality(Requests) # 0
  BY LoginAssumption, FS_EmptySet
<1> QED
  BY <1>1, <1>2, LoginAssumption, FS_Subset, FS_CardinalityType

\* A login that ends leaves one fewer in flight.
LEMMA FinishCount ==
  ASSUME TypeOK, NEW r \in Requests, pc[r] # "idle", Finish(r)
  PROVE  Cardinality(InFlight') = Cardinality(InFlight) - 1
<1>1. InFlight' = InFlight \ {r} /\ r \in InFlight
  BY DEF InFlight, TypeOK, Finish
<1> QED
  BY <1>1, InFlightFinite, FS_RemoveElement

-----------------------------------------------------------------------------
(* The inductive invariant *)

LEMMA LoginInit == Init => LoginInv
<1> SUFFICES ASSUME Init PROVE LoginInv
  OBVIOUS
<1>1. TypeOK /\ attempts = failed
  BY LoginAssumption DEF Init, TypeOK, Count, Locations
<1>2. LockCountsEveryFailure /\ LateInv
  BY LoginAssumption DEF Init, LockCountsEveryFailure, LateInv, Locked
<1> QED
  BY <1>1, <1>2 DEF LoginInv

LEMMA RecordStep == ASSUME LoginInv, NEW r \in Requests, Record(r) PROVE LoginInv'
<1> DEFINE count == Increment(attempts)
<1>1. /\ attempts' = count /\ failed' = count /\ count \in Count
      /\ lock' = IF count = MaxFailedLoginAttempts THEN LockoutDuration ELSE lock
      /\ count >= MaxFailedLoginAttempts <=> count = MaxFailedLoginAttempts
      /\ attempts = MaxFailedLoginAttempts => count = MaxFailedLoginAttempts
  BY IncrementType DEF LoginInv, TypeOK, Record, NewCount, NewLock
<1> HIDE DEF count
<1>2. TypeOK'
  BY <1>1, LoginAssumption DEF LoginInv, TypeOK, Record, Finish, Locations, Count
<1>3. LockCountsEveryFailure'
  BY <1>1, LoginAssumption DEF LoginInv, LockCountsEveryFailure
<1>4. /\ Cardinality(InFlight') = Cardinality(InFlight) - 1
      /\ late' = IF Locked THEN late + 1 ELSE late
  BY FinishCount DEF LoginInv, Record
<1>5. CASE Locked
  <2>1. late + Cardinality(InFlight) < Cardinality(Requests)
    BY <1>5 DEF LoginInv, LateInv
  <2>2. late' + Cardinality(InFlight') < Cardinality(Requests)
    BY <1>4, <1>5, <2>1, InFlightFinite DEF LoginInv, TypeOK
  <2>3. attempts = MaxFailedLoginAttempts
    BY <1>5 DEF LoginInv, LockCountsEveryFailure, Locked
  <2>4. Locked'
    BY <1>1, <2>3, LoginAssumption DEF Locked
  <2> QED
    BY <1>1, <1>2, <1>3, <2>2, <2>4 DEF LoginInv, LateInv
<1>6. CASE ~Locked
  <2>1. late' = 0 /\ 0 + Cardinality(InFlight') < Cardinality(Requests)
    BY <1>4, <1>6, InFlightFinite DEF LoginInv, LateInv
  <2>2. LateInv'
    BY <2>1, InFlightFinite DEF LateInv
  <2> QED
    BY <1>1, <1>2, <1>3, <2>2 DEF LoginInv
<1> QED
  BY <1>5, <1>6

LEMMA ResetStep == ASSUME LoginInv, NEW r \in Requests, Reset(r) PROVE LoginInv'
<1>1. TypeOK'
  BY LoginAssumption DEF LoginInv, TypeOK, Reset, Finish, Locations, Count
<1>2. LockCountsEveryFailure' /\ LateInv'
  BY LoginAssumption DEF Reset, LockCountsEveryFailure, LateInv, Locked
<1> QED
  BY <1>1, <1>2 DEF LoginInv, Reset

LEMMA WriteFailsStep ==
  ASSUME LoginInv, NEW r \in Requests, WriteFails(r) PROVE LoginInv'
<1>1. TypeOK'
  BY DEF LoginInv, TypeOK, WriteFails, Finish, Locations
<1>2. LockCountsEveryFailure' /\ (Locked' <=> Locked) /\ late' = late
  BY DEF LoginInv, LockCountsEveryFailure, WriteFails, Locked
<1>3. LateInv'
  <2>1. Cardinality(InFlight') = Cardinality(InFlight) - 1
    BY FinishCount DEF LoginInv, WriteFails
  <2> QED
    BY <1>2, <2>1, InFlightFinite DEF LoginInv, LateInv, TypeOK
<1> QED
  BY <1>1, <1>2, <1>3 DEF LoginInv, WriteFails

LEMMA ArriveStep == ASSUME LoginInv, NEW r \in Requests, Arrive(r) PROVE LoginInv'
<1>1. TypeOK'
  BY DEF LoginInv, TypeOK, Arrive, Locations
<1>2. LockCountsEveryFailure' /\ LateInv'
  BY DEF LoginInv, LockCountsEveryFailure, LateInv, Locked, Arrive
<1> QED
  BY <1>1, <1>2 DEF LoginInv, Arrive

LEMMA TickStep == ASSUME LoginInv, Tick PROVE LoginInv'
<1>1. CASE Locked
  <2>1. lock \in Nat /\ lock > 0 /\ lock <= LockoutDuration /\ lock' = lock - 1
    BY <1>1, LoginAssumption DEF LoginInv, TypeOK, Locked, Tick
  <2>2. lock' \in 0 .. LockoutDuration /\ lock' # NULL
    BY <2>1, LoginAssumption
  <2>3. late' = IF lock = 1 THEN 0 ELSE late
    BY DEF Tick
  <2>4. TypeOK'
    BY <2>2, <2>3 DEF LoginInv, TypeOK, Tick
  <2>5. LockCountsEveryFailure'
    BY <1>1, <2>2 DEF LoginInv, LockCountsEveryFailure, Locked, Tick
  <2>6. Locked' <=> lock # 1
    BY <2>1, <2>2 DEF Locked
  <2>7. InFlight' = InFlight
    BY DEF InFlight, Tick
  <2>8. LateInv'
    BY <1>1, <2>3, <2>6, <2>7 DEF LoginInv, LateInv
  <2> QED
    BY <2>4, <2>5, <2>8 DEF LoginInv, Tick
<1>2. CASE ~Locked
  <2>1. lock' = lock /\ late' = 0
    BY <1>2 DEF Tick, LoginInv, LateInv
  <2>2. TypeOK'
    BY <2>1 DEF LoginInv, TypeOK, Tick
  <2>3. LockCountsEveryFailure' /\ LateInv'
    BY <1>2, <2>1 DEF LoginInv, LockCountsEveryFailure, LateInv, Locked, Tick
  <2> QED
    BY <2>2, <2>3 DEF LoginInv, Tick
<1> QED
  BY <1>1, <1>2

LEMMA LoginStep == LoginInv /\ [Next]_vars => LoginInv'
<1> SUFFICES ASSUME LoginInv, [Next]_vars PROVE LoginInv'
  OBVIOUS
<1>1. CASE Tick
  BY <1>1, TickStep
<1>2. ASSUME NEW r \in Requests, Step(r) PROVE LoginInv' \/ UNCHANGED vars
  BY <1>2, ArriveStep, RecordStep, ResetStep, WriteFailsStep DEF Step, Refuse
<1>3. ASSUME UNCHANGED vars PROVE LoginInv'
  BY <1>3 DEF vars, LoginInv, TypeOK, LockCountsEveryFailure, LateInv, Locked, InFlight
<1> QED
  BY <1>1, <1>2, <1>3 DEF Next

LEMMA LoginInvariant == Spec => []LoginInv
  BY LoginInit, LoginStep, PTL DEF Spec

-----------------------------------------------------------------------------
(* Theorems *)

\* The account and the logins always have their types.
THEOREM LoginTypeCorrect == Spec => []TypeOK
<1>1. LoginInv => TypeOK
  BY DEF LoginInv
<1> QED
  BY <1>1, LoginInvariant, PTL

\* No failure is lost, however many logins overlap.
THEOREM NoFailureLost == Spec => []LockCountsEveryFailure
<1>1. LoginInv => LockCountsEveryFailure
  BY DEF LoginInv
<1> QED
  BY <1>1, LoginInvariant, PTL

\* A lock lets through fewer guesses than there can be logins in flight.
THEOREM LateGuessesAreBounded == Spec => []LateGuessesBounded
<1>1. LoginInv => LateGuessesBounded
  <2>1. SUFFICES ASSUME LoginInv PROVE late < Cardinality(Requests)
    BY DEF LateGuessesBounded
  <2> QED
    BY <2>1, InFlightFinite DEF LoginInv, LateInv, TypeOK
<1> QED
  BY <1>1, LoginInvariant, PTL
=============================================================================
