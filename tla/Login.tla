------------------------------- MODULE Login -------------------------------
(***************************************************************************)
(* Login attempts on one account, and its lockout: AuthService.Login over  *)
(* UserRepo.GetByEmail, RecordFailedLogin and ResetLoginAttempts.          *)
(*                                                                         *)
(* Requests is the number of logins that can run at once; each of them     *)
(* starts again and again.  A login reads the row once and tests its lock  *)
(* at once, then spends long in bcrypt, and only then writes: other logins *)
(* and the clock move in between.                                          *)
(*                                                                         *)
(* locked_until is kept as the time left until it: LockoutDuration when it *)
(* is set, 0 when it is past (the row keeps the old value), NULL when the  *)
(* column is NULL.  Only whether failed_login_attempts reaches the         *)
(* threshold is ever read, so the model stops counting there.              *)
(***************************************************************************)
EXTENDS Naturals, FiniteSets

CONSTANTS
  Requests,                \* logins that can be in flight at once
  MaxFailedLoginAttempts,  \* maxFailedLoginAttempts: 5 in the code
  LockoutDuration,         \* lockoutDuration, in ticks: 15 minutes in the code
  NULL                     \* SQL NULL

ASSUME LoginAssumption ==
  /\ IsFiniteSet(Requests) /\ Requests # {}
  /\ MaxFailedLoginAttempts \in Nat /\ MaxFailedLoginAttempts > 0
  /\ LockoutDuration \in Nat /\ LockoutDuration > 0
  /\ NULL \notin Nat

VARIABLES
  attempts,  \* users.failed_login_attempts, up to MaxFailedLoginAttempts
  lock,      \* users.locked_until, as time left
  pc,        \* where each login is
  read,      \* the counter in the row the login read
  failed,    \* history: failures stored since the last reset, up to the threshold
  late       \* history: failures stored since the account was locked

vars == <<attempts, lock, pc, read, failed, late>>

Locations == {"idle", "wrong", "right"}
Count == 0 .. MaxFailedLoginAttempts

Locked == lock # NULL /\ lock > 0

\* One more, up to the threshold.
Increment(n) == IF n < MaxFailedLoginAttempts THEN n + 1 ELSE n

Finish(r) == pc' = [pc EXCEPT ![r] = "idle"]

-----------------------------------------------------------------------------
(* The steps of a login *)

\* Mutant: the lock is not looked at.
ArriveUnchecked(r) ==
  /\ pc[r] = "idle"
  /\ pc' \in {[pc EXCEPT ![r] = "wrong"], [pc EXCEPT ![r] = "right"]}
  /\ read' = [read EXCEPT ![r] = attempts]
  /\ UNCHANGED <<attempts, lock, failed, late>>

\* The row is read and not locked: the password that came with the request is
\* compared, and it is the right one or not.
Arrive(r) ==
  /\ pc[r] = "idle"
  /\ ~Locked
  /\ pc' \in {[pc EXCEPT ![r] = "wrong"], [pc EXCEPT ![r] = "right"]}
  /\ read' = [read EXCEPT ![r] = attempts]
  /\ UNCHANGED <<attempts, lock, failed, late>>

\* Mutant: an attempt on a locked account starts the lock anew.
RefuseExtends(r) ==
  /\ pc[r] = "idle"
  /\ lock' = IF Locked THEN LockoutDuration ELSE lock
  /\ UNCHANGED <<attempts, pc, read, failed, late>>

\* The row is locked (403), the body is malformed, no user has the email, or
\* the query fails: answered at once.
Refuse(r) ==
  /\ pc[r] = "idle"
  /\ UNCHANGED vars

\* Mutant: the counter is computed from the row read before bcrypt.
StaleCount(r) == Increment(read[r])

\* SET failed_login_attempts = failed_login_attempts + 1, in the statement.
NewCount(r) == Increment(attempts)

\* Mutant: a lock is added to the time that is left of the one before.
LockAdded(count) ==
  IF count >= MaxFailedLoginAttempts
  THEN LockoutDuration + (IF Locked THEN lock ELSE 0) ELSE lock

\* The CASE of RecordFailedLogin, over the same new count.
NewLock(count) == IF count >= MaxFailedLoginAttempts THEN LockoutDuration ELSE lock

\* RecordFailedLogin, and the answer 401.
Record(r) ==
  /\ pc[r] = "wrong"
  /\ attempts' = NewCount(r)
  /\ lock' = NewLock(NewCount(r))
  /\ failed' = Increment(failed)
  /\ late' = IF Locked THEN late + 1 ELSE late
  /\ Finish(r)
  /\ UNCHANGED read

\* ResetLoginAttempts, and the answer 200.
Reset(r) ==
  /\ pc[r] = "right"
  /\ attempts' = 0
  /\ lock' = NULL
  /\ failed' = 0
  /\ late' = 0
  /\ Finish(r)
  /\ UNCHANGED read

\* The final statement fails or the process dies; Login ignores the error, so
\* the answer, if one is given, is that of Record or Reset.
WriteFails(r) ==
  /\ pc[r] # "idle"
  /\ Finish(r)
  /\ UNCHANGED <<attempts, lock, read, failed, late>>

\* Time passes.
Tick ==
  /\ lock' = IF Locked THEN lock - 1 ELSE lock
  /\ late' = IF lock = 1 THEN 0 ELSE late
  /\ UNCHANGED <<attempts, pc, read, failed>>

Init ==
  /\ attempts = 0
  /\ lock = NULL
  /\ pc = [r \in Requests |-> "idle"]
  /\ read = [r \in Requests |-> 0]
  /\ failed = 0
  /\ late = 0

Step(r) == Arrive(r) \/ Refuse(r) \/ Record(r) \/ Reset(r) \/ WriteFails(r)

Next == Tick \/ \E r \in Requests : Step(r)

\* Time passes; nothing is assumed of the logins.
Spec == Init /\ [][Next]_vars /\ WF_vars(Tick)

-----------------------------------------------------------------------------
(* Properties *)

TypeOK ==
  /\ attempts \in Count
  /\ lock \in 0 .. LockoutDuration \cup {NULL}
  /\ pc \in [Requests -> Locations]
  /\ read \in [Requests -> Count]
  /\ failed \in Count
  /\ late \in Nat

\* However logins overlap, no stored failure is lost: the account carries a
\* lock, running or past, exactly when MaxFailedLoginAttempts of them came
\* since the last success.
LockCountsEveryFailure ==
  (lock # NULL) <=> (failed = MaxFailedLoginAttempts)

\* Once locked, only logins that had read the row before can still have their
\* guess tried and stored; no login that arrives during the lock is added.
LateGuessesBounded == late < Cardinality(Requests)

\* A lock ends, although logins keep coming and those in flight extend it.
LockEnds == Locked ~> ~Locked

=============================================================================
