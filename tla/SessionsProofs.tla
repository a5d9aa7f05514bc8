--------------------------- MODULE SessionsProofs ---------------------------
(***************************************************************************)
(* What holds of sessions for any number of requests, tokens and users,    *)
(* and any lifetime and idle timeout.                                      *)
(***************************************************************************)
EXTENDS Sessions, TLAPS

\* A request at rest has no user.  A copy that will be written back has a
\* user.  Whoever is let through as an
\* admin has a user and was one while the request ran, and whoever still waits
\* for that check and is an admin now is remembered as one.
CopiesInv ==
  \A r \in Requests :
    /\ pc[r] = "idle" => req[r].user = NULL
    /\ req[r].status = "modified" => req[r].user # NULL
    /\ pc[r] = "admin" /\ req[r].user \in admins => was[r]
    /\ pc[r] = "act" => was[r] /\ req[r].user # NULL

\* The inductive invariant.
Inv == TypeOK /\ SessionsKeepOwner /\ CopiesInv

-----------------------------------------------------------------------------
(* Helpers *)

\* Time goes down, and not below 0.
LEMMA LessType == \A n \in Time : Less(n) \in Time
  BY SessionsAssumption DEF Less, Time

\* Less keeps the order of two instants.
LEMMA LessMonotone == \A m, n \in Time : m <= n => Less(m) <= Less(n)
  BY SessionsAssumption DEF Less, Time

\* A session that is written back expires no later than its deadline.
LEMMA ExpiryType == \A n \in Time : Expiry(n) \in Time /\ Expiry(n) <= n
  BY SessionsAssumption DEF Expiry, Time

\* A lifetime, and its end, are instants.
LEMMA TimeBounds == Lifetime \in Time /\ 0 \in Time
  BY SessionsAssumption DEF Time

\* The table without a row keeps the others as they are.
LEMMA WithoutFacts ==
  ASSUME TypeOK, NEW t
  PROVE  /\ DOMAIN Without(t) \subseteq DOMAIN store
         /\ Without(t) \in [DOMAIN Without(t) -> Row]
         /\ \A s \in DOMAIN Without(t) : Without(t)[s] = store[s]
  BY DEF TypeOK, Without

\* A session is what its token was drawn for, and so of the right types.
LEMMA OwnerTypes ==
  ASSUME Inv, NEW r \in Requests, req[r].user # NULL
  PROVE  /\ req[r].token \in DOMAIN issued /\ req[r].token \in Tokens
         /\ req[r].user \in Users /\ req[r].deadline \in Time
         /\ req[r].user = issued[req[r].token].user
         /\ req[r].deadline = issued[req[r].token].deadline
  BY DEF Inv, TypeOK, SessionsKeepOwner, IsSessionOf, Issue

-----------------------------------------------------------------------------
(* The steps that end with everything about the copies as it was *)

\* Steps that move one request on and may remove a row from the table.
Moves(r) ==
  /\ \E location \in {"commit", "act"} :
       /\ Goto(r, location)
       /\ location = "act" =>
            pc[r] = "admin" /\ req[r].user # NULL /\ req[r].user \in admins
  /\ store' \in {store, Without(req[r].token)}
  /\ UNCHANGED <<issued, admins, req, was>>

\* A step of this kind keeps the invariant.
LEMMA MovesKeep ==
  ASSUME Inv, NEW r \in Requests, Moves(r)
  PROVE  Inv'
<1>1. PICK location \in {"commit", "act"} :
        /\ Goto(r, location)
        /\ location = "act" =>
             pc[r] = "admin" /\ req[r].user # NULL /\ req[r].user \in admins
  BY DEF Moves
<1>2. /\ DOMAIN store' \subseteq DOMAIN store /\ store' \in [DOMAIN store' -> Row]
      /\ \A s \in DOMAIN store' : store'[s] = store[s]
  BY WithoutFacts DEF Moves, Inv, TypeOK
<1>3. TypeOK'
  BY <1>1, <1>2 DEF Moves, Inv, TypeOK, Goto, Locations, Operations
<1>4. SessionsKeepOwner'
  BY <1>2 DEF Moves, Inv, SessionsKeepOwner, IsSessionOf
<1>5. CopiesInv'
  BY <1>1 DEF Moves, Inv, TypeOK, CopiesInv, Goto
<1> QED
  BY <1>3, <1>4, <1>5 DEF Inv

\* Which steps these are.
LEMMA MovesAre ==
  ASSUME Inv, NEW r \in Requests,
         Unauthorized(r) \/ CheckRole(r) \/ LoginRefused(r) \/ DeleteFails(r)
  PROVE  Moves(r)
<1>1. CASE Unauthorized(r)
  BY <1>1 DEF Unauthorized, Moves
<1>2. CASE CheckRole(r)
  BY <1>2 DEF CheckRole, Moves
<1>3. CASE LoginRefused(r)
  BY <1>3 DEF LoginRefused, Moves
<1>4. CASE DeleteFails(r)
  BY <1>4 DEF DeleteFails, Moves
<1> QED
  BY <1>1, <1>2, <1>3, <1>4

-----------------------------------------------------------------------------
(* The other steps of a request *)

\* A loaded copy is the session of its token.
LEMMA LoadKeeps ==
  ASSUME Inv, NEW r \in Requests, LoadSession(r)
  PROVE  Inv'
<1>1. PICK op \in Operations, t \in DOMAIN store :
        /\ req' = [req EXCEPT ![r] = [token |-> t, user |-> store[t].user,
                                      deadline |-> store[t].deadline,
                                      status |-> "modified"]]
        /\ Goto(r, op)
        /\ was' = [was EXCEPT ![r] = (op = "admin" /\ store[t].user \in admins)]
  BY DEF LoadSession
<1>2. /\ t \in Tokens /\ store[t].user \in Users /\ store[t].deadline \in Time
      /\ IsSessionOf(store[t], t) /\ store[t].user # NULL
  BY SessionsAssumption DEF Inv, TypeOK, Row, SessionsKeepOwner
<1>3. TypeOK'
  BY <1>1, <1>2 DEF LoadSession, Inv, TypeOK, Session, Goto, Locations
<1>4. SessionsKeepOwner'
  BY <1>1, <1>2 DEF LoadSession, Inv, TypeOK, SessionsKeepOwner, IsSessionOf
<1>5. CopiesInv'
  BY <1>1, <1>2 DEF LoadSession, Inv, TypeOK, CopiesInv, Goto, Operations
<1> QED
  BY <1>3, <1>4, <1>5 DEF Inv

\* A request that starts without a session has no user, so its location says
\* nothing of admins.
LEMMA LoadNothingKeeps ==
  ASSUME Inv, NEW r \in Requests, LoadNothing(r)
  PROVE  Inv'
<1>1. TypeOK'
  BY DEF LoadNothing, Inv, TypeOK, Goto, Locations
<1>2. SessionsKeepOwner'
  BY DEF LoadNothing, Inv, SessionsKeepOwner, IsSessionOf
<1>3. NULL \notin admins /\ req[r].user = NULL
  BY SessionsAssumption DEF LoadNothing, Inv, TypeOK, CopiesInv, NoSession
<1>4. CopiesInv'
  BY <1>3 DEF LoadNothing, Inv, TypeOK, CopiesInv, Goto, Operations
<1> QED
  BY <1>1, <1>2, <1>4 DEF Inv
\* A new token is nobody's yet, so that what is stored for it is its own.
LEMMA LoginKeeps ==
  ASSUME Inv, NEW r \in Requests, Login(r)
  PROVE  Inv'
<1>1. PICK u \in Users, t \in Tokens \ DOMAIN issued :
        /\ issued' = [s \in DOMAIN issued \cup {t} |->
                        IF s = t THEN [user |-> u, deadline |-> Lifetime] ELSE issued[s]]
        /\ req' = [req EXCEPT ![r] = [token |-> t, user |-> u, deadline |-> Lifetime,
                                      status |-> "modified"]]
  BY DEF Login
<1>2. /\ DOMAIN store' \subseteq DOMAIN store /\ store' \in [DOMAIN store' -> Row]
      /\ \A s \in DOMAIN store' : store'[s] = store[s]
  BY WithoutFacts DEF Login, Inv
<1>3. /\ DOMAIN issued \subseteq DOMAIN issued'
      /\ \A s \in DOMAIN issued : issued'[s] = issued[s]
      /\ t \in DOMAIN issued' /\ issued'[t] = [user |-> u, deadline |-> Lifetime]
  BY <1>1
<1>4. TypeOK'
  <2>1. DOMAIN issued' \subseteq Tokens /\ issued' \in [DOMAIN issued' -> Issue]
    BY <1>1, TimeBounds DEF Inv, TypeOK, Issue
  <2>2. req' \in [Requests -> Session]
    BY <1>1, TimeBounds DEF Inv, TypeOK, Session
  <2> QED
    BY <2>1, <2>2, <1>2 DEF Login, Inv, TypeOK, Goto, Locations, Operations
<1>5. SessionsKeepOwner'
  BY <1>1, <1>2, <1>3 DEF Inv, TypeOK, SessionsKeepOwner, IsSessionOf
<1>6. CopiesInv'
  BY <1>1, SessionsAssumption DEF Login, Inv, TypeOK, CopiesInv, Goto
<1> QED
  BY <1>4, <1>5, <1>6 DEF Inv

\* A session that is removed leaves the others as they are.
LEMMA LogoutKeeps ==
  ASSUME Inv, NEW r \in Requests, Logout(r)
  PROVE  Inv'
<1>1. /\ DOMAIN store' \subseteq DOMAIN store /\ store' \in [DOMAIN store' -> Row]
      /\ \A s \in DOMAIN store' : store'[s] = store[s]
  BY WithoutFacts DEF Logout, Inv
<1>2. TypeOK'
  BY <1>1, TimeBounds DEF Logout, Inv, TypeOK, Session, Goto, Locations, Operations
<1>3. SessionsKeepOwner'
  BY <1>1 DEF Logout, Inv, TypeOK, SessionsKeepOwner, IsSessionOf
<1>4. CopiesInv'
  BY DEF Logout, Inv, TypeOK, CopiesInv, Goto
<1> QED
  BY <1>2, <1>3, <1>4 DEF Inv

\* Whoever becomes an admin while waiting for the check is remembered.
LEMMA ActKeeps ==
  ASSUME Inv, NEW r \in Requests, Act(r)
  PROVE  Inv'
<1>1. admins' \subseteq Users
  BY DEF Act, Inv, TypeOK
<1>2. was' \in [Requests -> BOOLEAN]
  BY DEF Act
<1>3. TypeOK'
  BY <1>1, <1>2 DEF Act, Inv, TypeOK, Goto, Locations, Operations
<1>4. SessionsKeepOwner'
  BY DEF Act, Inv, SessionsKeepOwner, IsSessionOf
<1>5. CopiesInv'
  <2> SUFFICES ASSUME NEW q \in Requests
               PROVE  /\ pc'[q] = "idle" => req'[q].user = NULL
                      /\ req'[q].status = "modified" => req'[q].user # NULL
                      /\ pc'[q] = "admin" /\ req'[q].user \in admins' => was'[q]
                      /\ pc'[q] = "act" => was'[q] /\ req'[q].user # NULL
    BY DEF CopiesInv
  <2>1. pc'[q] = IF q = r THEN "commit" ELSE pc[q]
    BY DEF Act, Goto, Inv, TypeOK
  <2>2. was'[q] = (was[q] \/ (pc[q] = "admin" /\ req[q].user \in admins'))
    BY DEF Act
  <2> QED
    BY <2>1, <2>2 DEF Act, Inv, CopiesInv
<1> QED
  BY <1>3, <1>4, <1>5 DEF Inv

\* What a request leaves behind when it ends: its copy is gone.
LEMMA FinishKeeps ==
  ASSUME Inv, NEW r \in Requests, Commit(r) \/ Respond(r)
  PROVE  Inv'
<1>1. Finish(r)
  BY DEF Commit, Respond
<1>2. /\ DOMAIN store' \subseteq Tokens /\ store' \in [DOMAIN store' -> Row]
      /\ \A t \in DOMAIN store' :
           IsSessionOf(store'[t], t) /\ store'[t].expiry <= issued[t].deadline
  <2>1. CASE UNCHANGED store
    BY <2>1 DEF Inv, TypeOK, SessionsKeepOwner
  <2>2. CASE Commit(r) /\ store' # store
    <3> DEFINE row == [user |-> req[r].user, deadline |-> req[r].deadline,
                       expiry |-> Expiry(req[r].deadline)]
    <3>1. req[r].user # NULL
      BY <2>2 DEF Commit, Inv, CopiesInv
    <3>2. /\ row \in Row /\ row.expiry <= issued[req[r].token].deadline
          /\ IsSessionOf(row, req[r].token) /\ req[r].token \in Tokens
      BY <3>1, OwnerTypes, ExpiryType DEF Row, IsSessionOf
    <3> HIDE DEF row
    <3>3. store' = [t \in DOMAIN store \cup {req[r].token} |->
                      IF t = req[r].token THEN row ELSE store[t]]
      BY <2>2 DEF Commit, row
    <3> QED
      BY <3>2, <3>3 DEF Inv, TypeOK, SessionsKeepOwner
  <2> QED
    BY <2>1, <2>2 DEF Respond
<1>3. TypeOK'
  BY <1>1, <1>2, TimeBounds
     DEF Finish, Inv, TypeOK, Session, NoSession, Goto, Locations, Operations
<1>4. SessionsKeepOwner'
  BY <1>1, <1>2 DEF Finish, Inv, TypeOK, SessionsKeepOwner, IsSessionOf, NoSession
<1>5. CopiesInv'
  BY <1>1 DEF Finish, Inv, TypeOK, CopiesInv, Goto, NoSession
<1> QED
  BY <1>3, <1>4, <1>5 DEF Inv

-----------------------------------------------------------------------------
(* What happens besides *)

LEMMA CrashKeeps ==
  ASSUME Inv, Crash
  PROVE  Inv'
<1>1. TypeOK'
  BY TimeBounds DEF Crash, Inv, TypeOK, Session, NoSession, Locations, Operations
<1>2. SessionsKeepOwner' /\ CopiesInv'
  BY DEF Crash, Inv, TypeOK, SessionsKeepOwner, CopiesInv, IsSessionOf, NoSession
<1> QED
  BY <1>1, <1>2 DEF Inv

LEMMA CleanupKeeps ==
  ASSUME Inv, Cleanup
  PROVE  Inv'
<1>1. /\ DOMAIN store' \subseteq DOMAIN store /\ store' \in [DOMAIN store' -> Row]
      /\ \A s \in DOMAIN store' : store'[s] = store[s]
  BY DEF Cleanup, Inv, TypeOK
<1>2. TypeOK'
  BY <1>1 DEF Cleanup, Inv, TypeOK
<1>3. SessionsKeepOwner' /\ CopiesInv'
  BY <1>1 DEF Cleanup, Inv, SessionsKeepOwner, CopiesInv, IsSessionOf
<1> QED
  BY <1>2, <1>3 DEF Inv

\* The deadlines of a session's row, of its copies and of its token come closer
\* together.
LEMMA TickKeeps ==
  ASSUME Inv, Tick
  PROVE  Inv'
<1>1. /\ DOMAIN store' = DOMAIN store /\ DOMAIN issued' = DOMAIN issued
      /\ \A t \in DOMAIN store :
           /\ store'[t].user = store[t].user
           /\ store'[t].deadline = Less(store[t].deadline)
           /\ store'[t].expiry = Less(store[t].expiry)
      /\ \A t \in DOMAIN issued :
           /\ issued'[t].user = issued[t].user
           /\ issued'[t].deadline = Less(issued[t].deadline)
  BY DEF Tick, Inv, TypeOK, Row, Issue
<1>2. \A r \in Requests :
        /\ req'[r].token = req[r].token /\ req'[r].user = req[r].user
        /\ req'[r].status = req[r].status
        /\ req'[r].deadline = Less(req[r].deadline)
  BY DEF Tick, Inv, TypeOK, Session
<1>3. TypeOK'
  <2>1. store' \in [DOMAIN store' -> Row]
    BY LessType DEF Tick, Inv, TypeOK, Row
  <2>2. issued' \in [DOMAIN issued' -> Issue]
    BY LessType DEF Tick, Inv, TypeOK, Issue
  <2>3. req' \in [Requests -> Session]
    BY LessType DEF Tick, Inv, TypeOK, Session
  <2> QED
    BY <1>1, <2>1, <2>2, <2>3 DEF Tick, Inv, TypeOK
<1>4. SessionsKeepOwner'
  <2>1. ASSUME NEW t \in DOMAIN store'
        PROVE  /\ t \in DOMAIN issued' /\ store'[t].user = issued'[t].user
               /\ store'[t].deadline = issued'[t].deadline
               /\ store'[t].expiry <= issued'[t].deadline
    <3>1. IsSessionOf(store[t], t) /\ store[t].expiry <= issued[t].deadline
      BY <1>1, <2>1 DEF Inv, SessionsKeepOwner
    <3>2. store[t].expiry \in Time /\ issued[t].deadline \in Time
      BY <1>1, <2>1, <3>1 DEF Inv, TypeOK, Row, Issue, IsSessionOf
    <3> QED
      BY <1>1, <2>1, <3>1, <3>2, LessMonotone DEF IsSessionOf
  <2>2. ASSUME NEW r \in Requests, req'[r].user # NULL
        PROVE  IsSessionOf(req[r], req[r].token)'
    BY <1>1, <1>2, <2>2 DEF Inv, SessionsKeepOwner, IsSessionOf
  <2> QED
    BY <2>1, <2>2 DEF SessionsKeepOwner, IsSessionOf
<1>5. CopiesInv'
  <2>1. CopiesInv /\ UNCHANGED <<admins, pc, was>>
    BY DEF Tick, Inv
  <2> QED
    BY <1>2, <2>1 DEF CopiesInv
<1> QED
  BY <1>3, <1>4, <1>5 DEF Inv

-----------------------------------------------------------------------------
(* The theorems *)

LEMMA InvInit == Init => Inv
<1> SUFFICES ASSUME Init PROVE Inv
  OBVIOUS
<1>1. TypeOK
  BY TimeBounds DEF Init, TypeOK, Session, NoSession, Locations, Operations
<1>2. SessionsKeepOwner /\ CopiesInv
  BY DEF Init, SessionsKeepOwner, CopiesInv, IsSessionOf, NoSession
<1> QED
  BY <1>1, <1>2 DEF Inv

LEMMA InvNext == Inv /\ [Next]_vars => Inv'
<1> SUFFICES ASSUME Inv, [Next]_vars PROVE Inv'
  OBVIOUS
<1>1. CASE UNCHANGED vars
  BY <1>1 DEF vars, Inv, TypeOK, SessionsKeepOwner, CopiesInv, IsSessionOf
<1>2. ASSUME NEW r \in Requests, Step(r)
      PROVE  Inv'
  BY <1>2, MovesAre, MovesKeep, LoadKeeps, LoadNothingKeeps, LoginKeeps, LogoutKeeps,
     ActKeeps, FinishKeeps DEF Step
<1>3. CASE Crash \/ Cleanup \/ Tick
  BY <1>3, CrashKeeps, CleanupKeeps, TickKeeps
<1> QED
  BY <1>1, <1>2, <1>3 DEF Next

\* Inv holds in every reachable state.
THEOREM Invariance == Spec => []Inv
  BY InvInit, InvNext, PTL DEF Spec

\* The variables have their types.
THEOREM SessionsTypeCorrect == Spec => []TypeOK
<1>1. Inv => TypeOK
  BY DEF Inv
<1> QED
  BY <1>1, Invariance, PTL

\* A token stands for the user who logged in when it was drawn, and for no
\* longer than its lifetime, however the requests that share it overlap.
THEOREM OwnersKept == Spec => []SessionsKeepOwner
<1>1. Inv => SessionsKeepOwner
  BY DEF Inv
<1> QED
  BY <1>1, Invariance, PTL

\* An admin's handler runs only for the owner of a session who was an admin at
\* some instant of the request.
THEOREM OnlyAdminsAct == Spec => []AdminsAct
<1>1. Inv => AdminsAct
  BY DEF Inv, CopiesInv, SessionsKeepOwner, AdminsAct
<1> QED
  BY <1>1, Invariance, PTL
=============================================================================
