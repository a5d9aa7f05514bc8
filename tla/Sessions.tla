------------------------------ MODULE Sessions ------------------------------
(***************************************************************************)
(* Sessions and who may do what with them: session.New, the handlers Login *)
(* and Logout of AuthHandler, RequireAuth, RequireRole, and the requests   *)
(* behind them.  The session manager (scs) and its table are external and  *)
(* modelled from how they are configured and called.                       *)
(*                                                                         *)
(* LoadAndSave copies the session of the request's cookie into the         *)
(* request, runs the handler on the copy, and writes the copy back when    *)
(* the handler sends its response.  Every loaded session is written back,  *)
(* because an idle timeout is configured.  In between, other requests with *)
(* the same cookie do the same.                                            *)
(*                                                                         *)
(* Requests is the number of requests that can run at once; each of them   *)
(* starts again and again.  Instants are kept as the time left until them. *)
(***************************************************************************)
EXTENDS Naturals

CONSTANTS
  Requests,     \* requests that can be in flight at once
  Tokens,       \* session tokens, random and never drawn twice
  Users,        \* the users who log in
  Lifetime,     \* sm.Lifetime, in ticks: 24 hours by default
  IdleTimeout,  \* sm.IdleTimeout, in ticks: 30 minutes
  NULL          \* no token, no user

ASSUME SessionsAssumption ==
  /\ Lifetime \in Nat /\ IdleTimeout \in Nat
  /\ NULL \notin Tokens /\ NULL \notin Users

VARIABLES
  store,   \* the sessions table: a function from the tokens in it to rows
  issued,  \* history: every token ever drawn, for whom, and its time left
  admins,  \* the users whose role is named admin
  pc,      \* where each request is
  req,     \* each request's copy of its session
  was      \* history: has the user of an admin's request been admin since it arrived

vars == <<store, issued, admins, pc, req, was>>

Time == 0 .. Lifetime
Row == [user : Users, deadline : Time, expiry : Time]
Issue == [user : Users, deadline : Time]
\* Where a request goes when its session is loaded: into one of the handlers
\* below, or, with Me and all others, to the end, as they do nothing here.
Operations == {"login", "logout", "admin", "commit"}
Locations == Operations \cup {"idle", "act"}

\* modified: written back at the end.  destroyed: not.
Session == [token : Tokens \cup {NULL}, user : Users \cup {NULL}, deadline : Time,
            status : {"unmodified", "modified", "destroyed"}]
NoSession == [token |-> NULL, user |-> NULL, deadline |-> 0, status |-> "unmodified"]

Less(n) == IF n > 0 THEN n - 1 ELSE 0

\* Mutant: each use of a session starts its lifetime anew.
ExpirySliding(deadline) == IdleTimeout

\* When a session that is written back expires: after IdleTimeout, at the
\* deadline at the latest.
Expiry(deadline) == IF IdleTimeout < deadline THEN IdleTimeout ELSE deadline

\* The store finds a row until it expires.
Usable(t) == t \in DOMAIN store /\ store[t].expiry > 0

Without(t) == [s \in DOMAIN store \ {t} |-> store[s]]

Goto(r, location) == pc' = [pc EXCEPT ![r] = location]

-----------------------------------------------------------------------------
(* Loading, and the checks of the middleware *)

\* The cookie names a session that is there.
LoadSession(r) ==
  /\ pc[r] = "idle"
  /\ \E op \in Operations, t \in DOMAIN store :
       /\ Usable(t)
       /\ req' = [req EXCEPT ![r] = [token |-> t, user |-> store[t].user,
                                     deadline |-> store[t].deadline,
                                     status |-> "modified"]]
       /\ Goto(r, op)
       /\ was' = [was EXCEPT ![r] = (op = "admin" /\ store[t].user \in admins)]
  /\ UNCHANGED <<store, issued, admins>>

\* No cookie, or none that names a session.
LoadNothing(r) ==
  /\ pc[r] = "idle"
  /\ \E op \in Operations : Goto(r, op)
  /\ UNCHANGED <<store, issued, admins, req, was>>

\* RequireAuth, and the first check of RequireRole: 401 without a user.
Unauthorized(r) ==
  /\ pc[r] \in {"logout", "admin"}
  /\ req[r].user = NULL
  /\ Goto(r, "commit")
  /\ UNCHANGED <<store, issued, admins, req, was>>

\* Mutant: a route outside the group that has RequireRole.
CheckNoRole(r) ==
  /\ pc[r] = "admin"
  /\ req[r].user # NULL
  /\ Goto(r, "act")
  /\ UNCHANGED <<store, issued, admins, req, was>>

\* RequireRole reads the user's role, in one statement, or fails to.
CheckRole(r) ==
  /\ pc[r] = "admin"
  /\ req[r].user # NULL
  /\ \/ /\ req[r].user \in admins
        /\ Goto(r, "act")
     \/ Goto(r, "commit")
  /\ UNCHANGED <<store, issued, admins, req, was>>

-----------------------------------------------------------------------------
(* The handlers *)

\* Mutant: the user is put into the session the request came with.
LoginKeepsToken(r) ==
  /\ pc[r] = "login"
  /\ \E u \in Users, t \in (IF req[r].token = NULL THEN Tokens \ DOMAIN issued
                            ELSE {req[r].token}) :
       /\ issued' = [s \in DOMAIN issued \cup {t} |->
                       IF s \in DOMAIN issued THEN issued[s]
                       ELSE [user |-> u, deadline |-> Lifetime]]
       /\ req' = [req EXCEPT ![r] = [token |-> t, user |-> u, deadline |-> issued'[t].deadline,
                                     status |-> "modified"]]
  /\ Goto(r, "commit")
  /\ UNCHANGED <<store, admins, was>>

\* Mutant: the user is not put into the session.
LoginNoPut(r) ==
  /\ pc[r] = "login"
  /\ \E u \in Users, t \in Tokens \ DOMAIN issued :
       /\ issued' = [s \in DOMAIN issued \cup {t} |->
                       IF s = t THEN [user |-> u, deadline |-> Lifetime] ELSE issued[s]]
       /\ req' = [req EXCEPT ![r] = [token |-> t, user |-> NULL, deadline |-> Lifetime,
                                     status |-> "modified"]]
  /\ store' = Without(req[r].token)
  /\ Goto(r, "commit")
  /\ UNCHANGED <<admins, was>>

\* The password was right: RenewToken removes the session the request came
\* with and draws a new token, Put stores the user in the copy.
Login(r) ==
  /\ pc[r] = "login"
  /\ \E u \in Users, t \in Tokens \ DOMAIN issued :
       /\ issued' = [s \in DOMAIN issued \cup {t} |->
                       IF s = t THEN [user |-> u, deadline |-> Lifetime] ELSE issued[s]]
       /\ req' = [req EXCEPT ![r] = [token |-> t, user |-> u, deadline |-> Lifetime,
                                     status |-> "modified"]]
  /\ store' = Without(req[r].token)
  /\ Goto(r, "commit")
  /\ UNCHANGED <<admins, was>>

\* The login is refused or fails before it touches the session.
LoginRefused(r) ==
  /\ pc[r] = "login"
  /\ Goto(r, "commit")
  /\ UNCHANGED <<store, issued, admins, req, was>>

\* Destroy removes the row and empties the copy.  (The copy keeps its token
\* here for the history only: nothing reads it after Destroy.)
Logout(r) ==
  /\ pc[r] = "logout"
  /\ req[r].user # NULL
  /\ store' = Without(req[r].token)
  /\ req' = [req EXCEPT ![r] = [token |-> req[r].token, user |-> NULL, deadline |-> 0,
                                status |-> "destroyed"]]
  /\ Goto(r, "commit")
  /\ UNCHANGED <<issued, admins, was>>

\* The DELETE of RenewToken or Destroy is reported as failed, and may have
\* removed the row: the answer is 500 and the copy is as it was.
DeleteFails(r) ==
  /\ \/ pc[r] = "login"
     \/ (pc[r] = "logout" /\ req[r].user # NULL)
  /\ store' \in {store, Without(req[r].token)}
  /\ Goto(r, "commit")
  /\ UNCHANGED <<issued, admins, req, was>>

\* An admin's handler.  It may change who is an admin: for one user by giving
\* them another role, for several at once by renaming a role.
Act(r) ==
  /\ pc[r] = "act"
  /\ admins' \in SUBSET Users
  /\ was' = [q \in Requests |->
                was[q] \/ (pc[q] = "admin" /\ req[q].user \in admins')]
  /\ Goto(r, "commit")
  /\ UNCHANGED <<store, issued, req>>

-----------------------------------------------------------------------------
(* The end of a request, and what happens besides *)

Finish(r) ==
  /\ Goto(r, "idle")
  /\ req' = [req EXCEPT ![r] = NoSession]
  /\ was' = [was EXCEPT ![r] = FALSE]
  /\ UNCHANGED <<issued, admins>>

\* The session is written back, as the response is sent.  The handler's
\* response is sent whether that fails (ErrorFunc does nothing) or not.
Commit(r) ==
  /\ pc[r] = "commit" /\ req[r].status = "modified"
  /\ \/ store' = [t \in DOMAIN store \cup {req[r].token} |->
                    IF t = req[r].token
                    THEN [user |-> req[r].user, deadline |-> req[r].deadline,
                          expiry |-> Expiry(req[r].deadline)]
                    ELSE store[t]]
     \/ UNCHANGED store
  /\ Finish(r)

\* A request without a session, or one that destroyed it, writes nothing.
Respond(r) ==
  /\ pc[r] = "commit" /\ req[r].status # "modified"
  /\ Finish(r)
  /\ UNCHANGED store

\* The process dies; the table stays.
Crash ==
  /\ pc' = [r \in Requests |-> "idle"]
  /\ req' = [r \in Requests |-> NoSession]
  /\ was' = [r \in Requests |-> FALSE]
  /\ UNCHANGED <<store, issued, admins>>

\* The store's own goroutine deletes the rows that are past their expiry.
Cleanup ==
  /\ store' = [t \in {s \in DOMAIN store : store[s].expiry > 0} |-> store[t]]
  /\ UNCHANGED <<issued, admins, pc, req, was>>

Tick ==
  /\ store' = [t \in DOMAIN store |-> [store[t] EXCEPT !.deadline = Less(@), !.expiry = Less(@)]]
  /\ issued' = [t \in DOMAIN issued |-> [issued[t] EXCEPT !.deadline = Less(@)]]
  /\ req' = [r \in Requests |-> [req[r] EXCEPT !.deadline = Less(@)]]
  /\ UNCHANGED <<admins, pc, was>>

Init ==
  /\ store = [t \in {} |-> t]
  /\ issued = [t \in {} |-> t]
  /\ admins \in SUBSET Users
  /\ pc = [r \in Requests |-> "idle"]
  /\ req = [r \in Requests |-> NoSession]
  /\ was = [r \in Requests |-> FALSE]

Step(r) ==
  \/ LoadSession(r) \/ LoadNothing(r) \/ Unauthorized(r) \/ CheckRole(r)
  \/ Login(r) \/ LoginRefused(r) \/ Logout(r) \/ DeleteFails(r) \/ Act(r)
  \/ Commit(r) \/ Respond(r)

Next == (\E r \in Requests : Step(r)) \/ Crash \/ Cleanup \/ Tick

\* Time passes, and the store's goroutine runs; nothing is assumed of requests.
Spec == Init /\ [][Next]_vars /\ WF_vars(Tick) /\ WF_vars(Cleanup)

-----------------------------------------------------------------------------
(* Properties *)

TypeOK ==
  /\ DOMAIN store \subseteq Tokens /\ store \in [DOMAIN store -> Row]
  /\ DOMAIN issued \subseteq Tokens /\ issued \in [DOMAIN issued -> Issue]
  /\ admins \subseteq Users
  /\ pc \in [Requests -> Locations]
  /\ req \in [Requests -> Session]
  /\ was \in [Requests -> BOOLEAN]

\* x, a row or a copy, is the session that t was drawn for.
IsSessionOf(x, t) ==
  t \in DOMAIN issued /\ x.user = issued[t].user /\ x.deadline = issued[t].deadline

\* However requests with one cookie overlap - logins, logouts, answers that
\* write a removed session back - a token stands for the user who logged in
\* when it was drawn, and for no longer than the deadline it got then.
SessionsKeepOwner ==
  /\ \A t \in DOMAIN store :
       IsSessionOf(store[t], t) /\ store[t].expiry <= issued[t].deadline
  /\ \A r \in Requests : req[r].user # NULL => IsSessionOf(req[r], req[r].token)

\* Who changes roles has been an admin since the request arrived, although not
\* always still is, and came with a session of their own.
AdminsAct ==
  \A r \in Requests : pc[r] = "act" =>
    was[r] /\ IsSessionOf(req[r], req[r].token)

\* A session ends for good, however often it is used, renewed or written back,
\* and its row does not stay behind.
SessionsEnd == \A t \in Tokens : t \in DOMAIN issued ~> [](t \notin DOMAIN store)

\* Claimed by docs/adr/0001: deleting a session revokes it at once.
LogoutRevokes ==
  \A t \in Tokens :
    []((\E r \in Requests : req[r].status = "destroyed" /\ req[r].token = t)
         => [](~Usable(t)))
=============================================================================
