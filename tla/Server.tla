------------------------------- MODULE Server -------------------------------
(***************************************************************************)
(* The process from main to its exit: the steps of run, the listener       *)
(* goroutine, the channel of signals, graceful shutdown with its timeout,  *)
(* the connection pool that every request shares and that run closes last, *)
(* and the way of a request through session, metrics, CSRF, recovery,      *)
(* handler and error handler.  What handlers compute is left out: they     *)
(* run statements, reply, fail or panic.  net/http, Echo and pgxpool are   *)
(* external.                                                               *)
(***************************************************************************)
EXTENDS Naturals, FiniteSets

CONSTANTS
  Requests,                \* connections, each with at most one request
  PoolSize,                \* pgxpool MaxConns
  MaxSignals,              \* bound: signals sent to the process
  MaxEntered               \* bound: requests that reach the middlewares

ASSUME ServerAssumption ==
  /\ IsFiniteSet(Requests)
  /\ PoolSize \in Nat \ {0} /\ MaxSignals \in Nat /\ MaxEntered \in Nat

VARIABLES
  phase,                   \* where run is
  production,              \* cfg.IsProduction
  failed,                  \* run returns an error
  code,                    \* the exit code
  quit,                    \* signals in the channel
  listener,                \* of the goroutine that serves
  pool,                    \* db.Pool
  pc,                      \* where each request is
  inSession,               \* it has not passed LoadAndSave's look-up yet
  forged,                  \* its method is unsafe and its header is not its token
  writes,                  \* answers written to it
  inFlight,                \* HTTPRequestsInFlight
  total,                   \* HTTPRequestsTotal
  signals, entered         \* history: signals sent, requests that reached Echo

process  == <<phase, production, failed, code, quit, listener, signals>>
requests == <<pc, inSession, forged, writes>>
gauges   == <<inFlight, total, entered>>
vars     == <<process, pool, requests, gauges>>

Starting == {"configure", "connect", "migrate", "seed", "build"}
Phases   == Starting \cup {"serve", "drain", "close", "exited"}
Places   == {"idle", "connected", "waiting", "statement", "arrived", "guard",
             "handler", "replied", "leaving", "unsaved", "saving", "saved", "done"}
NoCode   == 3
Killed   == 2

\* Requests that hold a connection of the pool.
Lent == {r \in Requests : pc[r] \in {"statement", "saving"}}

-----------------------------------------------------------------------------
(* run *)

Goto(p) == phase' = p

Exit(status) == Goto("exited") /\ code' = status

\* The deferred Pool.Close starts when run returns.
Return(withError) ==
  /\ Goto("close")
  /\ failed' = withError
  /\ pool' = "closing"

Configure ==
  /\ phase = "configure"
  /\ \/ Goto("connect") /\ UNCHANGED <<failed, code>>
     \/ Exit(1) /\ failed' = TRUE
  /\ UNCHANGED pool

ConnectPool ==
  /\ phase = "connect"
  /\ \/ /\ Goto(IF production THEN "seed" ELSE "migrate")
        /\ pool' = "open"
        /\ UNCHANGED <<failed, code>>
     \/ Exit(1) /\ failed' = TRUE /\ UNCHANGED pool

Prepare(step, next) ==
  /\ phase = step
  /\ \/ Goto(next) /\ UNCHANGED <<failed, pool>>
     \/ Return(TRUE)
  /\ UNCHANGED code

Start ==
  /\ Configure \/ ConnectPool \/ Prepare("migrate", "seed") \/ Prepare("seed", "build")
  /\ UNCHANGED <<production, quit, listener, signals, requests, gauges>>

\* Repositories, services, handlers, routes, signal.Notify, and the goroutine.
Build ==
  /\ phase = "build"
  /\ Goto("serve")
  /\ listener' = "new"
  /\ UNCHANGED <<production, failed, code, quit, signals, pool, requests, gauges>>

\* <-quit, and server.Shutdown closes the listener.
Shutdown ==
  /\ phase = "serve" /\ quit > 0
  /\ Goto("drain")
  /\ quit' = quit - 1
  /\ listener' = IF listener \in {"new", "open"} THEN "closed" ELSE listener
  /\ UNCHANGED <<production, failed, code, signals, pool, requests, gauges>>

\* Mutant: the listener is closed, the connections are not waited for.
DrainedAtOnce ==
  /\ phase = "drain"
  /\ Return(FALSE)
  /\ UNCHANGED <<production, code, quit, listener, signals, requests, gauges>>

\* Shutdown returns once no connection is in use.
Drained ==
  /\ phase = "drain"
  /\ \A r \in Requests : pc[r] = "idle"
  /\ Return(FALSE)
  /\ UNCHANGED <<production, code, quit, listener, signals, requests, gauges>>

\* Mutant: Shutdown is given the context of the process, which has no deadline.
TimesOutNever == FALSE /\ UNCHANGED vars

TimesOut ==
  /\ phase = "drain"
  /\ Return(TRUE)
  /\ UNCHANGED <<production, code, quit, listener, signals, requests, gauges>>

\* Pool.Close blocks until every connection has been returned.
Close ==
  /\ phase = "close"
  /\ Lent = {}
  /\ Exit(IF failed THEN 1 ELSE 0)
  /\ pool' = "closed"
  /\ UNCHANGED <<production, failed, quit, listener, signals, requests, gauges>>

\* Signals before signal.Notify end the process, later ones wait in the channel,
\* which holds one: a second is dropped.
Signal ==
  /\ signals < MaxSignals
  /\ signals' = signals + 1
  /\ \/ listener = "none" /\ Exit(Killed) /\ UNCHANGED quit
     \/ listener # "none" /\ quit' = 1 /\ UNCHANGED <<phase, code>>
  /\ UNCHANGED <<production, failed, listener, pool, requests, gauges>>

Crash ==
  /\ Exit(Killed)
  /\ UNCHANGED <<production, failed, quit, listener, signals, pool, requests, gauges>>

\* The goroutine: Listen, or an error then or later, which it reports as a signal
\* once there is room for one.
Listen ==
  /\ listener = "new"
  /\ listener' \in {"open", "broken"}
  /\ UNCHANGED quit

Break == listener = "open" /\ listener' = "broken" /\ UNCHANGED quit

Report == listener = "broken" /\ quit = 0 /\ listener' = "failed" /\ quit' = 1

Goroutine ==
  /\ Listen \/ Break \/ Report
  /\ UNCHANGED <<phase, production, failed, code, signals, pool, requests, gauges>>

-----------------------------------------------------------------------------
(* Requests *)

At(r, p) == pc' = [pc EXCEPT ![r] = p]

Connect(r) ==
  /\ listener = "open" /\ pc[r] = "idle"
  /\ At(r, "connected")
  /\ UNCHANGED <<inSession, forged, writes, gauges>>

\* By the client, a timeout, or Shutdown, which takes a connection for idle that
\* has not sent its request for five seconds.
HangUp(r) ==
  /\ pc[r] = "connected"
  /\ At(r, "idle")
  /\ UNCHANGED <<inSession, forged, writes, gauges>>

\* LoadAndSave looks the session of a cookie up.
Read(r) ==
  /\ pc[r] = "connected" /\ entered + Cardinality({q \in Requests : inSession[q]}) < MaxEntered
  /\ \/ At(r, "waiting")
     \/ At(r, "arrived")
  /\ inSession' = [inSession EXCEPT ![r] = TRUE]
  /\ forged' \in {[forged EXCEPT ![r] = f] : f \in BOOLEAN}
  /\ UNCHANGED <<writes, gauges>>

\* The error of a session look-up ends the request with an empty answer, that of
\* a write-back is dropped, that of any other statement is the handler's to deal
\* with.
Resume(r, ok) ==
  \/ pc[r] \in {"unsaved", "saving"} /\ At(r, "saved")
  \/ /\ pc[r] \in {"waiting", "statement"}
     /\ \/ ~inSession[r] /\ At(r, "handler")
        \/ inSession[r] /\ At(r, IF ok THEN "arrived" ELSE "done")

Acquire(r) ==
  /\ pool = "open" /\ Cardinality(Lent) < PoolSize
  /\ \/ pc[r] = "waiting" /\ At(r, "statement")
     \/ pc[r] = "unsaved" /\ At(r, "saving")
  /\ UNCHANGED <<inSession, forged, writes, gauges>>

\* The pool is closed, or the request's context is done: its client has gone, or
\* the three seconds of Readiness have passed.
NotAcquired(r) ==
  /\ pc[r] \in {"waiting", "unsaved"}
  /\ Resume(r, FALSE)
  /\ UNCHANGED <<inSession, forged, writes, gauges>>

Release(r) ==
  /\ pc[r] \in {"statement", "saving"}
  /\ \E ok \in BOOLEAN : Resume(r, ok)
  /\ UNCHANGED <<inSession, forged, writes, gauges>>

\* RequestID, SlogLogger, and PrometheusMiddleware up to next(c).
Enter(r) ==
  /\ pc[r] = "arrived"
  /\ At(r, "guard")
  /\ inSession' = [inSession EXCEPT ![r] = FALSE]
  /\ inFlight' = inFlight + 1 /\ entered' = entered + 1
  /\ UNCHANGED <<forged, writes, total>>

\* The rest of PrometheusMiddleware and SlogLogger, with an error that
\* ErrorHandler is still to answer or without.
Leave(r, withError) ==
  /\ At(r, IF withError THEN "leaving" ELSE "done")
  /\ inFlight' = inFlight - 1 /\ total' = total + 1
  /\ UNCHANGED <<inSession, forged, entered>>

CSRFProtection(r) ==
  /\ pc[r] = "guard"
  /\ \/ forged[r] /\ Leave(r, TRUE)
     \/ ~forged[r] /\ At(r, "handler") /\ UNCHANGED <<inSession, forged, gauges>>
  /\ UNCHANGED writes

Query(r) ==
  /\ pc[r] = "handler"
  /\ At(r, "waiting")
  /\ UNCHANGED <<inSession, forged, writes, gauges>>

Write(r) == writes' = [writes EXCEPT ![r] = @ + 1]

Reply(r) ==
  /\ pc[r] = "handler"
  /\ At(r, "replied") /\ Write(r)
  /\ UNCHANGED <<inSession, forged, gauges>>

\* A handler returns the error of its reply, if it made one.
Finish(r) ==
  /\ \/ pc[r] = "handler" /\ Leave(r, TRUE)
     \/ pc[r] = "replied" /\ \E e \in BOOLEAN : Leave(r, e)
  /\ UNCHANGED writes

ErrorHandler(r) == IF writes[r] > 0 THEN UNCHANGED writes ELSE Write(r)

\* Mutant: Recover is mounted outside PrometheusMiddleware, whose deferred Dec
\* runs while the rest of it does not.
RecoverOutside(r) ==
  /\ pc[r] \in {"handler", "replied"}
  /\ ErrorHandler(r)
  /\ At(r, "done")
  /\ inFlight' = inFlight - 1
  /\ UNCHANGED <<inSession, forged, total, entered>>

\* A panic: c.Error answers it, and the middlewares outside see no error.
Recover(r) ==
  /\ pc[r] \in {"handler", "replied"}
  /\ ErrorHandler(r)
  /\ Leave(r, FALSE)

\* At the first write scs stores the session it has loaded, if it has one.  The
\* write-back of an answer that a handler makes is one of its statements.
Save(r) ==
  /\ pc[r] = "leaving" /\ writes[r] = 0
  /\ At(r, "unsaved")
  /\ UNCHANGED <<inSession, forged, writes, gauges>>

Answer(r) ==
  /\ pc[r] \in {"leaving", "saved"}
  /\ ErrorHandler(r)
  /\ At(r, "done")
  /\ UNCHANGED <<inSession, forged, gauges>>

\* net/http is done with the request; the locals of the handler are gone.
Ended(r) ==
  /\ pc[r] = "done"
  /\ At(r, "idle")
  /\ inSession' = [inSession EXCEPT ![r] = FALSE]
  /\ forged' = [forged EXCEPT ![r] = FALSE]
  /\ writes' = [writes EXCEPT ![r] = 0]
  /\ UNCHANGED gauges

Handle(r) ==
  /\ \/ Connect(r) \/ HangUp(r) \/ Read(r)
     \/ Acquire(r) \/ NotAcquired(r) \/ Release(r)
     \/ Enter(r) \/ CSRFProtection(r)
     \/ Query(r) \/ Reply(r) \/ Finish(r) \/ Recover(r)
     \/ Save(r) \/ Answer(r) \/ Ended(r)
  /\ UNCHANGED <<process, pool>>

-----------------------------------------------------------------------------
Init ==
  /\ phase = "configure" /\ production \in BOOLEAN
  /\ failed = FALSE /\ code = NoCode
  /\ quit = 0 /\ listener = "none" /\ pool = "none"
  /\ pc = [r \in Requests |-> "idle"]
  /\ inSession = [r \in Requests |-> FALSE] /\ forged = [r \in Requests |-> FALSE]
  /\ writes = [r \in Requests |-> 0]
  /\ inFlight = 0 /\ total = 0
  /\ signals = 0 /\ entered = 0

Main == Start \/ Build \/ Shutdown \/ Drained \/ TimesOut \/ Close

Live == Main \/ Signal \/ Crash \/ Goroutine \/ \E r \in Requests : Handle(r)

\* The process has ended.
Over == phase = "exited" /\ UNCHANGED vars

Next == Over \/ (phase # "exited" /\ Live)

Spec == Init /\ [][Next]_vars

\* run goes on, which includes that its timer fires, and PostgreSQL answers every
\* statement.  Nothing is asked of handlers and clients.
Fairness ==
  /\ WF_vars(phase # "exited" /\ Main)
  /\ \A r \in Requests : WF_vars(phase # "exited" /\ Release(r) /\ UNCHANGED <<process, pool>>)

FairSpec == Spec /\ Fairness

-----------------------------------------------------------------------------
(* Properties *)

TypeOK ==
  /\ phase \in Phases /\ production \in BOOLEAN /\ failed \in BOOLEAN
  /\ code \in {0, 1, Killed, NoCode} /\ quit \in 0 .. 1
  /\ listener \in {"none", "new", "open", "broken", "failed", "closed"}
  /\ pool \in {"none", "open", "closing", "closed"}
  /\ pc \in [Requests -> Places]
  /\ inSession \in [Requests -> BOOLEAN] /\ forged \in [Requests -> BOOLEAN]
  /\ writes \in [Requests -> Nat]
  /\ inFlight \in Nat /\ total \in Nat /\ signals \in Nat /\ entered \in Nat

\* A process that stops without an error has answered every request it had
\* begun to read, and closes the pool under none of them.
StopsClean ==
  (phase \in {"close", "exited"} /\ ~failed /\ code # Killed) => \A r \in Requests : pc[r] = "idle"

\* Requests between PrometheusMiddleware and the end of its chain.
Inside == {r \in Requests :
             pc[r] \in {"guard", "handler", "replied"} \/ (pc[r] \in {"waiting", "statement"} /\ ~inSession[r])}

\* A request that reaches the middlewares is counted once and answered once,
\* whether it was refused, failed, panicked or lost its connection to the pool;
\* the gauge returns to zero.  The one left without an answer is the request
\* whose session could not be loaded.
CountedAndAnswered ==
  /\ inFlight = Cardinality(Inside) /\ entered = inFlight + total
  /\ \A r \in Requests : pc[r] = "done" => writes[r] = IF inSession[r] THEN 0 ELSE 1

\* Once it has been told to, the process ends, whatever its handlers do.
StopsEventually == (phase = "serve" /\ quit > 0) ~> (phase = "exited")
=============================================================================
