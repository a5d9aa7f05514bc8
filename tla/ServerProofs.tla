---------------------------- MODULE ServerProofs ----------------------------
(***************************************************************************)
(* For any number of requests, connections and signals: shutdown without   *)
(* an error leaves no request behind, and the accounts of the middlewares  *)
(* balance.                                                                *)
(***************************************************************************)
EXTENDS Server, FiniteSetTheorems, TLAPS

\* Nothing is accepted before run serves or after it has begun to shut down, and
\* the exit code is set by the step that ends the process.
ProcessInv ==
  /\ phase # "exited" => code = NoCode
  /\ phase \in Starting => listener = "none"
  /\ phase \in {"drain", "close"} => listener \notin {"new", "open"}

\* Where a request may be that is, or is not, in LoadAndSave's look-up, and how
\* many answers it has got on the way.
RequestInv(r) ==
  /\ inSession[r] => pc[r] \in {"waiting", "statement", "arrived", "done"}
  /\ pc[r] = "arrived" => inSession[r]
  /\ pc[r] \notin {"replied", "leaving", "done"} => writes[r] = 0
  /\ pc[r] = "replied" => writes[r] = 1
  /\ pc[r] = "leaving" => writes[r] \in {0, 1}
  /\ pc[r] = "done" => writes[r] = IF inSession[r] THEN 0 ELSE 1

Balance == inFlight = Cardinality(Inside) /\ entered = inFlight + total

ServerInv == /\ TypeOK
             /\ ProcessInv
             /\ StopsClean
             /\ \A r \in Requests : RequestInv(r)
             /\ Balance

-----------------------------------------------------------------------------
(* Steps of the process leave the requests alone *)

LEMMA ServerInit == Init => ServerInv
<1> SUFFICES ASSUME Init PROVE ServerInv
  OBVIOUS
<1>1. TypeOK
  <2>1. phase \in Phases /\ pc \in [Requests -> Places]
    BY DEF Init, Phases, Starting, Places
  <2>2. inSession \in [Requests -> BOOLEAN] /\ forged \in [Requests -> BOOLEAN]
    BY DEF Init
  <2>3. writes \in [Requests -> Nat]
    BY DEF Init
  <2>4. inFlight \in Nat /\ total \in Nat /\ signals \in Nat /\ entered \in Nat /\ quit \in 0 .. 1
        /\ code \in {0, 1, Killed, NoCode}
    BY DEF Init
  <2>5. listener \in {"none", "new", "open", "broken", "failed", "closed"}
        /\ pool \in {"none", "open", "closing", "closed"}
    BY DEF Init
  <2>6. production \in BOOLEAN /\ failed \in BOOLEAN
    BY Zenon DEF Init
  <2> QED
    BY <2>1, <2>2, <2>3, <2>4, <2>5, <2>6 DEF TypeOK
<1>2. ProcessInv /\ StopsClean
  BY DEF Init, ProcessInv, StopsClean, Starting, NoCode, Killed
<1>3. \A r \in Requests : RequestInv(r)
  <2> SUFFICES ASSUME NEW r \in Requests PROVE RequestInv(r)
    OBVIOUS
  <2>1. pc[r] = "idle" /\ ~inSession[r] /\ writes[r] = 0
    BY DEF Init
  <2> QED
    BY <2>1 DEF RequestInv
<1>4. Inside = {}
  BY DEF Init, Inside
<1>5. Balance
  BY <1>4, FS_EmptySet DEF Init, Balance
<1> QED
  BY <1>1, <1>2, <1>3, <1>5 DEF ServerInv

LEMMA RequestsUntouched ==
  ASSUME ServerInv, UNCHANGED <<requests, gauges>>
  PROVE  (\A r \in Requests : RequestInv(r)') /\ Balance'
<1>1. \A r \in Requests : RequestInv(r)'
  BY DEF ServerInv, RequestInv, requests
<1>2. Inside' = Inside
  BY DEF Inside, requests
<1>3. Balance'
  BY <1>2 DEF ServerInv, Balance, gauges
<1> QED
  BY <1>1, <1>3

LEMMA StartStep == ASSUME ServerInv, Start PROVE ServerInv'
<1>1. UNCHANGED <<production, quit, listener, signals, requests, gauges>>
  BY DEF Start
<1>2. /\ phase \in Starting /\ phase' \in Phases /\ failed' \in BOOLEAN
      /\ code' \in {0, 1, Killed, NoCode} /\ pool' \in {"none", "open", "closing", "closed"}
      /\ phase' \in {"close", "exited"} => failed'
      /\ phase' # "exited" => code' = NoCode
      /\ phase' # "drain"
  BY DEF Start, Configure, ConnectPool, Prepare, Goto, Exit, Return, ServerInv, TypeOK,
         ProcessInv, Starting, Phases
<1>3. TypeOK'
  BY <1>1, <1>2 DEF ServerInv, TypeOK, requests, gauges
<1>4. ProcessInv' /\ StopsClean'
  <2>1. listener' = "none"
    BY <1>1, <1>2 DEF ServerInv, ProcessInv
  <2> QED
    BY <1>2, <2>1 DEF ProcessInv, StopsClean
<1> QED
  BY <1>1, <1>3, <1>4, RequestsUntouched DEF ServerInv

\* What run and its goroutine do from then on.
LEMMA ProcessStep ==
  ASSUME ServerInv, phase # "exited",
         Build \/ Shutdown \/ Drained \/ TimesOut \/ Close \/ Signal \/ Crash \/ Goroutine
  PROVE  ServerInv'
<1>1. UNCHANGED <<requests, gauges>>
  BY DEF Build, Shutdown, Drained, TimesOut, Close, Signal, Crash, Goroutine
<1>2. phase \in Phases /\ code \in {0, 1, Killed, NoCode} /\ quit \in 0 .. 1 /\ signals \in Nat
      /\ production \in BOOLEAN /\ failed \in BOOLEAN
      /\ listener \in {"none", "new", "open", "broken", "failed", "closed"}
      /\ pool \in {"none", "open", "closing", "closed"}
  BY DEF ServerInv, TypeOK
<1>3. /\ phase' \in Phases /\ production' \in BOOLEAN /\ failed' \in BOOLEAN
      /\ code' \in {0, 1, Killed, NoCode} /\ quit' \in 0 .. 1 /\ signals' \in Nat
      /\ listener' \in {"none", "new", "open", "broken", "failed", "closed"}
      /\ pool' \in {"none", "open", "closing", "closed"}
  <2>1. CASE Build
    BY <1>2, <2>1 DEF Build, Goto, Phases, Starting
  <2>2. CASE Shutdown
    BY <1>2, <2>2 DEF Shutdown, Goto, Phases, Starting
  <2>3. CASE Drained \/ TimesOut
    BY <1>2, <2>3 DEF Drained, TimesOut, Return, Goto, Phases, Starting
  <2>4. CASE Close
    BY <1>2, <2>4 DEF Close, Exit, Goto, Phases, Starting
  <2>5. CASE Signal
    BY <1>2, <2>5 DEF Signal, Exit, Goto, Phases, Starting
  <2>6. CASE Crash
    BY <1>2, <2>6 DEF Crash, Exit, Goto, Phases, Starting
  <2>7. CASE Goroutine
    BY <1>2, <2>7 DEF Goroutine, Listen, Break, Report
  <2> QED
    BY <2>1, <2>2, <2>3, <2>4, <2>5, <2>6, <2>7
<1>4. TypeOK'
  BY <1>1, <1>3 DEF ServerInv, TypeOK, requests, gauges
<1>5. ProcessInv /\ StopsClean /\ pc' = pc
  BY <1>1 DEF ServerInv, requests
<1>6. ProcessInv' /\ StopsClean'
  <2>1. CASE Build
    BY <1>5, <2>1 DEF Build, Goto, ProcessInv, StopsClean, Starting, NoCode, Killed
  <2>2. CASE Shutdown
    BY <1>5, <2>2 DEF Shutdown, Goto, ProcessInv, StopsClean, Starting, NoCode, Killed
  <2>3. CASE Drained
    BY <1>5, <2>3 DEF Drained, Return, Goto, ProcessInv, StopsClean, Starting, NoCode, Killed
  <2>4. CASE TimesOut
    BY <1>5, <2>4 DEF TimesOut, Return, Goto, ProcessInv, StopsClean, Starting, NoCode, Killed
  <2>5. CASE Close
    BY <1>5, <2>5 DEF Close, Exit, Goto, ProcessInv, StopsClean, Starting, NoCode, Killed
  <2>6. CASE Signal
    BY <1>5, <2>6 DEF Signal, Exit, Goto, ProcessInv, StopsClean, Starting, NoCode, Killed
  <2>7. CASE Crash
    BY <1>5, <2>7 DEF Crash, Exit, Goto, ProcessInv, StopsClean, Starting, NoCode, Killed
  <2>8. CASE Goroutine
    BY <1>5, <2>8 DEF Goroutine, Listen, Break, Report, ProcessInv, StopsClean, Starting, NoCode, Killed
  <2> QED
    BY <2>1, <2>2, <2>3, <2>4, <2>5, <2>6, <2>7, <2>8
<1> QED
  BY <1>1, <1>4, <1>6, RequestsUntouched DEF ServerInv

-----------------------------------------------------------------------------
(* Steps of a request *)

InsideOf(place, insession) ==
  place \in {"guard", "handler", "replied"} \/ (place \in {"waiting", "statement"} /\ ~insession)

\* A step of r that keeps its invariant and enters it into the accounts, or
\* takes it out of them, as it enters the middlewares or leaves them.
LEMMA OneRequest ==
  ASSUME ServerInv, phase # "exited", UNCHANGED <<process, pool>>, NEW r \in Requests,
         NEW p \in Places, NEW s \in BOOLEAN, NEW w \in Nat,
         pc' = [pc EXCEPT ![r] = p], inSession' = [inSession EXCEPT ![r] = s],
         writes' = [writes EXCEPT ![r] = w],
         forged' \in [Requests -> BOOLEAN],
         pc[r] # "idle" \/ listener = "open",
         RequestInv(r)',
         \/ (InsideOf(p, s) <=> InsideOf(pc[r], inSession[r])) /\ UNCHANGED gauges
         \/ /\ InsideOf(p, s) /\ ~InsideOf(pc[r], inSession[r])
            /\ inFlight' = inFlight + 1 /\ entered' = entered + 1 /\ total' = total
         \/ /\ ~InsideOf(p, s) /\ InsideOf(pc[r], inSession[r])
            /\ inFlight' = inFlight - 1 /\ total' = total + 1 /\ entered' = entered
  PROVE  ServerInv'
<1> USE ServerAssumption
<1>1. TypeOK
  BY DEF ServerInv
<1>2. Inside = {q \in Requests : InsideOf(pc[q], inSession[q])}
      /\ Inside' = {q \in Requests : InsideOf(pc'[q], inSession'[q])}
  BY DEF Inside, InsideOf
<1>3. \A q \in Requests : q # r => pc'[q] = pc[q] /\ inSession'[q] = inSession[q] /\ writes'[q] = writes[q]
  BY <1>1 DEF TypeOK
<1>4. pc'[r] = p /\ inSession'[r] = s
  BY <1>1 DEF TypeOK
<1>5. IsFiniteSet(Inside) /\ Cardinality(Inside) \in Nat
  BY <1>2, FS_Subset, FS_CardinalityType
<1>6. /\ pc' \in [Requests -> Places] /\ inSession' \in [Requests -> BOOLEAN]
      /\ writes' \in [Requests -> Nat]
  BY <1>1 DEF TypeOK
<1>7. Balance' /\ inFlight' \in Nat /\ total' \in Nat /\ entered' \in Nat
  <2>0. inFlight = Cardinality(Inside) /\ entered = inFlight + total
        /\ inFlight \in Nat /\ total \in Nat /\ entered \in Nat
    BY <1>1 DEF ServerInv, Balance, TypeOK
  <2>1. CASE (InsideOf(p, s) <=> InsideOf(pc[r], inSession[r])) /\ UNCHANGED gauges
    <3>1. Inside' = Inside
      BY <1>2, <1>3, <1>4, <2>1
    <3> QED
      BY <2>0, <2>1, <3>1 DEF Balance, gauges
  <2>2. CASE /\ InsideOf(p, s) /\ ~InsideOf(pc[r], inSession[r])
             /\ inFlight' = inFlight + 1 /\ entered' = entered + 1 /\ total' = total
    <3>1. Inside' = Inside \cup {r} /\ r \notin Inside
      BY <1>2, <1>3, <1>4, <2>2
    <3>2. Cardinality(Inside') = Cardinality(Inside) + 1
      BY <1>5, <3>1, FS_AddElement
    <3> QED
      BY <1>5, <2>0, <2>2, <3>2 DEF Balance
  <2>3. CASE /\ ~InsideOf(p, s) /\ InsideOf(pc[r], inSession[r])
             /\ inFlight' = inFlight - 1 /\ total' = total + 1 /\ entered' = entered
    <3>1. Inside' = Inside \ {r} /\ r \in Inside
      BY <1>2, <1>3, <1>4, <2>3
    <3>2. Cardinality(Inside') = Cardinality(Inside) - 1 /\ IsFiniteSet(Inside')
      BY <1>5, <3>1, FS_RemoveElement
    <3>3. Cardinality(Inside') \in Nat
      BY <3>2, FS_CardinalityType
    <3> QED
      BY <1>5, <2>0, <2>3, <3>2, <3>3 DEF Balance
  <2> QED
    BY <2>1, <2>2, <2>3
<1>8. TypeOK'
  BY <1>1, <1>6, <1>7 DEF TypeOK, process
<1>9. \A q \in Requests : RequestInv(q)'
  <2> SUFFICES ASSUME NEW q \in Requests, q # r PROVE RequestInv(q)'
    OBVIOUS
  <2> QED
    BY <1>3 DEF ServerInv, RequestInv
<1>10. ProcessInv'
  BY DEF ServerInv, ProcessInv, process
<1>11. StopsClean'
  <2> SUFFICES ASSUME phase = "close", ~failed, code # Killed PROVE FALSE
    BY DEF StopsClean, process
  <2> QED
    BY DEF ServerInv, StopsClean, ProcessInv, NoCode, Killed
<1> QED
  BY <1>7, <1>8, <1>9, <1>10, <1>11 DEF ServerInv

LEMMA Same == ASSUME NEW S, NEW T, NEW f \in [S -> T], NEW r \in S
              PROVE  f[r] \in T /\ f = [f EXCEPT ![r] = f[r]]
  OBVIOUS

LEMMA HandleStep ==
  ASSUME ServerInv, phase # "exited", NEW r \in Requests, Handle(r)
  PROVE  ServerInv'
<1>1. /\ TypeOK /\ RequestInv(r) /\ UNCHANGED <<process, pool>>
      /\ pc \in [Requests -> Places] /\ inSession \in [Requests -> BOOLEAN]
      /\ writes \in [Requests -> Nat] /\ forged \in [Requests -> BOOLEAN]
  BY DEF ServerInv, TypeOK, Handle
<1>2. /\ pc[r] \in Places /\ inSession[r] \in BOOLEAN /\ writes[r] \in Nat
      /\ inSession = [inSession EXCEPT ![r] = inSession[r]]
      /\ writes = [writes EXCEPT ![r] = writes[r]]
  BY <1>1, Same
<1>3. ASSUME NEW p \in Places, At(r, p), UNCHANGED <<inSession, forged, writes, gauges>>,
             pc[r] # "idle" \/ listener = "open",
             /\ inSession[r] => p \in {"waiting", "statement", "arrived", "done"}
             /\ p = "arrived" => inSession[r]
             /\ p \notin {"replied", "leaving", "done"} => writes[r] = 0
             /\ p \notin {"replied", "leaving"}
             /\ p = "done" => inSession[r] /\ writes[r] = 0,
             InsideOf(p, inSession[r]) <=> InsideOf(pc[r], inSession[r])
      PROVE  ServerInv'
  <2>1. pc' = [pc EXCEPT ![r] = p] /\ inSession' = inSession /\ writes' = writes /\ forged' = forged
    BY <1>3 DEF At
  <2>2. pc'[r] = p /\ inSession'[r] = inSession[r] /\ writes'[r] = writes[r]
    BY <1>1, <2>1
  <2>3. RequestInv(r)'
    BY <1>3, <2>2 DEF RequestInv
  <2>4. inSession' = [inSession EXCEPT ![r] = inSession[r]] /\ writes' = [writes EXCEPT ![r] = writes[r]]
    BY <1>2, <2>1
  <2>5. /\ forged' \in [Requests -> BOOLEAN] /\ UNCHANGED <<process, pool>>
        /\ inSession[r] \in BOOLEAN /\ writes[r] \in Nat
        /\ pc[r] # "idle" \/ listener = "open"
        /\ (InsideOf(p, inSession[r]) <=> InsideOf(pc[r], inSession[r])) /\ UNCHANGED gauges
    BY <1>1, <1>2, <1>3, <2>1
  <2> QED
    BY <2>1, <2>3, <2>4, <2>5, OneRequest
<1>4. CASE Connect(r)
  BY <1>1, <1>3, <1>4 DEF Connect, Places, RequestInv, InsideOf
<1>5. CASE HangUp(r)
  BY <1>1, <1>3, <1>5 DEF HangUp, Places, RequestInv, InsideOf
<1>6. CASE Acquire(r)
  BY <1>1, <1>3, <1>6 DEF Acquire, Places, RequestInv, InsideOf
<1>7. CASE NotAcquired(r) \/ Release(r)
  <2>1. PICK ok \in BOOLEAN : Resume(r, ok)
    BY <1>7 DEF NotAcquired, Release
  <2>2. pc[r] \in {"waiting", "statement", "unsaved", "saving"} /\ UNCHANGED <<inSession, forged, writes, gauges>>
    BY <1>7 DEF NotAcquired, Release
  <2>3. CASE pc[r] \in {"unsaved", "saving"}
    <3>1. At(r, "saved")
      BY <2>1, <2>3 DEF Resume
    <3>2. ~inSession[r] /\ writes[r] = 0
      BY <1>1, <2>3 DEF RequestInv
    <3>3. ~InsideOf("saved", inSession[r]) /\ ~InsideOf(pc[r], inSession[r])
      BY <2>3 DEF InsideOf
    <3> QED
      BY <1>3, <2>2, <2>3, <3>1, <3>2, <3>3 DEF Places
  <2>4. CASE pc[r] \in {"waiting", "statement"}
    <3>1. writes[r] = 0
      BY <1>1, <2>4 DEF RequestInv
    <3>2. CASE ~inSession[r]
      <4>1. At(r, "handler")
        BY <2>1, <2>4, <3>2 DEF Resume
      <4> QED
        BY <1>3, <2>2, <2>4, <3>1, <3>2, <4>1 DEF Places, InsideOf
    <3>3. CASE inSession[r]
      <4>1. PICK p \in {"arrived", "done"} : At(r, p)
        BY <2>1, <2>4, <3>3 DEF Resume
      <4> QED
        BY <1>3, <2>2, <2>4, <3>1, <3>3, <4>1 DEF Places, InsideOf
    <3> QED
      BY <3>2, <3>3
  <2> QED
    BY <2>2, <2>3, <2>4
<1>8. CASE Query(r)
  BY <1>1, <1>3, <1>8 DEF Query, Places, RequestInv, InsideOf
<1>9. CASE Read(r)
  <2>1. PICK p \in {"waiting", "arrived"} : At(r, p)
    BY <1>9 DEF Read
  <2>2. /\ pc[r] = "connected" /\ inSession' = [inSession EXCEPT ![r] = TRUE]
        /\ UNCHANGED <<writes, gauges>> /\ forged' \in [Requests -> BOOLEAN]
    BY <1>1, <1>9 DEF Read
  <2>3. pc' = [pc EXCEPT ![r] = p] /\ pc'[r] = p /\ inSession'[r] /\ writes'[r] = 0
    BY <1>1, <2>1, <2>2 DEF At, RequestInv
  <2>4. RequestInv(r)'
    BY <2>3 DEF RequestInv
  <2>5. p \in Places /\ (InsideOf(p, TRUE) <=> InsideOf(pc[r], inSession[r]))
    BY <2>2 DEF Places, InsideOf
  <2>6. writes' = [writes EXCEPT ![r] = writes[r]]
    BY <1>2, <2>2
  <2> QED
    BY <1>1, <1>2, <2>2, <2>3, <2>4, <2>5, <2>6, OneRequest
<1>10. CASE Enter(r)
  <2>1. /\ pc[r] = "arrived" /\ pc' = [pc EXCEPT ![r] = "guard"]
        /\ inSession' = [inSession EXCEPT ![r] = FALSE] /\ writes' = writes /\ forged' = forged
        /\ inFlight' = inFlight + 1 /\ entered' = entered + 1 /\ total' = total
    BY <1>10 DEF Enter, At
  <2>2. pc'[r] = "guard" /\ ~inSession'[r] /\ writes'[r] = 0
    BY <1>1, <2>1 DEF RequestInv
  <2>3. RequestInv(r)'
    BY <2>2 DEF RequestInv
  <2>4. "guard" \in Places /\ InsideOf("guard", FALSE) /\ ~InsideOf(pc[r], inSession[r])
    BY <2>1 DEF Places, InsideOf
  <2>5. writes' = [writes EXCEPT ![r] = writes[r]]
    BY <1>2, <2>1
  <2> QED
    BY <1>1, <1>2, <2>1, <2>3, <2>4, <2>5, OneRequest
<1>11. ASSUME NEW e \in BOOLEAN, Leave(r, e), NEW w \in Nat, writes' = [writes EXCEPT ![r] = w],
              pc[r] \in {"guard", "handler", "replied"}, w \in {0, 1}, ~e => w = 1
       PROVE  ServerInv'
  <2> DEFINE p == IF e THEN "leaving" ELSE "done"
  <2>1. /\ pc' = [pc EXCEPT ![r] = p] /\ inSession' = inSession /\ forged' = forged
        /\ inFlight' = inFlight - 1 /\ total' = total + 1 /\ entered' = entered
    BY <1>11 DEF Leave, At
  <2>2. p \in Places /\ p \in {"leaving", "done"} /\ (p = "done" => w = 1) /\ ~inSession[r]
    BY <1>1, <1>11 DEF Places, RequestInv
  <2> HIDE DEF p
  <2>3. pc'[r] = p /\ ~inSession'[r] /\ writes'[r] = w
    BY <1>1, <1>11, <2>1, <2>2
  <2>4. RequestInv(r)'
    BY <1>11, <2>2, <2>3 DEF RequestInv
  <2>5. ~InsideOf(p, inSession[r]) /\ InsideOf(pc[r], inSession[r])
    BY <1>11, <2>2 DEF InsideOf
  <2>6. inSession' = [inSession EXCEPT ![r] = inSession[r]]
    BY <1>2, <2>1
  <2> QED
    BY <1>1, <1>2, <1>11, <2>1, <2>2, <2>4, <2>5, <2>6, OneRequest
<1>12. CASE CSRFProtection(r)
  <2>1. CASE Leave(r, TRUE)
    <3>1. pc[r] = "guard" /\ writes[r] = 0 /\ writes' = [writes EXCEPT ![r] = writes[r]]
      BY <1>1, <1>2, <1>12 DEF CSRFProtection, RequestInv
    <3> QED
      BY <1>2, <1>11, <2>1, <3>1
  <2>2. CASE At(r, "handler") /\ UNCHANGED <<inSession, forged, gauges>>
    BY <1>1, <1>3, <1>12, <2>2 DEF CSRFProtection, Places, RequestInv, InsideOf
  <2> QED
    BY <1>12, <2>1, <2>2 DEF CSRFProtection
<1>13. CASE Finish(r)
  <2>1. UNCHANGED writes /\ writes' = [writes EXCEPT ![r] = writes[r]]
    BY <1>2, <1>13 DEF Finish
  <2>2. CASE pc[r] = "handler" /\ Leave(r, TRUE)
    BY <1>1, <1>2, <1>11, <2>1, <2>2 DEF RequestInv
  <2>3. CASE pc[r] = "replied" /\ \E e \in BOOLEAN : Leave(r, e)
    BY <1>1, <1>2, <1>11, <2>1, <2>3 DEF RequestInv
  <2> QED
    BY <1>13, <2>2, <2>3 DEF Finish
<1>14. ErrorHandler(r) /\ writes[r] \in {0, 1} => writes' = [writes EXCEPT ![r] = 1]
  BY <1>1, <1>2 DEF ErrorHandler, Write
<1>15. CASE Recover(r)
  <2>1. pc[r] \in {"handler", "replied"} /\ writes[r] \in {0, 1} /\ Leave(r, FALSE)
    BY <1>1, <1>15 DEF Recover, RequestInv
  <2>2. writes' = [writes EXCEPT ![r] = 1]
    BY <1>14, <1>15, <2>1 DEF Recover
  <2> QED
    BY <1>11, <2>1, <2>2
<1>16. ASSUME NEW p \in {"replied", "done", "idle"}, NEW w \in Nat, pc[r] \notin {"idle"},
              pc' = [pc EXCEPT ![r] = p], writes' = [writes EXCEPT ![r] = w],
              NEW s \in BOOLEAN, inSession' = [inSession EXCEPT ![r] = s], ~s,
              w = (IF p = "idle" THEN 0 ELSE 1),
              forged' \in [Requests -> BOOLEAN], UNCHANGED gauges,
              InsideOf(p, s) <=> InsideOf(pc[r], inSession[r])
       PROVE  ServerInv'
  <2>1. pc'[r] = p /\ ~inSession'[r] /\ writes'[r] = w
    BY <1>1, <1>16
  <2>2. RequestInv(r)' /\ p \in Places
    BY <1>16, <2>1 DEF RequestInv, Places
  <2> QED
    BY <1>1, <1>16, <2>2, OneRequest
<1>20. CASE Save(r)
  BY <1>1, <1>3, <1>20 DEF Save, Places, RequestInv, InsideOf
<1>17. CASE Reply(r)
  <2>1. /\ pc[r] = "handler" /\ pc' = [pc EXCEPT ![r] = "replied"] /\ writes[r] = 0
        /\ writes' = [writes EXCEPT ![r] = 1] /\ ~inSession[r]
        /\ UNCHANGED <<inSession, forged, gauges>>
    BY <1>1, <1>17 DEF Reply, At, Write, RequestInv
  <2>2. InsideOf("replied", inSession[r]) <=> InsideOf(pc[r], inSession[r])
    BY <2>1 DEF InsideOf
  <2> QED
    BY <1>1, <1>2, <1>16, <2>1, <2>2
<1>18. CASE Answer(r)
  <2>1. /\ pc[r] \in {"leaving", "saved"} /\ pc' = [pc EXCEPT ![r] = "done"]
        /\ writes' = [writes EXCEPT ![r] = 1] /\ ~inSession[r]
        /\ UNCHANGED <<inSession, forged, gauges>>
    BY <1>1, <1>14, <1>18 DEF Answer, At, RequestInv
  <2>2. InsideOf("done", inSession[r]) <=> InsideOf(pc[r], inSession[r])
    BY <2>1 DEF InsideOf
  <2> QED
    BY <1>1, <1>2, <1>16, <2>1, <2>2
<1>19. CASE Ended(r)
  <2>1. /\ pc[r] = "done" /\ pc' = [pc EXCEPT ![r] = "idle"]
        /\ writes' = [writes EXCEPT ![r] = 0] /\ inSession' = [inSession EXCEPT ![r] = FALSE]
        /\ forged' \in [Requests -> BOOLEAN] /\ UNCHANGED gauges
    BY <1>1, <1>19 DEF Ended, At
  <2>2. InsideOf("idle", FALSE) <=> InsideOf(pc[r], inSession[r])
    BY <2>1 DEF InsideOf
  <2> QED
    BY <1>16, <2>1, <2>2
<1> QED
  BY <1>4, <1>5, <1>6, <1>7, <1>8, <1>9, <1>10, <1>12, <1>13, <1>15, <1>17, <1>18, <1>19, <1>20 DEF Handle

-----------------------------------------------------------------------------
(* The theorems *)

LEMMA ServerInvariant == Spec => []ServerInv
<1>1. ServerInv /\ [Next]_vars => ServerInv'
  <2> SUFFICES ASSUME ServerInv, [Next]_vars PROVE ServerInv'
    OBVIOUS
  <2>1. CASE UNCHANGED vars
    <3>1. UNCHANGED <<requests, gauges>> /\ UNCHANGED <<process, pool>> /\ UNCHANGED pc
      BY <2>1 DEF vars, requests
    <3>2. TypeOK' /\ ProcessInv' /\ StopsClean'
      BY <3>1 DEF ServerInv, TypeOK, ProcessInv, StopsClean, requests, gauges, process
    <3> QED
      BY <3>1, <3>2, RequestsUntouched DEF ServerInv
  <2>2. CASE Over
    BY <2>1, <2>2 DEF Over
  <2>3. CASE phase # "exited" /\ Live
    <3>1. CASE Start
      BY <3>1, StartStep
    <3>2. CASE \E r \in Requests : Handle(r)
      BY <2>3, <3>2, HandleStep
    <3>3. CASE Build \/ Shutdown \/ Drained \/ TimesOut \/ Close \/ Signal \/ Crash \/ Goroutine
      BY <2>3, <3>3, ProcessStep
    <3> QED
      BY <2>3, <3>1, <3>2, <3>3 DEF Live, Main
  <2> QED
    BY <2>1, <2>2, <2>3 DEF Next
<1> QED
  BY <1>1, ServerInit, PTL DEF Spec

\* Every variable keeps its type.
THEOREM ServerTypeCorrect == Spec => []TypeOK
  BY ServerInvariant, PTL DEF ServerInv

\* A process that ends without an error has cut no request off.
THEOREM AlwaysStopsClean == Spec => []StopsClean
  BY ServerInvariant, PTL DEF ServerInv

\* Gauge, counter and answers agree for any number of overlapping requests.
THEOREM AlwaysCountedAndAnswered == Spec => []CountedAndAnswered
<1>1. ServerInv => CountedAndAnswered
  BY DEF ServerInv, Balance, RequestInv, CountedAndAnswered
<1> QED
  BY <1>1, ServerInvariant, PTL
=============================================================================
