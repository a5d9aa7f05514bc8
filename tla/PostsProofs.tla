---------------------------- MODULE PostsProofs ----------------------------
(***************************************************************************)
(* What holds of Posts for any number of requests, ids, titles, slug       *)
(* attempts and clock ticks.                                               *)
(***************************************************************************)
EXTENDS Posts, FiniteSetTheorems, TLAPS

\* A stamp fits a status when it is set exactly for "published", and is past.
Fits(stamp, status) ==
  IF status = "published" THEN stamp # NULL /\ stamp <= now ELSE stamp = NULL

\* What a request carries between two statements is still fit to be written,
\* whatever happened to the table meanwhile.
PendingFits ==
  \A r \in Requests :
    /\ pc[r] = "insert" => /\ req[r].base \in Bases
                           /\ req[r].n >= 1
                           /\ Fits(req[r].stamp, req[r].status)
    /\ pc[r] = "decide" => /\ req[r].id \in Ids
                           /\ Fits(req[r].stamp, req[r].was)
    /\ pc[r] = "update" => /\ req[r].id \in Ids
                           /\ Fits(req[r].stamp, req[r].status)
    /\ pc[r] = "softdelete" => req[r].id \in Ids

\* The inductive invariant behind the state of the rows.
RowsInv == TypeOK /\ SlugsNeverShared /\ StampMatchesStatus /\ PendingFits

-----------------------------------------------------------------------------
(* Operators *)

\* A candidate slug is a slug.
LEMMA WithSuffixType ==
  ASSUME NEW base \in Slug, NEW n \in Nat
  PROVE  WithSuffix(base, n) \in Slug
<1>1. CASE n <= 1
  BY <1>1 DEF WithSuffix
<1>2. CASE ~(n <= 1)
  <2>1. Append(base.suffix, n) \in Seq(Nat)
    BY DEF Slug
  <2> QED
    BY <1>2, <2>1 DEF WithSuffix, Slug
<1> QED
  BY <1>1, <1>2

\* The published_at that Update computes fits the status it writes, if the one
\* it read fitted the status it read.
LEMMA NextStampFits ==
  ASSUME TypeOK, NEW was \in Status, NEW status \in Status,
         NEW stamp \in Time \cup {NULL}, Fits(stamp, was)
  PROVE  /\ NextPublishedAt(was, stamp, status) \in Time \cup {NULL}
         /\ Fits(NextPublishedAt(was, stamp, status), status)
         /\ Transition(was, status) \in Transitions
<1>1. now \in Time /\ now <= now /\ now # NULL
  BY PostsAssumption DEF TypeOK, Time
<1>2. CASE was = "draft"
  BY <1>1, <1>2 DEF Fits, NextPublishedAt, Transition, Transitions, Status
<1>3. CASE was = "published"
  BY <1>1, <1>3 DEF Fits, NextPublishedAt, Transition, Transitions, Status
<1> QED
  BY <1>2, <1>3 DEF Status

\* Counting keeps the counters numbers.
LEMMA CountType ==
  ASSUME writes \in [Operations -> Nat], NEW ops, Count(ops)
  PROVE  writes' \in [Operations -> Nat]
  BY DEF Count

\* A committed statement ends its request and keeps types.
LEMMA CommittedType ==
  ASSUME TypeOK, NEW r \in Requests, NEW answer \in Replies, NEW ops,
         Committed(r, answer, ops)
  PROVE  /\ writes' \in [Operations -> Nat]
         /\ pc' = [pc EXCEPT ![r] = "done"] /\ pc' \in [Requests -> Locations]
         /\ reply' \in [Requests -> Replies]
  BY CountType DEF Committed, Respond, TypeOK, Locations, Replies

-----------------------------------------------------------------------------
(* The inductive invariant *)

LEMMA RowsInit == Init => RowsInv
<1> SUFFICES ASSUME Init PROVE RowsInv
  OBVIOUS
<1> USE PostsAssumption DEF Init
<1>1. NoLocals \in Locals
  BY DEF NoLocals, Locals, Status, Transitions
<1>2. TypeOK
  BY <1>1 DEF TypeOK, Time, Locations, Replies
<1>3. SlugsNeverShared /\ StampMatchesStatus /\ PendingFits
  BY DEF SlugsNeverShared, StampMatchesStatus, PendingFits
<1> QED
  BY <1>2, <1>3 DEF RowsInv

\* Time is made of positive numbers, and NULL is not one.
LEMMA TimeFacts == Time \subseteq Nat /\ NULL \notin Time /\ 1 \in Time
<1>1. MaxClock \in Nat /\ MaxClock >= 1
  BY PostsAssumption
<1>2. Time \subseteq Nat /\ 1 \in Time
  BY <1>1 DEF Time
<1> QED
  BY <1>2, PostsAssumption

LEMMA NowFacts == ASSUME TypeOK PROVE now \in Time /\ now <= now /\ now # NULL
<1>1. now \in Time
  BY DEF TypeOK
<1> QED
  BY <1>1, TimeFacts

\* Steps that leave the table and the clock alone keep the rows' part of the
\* invariant; what is left to show is the request's own part.
LEMMA QuietStep ==
  ASSUME RowsInv, UNCHANGED <<posts, now>>, TypeOK', PendingFits'
  PROVE  RowsInv'
  BY DEF RowsInv, SlugsNeverShared, StampMatchesStatus

\* A request that answers carries nothing to write any more.
LEMMA AnswerStep ==
  ASSUME RowsInv, NEW r \in Requests, NEW answer \in Replies, Respond(r, answer),
         UNCHANGED <<posts, now, writes>>, req' \in [Requests -> Locals],
         \A s \in Requests \ {r} : req'[s] = req[s]
  PROVE  RowsInv'
<1>1. TypeOK'
  BY DEF RowsInv, TypeOK, Respond, Locations
<1>2. PendingFits'
  BY DEF RowsInv, TypeOK, Respond, PendingFits, Fits
<1> QED
  BY <1>1, <1>2, QuietStep

LEMMA CreateStep == ASSUME RowsInv, NEW r \in Requests, Create(r) PROVE RowsInv'
<1>1. PICK base \in Bases, given \in Status \cup {"omitted"} :
        LET status == IF given = "omitted" THEN "draft" ELSE given
        IN req' = [req EXCEPT ![r] =
                     [@ EXCEPT !.base = base, !.n = FirstAttempt, !.status = status,
                               !.stamp = IF status = "published" THEN now ELSE NULL]]
  BY DEF Create
<1> DEFINE status == IF given = "omitted" THEN "draft" ELSE given
           stamp == IF status = "published" THEN now ELSE NULL
<1>2. now \in Time /\ now <= now /\ now # NULL /\ req[r] \in Locals
  BY NowFacts DEF RowsInv, TypeOK
<1>3. status \in Status /\ stamp \in Time \cup {NULL} /\ Fits(stamp, status)
  BY <1>2 DEF Fits, Status
<1>4. req' = [req EXCEPT ![r] = [@ EXCEPT !.base = base, !.n = FirstAttempt,
                                          !.status = status, !.stamp = stamp]]
  BY <1>1
<1> HIDE DEF status, stamp
<1>5. req' \in [Requests -> Locals]
  BY <1>2, <1>3, <1>4 DEF RowsInv, TypeOK, Locals, FirstAttempt
<1>6. TypeOK'
  BY <1>5 DEF RowsInv, TypeOK, Create, Locations
<1>7. PendingFits'
  <2>1. /\ req'[r].base = base /\ req'[r].n = FirstAttempt
        /\ req'[r].stamp = stamp /\ req'[r].status = status
    BY <1>2, <1>4 DEF RowsInv, TypeOK, Locals
  <2>2. \A s \in Requests \ {r} : req'[s] = req[s] /\ pc'[s] = pc[s]
    BY <1>4 DEF RowsInv, TypeOK, Create
  <2>3. pc'[r] = "insert" /\ now' = now
    BY DEF RowsInv, TypeOK, Create
  <2>4. SUFFICES ASSUME NEW s \in Requests
                 PROVE  PendingFits!(s)'
    BY DEF PendingFits
  <2>5. CASE s = r
    <3>1. Fits(req[r].stamp, req[r].status)'
      BY <1>3, <2>1, <2>3 DEF Fits
    <3>2. FirstAttempt >= 1
      BY DEF FirstAttempt
    <3> QED
      BY <2>1, <2>3, <2>5, <3>1, <3>2
  <2>6. CASE s # r
    BY <2>2, <2>3, <2>6 DEF RowsInv, PendingFits, Fits
  <2> QED
    BY <2>5, <2>6
<1> QED
  BY <1>6, <1>7, QuietStep DEF Create

LEMMA CollideStep == ASSUME RowsInv, NEW r \in Requests, Collide(r) PROVE RowsInv'
<1>1. req[r] \in Locals /\ NextAttempt(req[r].n) \in Nat /\ NextAttempt(req[r].n) >= 1
  BY DEF RowsInv, TypeOK, Locals, NextAttempt
<1>2. TypeOK'
  BY <1>1 DEF RowsInv, TypeOK, Collide, Locals
<1>3. PendingFits'
  BY <1>1 DEF RowsInv, TypeOK, Collide, PendingFits, Fits, Locals
<1> QED
  BY <1>2, <1>3, QuietStep DEF Collide

LEMMA FindToUpdateStep ==
  ASSUME RowsInv, NEW r \in Requests, FindToUpdate(r) PROVE RowsInv'
<1>1. PICK id \in Ids, status \in Status :
       /\ req' = [req EXCEPT ![r] =
                    IF Live(id)
                    THEN [@ EXCEPT !.id = id, !.status = status,
                                   !.was = posts[id].status,
                                   !.stamp = posts[id].publishedAt]
                    ELSE [@ EXCEPT !.id = id, !.status = status]]
       /\ \/ /\ Live(id)
             /\ pc' = [pc EXCEPT ![r] = "decide"]
             /\ UNCHANGED reply
          \/ /\ ~Live(id)
             /\ Respond(r, "not_found")
  BY DEF FindToUpdate
<1>2. req[r] \in Locals /\ UNCHANGED <<posts, now, writes>>
  BY DEF RowsInv, TypeOK, FindToUpdate
<1>3. CASE Live(id)
  <2>1. posts[id] \in Row
    BY <1>3 DEF RowsInv, TypeOK, Live
  <2>2. req' \in [Requests -> Locals]
    BY <1>1, <1>2, <1>3, <2>1 DEF RowsInv, TypeOK, Locals, Row
  <2>3. pc' = [pc EXCEPT ![r] = "decide"] /\ UNCHANGED reply
    BY <1>1, <1>3
  <2>4. TypeOK'
    BY <1>2, <2>2, <2>3 DEF RowsInv, TypeOK, Locations
  <2>5. req'[r].id \in Ids /\ Fits(req'[r].stamp, req'[r].was)
    BY <1>1, <1>2, <1>3 DEF RowsInv, TypeOK, Locals, StampMatchesStatus, Fits, Live
  <2>6. PendingFits'
    BY <1>1, <1>2, <2>3, <2>5 DEF RowsInv, TypeOK, PendingFits, Fits
  <2> QED
    BY <1>2, <2>4, <2>6, QuietStep
<1>4. CASE ~Live(id)
  <2>1. req' \in [Requests -> Locals] /\ \A s \in Requests \ {r} : req'[s] = req[s]
    BY <1>1, <1>2, <1>4 DEF RowsInv, TypeOK, Locals
  <2> QED
    BY <1>1, <1>2, <1>4, <2>1, AnswerStep DEF Replies
<1> QED
  BY <1>3, <1>4

LEMMA DecideStep == ASSUME RowsInv, NEW r \in Requests, Decide(r) PROVE RowsInv'
<1> DEFINE l == req[r]
           stamp == NextPublishedAt(l.was, l.stamp, l.status)
           change == Transition(l.was, l.status)
<1>1. /\ l \in Locals /\ l.id \in Ids
      /\ l.was \in Status /\ l.status \in Status /\ l.stamp \in Time \cup {NULL}
      /\ Fits(l.stamp, l.was)
  BY DEF RowsInv, TypeOK, PendingFits, Decide, Locals
<1>2. /\ stamp \in Time \cup {NULL} /\ Fits(stamp, l.status)
      /\ change \in Transitions
  BY <1>1, NextStampFits DEF RowsInv
<1>3. req' = [req EXCEPT ![r] = [@ EXCEPT !.stamp = stamp, !.transition = change]]
  BY DEF Decide
<1> HIDE DEF stamp, change
<1>4. TypeOK'
  <2>1. req' \in [Requests -> Locals]
    BY <1>1, <1>2, <1>3 DEF RowsInv, TypeOK, Locals
  <2> QED
    BY <2>1 DEF RowsInv, TypeOK, Decide, Locations
<1>5. req'[r].id \in Ids /\ req'[r].stamp = stamp /\ req'[r].status = l.status
  BY <1>1, <1>3 DEF RowsInv, TypeOK, Locals
<1>6. PendingFits'
  BY <1>2, <1>3, <1>5 DEF RowsInv, TypeOK, Decide, PendingFits, Fits
<1> QED
  BY <1>4, <1>6, QuietStep DEF Decide

LEMMA FindToDeleteStep ==
  ASSUME RowsInv, NEW r \in Requests, FindToDelete(r) PROVE RowsInv'
<1>1. PICK id \in Ids :
       /\ req' = [req EXCEPT ![r].id = id]
       /\ \/ pc' = [pc EXCEPT ![r] = "softdelete"] /\ UNCHANGED reply
          \/ Respond(r, "not_found")
  BY DEF FindToDelete
<1>2. req[r] \in Locals /\ UNCHANGED <<posts, now, writes>>
  BY DEF RowsInv, TypeOK, FindToDelete
<1>3. /\ req' \in [Requests -> Locals] /\ req'[r].id \in Ids
      /\ \A s \in Requests \ {r} : req'[s] = req[s]
  BY <1>1, <1>2 DEF RowsInv, TypeOK, Locals
<1>4. CASE pc' = [pc EXCEPT ![r] = "softdelete"] /\ UNCHANGED reply
  <2>1. TypeOK'
    BY <1>2, <1>3, <1>4 DEF RowsInv, TypeOK, Locations
  <2>2. PendingFits'
    BY <1>2, <1>3, <1>4 DEF RowsInv, TypeOK, PendingFits, Fits
  <2> QED
    BY <1>2, <2>1, <2>2, QuietStep
<1>5. CASE Respond(r, "not_found")
  BY <1>2, <1>3, <1>5, AnswerStep DEF Replies
<1> QED
  BY <1>1, <1>4, <1>5

\* A step that commits a change of the table ends its request; the others'
\* pending writes do not depend on the table.
LEMMA CommitStep ==
  ASSUME RowsInv, NEW r \in Requests, NEW answer \in Replies, NEW ops,
         Committed(r, answer, ops), UNCHANGED now,
         DOMAIN posts' \subseteq Ids, posts' \in [DOMAIN posts' -> Row],
         req' \in [Requests -> Locals],
         \A s \in Requests \ {r} : req'[s] = req[s]
  PROVE  TypeOK' /\ PendingFits'
<1>1. /\ writes' \in [Operations -> Nat]
      /\ pc' = [pc EXCEPT ![r] = "done"] /\ pc' \in [Requests -> Locations]
      /\ reply' \in [Requests -> Replies]
  BY CommittedType DEF RowsInv
<1>2. TypeOK'
  BY <1>1 DEF RowsInv, TypeOK
<1>3. PendingFits'
  BY <1>1 DEF RowsInv, TypeOK, PendingFits, Fits
<1> QED
  BY <1>2, <1>3

LEMMA InsertStep == ASSUME RowsInv, NEW r \in Requests, Insert(r) PROVE RowsInv'
<1> DEFINE row == [slug |-> Candidate(r), status |-> req[r].status,
                   publishedAt |-> req[r].stamp, deletedAt |-> NULL]
<1>1. PICK id \in Ids \ DOMAIN posts :
        /\ posts' = [i \in DOMAIN posts \cup {id} |-> IF i = id THEN row ELSE posts[i]]
        /\ req' = [req EXCEPT ![r].id = id]
  BY DEF Insert
<1>2. /\ req[r] \in Locals /\ req[r].base \in Bases
      /\ Fits(req[r].stamp, req[r].status)
  BY DEF RowsInv, TypeOK, PendingFits, Insert
<1>3. Candidate(r) \in Slug
  BY <1>2, WithSuffixType, PostsAssumption DEF Candidate, Locals
<1>4. row \in Row
  BY <1>2, <1>3 DEF Locals, Row
<1>5. /\ row.slug \notin TakenSlugs /\ row.deletedAt = NULL
      /\ row.status = req[r].status /\ row.publishedAt = req[r].stamp
  BY DEF Insert
<1> HIDE DEF row
<1>6. /\ DOMAIN posts' = DOMAIN posts \cup {id} /\ posts'[id] = row
      /\ \A i \in DOMAIN posts : posts'[i] = posts[i] /\ i # id
  BY <1>1
<1>7. posts' \in [DOMAIN posts' -> Row] /\ DOMAIN posts' \subseteq Ids
  BY <1>1, <1>4, <1>6 DEF RowsInv, TypeOK
<1>8. TypeOK' /\ PendingFits'
  <2>1. req' \in [Requests -> Locals] /\ \A s \in Requests \ {r} : req'[s] = req[s]
    BY <1>1, <1>2 DEF RowsInv, TypeOK, Locals
  <2> QED
    BY <1>7, <2>1, CommitStep DEF Insert, Replies
<1>9. SlugsNeverShared'
  BY <1>5, <1>6 DEF RowsInv, SlugsNeverShared, TakenSlugs
<1>10. StampMatchesStatus'
  BY <1>2, <1>5, <1>6 DEF RowsInv, StampMatchesStatus, Fits, Insert
<1> QED
  BY <1>8, <1>9, <1>10 DEF RowsInv

LEMMA UpdateStep == ASSUME RowsInv, NEW r \in Requests, Update(r) PROVE RowsInv'
<1> DEFINE id == req[r].id
<1>1. /\ id \in Ids /\ req[r] \in Locals /\ Fits(req[r].stamp, req[r].status)
      /\ UNCHANGED <<now, req>>
  BY DEF RowsInv, TypeOK, PendingFits, Update
<1>2. CASE Live(id)
  <2>1. /\ posts' = [posts EXCEPT ![id] = UpdatedRow(@, req[r])]
        /\ Committed(r, "updated", UpdateOperations(req[r].transition))
    BY <1>2 DEF Update
  <2>2. id \in DOMAIN posts /\ posts[id] \in Row
    BY <1>2 DEF RowsInv, TypeOK, Live
  <2>3. /\ UpdatedRow(posts[id], req[r]) \in Row
        /\ UpdatedRow(posts[id], req[r]).slug = posts[id].slug
        /\ UpdatedRow(posts[id], req[r]).status = req[r].status
        /\ UpdatedRow(posts[id], req[r]).publishedAt = req[r].stamp
    BY <1>1, <2>2 DEF UpdatedRow, Row, Locals
  <2>4. /\ DOMAIN posts' = DOMAIN posts
        /\ posts'[id] = UpdatedRow(posts[id], req[r])
        /\ \A i \in DOMAIN posts : i # id => posts'[i] = posts[i]
    BY <2>1, <2>2
  <2>5. posts' \in [DOMAIN posts' -> Row] /\ DOMAIN posts' \subseteq Ids
    BY <2>1, <2>3, <2>4 DEF RowsInv, TypeOK
  <2>6. TypeOK' /\ PendingFits'
    BY <1>1, <2>1, <2>5, CommitStep DEF RowsInv, TypeOK, Replies
  <2>7. SlugsNeverShared'
    BY <2>3, <2>4 DEF RowsInv, SlugsNeverShared
  <2>8. StampMatchesStatus'
    BY <1>1, <2>3, <2>4 DEF RowsInv, StampMatchesStatus, Fits
  <2> QED
    BY <2>6, <2>7, <2>8 DEF RowsInv
<1>3. CASE ~Live(id)
  BY <1>1, <1>3, AnswerStep DEF Update, Replies, RowsInv, TypeOK
<1> QED
  BY <1>2, <1>3

LEMMA SoftDeleteStep == ASSUME RowsInv, NEW r \in Requests, SoftDelete(r) PROVE RowsInv'
<1> DEFINE id == req[r].id
<1>1. id \in Ids /\ req[r] \in Locals /\ UNCHANGED <<now, req>>
  BY DEF RowsInv, TypeOK, PendingFits, SoftDelete
<1>2. CASE Live(id)
  <2>1. posts' = [posts EXCEPT ![id].deletedAt = now] /\ Committed(r, "deleted", {"delete"})
    BY <1>2 DEF SoftDelete
  <2>2. id \in DOMAIN posts /\ posts[id] \in Row /\ now \in Time
    BY <1>2 DEF RowsInv, TypeOK, Live
  <2>3. /\ DOMAIN posts' = DOMAIN posts
        /\ posts'[id] = [posts[id] EXCEPT !.deletedAt = now]
        /\ \A i \in DOMAIN posts : i # id => posts'[i] = posts[i]
    BY <2>1, <2>2
  <2>4. /\ posts'[id] \in Row /\ posts'[id].slug = posts[id].slug
        /\ posts'[id].status = posts[id].status
        /\ posts'[id].publishedAt = posts[id].publishedAt
    BY <2>2, <2>3 DEF Row
  <2>5. posts' \in [DOMAIN posts' -> Row] /\ DOMAIN posts' \subseteq Ids
    BY <2>1, <2>3, <2>4 DEF RowsInv, TypeOK
  <2>6. TypeOK' /\ PendingFits'
    BY <1>1, <2>1, <2>5, CommitStep DEF RowsInv, TypeOK, Replies
  <2>7. SlugsNeverShared'
    <3>1. DOMAIN posts' = DOMAIN posts /\ \A i \in DOMAIN posts : posts'[i].slug = posts[i].slug
      BY <2>3, <2>4
    <3> QED
      BY <3>1 DEF RowsInv, SlugsNeverShared
  <2>8. StampMatchesStatus'
    BY <1>1, <2>2, <2>3, <2>4 DEF RowsInv, StampMatchesStatus
  <2> QED
    BY <2>6, <2>7, <2>8 DEF RowsInv
<1>3. CASE ~Live(id)
  BY <1>1, <1>3, AnswerStep DEF SoftDelete, Replies, RowsInv, TypeOK
<1> QED
  BY <1>2, <1>3

LEMMA CrashStep == ASSUME RowsInv, Crash PROVE RowsInv'
<1>1. TypeOK'
  BY DEF RowsInv, TypeOK, Crash, Locations, Replies
<1>2. PendingFits'
  BY DEF RowsInv, TypeOK, Crash, PendingFits
<1> QED
  BY <1>1, <1>2, QuietStep DEF Crash

LEMMA TickStep == ASSUME RowsInv, Tick PROVE RowsInv'
<1>1. now' \in Time /\ now <= now' /\ \A t \in Time : t <= now => t <= now'
  BY PostsAssumption DEF RowsInv, TypeOK, Tick, Time
<1>2. TypeOK'
  BY <1>1 DEF RowsInv, TypeOK, Tick
<1>3. StampMatchesStatus'
  BY <1>1 DEF RowsInv, TypeOK, Row, StampMatchesStatus, Tick
<1>4. PendingFits'
  BY <1>1 DEF RowsInv, TypeOK, Locals, PendingFits, Fits, Tick
<1> QED
  BY <1>2, <1>3, <1>4 DEF RowsInv, SlugsNeverShared, Tick

\* Every step keeps the inductive invariant.
LEMMA RowsStep == RowsInv /\ [Next]_vars => RowsInv'
<1> SUFFICES ASSUME RowsInv, [Next]_vars PROVE RowsInv'
  OBVIOUS
<1>1. ASSUME NEW r \in Requests, Arrive(r) PROVE RowsInv'
  <2>1. CASE Create(r)
    BY <2>1, CreateStep
  <2>2. CASE Reject(r)
    BY <2>2, AnswerStep DEF Reject, Replies, RowsInv, TypeOK
  <2>3. CASE FindToUpdate(r)
    BY <2>3, FindToUpdateStep
  <2>4. CASE FindToDelete(r)
    BY <2>4, FindToDeleteStep
  <2> QED
    BY <1>1, <2>1, <2>2, <2>3, <2>4 DEF Arrive
<1>2. ASSUME NEW r \in Requests, StatementFails(r) PROVE RowsInv'
  BY <1>2, AnswerStep DEF StatementFails, Replies, RowsInv, TypeOK
<1>3. ASSUME NEW r \in Requests, Advance(r) PROVE RowsInv'
  <2>1. CASE Insert(r)
    BY <2>1, InsertStep
  <2>2. CASE Collide(r)
    BY <2>2, CollideStep
  <2>3. CASE GiveUp(r)
    BY <2>3, AnswerStep DEF GiveUp, Replies, RowsInv, TypeOK
  <2>4. CASE Decide(r)
    BY <2>4, DecideStep
  <2>5. CASE Update(r)
    BY <2>5, UpdateStep
  <2>6. CASE SoftDelete(r)
    BY <2>6, SoftDeleteStep
  <2> QED
    BY <1>3, <2>1, <2>2, <2>3, <2>4, <2>5, <2>6 DEF Advance
<1>4. CASE Crash
  BY <1>4, CrashStep
<1>5. CASE Tick
  BY <1>5, TickStep
<1>6. CASE UNCHANGED vars
  <2>1. TypeOK' /\ PendingFits'
    BY <1>6 DEF vars, RowsInv, TypeOK, PendingFits, Fits
  <2> QED
    BY <1>6, <2>1, QuietStep DEF vars
<1> QED
  BY <1>1, <1>2, <1>3, <1>4, <1>5, <1>6 DEF Next

LEMMA RowsInvariant == Spec => []RowsInv
  BY RowsInit, RowsStep, PTL DEF Spec

-----------------------------------------------------------------------------
(* Theorems *)

\* The state of the process and of the table always has its type.
THEOREM TypeCorrect == Spec => []TypeOK
<1>1. RowsInv => TypeOK
  BY DEF RowsInv
<1> QED
  BY <1>1, RowsInvariant, PTL

\* However many creates and deletes run at once, no slug is ever given twice.
THEOREM SlugsUnique == Spec => []SlugsNeverShared
<1>1. RowsInv => SlugsNeverShared
  BY DEF RowsInv
<1> QED
  BY <1>1, RowsInvariant, PTL

\* However updates, deletes and creates interleave, a post has a publication
\* date exactly while it is published, and the date is past.
THEOREM StampsMatch == Spec => []StampMatchesStatus
<1>1. RowsInv => StampMatchesStatus
  BY DEF RowsInv
<1> QED
  BY <1>1, RowsInvariant, PTL

-----------------------------------------------------------------------------
(* How one step may change the table *)

\* The three steps that write the table, with what they write.
LEMMA InsertEffect ==
  ASSUME RowsInv, NEW r \in Requests, Insert(r)
  PROVE  \E id \in Ids \ DOMAIN posts :
           /\ req' = [req EXCEPT ![r].id = id] /\ req'[r] = [req[r] EXCEPT !.id = id]
           /\ DOMAIN posts' = DOMAIN posts \cup {id}
           /\ \A i \in DOMAIN posts : posts'[i] = posts[i]
           /\ posts'[id].slug = Candidate(r) /\ posts'[id].deletedAt = NULL
           /\ posts'[id].status = req[r].status
<1> DEFINE row == [slug |-> Candidate(r), status |-> req[r].status,
                   publishedAt |-> req[r].stamp, deletedAt |-> NULL]
<1>1. PICK id \in Ids \ DOMAIN posts :
        /\ posts' = [i \in DOMAIN posts \cup {id} |-> IF i = id THEN row ELSE posts[i]]
        /\ req' = [req EXCEPT ![r].id = id]
  BY DEF Insert
<1>2. /\ row.slug = Candidate(r) /\ row.deletedAt = NULL
      /\ row.status = req[r].status
  OBVIOUS
<1> HIDE DEF row
<1>3. req'[r] = [req[r] EXCEPT !.id = id]
  BY <1>1 DEF RowsInv, TypeOK
<1>4. /\ DOMAIN posts' = DOMAIN posts \cup {id} /\ posts'[id] = row
      /\ \A i \in DOMAIN posts : posts'[i] = posts[i]
  BY <1>1
<1> QED
  BY <1>1, <1>2, <1>3, <1>4

LEMMA UpdateEffect ==
  ASSUME RowsInv, NEW r \in Requests, Update(r), Live(req[r].id)
  PROVE  /\ req[r].id \in DOMAIN posts /\ DOMAIN posts' = DOMAIN posts /\ req' = req
         /\ \A i \in DOMAIN posts : i # req[r].id => posts'[i] = posts[i]
         /\ posts'[req[r].id].slug = posts[req[r].id].slug
         /\ posts'[req[r].id].status = req[r].status
         /\ posts[req[r].id].deletedAt = NULL /\ posts'[req[r].id].deletedAt = NULL
<1> DEFINE id == req[r].id
<1>1. /\ posts' = [posts EXCEPT ![id] = UpdatedRow(@, req[r])]
      /\ id \in DOMAIN posts /\ posts[id] \in Row /\ posts[id].deletedAt = NULL
      /\ req' = req
  BY DEF Update, Live, RowsInv, TypeOK
<1>2. posts'[id] = UpdatedRow(posts[id], req[r]) /\ DOMAIN posts' = DOMAIN posts
  BY <1>1
<1> QED
  BY <1>1, <1>2 DEF UpdatedRow, Row

LEMMA SoftDeleteEffect ==
  ASSUME RowsInv, NEW r \in Requests, SoftDelete(r), Live(req[r].id)
  PROVE  /\ req[r].id \in DOMAIN posts /\ DOMAIN posts' = DOMAIN posts /\ req' = req
         /\ \A i \in DOMAIN posts : i # req[r].id => posts'[i] = posts[i]
         /\ posts'[req[r].id].slug = posts[req[r].id].slug
         /\ posts'[req[r].id].status = posts[req[r].id].status
         /\ posts[req[r].id].deletedAt = NULL /\ posts'[req[r].id].deletedAt # NULL
<1> DEFINE id == req[r].id
<1>1. /\ posts' = [posts EXCEPT ![id].deletedAt = now]
      /\ id \in DOMAIN posts /\ posts[id] \in Row /\ posts[id].deletedAt = NULL
      /\ req' = req /\ now # NULL
  BY NowFacts DEF SoftDelete, Live, RowsInv, TypeOK
<1>2. posts'[id] = [posts[id] EXCEPT !.deletedAt = now] /\ DOMAIN posts' = DOMAIN posts
  BY <1>1
<1> QED
  BY <1>1, <1>2 DEF Row

\* No other step writes it.
LEMMA TableWriters ==
  ASSUME [Next]_vars
  PROVE  \/ UNCHANGED posts
         \/ \E r \in Requests :
              \/ Insert(r)
              \/ Update(r) /\ Live(req[r].id)
              \/ SoftDelete(r) /\ Live(req[r].id)
<1>1. ASSUME NEW r \in Requests, Arrive(r) PROVE UNCHANGED posts
  BY <1>1 DEF Arrive, Create, Reject, FindToUpdate, FindToDelete
<1>2. ASSUME NEW r \in Requests, Advance(r)
      PROVE  \/ UNCHANGED posts
             \/ Insert(r)
             \/ Update(r) /\ Live(req[r].id)
             \/ SoftDelete(r) /\ Live(req[r].id)
  BY <1>2 DEF Advance, Collide, GiveUp, Decide, Update, SoftDelete
<1> QED
  BY <1>1, <1>2 DEF Next, StatementFails, Crash, Tick, vars

LEMMA AgesStep == RowsInv /\ [Next]_vars => Ages
<1> SUFFICES ASSUME RowsInv, [Next]_vars PROVE Ages
  OBVIOUS
<1>1. CASE UNCHANGED posts
  BY <1>1 DEF Ages
<1>2. ASSUME NEW r \in Requests, Insert(r) PROVE Ages
  BY <1>2, InsertEffect DEF Ages
<1>3. ASSUME NEW r \in Requests, Update(r), Live(req[r].id) PROVE Ages
  BY <1>3, UpdateEffect DEF Ages
<1>4. ASSUME NEW r \in Requests, SoftDelete(r), Live(req[r].id) PROVE Ages
  BY <1>4, SoftDeleteEffect DEF Ages
<1> QED
  BY <1>1, <1>2, <1>3, <1>4, TableWriters

\* No interleaving revives, moves or edits a deleted post, and none changes a
\* slug or loses a row.
THEOREM RowsAge == Spec => RowsOnlyAge
<1>1. RowsInv /\ [Next]_vars => [Ages]_posts
  BY AgesStep
<1> QED
  BY <1>1, RowsInvariant, PTL DEF Spec, RowsOnlyAge

-----------------------------------------------------------------------------
(* Counters *)

Deleted == {i \in DOMAIN posts : posts[i].deletedAt # NULL}

CountersInv == IsFiniteSet(DOMAIN posts) /\ CountersNeverOverstate

\* A counter moves with a write of the table, or all start from zero.
LEMMA CounterWriters ==
  ASSUME [Next]_vars
  PROVE  \/ UNCHANGED <<posts, writes>>
         \/ UNCHANGED posts /\ writes' = [o \in Operations |-> 0]
         \/ \E r \in Requests :
              \/ Insert(r)
              \/ Update(r) /\ Live(req[r].id)
              \/ SoftDelete(r) /\ Live(req[r].id)
<1>1. ASSUME NEW r \in Requests, Arrive(r) PROVE UNCHANGED <<posts, writes>>
  BY <1>1 DEF Arrive, Create, Reject, FindToUpdate, FindToDelete
<1>2. ASSUME NEW r \in Requests, Advance(r)
      PROVE  \/ UNCHANGED <<posts, writes>>
             \/ Insert(r)
             \/ Update(r) /\ Live(req[r].id)
             \/ SoftDelete(r) /\ Live(req[r].id)
  BY <1>2 DEF Advance, Collide, GiveUp, Decide, Update, SoftDelete
<1> QED
  BY <1>1, <1>2 DEF Next, StatementFails, Crash, Tick, vars

\* A commit raises the counters it names, or none.
LEMMA CommittedCounts ==
  ASSUME RowsInv, NEW r \in Requests, NEW answer, NEW ops, Committed(r, answer, ops)
  PROVE  /\ writes \in [Operations -> Nat]
         /\ \/ \A o \in Operations : writes'[o] = writes[o]
            \/ \A o \in Operations :
                  writes'[o] = IF o \in ops THEN writes[o] + 1 ELSE writes[o]
  BY DEF Committed, Count, RowsInv, TypeOK

LEMMA CountersInsert ==
  ASSUME RowsInv, CountersInv, NEW r \in Requests, Insert(r) PROVE CountersInv'
<1>1. PICK id \in Ids \ DOMAIN posts :
        /\ DOMAIN posts' = DOMAIN posts \cup {id}
        /\ \A i \in DOMAIN posts : posts'[i] = posts[i]
        /\ posts'[id].deletedAt = NULL
  BY InsertEffect
<1>2. Deleted' = Deleted
  BY <1>1 DEF Deleted
<1>3. /\ IsFiniteSet(DOMAIN posts')
      /\ Cardinality(DOMAIN posts') = Cardinality(DOMAIN posts) + 1
      /\ Cardinality(DOMAIN posts) \in Nat
  BY <1>1, FS_AddElement, FS_CardinalityType DEF CountersInv
<1>4. Committed(r, "created", {"create"})
  BY DEF Insert
<1>5. /\ writes'["create"] <= writes["create"] + 1 /\ writes["create"] \in Nat
      /\ writes'["create"] \in Nat
      /\ \A o \in Operations \ {"create"} : writes'[o] = writes[o]
  BY <1>4, CommittedCounts DEF Operations
<1>6. writes'["create"] <= Cardinality(DOMAIN posts')
  BY <1>3, <1>5 DEF CountersInv, CountersNeverOverstate
<1>7. writes'["delete"] <= Cardinality(Deleted)
  BY <1>5 DEF CountersInv, CountersNeverOverstate, Deleted, Operations
<1>8. writes'["publish"] + writes'["unpublish"] <= writes'["update"]
  BY <1>5 DEF CountersInv, CountersNeverOverstate, Operations
<1> QED
  BY <1>2, <1>3, <1>6, <1>7, <1>8 DEF CountersInv, CountersNeverOverstate, Deleted

LEMMA CountersUpdate ==
  ASSUME RowsInv, CountersInv, NEW r \in Requests, Update(r), Live(req[r].id)
  PROVE  CountersInv'
<1>1. Deleted' = Deleted /\ DOMAIN posts' = DOMAIN posts
  BY UpdateEffect DEF Deleted
<1>2. Committed(r, "updated", UpdateOperations(req[r].transition))
  BY DEF Update
<1>3. /\ "update" \in UpdateOperations(req[r].transition)
      /\ UpdateOperations(req[r].transition) \cap {"create", "delete"} = {}
      /\ ~({"publish", "unpublish"} \subseteq UpdateOperations(req[r].transition))
  <2>1. req[r].transition \in Transitions
    BY DEF RowsInv, TypeOK, Locals
  <2> QED
    BY <2>1 DEF UpdateOperations, Transitions
<1>4. /\ \A o \in Operations : writes[o] \in Nat
      /\ writes'["create"] = writes["create"] /\ writes'["delete"] = writes["delete"]
      /\ writes["publish"] + writes["unpublish"] <= writes["update"] =>
           writes'["publish"] + writes'["unpublish"] <= writes'["update"]
  BY <1>2, <1>3, CommittedCounts DEF Operations
<1> QED
  BY <1>1, <1>4 DEF CountersInv, CountersNeverOverstate, Deleted

LEMMA CountersSoftDelete ==
  ASSUME RowsInv, CountersInv, NEW r \in Requests, SoftDelete(r), Live(req[r].id)
  PROVE  CountersInv'
<1> DEFINE id == req[r].id
<1>1. DOMAIN posts' = DOMAIN posts /\ id \notin Deleted /\ Deleted' = Deleted \cup {id}
  BY SoftDeleteEffect DEF Deleted
<1>2. IsFiniteSet(Deleted)
  BY FS_Subset DEF CountersInv, Deleted
<1>3. /\ Cardinality(Deleted') = Cardinality(Deleted) + 1
      /\ Cardinality(Deleted) \in Nat
  BY <1>1, <1>2, FS_AddElement, FS_CardinalityType
<1>4. Committed(r, "deleted", {"delete"})
  BY DEF SoftDelete
<1>5. /\ writes'["delete"] <= writes["delete"] + 1 /\ writes["delete"] \in Nat
      /\ writes'["delete"] \in Nat
      /\ \A o \in Operations \ {"delete"} : writes'[o] = writes[o]
  BY <1>4, CommittedCounts DEF Operations
<1>6. writes'["delete"] <= Cardinality(Deleted')
  BY <1>3, <1>5 DEF CountersInv, CountersNeverOverstate, Deleted
<1> QED
  BY <1>1, <1>5, <1>6 DEF CountersInv, CountersNeverOverstate, Deleted, Operations

LEMMA CountersStep == RowsInv /\ CountersInv /\ [Next]_vars => CountersInv'
<1> SUFFICES ASSUME RowsInv, CountersInv, [Next]_vars PROVE CountersInv'
  OBVIOUS
<1>1. CASE UNCHANGED <<posts, writes>>
  BY <1>1 DEF CountersInv, CountersNeverOverstate
<1>2. CASE UNCHANGED posts /\ writes' = [o \in Operations |-> 0]
  <2>1. IsFiniteSet(Deleted)
    BY FS_Subset DEF CountersInv, Deleted
  <2>2. Cardinality(DOMAIN posts) \in Nat /\ Cardinality(Deleted) \in Nat
    BY <2>1, FS_CardinalityType DEF CountersInv
  <2>3. /\ writes'["create"] = 0 /\ writes'["delete"] = 0 /\ writes'["update"] = 0
        /\ writes'["publish"] = 0 /\ writes'["unpublish"] = 0
    BY <1>2 DEF Operations
  <2> QED
    BY <1>2, <2>2, <2>3 DEF CountersInv, CountersNeverOverstate, Deleted
<1> QED
  BY <1>1, <1>2, CounterWriters, CountersInsert, CountersUpdate, CountersSoftDelete

LEMMA CountersInit == Init => CountersInv
<1> SUFFICES ASSUME Init PROVE CountersInv
  OBVIOUS
<1>1. DOMAIN posts = {} /\ Deleted = {}
  BY DEF Init, Deleted
<1>2. /\ writes["create"] = 0 /\ writes["delete"] = 0 /\ writes["update"] = 0
      /\ writes["publish"] = 0 /\ writes["unpublish"] = 0
  BY DEF Init, Operations
<1> QED
  BY <1>1, <1>2, FS_EmptySet DEF CountersInv, CountersNeverOverstate, Deleted

\* However writes fail, answers get lost and the process dies, no counter ever
\* claims a write that the table does not show.
THEOREM CountersHonest == Spec => []CountersNeverOverstate
<1>1. CountersInv => CountersNeverOverstate
  BY DEF CountersInv
<1> QED
  BY <1>1, RowsInvariant, CountersInit, CountersStep, PTL DEF Spec

-----------------------------------------------------------------------------
(* Answers *)

\* What the invariants on answers say of one request; it has an answer exactly
\* when it is done, which is why its locals no longer move.
AnswerOf(s) ==
  /\ reply[s] # "none" <=> pc[s] = "done"
  /\ pc[s] = "insert" \/ reply[s] \in {"created", "limit"} =>
       \A k \in 1 .. req[s].n - 1 : WithSuffix(req[s].base, k) \in TakenSlugs
  /\ reply[s] = "created" =>
       req[s].id \in DOMAIN posts /\ posts[req[s].id].slug = Candidate(s)
  /\ reply[s] = "deleted" => req[s].id \in DOMAIN posts /\ ~Live(req[s].id)

OneDelete ==
  \A r, s \in Requests :
    reply[r] = "deleted" /\ reply[s] = "deleted" /\ req[r].id = req[s].id => r = s

AnswersInv == (\A s \in Requests : AnswerOf(s)) /\ OneDelete

\* A taken slug stays taken.
LEMMA TakenStays ==
  ASSUME RowsInv, Ages
  PROVE  TakenSlugs \subseteq TakenSlugs'
  BY DEF Ages, TakenSlugs

\* A request that does not move keeps its part.
LEMMA OthersKeep ==
  ASSUME RowsInv, Ages, NEW s \in Requests, AnswerOf(s),
         req'[s] = req[s], pc'[s] = pc[s], reply'[s] = reply[s]
  PROVE  AnswerOf(s)'
<1>1. Candidate(s)' = Candidate(s)
  BY DEF Candidate
<1>2. pc[s] = "insert" \/ reply[s] \in {"created", "limit"} =>
        \A k \in 1 .. req[s].n - 1 : WithSuffix(req[s].base, k) \in TakenSlugs'
  BY TakenStays DEF AnswerOf
<1>3. reply[s] = "created" =>
        req[s].id \in DOMAIN posts' /\ posts'[req[s].id].slug = Candidate(s)
  BY DEF Ages, AnswerOf
<1>4. ASSUME reply[s] = "deleted"
      PROVE  req[s].id \in DOMAIN posts' /\ posts'[req[s].id].deletedAt # NULL
  <2>1. req[s].id \in DOMAIN posts /\ posts[req[s].id].deletedAt # NULL
    BY <1>4 DEF AnswerOf, Live
  <2> QED
    BY <2>1 DEF Ages
<1> QED
  BY <1>1, <1>2, <1>3, <1>4 DEF AnswerOf, Live, WithSuffix

\* If besides some requests that keep still a single one is answered, and not
\* with "deleted", no two deletes of one post have succeeded.
LEMMA OneDeleteStays ==
  ASSUME RowsInv, OneDelete,
         \A s \in Requests : \/ req'[s] = req[s] /\ reply'[s] = reply[s]
                             \/ reply'[s] # "deleted"
  PROVE  OneDelete'
  BY DEF OneDelete

\* A request that is answered neither "created", "limit" nor "deleted", or that
\* goes on to a place other than "insert", has nothing to show.
LEMMA PlainStep ==
  ASSUME RowsInv, AnswersInv, Ages, NEW r \in Requests,
         reply'[r] \notin {"created", "limit", "deleted"},
         pc'[r] # "insert", reply'[r] # "none" <=> pc'[r] = "done",
         \A s \in Requests \ {r} :
           req'[s] = req[s] /\ pc'[s] = pc[s] /\ reply'[s] = reply[s]
  PROVE  AnswersInv'
<1>1. AnswerOf(r)'
  BY DEF AnswerOf
<1>2. ASSUME NEW s \in Requests \ {r} PROVE AnswerOf(s)'
  BY OthersKeep DEF AnswersInv
<1>3. OneDelete'
  BY OneDeleteStays DEF AnswersInv
<1> QED
  BY <1>1, <1>2, <1>3 DEF AnswersInv

\* Respond moves one request and no other.
LEMMA RespondMoves ==
  ASSUME RowsInv, NEW r \in Requests, NEW answer, Respond(r, answer)
  PROVE  /\ pc'[r] = "done" /\ reply'[r] = answer
         /\ \A s \in Requests \ {r} : pc'[s] = pc[s] /\ reply'[s] = reply[s]
  BY DEF RowsInv, TypeOK, Respond

LEMMA AnswersInit == Init => AnswersInv
  BY DEF Init, AnswersInv, AnswerOf, OneDelete

LEMMA AnswersArrive ==
  ASSUME RowsInv, AnswersInv, Ages, NEW r \in Requests, Arrive(r)
  PROVE  AnswersInv'
<1>1. \A s \in Requests : AnswerOf(s)
  BY DEF AnswersInv
<1>2. pc[r] = "new" /\ reply[r] = "none"
  BY <1>1 DEF Arrive, Create, Reject, FindToUpdate, FindToDelete, AnswerOf
<1>3. CASE Create(r)
  <2>1. /\ \A s \in Requests \ {r} : req'[s] = req[s] /\ pc'[s] = pc[s]
        /\ pc'[r] = "insert" /\ reply' = reply /\ req'[r].n = FirstAttempt
    BY <1>3 DEF RowsInv, TypeOK, Create, Locals
  <2>2. 1 .. FirstAttempt - 1 = {}
    BY DEF FirstAttempt
  <2>3. AnswerOf(r)'
    BY <1>2, <2>1, <2>2 DEF AnswerOf
  <2>4. ASSUME NEW s \in Requests \ {r} PROVE AnswerOf(s)'
    BY <1>1, <2>1, OthersKeep
  <2>5. OneDelete'
    BY <1>2, <2>1, OneDeleteStays DEF AnswersInv
  <2> QED
    BY <2>3, <2>4, <2>5 DEF AnswersInv
<1>4. CASE Reject(r)
  BY <1>4, RespondMoves, PlainStep DEF Reject
<1>5. CASE FindToUpdate(r)
  <2>1. \A s \in Requests \ {r} : req'[s] = req[s]
    BY <1>5 DEF RowsInv, TypeOK, FindToUpdate
  <2>2. CASE Respond(r, "not_found")
    BY <2>1, <2>2, RespondMoves, PlainStep
  <2>3. CASE pc' = [pc EXCEPT ![r] = "decide"] /\ UNCHANGED reply
    <3>1. pc'[r] = "decide" /\ \A s \in Requests \ {r} : pc'[s] = pc[s]
      BY <2>3 DEF RowsInv, TypeOK
    <3> QED
      BY <1>2, <2>1, <2>3, <3>1, PlainStep
  <2> QED
    BY <1>5, <2>2, <2>3 DEF FindToUpdate
<1>6. CASE FindToDelete(r)
  <2>1. \A s \in Requests \ {r} : req'[s] = req[s]
    BY <1>6 DEF RowsInv, TypeOK, FindToDelete
  <2>2. CASE Respond(r, "not_found")
    BY <2>1, <2>2, RespondMoves, PlainStep
  <2>3. CASE pc' = [pc EXCEPT ![r] = "softdelete"] /\ UNCHANGED reply
    <3>1. pc'[r] = "softdelete" /\ \A s \in Requests \ {r} : pc'[s] = pc[s]
      BY <2>3 DEF RowsInv, TypeOK
    <3> QED
      BY <1>2, <2>1, <2>3, <3>1, PlainStep
  <2> QED
    BY <1>6, <2>2, <2>3 DEF FindToDelete
<1> QED
  BY <1>3, <1>4, <1>5, <1>6 DEF Arrive

LEMMA AnswersInsert ==
  ASSUME RowsInv, AnswersInv, Ages, NEW r \in Requests, Insert(r)
  PROVE  AnswersInv'
<1>1. PICK id \in Ids \ DOMAIN posts :
        /\ req' = [req EXCEPT ![r].id = id] /\ req'[r] = [req[r] EXCEPT !.id = id]
        /\ DOMAIN posts' = DOMAIN posts \cup {id}
        /\ posts'[id].slug = Candidate(r)
  BY InsertEffect
<1>2. /\ req'[r].id = id /\ req'[r].n = req[r].n /\ req'[r].base = req[r].base
      /\ \A s \in Requests \ {r} : req'[s] = req[s]
  BY <1>1 DEF RowsInv, TypeOK, Locals
<1>3. Candidate(r)' = Candidate(r)
  BY <1>2 DEF Candidate, WithSuffix
<1>4. PICK answer \in {"created", "internal"} : Respond(r, answer)
  BY DEF Insert, Committed
<1>5. /\ pc'[r] = "done" /\ reply'[r] = answer
      /\ \A s \in Requests \ {r} : pc'[s] = pc[s] /\ reply'[s] = reply[s]
  BY <1>4, RespondMoves
<1>6. \A k \in 1 .. req[r].n - 1 : WithSuffix(req[r].base, k) \in TakenSlugs'
  BY TakenStays DEF AnswersInv, AnswerOf, Insert
<1>7. AnswerOf(r)'
  BY <1>1, <1>2, <1>3, <1>5, <1>6 DEF AnswerOf, WithSuffix
<1>8. ASSUME NEW s \in Requests \ {r} PROVE AnswerOf(s)'
  BY <1>2, <1>5, OthersKeep DEF AnswersInv
<1>9. OneDelete'
  BY <1>2, <1>5, OneDeleteStays DEF AnswersInv
<1> QED
  BY <1>7, <1>8, <1>9 DEF AnswersInv

LEMMA AnswersCollide ==
  ASSUME RowsInv, AnswersInv, Ages, NEW r \in Requests, Collide(r)
  PROVE  AnswersInv'
<1>1. /\ pc[r] = "insert" /\ Candidate(r) \in TakenSlugs /\ req[r].n \in Nat
      /\ req'[r].n = req[r].n + 1 /\ req'[r].base = req[r].base
      /\ \A s \in Requests \ {r} : req'[s] = req[s]
      /\ UNCHANGED <<posts, pc, reply>>
  BY DEF RowsInv, TypeOK, Locals, Collide, NextAttempt
<1>2. reply[r] = "none" /\ \A k \in 1 .. req[r].n - 1 : WithSuffix(req[r].base, k) \in TakenSlugs
  BY <1>1 DEF AnswersInv, AnswerOf
<1>3. \A k \in 1 .. req'[r].n - 1 : k = req[r].n \/ k \in 1 .. req[r].n - 1
  BY <1>1
<1>4. \A k \in 1 .. req'[r].n - 1 : WithSuffix(req'[r].base, k) \in TakenSlugs'
  BY <1>1, <1>2, <1>3, TakenStays DEF Candidate
<1>5. AnswerOf(r)'
  BY <1>1, <1>2, <1>4 DEF AnswerOf, WithSuffix
<1>6. ASSUME NEW s \in Requests \ {r} PROVE AnswerOf(s)'
  BY <1>1, OthersKeep DEF AnswersInv
<1>7. OneDelete'
  BY <1>1, <1>2, OneDeleteStays DEF AnswersInv
<1> QED
  BY <1>5, <1>6, <1>7 DEF AnswersInv

LEMMA AnswersSoftDelete ==
  ASSUME RowsInv, AnswersInv, Ages, NEW r \in Requests, SoftDelete(r)
  PROVE  AnswersInv'
<1>1. req' = req /\ pc[r] = "softdelete"
  BY DEF SoftDelete
<1>2. CASE ~Live(req[r].id)
  BY <1>1, <1>2, RespondMoves, PlainStep DEF SoftDelete
<1>3. CASE Live(req[r].id)
  <2>1. /\ req[r].id \in DOMAIN posts' /\ posts'[req[r].id].deletedAt # NULL
    BY <1>3, SoftDeleteEffect
  <2>2. PICK answer \in {"deleted", "internal"} : Respond(r, answer)
    BY <1>3 DEF SoftDelete, Committed
  <2>3. /\ pc'[r] = "done" /\ reply'[r] = answer
        /\ \A s \in Requests \ {r} : pc'[s] = pc[s] /\ reply'[s] = reply[s]
    BY <2>2, RespondMoves
  <2>4. AnswerOf(r)'
    BY <1>1, <2>1, <2>3 DEF AnswerOf, Live
  <2>5. ASSUME NEW s \in Requests \ {r} PROVE AnswerOf(s)'
    BY <1>1, <2>3, OthersKeep DEF AnswersInv
  <2>6. \A s \in Requests \ {r} : reply[s] = "deleted" => req[s].id # req[r].id
    BY <1>3 DEF AnswersInv, AnswerOf
  <2>7. OneDelete'
    BY <1>1, <2>3, <2>6 DEF AnswersInv, OneDelete
  <2> QED
    BY <2>4, <2>5, <2>7 DEF AnswersInv
<1> QED
  BY <1>2, <1>3

LEMMA AnswersAdvance ==
  ASSUME RowsInv, AnswersInv, Ages, NEW r \in Requests, Advance(r)
  PROVE  AnswersInv'
<1>1. CASE Insert(r)
  BY <1>1, AnswersInsert
<1>2. CASE Collide(r)
  BY <1>2, AnswersCollide
<1>3. CASE GiveUp(r)
  <2>1. /\ pc[r] = "insert" /\ req' = req /\ pc'[r] = "done" /\ reply'[r] = "limit"
        /\ \A s \in Requests \ {r} : pc'[s] = pc[s] /\ reply'[s] = reply[s]
    BY <1>3, RespondMoves DEF GiveUp
  <2>2. AnswerOf(r)'
    BY <2>1, TakenStays DEF AnswersInv, AnswerOf, WithSuffix
  <2>3. ASSUME NEW s \in Requests \ {r} PROVE AnswerOf(s)'
    BY <2>1, OthersKeep DEF AnswersInv
  <2>4. OneDelete'
    BY <2>1, OneDeleteStays DEF AnswersInv
  <2> QED
    BY <2>2, <2>3, <2>4 DEF AnswersInv
<1>4. CASE Decide(r)
  <2>1. /\ pc[r] = "decide" /\ pc'[r] = "update" /\ reply' = reply
        /\ \A s \in Requests \ {r} : req'[s] = req[s] /\ pc'[s] = pc[s]
    BY <1>4 DEF RowsInv, TypeOK, Decide
  <2>2. reply[r] = "none"
    BY <2>1 DEF AnswersInv, AnswerOf
  <2> QED
    BY <2>1, <2>2, PlainStep
<1>5. CASE Update(r)
  <2>1. PICK answer \in {"updated", "internal", "not_found"} : Respond(r, answer)
    BY <1>5 DEF Update, Committed
  <2> QED
    BY <1>5, <2>1, RespondMoves, PlainStep DEF Update
<1>6. CASE SoftDelete(r)
  BY <1>6, AnswersSoftDelete
<1> QED
  BY <1>1, <1>2, <1>3, <1>4, <1>5, <1>6 DEF Advance

LEMMA AnswersCrash ==
  ASSUME RowsInv, AnswersInv, Ages, Crash
  PROVE  AnswersInv'
<1>1. ASSUME NEW s \in Requests PROVE AnswerOf(s)'
  <2>1. CASE pc[s] \in {"new", "done"}
    <3>1. pc'[s] = pc[s] /\ reply'[s] = reply[s] /\ req'[s] = req[s]
      BY <2>1 DEF Crash
    <3> QED
      BY <3>1, OthersKeep DEF AnswersInv
  <2>2. CASE pc[s] \notin {"new", "done"}
    BY <2>2 DEF Crash, AnswerOf
  <2> QED
    BY <2>1, <2>2
<1>2. OneDelete'
  BY OneDeleteStays DEF AnswersInv, Crash
<1> QED
  BY <1>1, <1>2 DEF AnswersInv

LEMMA AnswersStep == RowsInv /\ AnswersInv /\ [Next]_vars => AnswersInv'
<1> SUFFICES ASSUME RowsInv, AnswersInv, [Next]_vars PROVE AnswersInv'
  OBVIOUS
<1>1. Ages
  BY AgesStep
<1>2. CASE UNCHANGED <<pc, req, reply>>
  <2>1. \A s \in Requests : AnswerOf(s)'
    BY <1>1, <1>2, OthersKeep DEF AnswersInv
  <2>2. OneDelete'
    BY <1>2, OneDeleteStays DEF AnswersInv
  <2> QED
    BY <2>1, <2>2 DEF AnswersInv
<1>3. CASE \E r \in Requests : Arrive(r)
  BY <1>1, <1>3, AnswersArrive
<1>4. CASE \E r \in Requests : Advance(r)
  BY <1>1, <1>4, AnswersAdvance
<1>5. ASSUME NEW r \in Requests, StatementFails(r) PROVE AnswersInv'
  BY <1>1, <1>5, RespondMoves, PlainStep DEF StatementFails
<1>6. CASE Crash
  BY <1>1, <1>6, AnswersCrash
<1> QED
  BY <1>2, <1>3, <1>4, <1>5, <1>6 DEF Next, Tick, vars

\* However many requests want one slug: the suffix loop skips no free candidate,
\* and only answers "limit" when all are taken.
THEOREM AttemptsAreForced == Spec => []AttemptsForced
<1>1. AnswersInv => AttemptsForced
  BY DEF AnswersInv, AnswerOf, AttemptsForced
<1> QED
  BY <1>1, AnswersInit, AnswersStep, RowsInvariant, PTL DEF Spec

\* What was answered with success stays true, and of all deletes of one post a
\* single one is.
THEOREM AnswersAlwaysHold == Spec => []AnswersHold
<1>1. AnswersInv => AnswersHold
  BY DEF AnswersInv, AnswerOf, OneDelete, AnswersHold, Live
<1> QED
  BY <1>1, AnswersInit, AnswersStep, RowsInvariant, PTL DEF Spec

-----------------------------------------------------------------------------
(* Not-found *)

\* A step that answers one request, and not-found only for a post that is not live.
LEMMA OneAnswer ==
  ASSUME RowsInv, NEW r \in Requests, NEW answer, Respond(r, answer),
         answer = "not_found" => ~Live(req'[r].id)
  PROVE  TrueNotFound
  BY RespondMoves DEF TrueNotFound, Live

LEMMA NotFoundStep == RowsInv /\ [Next]_vars => TrueNotFound
<1> SUFFICES ASSUME RowsInv, [Next]_vars PROVE TrueNotFound
  OBVIOUS
<1>1. CASE UNCHANGED reply
  BY <1>1 DEF TrueNotFound
<1>2. ASSUME NEW r \in Requests, Arrive(r) PROVE TrueNotFound
  <2>1. CASE Create(r)
    BY <1>1, <2>1 DEF Create
  <2>2. CASE Reject(r)
    BY <2>2, OneAnswer DEF Reject
  <2>3. CASE FindToUpdate(r)
    <3>1. PICK id \in Ids :
            /\ req'[r].id = id
            /\ UNCHANGED reply \/ (~Live(id) /\ Respond(r, "not_found"))
      BY <2>3 DEF FindToUpdate, RowsInv, TypeOK, Locals
    <3> QED
      BY <1>1, <3>1, OneAnswer
  <2>4. CASE FindToDelete(r)
    <3>1. PICK id \in Ids :
            /\ req'[r].id = id
            /\ UNCHANGED reply \/ (~Live(id) /\ Respond(r, "not_found"))
      BY <2>4 DEF FindToDelete, RowsInv, TypeOK, Locals
    <3> QED
      BY <1>1, <3>1, OneAnswer
  <2> QED
    BY <1>2, <2>1, <2>2, <2>3, <2>4 DEF Arrive
<1>3. ASSUME NEW r \in Requests, StatementFails(r) PROVE TrueNotFound
  BY <1>3, OneAnswer DEF StatementFails
<1>4. ASSUME NEW r \in Requests, Advance(r) PROVE TrueNotFound
  <2>1. CASE Insert(r)
    BY <2>1, OneAnswer DEF Insert, Committed
  <2>2. CASE Collide(r) \/ Decide(r)
    BY <1>1, <2>2 DEF Collide, Decide
  <2>3. CASE GiveUp(r)
    BY <2>3, OneAnswer DEF GiveUp
  <2>4. CASE Update(r)
    BY <2>4, OneAnswer DEF Update, Committed
  <2>5. CASE SoftDelete(r)
    BY <2>5, OneAnswer DEF SoftDelete, Committed
  <2> QED
    BY <1>4, <2>1, <2>2, <2>3, <2>4, <2>5 DEF Advance
<1>5. CASE Crash
  BY <1>5 DEF Crash, TrueNotFound
<1> QED
  BY <1>1, <1>2, <1>3, <1>4, <1>5 DEF Next, Tick, vars

\* No request is answered not-found about a post that is there, whatever else
\* was going on while it ran.
THEOREM NotFoundTrue == Spec => NotFoundIsTrue
<1>1. RowsInv /\ [Next]_vars => [TrueNotFound]_vars
  BY NotFoundStep
<1> QED
  BY <1>1, RowsInvariant, PTL DEF Spec, NotFoundIsTrue

-----------------------------------------------------------------------------
(* Refinement *)

\* The view of a table.
SlugOf == [i \in DOMAIN posts |-> posts[i].slug]
Shown == {i \in DOMAIN posts : posts[i].status = "published" /\ posts[i].deletedAt = NULL}
Removed == {i \in DOMAIN posts : posts[i].deletedAt # NULL}

\* The slug an insert stores is one Create can choose.
LEMMA CandidateType ==
  ASSUME RowsInv, NEW r \in Requests, Insert(r)
  PROVE  Candidate(r) \in Candidates
<1>1. /\ req[r].base \in Bases /\ req[r].n \in Nat
      /\ req[r].n >= 1 /\ req[r].n <= MaxSlugAttempts
  BY DEF RowsInv, TypeOK, Locals, PendingFits, Insert
<1>2. req[r].n \in 1 .. MaxSlugAttempts
  BY <1>1, PostsAssumption
<1> QED
  BY <1>1, <1>2 DEF Candidate, Candidates

LEMMA InsertAdds ==
  ASSUME RowsInv, NEW r \in Requests, Insert(r)
  PROVE  \E id \in Ids : \E s \in Candidates : Blog!Add(id, s)
<1>0. PICK slug \in Candidates : slug = Candidate(r)
  BY CandidateType
<1>1. PICK id \in Ids \ DOMAIN posts :
        /\ DOMAIN posts' = DOMAIN posts \cup {id}
        /\ \A i \in DOMAIN posts : posts'[i] = posts[i]
        /\ posts'[id].slug = slug /\ posts'[id].deletedAt = NULL
  BY <1>0, InsertEffect
<1>2. DOMAIN SlugOf = DOMAIN posts /\ {SlugOf[i] : i \in DOMAIN SlugOf} = TakenSlugs
  BY DEF SlugOf, TakenSlugs
<1>3. slug \notin TakenSlugs
  BY <1>0 DEF Insert
<1>4. SlugOf' = [q \in DOMAIN SlugOf \cup {id} |-> IF q = id THEN slug ELSE SlugOf[q]]
  BY <1>1 DEF SlugOf
<1>5. Shown' \in {Shown, Shown \cup {id}}
  BY <1>1 DEF Shown
<1>6. Removed' = Removed
  BY <1>1 DEF Removed
<1>7. Blog!Add(id, slug)
  BY <1>1, <1>2, <1>3, <1>4, <1>5, <1>6 DEF Blog!Add, Blog!Used, SlugOf, Shown, Removed
<1> QED
  BY <1>1, <1>7

LEMMA UpdateShowsOrHides ==
  ASSUME RowsInv, NEW r \in Requests, Update(r), Live(req[r].id)
  PROVE  \E id \in Ids : Blog!Show(id) \/ Blog!Hide(id)
<1>0. PICK id \in Ids : id = req[r].id
  BY DEF Live, RowsInv, TypeOK
<1>1. /\ id \in DOMAIN posts /\ DOMAIN posts' = DOMAIN posts
      /\ \A i \in DOMAIN posts : i # id => posts'[i] = posts[i]
      /\ posts'[id].slug = posts[id].slug /\ posts'[id].status = req[r].status
      /\ posts[id].deletedAt = NULL /\ posts'[id].deletedAt = NULL
  BY <1>0, UpdateEffect
<1>2. DOMAIN SlugOf = DOMAIN posts /\ id \in DOMAIN SlugOf \ Removed
  BY <1>1 DEF SlugOf, Removed
<1>3. SlugOf' = SlugOf /\ Removed' = Removed
  BY <1>1 DEF SlugOf, Removed
<1>4. Shown' = Shown \cup {id} \/ Shown' = Shown \ {id}
  BY <1>1 DEF Shown
<1> QED
  BY <1>2, <1>3, <1>4 DEF Blog!Show, Blog!Hide, SlugOf, Shown, Removed

LEMMA SoftDeleteRemoves ==
  ASSUME RowsInv, NEW r \in Requests, SoftDelete(r), Live(req[r].id)
  PROVE  \E id \in Ids : Blog!Remove(id)
<1>0. PICK id \in Ids : id = req[r].id
  BY DEF Live, RowsInv, TypeOK
<1>1. /\ id \in DOMAIN posts /\ DOMAIN posts' = DOMAIN posts
      /\ \A i \in DOMAIN posts : i # id => posts'[i] = posts[i]
      /\ posts'[id].slug = posts[id].slug
      /\ posts[id].deletedAt = NULL /\ posts'[id].deletedAt # NULL
  BY <1>0, SoftDeleteEffect
<1>2. DOMAIN SlugOf = DOMAIN posts /\ id \in DOMAIN SlugOf \ Removed
  BY <1>1 DEF SlugOf, Removed
<1>3. SlugOf' = SlugOf
  BY <1>1 DEF SlugOf
<1>4. Removed' = Removed \cup {id} /\ Shown' = Shown \ {id}
  BY <1>1 DEF Removed, Shown
<1> QED
  BY <1>2, <1>3, <1>4 DEF Blog!Remove, SlugOf, Shown, Removed

\* Every step of Posts is a step of PublicBlog or none.
LEMMA BlogStep == RowsInv /\ [Next]_vars => [Blog!Next]_(Blog!bvars)
<1> SUFFICES ASSUME RowsInv, [Next]_vars PROVE Blog!Next \/ UNCHANGED Blog!bvars
  OBVIOUS
<1>1. ASSUME UNCHANGED posts PROVE UNCHANGED Blog!bvars
  BY <1>1 DEF Blog!bvars
<1>2. ASSUME NEW r \in Requests, Insert(r) PROVE Blog!Next
  BY <1>2, InsertAdds DEF Blog!Next
<1>3. ASSUME NEW r \in Requests, Update(r), Live(req[r].id) PROVE Blog!Next
  BY <1>3, UpdateShowsOrHides DEF Blog!Next
<1>4. ASSUME NEW r \in Requests, SoftDelete(r), Live(req[r].id) PROVE Blog!Next
  BY <1>4, SoftDeleteRemoves DEF Blog!Next
<1> QED
  BY <1>1, <1>2, <1>3, <1>4, TableWriters

LEMMA BlogInit == Init => Blog!Init
<1> SUFFICES ASSUME Init PROVE Blog!Init
  OBVIOUS
<1>1. DOMAIN posts = {}
  BY DEF Init
<1>2. [i \in DOMAIN posts |-> posts[i].slug] = [p \in {} |-> p]
  BY <1>1
<1> QED
  BY <1>1, <1>2 DEF Blog!Init

\* The service implements the public blog: any interleaving of requests, failed
\* statements, lost answers and crashes looks like single steps on posts.
THEOREM PostsImplementBlog == Spec => ImplementsPublicBlog
  BY BlogInit, BlogStep, RowsInvariant, PTL DEF Spec, ImplementsPublicBlog, Blog!Spec
=============================================================================
