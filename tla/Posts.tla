------------------------------- MODULE Posts -------------------------------
(***************************************************************************)
(* Writing blog posts: AdminPostHandler over PostService over PostRepo.    *)
(*                                                                         *)
(* Every admin request runs in a goroutine of its own and is a member of   *)
(* Requests.  A request talks to Postgres in single auto-committed         *)
(* statements, so a statement is one step on the table `posts` and other   *)
(* requests run between the statements of one request.  A statement may    *)
(* fail without effect, and one that commits may still be reported to the  *)
(* caller as an error (the connection or the request's context ends before *)
(* the answer arrives).  The process may crash between any two steps.      *)
(*                                                                         *)
(* The data a post carries beside slug, status and dates (title, content,  *)
(* excerpt, cover image) is written whole by one statement and read by     *)
(* nothing here; it is left out.                                           *)
(***************************************************************************)
EXTENDS Naturals, Sequences, FiniteSets

CONSTANTS
  Requests,         \* the admin requests of a behaviour
  Ids,              \* post ids (posts.id, BIGSERIAL)
  Roots,            \* texts a slug starts with
  Bases,            \* results of Slugify on the titles that arrive
  MaxSlugAttempts,  \* maxSlugAttempts: 100 in the code
  MaxClock,         \* bound: last instant of the clock
  NULL              \* nil, SQL NULL

Status == {"draft", "published"}
Time == 1 .. MaxClock

\* A slug is its text cut at trailing "-<number>" parts, so that the slug of
\* the title "Foo 2" and the second candidate for the title "Foo" are equal.
Slug == [root : Roots, suffix : Seq(Nat)]

ASSUME PostsAssumption ==
  /\ MaxSlugAttempts \in Nat /\ MaxSlugAttempts > 0
  /\ MaxClock \in Nat /\ MaxClock > 0
  /\ Bases \subseteq Slug
  /\ NULL \notin Nat \cup Ids \cup Bases

VARIABLES
  posts,   \* the posts table: a function from the ids in use to rows
  now,     \* the clock that s.clock() and SQL NOW() read
  writes,  \* blog_post_writes_total by operation; lives in the process
  pc,      \* where each request is
  req,     \* each request's local variables
  reply    \* what each request was answered

vars == <<posts, now, writes, pc, req, reply>>

Row == [slug : Slug, status : Status,
        publishedAt : Time \cup {NULL}, deletedAt : Time \cup {NULL}]

Operations == {"create", "update", "publish", "unpublish", "delete"}
Transitions == {"none", "published", "unpublished"}

Locations == {"new", "insert", "decide", "update", "softdelete", "done"}
Replies == {"none", "created", "updated", "deleted", "invalid",
            "not_found", "limit", "internal", "lost"}

\* Locals of PostService.Create, Update and Delete.  `base` and `n` belong to
\* Create; `was` is the status and `stamp` the published_at of the post read
\* by Update until it decides, and of the post to write afterwards.
Locals == [id : Ids \cup {NULL}, base : Bases \cup {NULL}, n : Nat,
           status : Status, was : Status,
           stamp : Time \cup {NULL}, transition : Transitions]

NoLocals == [id |-> NULL, base |-> NULL, n |-> 0, status |-> "draft",
             was |-> "draft", stamp |-> NULL, transition |-> "none"]

-----------------------------------------------------------------------------
(* Helpers of the service and of the repository *)

\* Candidate n for a base: the base itself, then base-2, base-3, ...
WithSuffix(base, n) ==
  IF n <= 1 THEN base ELSE [base EXCEPT !.suffix = Append(@, n)]

\* All slugs Create can choose.
Candidates == {WithSuffix(base, n) : base \in Bases, n \in 1 .. MaxSlugAttempts}

\* Mutant: the unique index is partial and ignores soft-deleted posts.
LiveSlugs == {posts[i].slug : i \in {j \in DOMAIN posts : posts[j].deletedAt = NULL}}

\* Slugs held by the unique index, which covers soft-deleted rows too.
TakenSlugs == {posts[i].slug : i \in DOMAIN posts}

\* Mutant: the soft-delete filter is missing.
AnyRow(id) == id \in DOMAIN posts

\* Mutant: the filter for public reads is used where the soft-delete one belongs.
PublishedRow(id) ==
  id \in DOMAIN posts /\ posts[id].deletedAt = NULL /\ posts[id].status = "published"

\* The rows the filter .Where(notDeleted()) lets a statement on one id match.
Live(id) == id \in DOMAIN posts /\ posts[id].deletedAt = NULL

\* Mutant: unpublishing keeps the stamp.
StampKept(was, stamp, status) ==
  IF status = "published" /\ was = "draft" THEN now ELSE stamp

\* The published_at that Update computes from the post it read.
NextPublishedAt(was, stamp, status) ==
  CASE status = "published" /\ was = "draft" -> now
    [] status = "published" /\ was = "published" -> stamp
    [] status = "draft" -> NULL

\* Mutant: the new status is reported instead of the change.
NewStatus(was, status) == status

\* How Update reports the change of publication state.
Transition(was, status) ==
  CASE was = "draft" /\ status = "published" -> "published"
    [] was = "published" /\ status = "draft" -> "unpublished"
    [] was = status -> "none"

\* The counters a successful update increments.
UpdateOperations(transition) ==
  {"update"} \cup (CASE transition = "published" -> {"publish"}
                     [] transition = "unpublished" -> {"unpublish"}
                     [] transition = "none" -> {})

Count(ops) ==
  writes' = [o \in Operations |-> IF o \in ops THEN writes[o] + 1 ELSE writes[o]]

Respond(r, answer) ==
  /\ pc' = [pc EXCEPT ![r] = "done"]
  /\ reply' = [reply EXCEPT ![r] = answer]

\* A statement that committed: either its answer arrives, and the service
\* counts the write and the handler answers, or the caller sees an error.
Committed(r, answer, ops) ==
  \/ Respond(r, answer) /\ Count(ops)
  \/ Respond(r, "internal") /\ UNCHANGED writes

-----------------------------------------------------------------------------
(* Create: choose a free slug by inserting, at most MaxSlugAttempts times *)

\* Mutant: the loop starts at the second candidate.
FromSecond == 2

\* The loop starts at the bare base.
FirstAttempt == 1

\* Validation, defaulting of the status, and the stamp of a post that is
\* published at birth.  The title is one with a usable slug.
Create(r) ==
  /\ pc[r] = "new"
  /\ \E base \in Bases, given \in Status \cup {"omitted"} :
       LET status == IF given = "omitted" THEN "draft" ELSE given
       IN req' = [req EXCEPT ![r] =
                    [@ EXCEPT !.base = base, !.n = FirstAttempt, !.status = status,
                              !.stamp = IF status = "published" THEN now ELSE NULL]]
  /\ pc' = [pc EXCEPT ![r] = "insert"]
  /\ UNCHANGED <<posts, now, writes, reply>>

\* A malformed body, a bad id or status, a title with no usable characters:
\* answered before any statement is sent.
Reject(r) ==
  /\ pc[r] = "new"
  /\ Respond(r, "invalid")
  /\ UNCHANGED <<posts, now, writes, req>>

Candidate(r) == WithSuffix(req[r].base, req[r].n)

\* PostRepo.Create stores the row.
Insert(r) ==
  /\ pc[r] = "insert" /\ req[r].n <= MaxSlugAttempts
  /\ Candidate(r) \notin TakenSlugs
  /\ \E id \in Ids \ DOMAIN posts :
       LET row == [slug |-> Candidate(r), status |-> req[r].status,
                   publishedAt |-> req[r].stamp, deletedAt |-> NULL]
       IN /\ posts' = [i \in DOMAIN posts \cup {id} |-> IF i = id THEN row ELSE posts[i]]
          /\ req' = [req EXCEPT ![r].id = id]
  /\ Committed(r, "created", {"create"})
  /\ UNCHANGED now

\* Mutant: a collision retries the same candidate.
SameAttempt(n) == n

NextAttempt(n) == n + 1

\* PostRepo.Create returns ErrSlugTaken: go on with the next candidate.
Collide(r) ==
  /\ pc[r] = "insert" /\ req[r].n <= MaxSlugAttempts
  /\ Candidate(r) \in TakenSlugs
  /\ req' = [req EXCEPT ![r].n = NextAttempt(@)]
  /\ UNCHANGED <<posts, now, writes, pc, reply>>

\* "slug collision limit reached".
GiveUp(r) ==
  /\ pc[r] = "insert" /\ req[r].n > MaxSlugAttempts
  /\ Respond(r, "limit")
  /\ UNCHANGED <<posts, now, writes, req>>

-----------------------------------------------------------------------------
(* Update: read the post, decide published_at from it, write all fields *)

FindToUpdate(r) ==
  /\ pc[r] = "new"
  /\ \E id \in Ids, status \in Status :
       /\ req' = [req EXCEPT ![r] =
                    IF Live(id)
                    THEN [@ EXCEPT !.id = id, !.status = status,
                                   !.was = posts[id].status,
                                   !.stamp = posts[id].publishedAt]
                    ELSE [@ EXCEPT !.id = id, !.status = status]]
       /\ \/ /\ Live(id)
             /\ pc' = [pc EXCEPT ![r] = "decide"]
             /\ UNCHANGED reply
          \/ /\ ~Live(id)
             /\ Respond(r, "not_found")
  /\ UNCHANGED <<posts, now, writes>>

Decide(r) ==
  /\ pc[r] = "decide"
  /\ LET l == req[r]
     IN req' = [req EXCEPT ![r] =
                  [@ EXCEPT !.stamp = NextPublishedAt(l.was, l.stamp, l.status),
                            !.transition = Transition(l.was, l.status)]]
  /\ pc' = [pc EXCEPT ![r] = "update"]
  /\ UNCHANGED <<posts, now, writes, reply>>

\* Mutant: the update also writes a slug, computed from the new title.
RowWithNewSlug(row, l) ==
  [row EXCEPT !.status = l.status, !.publishedAt = l.stamp,
              !.slug = CHOOSE s \in Bases : s # row.slug]

\* What PostRepo.Update sets in the row it matches; never the slug.
UpdatedRow(row, l) == [row EXCEPT !.status = l.status, !.publishedAt = l.stamp]

Update(r) ==
  /\ pc[r] = "update"
  /\ LET id == req[r].id
     IN \/ /\ Live(id)
           /\ posts' = [posts EXCEPT ![id] = UpdatedRow(@, req[r])]
           /\ Committed(r, "updated", UpdateOperations(req[r].transition))
        \/ /\ ~Live(id)
           /\ Respond(r, "not_found")
           /\ UNCHANGED <<posts, writes>>
  /\ UNCHANGED <<now, req>>

-----------------------------------------------------------------------------
(* Delete: read the post, then set deleted_at where it is still NULL *)

FindToDelete(r) ==
  /\ pc[r] = "new"
  /\ \E id \in Ids :
       /\ req' = [req EXCEPT ![r].id = id]
       /\ \/ /\ Live(id)
             /\ pc' = [pc EXCEPT ![r] = "softdelete"]
             /\ UNCHANGED reply
          \/ /\ ~Live(id)
             /\ Respond(r, "not_found")
  /\ UNCHANGED <<posts, now, writes>>

\* Mutant: the number of affected rows is not looked at.
SoftDeleteUnchecked(r) ==
  /\ pc[r] = "softdelete"
  /\ posts' = IF Live(req[r].id)
              THEN [posts EXCEPT ![req[r].id].deletedAt = now] ELSE posts
  /\ Committed(r, "deleted", {"delete"})
  /\ UNCHANGED <<now, req>>

SoftDelete(r) ==
  /\ pc[r] = "softdelete"
  /\ LET id == req[r].id
     IN \/ /\ Live(id)
           /\ posts' = [posts EXCEPT ![id].deletedAt = now]
           /\ Committed(r, "deleted", {"delete"})
        \/ /\ ~Live(id)
           /\ Respond(r, "not_found")
           /\ UNCHANGED <<posts, writes>>
  /\ UNCHANGED <<now, req>>

-----------------------------------------------------------------------------
(* Failures, and the next-state relation *)

\* A statement fails and has no effect: every caller answers 500.
StatementFails(r) ==
  /\ pc[r] \in {"new", "insert", "update", "softdelete"}
  /\ pc[r] = "insert" => req[r].n <= MaxSlugAttempts
  /\ Respond(r, "internal")
  /\ UNCHANGED <<posts, now, writes, req>>

\* The process dies and is started again: the table survives, the requests in
\* flight get no answer, the counters start from zero.
Crash ==
  /\ reply' = [r \in Requests |->
                 IF pc[r] \in {"new", "done"} THEN reply[r] ELSE "lost"]
  /\ pc' = [r \in Requests |-> IF pc[r] = "new" THEN "new" ELSE "done"]
  /\ writes' = [o \in Operations |-> 0]
  /\ UNCHANGED <<posts, now, req>>

Tick ==
  /\ now < MaxClock
  /\ now' = now + 1
  /\ UNCHANGED <<posts, writes, pc, req, reply>>

\* Requests that have not arrived yet.
Arrive(r) == Create(r) \/ Reject(r) \/ FindToUpdate(r) \/ FindToDelete(r)

\* The steps of a request that has.
Advance(r) ==
  \/ Insert(r) \/ Collide(r) \/ GiveUp(r)
  \/ Decide(r) \/ Update(r) \/ SoftDelete(r)

Init ==
  /\ posts = [i \in {} |-> NULL]
  /\ now = 1
  /\ writes = [o \in Operations |-> 0]
  /\ pc = [r \in Requests |-> "new"]
  /\ req = [r \in Requests |-> NoLocals]
  /\ reply = [r \in Requests |-> "none"]

Next ==
  \/ \E r \in Requests : Arrive(r) \/ Advance(r) \/ StatementFails(r)
  \/ Crash
  \/ Tick

Spec == Init /\ [][Next]_vars

\* Go runs every goroutine, and a statement that does not fail returns its result.
FairSpec == Spec /\ \A r \in Requests : WF_vars(Advance(r))

-----------------------------------------------------------------------------
(* Properties *)

TypeOK ==
  /\ DOMAIN posts \subseteq Ids
  /\ posts \in [DOMAIN posts -> Row]
  /\ now \in Time
  /\ writes \in [Operations -> Nat]
  /\ pc \in [Requests -> Locations]
  /\ req \in [Requests -> Locals]
  /\ reply \in [Requests -> Replies]

\* No two posts ever have one slug, soft-deleted posts included, whatever
\* creates run at once (post_service.go:30-32).
SlugsNeverShared ==
  \A i, j \in DOMAIN posts : posts[i].slug = posts[j].slug => i = j

\* A create that has reached candidate n found every earlier candidate taken,
\* and they still are: the slug it ends with is the first free one, and "limit"
\* is only answered when all candidates are taken.
AttemptsForced ==
  \A r \in Requests :
    pc[r] = "insert" \/ reply[r] \in {"created", "limit"} =>
      \A k \in 1 .. req[r].n - 1 : WithSuffix(req[r].base, k) \in TakenSlugs

\* published_at is set exactly on published posts and is never in the future,
\* however updates that read the post at different times overtake each other.
StampMatchesStatus ==
  \A i \in DOMAIN posts :
    IF posts[i].status = "published"
    THEN posts[i].publishedAt # NULL /\ posts[i].publishedAt <= now
    ELSE posts[i].publishedAt = NULL

\* A success that was answered is in the table for good, across crashes, and of
\* all deletes of one post a single one is answered with success: the others,
\* however late they read the post, report not-found.
AnswersHold ==
  /\ \A r \in Requests :
       /\ reply[r] = "created" =>
            req[r].id \in DOMAIN posts /\ posts[req[r].id].slug = Candidate(r)
       /\ reply[r] = "deleted" =>
            req[r].id \in DOMAIN posts /\ posts[req[r].id].deletedAt # NULL
  /\ \A r, s \in Requests :
       reply[r] = "deleted" /\ reply[s] = "deleted" /\ req[r].id = req[s].id => r = s

\* The write counters never claim more than the table shows: failed writes, lost
\* answers and crashes only lose counts.
CountersNeverOverstate ==
  /\ writes["create"] <= Cardinality(DOMAIN posts)
  /\ writes["delete"] <= Cardinality({i \in DOMAIN posts : posts[i].deletedAt # NULL})
  /\ writes["publish"] + writes["unpublish"] <= writes["update"]

\* A row is never removed and its slug never changes; once deleted, nothing in
\* it changes any more: an update or a second delete that read the post before
\* it was deleted neither revives it nor moves deleted_at.
Ages ==
  \A i \in DOMAIN posts :
    /\ i \in DOMAIN posts'
    /\ posts'[i].slug = posts[i].slug
    /\ posts[i].deletedAt # NULL => posts'[i] = posts[i]

RowsOnlyAge == [][Ages]_posts

\* Not-found is answered only when the post does not exist or is deleted: no
\* request is told so because another one was between two of its statements.
TrueNotFound ==
  \A r \in Requests :
    reply'[r] = "not_found" /\ reply[r] # "not_found" =>
      ~ \E i \in DOMAIN posts : i = req'[r].id /\ posts[i].deletedAt = NULL

NotFoundIsTrue == [][TrueNotFound]_vars

\* The public view of the table.
Blog == INSTANCE PublicBlog WITH
  PostIds <- Ids,
  Slugs <- Candidates,
  slugOf <- [i \in DOMAIN posts |-> posts[i].slug],
  shown <- {i \in DOMAIN posts : posts[i].status = "published" /\ posts[i].deletedAt = NULL},
  removed <- {i \in DOMAIN posts : posts[i].deletedAt # NULL}

\* Concurrent requests, failures and crashes never show a reader anything that
\* one indivisible step of PublicBlog could not: no slug changes hands, and no
\* overtaken update makes a deleted post public again.
ImplementsPublicBlog == Blog!Spec

\* Every request that has arrived is answered: the slug loop ends.
RequestsFinish ==
  \A r \in Requests : pc[r] # "new" ~> pc[r] = "done"

\* Claimed by the comment on PostService.Update: published -> published keeps
\* the existing published_at.
PublishedKeepsStamp ==
  [][\A i \in DOMAIN posts :
       posts[i].status = "published" /\ posts'[i].status = "published"
         => posts'[i].publishedAt = posts[i].publishedAt]_posts
=============================================================================
