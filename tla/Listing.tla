------------------------------ MODULE Listing ------------------------------
(***************************************************************************)
(* The lists: public and admin posts, roles, permissions, users.           *)
(*                                                                         *)
(* A list is a COUNT and, in a later statement, a SELECT of one page, so   *)
(* writers get in between; the page is found with machine integers, and a  *)
(* client walks a list page by page while rows come and go.  present is    *)
(* the set of rows that match the filter of the query: publishing, a       *)
(* change of status and an insert add one, the reverse takes one out.      *)
(* key is what the list sorts by before the id: 0 where there is nothing,  *)
(* as published_at of a draft.  A post that stays published may get        *)
(* another published_at, from an update that overlaps another (Posts).     *)
(* ListAdmin sorts by created_at, which stays: the behaviours here are     *)
(* more than those of its rows.                                            *)
(* The repositories clamp page and limit again, to the same bounds: after  *)
(* FromContext that changes nothing and is left out, and so are the        *)
(* permissions that RoleHandler.List loads for each role it shows.  Users  *)
(* are one SELECT, of a first page.                                        *)
(***************************************************************************)
EXTENDS Integers, FiniteSets, SequencesExt

CONSTANTS
  Rows,                    \* ids, which are bigints
  Keys,                    \* what rows are sorted by, not unique: the instant of a
                           \* post, the resource and action of a permission
  Lists,                   \* which lists, among Kinds
  MaxInt,                  \* the largest int, and the largest bigint
  DefaultLimit, MaxLimit,
  RawPages, RawLimits      \* numbers that clients write into the query

Kinds == {"posts", "roles", "permissions", "users"}

ASSUME ListingAssumption ==
  /\ Rows \subseteq 1 .. MaxInt /\ Keys \subseteq Nat \ {0}
  /\ Lists \subseteq Kinds
  /\ MaxInt \in Nat /\ MaxLimit \in 1 .. MaxInt /\ DefaultLimit \in 1 .. MaxLimit
  /\ RawPages \subseteq Int /\ RawLimits \subseteq Int

VARIABLES
  kind,     \* the list
  present,  \* rows that the query of the list matches
  key,      \* what each of them is sorted by
  pc,       \* the statement that runs next
  q, total, \* page and limit of the request, and the result of its COUNT
  answer,   \* the last answer, until the next request
  walk      \* history: what a client that walks the pages has got so far

vars == <<kind, present, key, pc, q, total, answer, walk>>

-----------------------------------------------------------------------------
(* Parameters and arithmetic *)

\* strconv.Atoi fails on what does not fit, as on what is no number.
ParseInt(raw, fallback) == IF raw \in -(MaxInt + 1) .. MaxInt THEN raw ELSE fallback

\* Mutant: the lower clamps are dropped.
ParamsUnclamped(rawPage, rawLimit) ==
  LET limit == ParseInt(rawLimit, DefaultLimit)
  IN [page |-> ParseInt(rawPage, 1), limit |-> IF limit > MaxLimit THEN MaxLimit ELSE limit]

Params(rawPage, rawLimit) ==
  LET page == ParseInt(rawPage, 1)
      limit == ParseInt(rawLimit, DefaultLimit)
  IN [page |-> IF page < 1 THEN 1 ELSE page,
      limit |-> CASE limit < 1 -> DefaultLimit
                  [] limit > MaxLimit -> MaxLimit
                  [] OTHER -> limit]

\* ListUsers: the page is not read, and what is out of range is the default.
UsersParams(rawLimit) ==
  LET limit == ParseInt(rawLimit, DefaultLimit)
  IN [page |-> 1, limit |-> IF limit \in 1 .. MaxLimit THEN limit ELSE DefaultLimit]

\* Multiplication of ints keeps the low bits.
Wrap(x) == ((x + MaxInt + 1) % (2 * (MaxInt + 1))) - (MaxInt + 1)
Product(p) == Wrap((p.page - 1) * p.limit)

\* Mutant: as the lists of roles and permissions do it.
NoGuard(p) == TRUE

\* pageOffset: the page may be so far out that its offset is no bigint.
OffsetFits(p) == p.page - 1 <= MaxInt \div p.limit

Meta(p, n) == n \div p.limit + (IF n % p.limit # 0 THEN 1 ELSE 0)

Ok(p, n, data) == [code |-> 200, data |-> data, total |-> n, pages |-> Meta(p, n)]
Error == [code |-> 500, data |-> <<>>, total |-> 0, pages |-> 0]
NoAnswer == [Error EXCEPT !.code = 0]

-----------------------------------------------------------------------------
(* The order of each list *)

\* Mutant: posts of one instant come in any order.
NewestFirstNoId(a, b) == key[a] > key[b]

NewestFirst(a, b) == key[a] > key[b] \/ (key[a] = key[b] /\ a > b)
OldestFirst(a, b) == a < b
ByKey(a, b) == key[a] < key[b]
LatestFirst(a, b) == a > b

Before(a, b) == CASE kind = "posts" -> NewestFirst(a, b)
                  [] kind = "roles" -> OldestFirst(a, b)
                  [] kind = "permissions" -> ByKey(a, b)
                  [] kind = "users" -> LatestFirst(a, b)

\* The results ORDER BY allows for rows S: where it leaves ties, any order.
Ordered(S) == {s \in SetToSeqs(S) : \A i, j \in DOMAIN s : i < j => ~Before(s[j], s[i])}

Page(s, offset, limit) == SubSeq(s, offset + 1, IF offset + limit < Len(s) THEN offset + limit ELSE Len(s))

-----------------------------------------------------------------------------
(* The client *)

NoWalk == [on |-> FALSE, seen |-> {}, stayed |-> {}, lost |-> 0, late |-> 0]

\* The history counts up to the number of rows.
More(n) == IF n < Cardinality(Rows) THEN n + 1 ELSE n

\* A request: its locals are new, and the client forgets the last answer.
Begin(p) ==
  /\ pc' = (IF kind = "users" THEN "select" ELSE "count") /\ q' = p /\ total' = 0 /\ answer' = NoAnswer
  /\ UNCHANGED <<kind, present, key>>

\* Any page of any size.
Ask ==
  /\ pc = "idle"
  /\ \E rawPage \in RawPages, rawLimit \in RawLimits :
       Begin(IF kind = "users" THEN UsersParams(rawLimit) ELSE Params(rawPage, rawLimit))
  /\ walk' = NoWalk

\* The first page of a walk through the list.
StartWalk ==
  /\ pc = "idle" /\ kind # "users"
  /\ \E rawLimit \in RawLimits : Begin(Params(1, rawLimit))
  /\ walk' = [NoWalk EXCEPT !.on = TRUE, !.stayed = present]

\* The next page, or the same again after an error.
ContinueWalk ==
  /\ pc = "idle" /\ walk.on
  /\ \/ answer.code = 500 /\ Begin(q)
     \/ answer.code = 200 /\ q.page < answer.pages /\ Begin([q EXCEPT !.page = q.page + 1])
  /\ walk' = [walk EXCEPT !.late = 0]

-----------------------------------------------------------------------------
(* The two statements *)

Answer(a) ==
  /\ answer' = a
  /\ walk' = [walk EXCEPT !.seen = IF walk.on THEN @ \cup ToSet(a.data) ELSE @]
  /\ pc' = "idle"
  /\ UNCHANGED <<kind, present, key, q>>

\* ListPublished and ListAdmin: no second statement for a page that is too far
\* out.
CountPosts ==
  /\ pc = "count" /\ kind = "posts"
  /\ total' = Cardinality(present)
  /\ \/ ~OffsetFits(q) /\ Answer(Ok(q, total', <<>>))
     \/ OffsetFits(q) /\ pc' = "select" /\ UNCHANGED <<kind, present, key, q, answer, walk>>

CountOthers ==
  /\ pc = "count" /\ kind \in {"roles", "permissions"}
  /\ total' = Cardinality(present)
  /\ pc' = "select"
  /\ UNCHANGED <<kind, present, key, q, answer, walk>>

\* An offset that has wrapped below zero is a uint64 that PostgreSQL rejects;
\* one that has wrapped above it is the offset of another page.
SelectPage ==
  /\ pc = "select"
  /\ \/ Product(q) < 0 /\ Answer(Error)
     \/ /\ Product(q) >= 0
        /\ \E s \in Ordered(present) : Answer(Ok(q, total, Page(s, Product(q), q.limit)))
  /\ UNCHANGED total

SelectPosts == kind = "posts" /\ SelectPage
SelectRoles == kind = "roles" /\ SelectPage
SelectPermissions == kind = "permissions" /\ SelectPage
SelectUsers == kind = "users" /\ SelectPage

StatementFails ==
  /\ pc # "idle"
  /\ Answer(Error)
  /\ UNCHANGED total

-----------------------------------------------------------------------------
(* The writers *)

SortKeys == IF kind \in {"posts", "permissions"} THEN Keys ELSE {0}

\* One that comes between a COUNT and its SELECT is not in the total.
Appear ==
  /\ \E row \in Rows \ present, k \in SortKeys :
       /\ present' = present \cup {row}
       /\ key' = [key EXCEPT ![row] = k]
  /\ walk' = [walk EXCEPT !.late = IF walk.on /\ pc = "select" THEN More(@) ELSE @]
  /\ UNCHANGED <<kind, pc, q, total, answer>>

\* A post that is unpublished loses its instant.
Disappear ==
  /\ \E row \in present :
       /\ present' = present \ {row}
       /\ key' = [key EXCEPT ![row] = 0]
       /\ walk' = [walk EXCEPT !.stayed = @ \ {row}, !.lost = IF walk.on THEN More(@) ELSE @]
  /\ UNCHANGED <<kind, pc, q, total, answer>>

\* The later of two updates that overlap writes the instant it took, which may
\* be the earlier one.  To a walk the post is a new one in its new place; if it
\* moved towards the end, others have moved up.
Restamp ==
  /\ kind = "posts"
  /\ \E row \in present : \E k \in Keys \ {key[row]} :
       /\ key' = [key EXCEPT ![row] = k]
       /\ walk' = [walk EXCEPT !.stayed = @ \ {row},
                              !.lost = IF walk.on /\ k < key[row] THEN More(@) ELSE @]
  /\ UNCHANGED <<kind, present, pc, q, total, answer>>

Init ==
  /\ kind \in Lists
  /\ present = {} /\ key = [row \in Rows |-> 0]
  /\ pc = "idle"
  /\ q = Params(1, DefaultLimit)
  /\ total = 0
  /\ answer = NoAnswer
  /\ walk = NoWalk

Next == \/ Ask \/ StartWalk \/ ContinueWalk
        \/ CountPosts \/ CountOthers
        \/ SelectPosts \/ SelectRoles \/ SelectPermissions \/ SelectUsers
        \/ StatementFails
        \/ Appear \/ Disappear \/ Restamp

Spec == Init /\ [][Next]_vars

-----------------------------------------------------------------------------
(* Properties *)

Walks == [on : BOOLEAN, seen : SUBSET Rows, stayed : SUBSET Rows,
          lost : 0 .. Cardinality(Rows), late : 0 .. Cardinality(Rows)]

\* Every variable has a value the code can give it; page and limit are always
\* ones that a division or an offset can take.
TypeOK ==
  /\ kind \in Kinds
  /\ present \subseteq Rows /\ key \in [Rows -> Keys \cup {0}]
  /\ pc \in {"idle", "count", "select"}
  /\ q \in [page : 1 .. MaxInt, limit : 1 .. MaxLimit]
  /\ total \in Nat
  /\ answer.code \in {0, 200, 500} /\ answer.data \in Seq(Rows)
  /\ answer.total \in Nat /\ answer.pages \in Nat
  /\ walk \in Walks

\* What a page is, in unbounded arithmetic.
Start == (q.page - 1) * q.limit
IsThePage(data) == \E s \in Ordered(present) : data = Page(s, Start, q.limit)

\* The data and the metadata tell one story.
MetaAgrees(a) ==
  /\ a.total <= a.pages * q.limit
  /\ a.pages > 0 => a.total > (a.pages - 1) * q.limit
  /\ a.data = <<>> <=> q.page > a.pages

AnswerIsRight ==
  pc # "idle" /\ pc' = "idle" /\ answer'.code = 200 /\ (kind = "posts" \/ Start <= MaxInt) =>
    /\ IsThePage(answer'.data)
    /\ kind # "users" /\ answer'.total = Cardinality(present) => MetaAgrees(answer')

\* Any page of posts, however far out ("a page past the end returns 200 with
\* data: [] and the real total"), and any page of roles and permissions whose
\* offset fits an int: the data are that page of the list as it is at the
\* SELECT, and agree with the metadata unless a writer came between the two
\* statements.  Users are the newest, as many as the limit allows.  The page
\* is the one in q: a number too large for an int is no number to FromContext,
\* and page 1 is answered in its place.
PagesAgree == [][AnswerIsRight]_vars

WalkOver == walk.on /\ pc = "idle" /\ answer.code = 200 /\ q.page >= answer.pages

\* A client that walks posts or roles to the last page, whatever others write
\* meanwhile, misses no more of the rows that kept their place from its start
\* to its end than rows were taken out or moved towards the end since it
\* started, and rows were added between the last COUNT and its SELECT: a walk
\* that nobody disturbs so misses none, and one that stops by a stale total
\* misses no more than the total does.  Permissions are ordered by columns that
\* are not unique and make no such promise, even if nobody writes.
WalksMissLittle ==
  WalkOver /\ kind # "permissions" => Cardinality(walk.stayed \ walk.seen) <= walk.lost + walk.late
=============================================================================
