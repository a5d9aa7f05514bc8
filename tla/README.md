# TLA+ models of ssr-blog

ssr-blog is a blog API in Go: an Echo server in front of PostgreSQL, one process,
many requests at a time. Almost everything that can go wrong in it goes wrong
*between* two SQL statements, because no handler uses a transaction: a handler
reads a row, decides, and writes in a later statement, and what keeps the data
right is a unique index, a `WHERE` clause, or an increment made in the database.
The modules here model the program at that grain, one action per statement, and
say which promises survive and which do not.

Paths below are those of the repository, without the leading `src/`.

## 1. The system

| Component | State it keeps | Operations | Talks to |
|---|---|---|---|
| Post writes: `internal/handler/admin_post_handler.go`, `internal/service/post_service.go`, `internal/repository/post_repo.go` | table `posts` (slug, status, published_at, deleted_at; unique index on slug, migration `20260920100000_create_posts.sql`), the Prometheus counter of post operations | create with the slug loop, update, soft delete | slug generation, metrics, sessions (author id) |
| Lists: `internal/handler/{post,admin_post,role,permission,user}_handler.go`, their repositories, `pkg/pagination` | none | list of posts (public, admin), of roles, of permissions, of users | the tables |
| Slugs: `internal/service/slug.go` | none | `Slugify`, `WithSuffix`, `validSlug` | called by create and by the public look-up |
| Login and lockout: `internal/service/auth_service.go`, `internal/repository/user_repo.go` | `users.failed_login_attempts`, `users.locked_until` | login: lock check, bcrypt, record or reset | sessions |
| Registration, verification, reset: `auth_service.go`, `verification_service.go`, `password_reset_service.go` and their repositories | `users`, `verification_tokens`, `password_reset_tokens` | register, verify e-mail, forgot password, reset password | default role |
| Sessions: `internal/handler/auth_handler.go`, `internal/middleware/auth.go`, scs | table `sessions`, cookie | login, logout, load and save round every request | login |
| Roles and permissions: `role_handler.go`, `permission_handler.go`, `admin_user_handler.go`, `middleware/rbac.go` | tables `roles`, `permissions`, `role_permissions`, `users.role_id` | CRUD of roles and permissions, grant, revoke, change a user's role, `RequireRole`, `RequirePermission` | seed |
| Seed and migrations: `internal/database` | all of them | run at every start | roles |
| Rate limiting: `internal/middleware/ratelimit.go` | a mutex, a map from client to bucket and time last seen, a clean-up goroutine | look up, `Allow`, sweep | `golang.org/x/time/rate` |
| Pipeline: `middleware/csrf.go`, `logger.go`, `metrics.go`, `internal/apperror`, `cmd/api/main.go` | the in-flight gauge, request counters | one pass per request | all handlers |
| Lifecycle: `cmd/api/main.go`, `internal/database/db.go` | phase of `run`, the channel of signals, the connection pool | start, seed, serve, graceful shutdown, exit | all |
| Health: `internal/handler/health_handler.go` | none | liveness, readiness (one statement with a limit of 3 s) | the pool |

Components share state through the database only; inside the process the shared
state is the rate limiter's map, the Prometheus counters and the connection
pool. There are no queues and no callbacks; the goroutines that are not
requests are `main`, the one that serves, the limiter's clean-up (one per
`RateLimit` call) and that of the session store.

What is hard, and what makes each component correct:

- **Post writes.** The create loop tries `base`, `base-2`, `base-3`, ... while
  other creates take the same names; update decides `published_at` from a row read
  earlier; update and delete meet a row that was deleted in between; an answer
  can be lost after its statement committed. Correct: no slug is ever shared or
  reused, a suffix is only used when the names before it are taken, a draft has
  no `published_at` and a published post has one, a client told "created",
  "updated", "deleted" or "not found" is told the truth, the counters never claim
  a change that did not happen, and every request ends.
- **Login.** The lock is tested on a row read before bcrypt. Correct: no failure
  is lost however logins overlap, a lock admits at most the guesses already
  in flight, a lock ends.
- **Accounts.** Tokens are checked, applied and marked in three statements.
  Correct: one account per e-mail; a password or a verification changes only
  through a token issued to that account; no token is spent without its effect.
- **Rate limiting.** The bucket is looked up under the mutex but used outside it,
  while the sweep may drop the entry. Correct: a client gets what one bucket
  kept for ever would give it; entries of absent clients go.
- **Roles.** Check, then act, over tables with foreign keys, and a seed of many
  statements at every start. Correct: names stay unique and references hold; the
  defaults are there once requests are served and the seed takes nothing back;
  admins are only made by admins.
- **Sessions.** scs writes the session back after the handler. Correct: a
  session never changes hands and ends with its lifetime; one that was
  destroyed stays destroyed (it does not: finding 3).
- **Lists.** `COUNT` and `SELECT` are two statements, and the page arithmetic is
  done in machine integers. Correct: the data of an answer are the page that was
  asked for and agree with its metadata; a client that walks the pages misses no
  more of the rows that stayed where they were than writers took out or moved.
- **Slugs.** A slug is folded, joined, cut and suffixed. Correct: every slug that
  can be stored can be asked for.
- **Pipeline, lifecycle.** Which middleware is inside which decides what a panic,
  a refusal or a lost connection does to the gauge and the answer; shutdown stops
  waiting after ten seconds and closing the pool then waits for every connection.
  Correct: every request is counted and answered once; a process that stops without
  an error leaves none behind; a process told to stop does.

`PROJECT.json` lists every such hazard at its line, with the property that would
catch it or the reason none does yet.

## 2. The modules

```
PublicBlog  (abstract)   <--- refined by --- Posts        <-- MCPosts, PostsProofs
TokenBuckets (abstract)  <--- refined by --- RateLimiter  <-- MCRateLimiter, RateLimiterProofs
                                             Login        <-- MCLogin, LoginProofs
                                             Accounts     <-- MCAccounts, AccountsProofs
                                             Sessions     <-- MCSessions, SessionsProofs
                                             Roles        <-- MCRoles, RolesProofs
                                             Listing      <-- MCReads, ReadsProofs
                                             Slugs        <-- MCReads, ReadsProofs
                                             Server       <-- MCServer, ServerProofs
```

The modules meet at the tables. `Slugs` says which strings `Posts`' abstract
slugs stand for; `Roles` says which changes the `Act` of `Sessions` really makes,
and `Sessions` who may make them; `Listing` sees the writes of `Posts` and `Roles`
as rows that come, go and move; `Server` is the process that runs them all, whose crash
and restart are `Crash` and `Restart` of the others.

Common conventions. A request is a process: `pc[r]` says which statement it
executes next, `req[r]` its local variables, `reply[r]` what the client was
told. One SQL statement is one atomic action (every statement is its own
transaction, autocommit). A statement may fail without effect, or take effect
and be reported as failed, because the connection broke after the commit; both
are actions. `Crash` forgets the requests in flight and keeps the tables.
Validation failures are the single action `Reject`. The row values that no
property reads (title, content, timestamps kept only for display) are left out.
Definitions such as `FromSecond`, `StaleCount` or
`MarkUsedIgnored` are deliberately wrong forms of a definition; `PROJECT.json`
pairs each property with one of them that TLC shows it to reject. They belong
to no next-state relation.

### Posts

| Module | Code |
|---|---|
| `posts` | table `posts`: slug, status, published_at, deleted_at, by id |
| `WithSuffix`, `Candidate`, `NextAttempt` | the loop of `PostService.Create` and `slug.WithSuffix`; a slug is a root and the numbers appended to it, so that the base `foo-2` and the second try of `foo` are the same slug |
| `Create`, `Insert`, `Collide`, `GiveUp` | the handler's entry, `PostRepo.Create`, the unique violation that becomes `ErrSlugTaken`, the loop's limit |
| `FindToUpdate`, `Decide`, `Update` | `PostService.Update`: read, decide `published_at` and transition, `UPDATE ... WHERE deleted_at IS NULL` |
| `FindToDelete`, `SoftDelete` | `PostService.Delete`; the `WHERE` of the second statement is what makes the loser answer "not found" |
| `writes` | the Prometheus counter of post operations, raised after the commit and lost in a crash |
| `reply` | the answer; a request whose connection or process ended has the reply "lost" |
| `now`, `Tick` | the clock that `published_at` and `deleted_at` are taken from |

`PublicBlog` is what a reader can see of all this: posts get a slug nobody had
before, are shown, hidden, and removed for good, each in one indivisible step.
`ImplementsPublicBlog` is the refinement.

### Login

`attempts` and `lock` are the two columns (`lock` as ticks left until
`locked_until`), `read[r]` is the row a login read before bcrypt. `Arrive` is
`GetByEmail` with the lock check, `Refuse` every answer given before the comparison, `Record` and `Reset` the
two updates, `WriteFails` the error that the service drops. `failed` and `late`
are history: the failures recorded since the last success, and the failures
recorded since the account was locked. The counter
saturates at the threshold, because only the comparison with it is ever read.
Row read and lock check are one instant (there is nothing between them).

### Accounts

`users` and `tokens` are the tables (`tokens` holds both kinds, told apart by
`kind`), `Register`/`Insert`/`InsertCollides`/`Send` registration,
`RequestReset`/`IssueReset` forgot-password, `CheckToken`/`Apply`/`MarkUsed` the
redemption of either kind. A user's password is the name of the request that set it,
which is how `ChangesComeWithTokens` can ask where a password came from. Users are
never deleted and never change their e-mail, as no code does either.

### Sessions

scs wraps every request: it copies the session of the cookie into the request
(`LoadSession`, `LoadNothing`), runs the handler on the copy, and writes the copy
back as the response is sent (`Commit`; `Respond` when there is nothing to write).
Because `session.New` sets an idle timeout, every loaded session is written back.
`store` is the table, `req[r]` the copy. scs and its store are not in the
repository and are modelled from how they are configured and called.
`Login` is the part of `AuthHandler.Login` after the password was right
(`RenewToken`, `Put`), `Logout` is `Destroy`, `DeleteFails` either of them when the
store reports an error, `Unauthorized` is `RequireAuth`, `CheckRole` is
`RequireRole`, `Act` an admin's handler, of which only the effect on who is an
admin matters here. `Cleanup` is the goroutine of the store. `issued` (every token
drawn, for whom, until when) and `was` (has this admin's request run while its
user was an admin) are history. Deadlines are kept as the time left until them.
When a session cannot be loaded scs calls `ErrorFunc`, which is empty, and runs no
handler: nothing changes, so this is a stutter here.

### Roles

`roles`, `perms`, `grants` and `users` are the tables `roles`, `permissions`,
`role_permissions` and the column `users.role_id`, by id; an id is drawn once
(`FREE`, a name, `GONE`). `boot` is the statement of `SeedData` that comes next
(`SeedRole`, `SeedPerm`, `SeedGrant`, `SeedAdmin`) or `Served`; `Restart` is the end
of the process at any statement, of the seed's or of a handler's. A request is a
call of an admin or a registration: `CheckName`, `CheckRole`, `CheckPerm`,
`CheckUser` and `FindDefault` are the reads of the handlers, `CreateRole` to
`SetUserRole` their writes with what the unique indexes and foreign keys refuse
(`ON DELETE RESTRICT` for accounts, `CASCADE` for grants). An admin's request passed
`RequireRole` when somebody was an admin; it acts later, whoever is an admin then.

### Listing and Slugs

In `Listing`, `present` is the set of rows the query matches and `key` what each of
them is sorted by before its id: `published_at` of a post, resource and action of a
permission, nothing for roles and users. `Params`, `OffsetFits`, `Product` and `Meta`
are `pagination.FromContext`, the guard of `pageOffset`, `(page - 1) * limit` in ints of
which `MaxInt` is the largest, and `NewMeta`; `CountPosts`, `CountOthers` and the
`Select` actions are the statements. `Before` is the `ORDER BY` of each list and
`Ordered` what it allows: one sequence where the columns are unique, any of several
where they are not.

The writers come between any two statements: `Appear` and `Disappear` add a row and
take one out, and `Restamp` is the update of finding 1, which gives a post another
`published_at` while it stays published and so moves it within the public list. The
admin list sorts by `created_at`, which nothing changes, so there `Restamp` is more
than the program can do, and what holds with it holds without.

`walk` is history: the rows a client that follows the pages has been shown (`seen`),
those that have been in the list since it started and were not moved (`stayed`), how
many rows were taken out or moved towards the end (`lost`), and how many were added
between the last COUNT and its SELECT (`late`). `WalksMissLittle` bounds what is
missing at the end by these two numbers: a row that goes, or moves back, lets all rows behind it
move up, one of them over the edge of a page already read, and a row the COUNT did
not see may be what makes a last page.

In `Slugs`, `Read` is one turn of the loop of `Slugify` (`KeepFolds`, `SkipMark`,
`Separate`), `b` and `pendingHyphen` its builder and flag, `Return` the cut. Which rune
folds to what is the constant `Fold`. `Reference` says what the whole title should
give: each place contributes its letters (`Spelling`), with a hyphen before a word
that is not the first (`Gap`).

### Server

`phase` is where `run` is, from reading the configuration to `exited` with its
`code`; `listener` is the goroutine that serves, `quit` the channel of one signal,
`pool` the connection pool. A request goes through scs (`Read`, `Acquire`,
`Release`, with `inSession`), `PrometheusMiddleware` (`Enter`, `Leave`),
`CSRFProtection`, its handler (`Query` any number of times, `Reply`, `Finish`), and
Echo's error handler (`Answer`) or `Recover`. What handlers compute is left to the
other modules; here they may query, reply, fail or panic in any order, or go on for
ever. Before the first byte of an answer scs writes the session back, which is one
more statement of the pool: for a handler's reply it is one of the handler's `Query`,
for the error handler's it is `Save`, whose own error is dropped (`ErrorFunc` is
empty), so that the answer follows either way. `entered` and `signals` are history.

### RateLimiter

One instance of the module is one call of `RateLimit`: register and login share
one, the post writes share another. `visitors` is the map, `idle` the time since
`lastSeen`, `level` the content of every bucket in memory, `held[r]` the bucket a
request looked up and has not used yet, `client[r]` whose it was and `wait[r]`
how long ago that was, `nap` how long the clean-up goroutine goes on sleeping.
`GetLimiter` is the critical section, `Allow` the call outside it, `Sweep` the
clean-up, `Tick` time. A level is counted in ticks so that refilling adds one:
a bucket is full at `Burst * Period`, and a request takes `Period`. Buckets
that nothing refers to are reused, which is what the garbage collector does.
A restart empties the map and is not modelled: it gives every client a new
bucket by design.

The module assumes `Capacity + MaxStall <= IdleLimit`: an entry is dropped only
when its bucket has long been full, even if its last request was stalled between
the look-up and `Allow`. In the program a bucket is full after 36 s (5 a minute,
burst 3) or 20 s (30 a minute, burst 10), entries are kept for 180 s, and
nothing blocks between the look-up and `Allow`; the assumption fails only if a
goroutine were not scheduled for 144 s. `TokenBuckets` is the promise: one bucket
per client, for ever.

## 3. The runs

| Run | Instance | Distinct states | What it shows |
|---|---|---|---|
| `posts` | 3 requests, 3 ids, bases `Foo` and `Foo-2`, 2 attempts, 2 instants | 66,971 | all safety properties of `Posts` and the refinement of `PublicBlog` |
| `posts_live` | the same with one base, no symmetry | 148,590 | every request that arrived is answered |
| `posts_stamp` | 3 requests, 1 id | violation | finding 1 |
| `login` | 3 logins, threshold 2, lock of 3 ticks | 4,101 | no failure lost, late guesses bounded, locks end |
| `accounts` | 4 requests, 2 users, 3 tokens, 2 e-mails | 35,387 | accounts unique, changes only through own tokens, no token spent for nothing |
| `token_twice` | as `accounts` | violation | finding 2 |
| `sessions` | 2 requests, 2 tokens, 2 users, lifetime 2, idle timeout 1 | 274,084 | sessions keep their owner and their deadline; only admins act; every session ends |
| `session_revoked` | as `sessions` | violation | finding 3 |
| `roles` | 2 requests, 2 accounts, 3 role ids, 2 permission ids, a seed of 2 roles and 1 permission | 2,491,077 | names unique and references hold; the seed is complete and takes nothing back; admins only from admins |
| `reads` | lists of 3 rows with 2 keys, ints up to 15, 8 pages by 6 limits; titles of up to 6 runes over 4 | 518,605 | pages are the pages asked for, walks miss no more than writers moved; slugs are those of a reference definition and can be looked up |
| `ratelimit` | 2 clients, 2 requests, 3 buckets, burst 2, period 2, idle limit 5, stall 1 | 207,210 | requests never share buckets; refinement of `TokenBuckets`; entries go |
| `server` | 2 clients, a pool of 1, 2 signals, 3 requests that enter | 202,423 | a clean stop leaves nothing behind; counted and answered once; the process ends when told to |

Why the bounds are enough. The races are between two requests over one row; the
third request (a fourth in `accounts`) is there to disturb both of them, e.g. to
publish, unpublish or delete between a read and a write. The two bases are chosen so
that the slug loop of one runs into the first try of the other, and two
attempts reach the point where the loop gives up. Two instants are what it takes
to see a stamp change. In `login` three requests make a lock (two) and a late
guess (one). In `sessions` two requests share a cookie, two tokens are a session and
the one that a login replaces it with, and a lifetime above the idle timeout tells
the two apart. In `roles` one request deletes or renames what the other has checked; the ids are one
more than the seed draws, so that an admin can make a role or a permission, or the
next start one that was deleted. In `reads` three rows are two pages at least under
every limit but the largest, two of them may share a key and any may move past
the other two, and in ints of
five bits the product of a page and a limit wraps both to a negative offset (pages 8 and 12) and
to that of a page with rows in it (page 12 with limit 3); raw values lie on both sides of every clamp. Titles of six
runes reach the cut at five with a hyphen on either side of it, and a suffix of two
digits. In `server` one connection makes the second request wait, the second signal
is the one the channel drops, and the third request enters after another has left. In
`ratelimit` a burst of 2 makes a bucket full, partly used and empty, the idle limit
is the least one the assumption allows, and three buckets are one per client and
one that a dropped entry still had in use.

No run disables the deadlock check: in every module something can always happen,
in `Server` because `Over` stands for the time after the exit. A run of `posts` with
four requests and two ids (1,770,290 states) found nothing new.

Fairness. `posts_live` assumes weak fairness of `Advance(r)`, the next statement of
each request: a goroutine that can run runs, and a statement returns. It does
not assume that any statement succeeds, that requests arrive, or that nobody
else collides. `login` assumes only that time passes. `sessions` assumes
that time passes and that the store's clean-up goroutine runs. `ratelimit` assumes time,
the clean-up goroutine's ticker, and that a request in the middle of its look-up goes
on. `server` assumes that `run` goes on, which includes that the timer of its
shutdown fires, and that PostgreSQL answers every statement, which gives its
connection back; it asks nothing of handlers and clients. Without the second
assumption the property fails: `Pool.Close` has no limit of its own.

## 4. What is proved

The proofs (TLAPS) hold for every value of the constants that satisfies the named
assumptions; they do not use the bounds of the runs.

- `PostsProofs`. Two inductive invariants. `RowsInv` is about the table: types,
  slugs unique including those of deleted rows, every suffix forced by the names
  below it, stamp in step with status. Forcedness is the conjunct that needs
  the request's own progress: a request at attempt `n` has seen all candidates
  below `n` taken, and rows keep their slug for ever, so they still are.
  `AnswersInv` adds what requests know: a request that is about to write has read
  the row it names, and a client's answer stays true of the table as it ages.
  `CountersInv` adds that the table is finite, so that an insert and a deletion
  each make a cardinality one larger, as the commit that follows makes the counter at most.
  Theorems: `TypeCorrect`, `SlugsUnique`, `StampsMatch`, `RowsAge`,
  `AttemptsAreForced`, `AnswersAlwaysHold`, `CountersHonest`, `NotFoundTrue`,
  `PostsImplementBlog`.
- `LoginProofs`. `LoginInv`: the stored count equals the failures since the last
  success, so the lock is set when it should be; and while locked, late guesses plus those still
  in flight are fewer than the requests. Theorems `LoginTypeCorrect`,
  `NoFailureLost`, `LateGuessesAreBounded`.
- `AccountsProofs`. One invariant over users, tokens and requests: a request past its
  check carries a token of the kind and user it is about to change, which stays
  its own because tokens never change owner. Theorems `AccountsTypeCorrect`,
  `EmailsStayUnique`, `ChangesAuthorised`, `UsedTokensHadEffect`,
  `AccountAnswersHold`, `AccountsOnlyGrow`.
- `SessionsProofs`. `Inv` adds `CopiesInv` to the two properties: a copy that will
  be written back has a user, and whoever waits for `RequireRole` and is an
  admin at any instant is remembered as one, which is what the check needs when it
  passes. The argument for `SessionsKeepOwner` is that user and deadline of a
  session exist in three places, row, copies and token, that every write copies one to
  another, and that a new token is nobody's. Theorems `SessionsTypeCorrect`,
  `OwnersKept`, `OnlyAdminsAct`.
- `RolesProofs`. `Inv` adds to types and references `CallsInv` (where a request is
  fits what it was called for, and a registration that writes has found its role)
  and `BootInv` (no request runs before the seed is done, and what the seed has
  passed is there). `BootInv` is what makes the last step of the seed imply that
  all defaults are there, although each step looks at one row only. For
  `AdminsOnlyFromAdmins` the invariant gives that, once requests are served, the
  account of the seed has a role, so that `SeedAdmin` finds it taken at the next start. Theorems
  `RolesTypeCorrect`, `ReferencesAlwaysHold`, `SeedSafe`, `AdminsOnlyFromAdmins`.
- `ReadsProofs`, lists. `ListInv` adds to the types that the pages of an answer come
  from its total, that posts select only offsets that fit, and that a walk's offset
  always fits: it goes on only to a page that starts below a total, and ids are
  bigints, so there are no more rows than a bigint counts. `WalkInv` is about *ranks*.
  The rank of a row is the number of rows that come before it; where the order
  decides between any two rows (not for permissions), it is the row's place in every
  list that `ORDER BY` allows, which is why two SELECTs may be compared at all. After a
  walk has covered `k` places, the rows that stayed, have a rank below `k` and were not
  seen are at most `lost`. A row that is added, or moved towards the front, only raises
  the ranks of the others; one that is taken out, or moved towards the end, lowers some of them by one, and since no
  two rows share a rank this brings at most one row below `k`, while `lost` grows by
  one. After the last page `k` is at least the total, and no more than `late` rows
  have a rank that is not below it. That any rows
  can be sorted (needed for the page of posts that is answered without a SELECT) is
  shown by a smallest set that cannot be. Theorems `ListingTypeCorrect`,
  `PagesAlwaysAgree`, `WalksAlwaysMissLittle`, and of the arithmetic `FitsExactly` and
  `PageCount`, for any number of rows, any keys and limits and any width of an int.
- `ReadsProofs`, slugs. `SlugInv`: every hyphen in the builder has a letter before it and
  the builder does not end in one, so that a cut leaves at least a letter; the
  bounds on lengths then give room for any suffix. `SpellInv`: the builder is the
  reference of what has been read, and the flag says whether the next rune would
  stand after a gap. The reference is a `FlattenSeq`, a recursive function: that it
  has a value, and only one, is part of `SpellInv`, so that the induction over the title
  is the induction over the steps that read it. Theorems `SlugsAlwaysReadable` and
  `SlugifyAlwaysReference`, for titles of any length and any folding, and
  `AttemptsDiffer`, which `Posts` takes for granted when it tells candidates apart
  by their numbers.
- `ServerProofs`. `ServerInv`: nothing is accepted before `run` serves or after it
  has begun to shut down, so that connections counted idle stay idle; how many
  answers a request has got is fixed by where it is; the gauge is the number of
  requests between two places. Theorems `ServerTypeCorrect`, `AlwaysStopsClean`,
  `AlwaysCountedAndAnswered`.
- `RateLimiterProofs`. `AsksOwnBucket` (a request's bucket is its client's, or one
  no client has any more), `SeenSince` (an entry is at most as idle as its stalled
  request) and `Refilled` (a bucket's level is at least the idle time less the
  stall, or it is full), which together say that a dropped entry was a full
  bucket. Theorems `LimiterTypeCorrect`, `BucketsAreOwn`,
  `LimiterImplementsBuckets`.

Every invariant that the runs check, both refinements, and every property of single
steps are proved. Only model-checked: the liveness properties `RequestsFinish`,
`LockEnds`, `SessionsEnd`, `EntriesGo` and `StopsEventually`, since liveness under
fairness is out of the prover's reach. So is the library's induction over data, whose
theorems take an operator as a parameter; where an argument needs one, a smallest
counterexample (`LastExists`, `SortedListExists`) or the steps of the machine stand in.

## 5. What the models found

1. **`published_at` can move** (`posts_stamp`). `Update` decides the stamp from a
   row read in an earlier statement, so two updates to published that overlap both
   stamp: the second replaces the first's. The comment at
    `internal/service/post_service.go:145` says a published post keeps it. The public
   list is sorted by it, so the post changes its place there: a client that walks the
   pages may see it twice and miss another, though nothing was added or taken out
   (`Restamp` in `Listing`).
2. **A token can be redeemed twice** (`token_twice`). `MarkUsed` is not
   conditional on `used_at IS NULL` and comes last; `docs/API.md:208` and `:239` say
   the second use is refused.
3. **A logout can be undone** (`session_revoked`). A request that loaded the session
   before the logout writes it back after it, and the token is good again until its
   lifetime is over. `docs/adr/0001-session-auth.md:20` promises "Revocation
   instant -- delete session".

Met while modelling, without a run of their own:

- The loser of two registrations of one e-mail is answered 500, where
  `docs/API.md:129` promises 409: `PostRepo` translates the error of the unique
  index, `UserRepo` does not. Two admins who create one role or permission at once get the same
  500.
- `GET /users` reads no page and sends no metadata, though `docs/API.md:56` and `:291`
  show both; a limit above 100 becomes 20, not 100.
- The lists of roles and permissions do not guard `(page - 1) * limit` as the lists of
  posts do: for a page far enough out the offset wraps, and the answer is a 500 or
  another page. `PagesAgree` states the promise for the pages whose offset fits; beyond
  them it fails for these lists, and no document promises it there.
- A page number that is too large for an int is no number to `strconv.Atoi`, so page 1
  is answered (`pkg/pagination/pagination.go:77`), where `docs/API.md:378` promises an
  empty page. `PagesAgree` is about the page that `FromContext` made of the query.
- Permissions are ordered by columns that are not unique, so their pages may be cut
  from two different orders: `WalksMissLittle` fails for this list and is stated for the others.
- Failed requests are logged and counted under status 200; the project's notes
  record it (`.specify/specs/001-blog-post-crud/notes.md:90`).
- A listener that fails ends the process with exit code 0. A second signal during
  shutdown is dropped; one before `signal.Notify` kills the process during its seed,
  which the seed survives.
- Each start grants the defaults anew, also those an admin revoked. Demoting the last admin, or
  renaming the role `admin`, cannot be undone through the program, except that the
  latter makes the next start insert a new role `admin`, which nobody has.

## 6. What is not modelled

- **Configuration, logger.** Read once at start: a step of `Server` that succeeds or
  fails; their values have no behaviour over time.
- **Input validation.** A pure predicate of a library; a request that fails it is
  `Reject`.
- **Migrations.** Run by goose; a step of `Server`, and the constraints they make.
- **Generated API description, test doubles and helpers.** No behaviour of the
  program.
- **Status values, CORS, the value of the CSRF cookie, `WriteTimeout`.** `Server`
  keeps who answers and how often, not with what.
- **`RequirePermission`, `UserRepo.ListWithPagination`, `DeleteExpired`.** Mounted on
  no route or called by nothing.
- **Reads of one row** (`GetUser`, `Me`, `Get` of posts and roles). One statement
  that changes nothing.
- **A restart in `RateLimiter`.** It empties the map: every client has a new bucket, by
  design.
