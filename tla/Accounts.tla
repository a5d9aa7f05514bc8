----------------------------- MODULE Accounts -----------------------------
(***************************************************************************)
(* Registration, e-mail verification and password reset: AuthService       *)
(* .Register, VerificationService and PasswordResetService over UserRepo,  *)
(* VerificationRepo and PasswordResetRepo.                                 *)
(*                                                                         *)
(* As in Posts, every request runs in a goroutine of its own and talks to  *)
(* Postgres in single auto-committed statements, none of them in a         *)
(* transaction with another; a statement may fail without effect, or       *)
(* commit and still be reported as failed; the process may crash between   *)
(* any two steps.                                                          *)
(*                                                                         *)
(* A password hash is the request that brought the password: two requests  *)
(* never store the same one, as bcrypt salts them.  A token is its row:    *)
(* its 32 random bytes are never those of another and never guessed.       *)
(***************************************************************************)
EXTENDS Naturals, FiniteSets

CONSTANTS
  Requests,  \* the requests of a behaviour
  UserIds,   \* users.id, BIGSERIAL
  TokenIds,  \* ids of the rows of verification_tokens and password_resets
  Emails,
  NULL       \* nil

ASSUME AccountsAssumption == NULL \notin UserIds \cup TokenIds \cup Emails

VARIABLES
  users,   \* the users table: a function from the ids in use to rows
  tokens,  \* the two token tables: a function from the ids in use to rows
  pc,      \* where each request is
  req,     \* each request's local variables
  reply    \* what each request was answered

vars == <<users, tokens, pc, req, reply>>

\* The table of a token, and the operation that uses it up.
Kinds == {"verify", "reset"}

User == [email : Emails, password : Requests, verified : BOOLEAN]

\* used: used_at is set.  expired: expires_at is past.
Token == [kind : Kinds, user : UserIds, used : BOOLEAN, expired : BOOLEAN]

Operations == {"none", "register", "forgot"} \cup Kinds
Locations == {"new", "insert", "send", "issue", "apply", "mark", "done"}

\* "duplicate" and "internal" are both answered 500; they are told apart here
\* by the error behind them: the unique index on users.email, or any other.
Replies == {"none", "ok", "conflict", "bad_token", "bad_request",
            "duplicate", "internal", "lost"}

Locals == [op : Operations, email : Emails \cup {NULL},
           user : UserIds \cup {NULL}, token : TokenIds \cup {NULL}]

NoLocals == [op |-> "none", email |-> NULL, user |-> NULL, token |-> NULL]

-----------------------------------------------------------------------------
(* Helpers of the repositories *)

\* The ids of the rows GetByEmail matches.
Holders(email) == {u \in DOMAIN users : users[u].email = email}

\* Mutant: both kinds of token are looked up in one table.
UsableAnyKind(t, kind) ==
  t \in DOMAIN tokens /\ ~tokens[t].used /\ ~tokens[t].expired

\* GetByToken finds the row in the table of its kind, and IsValid holds.
Usable(t, kind) ==
  /\ t \in DOMAIN tokens /\ tokens[t].kind = kind
  /\ ~tokens[t].used /\ ~tokens[t].expired

\* VerificationRepo.Create and PasswordResetRepo.Create.
Issue(kind, user) ==
  \E t \in TokenIds \ DOMAIN tokens :
    LET row == [kind |-> kind, user |-> user, used |-> FALSE, expired |-> FALSE]
    IN tokens' = [i \in DOMAIN tokens \cup {t} |-> IF i = t THEN row ELSE tokens[i]]

Goto(r, location) == pc' = [pc EXCEPT ![r] = location]

Respond(r, answer) ==
  /\ Goto(r, "done")
  /\ reply' = [reply EXCEPT ![r] = answer]

\* A statement that committed: the service goes on, or the caller sees an error.
Continue(r, location) ==
  \/ Goto(r, location) /\ UNCHANGED reply
  \/ Respond(r, "internal")

Conclude(r) == Respond(r, "ok") \/ Respond(r, "internal")

-----------------------------------------------------------------------------
(* Register: look the e-mail up, hash, insert, issue a verification token *)

Register(r) ==
  /\ pc[r] = "new"
  /\ \E email \in Emails :
       /\ req' = [req EXCEPT ![r] = [@ EXCEPT !.op = "register", !.email = email]]
       /\ \/ Holders(email) = {} /\ Goto(r, "insert") /\ UNCHANGED reply
          \/ Holders(email) # {} /\ Respond(r, "conflict")
  /\ UNCHANGED <<users, tokens>>

\* Mutant: the column email_verified has no default.
NewUserNoDefault(r) == [email |-> req[r].email, password |-> r, verified |-> NULL]

NewUser(r) == [email |-> req[r].email, password |-> r, verified |-> FALSE]

\* Mutant: there is no unique index to stop the insert.
InsertUnchecked(r) ==
  /\ pc[r] = "insert"
  /\ \E u \in UserIds \ DOMAIN users :
       /\ users' = [i \in DOMAIN users \cup {u} |-> IF i = u THEN NewUser(r) ELSE users[i]]
       /\ req' = [req EXCEPT ![r].user = u]
  /\ Continue(r, "send")
  /\ UNCHANGED tokens

\* Mutant: the insert is an upsert on the e-mail.
InsertUpserts(r) ==
  /\ pc[r] = "insert"
  /\ \E u \in UserIds :
       /\ Holders(req[r].email) \ {u} = {} /\ (u \in DOMAIN users => u \in Holders(req[r].email))
       /\ users' = [i \in DOMAIN users \cup {u} |-> IF i = u THEN NewUser(r) ELSE users[i]]
       /\ req' = [req EXCEPT ![r].user = u]
  /\ Continue(r, "send")
  /\ UNCHANGED tokens

\* CreateWithPassword stores the row; the unique index finds no other.
Insert(r) ==
  /\ pc[r] = "insert"
  /\ Holders(req[r].email) = {}
  /\ \E u \in UserIds \ DOMAIN users :
       /\ users' = [i \in DOMAIN users \cup {u} |-> IF i = u THEN NewUser(r) ELSE users[i]]
       /\ req' = [req EXCEPT ![r].user = u]
  /\ Continue(r, "send")
  /\ UNCHANGED tokens

\* The unique index refuses the row.  The error is not translated: the handler
\* answers it like any other.
InsertCollides(r) ==
  /\ pc[r] = "insert"
  /\ Holders(req[r].email) # {}
  /\ Respond(r, "duplicate")
  /\ UNCHANGED <<users, tokens, req>>

\* SendVerification; its failure is ignored and the answer is 201 either way.
Send(r) ==
  /\ pc[r] = "send"
  /\ Issue("verify", req[r].user) \/ UNCHANGED tokens
  /\ Respond(r, "ok")
  /\ UNCHANGED <<users, req>>

-----------------------------------------------------------------------------
(* RequestReset: look the e-mail up, issue a reset token *)

RequestReset(r) ==
  /\ pc[r] = "new"
  /\ \E email \in Emails :
       \/ \E u \in Holders(email) :
            /\ req' = [req EXCEPT ![r] =
                         [@ EXCEPT !.op = "forgot", !.email = email, !.user = u]]
            /\ Goto(r, "issue")
            /\ UNCHANGED reply
       \/ /\ Holders(email) = {}
          /\ req' = [req EXCEPT ![r] = [@ EXCEPT !.op = "forgot", !.email = email]]
          /\ Respond(r, "ok")
  /\ UNCHANGED <<users, tokens>>

IssueReset(r) ==
  /\ pc[r] = "issue"
  /\ Issue("reset", req[r].user)
  /\ Conclude(r)
  /\ UNCHANGED <<users, req>>

-----------------------------------------------------------------------------
(* Verify and ResetPassword: read the token, take effect, mark the token *)

\* Mutant: the token is marked used as soon as it is found valid.
CheckTokenAndMark(r) ==
  /\ pc[r] = "new"
  /\ \E kind \in Kinds, t \in TokenIds :
       /\ Usable(t, kind)
       /\ req' = [req EXCEPT ![r] =
                    [@ EXCEPT !.op = kind, !.token = t, !.user = tokens[t].user]]
       /\ tokens' = [tokens EXCEPT ![t].used = TRUE]
       /\ Goto(r, "apply")
  /\ UNCHANGED <<users, reply>>

CheckToken(r) ==
  /\ pc[r] = "new"
  /\ \E kind \in Kinds, t \in TokenIds :
       \/ /\ Usable(t, kind)
          /\ req' = [req EXCEPT ![r] =
                       [@ EXCEPT !.op = kind, !.token = t, !.user = tokens[t].user]]
          /\ Goto(r, "apply")
          /\ UNCHANGED reply
       \/ /\ ~Usable(t, kind)
          /\ req' = [req EXCEPT ![r].op = kind]
          /\ Respond(r, "bad_token")
  /\ UNCHANGED <<users, tokens>>

\* MarkEmailVerified, or UpdatePassword with the new hash.
Apply(r) ==
  /\ pc[r] = "apply"
  /\ users' = IF req[r].op = "verify"
              THEN [users EXCEPT ![req[r].user].verified = TRUE]
              ELSE [users EXCEPT ![req[r].user].password = r]
  /\ Continue(r, "mark")
  /\ UNCHANGED <<tokens, req>>

\* Mutant: the failure of MarkUsed is ignored.
MarkUsedIgnored(r) ==
  /\ pc[r] = "mark"
  /\ tokens' \in {tokens, [tokens EXCEPT ![req[r].token].used = TRUE]}
  /\ Respond(r, "ok")
  /\ UNCHANGED <<users, req>>

\* MarkUsed: whatever happened to the token since it was read.
MarkUsed(r) ==
  /\ pc[r] = "mark"
  /\ tokens' = [tokens EXCEPT ![req[r].token].used = TRUE]
  /\ Conclude(r)
  /\ UNCHANGED <<users, req>>

-----------------------------------------------------------------------------
(* Failures, time, and the next-state relation *)

\* A malformed body, an invalid e-mail or password, no token: no statement is sent.
Reject(r) ==
  /\ pc[r] = "new"
  /\ Respond(r, "bad_request")
  /\ UNCHANGED <<users, tokens, req>>

\* A statement fails and has no effect, and its caller answers 500 (Send ignores it).
StatementFails(r) ==
  /\ pc[r] \in {"new", "insert", "issue", "apply", "mark"}
  /\ Respond(r, "internal")
  /\ UNCHANGED <<users, tokens, req>>

\* The process dies and is started again: the tables survive, the requests in
\* flight get no answer.
Crash ==
  /\ reply' = [r \in Requests |->
                 IF pc[r] \in {"new", "done"} THEN reply[r] ELSE "lost"]
  /\ pc' = [r \in Requests |-> IF pc[r] = "new" THEN "new" ELSE "done"]
  /\ UNCHANGED <<users, tokens, req>>

\* expires_at passes.  It is computed before the row is inserted, so tokens do
\* not expire in the order of their ids.
Expire(t) ==
  /\ t \in DOMAIN tokens /\ ~tokens[t].expired
  /\ tokens' = [tokens EXCEPT ![t].expired = TRUE]
  /\ UNCHANGED <<users, pc, req, reply>>

Init ==
  /\ users = [u \in {} |-> NULL]
  /\ tokens = [t \in {} |-> NULL]
  /\ pc = [r \in Requests |-> "new"]
  /\ req = [r \in Requests |-> NoLocals]
  /\ reply = [r \in Requests |-> "none"]

Step(r) ==
  \/ Register(r) \/ Insert(r) \/ InsertCollides(r) \/ Send(r)
  \/ RequestReset(r) \/ IssueReset(r)
  \/ CheckToken(r) \/ Apply(r) \/ MarkUsed(r)
  \/ Reject(r) \/ StatementFails(r)

Next ==
  \/ \E r \in Requests : Step(r)
  \/ \E t \in TokenIds : Expire(t)
  \/ Crash

Spec == Init /\ [][Next]_vars

-----------------------------------------------------------------------------
(* Properties *)

TypeOK ==
  /\ DOMAIN users \subseteq UserIds
  /\ users \in [DOMAIN users -> User]
  /\ DOMAIN tokens \subseteq TokenIds
  /\ tokens \in [DOMAIN tokens -> Token]
  /\ pc \in [Requests -> Locations]
  /\ req \in [Requests -> Locals]
  /\ reply \in [Requests -> Replies]

\* However registrations of one e-mail overlap between the look-up and the
\* insert, no two accounts have the same e-mail.
EmailsUnique ==
  \A u, v \in DOMAIN users : users[u].email = users[v].email => u = v

\* A request holds a token of one kind that was issued to one user.
Holds(r, kind, user) ==
  /\ req[r].op = kind /\ req[r].token \in DOMAIN tokens
  /\ tokens[req[r].token].kind = kind /\ tokens[req[r].token].user = user

\* The password of an account is the one it was registered with, or came with a
\* reset token of that account; an account is verified only through a
\* verification token of its own.
ChangesComeWithTokens ==
  \A u \in DOMAIN users :
    /\ \/ Holds(users[u].password, "reset", u)
       \/ /\ req[users[u].password].op = "register"
          /\ req[users[u].password].email = users[u].email
    /\ users[u].verified => \E r \in Requests : Holds(r, "verify", u)

\* No token is spent for nothing: wherever a request fails or the process
\* crashes, a token that is marked used has had its effect.
UsedTokensTookEffect ==
  \A t \in DOMAIN tokens :
    tokens[t].used =>
      LET u == tokens[t].user
      IN IF tokens[t].kind = "verify" THEN users[u].verified
         ELSE Holds(users[u].password, "reset", u)

\* A success that was answered is in the tables, across crashes: the account
\* exists, the token is used up and so had its effect.
AnswersHold ==
  \A r \in Requests :
    reply[r] = "ok" =>
      /\ req[r].op = "register" =>
           req[r].user \in DOMAIN users /\ users[req[r].user].email = req[r].email
      /\ req[r].op \in Kinds =>
           /\ Holds(r, req[r].op, req[r].user)
           /\ tokens[req[r].token].used

\* An account and its e-mail stay, a verified account stays verified, and a used
\* token is never usable again, whatever requests that read them earlier write.
Grow ==
  /\ \A u \in DOMAIN users :
       /\ u \in DOMAIN users'
       /\ users'[u].email = users[u].email
       /\ users[u].verified => users'[u].verified
  /\ \A t \in DOMAIN tokens :
       /\ t \in DOMAIN tokens'
       /\ tokens'[t].kind = tokens[t].kind /\ tokens'[t].user = tokens[t].user
       /\ tokens[t].used => tokens'[t].used

RowsOnlyGrow == [][Grow]_<<users, tokens>>

\* docs/API.md: "400 - token already used".  One token is redeemed once.
TokensRedeemedOnce ==
  \A r, s \in Requests :
    /\ req[r].op \in Kinds /\ req[r].token # NULL /\ req[r].token = req[s].token
    /\ reply[r] = "ok" /\ reply[s] = "ok"
    => r = s
=============================================================================
