--------------------------- MODULE AccountsProofs ---------------------------
(***************************************************************************)
(* What holds of Accounts for any number of requests, users, tokens and    *)
(* e-mails.                                                                *)
(***************************************************************************)
EXTENDS Accounts, TLAPS

\* What a token of a kind does to the account of its user.
Effect(kind, u) ==
  IF kind = "verify" THEN users[u].verified ELSE Holds(users[u].password, "reset", u)

\* What a request carries between two of its statements.
Carries(r) ==
  /\ pc[r] = "new" => req[r].op = "none" /\ reply[r] = "none"
  /\ pc[r] = "insert" => req[r].op = "register" /\ req[r].email \in Emails
  /\ pc[r] = "send" => /\ req[r].op = "register"
                       /\ req[r].user \in DOMAIN users
                       /\ users[req[r].user].email = req[r].email
  /\ pc[r] = "issue" => req[r].op = "forgot" /\ req[r].user \in DOMAIN users
  /\ pc[r] \in {"apply", "mark"} =>
       /\ req[r].op \in Kinds /\ req[r].user \in DOMAIN users
       /\ Holds(r, req[r].op, req[r].user)
  /\ pc[r] = "mark" => Effect(req[r].op, req[r].user)

\* What an answered request was promised.
Answered(r) ==
  reply[r] = "ok" =>
    /\ pc[r] = "done"
    /\ req[r].op = "register" =>
         req[r].user \in DOMAIN users /\ users[req[r].user].email = req[r].email
    /\ req[r].op \in Kinds =>
         Holds(r, req[r].op, req[r].user) /\ tokens[req[r].token].used

TokensOwned == \A t \in DOMAIN tokens : tokens[t].user \in DOMAIN users

\* The inductive invariant.
Inv ==
  /\ TypeOK
  /\ TokensOwned
  /\ \A r \in Requests : Carries(r) /\ Answered(r)
  /\ EmailsUnique
  /\ ChangesComeWithTokens
  /\ UsedTokensTookEffect

LEMMA InvInit == Init => Inv
<1> SUFFICES ASSUME Init PROVE Inv
  OBVIOUS
<1> USE DEF Init
<1>1. NoLocals \in Locals
  BY DEF NoLocals, Locals, Operations
<1>2. TypeOK
  BY <1>1 DEF TypeOK, Locations, Replies
<1>3. \A r \in Requests : Carries(r) /\ Answered(r)
  BY DEF Carries, Answered, NoLocals
<1>4. TokensOwned /\ EmailsUnique /\ ChangesComeWithTokens /\ UsedTokensTookEffect
  BY DEF TokensOwned, EmailsUnique, ChangesComeWithTokens, UsedTokensTookEffect
<1> QED
  BY <1>2, <1>3, <1>4 DEF Inv

-----------------------------------------------------------------------------
(* What a step does to the tables and to the locals of requests *)

\* Insert adds a row for the request's e-mail, which no other row holds.
LEMMA InsertFacts ==
  ASSUME Inv, NEW r \in Requests, Insert(r)
  PROVE  \E u \in UserIds \ DOMAIN users :
           /\ DOMAIN users' = DOMAIN users \cup {u}
           /\ users'[u] = NewUser(r) /\ NewUser(r) \in User
           /\ \A v \in DOMAIN users : users'[v] = users[v]
           /\ users' \in [DOMAIN users' -> User]
           /\ req' = [req EXCEPT ![r].user = u]
           /\ \A v \in DOMAIN users : users[v].email # req[r].email
<1>1. PICK u \in UserIds \ DOMAIN users :
        /\ users' = [i \in DOMAIN users \cup {u} |-> IF i = u THEN NewUser(r) ELSE users[i]]
        /\ req' = [req EXCEPT ![r].user = u]
  BY DEF Insert
<1>2. req[r].op = "register" /\ req[r].email \in Emails
  BY DEF Inv, Carries, Insert
<1>3. NewUser(r) \in User
  BY <1>2 DEF NewUser, User
<1>4. \A v \in DOMAIN users : users[v].email # req[r].email
  BY DEF Insert, Holders
<1>5. users \in [DOMAIN users -> User]
  BY DEF Inv, TypeOK
<1> QED
  BY <1>1, <1>3, <1>4, <1>5

\* Apply verifies the account of the token, or changes its password.
LEMMA ApplyFacts ==
  ASSUME Inv, NEW r \in Requests, Apply(r)
  PROVE  LET u == req[r].user
         IN /\ u \in DOMAIN users /\ Holds(r, req[r].op, u)
            /\ DOMAIN users' = DOMAIN users
            /\ users' \in [DOMAIN users -> User]
            /\ \A v \in DOMAIN users \ {u} : users'[v] = users[v]
            /\ users'[u].email = users[u].email
            /\ \/ /\ req[r].op = "verify"
                  /\ users'[u].verified /\ users'[u].password = users[u].password
               \/ /\ req[r].op = "reset"
                  /\ users'[u].password = r /\ users'[u].verified = users[u].verified
<1> DEFINE u == req[r].user
<1>1. u \in DOMAIN users /\ Holds(r, req[r].op, u) /\ req[r].op \in Kinds
  BY DEF Inv, Carries, Apply
<1>2. users \in [DOMAIN users -> User]
  BY DEF Inv, TypeOK
<1> HIDE DEF u
<1>3. CASE req[r].op = "verify"
  <2>1. users' = [users EXCEPT ![u].verified = TRUE]
    BY <1>3 DEF Apply, u
  <2> QED
    BY <1>1, <1>2, <1>3, <2>1 DEF User, u
<1>4. CASE req[r].op = "reset"
  <2>1. users' = [users EXCEPT ![u].password = r]
    BY <1>4 DEF Apply, u
  <2> QED
    BY <1>1, <1>2, <1>4, <2>1 DEF User, u
<1> QED
  BY <1>1, <1>3, <1>4 DEF Kinds

\* A token that is issued is new, fresh, and belongs to its user.
LEMMA IssueFacts ==
  ASSUME Inv, NEW kind \in Kinds, NEW u \in UserIds, Issue(kind, u)
  PROVE  \E t \in TokenIds \ DOMAIN tokens :
           /\ DOMAIN tokens' = DOMAIN tokens \cup {t}
           /\ \A i \in DOMAIN tokens : tokens'[i] = tokens[i]
           /\ tokens'[t].user = u /\ ~tokens'[t].used
           /\ tokens' \in [DOMAIN tokens' -> Token]
<1> DEFINE row == [kind |-> kind, user |-> u, used |-> FALSE, expired |-> FALSE]
<1>1. PICK t \in TokenIds \ DOMAIN tokens :
        tokens' = [i \in DOMAIN tokens \cup {t} |-> IF i = t THEN row ELSE tokens[i]]
  BY DEF Issue
<1>2. row \in Token /\ row.user = u /\ ~row.used
  BY DEF Token
<1>3. tokens \in [DOMAIN tokens -> Token]
  BY DEF Inv, TypeOK
<1> HIDE DEF row
<1> QED
  BY <1>1, <1>2, <1>3

\* A step changes users by an Insert, by an Apply, or not at all.
LEMMA UsersStep ==
  ASSUME [Next]_vars
  PROVE  UNCHANGED users \/ \E r \in Requests : Insert(r) \/ Apply(r)
  BY DEF Next, Step, vars, Register, InsertCollides, Send, RequestReset, IssueReset,
         CheckToken, MarkUsed, Reject, StatementFails, Expire, Crash

\* How a step changes tokens.
LEMMA TokensStep ==
  ASSUME [Next]_vars
  PROVE  \/ UNCHANGED tokens
         \/ \E r \in Requests :
              \/ pc[r] = "send" /\ Issue("verify", req[r].user)
              \/ pc[r] = "issue" /\ Issue("reset", req[r].user)
              \/ MarkUsed(r)
         \/ \E t \in TokenIds : Expire(t)
  BY DEF Next, Step, vars, Register, Insert, InsertCollides, Send, RequestReset,
         IssueReset, CheckToken, Apply, Reject, StatementFails, Crash

LocalsKept(s) ==
  /\ req'[s].op = req[s].op
  /\ req'[s].email = req[s].email
  /\ req'[s].token = req[s].token

\* What a request has looked up it keeps, but for the account it inserts.
LEMMA LocalsStep ==
  ASSUME Inv, [Next]_vars, NEW s \in Requests, req[s].op # "none"
  PROVE  LocalsKept(s)
<1> USE DEF LocalsKept
<1>1. pc[s] # "new" /\ req \in [Requests -> Locals] /\ req[s] \in Locals
  BY DEF Inv, Carries, TypeOK
<1>2. ASSUME NEW r \in Requests, Step(r) PROVE LocalsKept(s)
  <2>1. CASE s = r
    <3>1. \/ Insert(r)
          \/ req' = req
      BY <1>1, <1>2, <2>1
         DEF Step, Register, InsertCollides, Send, RequestReset, IssueReset,
             CheckToken, Apply, MarkUsed, Reject, StatementFails
    <3>2. CASE Insert(r)
      <4>1. PICK u \in UserIds : req' = [req EXCEPT ![r].user = u]
        BY <3>2, InsertFacts
      <4> QED
        BY <1>1, <4>1 DEF Locals
    <3> QED
      BY <3>1, <3>2
  <2>2. CASE s # r
    BY <1>1, <1>2, <2>2
       DEF Step, Register, Insert, InsertCollides, Send, RequestReset, IssueReset,
           CheckToken, Apply, MarkUsed, Reject, StatementFails
  <2> QED
    BY <2>1, <2>2
<1>3. CASE (\E t \in TokenIds : Expire(t)) \/ Crash \/ UNCHANGED vars
  BY <1>3 DEF Expire, Crash, vars
<1> QED
  BY <1>2, <1>3 DEF Next

OneFlag(t) ==
  /\ t \in DOMAIN tokens
  /\ DOMAIN tokens' = DOMAIN tokens
  /\ tokens' \in [DOMAIN tokens -> Token]
  /\ \A i \in DOMAIN tokens \ {t} : tokens'[i] = tokens[i]
  /\ tokens'[t].kind = tokens[t].kind /\ tokens'[t].user = tokens[t].user
  /\ tokens[t].used => tokens'[t].used

\* MarkUsed and Expire change one flag of one token.
LEMMA FlagFacts ==
  ASSUME Inv, NEW t,
         \/ \E r \in Requests : MarkUsed(r) /\ t = req[r].token
         \/ Expire(t)
  PROVE  OneFlag(t)
<1> USE DEF OneFlag
<1>1. tokens \in [DOMAIN tokens -> Token]
  BY DEF Inv, TypeOK
<1>2. CASE \E r \in Requests : MarkUsed(r) /\ t = req[r].token
  <2>1. PICK r \in Requests : MarkUsed(r) /\ t = req[r].token
    BY <1>2
  <2>2. t \in DOMAIN tokens
    BY <2>1 DEF MarkUsed, Inv, Carries, Holds
  <2>3. tokens' = [tokens EXCEPT ![t].used = TRUE]
    BY <2>1 DEF MarkUsed
  <2> QED
    BY <1>1, <2>2, <2>3 DEF Token
<1>3. CASE Expire(t)
  BY <1>1, <1>3 DEF Expire, Token
<1> QED
  BY <1>2, <1>3

TokensGrown ==
  /\ DOMAIN tokens' \subseteq TokenIds
  /\ tokens' \in [DOMAIN tokens' -> Token]
  /\ \A t \in DOMAIN tokens :
       /\ t \in DOMAIN tokens'
       /\ tokens'[t].kind = tokens[t].kind /\ tokens'[t].user = tokens[t].user
       /\ tokens[t].used => tokens'[t].used

\* The tokens of a step: typed, and only grown.
LEMMA TokensGrow == ASSUME Inv, [Next]_vars PROVE TokensGrown
<1> USE DEF TokensGrown
<1>1. tokens \in [DOMAIN tokens -> Token] /\ DOMAIN tokens \subseteq TokenIds
  BY DEF Inv, TypeOK
<1>2. ASSUME NEW kind \in Kinds, NEW u \in UserIds, Issue(kind, u) PROVE TokensGrown
  BY <1>1, <1>2, IssueFacts
<1>3. ASSUME NEW r \in Requests, pc[r] \in {"send", "issue"}
      PROVE  req[r].user \in UserIds
  BY <1>3 DEF Inv, Carries, TypeOK
<1>4. ASSUME NEW t, OneFlag(t) PROVE TokensGrown
  BY <1>1, <1>4 DEF OneFlag
<1>5. CASE UNCHANGED tokens
  BY <1>1, <1>5
<1>6. CASE \E r \in Requests : MarkUsed(r)
  BY <1>4, <1>6, FlagFacts
<1>7. CASE \E t \in TokenIds : Expire(t)
  BY <1>4, <1>7, FlagFacts
<1> QED
  BY <1>2, <1>3, <1>5, <1>6, <1>7, TokensStep DEF Kinds

UsersGrown ==
  /\ DOMAIN users' \subseteq UserIds
  /\ users' \in [DOMAIN users' -> User]
  /\ \A u \in DOMAIN users :
       /\ u \in DOMAIN users'
       /\ users'[u].email = users[u].email
       /\ users[u].verified => users'[u].verified

\* The users of a step: typed, and only grown.
LEMMA UsersGrow == ASSUME Inv, [Next]_vars PROVE UsersGrown
<1> USE DEF UsersGrown
<1>1. users \in [DOMAIN users -> User] /\ DOMAIN users \subseteq UserIds
  BY DEF Inv, TypeOK
<1>2. CASE UNCHANGED users
  BY <1>1, <1>2
<1>3. ASSUME NEW r \in Requests, Insert(r) PROVE UsersGrown
  BY <1>1, <1>3, InsertFacts
<1>4. ASSUME NEW r \in Requests, Apply(r) PROVE UsersGrown
  BY <1>1, <1>4, ApplyFacts
<1> QED
  BY <1>2, <1>3, <1>4, UsersStep

\* A token that is held stays held.
LEMMA HoldsKept ==
  ASSUME Inv, [Next]_vars, NEW r \in Requests, NEW kind \in Kinds, NEW u, Holds(r, kind, u)
  PROVE  Holds(r, kind, u)'
<1>1. req[r].op # "none"
  BY DEF Holds, Kinds
<1>2. req'[r].op = req[r].op /\ req'[r].token = req[r].token
  BY <1>1, LocalsStep DEF LocalsKept
<1> QED
  BY <1>2, TokensGrow DEF TokensGrown, Holds

\* What a token did to an account stays done.
LEMMA EffectKept ==
  ASSUME Inv, [Next]_vars, NEW kind \in Kinds, NEW u \in DOMAIN users, Effect(kind, u)
  PROVE  Effect(kind, u)'
<1>1. CASE kind = "verify"
  BY <1>1, UsersGrow DEF UsersGrown, Effect
<1>2. CASE kind = "reset"
  <2>1. Holds(users[u].password, "reset", u)
    BY <1>2 DEF Effect
  <2>2. users[u].password \in Requests
    BY DEF Inv, TypeOK, User
  <2>3. CASE users'[u].password = users[u].password
    BY <1>2, <2>1, <2>2, <2>3, HoldsKept DEF Effect, Kinds, Holds
  <2>4. CASE users'[u].password # users[u].password
    <3>1. PICK r \in Requests : Apply(r)
      BY <2>4, UsersStep, InsertFacts
    <3>2. users'[u].password = r /\ Holds(r, "reset", u)
      BY <2>4, <3>1, ApplyFacts
    <3> QED
      BY <1>2, <3>2, HoldsKept DEF Effect, Kinds, Holds
  <2> QED
    BY <2>3, <2>4
<1> QED
  BY <1>1, <1>2 DEF Kinds

-----------------------------------------------------------------------------
(* The inductive invariant is kept *)

LEMMA TypeStep == Inv /\ [Next]_vars => TypeOK'
<1> SUFFICES ASSUME Inv, [Next]_vars
             PROVE  /\ pc' \in [Requests -> Locations]
                    /\ req' \in [Requests -> Locals]
                    /\ reply' \in [Requests -> Replies]
  BY TokensGrow, UsersGrow DEF TokensGrown, UsersGrown, TypeOK
<1>1. /\ pc \in [Requests -> Locations] /\ req \in [Requests -> Locals]
      /\ reply \in [Requests -> Replies]
  BY DEF Inv, TypeOK
<1>2. ASSUME NEW r \in Requests, Step(r)
      PROVE  pc' \in [Requests -> Locations] /\ reply' \in [Requests -> Replies]
  BY <1>1, <1>2
     DEF Step, Register, Insert, InsertCollides, Send, RequestReset, IssueReset,
         CheckToken, Apply, MarkUsed, Reject, StatementFails, Goto, Respond,
         Continue, Conclude, Locations, Replies
<1>3. ASSUME NEW r \in Requests, Step(r) PROVE req' \in [Requests -> Locals]
  <2>1. CASE Register(r)
    <3>1. PICK email \in Emails :
            req' = [req EXCEPT ![r] = [@ EXCEPT !.op = "register", !.email = email]]
      BY <2>1 DEF Register
    <3> QED
      BY <1>1, <3>1 DEF Locals, Operations
  <2>2. CASE Insert(r)
    <3>1. PICK u \in UserIds : req' = [req EXCEPT ![r].user = u]
      BY <2>2 DEF Insert
    <3> QED
      BY <1>1, <3>1 DEF Locals
  <2>3. CASE RequestReset(r)
    <3>1. PICK email \in Emails :
            \/ req' = [req EXCEPT ![r] = [@ EXCEPT !.op = "forgot", !.email = email]]
            \/ \E u \in UserIds :
                 req' = [req EXCEPT ![r] =
                           [@ EXCEPT !.op = "forgot", !.email = email, !.user = u]]
      BY <2>3 DEF RequestReset, Holders, Inv, TypeOK
    <3>2. req[r] \in Locals
      BY <1>1
    <3>3. [req[r] EXCEPT !.op = "forgot", !.email = email] \in Locals
      BY <3>2 DEF Locals, Operations
    <3>4. \A u \in UserIds :
            [req[r] EXCEPT !.op = "forgot", !.email = email, !.user = u] \in Locals
      BY <3>2 DEF Locals, Operations
    <3> QED
      BY <1>1, <3>1, <3>3, <3>4
  <2>4. CASE CheckToken(r)
    <3>1. PICK kind \in Kinds, t \in TokenIds :
            \/ /\ Usable(t, kind)
               /\ req' = [req EXCEPT ![r] =
                            [@ EXCEPT !.op = kind, !.token = t, !.user = tokens[t].user]]
            \/ req' = [req EXCEPT ![r].op = kind]
      BY <2>4 DEF CheckToken
    <3>2. Usable(t, kind) => tokens[t].user \in UserIds
      BY DEF Usable, Inv, TypeOK, Token
    <3>3. req[r] \in Locals
      BY <1>1
    <3>4. [req[r] EXCEPT !.op = kind] \in Locals
      BY <3>3 DEF Locals, Operations
    <3>5. \A u \in UserIds :
            [req[r] EXCEPT !.op = kind, !.token = t, !.user = u] \in Locals
      BY <3>3 DEF Locals, Operations
    <3> QED
      BY <1>1, <3>1, <3>2, <3>4, <3>5
  <2>5. CASE UNCHANGED req
    BY <1>1, <2>5
  <2> QED
    BY <1>3, <2>1, <2>2, <2>3, <2>4, <2>5
       DEF Step, InsertCollides, Send, IssueReset, Apply, MarkUsed, Reject, StatementFails
<1>4. CASE (\E t \in TokenIds : Expire(t)) \/ Crash \/ UNCHANGED vars
  BY <1>1, <1>4 DEF Expire, Crash, vars, Locations, Replies
<1> QED
  BY <1>2, <1>3, <1>4 DEF Next

LEMMA OwnedStep == Inv /\ [Next]_vars => TokensOwned'
<1> SUFFICES ASSUME Inv, [Next]_vars, NEW t \in DOMAIN tokens'
             PROVE  tokens'[t].user \in DOMAIN users'
  BY DEF TokensOwned
<1>1. CASE t \in DOMAIN tokens
  BY <1>1, TokensGrow, UsersGrow DEF TokensGrown, UsersGrown, Inv, TokensOwned
<1>2. CASE t \notin DOMAIN tokens
  <2>1. PICK r \in Requests, kind \in Kinds :
          pc[r] \in {"send", "issue"} /\ Issue(kind, req[r].user)
    BY <1>2, TokensStep, FlagFacts DEF OneFlag, Kinds
  <2>2. req[r].user \in DOMAIN users /\ req[r].user \in UserIds
    BY <2>1 DEF Inv, Carries, TypeOK
  <2>3. tokens'[t].user = req[r].user
    BY <1>2, <2>1, <2>2, IssueFacts
  <2> QED
    BY <2>2, <2>3, UsersGrow DEF UsersGrown
<1> QED
  BY <1>1, <1>2

LEMMA EmailsStep == Inv /\ [Next]_vars => EmailsUnique'
<1> SUFFICES ASSUME Inv, [Next]_vars PROVE EmailsUnique'
  OBVIOUS
<1>1. EmailsUnique
  BY DEF Inv
<1>2. CASE UNCHANGED users
  BY <1>1, <1>2 DEF EmailsUnique
<1>3. ASSUME NEW r \in Requests, Insert(r) PROVE EmailsUnique'
  <2>1. PICK u \in UserIds \ DOMAIN users :
          /\ DOMAIN users' = DOMAIN users \cup {u}
          /\ users'[u] = NewUser(r)
          /\ \A v \in DOMAIN users : users'[v] = users[v] /\ users[v].email # req[r].email
    BY <1>3, InsertFacts
  <2>2. users'[u].email = req[r].email
    BY <2>1 DEF NewUser
  <2> QED
    BY <1>1, <2>1, <2>2 DEF EmailsUnique
<1>4. ASSUME NEW r \in Requests, Apply(r) PROVE EmailsUnique'
  <2>1. DOMAIN users' = DOMAIN users
    BY <1>4, ApplyFacts
  <2> QED
    BY <1>1, <2>1, UsersGrow DEF UsersGrown, EmailsUnique
<1> QED
  BY <1>2, <1>3, <1>4, UsersStep

\* Where the password and the verification of one account come from.
Authorised(u) ==
  /\ \/ Holds(users[u].password, "reset", u)
     \/ /\ req[users[u].password].op = "register"
        /\ req[users[u].password].email = users[u].email
  /\ users[u].verified => \E r \in Requests : Holds(r, "verify", u)

LEMMA ChangesStep == Inv /\ [Next]_vars => ChangesComeWithTokens'
<1> SUFFICES ASSUME Inv, [Next]_vars, NEW u \in DOMAIN users' PROVE Authorised(u)'
  BY DEF ChangesComeWithTokens, Authorised
<1>1. ASSUME u \in DOMAIN users, users'[u].password = users[u].password
      PROVE  \/ Holds(users[u].password, "reset", u)'
             \/ /\ req[users[u].password].op = "register"
                /\ req[users[u].password].email = users[u].email
                /\ LocalsKept(users[u].password)
                /\ users'[u].email = users[u].email
  <2>1. users[u].password \in Requests /\ Authorised(u)
    BY <1>1 DEF Inv, TypeOK, User, ChangesComeWithTokens, Authorised
  <2>2. CASE Holds(users[u].password, "reset", u)
    BY <1>1, <2>1, <2>2, HoldsKept DEF Kinds, Holds
  <2>3. CASE req[users[u].password].op = "register" /\ ~Holds(users[u].password, "reset", u)
    BY <1>1, <2>1, <2>3, LocalsStep, UsersGrow DEF UsersGrown, Authorised
  <2> QED
    BY <2>1, <2>2, <2>3 DEF Authorised
<1>2. ASSUME u \in DOMAIN users, users[u].verified
      PROVE  \E r \in Requests : Holds(r, "verify", u)'
  BY <1>2, HoldsKept DEF Inv, ChangesComeWithTokens, Kinds
<1>3. CASE u \in DOMAIN users /\ users'[u] = users[u]
  BY <1>1, <1>2, <1>3 DEF Authorised, LocalsKept
<1>4. CASE u \in DOMAIN users /\ users'[u] # users[u]
  <2>1. PICK r \in Requests : Apply(r)
    BY <1>4, UsersStep, InsertFacts
  <2>2. /\ Holds(r, req[r].op, u)
        /\ \/ /\ req[r].op = "verify"
              /\ users'[u].verified /\ users'[u].password = users[u].password
           \/ /\ req[r].op = "reset"
              /\ users'[u].password = r /\ users'[u].verified = users[u].verified
    BY <1>4, <2>1, ApplyFacts
  <2>3. CASE req[r].op = "verify"
    <3>1. Holds(r, "verify", u)'
      BY <2>2, <2>3, HoldsKept DEF Kinds
    <3> QED
      BY <1>1, <1>4, <2>2, <2>3, <3>1 DEF Authorised, LocalsKept
  <2>4. CASE req[r].op = "reset"
    <3>1. Holds(r, "reset", u)'
      BY <2>2, <2>4, HoldsKept DEF Kinds
    <3> QED
      BY <1>2, <1>4, <2>2, <2>4, <3>1 DEF Authorised, Holds
  <2> QED
    BY <2>2, <2>3, <2>4
<1>5. CASE u \notin DOMAIN users
  <2>1. PICK r \in Requests : Insert(r)
    BY <1>5, UsersStep, ApplyFacts
  <2>2. users'[u] = NewUser(r)
    BY <1>5, <2>1, InsertFacts
  <2>3. req[r].op = "register" /\ LocalsKept(r)
    BY <2>1, LocalsStep DEF Insert, Inv, Carries
  <2> QED
    BY <2>2, <2>3 DEF NewUser, Authorised, LocalsKept
<1> QED
  BY <1>3, <1>4, <1>5

LEMMA UsedStep == Inv /\ [Next]_vars => UsedTokensTookEffect'
<1> SUFFICES ASSUME Inv, [Next]_vars, NEW t \in DOMAIN tokens', tokens'[t].used
             PROVE  Effect(tokens[t].kind, tokens[t].user)' 
  BY DEF UsedTokensTookEffect, Effect
<1>1. t \in DOMAIN tokens
  <2>1. ASSUME t \notin DOMAIN tokens PROVE FALSE
    <3>1. PICK r \in Requests, kind \in Kinds :
            pc[r] \in {"send", "issue"} /\ Issue(kind, req[r].user)
      BY <2>1, TokensStep, FlagFacts DEF OneFlag, Kinds
    <3>2. req[r].user \in UserIds
      BY <3>1 DEF Inv, Carries, TypeOK
    <3> QED
      BY <2>1, <3>1, <3>2, IssueFacts
  <2> QED
    BY <2>1
<1>2. /\ tokens[t].kind \in Kinds /\ tokens[t].user \in DOMAIN users
      /\ tokens'[t].kind = tokens[t].kind /\ tokens'[t].user = tokens[t].user
  BY <1>1, TokensGrow DEF TokensGrown, Inv, TypeOK, Token, TokensOwned
<1>3. Effect(tokens[t].kind, tokens[t].user)
  <2>1. CASE tokens[t].used
    BY <1>1, <2>1 DEF Inv, UsedTokensTookEffect, Effect
  <2>2. CASE ~tokens[t].used
    <3>1. PICK r \in Requests : MarkUsed(r) /\ t = req[r].token
      <4>1. ASSUME NEW i \in TokenIds, Expire(i) PROVE FALSE
        BY <1>1, <2>2, <4>1 DEF Expire, Inv, TypeOK, Token
      <4>2. ASSUME NEW r \in Requests, NEW kind \in Kinds,
                   pc[r] \in {"send", "issue"}, Issue(kind, req[r].user)
            PROVE  FALSE
        <5>1. req[r].user \in UserIds
          BY <4>2 DEF Inv, Carries, TypeOK
        <5> QED
          BY <1>1, <2>2, <4>2, <5>1, IssueFacts
      <4>3. PICK r \in Requests : MarkUsed(r)
        BY <2>2, <4>1, <4>2, TokensStep DEF Kinds
      <4>4. t = req[r].token
        BY <1>1, <2>2, <4>3, FlagFacts DEF OneFlag
      <4> QED
        BY <4>3, <4>4
    <3> QED
      BY <3>1 DEF MarkUsed, Inv, Carries, Holds
  <2> QED
    BY <2>1, <2>2
<1> QED
  BY <1>2, <1>3, EffectKept DEF Effect

Kept(s) == Carries(s) /\ Answered(s)

\* A request that does not move keeps what it carries, whatever the others do.
LEMMA IdleKept ==
  ASSUME Inv, [Next]_vars, NEW s \in Requests,
         pc'[s] = pc[s], req'[s] = req[s], reply'[s] = reply[s]
  PROVE  Kept(s)'
<1>1. Carries(s) /\ Answered(s)
  BY DEF Inv
<1>2. ASSUME NEW kind \in Kinds, NEW u, Holds(s, kind, u) PROVE Holds(s, kind, u)'
  BY <1>2, HoldsKept
<1>3. ASSUME NEW kind \in Kinds, NEW u \in DOMAIN users, Effect(kind, u) PROVE Effect(kind, u)'
  BY <1>3, EffectKept
<1>4. Carries(s)'
  <2>1. pc[s] \in {"apply", "mark"} =>
          /\ req'[s].op \in Kinds /\ req'[s].user \in DOMAIN users'
          /\ Holds(s, req[s].op, req[s].user)'
    BY <1>1, <1>2, UsersGrow DEF UsersGrown, Carries
  <2>2. pc[s] = "mark" => Effect(req[s].op, req[s].user)'
    BY <1>1, <1>3 DEF Carries
  <2> QED
    BY <1>1, <2>1, <2>2, UsersGrow DEF UsersGrown, Carries, Effect, Holds
<1>5. Answered(s)'
  <2>1. reply[s] = "ok" /\ req[s].op \in Kinds =>
          Holds(s, req[s].op, req[s].user)' /\ tokens'[req[s].token].used
    BY <1>1, <1>2, TokensGrow DEF TokensGrown, Answered, Holds
  <2> QED
    BY <1>1, <2>1, UsersGrow DEF UsersGrown, Answered, Holds
<1> QED
  BY <1>4, <1>5 DEF Kept

\* Answers other than "ok" promise nothing, and a request that has answered
\* carries nothing.
LEMMA RefusedKept ==
  ASSUME Inv, NEW r \in Requests, NEW answer, answer # "ok", Respond(r, answer)
  PROVE  Kept(r)'
<1>1. pc'[r] = "done" /\ reply'[r] = answer
  BY DEF Inv, TypeOK, Respond, Goto
<1> QED
  BY <1>1 DEF Kept, Carries, Answered

\* Until it is answered, a request is promised nothing.
LEMMA NotYetAnswered ==
  ASSUME Inv, NEW r \in Requests, pc[r] # "done" PROVE reply[r] # "ok"
  BY DEF Inv, Answered

LEMMA RegisterKept ==
  ASSUME Inv, [Next]_vars, NEW r \in Requests, Register(r) \/ Insert(r) \/ Send(r)
  PROVE  Kept(r)'
<1>1. pc \in [Requests -> Locations] /\ req \in [Requests -> Locals]
      /\ reply \in [Requests -> Replies] /\ reply[r] # "ok" /\ Carries(r)
  BY NotYetAnswered DEF Inv, TypeOK, Register, Insert, Send
<1>2. CASE Register(r)
  <2>1. PICK email \in Emails :
          /\ req' = [req EXCEPT ![r] = [@ EXCEPT !.op = "register", !.email = email]]
          /\ \/ Goto(r, "insert") /\ UNCHANGED reply
             \/ Respond(r, "conflict")
    BY <1>2 DEF Register
  <2>2. req'[r].op = "register" /\ req'[r].email = email
    BY <1>1, <2>1 DEF Locals
  <2> QED
    BY <1>1, <2>1, <2>2, RefusedKept DEF Kept, Carries, Answered, Goto
<1>3. CASE Insert(r)
  <2>1. PICK u \in UserIds \ DOMAIN users :
          /\ req' = [req EXCEPT ![r].user = u]
          /\ DOMAIN users' = DOMAIN users \cup {u} /\ users'[u] = NewUser(r)
    BY <1>3, InsertFacts
  <2>2. /\ req'[r].op = "register" /\ req'[r].user = u /\ req'[r].email = req[r].email
        /\ users'[u].email = req[r].email /\ u \in DOMAIN users'
    BY <1>1, <1>3, <2>1 DEF Locals, NewUser, Carries, Insert
  <2>3. (Goto(r, "send") /\ UNCHANGED reply) \/ Respond(r, "internal")
    BY <1>3 DEF Insert, Continue
  <2> QED
    BY <1>1, <2>2, <2>3, RefusedKept DEF Kept, Carries, Answered, Goto
<1>4. CASE Send(r)
  <2>1. UNCHANGED <<users, req>> /\ pc'[r] = "done"
    BY <1>1, <1>4 DEF Send, Respond, Goto
  <2>2. /\ req[r].op = "register" /\ req[r].user \in DOMAIN users
        /\ users[req[r].user].email = req[r].email
    BY <1>1, <1>4 DEF Send, Carries
  <2> QED
    BY <2>1, <2>2 DEF Kept, Carries, Answered, Kinds
<1> QED
  BY <1>2, <1>3, <1>4

LEMMA ForgotKept ==
  ASSUME Inv, [Next]_vars, NEW r \in Requests, RequestReset(r) \/ IssueReset(r)
  PROVE  Kept(r)'
<1>1. pc \in [Requests -> Locations] /\ req \in [Requests -> Locals]
      /\ reply \in [Requests -> Replies] /\ reply[r] # "ok" /\ Carries(r)
  BY NotYetAnswered DEF Inv, TypeOK, RequestReset, IssueReset
<1>2. CASE RequestReset(r)
  <2>1. PICK email \in Emails :
          \/ \E u \in DOMAIN users :
               /\ req' = [req EXCEPT ![r] =
                            [@ EXCEPT !.op = "forgot", !.email = email, !.user = u]]
               /\ Goto(r, "issue")
               /\ UNCHANGED reply
          \/ /\ req' = [req EXCEPT ![r] = [@ EXCEPT !.op = "forgot", !.email = email]]
             /\ Respond(r, "ok")
    BY <1>2 DEF RequestReset, Holders
  <2>2. req'[r].op = "forgot" /\ (pc'[r] = "issue" => req'[r].user \in DOMAIN users)
    <3>1. ASSUME NEW u \in DOMAIN users,
                 req' = [req EXCEPT ![r] =
                           [@ EXCEPT !.op = "forgot", !.email = email, !.user = u]]
          PROVE  req'[r].op = "forgot" /\ req'[r].user = u
      BY <1>1, <3>1 DEF Locals
    <3>2. ASSUME req' = [req EXCEPT ![r] = [@ EXCEPT !.op = "forgot", !.email = email]],
                 Respond(r, "ok")
          PROVE  req'[r].op = "forgot" /\ pc'[r] = "done"
      BY <1>1, <3>2 DEF Locals, Respond, Goto
    <3> QED
      BY <2>1, <3>1, <3>2
  <2>3. UNCHANGED users /\ pc'[r] \in {"issue", "done"} /\ (reply'[r] = "ok" => pc'[r] = "done")
    BY <1>1, <1>2, <2>1 DEF RequestReset, Respond, Goto
  <2> QED
    BY <2>2, <2>3 DEF Kept, Carries, Answered, Kinds
<1>3. CASE IssueReset(r)
  <2>1. req'[r].op = "forgot" /\ pc'[r] = "done"
    BY <1>1, <1>3 DEF IssueReset, Conclude, Respond, Goto, Carries
  <2> QED
    BY <2>1 DEF Kept, Carries, Answered, Kinds
<1> QED
  BY <1>2, <1>3

LEMMA RedeemKept ==
  ASSUME Inv, [Next]_vars, NEW r \in Requests, CheckToken(r) \/ Apply(r) \/ MarkUsed(r)
  PROVE  Kept(r)'
<1>1. pc \in [Requests -> Locations] /\ req \in [Requests -> Locals]
      /\ reply \in [Requests -> Replies] /\ reply[r] # "ok" /\ Carries(r)
  BY NotYetAnswered DEF Inv, TypeOK, CheckToken, Apply, MarkUsed
<1>2. CASE CheckToken(r)
  <2>1. PICK kind \in Kinds, t \in TokenIds :
          \/ /\ Usable(t, kind)
             /\ req' = [req EXCEPT ![r] =
                          [@ EXCEPT !.op = kind, !.token = t, !.user = tokens[t].user]]
             /\ Goto(r, "apply")
             /\ UNCHANGED reply
          \/ Respond(r, "bad_token")
    BY <1>2 DEF CheckToken
  <2>2. CASE Respond(r, "bad_token")
    BY <2>2, RefusedKept
  <2>3. CASE ~Respond(r, "bad_token")
    <3>1. req'[r].op = kind /\ req'[r].token = t /\ req'[r].user = tokens[t].user
      BY <1>1, <2>1, <2>3 DEF Locals
    <3>2. UNCHANGED <<users, tokens>> /\ pc'[r] = "apply" /\ reply'[r] # "ok"
      BY <1>1, <1>2, <2>1, <2>3 DEF CheckToken, Goto
    <3>3. t \in DOMAIN tokens /\ tokens[t].kind = kind /\ tokens[t].user \in DOMAIN users
      BY <2>1, <2>3 DEF Usable, Inv, TokensOwned
    <3>4. Holds(r, kind, tokens[t].user)'
      BY <3>1, <3>2, <3>3 DEF Holds
    <3> QED
      BY <3>1, <3>2, <3>3, <3>4 DEF Kept, Carries, Answered, Holds
  <2> QED
    BY <2>2, <2>3
<1>3. CASE Apply(r)
  <2> DEFINE op == req[r].op
             u == req[r].user
  <2>1. op \in Kinds /\ u \in DOMAIN users /\ Holds(r, op, u) /\ Holds(r, op, u)'
    BY <1>1, <1>3, HoldsKept DEF Apply, Carries
  <2>2. UNCHANGED req /\ u \in DOMAIN users'
    BY <1>3, <2>1, UsersGrow DEF UsersGrown, Apply
  <2>3. Effect(op, u)'
    <3>1. CASE op = "verify"
      BY <1>3, <2>2, <3>1, ApplyFacts DEF Effect
    <3>2. CASE op = "reset"
      <4>1. users'[u].password = r
        BY <1>3, <3>2, ApplyFacts
      <4> QED
        BY <2>1, <2>2, <3>2, <4>1 DEF Effect
    <3> QED
      BY <2>1, <3>1, <3>2 DEF Kinds
  <2>4. (Goto(r, "mark") /\ UNCHANGED reply) \/ Respond(r, "internal")
    BY <1>3 DEF Apply, Continue
  <2>5. CASE Goto(r, "mark") /\ UNCHANGED reply
    <3>1. pc'[r] = "mark" /\ reply'[r] # "ok"
      BY <1>1, <2>5 DEF Goto
    <3> QED
      BY <2>1, <2>2, <2>3, <3>1 DEF Kept, Carries, Answered, Holds, Effect
  <2> QED
    BY <2>4, <2>5, RefusedKept
<1>4. CASE MarkUsed(r)
  <2> DEFINE t == req[r].token
  <2>1. /\ req[r].op \in Kinds /\ Holds(r, req[r].op, req[r].user)
        /\ Holds(r, req[r].op, req[r].user)'
    BY <1>1, <1>4, HoldsKept DEF MarkUsed, Carries
  <2>2. tokens'[t].used
    BY <1>4, <2>1 DEF MarkUsed, Holds, Inv, TypeOK, Token
  <2>3. UNCHANGED req /\ pc'[r] = "done"
    BY <1>1, <1>4 DEF MarkUsed, Conclude, Respond, Goto
  <2> QED
    BY <2>1, <2>2, <2>3 DEF Kept, Carries, Answered, Holds, Kinds
<1> QED
  BY <1>2, <1>3, <1>4

LEMMA RequestsStep == Inv /\ [Next]_vars => \A s \in Requests : Kept(s)'
<1> SUFFICES ASSUME Inv, [Next]_vars, NEW s \in Requests PROVE Kept(s)'
  OBVIOUS
<1>1. pc \in [Requests -> Locations] /\ req \in [Requests -> Locals]
      /\ reply \in [Requests -> Replies]
  BY DEF Inv, TypeOK
<1>2. CASE Step(s)
  <2>1. CASE InsertCollides(s) \/ Reject(s) \/ StatementFails(s)
    BY <2>1, RefusedKept DEF InsertCollides, Reject, StatementFails
  <2> QED
    BY <1>2, <2>1, RegisterKept, ForgotKept, RedeemKept DEF Step
<1>3. ASSUME NEW r \in Requests, r # s, Step(r) PROVE Kept(s)'
  <2>1. pc'[s] = pc[s] /\ req'[s] = req[s] /\ reply'[s] = reply[s]
    BY <1>1, <1>3
       DEF Step, Register, Insert, InsertCollides, Send, RequestReset, IssueReset,
           CheckToken, Apply, MarkUsed, Reject, StatementFails, Goto, Respond,
           Continue, Conclude
  <2> QED
    BY <2>1, IdleKept
<1>4. CASE Crash
  <2>1. CASE pc[s] \in {"new", "done"}
    <3>1. pc'[s] = pc[s] /\ req'[s] = req[s] /\ reply'[s] = reply[s]
      BY <1>4, <2>1 DEF Crash
    <3> QED
      BY <3>1, IdleKept
  <2>2. CASE pc[s] \notin {"new", "done"}
    <3>1. pc'[s] = "done" /\ reply'[s] = "lost"
      BY <1>4, <2>2 DEF Crash
    <3> QED
      BY <3>1 DEF Kept, Carries, Answered
  <2> QED
    BY <2>1, <2>2
<1>5. CASE (\E t \in TokenIds : Expire(t)) \/ UNCHANGED vars
  BY <1>5, IdleKept DEF Expire, vars
<1> QED
  BY <1>2, <1>3, <1>4, <1>5 DEF Next

LEMMA InvStep == Inv /\ [Next]_vars => Inv'
<1> SUFFICES ASSUME Inv, [Next]_vars PROVE Inv'
  OBVIOUS
<1>1. \A r \in Requests : Carries(r)' /\ Answered(r)'
  BY RequestsStep DEF Kept
<1> QED
  BY <1>1, TypeStep, OwnedStep, EmailsStep, ChangesStep, UsedStep DEF Inv

LEMMA Invariance == Spec => []Inv
  BY InvInit, InvStep, PTL DEF Spec

-----------------------------------------------------------------------------
(* Theorems *)

\* Type correctness of the tables, the locals and the answers.
THEOREM AccountsTypeCorrect == Spec => []TypeOK
<1>1. Inv => TypeOK
  BY DEF Inv
<1> QED
  BY <1>1, Invariance, PTL

\* Registrations that overlap between look-up and insert never give two
\* accounts one e-mail (auth_service.go:40-56).
THEOREM EmailsStayUnique == Spec => []EmailsUnique
<1>1. Inv => EmailsUnique
  BY DEF Inv
<1> QED
  BY <1>1, Invariance, PTL

\* Passwords and verifications come from the account's own registration and
\* tokens (password_reset_service.go:60-85, verification_service.go:49-69).
THEOREM ChangesAuthorised == Spec => []ChangesComeWithTokens
<1>1. Inv => ChangesComeWithTokens
  BY DEF Inv
<1> QED
  BY <1>1, Invariance, PTL

\* A token marked used had its effect, wherever a failure or crash came
\* (password_reset_service.go:78-84, verification_service.go:62-68).
THEOREM UsedTokensHadEffect == Spec => []UsedTokensTookEffect
<1>1. Inv => UsedTokensTookEffect
  BY DEF Inv
<1> QED
  BY <1>1, Invariance, PTL

\* Answered successes are in the tables and stay there.
THEOREM AccountAnswersHold == Spec => []AnswersHold
<1>1. Inv => AnswersHold
  BY DEF Inv, Answered, AnswersHold
<1> QED
  BY <1>1, Invariance, PTL

\* Accounts stay, verified accounts stay verified, used tokens stay used.
THEOREM AccountsOnlyGrow == Spec => RowsOnlyGrow
<1>1. Inv /\ [Next]_vars => [Grow]_<<users, tokens>>
  BY UsersGrow, TokensGrow DEF UsersGrown, TokensGrown, Grow
<1> QED
  BY <1>1, Invariance, PTL DEF Spec, RowsOnlyGrow

=============================================================================
