---------------------------- MODULE Authentication ----------------------------
(***************************************************************************)
(* POST /auth/login, POST /auth/logout and the JWT middleware              *)
(* (internal/auth, internal/middleware/jwt.go), beside other requests that *)
(* change the users at any moment.                                         *)
(*                                                                         *)
(* What those requests do to the tables is UserDirectory, which the        *)
(* handlers of UserRequests implement.  Each client has one request under  *)
(* way and holds the token it was given last.  Time is counted in ticks,   *)
(* Second ticks to a second, because a token counts whole seconds.         *)
(***************************************************************************)
EXTENDS Identity

CONSTANTS
  SeedRows, SeedRoles,  \* the directory the process is started on
  Passwords,            \* passwords as bcrypt tells them apart
  Secret,               \* the password a user's hash was made from
  Clients,              \* clients with a request under way at the same time
  Logins,               \* the bodies of login requests clients send
  Second,               \* ticks in a second
  TTL,                  \* JWT_TTL, in ticks
  Profiles,             \* bound: the rows other requests write
  MaxTime,              \* bound: ticks in a behaviour
  MaxChanges,           \* bound: changes of the directory
  MaxFaults             \* bound: failures and crashes

ASSUME DirectoryAssumption ==
  /\ SeedRows \in [UserIds -> Row]
  /\ SeedRoles \in [UserIds -> SUBSET Roles]
  /\ \A u, v \in UserIds :
       u # v /\ SeedRows[u].status = "live" /\ SeedRows[v].status = "live"
         => Lower[SeedRows[u].email] # Lower[SeedRows[v].email]

\* valid_till is a time; a hash is made from a password.
ASSUME LoginAssumption ==
  /\ Dates \subseteq Nat /\ NoDate \notin Nat
  /\ Blank \notin Passwords /\ Secret \in [UserIds -> Passwords]
  /\ Logins \subseteq [op : {"login"}, email : Emails \cup {Blank},
                       password : Passwords \cup {Blank}]

\* NewTokenManager refuses a TTL that is not positive.
ASSUME ClockAssumption == Second \in Nat \ {0} /\ TTL \in Nat \ {0} /\ MaxTime \in Nat
ASSUME BoundAssumption == MaxChanges \in Nat /\ MaxFaults \in Nat

VARIABLES
  rows, creds, active,  \* the identity tables
  lastLogin,  \* user_credentials.last_login_on
  now,        \* the time
  pc,         \* the next step of each client's request
  req,        \* the request
  seen,       \* the account GetLoginDetails returned
  signed,     \* the token that is to be answered
  outcome,    \* the error or "ok" that is answered
  held,       \* the token the client has
  since,      \* history: when the login arrived
  witnessed,  \* history: the accounts there have been since then
  earned,     \* history: the times a user had a token signed and not yet answered
  changes,    \* history: changes of the directory so far
  faults      \* history: failures so far

tables == <<rows, creds, active>>
history == <<since, witnessed, changes, faults>>
session == <<pc, req, seen, signed, outcome, held>>
vars == <<tables, lastLogin, now, session, history, earned>>

Dir == INSTANCE UserDirectory

-----------------------------------------------------------------------------
(* Accounts, tokens and what is wrong with them.                           *)

NoToken == [user |-> Blank]
NoAccount == [user |-> Blank]
NoRequest == [op |-> "none"]

\* Mistake: the procedure lacks is_deleted = FALSE.
MatchingAny(email) ==
  {u \in creds : Dir!Exists(u) /\ Lower[rows[u].email] = Lower[email]}

\* The users the query of sp_get_login_details finds, in one snapshot.
Matching(email) ==
  {u \in creds : Dir!Live(u) /\ Lower[rows[u].email] = Lower[email]}

\* It returns a row for each role of each of them; assembleProfile takes the user
\* from the first row and the roles from all of them.
Profile(first, found) ==
  [user |-> first, row |-> rows[first], roles |-> UNION {active[u] : u \in found}]

\* A user with the roles it has, in some tables.
Account(u, table, roles) == [user |-> u, row |-> table[u], roles |-> roles[u]]
Accounts(table, roles) == {Account(u, table, roles) : u \in UserIds}

AccountError(row) ==
  CASE ~row.active -> "accountInactive"
    [] row.active /\ ~row.approved -> "accountNotApproved"
    [] row.active /\ row.approved /\ row.validTill # NoDate /\ row.validTill < now ->
         "accountExpired"
    [] OTHER -> "none"

\* jwt.NewNumericDate cuts off the fraction of a second.
NumericDate(t) == t - (t % Second)

\* What the login response calls expires_in, an integer of seconds.
ExpiresIn == TTL - (TTL % Second)

Leeway == 5 * Second

\* The token of an account.  "at" is history: the time with its fraction.
Token(account) ==
  [user |-> account.user, org |-> account.row.org,
   roles |-> {RoleCode[r] : r \in account.roles},
   nbf |-> NumericDate(now), exp |-> NumericDate(now + TTL), at |-> now]

\* Mistake: no leeway.
ExactTokenError(kind, token) ==
  CASE kind = "none" -> "missingToken"
    [] kind = "other" -> "invalidToken"
    [] kind = "held" -> IF now < token.exp /\ now >= token.nbf THEN "none" ELSE "invalidToken"

\* ParseBearer and ParseAccessToken, of a request without a token, with
\* something else, or with a token of this service.
TokenError(kind, token) ==
  CASE kind = "none" -> "missingToken"
    [] kind = "other" -> "invalidToken"
    [] kind = "held" -> IF now < token.exp + Leeway /\ now + Leeway >= token.nbf
                        THEN "none" ELSE "invalidToken"

-----------------------------------------------------------------------------
(* Progress of a request.                                                  *)

Busy(c) == pc[c] \notin {"idle", "answered"}
LoggingIn(c) == req[c].op = "login"

Goto(c, label) == pc' = [pc EXCEPT ![c] = label] /\ UNCHANGED outcome
Answer(c, result) ==
  /\ pc' = [pc EXCEPT ![c] = "answered"]
  /\ outcome' = [outcome EXCEPT ![c] = result]
Unless(c, error, label) == IF error = "none" THEN Goto(c, label) ELSE Answer(c, error)

Init ==
  /\ Dir!Init
  /\ lastLogin = [u \in UserIds |-> NoDate]
  /\ now = 0
  /\ pc = [c \in Clients |-> "idle"]
  /\ req = [c \in Clients |-> NoRequest]
  /\ seen = [c \in Clients |-> NoAccount]
  /\ signed = [c \in Clients |-> NoToken]
  /\ outcome = [c \in Clients |-> "none"]
  /\ held = [c \in Clients |-> NoToken]
  /\ since = [c \in Clients |-> 0]
  /\ witnessed = [c \in Clients |-> {}]
  /\ earned = [u \in UserIds |-> {}]
  /\ changes = 0
  /\ faults = 0

-----------------------------------------------------------------------------
(* Login.                                                                  *)

\* The handler refuses an address or a password that is missing.
Login(c, q) ==
  /\ pc[c] = "idle"
  /\ req' = [req EXCEPT ![c] = q]
  /\ since' = [since EXCEPT ![c] = now]
  /\ witnessed' = [witnessed EXCEPT ![c] = Accounts(rows, active)]
  /\ IF Blank \in {q.email, q.password} THEN Answer(c, "invalidInput") ELSE Goto(c, "lookup")
  /\ UNCHANGED <<tables, lastLogin, now, seen, signed, held, earned, changes, faults>>

\* GetLoginDetails, and what the service makes of its rows.
Lookup(c) ==
  LET found == Matching(req[c].email) IN
  /\ pc[c] = "lookup"
  /\ IF found = {} THEN Answer(c, "invalidCredentials") /\ UNCHANGED seen
     ELSE /\ Goto(c, "verify")
          /\ \E u \in found : seen' = [seen EXCEPT ![c] = Profile(u, found)]
  /\ UNCHANGED <<tables, lastLogin, now, req, signed, held, history, earned>>

\* Mistake: the login is recorded before the password is compared.
VerifyRecorded(c) ==
  /\ pc[c] = "verify"
  /\ lastLogin' = [lastLogin EXCEPT ![seen[c].user] = now]
  /\ Unless(c, IF AccountError(seen[c].row) # "none" THEN AccountError(seen[c].row)
               ELSE IF req[c].password # Secret[seen[c].user] THEN "invalidCredentials"
               ELSE "none", "issue")
  /\ UNCHANGED <<tables, now, req, seen, signed, held, history, earned>>

\* checkAccount and the comparison of the password, on the account as read.
Verify(c) ==
  /\ pc[c] = "verify"
  /\ Unless(c, IF AccountError(seen[c].row) # "none" THEN AccountError(seen[c].row)
               ELSE IF req[c].password # Secret[seen[c].user] THEN "invalidCredentials"
               ELSE "none", "issue")
  /\ UNCHANGED <<tables, lastLogin, now, req, seen, signed, held, history, earned>>

\* Mistake: the roles are read again for the token.
IssueFresh(c) ==
  /\ pc[c] = "issue"
  /\ Goto(c, "record")
  /\ signed' = [signed EXCEPT ![c] = Token([seen[c] EXCEPT !.roles = active[seen[c].user]])]
  /\ earned' = [earned EXCEPT ![seen[c].user] = @ \cup {now}]
  /\ UNCHANGED <<tables, lastLogin, now, req, seen, held, history>>

\* IssueAccessToken, from the account as read and the time as it is now.
Issue(c) ==
  /\ pc[c] = "issue"
  /\ Goto(c, "record")
  /\ signed' = [signed EXCEPT ![c] = Token(seen[c])]
  /\ earned' = [earned EXCEPT ![seen[c].user] = @ \cup {now}]
  /\ UNCHANGED <<tables, lastLogin, now, req, seen, held, history>>

\* The UPDATE of RecordSuccessfulLogin: its NOW() is when the statement began, which
\* is after the token was signed and may be before another login's record of this
\* user.
SetLastLogin(c) ==
  \E t \in signed[c].at .. now : lastLogin' = [lastLogin EXCEPT ![seen[c].user] = t]

Record(c) ==
  /\ pc[c] = "record"
  /\ SetLastLogin(c)
  /\ Answer(c, "ok")
  /\ UNCHANGED <<tables, now, req, seen, signed, held, history, earned>>

\* A record that fails, or is done and not acknowledged, is logged, and the login
\* succeeds.
RecordFails(c) ==
  /\ pc[c] = "record" /\ faults < MaxFaults
  /\ SetLastLogin(c) \/ UNCHANGED lastLogin
  /\ Answer(c, "ok")
  /\ faults' = faults + 1
  /\ UNCHANGED <<tables, now, req, seen, signed, held, since, witnessed, changes, earned>>

-----------------------------------------------------------------------------
(* Requests with a token, and answers.                                     *)

Kinds == {"none", "other", "held"}

\* RequireAuth lets a request in, with the claims of its token, or refuses it;
\* Logout makes the same test and changes nothing.
Present(c, op, kind) ==
  LET error == TokenError(kind, held[c]) IN
  /\ pc[c] = "idle"
  /\ kind = "held" => held[c] # NoToken
  /\ req' = [req EXCEPT ![c] = [op |-> op, kind |-> kind]]
  /\ Answer(c, IF error = "none" THEN "ok" ELSE error)
  /\ UNCHANGED <<tables, lastLogin, now, seen, signed, held, history, earned>>

\* The client gets the answer, or has gone: a new token replaces the one it
\* holds, and after a logout it is asked to throw its token away.
Reply(c) ==
  /\ pc[c] = "answered"
  /\ pc' = [pc EXCEPT ![c] = "idle"]
  /\ req' = [req EXCEPT ![c] = NoRequest]
  /\ seen' = [seen EXCEPT ![c] = NoAccount]
  /\ signed' = [signed EXCEPT ![c] = NoToken]
  /\ outcome' = [outcome EXCEPT ![c] = "none"]
  /\ \/ UNCHANGED held
     \/ /\ outcome[c] = "ok" /\ req[c].op = "login"
        /\ held' = [held EXCEPT ![c] = signed[c]]
     \/ /\ outcome[c] = "ok" /\ req[c].op = "logout"
        /\ held' = [held EXCEPT ![c] = NoToken]
  /\ witnessed' = [witnessed EXCEPT ![c] = {}]
  /\ since' = [since EXCEPT ![c] = 0]
  /\ UNCHANGED <<tables, lastLogin, now, earned, changes, faults>>

-----------------------------------------------------------------------------
(* What happens around the requests.                                       *)

\* The query fails, the client goes away, a handler panics.
Fault(c) ==
  /\ Busy(c) /\ faults < MaxFaults
  /\ Answer(c, "failed")
  /\ faults' = faults + 1
  /\ UNCHANGED <<tables, lastLogin, now, req, seen, signed, held, since, witnessed,
                 changes, earned>>

\* The process dies and is started again with the same secret: requests are
\* lost, the tokens clients hold are not.
Crash ==
  /\ faults < MaxFaults
  /\ \E c \in Clients : Busy(c)
  /\ faults' = faults + 1
  /\ pc' = [c \in Clients |-> "idle"]
  /\ req' = [c \in Clients |-> NoRequest]
  /\ seen' = [c \in Clients |-> NoAccount]
  /\ signed' = [c \in Clients |-> NoToken]
  /\ outcome' = [c \in Clients |-> "none"]
  /\ witnessed' = [c \in Clients |-> {}]
  /\ since' = [c \in Clients |-> 0]
  /\ UNCHANGED <<tables, lastLogin, now, held, earned, changes>>

\* Another request changes the users.
Change ==
  /\ changes < MaxChanges
  /\ Dir!Next
  /\ \A u \in UserIds :
       rows'[u] = rows[u] \/ rows'[u].status = "deleted" \/ rows'[u] \in Profiles
  /\ changes' = changes + 1
  /\ witnessed' = [c \in Clients |->
                     IF LoggingIn(c) THEN witnessed[c] \cup Accounts(rows', active') ELSE {}]
  /\ UNCHANGED <<lastLogin, now, session, since, faults, earned>>

Tick ==
  /\ now < MaxTime
  /\ now' = now + 1
  /\ earned' = [u \in UserIds |->
                  IF \E c \in Clients : pc[c] = "record" /\ seen[c].user = u
                  THEN earned[u] \cup {now + 1} ELSE earned[u]]
  /\ UNCHANGED <<tables, lastLogin, session, history>>

Next ==
  \/ \E c \in Clients :
       \/ \E q \in Logins : Login(c, q)
       \/ Lookup(c) \/ Verify(c) \/ Issue(c) \/ Record(c) \/ RecordFails(c)
       \/ \E op \in {"call", "logout"}, kind \in Kinds : Present(c, op, kind)
       \/ Reply(c) \/ Fault(c)
  \/ Crash \/ Change \/ Tick

Spec == Init /\ [][Next]_vars

-----------------------------------------------------------------------------
(* What is to be true.                                                     *)

Claims(token) == [user |-> token.user, org |-> token.org, roles |-> token.roles]
TokenType == [user : UserIds, org : Orgs, roles : SUBSET RoleCodes,
              nbf : Nat, exp : Nat, at : Nat]
AccountType == [user : UserIds, row : Row, roles : SUBSET Roles]

\* The shape of the state: every variable holds values of its kind.
TypeOK ==
  /\ rows \in [UserIds -> Row]
  /\ creds \in SUBSET UserIds
  /\ active \in [UserIds -> SUBSET Roles]
  /\ lastLogin \in [UserIds -> Nat \cup {NoDate}]
  /\ now \in Nat
  /\ pc \in [Clients -> {"idle", "lookup", "verify", "issue", "record", "answered"}]
  /\ req \in [Clients -> Logins \cup {NoRequest} \cup [op : {"call", "logout"}, kind : Kinds]]
  /\ seen \in [Clients -> AccountType \cup {NoAccount}]
  /\ signed \in [Clients -> TokenType \cup {NoToken}]
  /\ outcome \in [Clients -> {"none", "ok", "invalidInput", "invalidCredentials",
       "accountInactive", "accountNotApproved", "accountExpired", "missingToken",
       "invalidToken", "failed"}]
  /\ held \in [Clients -> TokenType \cup {NoToken}]
  /\ since \in [Clients -> Nat]
  /\ witnessed \in [Clients -> SUBSET AccountType]
  /\ earned \in [UserIds -> SUBSET Nat]
  /\ changes \in Nat /\ faults \in Nat

\* The claims of a token, and that an account was good for a login.
Good(a, c) ==
  /\ a.row.status = "live" /\ a.row.active /\ a.row.approved
  /\ a.row.validTill # NoDate => a.row.validTill >= since[c]
  /\ Lower[a.row.email] = Lower[req[c].email]
  /\ Secret[a.user] = req[c].password
Describes(token, a) ==
  Claims(token) = [user |-> a.user, org |-> a.row.org, roles |-> {RoleCode[r] : r \in a.roles}]

\* Whoever is given a token had, at one moment of the login, a live, active,
\* approved account with that address and password that had not expired when the
\* login arrived; and the claims are that account's organization and roles, all
\* of that one moment, whatever other requests did before, during and after it.
TokenIsTrue ==
  \A c \in Clients : signed[c] # NoToken =>
    \E a \in witnessed[c] : Good(a, c) /\ Describes(signed[c], a)

\* A token is accepted for as long as expires_in told the client, though iat and
\* exp are cut to seconds, and not beyond its TTL and the leeway.
TokensLastAsPromised ==
  [][\A c \in Clients :
       /\ pc[c] = "idle" /\ pc'[c] = "answered"
       /\ req'[c].op \in {"call", "logout"} /\ req'[c].kind = "held"
       => /\ outcome'[c] = "ok" => now < held[c].at + TTL + Leeway
          /\ outcome'[c] = "invalidToken" => now >= held[c].at + ExpiresIn]_vars

\* last_login_on is a time at which a login of that user had its token signed and
\* was not answered yet: a refused attempt, a crash, another user's login and a
\* record that is late leave no other time there, whatever was there before.
LastLoginIsALogin ==
  \A u \in UserIds : lastLogin[u] # NoDate => lastLogin[u] \in earned[u]
=============================================================================
