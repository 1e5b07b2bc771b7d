-------------------------- MODULE AuthenticationProofs --------------------------
(***************************************************************************)
(* Theorems about Authentication, for any users, clients, passwords, times *)
(* and numbers of changes and failures.                                    *)
(***************************************************************************)
EXTENDS AuthenticationInv, TLAPS

-----------------------------------------------------------------------------
(* Facts about the data.                                                   *)

\* jwt.NewNumericDate takes off less than a second.
LEMMA NumericDateBounds ==
  ASSUME NEW t \in Nat
  PROVE  NumericDate(t) \in Nat /\ NumericDate(t) <= t /\ t < NumericDate(t) + Second
<1>1. Second \in Nat /\ Second > 0 BY ClockAssumption
<1>2. t % Second \in 0 .. Second - 1 BY <1>1
<1>3. t % Second <= t BY <1>1
<1>. QED BY <1>1, <1>2, <1>3 DEF NumericDate

\* A row that is live or deleted is a row of a user.
LEMMA LiveRows ==
  ASSUME NEW row \in Row, row.status # "none"
  PROVE  row \in UserRow
BY DEF Row, NoRow

\* The tables keep their types and the addresses stay unique, whatever another
\* request does to them.
LEMMA DirectoryStep ==
  ASSUME TypeOK, OneAccount, Dir!Next
  PROVE  /\ rows' \in [UserIds -> Row] /\ creds' \in SUBSET UserIds
         /\ active' \in [UserIds -> SUBSET Roles]
         /\ OneAccount'
<1>. PICK u \in UserIds : \/ Dir!Register(u) \/ Dir!Revise(u) \/ Dir!Remove(u)
                          \/ Dir!SwitchRole(u)
  BY DEF Dir!Next
<1>. USE DEF TypeOK
<1>1. CASE Dir!Register(u)
  <2>. PICK row \in UserRow, r \in Roles :
         /\ row.status = "live" /\ Dir!EmailFree(row.email, u)
         /\ rows' = [rows EXCEPT ![u] = row] /\ active' = [active EXCEPT ![u] = {r}]
    BY <1>1 DEF Dir!Register, UserRow, Dir!UserRow
  <2>1. OneAccount' BY DEF OneAccount, Dir!Live, Dir!EmailFree
  <2>. QED BY <1>1, <2>1 DEF Dir!Register, Row
<1>2. CASE Dir!Revise(u)
  <2>. PICK row \in UserRow :
         /\ row.status = "live" /\ Dir!EmailFree(row.email, u)
         /\ rows' = [rows EXCEPT ![u] = row]
    BY <1>2 DEF Dir!Revise, UserRow, Dir!UserRow
  <2>1. OneAccount' BY DEF OneAccount, Dir!Live, Dir!EmailFree
  <2>. QED BY <1>2, <2>1 DEF Dir!Revise, Row
<1>3. CASE Dir!Remove(u)
  <2>1. rows[u] \in UserRow BY <1>3, LiveRows DEF Dir!Remove, Dir!Live
  <2>2. SoftDelete(rows[u]) \in UserRow /\ SoftDelete(rows[u]).status = "deleted"
    BY <2>1 DEF SoftDelete, UserRow
  <2>3. OneAccount' BY <1>3, <2>2 DEF OneAccount, Dir!Live, Dir!Remove, SoftDelete, Dir!SoftDelete
  <2>. QED BY <1>3, <2>2, <2>3 DEF Dir!Remove, Row, SoftDelete, Dir!SoftDelete
<1>4. CASE Dir!SwitchRole(u)
  <2>. PICK r \in Roles, kept \in SUBSET active[u] :
         active' = [active EXCEPT ![u] = kept \cup {r}]
    BY <1>4 DEF Dir!SwitchRole
  <2>1. OneAccount' BY <1>4 DEF OneAccount, Dir!Live, Dir!SwitchRole
  <2>. QED BY <1>4, <2>1 DEF Dir!SwitchRole
<1>. QED BY <1>1, <1>2, <1>3, <1>4

\* The accounts of a directory are of their type.
LEMMA AccountTypes ==
  ASSUME NEW table \in [UserIds -> Row], NEW roles \in [UserIds -> SUBSET Roles]
  PROVE  Accounts(table, roles) \in SUBSET AccountType
BY DEF Accounts, Account, AccountType

-----------------------------------------------------------------------------
(* What a step leaves alone.                                               *)

\* The requests of the clients in D are where they were.
Untouched(D) ==
  \A d \in D :
    /\ pc'[d] = pc[d] /\ req'[d] = req[d] /\ seen'[d] = seen[d]
    /\ signed'[d] = signed[d] /\ held'[d] = held[d]
    /\ since'[d] = since[d] /\ witnessed'[d] = witnessed[d]

\* Time goes on, and is noted for the logins with a token.
Later ==
  /\ now' \in Nat /\ now <= now'
  /\ \A u \in UserIds : earned[u] \subseteq earned'[u]
  /\ \A c \in Clients : pc[c] = "record" => now + 1 .. now' \subseteq earned'[seen[c].user]

\* A dated token stays dated.
LEMMA DatedStays ==
  ASSUME TypeOK, Later, NEW token \in TokenType, Dated(token)
  PROVE  Dated(token)'
<1>1. token.at \in Nat BY DEF TokenType
<1>. QED BY <1>1 DEF Dated, Later, TypeOK

\* What is known of a request stays true while others act.
LEMMA ProgressStays ==
  ASSUME TypeOK, Later, UNCHANGED tables, NEW D, D \subseteq Clients, Untouched(D),
         NEW d \in D, Progress(d)
  PROVE  Progress(d)'
<1>1. \A token \in {signed'[d], held'[d]} \ {NoToken} : Dated(token)'
  BY DatedStays DEF Progress, Untouched, TypeOK
<1>2. \A a : Good(a, d) => Good(a, d)' BY DEF Good, Untouched
<1>3. Found(d) => Found(d)' BY DEF Found, Untouched
<1>4. since'[d] <= now' BY DEF Progress, Untouched, Later, TypeOK
<1>5. ASSUME pc[d] = "record"
      PROVE  signed'[d].at .. now' \subseteq earned'[seen'[d].user]
  <2>1. /\ signed[d] # NoToken /\ signed[d].user = seen[d].user
        /\ signed[d].at .. now \subseteq earned[seen[d].user]
        /\ signed'[d] = signed[d] /\ seen'[d] = seen[d]
    BY <1>5 DEF Progress, Untouched
  <2>2. signed[d].at \in Nat /\ seen[d].user \in UserIds /\ now \in Nat
    BY <2>1 DEF TypeOK, TokenType
  <2>3. earned[seen[d].user] \subseteq earned'[seen[d].user]
    BY <2>2 DEF Later
  <2>4. now' \in Nat /\ now + 1 .. now' \subseteq earned'[seen[d].user]
    BY <1>5 DEF Later
  <2>5. ASSUME NEW i \in signed[d].at .. now' PROVE i \in earned'[seen[d].user]
    <3>1. i \in signed[d].at .. now \/ i \in now + 1 .. now'
      BY <2>2, <2>4, <2>5
    <3>. QED BY <2>1, <2>3, <2>4, <3>1
  <2>. QED BY <2>1, <2>5
<1>. QED BY <1>1, <1>2, <1>3, <1>4, <1>5 DEF Progress, Untouched, tables, Busy, LoggingIn

\* A step of one request keeps the invariant when it keeps it for that request.
LEMMA OneRequest ==
  ASSUME AuthInv, UNCHANGED <<tables, lastLogin, now, earned>>, NEW c \in Clients,
         Untouched(Clients \ {c}), TypeOK', Progress(c)'
  PROVE  AuthInv'
<1>1. Later BY DEF Later, AuthInv, TypeOK
<1>2. ASSUME NEW d \in Clients \ {c} PROVE Progress(d)'
  BY <1>1, ProgressStays DEF AuthInv
<1>3. OneAccount' BY DEF AuthInv, OneAccount, tables, Dir!Live
<1>4. LastLoginIsALogin' BY DEF AuthInv, LastLoginIsALogin
<1>. QED BY <1>2, <1>3, <1>4 DEF AuthInv

-----------------------------------------------------------------------------
(* The steps of a login.                                                   *)

LEMMA LoginInv ==
  ASSUME AuthInv, NEW c \in Clients, NEW q \in Logins, Login(c, q)
  PROVE  AuthInv'
<1>. USE DEF AuthInv
<1>1. TypeOK'
  BY AccountTypes DEF Login, TypeOK, tables, Goto, Answer
<1>2. Untouched(Clients \ {c}) BY DEF Login, Untouched, TypeOK, Goto, Answer
<1>3. Progress(c)'
  <2>. Progress(c) OBVIOUS
  <2>1. q.op = "login" BY LoginAssumption
  <2>2. \A token \in {signed'[c], held'[c]} \ {NoToken} : Dated(token)'
    BY DEF Login, Progress, Dated
  <2>. QED BY <2>1, <2>2 DEF Login, Progress, TypeOK, Goto, Answer, Busy, LoggingIn, tables
<1>. QED BY <1>1, <1>2, <1>3, OneRequest DEF Login

LEMMA LookupInv ==
  ASSUME AuthInv, NEW c \in Clients, Lookup(c)
  PROVE  AuthInv'
<1>. USE DEF AuthInv
<1>. DEFINE found == Matching(req[c].email)
<1>0. Progress(c) /\ TypeOK /\ req[c] \in Logins BY DEF Lookup, Progress, Busy
<1>1. ASSUME NEW u \in found PROVE UNION {active[v] : v \in found} = active[u]
  <2>1. \A v \in found : v = u BY DEF Matching, OneAccount, TypeOK
  <2>. QED BY <2>1
<1>2. ASSUME found # {}
      PROVE  \E u \in found : seen' = [seen EXCEPT ![c] = Account(u, rows, active)]
  <2>1. PICK u \in found : seen' = [seen EXCEPT ![c] = Profile(u, found)]
    BY <1>2 DEF Lookup
  <2>2. Profile(u, found) = Account(u, rows, active) BY <1>1 DEF Profile, Account
  <2>. QED BY <2>1, <2>2
<1>3. ASSUME NEW u \in found
      PROVE  /\ Account(u, rows, active) \in AccountType
             /\ Account(u, rows, active) \in Accounts(rows, active)
  BY DEF Matching, Account, Accounts, AccountType, TypeOK
<1>4. TypeOK'
  <2>1. seen' \in [Clients -> AccountType \cup {NoAccount}]
    BY <1>2, <1>3 DEF Lookup, TypeOK
  <2>. QED BY <2>1 DEF Lookup, TypeOK, tables, history, Goto, Answer
<1>5. Untouched(Clients \ {c})
  BY <1>2 DEF Lookup, Untouched, TypeOK, Goto, Answer, history
<1>6. Progress(c)'
  <2>1. pc'[c] = "verify" => Found(c)'
    <3>. HAVE pc'[c] = "verify"
    <3>1. found # {} BY DEF Lookup, Answer, TypeOK
    <3>2. PICK u \in found : seen' = [seen EXCEPT ![c] = Account(u, rows, active)]
      BY <1>2, <3>1
    <3>3. Account(u, rows, active) \in witnessed[c]
      BY <1>0, <1>3, LoginAssumption DEF Progress, LoggingIn, Lookup
    <3>. QED BY <3>2, <3>3 DEF Matching, Found, Lookup, TypeOK, Account, Dir!Live, history
  <2>2. \A token \in {signed'[c], held'[c]} \ {NoToken} : Dated(token)'
    BY <1>0 DEF Lookup, Progress, Dated
  <2>. QED BY <1>0, <2>1, <2>2
       DEF Lookup, Progress, TypeOK, Goto, Answer, Busy, LoggingIn, tables, history
<1>. QED BY <1>4, <1>5, <1>6, OneRequest DEF Lookup

LEMMA VerifyInv ==
  ASSUME AuthInv, NEW c \in Clients, Verify(c)
  PROVE  AuthInv'
<1>. USE DEF AuthInv
<1>0. Progress(c) /\ TypeOK BY DEF Verify
<1>1. TypeOK'
  BY DEF Verify, Unless, TypeOK, tables, history, Goto, Answer, AccountError
<1>2. Untouched(Clients \ {c})
  BY DEF Verify, Unless, Untouched, TypeOK, Goto, Answer, history
<1>3. Progress(c)'
  <2>1. pc'[c] = "issue" => Good(seen[c], c)
    <3>. HAVE pc'[c] = "issue"
    <3>1. AccountError(seen[c].row) = "none" /\ req[c].password = Secret[seen[c].user]
      BY DEF Verify, Unless, Answer, TypeOK
    <3>2. seen[c].row \in UserRow
      BY <1>0, LiveRows DEF Progress, Found, Verify, TypeOK, AccountType
    <3>3. /\ seen[c].row.active /\ seen[c].row.approved
          /\ seen[c].row.validTill # NoDate => ~(seen[c].row.validTill < now)
      BY <3>1, <3>2 DEF AccountError, UserRow
    <3>4. seen[c].row.validTill # NoDate => seen[c].row.validTill \in Nat
      BY <3>2, LoginAssumption DEF UserRow
    <3>. QED BY <1>0, <3>1, <3>3, <3>4 DEF Good, Progress, Found, Verify, TypeOK
  <2>2. \A token \in {signed'[c], held'[c]} \ {NoToken} : Dated(token)'
    BY <1>0 DEF Verify, Progress, Dated
  <2>. QED BY <1>0, <2>1, <2>2
       DEF Verify, Unless, Progress, TypeOK, Goto, Answer, Busy, LoggingIn, Found, Good,
           tables, history
<1>. QED BY <1>1, <1>2, <1>3, OneRequest DEF Verify

\* The token of a login describes the account the login read, and is dated.
LEMMA TokenOfLogin ==
  ASSUME AuthInv, NEW c \in Clients, Issue(c)
  PROVE  /\ seen[c] \in AccountType /\ seen[c] \in witnessed[c] /\ Good(seen[c], c)
         /\ signed' = [signed EXCEPT ![c] = Token(seen[c])]
         /\ Token(seen[c]) \in TokenType
         /\ Describes(Token(seen[c]), seen[c])
         /\ signed'[c] = Token(seen[c]) /\ Dated(signed[c])'
<1>1. /\ TypeOK /\ Found(c) /\ Good(seen[c], c)
      /\ signed' = [signed EXCEPT ![c] = Token(seen[c])]
  BY DEF AuthInv, Issue, Progress
<1>2. seen[c] \in AccountType /\ seen[c].row \in UserRow
  <2>1. seen[c] \in AccountType BY <1>1 DEF TypeOK, Found
  <2>2. seen[c].row \in Row BY <2>1 DEF AccountType
  <2>. QED BY <1>1, <2>1, <2>2, LiveRows DEF Found
<1>3. /\ seen[c].user \in UserIds /\ seen[c].row.org \in Orgs
      /\ {RoleCode[r] : r \in seen[c].roles} \in SUBSET RoleCodes
  BY <1>2, RoleAssumption DEF AccountType, UserRow
<1>4. now \in Nat /\ now + TTL \in Nat BY <1>1, ClockAssumption DEF TypeOK
<1>5. NumericDate(now) \in Nat /\ NumericDate(now + TTL) \in Nat
  BY <1>4, NumericDateBounds
<1>6. Token(seen[c]) \in TokenType BY <1>3, <1>4, <1>5 DEF Token, TokenType
<1>7. Describes(Token(seen[c]), seen[c]) BY DEF Token, Describes, Claims
<1>8. signed'[c] = Token(seen[c]) /\ Dated(signed[c])'
  <2>1. now' = now /\ signed'[c] = Token(seen[c]) BY <1>1 DEF Issue, TypeOK
  <2>. QED BY <1>4, <2>1 DEF Dated, Token
<1>. QED BY <1>1, <1>2, <1>6, <1>7, <1>8 DEF Found

LEMMA IssueInv ==
  ASSUME AuthInv, NEW c \in Clients, Issue(c)
  PROVE  AuthInv'
<1>. USE DEF AuthInv
<1>0. Progress(c) /\ TypeOK /\ seen[c].user \in UserIds
  BY TokenOfLogin DEF AccountType
<1>1. TypeOK' BY <1>0, TokenOfLogin DEF Issue, TypeOK, tables, history, Goto
<1>2. Untouched(Clients \ {c}) BY DEF Issue, Untouched, TypeOK, Goto, history
<1>3. Later /\ UNCHANGED <<tables, lastLogin, now>>
  BY <1>0 DEF Issue, Later, TypeOK
<1>4. ASSUME NEW d \in Clients \ {c} PROVE Progress(d)'
  BY <1>2, <1>3, ProgressStays
<1>5. Progress(c)'
  <2>1. signed'[c] = Token(seen[c]) /\ Token(seen[c]).user = seen[c].user
    BY TokenOfLogin DEF TypeOK, Token
  <2>2. ASSUME held[c] # NoToken PROVE Dated(held[c])'
    <3>1. held[c] \in TokenType /\ Dated(held[c]) BY <1>0, <2>2 DEF TypeOK, Progress
    <3>. QED BY <1>3, <3>1, DatedStays DEF Issue, Dated
  <2>3. \A token \in {signed'[c], held'[c]} \ {NoToken} : Dated(token)'
    BY <2>2, TokenOfLogin DEF Issue, Dated
  <2>4. \E a \in witnessed'[c] : Good(a, c)' /\ Describes(signed'[c], a)
    BY <2>1, TokenOfLogin DEF Issue, Good, history
  <2>5. signed'[c] # NoToken
    BY <1>0, <2>1, SpecialValues DEF NoToken
  <2>6. pc'[c] = "record" /\ UNCHANGED <<req, seen, since, witnessed, now, rows, active>>
    BY <1>0 DEF Issue, Goto, TypeOK, history, tables
  <2>7. Found(c)' /\ Good(seen[c], c)'
    BY <1>0, <2>6, TokenOfLogin DEF Issue, Progress, Found, Good
  <2>8. req[c] \in Logins /\ LoggingIn(c) BY <1>0, LoginAssumption DEF Issue, Progress, Busy, LoggingIn
  <2>9. signed'[c].at .. now' \subseteq earned'[seen'[c].user]
    <3>1. signed'[c].at = now /\ now \in Nat BY <1>0, <2>1 DEF Token, TypeOK
    <3>2. now \in earned'[seen[c].user] BY <1>0 DEF Issue, TypeOK
    <3>. QED BY <2>6, <3>1, <3>2
  <2>. QED BY <1>0, <2>1, <2>3, <2>4, <2>5, <2>6, <2>7, <2>8, <2>9
       DEF Progress, Busy, LoggingIn
<1>6. OneAccount' BY <1>3 DEF OneAccount, tables, Dir!Live
<1>7. LastLoginIsALogin' BY <1>3 DEF LastLoginIsALogin, Later
<1>. QED BY <1>1, <1>4, <1>5, <1>6, <1>7

\* The time that is recorded is one at which the login had its token.
LEMMA SetLastLoginIsALogin ==
  ASSUME AuthInv, NEW c \in Clients, pc[c] = "record", SetLastLogin(c), UNCHANGED earned
  PROVE  lastLogin' \in [UserIds -> Nat \cup {NoDate}] /\ LastLoginIsALogin'
<1>1. /\ TypeOK /\ LastLoginIsALogin /\ signed[c] \in TokenType /\ seen[c].user \in UserIds
      /\ signed[c].at .. now \subseteq earned[seen[c].user]
  BY DEF AuthInv, Progress, TypeOK, TokenType
<1>2. PICK t \in signed[c].at .. now : lastLogin' = [lastLogin EXCEPT ![seen[c].user] = t]
  BY DEF SetLastLogin
<1>3. t \in Nat /\ t \in earned[seen[c].user]
  BY <1>1, <1>2 DEF TypeOK, TokenType
<1>. QED BY <1>1, <1>2, <1>3 DEF LastLoginIsALogin, TypeOK

LEMMA RecordInv ==
  ASSUME AuthInv, NEW c \in Clients, Record(c) \/ RecordFails(c)
  PROVE  AuthInv'
<1>. USE DEF AuthInv
<1>0. /\ Progress(c) /\ TypeOK /\ pc[c] = "record" /\ UNCHANGED <<tables, now, earned>>
      /\ SetLastLogin(c) \/ UNCHANGED lastLogin
  BY DEF Record, RecordFails
<1>1. lastLogin' \in [UserIds -> Nat \cup {NoDate}] /\ LastLoginIsALogin'
  <2>1. CASE SetLastLogin(c) BY <1>0, <2>1, SetLastLoginIsALogin
  <2>2. CASE UNCHANGED lastLogin BY <1>0, <2>2 DEF LastLoginIsALogin, TypeOK
  <2>. QED BY <1>0, <2>1, <2>2
<1>2. TypeOK'
  BY <1>0, <1>1, BoundAssumption DEF Record, RecordFails, TypeOK, tables, history, Answer
<1>3. Untouched(Clients \ {c})
  BY DEF Record, RecordFails, Untouched, TypeOK, Answer, history
<1>4. Later BY <1>0 DEF Later, TypeOK
<1>5. ASSUME NEW d \in Clients \ {c} PROVE Progress(d)'
  BY <1>0, <1>3, <1>4, ProgressStays
<1>6. Progress(c)'
  <2>1. /\ pc'[c] = "answered"
        /\ UNCHANGED <<rows, active, now, req, seen, signed, held, since, witnessed>>
    BY <1>0 DEF Record, RecordFails, TypeOK, Answer, tables, history
  <2>. QED BY <1>0, <2>1 DEF Progress, Busy, LoggingIn, Good, Dated
<1>7. OneAccount' BY <1>0 DEF OneAccount, tables, Dir!Live
<1>. QED BY <1>1, <1>2, <1>5, <1>6, <1>7

-----------------------------------------------------------------------------
(* The other steps.                                                        *)

LEMMA FaultInv ==
  ASSUME AuthInv, NEW c \in Clients, Fault(c)
  PROVE  AuthInv'
<1>. USE DEF AuthInv
<1>0. Progress(c) /\ TypeOK BY DEF AuthInv
<1>1. TypeOK' BY BoundAssumption DEF Fault, TypeOK, tables, Answer
<1>2. Untouched(Clients \ {c}) BY DEF Fault, Untouched, TypeOK, Answer
<1>3. Progress(c)'
  BY <1>0 DEF Fault, Progress, TypeOK, Answer, Busy, LoggingIn, tables, Good, Dated
<1>. QED BY <1>1, <1>2, <1>3, OneRequest DEF Fault

LEMMA PresentInv ==
  ASSUME AuthInv, NEW c \in Clients, NEW op \in {"call", "logout"}, NEW kind \in Kinds,
         Present(c, op, kind)
  PROVE  AuthInv'
<1>. USE DEF AuthInv
<1>0. Progress(c) /\ TypeOK BY DEF AuthInv
<1>1. TypeOK'
  <2>1. TokenError(kind, held[c]) \in {"none", "missingToken", "invalidToken"}
    BY DEF TokenError, Kinds
  <2>. QED BY <2>1 DEF Present, TypeOK, tables, history, Answer
<1>2. Untouched(Clients \ {c}) BY DEF Present, Untouched, TypeOK, Answer, history
<1>3. Progress(c)'
  BY <1>0 DEF Present, Progress, TypeOK, Answer, Busy, LoggingIn, tables, history, Dated
<1>. QED BY <1>1, <1>2, <1>3, OneRequest DEF Present

LEMMA ReplyInv ==
  ASSUME AuthInv, NEW c \in Clients, Reply(c)
  PROVE  AuthInv'
<1>. USE DEF AuthInv
<1>0. Progress(c) /\ TypeOK BY DEF AuthInv
<1>1. held'[c] \in {held[c], signed[c], NoToken} /\ held' = [held EXCEPT ![c] = held'[c]]
  BY DEF Reply, TypeOK
<1>2. TypeOK' BY <1>1 DEF Reply, TypeOK, tables
<1>3. Untouched(Clients \ {c}) BY <1>1 DEF Reply, Untouched, TypeOK
<1>4. Progress(c)'
  BY <1>0, <1>1 DEF Reply, Progress, TypeOK, Busy, LoggingIn, NoRequest, tables, Dated
<1>. QED BY <1>2, <1>3, <1>4, OneRequest DEF Reply

LEMMA CrashInv ==
  ASSUME AuthInv, Crash
  PROVE  AuthInv'
<1>. USE DEF AuthInv
<1>1. TypeOK' BY BoundAssumption DEF Crash, TypeOK, tables
<1>2. ASSUME NEW d \in Clients PROVE Progress(d)'
  BY DEF Crash, Progress, TypeOK, Busy, LoggingIn, NoRequest, tables, Dated
<1>3. OneAccount' BY DEF Crash, OneAccount, tables, Dir!Live
<1>4. LastLoginIsALogin' BY DEF Crash, LastLoginIsALogin
<1>. QED BY <1>1, <1>2, <1>3, <1>4 DEF Crash

LEMMA ChangeInv ==
  ASSUME AuthInv, Change
  PROVE  AuthInv'
<1>. USE DEF AuthInv
<1>0. /\ rows' \in [UserIds -> Row] /\ creds' \in SUBSET UserIds
      /\ active' \in [UserIds -> SUBSET Roles]
      /\ OneAccount'
  BY DirectoryStep DEF Change
<1>1. Accounts(rows', active') \in SUBSET AccountType BY <1>0, AccountTypes
<1>2. TypeOK' BY <1>0, <1>1 DEF Change, TypeOK, session
<1>3. ASSUME NEW d \in Clients PROVE Progress(d)'
  <2>. Progress(d) OBVIOUS
  <2>1. witnessed'[d] = IF LoggingIn(d) THEN witnessed[d] \cup Accounts(rows', active') ELSE {}
    BY DEF Change
  <2>2. UNCHANGED <<now, earned, since, pc, req, seen, signed, held>> BY DEF Change, session
  <2>3. \A token \in {signed'[d], held'[d]} \ {NoToken} : Dated(token)'
    BY <2>2 DEF Progress, Dated
  <2>4. Busy(d) => LoggingIn(d) BY LoginAssumption DEF Progress, LoggingIn
  <2>5. \A a : Good(a, d) => Good(a, d)' BY <2>2 DEF Good
  <2>6. Busy(d) /\ Found(d) => Found(d)' BY <2>1, <2>2, <2>4 DEF Found
  <2>7. signed'[d] # NoToken =>
          \E a \in witnessed'[d] : Good(a, d)' /\ Describes(signed'[d], a)
    BY <2>1, <2>2, <2>5 DEF Progress
  <2>. QED BY <2>1, <2>2, <2>3, <2>4, <2>5, <2>6, <2>7
       DEF Progress, Busy, LoggingIn, Describes, Claims
<1>4. LastLoginIsALogin' BY DEF Change, LastLoginIsALogin
<1>. QED BY <1>0, <1>2, <1>3, <1>4 DEF Change

LEMMA TickInv ==
  ASSUME AuthInv, Tick
  PROVE  AuthInv'
<1>. USE DEF AuthInv
<1>1. TypeOK' BY DEF Tick, TypeOK, tables, session, history
<1>2. Later /\ Untouched(Clients) /\ UNCHANGED tables
  BY DEF Tick, Later, Untouched, TypeOK, session, history, Progress, TokenType
<1>3. ASSUME NEW d \in Clients PROVE Progress(d)' BY <1>2, ProgressStays
<1>4. OneAccount' BY <1>2 DEF OneAccount, tables, Dir!Live
<1>5. LastLoginIsALogin' BY <1>2 DEF Tick, LastLoginIsALogin, Later
<1>. QED BY <1>1, <1>3, <1>4, <1>5

LEMMA InitInv == Init => AuthInv
<1>. HAVE Init
<1>1. TypeOK BY DirectoryAssumption DEF Init, Dir!Init, TypeOK
<1>2. OneAccount BY DirectoryAssumption DEF Init, Dir!Init, OneAccount, Dir!Live
<1>3. \A c \in Clients : Progress(c)
  BY DEF Init, Progress, Busy, LoggingIn, NoRequest
<1>. QED BY <1>1, <1>2, <1>3 DEF Init, AuthInv, LastLoginIsALogin

-----------------------------------------------------------------------------
(* The theorems.                                                           *)

\* Every step keeps the invariant.
LEMMA NextInv == AuthInv /\ [Next]_vars => AuthInv'
<1>. SUFFICES ASSUME AuthInv, [Next]_vars PROVE AuthInv' OBVIOUS
<1>1. CASE UNCHANGED vars
  <2>1. UNCHANGED <<tables, lastLogin, now, earned>> /\ Untouched(Clients) /\ TypeOK'
    BY <1>1 DEF vars, session, history, tables, Untouched, AuthInv, TypeOK
  <2>2. Later BY <2>1 DEF Later, AuthInv, TypeOK
  <2>3. ASSUME NEW d \in Clients PROVE Progress(d)'
    BY <2>1, <2>2, ProgressStays DEF AuthInv
  <2>. QED BY <2>1, <2>3 DEF AuthInv, OneAccount, LastLoginIsALogin, tables, Dir!Live
<1>2. CASE Next
  BY <1>2, LoginInv, LookupInv, VerifyInv, IssueInv, RecordInv,
     PresentInv, ReplyInv, FaultInv, CrashInv, ChangeInv, TickInv DEF Next
<1>. QED BY <1>1, <1>2

\* The invariant holds of every reachable state.
THEOREM AuthInvariance == Spec => []AuthInv
<1>. QED BY InitInv, NextInv, PTL DEF Spec

\* Every token answered describes an account as it was at one moment of the
\* login, good for a login then.
THEOREM TokensTrue == Spec => []TokenIsTrue
<1>1. AuthInv => TokenIsTrue BY DEF AuthInv, Progress, TokenIsTrue
<1>. QED BY <1>1, AuthInvariance, PTL

\* last_login_on is a time at which a login of that user had its token and was not
\* answered yet (IssueAccessToken before RecordSuccessfulLogin in Login).
THEOREM LastLoginsTrue == Spec => []LastLoginIsALogin
<1>1. AuthInv => LastLoginIsALogin BY DEF AuthInv
<1>. QED BY <1>1, AuthInvariance, PTL

\* The test of a token is late enough for expires_in and not later than its TTL
\* and the leeway.
LEMMA TokenTest ==
  ASSUME NEW token \in TokenType, Dated(token), now \in Nat
  PROVE  /\ TokenError("held", token) = "none" => now < token.at + TTL + Leeway
         /\ TokenError("held", token) # "none" => now >= token.at + ExpiresIn
<1>1. token.at \in Nat /\ TTL \in Nat /\ Second \in Nat /\ Second > 0
  BY ClockAssumption DEF TokenType
<1>2. /\ token.nbf \in Nat /\ token.nbf <= token.at
      /\ token.exp \in Nat /\ token.exp <= token.at + TTL
      /\ token.at + TTL < token.exp + Second
  BY <1>1, NumericDateBounds DEF Dated, TokenType
<1>3. ExpiresIn \in Nat /\ ExpiresIn <= TTL
  BY <1>1, NumericDateBounds DEF ExpiresIn, NumericDate
<1>4. token.at <= now BY DEF Dated
<1>5. Leeway \in Nat /\ Leeway >= Second BY <1>1 DEF Leeway
<1>. QED BY <1>1, <1>2, <1>3, <1>4, <1>5 DEF TokenError

\* A step that answers a request with a token has made the test.
LEMMA TokensLastNext ==
  ASSUME AuthInv, Next, NEW c \in Clients,
         pc[c] = "idle", pc'[c] = "answered",
         req'[c].op \in {"call", "logout"}, req'[c].kind = "held"
  PROVE  /\ outcome'[c] = "ok" => now < held[c].at + TTL + Leeway
         /\ outcome'[c] = "invalidToken" => now >= held[c].at + ExpiresIn
<1>0. TypeOK /\ Progress(c) BY DEF AuthInv
<1>1. PICK op \in {"call", "logout"}, kind \in Kinds : Present(c, op, kind)
  <2>1. \A d \in Clients : Lookup(d) \/ Verify(d) \/ Issue(d) \/ Record(d) \/ RecordFails(d)
                            \/ Reply(d) \/ Fault(d) => FALSE
    BY <1>0 DEF Lookup, Verify, Issue, Record, RecordFails, Reply, Fault, Goto, Answer,
                Unless, Busy, TypeOK
  <2>2. \A d \in Clients, q \in Logins : Login(d, q) => FALSE
    BY <1>0, LoginAssumption DEF Login, Goto, Answer, TypeOK
  <2>3. ~Crash /\ ~Change /\ ~Tick
    BY <1>0 DEF Crash, Change, Tick, session
  <2>4. \A d \in Clients, op \in {"call", "logout"}, kind \in Kinds :
          Present(d, op, kind) => d = c
    BY <1>0 DEF Present, Answer, TypeOK
  <2>. QED BY <2>1, <2>2, <2>3, <2>4 DEF Next
<1>2. kind = "held" /\ held[c] # NoToken BY <1>0, <1>1 DEF Present, TypeOK
<1>3. held[c] \in TokenType /\ Dated(held[c])
  BY <1>0, <1>2 DEF TypeOK, Progress
<1>4. outcome'[c] = "ok" => TokenError("held", held[c]) = "none"
  BY <1>0, <1>1, <1>2 DEF Present, Answer, TypeOK, TokenError
<1>5. outcome'[c] = "invalidToken" => TokenError("held", held[c]) # "none"
  BY <1>0, <1>1, <1>2 DEF Present, Answer, TypeOK, TokenError
<1>. QED BY <1>0, <1>3, <1>4, <1>5, TokenTest DEF TypeOK

\* A token is accepted for as long as the client was told, and not for ever.
THEOREM TokensLast == Spec => TokensLastAsPromised
<1>1. AuthInv /\ [Next]_vars =>
        [\A c \in Clients :
           /\ pc[c] = "idle" /\ pc'[c] = "answered"
           /\ req'[c].op \in {"call", "logout"} /\ req'[c].kind = "held"
           => /\ outcome'[c] = "ok" => now < held[c].at + TTL + Leeway
              /\ outcome'[c] = "invalidToken" => now >= held[c].at + ExpiresIn]_vars
  BY TokensLastNext
<1>. QED BY <1>1, AuthInvariance, PTL DEF Spec, TokensLastAsPromised

-----------------------------------------------------------------------------
(* What a deleted user can still do.                                       *)

\* No step of the directory revives a deleted user.
LEMMA StaysDeleted ==
  ASSUME TypeOK, Dir!Next, NEW u \in UserIds, rows[u].status = "deleted"
  PROVE  rows'[u] = rows[u]
BY DEF Dir!Next, Dir!Register, Dir!Revise, Dir!Remove, Dir!SwitchRole, Dir!Exists,
       Dir!Live, TypeOK

\* A login that arrived after the deletion reads other users only.
LEMMA SignsOthers ==
  ASSUME AuthInv, NEW u \in UserIds, Gone(u), NEW c \in Clients, Issue(c)
  PROVE  signed' = [signed EXCEPT ![c] = Token(seen[c])] /\ Token(seen[c]).user # u
<1>1. seen[c] \in witnessed[c] /\ seen[c].row.status = "live" /\ Busy(c)
  BY DEF AuthInv, Progress, Found, Issue, Busy
<1>2. seen[c].user # u BY <1>1 DEF Gone
<1>. QED BY <1>2, TokenOfLogin DEF Token

LEMMA GoneStays ==
  ASSUME AuthInv, [Next]_vars, NEW u \in UserIds, Gone(u)
  PROVE  Gone(u)'
<1>0. TypeOK BY DEF AuthInv
<1>. DEFINE Old(c) == \A a \in witnessed[c] : a.user = u => a.row.status = "deleted"
<1>1. rows'[u].status = "deleted"
  <2>1. CASE Change BY <1>0, <2>1, StaysDeleted DEF Change, Gone
  <2>2. CASE ~Change
    <3>1. UNCHANGED rows
      BY <2>2 DEF Next, Login, Lookup, Verify, Issue, Record, RecordFails, Present, Reply,
                  Fault, Crash, Tick, tables, vars
    <3>. QED BY <3>1 DEF Gone
  <2>. QED BY <2>1, <2>2
<1>2. ASSUME NEW c \in Clients, Busy(c)' PROVE Old(c)'
  <2>1. CASE \E q \in Logins : Login(c, q)
    <3>1. witnessed'[c] = Accounts(rows, active) BY <1>0, <2>1 DEF Login, TypeOK
    <3>. QED BY <3>1 DEF Accounts, Account, Gone
  <2>2. CASE Change
    <3>1. \A a \in Accounts(rows', active') : a.user = u => a.row.status = "deleted"
      BY <1>1 DEF Accounts, Account
    <3>2. Old(c) /\ Busy(c) BY <1>2, <2>2 DEF Change, session, Busy, Gone
    <3>3. witnessed'[c] \subseteq witnessed[c] \cup Accounts(rows', active')
      BY <2>2 DEF Change
    <3>. QED BY <3>1, <3>2, <3>3
  <2>3. CASE ~Change /\ ~\E q \in Logins : Login(c, q)
    <3>1. Busy(c) /\ witnessed'[c] = witnessed[c]
      BY <1>0, <1>2, <2>3
      DEF Next, Login, Lookup, Verify, Issue, Record, RecordFails, Present, Reply, Fault,
          Crash, Tick, Busy, Unless, Goto, Answer, session, history, vars, TypeOK
    <3>. QED BY <3>1 DEF Gone
  <2>. QED BY <2>1, <2>2, <2>3
<1>. QED BY <1>1, <1>2 DEF Gone

LEMMA NoTokenStays ==
  ASSUME AuthInv, [Next]_vars, NEW u \in UserIds, NEW t \in Nat, Gone(u), NoTokenSince(u, t)
  PROVE  NoTokenSince(u, t)'
<1>0. TypeOK BY DEF AuthInv
<1>1. CASE \E c \in Clients : Issue(c)
  <2>. PICK c \in Clients : Issue(c) BY <1>1
  <2>1. signed' = [signed EXCEPT ![c] = Token(seen[c])] /\ Token(seen[c]).user # u
    BY SignsOthers
  <2>2. UNCHANGED held BY DEF Issue
  <2>. QED BY <1>0, <2>1, <2>2 DEF NoTokenSince, TypeOK
<1>2. CASE ~\E c \in Clients : Issue(c)
  <2>1. \A c \in Clients : {signed'[c], held'[c]} \subseteq {signed[c], held[c], NoToken}
    BY <1>0, <1>2
    DEF Next, Login, Lookup, Verify, Record, RecordFails, Present, Reply, Fault, Crash,
        Change, Tick, session, vars, TypeOK
  <2>. QED BY <2>1 DEF NoTokenSince
<1>. QED BY <1>1, <1>2

LEMMA LetInTest ==
  ASSUME AuthInv, Next, NEW u \in UserIds, NEW t \in Nat, NoTokenSince(u, t),
         NEW c \in Clients, LetIn(c, u)
  PROVE  now < t + TTL + Leeway
<1>1. now < held[c].at + TTL + Leeway BY TokensLastNext DEF LetIn
<1>2. held[c] # NoToken BY SpecialValues DEF LetIn, NoToken
<1>3. held[c].at <= t /\ held[c].at \in Nat /\ now \in Nat
  BY <1>2 DEF LetIn, NoTokenSince, AuthInv, TypeOK, TokenType
<1>4. TTL \in Nat /\ Leeway \in Nat BY ClockAssumption DEF Leeway
<1>. QED BY <1>1, <1>3, <1>4

\* Tokens are not revoked, but the rights of a deleted user end: when it is deleted
\* and the logins that arrived before are over, the service lets nobody in as that
\* user once the TTL and the leeway have passed, through restarts and everything else.
THEOREM RightsEnd ==
  ASSUME NEW u \in UserIds, NEW t \in Nat
  PROVE  Spec => [](Gone(u) /\ now = t =>
                      [][\A c \in Clients : LetIn(c, u) => now < t + TTL + Leeway]_vars)
<1>. DEFINE Ended == Gone(u) /\ NoTokenSince(u, t)
<1>1. AuthInv /\ Gone(u) /\ now = t => Ended
  BY DEF AuthInv, Progress, Dated, NoTokenSince
<1>2. AuthInv /\ Ended /\ [Next]_vars => Ended'
  BY GoneStays, NoTokenStays
<1>3. AuthInv /\ Ended /\ [Next]_vars =>
        [\A c \in Clients : LetIn(c, u) => now < t + TTL + Leeway]_vars
  BY LetInTest
<1>. HIDE DEF Ended
<1>. QED BY <1>1, <1>2, <1>3, AuthInvariance, PTL DEF Spec
================================================================================
