--------------------------- MODULE AuthenticationInv ---------------------------
(***************************************************************************)
(* The inductive invariant behind the theorems about Authentication.       *)
(***************************************************************************)
EXTENDS Authentication

\* The directory finds at most one user for an address.
OneAccount ==
  \A u, v \in UserIds : u # v /\ Dir!Live(u) /\ Dir!Live(v)
    => Lower[rows[u].email] # Lower[rows[v].email]

\* The account a login has read is one there has been since it arrived, and the
\* one its address asks for.
Found(c) ==
  /\ seen[c] \in witnessed[c]
  /\ seen[c].row.status = "live"
  /\ Lower[seen[c].row.email] = Lower[req[c].email]

\* The times of a token.
Dated(token) ==
  /\ token.nbf = NumericDate(token.at) /\ token.exp = NumericDate(token.at + TTL)
  /\ token.at <= now

\* How far each request is, and what that says of what it has read and signed.
Progress(c) ==
  /\ pc[c] = "idle" => signed[c] = NoToken /\ ~LoggingIn(c)
  /\ Busy(c) => req[c] \in Logins
  /\ since[c] <= now
  /\ LoggingIn(c) => Accounts(rows, active) \subseteq witnessed[c]
  /\ pc[c] \in {"verify", "issue", "record"} => Found(c)
  /\ pc[c] \in {"issue", "record"} => Good(seen[c], c)
  /\ pc[c] \in {"lookup", "verify", "issue"} => signed[c] = NoToken
  /\ pc[c] = "record" =>
       /\ signed[c] # NoToken /\ signed[c].user = seen[c].user
       /\ signed[c].at .. now \subseteq earned[seen[c].user]
  /\ signed[c] # NoToken =>
       /\ LoggingIn(c)
       /\ \E a \in witnessed[c] : Good(a, c) /\ Describes(signed[c], a)
  /\ \A token \in {signed[c], held[c]} \ {NoToken} : Dated(token)

\* The inductive invariant: what a login has read stays true of a moment since it
\* arrived, every token is dated, and the time has been noted since it was signed.
AuthInv ==
  /\ TypeOK
  /\ OneAccount
  /\ \A c \in Clients : Progress(c)
  /\ LastLoginIsALogin

\* u is deleted, and every login under way arrived after that.
Gone(u) ==
  /\ rows[u].status = "deleted"
  /\ \A c \in Clients : Busy(c) =>
       \A a \in witnessed[c] : a.user = u => a.row.status = "deleted"

\* No token of u was signed after t.
NoTokenSince(u, t) ==
  \A c \in Clients : \A token \in {signed[c], held[c]} \ {NoToken} :
    token.user = u => token.at <= t

\* RequireAuth, or Logout, lets c in as u.
LetIn(c, u) ==
  /\ pc[c] = "idle" /\ pc'[c] = "answered"
  /\ req'[c].op \in {"call", "logout"} /\ req'[c].kind = "held"
  /\ outcome'[c] = "ok" /\ held[c].user = u
=============================================================================
