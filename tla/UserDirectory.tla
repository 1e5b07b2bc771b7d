----------------------------- MODULE UserDirectory -----------------------------
(***************************************************************************)
(* What the identity tables promise to everyone who reads them, whatever   *)
(* handlers write them: users appear complete, in one step, with an e-mail *)
(* nobody else has; they change and disappear one step at a time, never    *)
(* come back, and always hold a role.  The handlers of UserRequests        *)
(* implement this specification.                                           *)
(***************************************************************************)
EXTENDS Identity

CONSTANTS SeedRows, SeedRoles   \* the directory the service is started on

VARIABLES
  rows,     \* identity.users
  creds,    \* the users with a row in identity.user_credentials
  active    \* the active rows of identity.user_role_assignment

dirVars == <<rows, creds, active>>

Exists(u) == rows[u].status # "none"
Live(u) == rows[u].status = "live"
EmailFree(email, u) ==
  \A v \in UserIds \ {u} : Live(v) => Lower[rows[v].email] # Lower[email]

Init ==
  /\ rows = SeedRows
  /\ creds = {u \in UserIds : SeedRows[u].status # "none"}
  /\ active = SeedRoles

\* A user is created with its credentials and its first role, all at once.
Register(u) ==
  /\ ~Exists(u)
  /\ \E row \in UserRow, r \in Roles :
       /\ row.status = "live" /\ EmailFree(row.email, u)
       /\ rows' = [rows EXCEPT ![u] = row]
       /\ active' = [active EXCEPT ![u] = {r}]
  /\ creds' = creds \cup {u}

\* A live user is changed, and stays live.
Revise(u) ==
  /\ Live(u)
  /\ \E row \in UserRow :
       /\ row.status = "live" /\ EmailFree(row.email, u)
       /\ rows' = [rows EXCEPT ![u] = row]
  /\ UNCHANGED <<creds, active>>

\* Deletion is soft, keeps every column but two, and happens once.
Remove(u) ==
  /\ Live(u)
  /\ rows' = [rows EXCEPT ![u] = SoftDelete(@)]
  /\ UNCHANGED <<creds, active>>

\* Some of the active roles give way to one role.
SwitchRole(u) ==
  /\ Exists(u)
  /\ \E r \in Roles, kept \in SUBSET active[u] :
       active' = [active EXCEPT ![u] = kept \cup {r}]
  /\ UNCHANGED <<rows, creds>>

\* All of the active roles give way to one role.
ReplaceRole(u) ==
  /\ Exists(u)
  /\ \E r \in Roles : active' = [active EXCEPT ![u] = {r}]
  /\ UNCHANGED <<rows, creds>>

Next == \E u \in UserIds : Register(u) \/ Revise(u) \/ Remove(u) \/ SwitchRole(u)
Spec == Init /\ [][Next]_dirVars

\* The directory as the comment on SetUserRole describes it.
NextExclusive == \E u \in UserIds : Register(u) \/ Revise(u) \/ Remove(u) \/ ReplaceRole(u)
ExclusiveSpec == Init /\ [][NextExclusive]_dirVars
=============================================================================
