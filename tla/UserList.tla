------------------------------- MODULE UserList -------------------------------
(***************************************************************************)
(* GET /api/v1/users: one statement reads every live user, one more for    *)
(* each of them reads its roles, and the service keeps the users the actor *)
(* may see.  Other requests change the users between any two of these      *)
(* statements; what they do is UserDirectory, which the handlers of        *)
(* UserRequests implement.  A listing changes nothing, so one at a time is *)
(* enough.                                                                 *)
(***************************************************************************)
EXTENDS Identity

CONSTANTS
  SeedRows, SeedRoles,  \* the directory the process is started on
  Actors,               \* who asks
  Profiles,             \* bound: the rows other requests write
  MaxChanges            \* bound: changes of the directory

ASSUME DirectoryAssumption ==
  /\ SeedRows \in [UserIds -> Row]
  /\ SeedRoles \in [UserIds -> SUBSET Roles]
  /\ \A u \in UserIds : SeedRows[u].status # "none" => SeedRoles[u] # {}
  /\ \A u, v \in UserIds :
       u # v /\ SeedRows[u].status = "live" /\ SeedRows[v].status = "live"
         => Lower[SeedRows[u].email] # Lower[SeedRows[v].email]

ASSUME ListAssumption == Actors \subseteq Actor /\ MaxChanges \in Nat

VARIABLES
  rows, creds, active,  \* the identity tables
  pc,         \* the next step of the request
  actor,      \* the claims of its token
  listed,     \* the users it has read, NoRow for the others
  todo,       \* those whose roles it has still to read
  roles,      \* the roles it has read
  outcome,    \* the error or "ok" that is answered
  witnessed,  \* history: the directories there have been since it arrived
  changes     \* history: changes of the directory so far

tables == <<rows, creds, active>>
listing == <<pc, actor, listed, todo, roles, outcome>>
vars == <<tables, listing, witnessed, changes>>

Dir == INSTANCE UserDirectory

Nobody == [user |-> Blank]
NoList == [u \in UserIds |-> NoRow]
NoRoles == [u \in UserIds |-> {}]
Moment == [rows |-> rows, active |-> active]

Init ==
  /\ Dir!Init
  /\ pc = "idle" /\ actor = Nobody
  /\ listed = NoList /\ todo = {} /\ roles = NoRoles
  /\ outcome = "none"
  /\ witnessed = {} /\ changes = 0

-----------------------------------------------------------------------------

\* Service.List asks for a user manager first.
List(a) ==
  /\ pc = "idle"
  /\ actor' = a
  /\ witnessed' = {Moment}
  /\ IF IsUserManager(a) THEN pc' = "read" /\ UNCHANGED outcome
     ELSE pc' = "answered" /\ outcome' = "forbidden"
  /\ UNCHANGED <<tables, listed, todo, roles, changes>>

\* Mistake: the statement lacks is_deleted = FALSE.
ReadDeleted ==
  /\ pc = "read"
  /\ pc' = "roles"
  /\ listed' = rows
  /\ todo' = {u \in UserIds : Dir!Exists(u)}
  /\ UNCHANGED <<tables, actor, roles, outcome, witnessed, changes>>

\* sp_manage_user with optype 5, in a transaction of its own: its cursor shows the
\* directory of one moment.
Read ==
  /\ pc = "read"
  /\ pc' = "roles"
  /\ listed' = [u \in UserIds |-> IF Dir!Live(u) THEN rows[u] ELSE NoRow]
  /\ todo' = {u \in UserIds : Dir!Live(u)}
  /\ UNCHANGED <<tables, actor, roles, outcome, witnessed, changes>>

\* loadRoles, in a statement of its own, of a user that may be gone by now.
LoadRoles(u) ==
  /\ pc = "roles" /\ u \in todo
  /\ todo' = todo \ {u}
  /\ roles' = [roles EXCEPT ![u] = active[u]]
  /\ UNCHANGED <<tables, pc, actor, listed, outcome, witnessed, changes>>

\* Mistake: users are filtered by the organization they are in by now.
FilterAfresh ==
  /\ pc = "roles" /\ todo = {}
  /\ pc' = "answered" /\ outcome' = "ok"
  /\ listed' = [u \in UserIds |->
                  IF listed[u] # NoRow /\ CanAccess(actor, rows[u]) THEN listed[u] ELSE NoRow]
  /\ UNCHANGED <<tables, actor, todo, roles, witnessed, changes>>

\* A super admin is answered all of them, another the users of the organization in
\* its token.
Filter ==
  /\ pc = "roles" /\ todo = {}
  /\ pc' = "answered" /\ outcome' = "ok"
  /\ listed' = [u \in UserIds |->
                  IF listed[u] # NoRow /\ CanAccess(actor, listed[u]) THEN listed[u] ELSE NoRow]
  /\ UNCHANGED <<tables, actor, todo, roles, witnessed, changes>>

\* Mistake: a user whose roles cannot be read is answered without them.
FaultSkipped ==
  /\ pc = "roles"
  /\ \E u \in todo : todo' = todo \ {u}
  /\ UNCHANGED <<tables, pc, actor, listed, roles, outcome, witnessed, changes>>

\* A statement fails, or the client goes away, and nothing of the list is answered.
Fault ==
  /\ pc \in {"read", "roles"}
  /\ pc' = "answered" /\ outcome' = "failed"
  /\ listed' = NoList /\ todo' = {}
  /\ UNCHANGED <<tables, actor, roles, witnessed, changes>>

Reply ==
  /\ pc = "answered"
  /\ pc' = "idle" /\ actor' = Nobody
  /\ listed' = NoList /\ roles' = NoRoles
  /\ outcome' = "none" /\ witnessed' = {}
  /\ UNCHANGED <<tables, todo, changes>>

\* Another request changes the users.
Change ==
  /\ changes < MaxChanges
  /\ Dir!Next
  /\ \A u \in UserIds :
       rows'[u] = rows[u] \/ rows'[u].status = "deleted" \/ rows'[u] \in Profiles
  /\ changes' = changes + 1
  /\ witnessed' = IF pc = "idle" THEN {}
                  ELSE witnessed \cup {[rows |-> rows', active |-> active']}
  /\ UNCHANGED listing

Next ==
  \/ \E a \in Actors : List(a)
  \/ Read \/ (\E u \in UserIds : LoadRoles(u)) \/ Filter \/ Fault \/ Reply
  \/ Change

Spec == Init /\ [][Next]_vars

-----------------------------------------------------------------------------
(* What is to be true.                                                     *)

Shown == {u \in UserIds : listed[u] # NoRow}

\* The shape of the state.
TypeOK ==
  /\ rows \in [UserIds -> Row]
  /\ creds \in SUBSET UserIds
  /\ active \in [UserIds -> SUBSET Roles]
  /\ pc \in {"idle", "read", "roles", "answered"}
  /\ actor \in Actor \cup {Nobody}
  /\ listed \in [UserIds -> Row]
  /\ todo \in SUBSET UserIds
  /\ roles \in [UserIds -> SUBSET Roles]
  /\ outcome \in {"none", "ok", "forbidden", "failed"}
  /\ witnessed \in SUBSET [rows : [UserIds -> Row], active : [UserIds -> SUBSET Roles]]
  /\ changes \in Nat

\* The users that are answered are those of one moment since the request arrived:
\* of a super admin all the live users of that moment, of an ORG_ADMIN those of its
\* organization, none of them missing and none of another organization among them,
\* though users come, go and move between the statements.
ListIsOfOneMoment ==
  outcome = "ok" =>
    \E m \in witnessed :
      /\ Shown = {u \in UserIds :
                    m.rows[u].status = "live"
                      /\ (IsSuperAdmin(actor) \/ m.rows[u].org = actor.org)}
      /\ \A u \in Shown : listed[u] = m.rows[u]

\* The roles with them are those a user really held at a moment since the request
\* arrived, and nobody is shown without a role: a change of roles is never seen
\* half done, and a user deleted meanwhile is shown with its roles.
RolesWereHeld ==
  outcome = "ok" =>
    \A u \in Shown : roles[u] # {} /\ \E m \in witnessed : roles[u] = m.active[u]

\* No address is in the list twice, though an address is free again as soon as its
\* user is deleted or renamed.
NoAddressTwice ==
  outcome = "ok" =>
    \A u, v \in Shown : u # v => Lower[listed[u].email] # Lower[listed[v].email]
=============================================================================
