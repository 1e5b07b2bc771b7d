---------------------------- MODULE UserRequestsInv ----------------------------
(***************************************************************************)
(* The inductive invariants of UserRequests.  IndInv: what each handler    *)
(* may rely on at each of its statements, and how the open transactions    *)
(* keep out of each other's way.  History, inductive beside it: what each  *)
(* request has written, pending and committed, when it gets where it is.   *)
(***************************************************************************)
EXTENDS UserRequests

Op(h) == req[h].op

\* The labels a request of each kind goes through.
CreateLabels == {"email", "procedure", "insert", "credentials", "role", "commit"}
RoleLabels == {"scan", "deactivate", "assign", "commitRole"}
UpdateLabels == {"email", "update", "index", "commit"} \cup RoleLabels
DeleteLabels == {"delete", "commit"}

\* A create whose transaction has not ended.
Creating(h) == Op(h) = "create" /\ pc[h] \in CreateLabels
\* A request that has found its user.
Found(h) == Op(h) # "create" /\ pc[h] \in UpdateLabels \cup DeleteLabels \cup {"roles"}

\* A busy handler serves a request that passed the checks before the first
\* statement, at a label of its kind.
Admitted(h) ==
  Busy(h) =>
    /\ req[h] \in Request
    /\ RequestError(Op(h), Caller(h), Target(h), req[h].respelled, Args(h)) = "none"
    /\ pc[h] \in CASE Op(h) = "create" -> CreateLabels \cup {"roles"}
                   [] Op(h) = "update" -> UpdateLabels \cup {"load", "roles"}
                   [] Op(h) = "delete" -> DeleteLabels \cup {"load"}
                   [] Op(h) = "get" -> {"load", "roles"}
    /\ Creating(h) \/ Found(h) => Target(h) \in UserIds

\* What an update has established when it reaches a statement: the row it read
\* was live and within reach, and the organization and role it will write are.
UpdateReady(h) ==
  Op(h) = "update" =>
    /\ pc[h] \in UpdateLabels =>
         /\ seen[h].row \in UserRow
         /\ CanAccess(Caller(h), seen[h].row)
         /\ UpdateOrgError(Caller(h), Args(h)) = "none"
    /\ pc[h] \in RoleLabels => RoleError(Caller(h), Args(h).role) = "none"

\* What the open transaction holds at each label.
Holding(h) ==
  /\ pc[h] \notin {"credentials", "role", "commit", "deactivate", "assign",
                   "commitRole", "index"} => tx[h] = NoTx
  /\ pc[h] \in {"deactivate", "assign", "commitRole"} =>
       tx[h].hold = "none" /\ ~tx[h].cred
  /\ pc[h] = "commitRole" => tx[h].roles[Args(h).role] = "active"
  /\ pc[h] = "index" => tx[h].hold = "locked"
  /\ pc[h] \in {"credentials", "role"} => tx[h].hold = "indexed"
  /\ pc[h] = "commit" =>
       tx[h].hold = IF Op(h) = "delete" THEN "locked" ELSE "indexed"
  /\ pc[h] \in {"credentials", "role", "commit", "index"} =>
       /\ tx[h].row \in UserRow
       /\ tx[h].row.status = IF Op(h) = "delete" THEN "deleted" ELSE "live"
       /\ tx[h].cred = (Op(h) = "create" /\ pc[h] # "credentials")
       /\ IF Op(h) = "create" /\ pc[h] = "commit"
          THEN tx[h].roles[Args(h).role] = "active"
          ELSE tx[h].roles = NoTx.roles

Local == \A h \in Handlers : Admitted(h) /\ UpdateReady(h) /\ Holding(h)

\* The committed row behind each request: not there yet for a create, there
\* for good once found, and live as long as the transaction holds it.
Present ==
  \A h \in Handlers :
    /\ Busy(h) /\ Creating(h) => users[Target(h)].status = "none"
    /\ Busy(h) /\ Found(h) => users[Target(h)].status # "none"
    /\ tx[h].hold # "none" /\ Op(h) # "create" => Live(Target(h))

\* No two transactions hold one users row, and no two creates draw one id.
Exclusive ==
  \A g, h \in Handlers : g # h =>
    /\ tx[g].hold # "none" /\ tx[h].hold # "none" => Target(g) # Target(h)
    /\ Busy(g) /\ Creating(g) /\ Busy(h) /\ Creating(h) => Target(g) # Target(h)

\* An entry in uq_users_email that is not committed yet meets no live row of
\* another user and no other such entry.
PendingKeys ==
  \A h \in Handlers : tx[h].hold = "indexed" =>
    /\ \A v \in UserIds \ {Target(h)} : Live(v) => Key(users[v]) # Key(tx[h].row)
    /\ \A g \in Handlers \ {h} :
         tx[g].hold = "indexed" => Key(tx[g].row) # Key(tx[h].row)

IndInv ==
  TypeOK /\ Local /\ Present /\ Exclusive /\ PendingKeys
  /\ UniqueLiveEmail /\ CompleteAccounts

-----------------------------------------------------------------------------
\* A transaction makes one role active, the one asked for, by its last insert.
RolesSet(h) ==
  \A r \in Roles : tx[h].roles[r] = "active" <=>
    /\ pc[h] = "commitRole" \/ (pc[h] = "commit" /\ Op(h) = "create")
    /\ r = Args(h).role

\* What a transaction has written into the row: an organization's admin its own
\* organization, a delete nothing but the deletion.
RowSet(h) ==
  tx[h].hold # "none" =>
    IF Op(h) = "delete" THEN tx[h].row = SoftDelete(users[Target(h)])
    ELSE ~IsSuperAdmin(Caller(h)) => tx[h].row.org = Caller(h).org

\* A delete that has answered 200 has left its user deleted.
DeleteDone(h) ==
  pc[h] = "answered" /\ Op(h) = "delete" /\ outcome[h] = "ok" =>
    Target(h) \in UserIds /\ users[Target(h)].status = "deleted"

\* The roles are read of a user that is there.
Answering(h) ==
  pc[h] = "roles" => Target(h) \in UserIds /\ users[Target(h)].status # "none"

RolesAsked(h) ==
  IF Op(h) = "update" /\ Text(Args(h).role) # Blank THEN {"roles"} ELSE {}

\* What a request has committed by the time it is at its label.
Committed(h) ==
  IF pc[h] = "roles"
  THEN CASE Op(h) = "create" -> {"row", "roles"}
         [] Op(h) = "update" -> {"row"} \cup RolesAsked(h)
         [] OTHER -> {}
  ELSE IF pc[h] \in {"update", "index"} \/ (pc[h] = "commit" /\ Op(h) = "update")
  THEN RolesAsked(h) ELSE {}

\* What an answer says of what was committed.
Honest(h) ==
  /\ Status(outcome[h]) \in {400, 403, 409} => wrote[h] = {}
  /\ Status(outcome[h]) = 404 => "row" \notin wrote[h]
  /\ outcome[h] = "ok" =>
       /\ Op(h) = "create" => wrote[h] = {"row", "roles"}
       /\ Op(h) = "update" => wrote[h] = {"row"} \cup RolesAsked(h)
       /\ Op(h) = "delete" => wrote[h] = {"row"}
       /\ Op(h) # "delete" => seen[h].roles # {}

Ledger(h) ==
  IF pc[h] = "answered" THEN Honest(h)
  ELSE outcome[h] = "none" /\ wrote[h] = Committed(h)

Record(h) == RolesSet(h) /\ RowSet(h) /\ DeleteDone(h) /\ Answering(h) /\ Ledger(h)

History == \A h \in Handlers : Record(h)
=============================================================================
