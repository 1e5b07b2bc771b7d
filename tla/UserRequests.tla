----------------------------- MODULE UserRequests -----------------------------
(***************************************************************************)
(* The handlers of /api/v1/users (internal/user) running against           *)
(* PostgreSQL, one database statement per step.                            *)
(*                                                                         *)
(* Each handler is a goroutine that serves one request after another.      *)
(* Transactions run at READ COMMITTED, the default the pool is opened      *)
(* with: a statement sees what is committed when it starts, and its own    *)
(* transaction's writes; an UPDATE waits for the transaction that last     *)
(* wrote the row and then evaluates its WHERE clause again; an INSERT      *)
(* waits for a transaction that may decide whether its key is taken.       *)
(* tx[h] holds what the open transaction of h has written and nobody else  *)
(* can see.                                                                *)
(***************************************************************************)
EXTENDS Identity

CONSTANTS
  SeedRows, SeedRoles,  \* the directory the process is started on
  Handlers,             \* goroutines serving a request at the same time
  Requests,             \* the requests clients send
  MaxFaults             \* bound: failures and crashes in a behaviour

ASSUME SeedAssumption ==
  /\ SeedRows \in [UserIds -> Row]
  /\ SeedRoles \in [UserIds -> SUBSET Roles]
  /\ \A u \in UserIds : (SeedRows[u].status = "none") <=> (SeedRoles[u] = {})
  /\ \A u, v \in UserIds :
       u # v /\ SeedRows[u].status = "live" /\ SeedRows[v].status = "live"
         => Lower[SeedRows[u].email] # Lower[SeedRows[v].email]

ASSUME RequestAssumption == Requests \subseteq Request
ASSUME FaultAssumption == MaxFaults \in Nat

VARIABLES
  users,    \* identity.users, as committed
  creds,    \* the users with a committed row in identity.user_credentials
  ura,      \* identity.user_role_assignment, as committed
  tx,       \* the open transaction of each handler
  todo,     \* the role rows SetUserRole's first UPDATE has still to visit
  pc,       \* the next statement of each handler
  req,      \* the request it serves
  seen,     \* the user it has read or written, to be answered
  outcome,  \* the error or "ok" it answers with
  wrote,    \* history: what the request has committed so far
  faults    \* history: failures so far

db == <<users, creds, ura>>
vars == <<users, creds, ura, tx, todo, pc, req, seen, outcome, wrote, faults>>

-----------------------------------------------------------------------------
(* Transactions, locks and visibility.                                     *)

NoTx == [hold |-> "none", row |-> NoRow, cred |-> FALSE,
         roles |-> [r \in Roles |-> "keep"]]

Target(h) == req[h].target
Caller(h) == req[h].actor
Args(h) == req[h].body

Live(u) == u \in UserIds /\ users[u].status = "live"
Key(row) == Lower[row.email]
EmailTaken(email, except) ==
  \E v \in UserIds \ {except} : Live(v) /\ Key(users[v]) = Normalize(email)
ActiveRoles(u) == {r \in Roles : ura[u][r] = "active"}

\* The other open transactions that wrote the users row u.
RowHolders(h, u) == {g \in Handlers \ {h} : tx[g].hold # "none" /\ Target(g) = u}

\* ... that wrote or locked the row of role r of user u.
RoleHolders(h, u, r) ==
  {g \in Handlers \ {h} : tx[g].roles[r] # "keep" /\ Target(g) = u}

\* ... that decide whether uq_users_email admits this e-mail for user u: they
\* have an entry for it, or wrote the row whose entry is there.
KeyHolders(h, email, u) ==
  {g \in Handlers \ {h} :
     /\ tx[g].hold # "none" /\ Target(g) # u
     /\ \/ tx[g].hold = "indexed" /\ Key(tx[g].row) = Lower[email]
        \/ Live(Target(g)) /\ Key(users[Target(g)]) = Lower[email]}

\* The transactions the next statement of h has to wait for.
Blockers(h) ==
  CASE pc[h] \in {"update", "delete"} -> RowHolders(h, Target(h))
    [] pc[h] = "insert" -> KeyHolders(h, NewRow(Caller(h), Args(h)).email, Target(h))
    [] pc[h] = "index" -> KeyHolders(h, tx[h].row.email, Target(h))
    [] pc[h] = "deactivate" ->
         IF \E r \in todo[h] : RoleHolders(h, Target(h), r) = {} THEN {}
         ELSE UNION {RoleHolders(h, Target(h), r) : r \in todo[h]}
    [] pc[h] = "assign" -> RoleHolders(h, Target(h), Args(h).role)
    [] OTHER -> {}

\* A set of handlers each of which waits for another one of the set.
Tangled(S) == S # {} /\ \A g \in S : Blockers(g) \cap S # {}
Deadlocked(h) ==
  /\ Blockers(h) # {}
  /\ \E S \in SUBSET Handlers :
       h \in S /\ Tangled(S) /\ \A T \in (SUBSET S) \ {S} : ~Tangled(T)

-----------------------------------------------------------------------------
(* Progress of a handler.                                                  *)

Busy(h) == pc[h] \notin {"idle", "answered"}

\* To the next statement, or out of the handler with an error.
Goto(h, label) == pc' = [pc EXCEPT ![h] = label] /\ UNCHANGED outcome

\* Mistake: no deferred tx.Rollback, the transaction stays open.
ReturnWithoutRollback(h, result) ==
  /\ pc' = [pc EXCEPT ![h] = "answered"]
  /\ outcome' = [outcome EXCEPT ![h] = result]
  /\ todo' = [todo EXCEPT ![h] = {}]
  /\ UNCHANGED tx

\* The handler returns; a transaction it still has open is rolled back by
\* the deferred tx.Rollback.
Return(h, result) ==
  /\ pc' = [pc EXCEPT ![h] = "answered"]
  /\ outcome' = [outcome EXCEPT ![h] = result]
  /\ tx' = [tx EXCEPT ![h] = NoTx]
  /\ todo' = [todo EXCEPT ![h] = {}]

\* A check: go on when it finds no error.
Unless(h, error, label) ==
  IF error = "none" THEN Goto(h, label) /\ UNCHANGED <<tx, todo>>
  ELSE Return(h, error)

NoRequest == [op |-> "none"]
Unseen == [row |-> NoRow, roles |-> {}]

Init ==
  /\ users = SeedRows
  /\ creds = {u \in UserIds : SeedRows[u].status # "none"}
  /\ ura = [u \in UserIds |->
              [r \in Roles |-> IF r \in SeedRoles[u] THEN "active" ELSE "none"]]
  /\ tx = [h \in Handlers |-> NoTx]
  /\ todo = [h \in Handlers |-> {}]
  /\ pc = [h \in Handlers |-> "idle"]
  /\ req = [h \in Handlers |-> NoRequest]
  /\ seen = [h \in Handlers |-> Unseen]
  /\ outcome = [h \in Handlers |-> "none"]
  /\ wrote = [h \in Handlers |-> {}]
  /\ faults = 0

\* Ids gen_random_uuid() can still return.  An insert draws its id when it runs;
\* the id is chosen when the request arrives, which nobody can tell apart.
FreshIds ==
  {u \in UserIds : /\ users[u].status = "none"
                   /\ \A g \in Handlers : Busy(g) => Target(g) # u}

\* A request arrives: the checks that read no user row answer it or let it in.
Receive(h, q) ==
  LET error == RequestError(q.op, q.actor, q.target, q.respelled, q.body) IN
  /\ pc[h] = "idle"
  /\ \/ /\ error # "none" \/ q.op # "create"
        /\ req' = [req EXCEPT ![h] = q]
     \/ /\ error = "none" /\ q.op = "create"
        /\ \E u \in FreshIds : req' = [req EXCEPT ![h] = [q EXCEPT !.target = u]]
  /\ Unless(h, error, IF q.op = "create" THEN "email" ELSE "load")
  /\ UNCHANGED <<db, seen, wrote, faults>>

\* A handler's reply is sent, and the goroutine is free.
Reply(h) ==
  /\ pc[h] = "answered"
  /\ pc' = [pc EXCEPT ![h] = "idle"]
  /\ req' = [req EXCEPT ![h] = NoRequest]
  /\ seen' = [seen EXCEPT ![h] = Unseen]
  /\ outcome' = [outcome EXCEPT ![h] = "none"]
  /\ wrote' = [wrote EXCEPT ![h] = {}]
  /\ UNCHANGED <<db, tx, todo, faults>>

-----------------------------------------------------------------------------
(* Statements that only read.                                              *)

\* Mistake: a role in the body is left out.
ChangeNoRole(h) == Goto(h, "update") /\ UNCHANGED <<tx, todo>>

\* An update goes on to the role change when a role is given.
ChangeRole(h) ==
  IF Text(Args(h).role) = Blank THEN Goto(h, "update") /\ UNCHANGED <<tx, todo>>
  ELSE Unless(h, RoleError(Caller(h), Args(h).role), "scan")

\* GetByID, then what the operation decides from the row it was given.
ReadUser(h) ==
  LET u == Target(h) IN
  /\ pc[h] = "load"
  /\ IF ~Live(u) THEN Return(h, "userNotFound") /\ UNCHANGED seen
     ELSE IF ~CanAccess(Caller(h), users[u])
     THEN Return(h, "cannotAccessUser") /\ UNCHANGED seen
     ELSE /\ seen' = [seen EXCEPT ![h].row = users[u]]
          /\ CASE req[h].op = "get" -> Goto(h, "roles") /\ UNCHANGED <<tx, todo>>
               [] req[h].op = "delete" -> Goto(h, "delete") /\ UNCHANGED <<tx, todo>>
               [] req[h].op = "update" ->
                    IF UpdateOrgError(Caller(h), Args(h)) # "none"
                    THEN Return(h, UpdateOrgError(Caller(h), Args(h)))
                    ELSE IF Args(h).email # Absent
                    THEN Goto(h, "email") /\ UNCHANGED <<tx, todo>>
                    ELSE ChangeRole(h)
  /\ UNCHANGED <<db, req, wrote, faults>>

\* EmailExists for a create; hashing the password comes next.
CheckNewEmail(h) ==
  /\ pc[h] = "email" /\ req[h].op = "create"
  /\ IF EmailTaken(Args(h).email, Blank) THEN Return(h, "duplicateEmail")
     ELSE Unless(h, IF Args(h).password = "long" THEN "failed" ELSE "none", "procedure")
  /\ UNCHANGED <<db, req, seen, wrote, faults>>

\* Mistake: the address is compared as it was given, not in lower case.
CheckChangedEmailAsGiven(h) ==
  /\ pc[h] = "email" /\ req[h].op = "update"
  /\ IF \E v \in UserIds \ {Target(h)} : Live(v) /\ users[v].email = Args(h).email
     THEN Return(h, "duplicateEmail") ELSE ChangeRole(h)
  /\ UNCHANGED <<db, req, seen, wrote, faults>>

\* EmailExists for an update, with the user itself left out.
CheckChangedEmail(h) ==
  /\ pc[h] = "email" /\ req[h].op = "update"
  /\ IF EmailTaken(Args(h).email, Target(h)) THEN Return(h, "duplicateEmail")
     ELSE ChangeRole(h)
  /\ UNCHANGED <<db, req, seen, wrote, faults>>

\* loadRoles, a statement outside any transaction; then the answer.
LoadRoles(h) ==
  /\ pc[h] = "roles"
  /\ seen' = [seen EXCEPT ![h].roles = ActiveRoles(Target(h))]
  /\ Return(h, "ok")
  /\ UNCHANGED <<db, req, wrote, faults>>

-----------------------------------------------------------------------------
(* Create: one transaction.                                                *)

\* sp_manage_user, optype 2: the procedure's own EXISTS.
CheckInProcedure(h) ==
  /\ pc[h] = "procedure"
  /\ Unless(h, IF EmailTaken(Args(h).email, Blank) THEN "duplicateEmail" ELSE "none",
            "insert")
  /\ UNCHANGED <<db, req, seen, wrote, faults>>

\* Mistake: no unique index, the EXISTS is trusted.
InsertUserUnindexed(h) ==
  /\ pc[h] = "insert" /\ Blockers(h) = {}
  /\ Goto(h, "credentials")
  /\ tx' = [tx EXCEPT ![h].hold = "indexed", ![h].row = NewRow(Caller(h), Args(h))]
  /\ UNCHANGED <<db, todo, req, seen, wrote, faults>>

\* Mistake: the procedure is called on the pool, outside Create's transaction.
InsertUserAtOnce(h) ==
  /\ pc[h] = "insert" /\ Blockers(h) = {}
  /\ IF EmailTaken(Args(h).email, Target(h))
     THEN Return(h, "uniqueViolation") /\ UNCHANGED users
     ELSE /\ Goto(h, "credentials")
          /\ users' = [users EXCEPT ![Target(h)] = NewRow(Caller(h), Args(h))]
          /\ UNCHANGED <<tx, todo>>
  /\ UNCHANGED <<creds, ura, req, seen, wrote, faults>>

\* The procedure's INSERT, with the unique index; its error is not the one
\* isDuplicateEmailError recognizes.
InsertUser(h) ==
  /\ pc[h] = "insert" /\ Blockers(h) = {}
  /\ IF EmailTaken(Args(h).email, Target(h)) THEN Return(h, "uniqueViolation")
     ELSE /\ Goto(h, "credentials")
          /\ tx' = [tx EXCEPT ![h].hold = "indexed",
                              ![h].row = NewRow(Caller(h), Args(h))]
          /\ UNCHANGED todo
  /\ UNCHANGED <<db, req, seen, wrote, faults>>

InsertCredentials(h) ==
  /\ pc[h] = "credentials"
  /\ Goto(h, "role")
  /\ tx' = [tx EXCEPT ![h].cred = TRUE]
  /\ UNCHANGED <<db, todo, req, seen, wrote, faults>>

InsertRole(h) ==
  /\ pc[h] = "role"
  /\ Goto(h, "commit")
  /\ tx' = [tx EXCEPT ![h].roles[Args(h).role] = "active"]
  /\ UNCHANGED <<db, todo, req, seen, wrote, faults>>

-----------------------------------------------------------------------------
(* SetUserRole: one transaction of an update.                              *)

\* Mistake: the old roles are not deactivated.
ScanNoRoles(h) ==
  /\ pc[h] = "scan" /\ Goto(h, "assign")
  /\ UNCHANGED <<db, tx, todo, req, seen, wrote, faults>>

\* The first UPDATE starts, on the rows active in its snapshot.
ScanRoles(h) ==
  /\ pc[h] = "scan"
  /\ todo' = [todo EXCEPT ![h] = ActiveRoles(Target(h))]
  /\ Goto(h, IF ActiveRoles(Target(h)) = {} THEN "assign" ELSE "deactivate")
  /\ UNCHANGED <<db, tx, req, seen, wrote, faults>>

\* Mistake: the UPDATE runs on the pool, outside SetUserRole's transaction.
DeactivateRoleAtOnce(h) ==
  /\ pc[h] = "deactivate"
  /\ \E r \in todo[h] :
       /\ RoleHolders(h, Target(h), r) = {}
       /\ ura' = [ura EXCEPT ![Target(h)][r] = "inactive"]
       /\ todo' = [todo EXCEPT ![h] = @ \ {r}]
       /\ Goto(h, IF todo[h] = {r} THEN "assign" ELSE "deactivate")
  /\ UNCHANGED <<users, creds, tx, req, seen, wrote, faults>>

\* It visits a row, in an order nobody fixes: waits for its last writer, and
\* leaves it alone when it is no longer active.
DeactivateRole(h) ==
  /\ pc[h] = "deactivate"
  /\ \E r \in todo[h] :
       /\ RoleHolders(h, Target(h), r) = {}
       /\ tx' = [tx EXCEPT ![h].roles[r] =
                   IF ura[Target(h)][r] = "active" THEN "inactive" ELSE "locked"]
       /\ todo' = [todo EXCEPT ![h] = @ \ {r}]
       /\ Goto(h, IF todo[h] = {r} THEN "assign" ELSE "deactivate")
  /\ UNCHANGED <<db, req, seen, wrote, faults>>

\* Mistake: ON CONFLICT DO NOTHING.
AssignRoleUnlessThere(h) ==
  /\ pc[h] = "assign" /\ Blockers(h) = {}
  /\ Goto(h, "commitRole")
  /\ tx' = [tx EXCEPT ![h].roles[Args(h).role] =
              IF ura[Target(h)][Args(h).role] = "none" THEN "active" ELSE @]
  /\ UNCHANGED <<db, todo, req, seen, wrote, faults>>

\* INSERT ... ON CONFLICT DO UPDATE.
AssignRole(h) ==
  /\ pc[h] = "assign" /\ Blockers(h) = {}
  /\ Goto(h, "commitRole")
  /\ tx' = [tx EXCEPT ![h].roles[Args(h).role] = "active"]
  /\ UNCHANGED <<db, todo, req, seen, wrote, faults>>

-----------------------------------------------------------------------------
(* sp_manage_user, optypes 3 and 4: one transaction each.                  *)

\* Mistake: the UPDATE lacks is_deleted = FALSE.
UpdateRowBlind(h) ==
  /\ pc[h] = "update" /\ Blockers(h) = {}
  /\ Goto(h, "index")
  /\ tx' = [tx EXCEPT ![h].hold = "locked",
              ![h].row = Overwrite(users[Target(h)], Merge(Caller(h), Args(h), seen[h].row))]
  /\ UNCHANGED <<db, todo, req, seen, wrote, faults>>

\* UPDATE ... WHERE is_deleted = FALSE, on the row as it is once it is free.
UpdateRow(h) ==
  /\ pc[h] = "update" /\ Blockers(h) = {}
  /\ IF ~Live(Target(h)) THEN Return(h, "userNotFound")
     ELSE /\ Goto(h, "index")
          /\ tx' = [tx EXCEPT ![h].hold = "locked",
                       ![h].row = Overwrite(users[Target(h)],
                                    Merge(Caller(h), Args(h), seen[h].row))]
          /\ UNCHANGED todo
  /\ UNCHANGED <<db, req, seen, wrote, faults>>

\* Mistake: unique_violation is answered like the duplicate found by EmailExists,
\* though the role of the update has been committed.
IndexRowConflict(h) ==
  /\ pc[h] = "index" /\ Blockers(h) = {}
  /\ IF EmailTaken(tx[h].row.email, Target(h)) THEN Return(h, "duplicateEmail")
     ELSE Goto(h, "commit") /\ tx' = [tx EXCEPT ![h].hold = "indexed"] /\ UNCHANGED todo
  /\ UNCHANGED <<db, req, seen, wrote, faults>>

\* Mistake: a unique_violation is tried again.
IndexRowRetry(h) ==
  /\ pc[h] = "index" /\ Blockers(h) = {}
  /\ IF EmailTaken(tx[h].row.email, Target(h))
     THEN Goto(h, "update") /\ tx' = [tx EXCEPT ![h] = NoTx]
     ELSE Goto(h, "commit") /\ tx' = [tx EXCEPT ![h].hold = "indexed"]
  /\ UNCHANGED <<db, todo, req, seen, wrote, faults>>

\* Mistake: no unique index, EmailExists is trusted.
IndexRowUnindexed(h) ==
  /\ pc[h] = "index"
  /\ Goto(h, "commit")
  /\ tx' = [tx EXCEPT ![h].hold = "indexed"]
  /\ UNCHANGED <<db, todo, req, seen, wrote, faults>>

\* The same statement adds the new row version to uq_users_email.
IndexRow(h) ==
  /\ pc[h] = "index" /\ Blockers(h) = {}
  /\ IF EmailTaken(tx[h].row.email, Target(h)) THEN Return(h, "uniqueViolation")
     ELSE /\ Goto(h, "commit")
          /\ tx' = [tx EXCEPT ![h].hold = "indexed"]
          /\ UNCHANGED todo
  /\ UNCHANGED <<db, req, seen, wrote, faults>>

\* Mistake: the row is deleted for good.
DeleteRowHard(h) ==
  /\ pc[h] = "delete" /\ Blockers(h) = {}
  /\ IF ~Live(Target(h)) THEN Return(h, "userNotFound")
     ELSE /\ Goto(h, "commit") /\ UNCHANGED todo
          /\ tx' = [tx EXCEPT ![h].hold = "locked", ![h].row = NoRow]
  /\ UNCHANGED <<db, req, seen, wrote, faults>>

\* Mistake: the soft delete lacks is_deleted = FALSE.
DeleteRowBlind(h) ==
  /\ pc[h] = "delete" /\ Blockers(h) = {}
  /\ Goto(h, "commit")
  /\ tx' = [tx EXCEPT ![h].hold = "locked", ![h].row = SoftDelete(users[Target(h)])]
  /\ UNCHANGED <<db, todo, req, seen, wrote, faults>>

\* A soft delete: the row stays, no longer live.
DeleteRow(h) ==
  /\ pc[h] = "delete" /\ Blockers(h) = {}
  /\ IF ~Live(Target(h)) THEN Return(h, "userNotFound")
     ELSE /\ Goto(h, "commit")
          /\ tx' = [tx EXCEPT ![h].hold = "locked",
                              ![h].row = SoftDelete(users[Target(h)])]
          /\ UNCHANGED todo
  /\ UNCHANGED <<db, req, seen, wrote, faults>>

-----------------------------------------------------------------------------
(* Ends of transactions.                                                   *)

\* What the transaction wrote becomes visible, all at once.
Apply(h) ==
  LET u == Target(h) IN
  /\ users' = IF tx[h].hold = "none" THEN users ELSE [users EXCEPT ![u] = tx[h].row]
  /\ creds' = IF tx[h].cred THEN creds \cup {u} ELSE creds
  /\ ura' = [ura EXCEPT ![u] =
               [r \in Roles |-> IF tx[h].roles[r] \in {"active", "inactive"}
                                THEN tx[h].roles[r] ELSE @[r]]]
  /\ wrote' = [wrote EXCEPT ![h] = @ \cup
                 (IF tx[h].hold = "none" THEN {} ELSE {"row"}) \cup
                 (IF \E r \in Roles : tx[h].roles[r] # "keep" THEN {"roles"} ELSE {})]

\* The row's transaction commits; the answer carries the row it fetched.
Commit(h) ==
  /\ pc[h] = "commit"
  /\ Apply(h)
  /\ seen' = [seen EXCEPT ![h].row = tx[h].row]
  /\ IF req[h].op = "delete" THEN Return(h, "ok")
     ELSE Goto(h, "roles") /\ tx' = [tx EXCEPT ![h] = NoTx] /\ UNCHANGED todo
  /\ UNCHANGED <<req, faults>>

\* SetUserRole's transaction commits; the rest of the update is yet to come.
CommitRole(h) ==
  /\ pc[h] = "commitRole"
  /\ Apply(h)
  /\ Goto(h, "update")
  /\ tx' = [tx EXCEPT ![h] = NoTx]
  /\ UNCHANGED <<todo, req, seen, faults>>

\* PostgreSQL breaks a cycle of waiting transactions by failing one of them.
AbortDeadlock(h) ==
  /\ Deadlocked(h)
  /\ Return(h, "deadlockDetected")
  /\ UNCHANGED <<db, req, seen, wrote, faults>>

\* Any statement can fail, the client can go away, a handler can panic: the
\* transaction is rolled back and the answer is 500.
Fault(h) ==
  /\ Busy(h) /\ faults < MaxFaults
  /\ Return(h, "failed")
  /\ faults' = faults + 1
  /\ UNCHANGED <<db, req, seen, wrote>>

\* The COMMIT succeeds and the connection is lost before the handler knows.
LoseCommitAck(h) ==
  /\ pc[h] \in {"commit", "commitRole"} /\ faults < MaxFaults
  /\ Apply(h)
  /\ Return(h, "failed")
  /\ faults' = faults + 1
  /\ UNCHANGED <<req, seen>>

\* The process dies and is started again: requests are lost, the open
\* transactions are aborted, what was committed stays.
Crash ==
  /\ faults < MaxFaults
  /\ \E h \in Handlers : Busy(h)
  /\ faults' = faults + 1
  /\ tx' = [h \in Handlers |-> NoTx]
  /\ todo' = [h \in Handlers |-> {}]
  /\ pc' = [h \in Handlers |-> "idle"]
  /\ req' = [h \in Handlers |-> NoRequest]
  /\ seen' = [h \in Handlers |-> Unseen]
  /\ outcome' = [h \in Handlers |-> "none"]
  /\ wrote' = [h \in Handlers |-> {}]
  /\ UNCHANGED db

-----------------------------------------------------------------------------
Step(h) ==
  \/ ReadUser(h) \/ CheckNewEmail(h) \/ CheckChangedEmail(h) \/ LoadRoles(h)
  \/ CheckInProcedure(h) \/ InsertUser(h) \/ InsertCredentials(h) \/ InsertRole(h)
  \/ ScanRoles(h) \/ DeactivateRole(h) \/ AssignRole(h)
  \/ UpdateRow(h) \/ IndexRow(h) \/ DeleteRow(h)
  \/ Commit(h) \/ CommitRole(h)

Next ==
  \/ \E h \in Handlers :
       \/ \E q \in Requests : Receive(h, q)
       \/ Step(h) \/ Reply(h)
       \/ AbortDeadlock(h) \/ Fault(h) \/ LoseCommitAck(h)
  \/ Crash

Spec == Init /\ [][Next]_vars

\* A goroutine keeps running, and PostgreSQL hands a lock to its waiters in the
\* order they came: a statement that can run again and again does run.  A
\* deadlock is found after deadlock_timeout.
Fairness ==
  \A h \in Handlers : SF_vars(Step(h)) /\ WF_vars(AbortDeadlock(h))

FairSpec == Spec /\ Fairness

-----------------------------------------------------------------------------
(* What is to be true.                                                     *)

\* The shape of the state: every variable holds values of its kind.
Pending == {"keep", "locked", "inactive", "active"}
Labels == {"idle", "load", "email", "procedure", "insert", "credentials", "role",
           "scan", "deactivate", "assign", "commitRole", "update", "index",
           "delete", "commit", "roles", "answered"}

TypeOK ==
  /\ users \in [UserIds -> Row]
  /\ creds \in SUBSET UserIds
  /\ ura \in [UserIds -> [Roles -> {"none", "inactive", "active"}]]
  /\ tx \in [Handlers -> [hold : {"none", "locked", "indexed"}, row : Row,
                          cred : BOOLEAN, roles : [Roles -> Pending]]]
  /\ todo \in [Handlers -> SUBSET Roles]
  /\ pc \in [Handlers -> Labels]
  /\ req \in [Handlers -> Request \cup {NoRequest}]
  /\ seen \in [Handlers -> [row : Row, roles : SUBSET Roles]]
  /\ outcome \in [Handlers -> {"none", "ok"} \cup Refusals \cup Failures]
  /\ wrote \in [Handlers -> SUBSET {"row", "roles"}]
  /\ faults \in 0 .. MaxFaults

\* No two live users share an e-mail address, whatever its case, however the
\* checks of concurrent creates and updates interleave with their writes.
UniqueLiveEmail ==
  \A u, v \in UserIds : u # v /\ Live(u) /\ Live(v) => Key(users[u]) # Key(users[v])

\* A user exists with credentials and with an active role, or not at all:
\* failures between the inserts of Create, and role changes that interleave,
\* leave nobody half made or without a role.
CompleteAccounts ==
  \A u \in UserIds :
    IF users[u].status = "none"
    THEN u \notin creds /\ \A r \in Roles : ura[u][r] = "none"
    ELSE u \in creds /\ ActiveRoles(u) # {}

\* A deleted user stays as it was deleted: an update that read the user
\* before does not bring it back, nor change it.
DeletedIsFinal ==
  [][\A u \in UserIds : users[u].status = "deleted" => users'[u] = users[u]]_vars

\* Of two deletes of one user, one is told that the user is not there.
OneDeleteSucceeds ==
  \A g, h \in Handlers :
    /\ pc[g] = "answered" /\ req[g].op = "delete" /\ outcome[g] = "ok"
    /\ pc[h] = "answered" /\ req[h].op = "delete" /\ outcome[h] = "ok"
    /\ Target(g) = Target(h)
    => g = h

\* A request refused with 400, 403 or 409 has changed nothing, and one
\* answered 404 has not changed a user; what SetUserRole committed before the
\* user was deleted is all that can be left.
RefusalChangesNothing ==
  \A h \in Handlers :
    /\ Status(outcome[h]) \in {400, 403, 409} => wrote[h] = {}
    /\ Status(outcome[h]) = 404 => "row" \notin wrote[h]

\* A 200 or 201 is not sent before everything the request asked for has been
\* committed, and the user it carries has a role, though the row and the roles
\* are read by different statements.
SuccessIsComplete ==
  \A h \in Handlers :
    pc[h] = "answered" /\ outcome[h] = "ok" =>
      /\ req[h].op = "create" => wrote[h] = {"row", "roles"}
      /\ req[h].op = "update" =>
           wrote[h] = {"row"} \cup IF Text(Args(h).role) = Blank THEN {} ELSE {"roles"}
      /\ req[h].op = "delete" => wrote[h] = {"row"}
      /\ req[h].op # "delete" => seen[h].roles # {}

\* The transaction of h has written something.
Writes(h) == tx[h].hold # "none" \/ \E r \in Roles : tx[h].roles[r] # "keep"

\* What an organization's admin has pending for a user who is there is for one of
\* its own organization, as the row is now and not only as it was read: "cannot
\* access user outside your organization".  A request that moves the user after the
\* row was read breaks it, and nothing else does.
OrgAdminsReachTheirOrgOnly ==
  \A h \in Handlers :
    Busy(h) /\ ~IsSuperAdmin(Caller(h)) /\ req[h].op # "create" /\ Writes(h)
      => users[Target(h)].org = Caller(h).org

\* Every request is answered: no handler waits for a lock for ever.
RequestsAreAnswered == \A h \in Handlers : Busy(h) ~> ~Busy(h)

\* The statements of h whose guard holds: it is not one that waits for a lock,
\* or the lock is free.
Ready(h) ==
  \/ pc[h] = "load" /\ req[h].op \in {"get", "update", "delete"}
  \/ pc[h] = "email" /\ req[h].op \in {"create", "update"}
  \/ pc[h] \in {"procedure", "credentials", "role", "scan", "commitRole", "commit", "roles"}
  \/ pc[h] \in {"insert", "assign", "update", "index", "delete"} /\ Blockers(h) = {}
  \/ pc[h] = "deactivate" /\ \E r \in todo[h] : RoleHolders(h, Target(h), r) = {}

\* Handlers that wait for each other only, and one of which serves a request,
\* never all wait for good: one of them can run its next statement, or
\* PostgreSQL finds the cycle one of them is in.  Locks are held by handlers
\* that will let them go, so nobody waits for a transaction left open.
NeverStuck ==
  \A S \in SUBSET Handlers :
    (\E h \in S : Busy(h)) /\ (\A g \in S : Blockers(g) \subseteq S)
      => \E g \in S : Busy(g) /\ (Ready(g) \/ Deadlocked(g))

\* How many statements a request can still run from a label on, where the roles
\* in visits are still to be visited.
Rank == [idle |-> 0, answered |-> 0, roles |-> 1, commit |-> 2,
         role |-> 3, index |-> 3, delete |-> 3, credentials |-> 4, update |-> 4,
         insert |-> 5, commitRole |-> 5, procedure |-> 6, assign |-> 6,
         deactivate |-> 6, scan |-> 7, email |-> 8, load |-> 9]
StatementsFrom(label, visits) ==
  Rank[label] + (IF label = "deactivate" THEN Cardinality(visits)
                 ELSE IF label \in {"load", "email", "scan"} THEN Cardinality(Roles)
                 ELSE 0)
StatementsLeft(h) == StatementsFrom(pc[h], todo[h])

\* A request never runs a statement again: whatever a step does to a busy
\* handler brings it nearer to its answer, also after a violated index, a
\* deadlock or a failed statement, so it runs at most 9 + Cardinality(Roles).
RequestsAdvance ==
  [][\A h \in Handlers : Busy(h) =>
       \/ StatementsLeft(h)' < StatementsLeft(h)
       \/ UNCHANGED <<pc[h], todo[h], tx[h], req[h]>>]_vars

\* Role changes that meet each other can leave a user more than one active
\* role, but never more than there are handlers, however often they meet: the
\* next change takes away what its handler left there.
NoMoreRolesThanHandlers ==
  \A u \in UserIds : Cardinality(ActiveRoles(u)) <= Cardinality(Handlers)

\* The comment on SetUserRole: it "replaces the active role assignment".
AtMostOneActiveRole == \A u \in UserIds : Cardinality(ActiveRoles(u)) <= 1

\* The API description: a duplicate e-mail is answered with a conflict (409).
DuplicateEmailIsConflict ==
  \A h \in Handlers : outcome[h] # "uniqueViolation"

\* The directory these handlers implement.
Dir == INSTANCE UserDirectory WITH rows <- users, creds <- creds,
         active <- [u \in UserIds |-> ActiveRoles(u)]

\* Every step of a handler is a step of the abstract directory or invisible.
ImplementsDirectory == Dir!Spec

\* One handler alone replaces the whole set of roles.
ImplementsExclusiveDirectory == Dir!ExclusiveSpec
=============================================================================
