------------------------- MODULE UserRequestsPromises -------------------------
(***************************************************************************)
(* Proofs about what UserRequests tells its clients: History is inductive  *)
(* beside IndInv, and with it the answers, the limits of an organization's *)
(* admin and the refinement of UserDirectory follow.                       *)
(***************************************************************************)
EXTENDS UserRequestsProofs, UserRequestsHomes

-----------------------------------------------------------------------------
(* A step of one handler, for the others.                                  *)

OthersStay(h) ==
  \A g \in Handlers \ {h} :
    /\ pc'[g] = pc[g] /\ tx'[g] = tx[g] /\ req'[g] = req[g]
    /\ seen'[g] = seen[g] /\ outcome'[g] = outcome[g] /\ wrote'[g] = wrote[g]

\* No row that is held or deleted changes, and none disappears.
RowsStay(h) ==
  /\ \A u \in UserIds : users[u].status # "none" => users'[u].status # "none"
  /\ \A u \in UserIds : users[u].status = "deleted" => users'[u] = users[u]
  /\ \A g \in Handlers \ {h} :
       tx[g].hold # "none" => users'[Target(g)] = users[Target(g)]

\* A step of h keeps what the other handlers have on record.
LEMMA OthersHistory ==
  ASSUME History, NEW h \in Handlers, OthersStay(h), RowsStay(h), Record(h)'
  PROVE  History'
<1> SUFFICES ASSUME NEW g \in Handlers \ {h}
             PROVE  Record(g)'
  BY DEF History
<1>1. /\ pc'[g] = pc[g] /\ tx'[g] = tx[g] /\ req'[g] = req[g]
      /\ seen'[g] = seen[g] /\ outcome'[g] = outcome[g] /\ wrote'[g] = wrote[g]
  BY DEF OthersStay
<1>2. RolesSet(g) /\ RowSet(g) /\ DeleteDone(g) /\ Answering(g) /\ Ledger(g)
  BY DEF History, Record
<1>3. RolesSet(g)'
  BY <1>1, <1>2 DEF RolesSet, Op, Args
<1>4. RowSet(g)'
  BY <1>1, <1>2 DEF RowSet, RowsStay, Op, Caller, Target
<1>5. DeleteDone(g)'
  BY <1>1, <1>2 DEF DeleteDone, RowsStay, Op, Target
<1>6. Ledger(g)'
  BY <1>1, <1>2 DEF Ledger, Honest, Committed, RolesAsked, Op, Args
<1>7. Answering(g)'
  BY <1>1, <1>2 DEF Answering, RowsStay, Target
<1> QED
  BY <1>3, <1>4, <1>5, <1>6, <1>7 DEF Record

\* A handler that answers with an error, at a point where the error is honest.
LEMMA RefusedHistory ==
  ASSUME TypeOK, History, NEW h \in Handlers, NEW result \in Errors, Return(h, result),
         UNCHANGED <<users, wrote>>,
         \A g \in Handlers \ {h} : req'[g] = req[g] /\ seen'[g] = seen[g],
         \/ wrote[h] = {}
         \/ Status(result) = 500
         \/ Status(result) = 404 /\ "row" \notin wrote[h]
  PROVE  History'
<1>1. result # "ok" /\ result \in Outcomes
  BY DEF Errors, Refusals, Failures, Outcomes
<1>2. pc'[h] = "answered" /\ tx'[h] = NoTx /\ outcome'[h] = result /\ OthersRun(h)
  BY <1>1, ReturnEffect
<1>3. OthersStay(h) /\ RowsStay(h)
  BY <1>2 DEF OthersStay, RowsStay, OthersRun, Return, TypeOK
<1>4. RolesSet(h)' /\ RowSet(h)' /\ DeleteDone(h)' /\ Answering(h)'
  BY <1>1, <1>2 DEF RolesSet, RowSet, DeleteDone, Answering, NoTx
<1>5. Honest(h)'
  BY <1>1, <1>2 DEF Honest
<1> QED
  BY <1>2, <1>3, <1>4, <1>5, OthersHistory DEF Record, Ledger

\* A handler that goes on to a label at which nothing more has been committed.
LEMMA MovedHistory ==
  ASSUME History, NEW h \in Handlers, pc[h] # "answered", pc'[h] # "answered",
         OthersKeep(h), UNCHANGED <<users, outcome, wrote>>,
         pc'[h] = "roles" => Live(Target(h))',
         Committed(h)' = Committed(h), RolesSet(h)', RowSet(h)'
  PROVE  History'
<1>1. OthersStay(h) /\ RowsStay(h)
  BY DEF OthersStay, RowsStay, OthersKeep, OthersRun
<1>2. Ledger(h)' /\ DeleteDone(h)' /\ Answering(h)'
  BY DEF History, Record, Ledger, DeleteDone, Answering, Live, Target
<1> QED
  BY <1>1, <1>2, OthersHistory DEF Record

\* The labels of a request before its first write; nothing is committed there.
EarlyLabels == {"load", "email", "procedure", "insert", "scan", "delete"}

\* A check before the first write answers or goes on.
LEMMA CheckedHistory ==
  ASSUME TypeOK, History, NEW h \in Handlers, pc[h] \in EarlyLabels \cup {"idle"},
         tx[h] = NoTx, UNCHANGED <<users, wrote>>,
         \A g \in Handlers \ {h} : req'[g] = req[g] /\ seen'[g] = seen[g],
         NEW error \in {"none"} \cup Errors, NEW label \in EarlyLabels,
         Unless(h, error, label)
  PROVE  History'
<1>1. wrote[h] = {} /\ pc[h] # "answered"
  BY DEF History, Record, Ledger, Committed, EarlyLabels
<1>2. CASE error # "none"
  BY <1>1, <1>2, RefusedHistory DEF Unless
<1>3. CASE error = "none"
  <2>1. label \in Labels /\ UNCHANGED <<tx, todo, outcome>>
    BY <1>3 DEF EarlyLabels, Labels, Unless, Goto
  <2>2. pc'[h] = label /\ tx'[h] = tx[h] /\ OthersRun(h)
    BY <1>3, <2>1, GotoEffect DEF Unless
  <2>3. Committed(h)' = Committed(h)
    BY <2>2 DEF Committed, EarlyLabels
  <2>4. RolesSet(h)' /\ RowSet(h)'
    BY <2>2 DEF RolesSet, RowSet, NoTx, EarlyLabels
  <2> QED
    BY <1>1, <2>1, <2>2, <2>3, <2>4, MovedHistory DEF OthersKeep, EarlyLabels
<1> QED
  BY <1>2, <1>3

-----------------------------------------------------------------------------
(* The statements in turn.                                                 *)

\* An update that goes on to its role change, or straight to its row when no
\* role was asked for.
LEMMA ChangeRoleHistory ==
  ASSUME TypeOK, History, NEW h \in Handlers, ChangeRole(h), pc[h] \in EarlyLabels,
         tx[h] = NoTx, UNCHANGED <<users, req, wrote>>,
         \A g \in Handlers \ {h} : seen'[g] = seen[g]
  PROVE  History'
<1>1. CASE Text(Args(h).role) = Blank
  <2>1. Goto(h, "update") /\ UNCHANGED <<tx, todo, outcome>>
    BY <1>1 DEF ChangeRole, Goto
  <2>2. pc'[h] = "update" /\ tx'[h] = tx[h] /\ OthersRun(h)
    BY <2>1, GotoEffect DEF Labels
  <2>3. Committed(h)' = Committed(h)
    BY <1>1, <2>2 DEF Committed, EarlyLabels, RolesAsked, Args, Op
  <2>4. RolesSet(h)' /\ RowSet(h)'
    BY <2>2 DEF RolesSet, RowSet, NoTx
  <2> QED
    BY <2>1, <2>2, <2>3, <2>4, MovedHistory DEF OthersKeep, EarlyLabels
<1>2. CASE Text(Args(h).role) # Blank
  <2>1. RoleError(Caller(h), Args(h).role) \in {"none"} \cup Errors
    BY ErrorTypes
  <2> QED
    BY <1>2, <2>1, CheckedHistory DEF ChangeRole, EarlyLabels
<1> QED
  BY <1>1, <1>2

\* GetByID answers, or goes on as the operation goes on.
LEMMA ReadUserHistory ==
  ASSUME TypeOK, Local, History, NEW h \in Handlers, ReadUser(h)
  PROVE  History'
<1>1. /\ pc[h] = "load" /\ pc[h] \in EarlyLabels /\ UNCHANGED <<users, req, wrote>>
      /\ tx[h] = NoTx /\ Busy(h) /\ req[h] \in Request /\ Op(h) # "create"
  BY DEF ReadUser, EarlyLabels, db, Local, Holding, Admitted, Busy, CreateLabels
<1>2. \A g \in Handlers \ {h} : seen'[g] = seen[g]
  BY DEF ReadUser, TypeOK
<1>3. wrote[h] = {}
  BY <1>1 DEF History, Record, Ledger, Committed
<1>4. {"userNotFound", "cannotAccessUser"} \subseteq Errors
  BY DEF Errors, Refusals
<1>5. UpdateOrgError(Caller(h), Args(h)) \in {"none"} \cup Errors
  BY ErrorTypes
<1>6. ASSUME NEW error \in Errors, Return(h, error)
      PROVE  History'
  BY <1>1, <1>2, <1>3, <1>6, RefusedHistory
<1>7. ASSUME NEW label \in {"delete", "email"}, Goto(h, label), UNCHANGED <<tx, todo>>
      PROVE  History'
  BY <1>1, <1>2, <1>7, CheckedHistory DEF Unless, EarlyLabels
<1>8. ASSUME Op(h) = "get", Live(Target(h)), Goto(h, "roles"), UNCHANGED <<tx, todo>>
      PROVE  History'
  <2>1. pc'[h] = "roles" /\ tx'[h] = tx[h] /\ OthersRun(h) /\ outcome' = outcome
    BY <1>8, GotoEffect DEF Labels, Goto
  <2>2. Committed(h)' = Committed(h)
    BY <1>1, <1>8, <2>1 DEF Committed, Op
  <2>3. RolesSet(h)' /\ RowSet(h)'
    BY <1>1, <2>1 DEF RolesSet, RowSet, NoTx
  <2>4. Live(Target(h))'
    BY <1>1, <1>8 DEF Live, Target
  <2> QED
    BY <1>1, <1>2, <2>1, <2>2, <2>3, <2>4, MovedHistory DEF OthersKeep
<1>9. ASSUME ChangeRole(h)
      PROVE  History'
  BY <1>1, <1>2, <1>9, ChangeRoleHistory
<1> QED
  BY <1>1, <1>4, <1>5, <1>6, <1>7, <1>8, <1>9 DEF ReadUser, Op, Request, Operations

\* The checks of the address.
LEMMA CheckHistory ==
  ASSUME TypeOK, Local, History, NEW h \in Handlers,
         CheckNewEmail(h) \/ CheckChangedEmail(h) \/ CheckInProcedure(h)
  PROVE  History'
<1>1. /\ pc[h] \in EarlyLabels /\ tx[h] = NoTx /\ UNCHANGED <<users, req, wrote, seen>>
  BY DEF CheckNewEmail, CheckChangedEmail, CheckInProcedure, EarlyLabels, db, Local, Holding
<1>2. wrote[h] = {}
  BY <1>1 DEF History, Record, Ledger, Committed, EarlyLabels
<1>3. {"duplicateEmail", "failed"} \subseteq Errors
  BY DEF Errors, Refusals, Failures
<1>4. CASE Return(h, "duplicateEmail")
  BY <1>1, <1>2, <1>3, <1>4, RefusedHistory
<1>5. CASE ChangeRole(h)
  BY <1>1, <1>5, ChangeRoleHistory
<1>6. CASE \E e \in {"none", "duplicateEmail", "failed"}, label \in {"procedure", "insert"} :
             Unless(h, e, label)
  BY <1>1, <1>3, <1>6, CheckedHistory DEF EarlyLabels
<1> QED
  BY <1>4, <1>5, <1>6 DEF CheckNewEmail, CheckChangedEmail, CheckInProcedure

\* The answer of a request that has read or written its row: complete, and with a
\* role in it.
LEMMA LoadRolesHistory ==
  ASSUME TypeOK, Local, Shared, History, NEW h \in Handlers, LoadRoles(h)
  PROVE  History'
<1>1. /\ pc[h] = "roles" /\ Return(h, "ok") /\ UNCHANGED <<users, req, wrote>> /\ Busy(h)
      /\ seen' = [seen EXCEPT ![h].roles = ActiveRoles(Target(h))]
  BY DEF LoadRoles, db, Busy
<1>2. pc'[h] = "answered" /\ tx'[h] = NoTx /\ outcome'[h] = "ok" /\ OthersRun(h)
  BY <1>1, ReturnEffect DEF Outcomes
<1>3. OthersStay(h) /\ RowsStay(h)
  BY <1>1, <1>2 DEF OthersStay, RowsStay, OthersRun, Return, TypeOK
<1>4. Op(h) \in {"create", "update", "get"} /\ Op(h)' = Op(h) /\ RolesAsked(h)' = RolesAsked(h)
  BY <1>1 DEF Local, Admitted, Op, Request, Operations, DeleteLabels, RolesAsked, Args
<1>5. RolesSet(h)' /\ RowSet(h)' /\ DeleteDone(h)' /\ Answering(h)'
  BY <1>2, <1>4 DEF RolesSet, RowSet, DeleteDone, Answering, NoTx
<1>6. wrote'[h] = CASE Op(h) = "create" -> {"row", "roles"}
                    [] Op(h) = "update" -> {"row"} \cup RolesAsked(h)
                    [] OTHER -> {}
  BY <1>1 DEF History, Record, Ledger, Committed
<1>7. seen'[h].roles # {}
  <2>1. Target(h) \in UserIds /\ ActiveRoles(Target(h)) # {}
    BY <1>1 DEF History, Record, Answering, Shared, CompleteAccounts
  <2> QED
    BY <1>1, <2>1 DEF TypeOK
<1>8. Honest(h)'
  BY <1>2, <1>4, <1>6, <1>7 DEF Honest, Status
<1> QED
  BY <1>2, <1>3, <1>5, <1>8, OthersHistory DEF Record, Ledger

-----------------------------------------------------------------------------
(* The statements that write into the handler's own transaction.           *)

\* A statement that goes on with the row version it has, or with none.
LEMMA WroteHistory ==
  ASSUME TypeOK, History, NEW h \in Handlers, NEW label \in Labels \ {"answered", "roles"},
         NEW t \in TxType, pc' = [pc EXCEPT ![h] = label], tx' = [tx EXCEPT ![h] = t],
         UNCHANGED <<users, req, seen, outcome, wrote>>, pc[h] # "answered",
         Committed(h)' = Committed(h), RolesSet(h)', RowSet(h)'
  PROVE  History'
<1>1. OthersKeep(h) /\ pc'[h] = label
  BY DEF OthersKeep, OthersRun, TypeOK
<1> QED
  BY <1>1, MovedHistory

\* An answer to a statement that found no row, or a taken address.
LEMMA FailedHistory ==
  ASSUME TypeOK, History, NEW h \in Handlers, UNCHANGED <<users, req, seen, wrote>>,
         \/ Return(h, "uniqueViolation")
         \/ Return(h, "userNotFound") /\ pc[h] \in {"update", "delete"}
  PROVE  History'
<1>1. CASE Return(h, "uniqueViolation")
  <2>1. Status("uniqueViolation") = 500 /\ "uniqueViolation" \in Errors
    BY DEF Status, Errors, Failures
  <2> QED
    BY <1>1, <2>1, RefusedHistory
<1>2. CASE Return(h, "userNotFound") /\ pc[h] \in {"update", "delete"}
  <2>1. Status("userNotFound") = 404 /\ "userNotFound" \in Errors
    BY DEF Status, Errors, Refusals
  <2>2. wrote[h] = Committed(h)
    BY <1>2 DEF History, Record, Ledger
  <2>3. Committed(h) = {} \/ Committed(h) = RolesAsked(h)
    BY <1>2 DEF Committed
  <2>4. "row" \notin wrote[h]
    BY <2>2, <2>3 DEF RolesAsked
  <2> QED
    BY <1>2, <2>1, <2>4, RefusedHistory
<1> QED
  BY <1>1, <1>2

\* A create of an organization's admin has that organization in its row.
LEMMA InsertUserHistory ==
  ASSUME TypeOK, Local, History, NEW h \in Handlers, InsertUser(h)
  PROVE  History'
<1>1. /\ pc[h] = "insert" /\ tx[h] = NoTx /\ UNCHANGED <<users, req, seen, wrote>>
      /\ Op(h) = "create" /\ Caller(h) \in Actor /\ Args(h) \in Body
      /\ RequestError("create", Caller(h), Target(h), req[h].respelled, Args(h)) = "none"
  <2>1. pc[h] = "insert" /\ UNCHANGED <<users, req, seen, wrote>>
    BY DEF InsertUser, db
  <2>2. tx[h] = NoTx
    BY <2>1 DEF Local, Holding
  <2>3. Op(h) = "create" /\ req[h] \in Request
    BY <2>1, CreateFacts
  <2>4. RequestError("create", Caller(h), Target(h), req[h].respelled, Args(h)) = "none"
    BY <2>1, <2>3 DEF Local, Admitted, Busy
  <2> QED
    BY <2>1, <2>2, <2>3, <2>4 DEF Request, Caller, Args
<1>2. CASE Return(h, "uniqueViolation")
  BY <1>1, <1>2, FailedHistory
<1>3. CASE ~Return(h, "uniqueViolation")
  <2> DEFINE t == [tx[h] EXCEPT !.hold = "indexed", !.row = NewRow(Caller(h), Args(h))]
  <2>1. /\ pc' = [pc EXCEPT ![h] = "credentials"] /\ tx' = [tx EXCEPT ![h] = t]
        /\ UNCHANGED outcome
    BY <1>3 DEF InsertUser, Goto, TypeOK
  <2>2. /\ NewRow(Caller(h), Args(h)) \in Row
        /\ ~IsSuperAdmin(Caller(h)) => NewRow(Caller(h), Args(h)).org = Caller(h).org
    BY <1>1, NewRowType DEF Row
  <2>3. t \in TxType
    BY <2>2, WriteEffect
  <2>4. pc'[h] = "credentials" /\ tx'[h] = t
    BY <2>1, <2>3 DEF TypeOK
  <2>5. RowSet(h)'
    BY <1>1, <2>2, <2>4, NoTxType DEF RowSet, Op, Caller, Args
  <2>6. RolesSet(h)'
    BY <1>1, <2>4, NoTxType DEF RolesSet, NoTx
  <2>7. Committed(h)' = Committed(h)
    BY <1>1, <2>4 DEF Committed
  <2> QED
    BY <1>1, <2>1, <2>3, <2>5, <2>6, <2>7, WroteHistory DEF Labels
<1> QED
  BY <1>2, <1>3

\* The credentials change neither row nor roles.
LEMMA InsertCredentialsHistory ==
  ASSUME TypeOK, Local, History, NEW h \in Handlers, InsertCredentials(h)
  PROVE  History'
<1> DEFINE t == [tx[h] EXCEPT !.cred = TRUE]
<1>1. /\ pc[h] = "credentials" /\ UNCHANGED <<users, req, seen, wrote, outcome>>
      /\ pc' = [pc EXCEPT ![h] = "role"] /\ tx' = [tx EXCEPT ![h] = t]
  BY DEF InsertCredentials, Goto, db
<1>2. t \in TxType /\ t.hold = tx[h].hold /\ t.row = tx[h].row /\ t.roles = tx[h].roles
  BY NoTxType, WriteEffect DEF TypeOK
<1>3. pc'[h] = "role" /\ tx'[h] = t
  BY <1>1 DEF TypeOK
<1>4. RowSet(h)' /\ RolesSet(h)'
  BY <1>1, <1>2, <1>3 DEF RowSet, RolesSet, Op, Caller, Args, Target, History, Record
<1>5. Committed(h)' = Committed(h)
  BY <1>1, <1>3 DEF Committed
<1> QED
  BY <1>1, <1>2, <1>4, <1>5, WroteHistory DEF Labels

\* A create's last insert makes the role asked for active.
LEMMA InsertRoleHistory ==
  ASSUME TypeOK, Local, History, NEW h \in Handlers, InsertRole(h)
  PROVE  History'
<1> DEFINE t == [tx[h] EXCEPT !.roles[Args(h).role] = "active"]
<1>1. /\ pc[h] = "role" /\ UNCHANGED <<users, req, seen, wrote, outcome>>
      /\ pc' = [pc EXCEPT ![h] = "commit"] /\ tx' = [tx EXCEPT ![h] = t]
  BY DEF InsertRole, Goto, db, TypeOK
<1>2. Op(h) = "create" /\ Args(h).role \in Roles
  BY <1>1, CreateFacts
<1>3. /\ t \in TxType /\ t.hold = tx[h].hold /\ t.row = tx[h].row
      /\ t.roles = [tx[h].roles EXCEPT ![Args(h).role] = "active"]
  <2>1. t \in TxType
    BY <1>2, WriteEffect DEF Row, Pending
  <2> QED
    BY <2>1 DEF TypeOK
<1>4. pc'[h] = "commit" /\ tx'[h] = t
  BY <1>1 DEF TypeOK
<1>5. RowSet(h)'
  BY <1>1, <1>3, <1>4 DEF RowSet, Op, Caller, Target, History, Record
<1>6. RolesSet(h)'
  BY <1>1, <1>2, <1>3, <1>4 DEF RolesSet, Op, Args, History, Record, TypeOK
<1>7. Committed(h)' = Committed(h)
  BY <1>1, <1>2, <1>4 DEF Committed, Op
<1> QED
  BY <1>1, <1>3, <1>5, <1>6, <1>7, WroteHistory DEF Labels

\* The snapshot of SetUserRole writes nothing.
LEMMA ScanRolesHistory ==
  ASSUME TypeOK, Local, History, NEW h \in Handlers, ScanRoles(h)
  PROVE  History'
<1>1. /\ pc[h] = "scan" /\ tx[h] = NoTx /\ UNCHANGED <<users, req, seen, wrote, outcome, tx>>
      /\ \E label \in {"assign", "deactivate"} : pc' = [pc EXCEPT ![h] = label]
  BY DEF ScanRoles, Goto, db, Local, Holding
<1>2. PICK label \in {"assign", "deactivate"} : pc' = [pc EXCEPT ![h] = label]
  BY <1>1
<1>3. tx[h] \in TxType /\ tx' = [tx EXCEPT ![h] = tx[h]]
  BY <1>1 DEF TypeOK, TxType
<1>4. pc'[h] = label /\ tx'[h] = NoTx
  BY <1>1, <1>2 DEF TypeOK
<1>5. RowSet(h)' /\ RolesSet(h)'
  BY <1>4 DEF RowSet, RolesSet, NoTx
<1>6. Committed(h)' = Committed(h)
  BY <1>1, <1>4 DEF Committed
<1> QED
  BY <1>1, <1>2, <1>3, <1>5, <1>6, WroteHistory DEF Labels

\* A visited row does not become active.
LEMMA DeactivateRoleHistory ==
  ASSUME TypeOK, Local, History, NEW h \in Handlers, DeactivateRole(h)
  PROVE  History'
<1>1. /\ pc[h] = "deactivate" /\ UNCHANGED <<users, req, seen, wrote, outcome>>
      /\ tx[h].hold = "none"
  BY DEF DeactivateRole, Goto, db, Local, Holding
<1>2. PICK r \in todo[h] :
        /\ tx' = [tx EXCEPT ![h].roles[r] =
                    IF ura[Target(h)][r] = "active" THEN "inactive" ELSE "locked"]
        /\ \E label \in {"assign", "deactivate"} : pc' = [pc EXCEPT ![h] = label]
  BY DEF DeactivateRole, Goto
<1>3. PICK label \in {"assign", "deactivate"} : pc' = [pc EXCEPT ![h] = label]
  BY <1>2
<1> DEFINE p == IF ura[Target(h)][r] = "active" THEN "inactive" ELSE "locked"
           t == [tx[h] EXCEPT !.roles[r] = p]
<1>4. r \in Roles /\ p \in Pending /\ p # "active"
  BY DEF TypeOK, Pending
<1>5. /\ t \in TxType /\ t.hold = tx[h].hold /\ t.roles = [tx[h].roles EXCEPT ![r] = p]
      /\ tx' = [tx EXCEPT ![h] = t]
  <2> HIDE DEF p
  <2>1. t \in TxType
    BY <1>4, WriteEffect DEF Row
  <2>2. t.hold = tx[h].hold /\ t.roles = [tx[h].roles EXCEPT ![r] = p]
    BY DEF TypeOK
  <2>3. tx' = [tx EXCEPT ![h] = t]
    BY <1>2 DEF TypeOK, p
  <2> QED
    BY <2>1, <2>2, <2>3
<1>6. pc'[h] = label /\ tx'[h] = t
  BY <1>3, <1>5 DEF TypeOK
<1>7. RowSet(h)'
  BY <1>1, <1>5, <1>6 DEF RowSet
<1>8. RolesSet(h)'
  <2>1. \A s \in Roles : tx[h].roles[s] # "active"
    BY <1>1 DEF History, Record, RolesSet
  <2>2. tx[h].roles \in [Roles -> Pending]
    BY DEF TypeOK
  <2>3. \A s \in Roles : t.roles[s] # "active"
    BY <1>4, <1>5, <2>1, <2>2
  <2> QED
    BY <1>6, <2>3 DEF RolesSet
<1>9. Committed(h)' = Committed(h)
  BY <1>1, <1>6 DEF Committed
<1> QED
  BY <1>1, <1>3, <1>5, <1>7, <1>8, <1>9, WroteHistory DEF Labels

\* SetUserRole's last statement makes the role asked for active.
LEMMA AssignRoleHistory ==
  ASSUME TypeOK, Local, History, NEW h \in Handlers, AssignRole(h)
  PROVE  History'
<1> DEFINE t == [tx[h] EXCEPT !.roles[Args(h).role] = "active"]
<1>1. /\ pc[h] = "assign" /\ UNCHANGED <<users, req, seen, wrote, outcome>>
      /\ pc' = [pc EXCEPT ![h] = "commitRole"] /\ tx' = [tx EXCEPT ![h] = t]
      /\ tx[h].hold = "none"
  BY DEF AssignRole, Goto, db, TypeOK, Local, Holding
<1>2. Args(h).role \in Roles
  BY <1>1, UpdateFacts DEF RoleLabels
<1>3. /\ t \in TxType /\ t.hold = tx[h].hold
      /\ t.roles = [tx[h].roles EXCEPT ![Args(h).role] = "active"]
  <2>1. t \in TxType
    BY <1>2, WriteEffect DEF Row, Pending
  <2> QED
    BY <2>1 DEF TypeOK
<1>4. pc'[h] = "commitRole" /\ tx'[h] = t
  BY <1>1 DEF TypeOK
<1>5. RowSet(h)'
  BY <1>1, <1>3, <1>4 DEF RowSet
<1>6. RolesSet(h)'
  BY <1>1, <1>2, <1>3, <1>4 DEF RolesSet, Op, Args, History, Record, TypeOK
<1>7. Committed(h)' = Committed(h)
  BY <1>1, <1>4 DEF Committed
<1> QED
  BY <1>1, <1>3, <1>5, <1>6, <1>7, WroteHistory DEF Labels

\* The row is written as it is now, with the organization it was read with: an
\* organization's admin has read its own.
LEMMA UpdateRowHistory ==
  ASSUME TypeOK, Local, History, NEW h \in Handlers, UpdateRow(h)
  PROVE  History'
<1> DEFINE row == Overwrite(users[Target(h)], Merge(Caller(h), Args(h), seen[h].row))
           t == [tx[h] EXCEPT !.hold = "locked", !.row = row]
<1>1. /\ pc[h] = "update" /\ UNCHANGED <<users, req, seen, wrote>> /\ tx[h] = NoTx
  BY DEF UpdateRow, db, Local, Holding
<1>2. CASE Return(h, "userNotFound")
  BY <1>1, <1>2, FailedHistory
<1>3. CASE ~Return(h, "userNotFound")
  <2>1. /\ pc' = [pc EXCEPT ![h] = "index"] /\ tx' = [tx EXCEPT ![h] = t]
        /\ Live(Target(h)) /\ UNCHANGED outcome
    BY <1>3 DEF UpdateRow, Goto, TypeOK
  <2>2. users[Target(h)] \in UserRow
    BY <2>1, LiveRowType
  <2>3. row \in Row /\ (~IsSuperAdmin(Caller(h)) => row.org = seen[h].row.org)
    BY <1>1, <2>2, UpdateFacts, OverwriteType DEF Row
  <2>4. ~IsSuperAdmin(Caller(h)) => row.org = Caller(h).org
    BY <1>1, <2>3, UpdateFacts DEF CanAccess
  <2>5. t \in TxType
    BY <2>3, WriteEffect
  <2>6. /\ pc'[h] = "index" /\ tx'[h] = t /\ t.row = row /\ t.roles = NoTx.roles
    BY <1>1, <2>1, NoTxType DEF TypeOK
  <2>7. Op(h) = "update"
    BY <1>1, UpdateFacts
  <2>8. RowSet(h)'
    BY <1>1, <2>4, <2>6, <2>7 DEF RowSet, Op, Caller
  <2>9. RolesSet(h)'
    BY <2>6 DEF RolesSet, NoTx
  <2>10. Committed(h)' = Committed(h)
    BY <1>1, <2>6 DEF Committed, RolesAsked, Op, Args
  <2> QED
    BY <1>1, <2>1, <2>5, <2>8, <2>9, <2>10, WroteHistory DEF Labels
<1> QED
  BY <1>2, <1>3

\* The index entry changes neither row nor roles.
LEMMA IndexRowHistory ==
  ASSUME TypeOK, Local, History, NEW h \in Handlers, IndexRow(h)
  PROVE  History'
<1> DEFINE t == [tx[h] EXCEPT !.hold = "indexed"]
<1>1. pc[h] = "index" /\ UNCHANGED <<users, req, seen, wrote>> /\ tx[h].hold = "locked"
  BY DEF IndexRow, db, Local, Holding
<1>2. CASE Return(h, "uniqueViolation")
  BY <1>1, <1>2, FailedHistory
<1>3. CASE ~Return(h, "uniqueViolation")
  <2>1. /\ pc' = [pc EXCEPT ![h] = "commit"] /\ tx' = [tx EXCEPT ![h] = t]
        /\ UNCHANGED outcome
    BY <1>3 DEF IndexRow, Goto, TypeOK
  <2>2. t \in TxType
    BY WriteEffect DEF TypeOK, Pending
  <2>3. /\ pc'[h] = "commit" /\ tx'[h] = t /\ t.row = tx[h].row /\ t.roles = tx[h].roles
    BY <2>1 DEF TypeOK
  <2>4. Op(h) = "update"
    BY <1>1, UpdateFacts
  <2>5. RowSet(h)'
    BY <1>1, <2>3, <2>4 DEF RowSet, Op, Caller, History, Record
  <2>6. RolesSet(h)'
    BY <1>1, <2>3, <2>4 DEF RolesSet, Op, History, Record
  <2>7. Committed(h)' = Committed(h)
    BY <1>1, <2>3, <2>4 DEF Committed, RolesAsked, Op, Args
  <2> QED
    BY <1>1, <2>1, <2>2, <2>5, <2>6, <2>7, WroteHistory DEF Labels
<1> QED
  BY <1>2, <1>3

\* A delete has nothing in its row but the deletion.
LEMMA DeleteRowHistory ==
  ASSUME TypeOK, Local, History, NEW h \in Handlers, DeleteRow(h)
  PROVE  History'
<1> DEFINE t == [tx[h] EXCEPT !.hold = "locked", !.row = SoftDelete(users[Target(h)])]
<1>1. /\ pc[h] = "delete" /\ UNCHANGED <<users, req, seen, wrote>> /\ tx[h] = NoTx
      /\ Op(h) = "delete"
  <2>1. pc[h] = "delete" /\ UNCHANGED <<users, req, seen, wrote>> /\ tx[h] = NoTx
    BY DEF DeleteRow, db, Local, Holding
  <2>2. req[h] \in Request /\ Admitted(h)
    BY <2>1 DEF Local, Admitted, Busy
  <2> QED
    BY <2>1, <2>2 DEF Admitted, Busy, Request, Operations, Op, CreateLabels, UpdateLabels,
                      RoleLabels
<1>2. CASE Return(h, "userNotFound")
  BY <1>1, <1>2, FailedHistory
<1>3. CASE ~Return(h, "userNotFound")
  <2>1. /\ pc' = [pc EXCEPT ![h] = "commit"] /\ tx' = [tx EXCEPT ![h] = t]
        /\ Live(Target(h)) /\ UNCHANGED outcome
    BY <1>3 DEF DeleteRow, Goto, TypeOK
  <2>2. SoftDelete(users[Target(h)]) \in Row
    BY <2>1, LiveRowType, SoftDeleteType DEF Row
  <2>3. t \in TxType
    BY <2>2, WriteEffect
  <2>4. /\ pc'[h] = "commit" /\ tx'[h] = t /\ t.roles = NoTx.roles
        /\ t.row = SoftDelete(users[Target(h)])
    BY <1>1, <2>1, NoTxType DEF TypeOK
  <2>5. RowSet(h)'
    BY <1>1, <2>4 DEF RowSet, Op, Target
  <2>6. RolesSet(h)'
    BY <1>1, <2>4 DEF RolesSet, NoTx, Op
  <2>7. Committed(h)' = Committed(h)
    BY <1>1, <2>4 DEF Committed, Op
  <2> QED
    BY <1>1, <2>1, <2>3, <2>5, <2>6, <2>7, WroteHistory DEF Labels
<1> QED
  BY <1>2, <1>3

-----------------------------------------------------------------------------
(* Commits.                                                                *)

\* A commit writes its own row only, which nobody else holds.
LEMMA ApplyRowsStay ==
  ASSUME TypeOK, Local, Shared, NEW h \in Handlers, Ending(h), Apply(h)
  PROVE  RowsStay(h)
<1>1. \A u \in UserIds : users[u].status # "none" => users'[u].status # "none"
  BY ApplyFacts
<1>2. \A u \in UserIds : users[u].status = "deleted" => users'[u] = users[u]
  BY ApplyKeepsDeleted
<1>3. ASSUME NEW g \in Handlers \ {h}, tx[g].hold # "none"
      PROVE  users'[Target(g)] = users[Target(g)]
  <2>1. Target(g) \in UserIds
    BY <1>3, HolderFacts DEF Local, Admitted
  <2>2. CASE tx[h].hold = "none"
    BY <2>2 DEF Apply
  <2>3. CASE tx[h].hold # "none"
    <3>1. Target(g) # Target(h)
      BY <1>3, <2>3 DEF Shared, Exclusive
    <3> QED
      BY <2>1, <3>1, ApplyFacts
  <2> QED
    BY <2>2, <2>3
<1> QED
  BY <1>1, <1>2, <1>3 DEF RowsStay

\* What a commit puts on record.
LEMMA ApplyWrote ==
  ASSUME TypeOK, Local, History, NEW h \in Handlers, Ending(h), Apply(h)
  PROVE  /\ \A g \in Handlers \ {h} : wrote'[g] = wrote[g]
         /\ pc[h] = "commit" /\ Op(h) = "create" => wrote'[h] = {"row", "roles"}
         /\ pc[h] = "commit" /\ Op(h) = "update" => wrote'[h] = {"row"} \cup RolesAsked(h)
         /\ pc[h] = "commit" /\ Op(h) = "delete" => wrote'[h] = {"row"}
         /\ pc[h] = "commitRole" => wrote'[h] = {"roles"} /\ RolesAsked(h) = {"roles"}
<1>1. /\ wrote' \in [Handlers -> SUBSET {"row", "roles"}]
      /\ \A g \in Handlers \ {h} : wrote'[g] = wrote[g]
  BY ApplyTypes DEF Apply, TypeOK
<1>2. wrote'[h] = wrote[h] \cup (IF tx[h].hold = "none" THEN {} ELSE {"row"}) \cup
                  (IF \E r \in Roles : tx[h].roles[r] # "keep" THEN {"roles"} ELSE {})
  BY DEF Apply, TypeOK
<1>3. wrote[h] = IF pc[h] = "commit" /\ Op(h) = "update" THEN RolesAsked(h) ELSE {}
  BY DEF Ending, History, Record, Ledger, Committed
<1>4. Holding(h) /\ Admitted(h) /\ UpdateReady(h) /\ Op(h) \in {"create", "update", "delete"}
  BY EndingFacts
<1>5. CASE pc[h] = "commit" /\ Op(h) = "create"
  <2>1. tx[h].hold # "none" /\ Args(h).role \in Roles /\ tx[h].roles[Args(h).role] # "keep"
    BY <1>4, <1>5, EndingFacts DEF Holding
  <2> QED
    BY <1>1, <1>2, <1>3, <1>5, <2>1
<1>6. CASE pc[h] = "commit" /\ Op(h) # "create"
  <2>1. tx[h].hold # "none" /\ \A r \in Roles : tx[h].roles[r] = "keep"
    BY <1>4, <1>6 DEF Holding, NoTx
  <2> QED
    BY <1>1, <1>2, <1>3, <1>6, <2>1
<1>7. CASE pc[h] = "commitRole"
  <2>1. tx[h].hold = "none" /\ Args(h).role \in Roles /\ tx[h].roles[Args(h).role] # "keep"
    BY <1>4, <1>7, EndingFacts DEF Holding
  <2>2. Text(Args(h).role) # Blank /\ Op(h) = "update"
    BY <1>7, <2>1, SpecialValues, EndingFacts DEF Text
  <2> QED
    BY <1>1, <1>2, <1>3, <1>7, <2>1, <2>2 DEF RolesAsked
<1> QED
  BY <1>1, <1>5, <1>6, <1>7 DEF Ending

\* A commit that is acknowledged: the handler answers a delete, and goes on with
\* everything else.
LEMMA CommitHistory ==
  ASSUME TypeOK, Local, Shared, History, NEW h \in Handlers, Commit(h)
  PROVE  History'
<1>1. /\ pc[h] = "commit" /\ Ending(h) /\ Apply(h) /\ UNCHANGED req
      /\ \A g \in Handlers \ {h} : seen'[g] = seen[g]
  BY DEF Commit, Ending, TypeOK
<1>2. RowsStay(h)
  BY <1>1, ApplyRowsStay
<1>3. Target(h) \in UserIds /\ users'[Target(h)].status # "none"
  BY <1>1, EndingFacts, ApplyFacts
<1>4. CASE Op(h) = "delete"
  <2>1. Return(h, "ok")
    BY <1>4 DEF Commit, Op
  <2>2. pc'[h] = "answered" /\ tx'[h] = NoTx /\ outcome'[h] = "ok" /\ OthersRun(h)
    BY <2>1, ReturnEffect DEF Outcomes
  <2>3. OthersStay(h)
    BY <1>1, <2>1, <2>2, ApplyWrote DEF OthersStay, OthersRun, Return, TypeOK
  <2>4. tx[h].hold # "none" /\ tx[h].row.status = "deleted"
    BY <1>1, <1>4, EndingFacts DEF Holding
  <2>5. users'[Target(h)].status = "deleted"
    BY <1>1, <2>4, ApplyFacts
  <2>6. wrote'[h] = {"row"} /\ Op(h)' = "delete" /\ Target(h)' = Target(h)
    BY <1>1, <1>4, ApplyWrote DEF Op, Target
  <2>7. RolesSet(h)' /\ RowSet(h)' /\ DeleteDone(h)' /\ Answering(h)'
    BY <1>3, <2>2, <2>5, <2>6 DEF RolesSet, RowSet, DeleteDone, Answering, NoTx
  <2>8. Honest(h)'
    BY <2>2, <2>6 DEF Honest, Status
  <2> QED
    BY <1>2, <2>2, <2>3, <2>7, <2>8, OthersHistory DEF Record, Ledger
<1>5. CASE Op(h) # "delete"
  <2>1. Goto(h, "roles") /\ tx' = [tx EXCEPT ![h] = NoTx] /\ outcome' = outcome
    BY <1>5 DEF Commit, Op, Goto
  <2>2. pc'[h] = "roles" /\ tx'[h] = NoTx /\ OthersRun(h)
    BY <2>1 DEF Goto, OthersRun, TypeOK
  <2>3. OthersStay(h)
    BY <1>1, <2>1, <2>2, ApplyWrote DEF OthersStay, OthersRun
  <2>4. Op(h) \in {"create", "update"} /\ Op(h)' = Op(h) /\ RolesAsked(h)' = RolesAsked(h)
    BY <1>1, <1>5, EndingFacts DEF Op, RolesAsked, Args
  <2>5. wrote'[h] = IF Op(h) = "create" THEN {"row", "roles"} ELSE {"row"} \cup RolesAsked(h)
    BY <1>1, <2>4, ApplyWrote
  <2>6. Committed(h)' = wrote'[h]
    BY <2>2, <2>4, <2>5 DEF Committed
  <2>7. outcome[h] = "none"
    BY <1>1 DEF History, Record, Ledger
  <2>8. RolesSet(h)' /\ RowSet(h)' /\ DeleteDone(h)' /\ Answering(h)'
    BY <1>1, <1>3, <2>2 DEF RolesSet, RowSet, DeleteDone, Answering, NoTx, Target
  <2> QED
    BY <1>2, <2>1, <2>2, <2>3, <2>6, <2>7, <2>8, OthersHistory DEF Record, Ledger
<1> QED
  BY <1>4, <1>5

\* The commit of SetUserRole puts the role on record before the row is written.
LEMMA CommitRoleHistory ==
  ASSUME TypeOK, Local, Shared, History, NEW h \in Handlers, CommitRole(h)
  PROVE  History'
<1>1. /\ pc[h] = "commitRole" /\ Ending(h) /\ Apply(h) /\ UNCHANGED <<req, seen, outcome>>
      /\ pc' = [pc EXCEPT ![h] = "update"] /\ tx' = [tx EXCEPT ![h] = NoTx]
  BY DEF CommitRole, Goto, Ending
<1>2. pc'[h] = "update" /\ tx'[h] = NoTx /\ OthersRun(h)
  BY <1>1 DEF OthersRun, TypeOK
<1>3. OthersStay(h) /\ RowsStay(h)
  BY <1>1, <1>2, ApplyWrote, ApplyRowsStay DEF OthersStay, OthersRun
<1>4. Committed(h)' = wrote'[h]
  BY <1>1, <1>2, ApplyWrote DEF Committed, RolesAsked, Op, Args
<1>5. outcome[h] = "none"
  BY <1>1 DEF History, Record, Ledger
<1>6. RolesSet(h)' /\ RowSet(h)' /\ DeleteDone(h)' /\ Answering(h)'
  BY <1>2 DEF RolesSet, RowSet, DeleteDone, Answering, NoTx
<1> QED
  BY <1>1, <1>2, <1>3, <1>4, <1>5, <1>6, OthersHistory DEF Record, Ledger

\* A commit whose acknowledgement is lost is answered 500, which claims nothing.
LEMMA LoseCommitAckHistory ==
  ASSUME TypeOK, Local, Shared, History, NEW h \in Handlers, LoseCommitAck(h)
  PROVE  History'
<1>1. Ending(h) /\ Apply(h) /\ UNCHANGED <<req, seen>> /\ Return(h, "failed")
  BY DEF LoseCommitAck, Ending
<1>2. pc'[h] = "answered" /\ tx'[h] = NoTx /\ outcome'[h] = "failed" /\ OthersRun(h)
  BY <1>1, ReturnEffect DEF Outcomes, Failures
<1>3. OthersStay(h) /\ RowsStay(h)
  BY <1>1, <1>2, ApplyWrote, ApplyRowsStay DEF OthersStay, OthersRun, Return, TypeOK
<1>4. RolesSet(h)' /\ RowSet(h)' /\ DeleteDone(h)' /\ Answering(h)' /\ Honest(h)'
  BY <1>2 DEF RolesSet, RowSet, DeleteDone, Answering, NoTx, Honest, Status
<1> QED
  BY <1>2, <1>3, <1>4, OthersHistory DEF Record, Ledger

-----------------------------------------------------------------------------
(* Arrivals, replies, failures.                                            *)

\* A new request has nothing on record.
LEMMA ReceiveHistory ==
  ASSUME TypeOK, Local, History, NEW h \in Handlers, NEW q \in Requests, Receive(h, q)
  PROVE  History'
<1> DEFINE error == RequestError(q.op, q.actor, q.target, q.respelled, q.body)
           label == IF q.op = "create" THEN "email" ELSE "load"
<1>1. /\ pc[h] = "idle" /\ UNCHANGED <<users, wrote, seen>> /\ Unless(h, error, label)
      /\ \A g \in Handlers \ {h} : req'[g] = req[g]
  BY DEF Receive, db, TypeOK
<1>2. tx[h] = NoTx
  BY <1>1 DEF Local, Holding
<1>3. error \in {"none"} \cup Errors /\ label \in EarlyLabels
  BY ErrorTypes DEF EarlyLabels
<1> HIDE DEF error, label
<1> QED
  BY <1>1, <1>2, <1>3, CheckedHistory

\* A goroutine that is free again has nothing on record.
LEMMA ReplyHistory ==
  ASSUME TypeOK, Local, History, NEW h \in Handlers, Reply(h)
  PROVE  History'
<1>1. /\ pc[h] = "answered" /\ UNCHANGED <<users, tx>>
      /\ pc'[h] = "idle" /\ outcome'[h] = "none" /\ wrote'[h] = {}
  BY DEF Reply, db, TypeOK
<1>2. OthersStay(h) /\ RowsStay(h)
  BY DEF Reply, db, TypeOK, OthersStay, RowsStay
<1>3. tx'[h] = NoTx
  BY <1>1 DEF Local, Holding
<1>4. RolesSet(h)' /\ RowSet(h)' /\ DeleteDone(h)' /\ Answering(h)' /\ Ledger(h)'
  BY <1>1, <1>3 DEF RolesSet, RowSet, DeleteDone, Answering, Ledger, Committed, NoTx
<1> QED
  BY <1>2, <1>4, OthersHistory DEF Record

\* A failure is answered 500, which claims nothing.
LEMMA FailureHistory ==
  ASSUME TypeOK, History, NEW h \in Handlers, AbortDeadlock(h) \/ Fault(h)
  PROVE  History'
<1>1. /\ UNCHANGED <<users, req, seen, wrote>>
      /\ \E result \in Failures : Return(h, result)
  BY DEF AbortDeadlock, Fault, db, Failures
<1>2. PICK result \in Failures : Return(h, result)
  BY <1>1
<1>3. result \in Errors /\ Status(result) = 500
  BY DEF Errors, Failures, Status
<1> QED
  BY <1>1, <1>2, <1>3, RefusedHistory

\* Idle handlers have nothing on record.
LEMMA IdleHistory ==
  ASSUME \A h \in Handlers : /\ pc[h] = "idle" /\ tx[h] = NoTx
                             /\ outcome[h] = "none" /\ wrote[h] = {}
  PROVE  History
BY DEF History, Record, RolesSet, RowSet, DeleteDone, Answering, Ledger, Committed, NoTx

\* After a restart nothing is on record.
LEMMA CrashHistory ==
  ASSUME Crash
  PROVE  History'
<1> SUFFICES ASSUME NEW h \in Handlers
             PROVE  Record(h)'
  BY DEF History
<1>1. pc'[h] = "idle" /\ tx'[h] = NoTx /\ outcome'[h] = "none" /\ wrote'[h] = {}
  BY DEF Crash
<1> QED
  BY <1>1 DEF Record, RolesSet, RowSet, DeleteDone, Answering, Ledger, Committed, NoTx

\* A step that changes nothing.
LEMMA StutterHistory ==
  ASSUME History, UNCHANGED vars
  PROVE  History'
<1> SUFFICES ASSUME NEW h \in Handlers
             PROVE  Record(h)'
  BY DEF History
<1> QED
  BY DEF vars, db, History, Record, RolesSet, RowSet, DeleteDone, Answering, Ledger, Honest,
         Committed, RolesAsked, Op, Args, Caller, Target

\* Every step keeps the record.
LEMMA HistoryNext ==
  ASSUME IndInv, History, [Next]_vars
  PROVE  History'
<1>1. TypeOK /\ Local /\ Shared
  BY DEF IndInv, Shared
<1>2. ASSUME NEW h \in Handlers, Step(h)
      PROVE  History'
  <2>1. CASE ReadUser(h) \/ CheckNewEmail(h) \/ CheckChangedEmail(h) \/ LoadRoles(h)
             \/ CheckInProcedure(h)
    BY <1>1, <2>1, ReadUserHistory, CheckHistory, LoadRolesHistory
  <2>2. CASE InsertUser(h) \/ InsertCredentials(h) \/ InsertRole(h)
    BY <1>1, <2>2, InsertUserHistory, InsertCredentialsHistory, InsertRoleHistory
  <2>3. CASE ScanRoles(h) \/ DeactivateRole(h) \/ AssignRole(h)
    BY <1>1, <2>3, ScanRolesHistory, DeactivateRoleHistory, AssignRoleHistory
  <2>4. CASE UpdateRow(h) \/ IndexRow(h) \/ DeleteRow(h)
    BY <1>1, <2>4, UpdateRowHistory, IndexRowHistory, DeleteRowHistory
  <2>5. CASE Commit(h) \/ CommitRole(h)
    BY <1>1, <2>5, CommitHistory, CommitRoleHistory
  <2> QED
    BY <1>2, <2>1, <2>2, <2>3, <2>4, <2>5 DEF Step
<1>3. ASSUME NEW h \in Handlers, NEW q \in Requests, Receive(h, q)
      PROVE  History'
  BY <1>1, <1>3, ReceiveHistory
<1>4. ASSUME NEW h \in Handlers, Reply(h)
      PROVE  History'
  BY <1>1, <1>4, ReplyHistory
<1>5. ASSUME NEW h \in Handlers, AbortDeadlock(h) \/ Fault(h) \/ LoseCommitAck(h)
      PROVE  History'
  BY <1>1, <1>5, FailureHistory, LoseCommitAckHistory
<1> QED
  BY <1>2, <1>3, <1>4, <1>5, CrashHistory, StutterHistory DEF Next

\* The process starts with nothing on record.
LEMMA InitHistory ==
  ASSUME Init
  PROVE  History
BY IdleHistory DEF Init

\* In every reachable state the transactions, the rows and the answers are what
\* the requests behind them have done so far (every handler of internal/user).
THEOREM HistoryInvariance == Spec => [](IndInv /\ History)
<1>1. Init => IndInv /\ History
  BY InitInv, InitHistory
<1>2. IndInv /\ History /\ [Next]_vars => (IndInv /\ History)'
  BY InvNext, HistoryNext
<1> QED
  BY <1>1, <1>2, PTL DEF Spec

-----------------------------------------------------------------------------
(* What History says of the answers.                                       *)

\* A request answered 400, 403 or 409 has committed nothing, one answered 404 no
\* row (writeUserError over every handler of internal/user).
THEOREM RefusalsHonest == Spec => []RefusalChangesNothing
<1>1. History => RefusalChangesNothing
  <2> SUFFICES ASSUME History, NEW h \in Handlers
               PROVE  /\ Status(outcome[h]) \in {400, 403, 409} => wrote[h] = {}
                      /\ Status(outcome[h]) = 404 => "row" \notin wrote[h]
    BY DEF RefusalChangesNothing
  <2>1. Ledger(h)
    BY DEF History, Record
  <2>2. CASE pc[h] = "answered"
    BY <2>1, <2>2 DEF Ledger, Honest
  <2>3. CASE pc[h] # "answered"
    BY <2>1, <2>3 DEF Ledger, Status
  <2> QED
    BY <2>2, <2>3
<1> QED
  BY <1>1, HistoryInvariance, PTL

\* A request answered 200 or 201 has committed all it was asked for, and its
\* answer has a role in it (Create, Update, Delete and GetByID of service.go).
THEOREM SuccessHonest == Spec => []SuccessIsComplete
<1>1. History => SuccessIsComplete
  <2> SUFFICES ASSUME History, NEW h \in Handlers, pc[h] = "answered", outcome[h] = "ok"
               PROVE  /\ req[h].op = "create" => wrote[h] = {"row", "roles"}
                      /\ req[h].op = "update" =>
                           wrote[h] = {"row"} \cup
                             IF Text(Args(h).role) = Blank THEN {} ELSE {"roles"}
                      /\ req[h].op = "delete" => wrote[h] = {"row"}
                      /\ req[h].op # "delete" => seen[h].roles # {}
    BY DEF SuccessIsComplete
  <2>1. Honest(h)
    BY DEF History, Record, Ledger
  <2> QED
    BY <2>1 DEF Honest, RolesAsked, Op
<1> QED
  BY <1>1, HistoryInvariance, PTL

-----------------------------------------------------------------------------
(* Deletes.                                                                *)

DeletedBy(h) == pc[h] = "answered" /\ Op(h) = "delete" /\ outcome[h] = "ok"

\* A delete is answered 200 by its commit and by nothing else.
LEMMA DeleteAnswered ==
  ASSUME TypeOK, Local, NEW h \in Handlers, DeletedBy(h)',
         \/ \E q \in Requests : Receive(h, q)
         \/ Step(h) \/ Reply(h) \/ AbortDeadlock(h) \/ Fault(h) \/ LoseCommitAck(h)
  PROVE  pc[h] = "commit" /\ Op(h) = "delete" /\ Target(h)' = Target(h)
<1>1. pc'[h] = "answered" /\ Op(h)' = "delete" /\ outcome'[h] = "ok"
  BY DEF DeletedBy
<1>2. ASSUME NEW result \in Errors, Return(h, result)
      PROVE  FALSE
  BY <1>1, <1>2 DEF Return, TypeOK, Errors, Refusals, Failures
<1>3. ASSUME NEW label \in Labels \ {"answered"}, Goto(h, label)
      PROVE  FALSE
  BY <1>1, <1>3 DEF Goto, TypeOK
<1>4. ASSUME NEW error \in {"none"} \cup Errors, NEW label \in Labels \ {"answered"},
             Unless(h, error, label)
      PROVE  FALSE
  BY <1>2, <1>3, <1>4 DEF Unless
<1>5. ~\E q \in Requests : Receive(h, q)
  <2> SUFFICES ASSUME NEW q \in Requests, Receive(h, q)
               PROVE  FALSE
    OBVIOUS
  <2>1. RequestError(q.op, q.actor, q.target, q.respelled, q.body) \in {"none"} \cup Errors
    BY ErrorTypes
  <2>2. "email" \in Labels \ {"answered"} /\ "load" \in Labels \ {"answered"}
    BY DEF Labels
  <2> QED
    BY <1>4, <2>1, <2>2 DEF Receive
<1>6. ~ChangeRole(h)
  <2>1. RoleError(Caller(h), Args(h).role) \in {"none"} \cup Errors
    BY ErrorTypes
  <2>2. "update" \in Labels \ {"answered"} /\ "scan" \in Labels \ {"answered"}
    BY DEF Labels
  <2> QED
    BY <1>3, <1>4, <2>1, <2>2 DEF ChangeRole
<1>7. {"userNotFound", "cannotAccessUser", "duplicateEmail", "uniqueViolation",
       "deadlockDetected", "failed"} \subseteq Errors
  BY DEF Errors, Refusals, Failures
<1>8. Labels \ {"answered"} = {"idle", "load", "email", "procedure", "insert", "credentials",
         "role", "scan", "deactivate", "assign", "commitRole", "update", "index", "delete",
         "commit", "roles"}
  BY DEF Labels
<1>9. ~ReadUser(h)
  <2> SUFFICES ASSUME ReadUser(h)
               PROVE  FALSE
    OBVIOUS
  <2>1. UpdateOrgError(Caller(h), Args(h)) \in {"none"} \cup Errors
    BY ErrorTypes
  <2>2. req[h] \in Request /\ req[h].op # "create"
    BY DEF ReadUser, Local, Admitted, Busy, CreateLabels, Op
  <2>3. req[h].op \in {"get", "delete", "update"}
    BY <2>2 DEF Request, Operations
  <2> QED
    BY <1>2, <1>3, <1>6, <1>7, <1>8, <2>1, <2>3 DEF ReadUser
<1>10. ~(CheckNewEmail(h) \/ CheckChangedEmail(h) \/ CheckInProcedure(h))
  BY <1>2, <1>4, <1>6, <1>7, <1>8 DEF CheckNewEmail, CheckChangedEmail, CheckInProcedure
<1>11. ~LoadRoles(h)
  <2> SUFFICES ASSUME LoadRoles(h)
               PROVE  FALSE
    OBVIOUS
  <2>1. pc[h] = "roles" /\ Op(h)' = Op(h)
    BY DEF LoadRoles, Op
  <2>2. Op(h) # "delete"
    BY <2>1 DEF Local, Admitted, Busy, DeleteLabels
  <2> QED
    BY <1>1, <2>1, <2>2
<1>12. ~(InsertUser(h) \/ InsertCredentials(h) \/ InsertRole(h))
  BY <1>2, <1>3, <1>7, <1>8 DEF InsertUser, InsertCredentials, InsertRole
<1>13. ~(ScanRoles(h) \/ DeactivateRole(h) \/ AssignRole(h) \/ CommitRole(h))
  BY <1>3, <1>8 DEF ScanRoles, DeactivateRole, AssignRole, CommitRole
<1>14. ~(UpdateRow(h) \/ IndexRow(h) \/ DeleteRow(h))
  BY <1>2, <1>3, <1>7, <1>8 DEF UpdateRow, IndexRow, DeleteRow
<1>15. ~(Reply(h) \/ AbortDeadlock(h) \/ Fault(h) \/ LoseCommitAck(h))
  BY <1>1, <1>2, <1>7 DEF Reply, AbortDeadlock, Fault, LoseCommitAck, TypeOK
<1>16. Commit(h)
  BY <1>5, <1>9, <1>10, <1>11, <1>12, <1>13, <1>14, <1>15 DEF Step
<1> QED
  BY <1>1, <1>16 DEF Commit, Op, Target

\* Only one handler answers in a step.
LEMMA OthersAnswers ==
  ASSUME TypeOK, Local, NEW h \in Handlers,
         \/ \E q \in Requests : Receive(h, q)
         \/ Step(h) \/ Reply(h) \/ AbortDeadlock(h) \/ Fault(h) \/ LoseCommitAck(h)
  PROVE  \A g \in Handlers \ {h} :
           pc'[g] = pc[g] /\ req'[g] = req[g] /\ outcome'[g] = outcome[g]
<1> USE DEF TypeOK, Goto, Return, Unless
<1>1. CASE (\E q \in Requests : Receive(h, q)) \/ Reply(h)
  BY <1>1 DEF Receive, Reply
<1>2. CASE AbortDeadlock(h) \/ Fault(h) \/ LoseCommitAck(h) \/ Commit(h) \/ CommitRole(h)
  BY <1>2 DEF AbortDeadlock, Fault, LoseCommitAck, Commit, CommitRole
<1>3. CASE ReadUser(h)
  <2>1. UNCHANGED req
    BY <1>3 DEF ReadUser
  <2>2. req[h] \in Request /\ req[h].op # "create"
    BY <1>3 DEF ReadUser, Local, Admitted, Busy, CreateLabels, Op
  <2>3. req[h].op \in {"get", "delete", "update"}
    BY <2>2 DEF Request, Operations
  <2> QED
    BY <1>3, <2>1, <2>3 DEF ReadUser, ChangeRole
<1>4. CASE CheckNewEmail(h) \/ CheckChangedEmail(h) \/ LoadRoles(h) \/ CheckInProcedure(h)
  BY <1>4 DEF CheckNewEmail, CheckChangedEmail, LoadRoles, CheckInProcedure, ChangeRole
<1>5. CASE InsertUser(h) \/ InsertCredentials(h) \/ InsertRole(h)
  BY <1>5 DEF InsertUser, InsertCredentials, InsertRole
<1>6. CASE ScanRoles(h) \/ DeactivateRole(h) \/ AssignRole(h)
  BY <1>6 DEF ScanRoles, DeactivateRole, AssignRole
<1>7. CASE UpdateRow(h) \/ IndexRow(h) \/ DeleteRow(h)
  BY <1>7 DEF UpdateRow, IndexRow, DeleteRow
<1> QED
  BY <1>1, <1>2, <1>3, <1>4, <1>5, <1>6, <1>7 DEF Step

\* The delete that commits second has found its row live under its lock, which the
\* first has left deleted.
LEMMA OneDeleteNext ==
  ASSUME IndInv, History, OneDeleteSucceeds, [Next]_vars
  PROVE  OneDeleteSucceeds'
<1> SUFFICES ASSUME NEW g \in Handlers, NEW h \in Handlers, DeletedBy(g)', DeletedBy(h)',
                    Target(g)' = Target(h)', g # h
             PROVE  FALSE
  BY DEF OneDeleteSucceeds, DeletedBy, Op
<1>1. TypeOK /\ Local /\ Present
  BY DEF IndInv
<1>2. ASSUME NEW k \in Handlers,
             \/ \E q \in Requests : Receive(k, q)
             \/ Step(k) \/ Reply(k) \/ AbortDeadlock(k) \/ Fault(k) \/ LoseCommitAck(k)
      PROVE  FALSE
  <2>1. ASSUME NEW i \in Handlers \ {k}, DeletedBy(i)'
        PROVE  DeletedBy(i) /\ Target(i)' = Target(i)
    BY <1>1, <1>2, <2>1, OthersAnswers DEF DeletedBy, Op, Target
  <2>2. ASSUME NEW i \in Handlers \ {k}, DeletedBy(i)', DeletedBy(k)', Target(i)' = Target(k)'
        PROVE  FALSE
    <3>1. pc[k] = "commit" /\ Op(k) = "delete" /\ Target(k)' = Target(k)
      BY <1>1, <1>2, <2>2, DeleteAnswered
    <3>2. Live(Target(k))
      BY <1>1, <3>1 DEF Local, Holding, Present
    <3>3. DeletedBy(i) /\ Target(i) = Target(k)
      BY <2>1, <2>2, <3>1
    <3>4. users[Target(i)].status = "deleted"
      BY <3>3 DEF DeletedBy, History, Record, DeleteDone
    <3> QED
      BY <3>2, <3>3, <3>4 DEF Live
  <2>3. CASE g = k \/ h = k
    BY <2>2, <2>3
  <2>4. CASE g # k /\ h # k
    BY <2>1, <2>4 DEF OneDeleteSucceeds, DeletedBy, Op
  <2> QED
    BY <2>3, <2>4
<1>3. ~Crash
  BY DEF Crash, DeletedBy
<1>4. ~UNCHANGED vars
  <2> SUFFICES ASSUME UNCHANGED vars
               PROVE  FALSE
    OBVIOUS
  <2>1. DeletedBy(g) /\ DeletedBy(h) /\ Target(g) = Target(h)
    BY DEF vars, DeletedBy, Op, Target
  <2> QED
    BY <2>1 DEF OneDeleteSucceeds, DeletedBy, Op
<1> QED
  BY <1>2, <1>3, <1>4 DEF Next

\* Of all deletes of one user that are answered, one is answered 200 (optype 4 with
\* its is_deleted = FALSE, and Delete's answer when no row comes back).
THEOREM OneDelete == Spec => []OneDeleteSucceeds
<1>1. Init => OneDeleteSucceeds
  BY DEF Init, OneDeleteSucceeds
<1>2. IndInv /\ History /\ OneDeleteSucceeds /\ [Next]_vars => OneDeleteSucceeds'
  BY OneDeleteNext
<1> QED
  BY <1>1, <1>2, HistoryInvariance, PTL DEF Spec

-----------------------------------------------------------------------------
(* Organizations.                                                          *)

\* A request of an organization's admin that has found its user has found it in
\* that organization.
HomeRead(h) ==
  Busy(h) /\ Found(h) /\ ~IsSuperAdmin(Caller(h)) => Caller(h).org \in homes[h]

HomesRead == \A h \in Handlers : HomeRead(h)

\* It is GetByID that finds the user; a handler that found it goes on with the
\* request it found it for.
LEMMA FoundBefore ==
  ASSUME TypeOK, Local, NEW h \in Handlers, (Busy(h) /\ Found(h))',
         \/ \E q \in Requests : Receive(h, q)
         \/ Step(h) \/ Reply(h) \/ AbortDeadlock(h) \/ Fault(h) \/ LoseCommitAck(h)
  PROVE  req'[h] = req[h] /\ (ReadUser(h) \/ (Busy(h) /\ Found(h)))
<1> USE DEF Found, Op, UpdateLabels, DeleteLabels, RoleLabels
<1>1. pc'[h] \notin {"idle", "answered"}
  BY DEF Busy
<1>2. ~Reply(h) /\ ~AbortDeadlock(h) /\ ~Fault(h) /\ ~LoseCommitAck(h)
  BY <1>1 DEF Reply, AbortDeadlock, Fault, LoseCommitAck, Return, TypeOK
<1>3. ~\E q \in Requests : Receive(h, q)
  <2> SUFFICES ASSUME NEW q \in Requests, Receive(h, q)
               PROVE  FALSE
    OBVIOUS
  <2>1. pc'[h] \in {"answered", "load"} \/ (pc'[h] = "email" /\ q.op = "create")
    BY DEF Receive, Unless, Return, Goto, TypeOK
  <2>2. q.op = "create" => req'[h].op = "create"
    BY RequestAssumption DEF Receive, TypeOK, Request
  <2> QED
    BY <1>1, <2>1, <2>2
<1>4. Step(h)
  BY <1>2, <1>3
<1>5. req'[h] = req[h]
  BY <1>4 DEF Step, ReadUser, CheckNewEmail, CheckChangedEmail, LoadRoles, CheckInProcedure,
     InsertUser, InsertCredentials, InsertRole, ScanRoles, DeactivateRole, AssignRole,
     UpdateRow, IndexRow, DeleteRow, Commit, CommitRole
<1>6. ReadUser(h) \/ pc[h] \notin {"idle", "answered", "load"}
  BY <1>4 DEF Step, CheckNewEmail, CheckChangedEmail, LoadRoles, CheckInProcedure,
     InsertUser, InsertCredentials, InsertRole, ScanRoles, DeactivateRole, AssignRole,
     UpdateRow, IndexRow, DeleteRow, Commit, CommitRole
<1>7. ASSUME pc[h] \notin {"idle", "answered", "load"}
      PROVE  Busy(h) /\ Found(h)
  <2>1. Busy(h) /\ Admitted(h) /\ Op(h) # "create"
    BY <1>5, <1>7 DEF Busy, Local
  <2>2. Op(h) \in {"get", "update", "delete"}
    BY <2>1 DEF Admitted, Request, Operations
  <2> QED
    BY <1>7, <2>1, <2>2 DEF Admitted
<1> QED
  BY <1>5, <1>6, <1>7

\* Every step keeps it: the row GetByID finds passes CanAccess.
LEMMA HomesReadNext ==
  ASSUME IndInv, HomesRead, [HomesNext]_homesVars
  PROVE  HomesRead'
<1> SUFFICES ASSUME NEW h \in Handlers, (Busy(h) /\ Found(h) /\ ~IsSuperAdmin(Caller(h)))'
             PROVE  Caller(h)'.org \in homes'[h]
  BY DEF HomesRead, HomeRead
<1>1. TypeOK /\ Local /\ HomeRead(h)
  BY DEF IndInv, HomesRead
<1>2. CASE UNCHANGED homesVars
  BY <1>1, <1>2 DEF homesVars, vars, HomeRead, Busy, Found, Op, Caller
<1>3. CASE Next /\ Remember
  <2>1. homes'[h] = homes[h] \cup Home(h)'
    BY <1>3 DEF Remember, Busy
  <2>2. ASSUME req'[h] = req[h], Busy(h), Found(h)
        PROVE  Caller(h)'.org \in homes'[h]
    BY <1>1, <2>1, <2>2 DEF HomeRead, Caller
  <2>3. ASSUME NEW g \in Handlers,
               \/ \E q \in Requests : Receive(g, q)
               \/ Step(g) \/ Reply(g) \/ AbortDeadlock(g) \/ Fault(g) \/ LoseCommitAck(g)
        PROVE  Caller(h)'.org \in homes'[h]
    <3>1. CASE g # h
      <4>1. pc'[h] = pc[h] /\ req'[h] = req[h]
        BY <1>1, <2>3, <3>1, OthersAnswers
      <4> QED
        BY <2>2, <4>1 DEF Busy, Found, Op
    <3>2. CASE g = h /\ ReadUser(h)
      <4>1. pc'[h] # "answered"
        BY DEF Busy
      <4>2. Live(Target(h)) /\ CanAccess(Caller(h), users[Target(h)])
        BY <1>1, <3>2, <4>1 DEF ReadUser, Return, TypeOK
      <4>3. users' = users /\ req' = req
        BY <3>2 DEF ReadUser, db
      <4>4. Caller(h)' = Caller(h) /\ Home(h)' = {users[Target(h)].org}
        BY <4>2, <4>3 DEF Caller, Home, Target, Live
      <4> QED
        BY <2>1, <4>2, <4>4 DEF CanAccess
    <3>3. CASE g = h /\ ~ReadUser(h)
      BY <1>1, <2>2, <2>3, <3>3, FoundBefore
    <3> QED
      BY <3>1, <3>2, <3>3
  <2>4. ~Crash
    BY DEF Crash, Busy
  <2> QED
    BY <1>3, <2>3, <2>4 DEF Next
<1> QED
  BY <1>2, <1>3 DEF HomesNext

\* A handler whose transaction has written something, other than a create's, has
\* found its user.
LEMMA WritesFound ==
  ASSUME TypeOK, Local, NEW h \in Handlers, Busy(h), Op(h) # "create", Writes(h)
  PROVE  Found(h)
<1>1. tx[h] # NoTx
  BY DEF Writes, NoTx
<1>2. pc[h] \in {"credentials", "role", "commit", "deactivate", "assign", "commitRole", "index"}
  BY <1>1 DEF Local, Holding
<1>3. req[h] \in Request
  BY DEF Local, Admitted
<1> QED
  BY <1>2, <1>3 DEF Local, Admitted, Found, UpdateLabels, DeleteLabels, RoleLabels, Request,
     Operations, Op

\* Whatever an organization's admin has pending is for a user it has found in its
\* organization; the row written stays there, and nobody becomes a super admin
\* (CanAccess in GetByID, mergeUpdate, ensureActorCanAssignRole).
THEOREM OrgAdminsStay == HomesSpec => []OrgAdminsStayInTheirOrg
<1>1. IndInv /\ History /\ HomesRead => OrgAdminsStayInTheirOrg
  <2> SUFFICES ASSUME IndInv, History, HomesRead,
                      NEW h \in Handlers, Busy(h), ~IsSuperAdmin(Caller(h))
               PROVE  /\ Op(h) # "create" /\ Writes(h) => Caller(h).org \in homes[h]
                      /\ tx[h].hold # "none" =>
                           tx[h].row.org = IF Op(h) = "delete" THEN users[Target(h)].org
                                           ELSE Caller(h).org
                      /\ \A r \in Roles : tx[h].roles[r] = "active"
                           => RoleCode[r] # "SUPER_ADMIN"
    BY DEF OrgAdminsStayInTheirOrg
  <2>1. TypeOK /\ Local /\ Present /\ RowSet(h) /\ RolesSet(h) /\ HomeRead(h)
    BY DEF IndInv, History, Record, HomesRead
  <2>2. Op(h) # "create" /\ Writes(h) => Caller(h).org \in homes[h]
    BY <2>1, WritesFound DEF HomeRead
  <2>3. ASSUME tx[h].hold # "none"
        PROVE  tx[h].row.org = IF Op(h) = "delete" THEN users[Target(h)].org
                               ELSE Caller(h).org
    <3>1. CASE Op(h) # "delete"
      BY <2>1, <2>3, <3>1 DEF RowSet
    <3>2. CASE Op(h) = "delete"
      <4>1. tx[h].row = SoftDelete(users[Target(h)]) /\ Live(Target(h))
        BY <2>1, <2>3, <3>2 DEF RowSet, Present
      <4>2. users[Target(h)] \in UserRow
        BY <2>1, <4>1, LiveRowType
      <4> QED
        BY <3>2, <4>1, <4>2 DEF SoftDelete, UserRow
    <3> QED
      BY <3>1, <3>2
  <2>4. ASSUME NEW r \in Roles, tx[h].roles[r] = "active"
        PROVE  RoleCode[r] # "SUPER_ADMIN"
    <3>1. r = Args(h).role /\ (pc[h] = "commitRole" \/ (pc[h] = "commit" /\ Op(h) = "create"))
      BY <2>1, <2>4 DEF RolesSet
    <3>2. CASE pc[h] = "commitRole"
      BY <2>1, <3>1, <3>2, UpdateFacts DEF RoleLabels
    <3>3. CASE pc[h] = "commit" /\ Op(h) = "create"
      <4>1. /\ req[h] \in Request
            /\ RequestError("create", Caller(h), Target(h), req[h].respelled, Args(h)) = "none"
        BY <2>1, <3>3 DEF Local, Admitted, Op
      <4>2. Caller(h) \in Actor /\ Args(h) \in Body
        BY <4>1 DEF Request, Caller, Args
      <4> QED
        BY <3>1, <4>1, <4>2, NewRowType
    <3> QED
      BY <3>1, <3>2, <3>3
  <2> QED
    BY <2>2, <2>3, <2>4
<1>2. HomesInit => Init /\ HomesRead
  BY DEF HomesInit, Init, HomesRead, HomeRead, Busy
<1>3. [HomesNext]_homesVars => [Next]_vars
  BY DEF HomesNext, homesVars
<1>4. HomesSpec => Spec
  BY <1>2, <1>3, PTL DEF HomesSpec, Spec
<1>5. IndInv /\ HomesRead /\ [HomesNext]_homesVars => HomesRead'
  BY HomesReadNext
<1> QED
  BY <1>1, <1>2, <1>4, <1>5, HistoryInvariance, PTL DEF HomesSpec

-----------------------------------------------------------------------------
(* The refinement of UserDirectory.                                        *)

Actives == [u \in UserIds |-> ActiveRoles(u)]

\* What the transaction of h makes of a set of active roles.
After(h, S) ==
  {r \in Roles : tx[h].roles[r] = "active" \/ (tx[h].roles[r] # "inactive" /\ r \in S)}

\* A commit, for the active roles: those of its own user become what it wrote.
LEMMA ActivesAfter ==
  ASSUME TypeOK, NEW h \in Handlers, Apply(h)
  PROVE  Actives' = [Actives EXCEPT ![Target(h)] = After(h, @)]
<1> DEFINE t == Target(h)
           S == After(h, ActiveRoles(t))
<1>1. ura' = [ura EXCEPT ![t] =
               [r \in Roles |-> IF tx[h].roles[r] \in {"active", "inactive"}
                                THEN tx[h].roles[r] ELSE @[r]]]
  BY DEF Apply
<1> SUFFICES ASSUME NEW T, T = t
             PROVE  Actives' = [Actives EXCEPT ![T] = After(h, @)]
  OBVIOUS
<1>2. ASSUME NEW u \in UserIds, u # T
      PROVE  {r \in Roles : ura'[u][r] = "active"} = ActiveRoles(u)
  BY <1>1, <1>2 DEF ActiveRoles, TypeOK
<1>3. ASSUME T \in UserIds
      PROVE  {r \in Roles : ura'[T][r] = "active"} = After(h, ActiveRoles(T))
  <2>1. ura'[T] = [r \in Roles |-> IF tx[h].roles[r] \in {"active", "inactive"}
                                   THEN tx[h].roles[r] ELSE ura[T][r]]
    BY <1>1, <1>3 DEF TypeOK
  <2> QED
    BY <2>1 DEF ActiveRoles, After
<1>4. Actives' = [u \in UserIds |-> {r \in Roles : ura'[u][r] = "active"}]
  BY DEF Actives, ActiveRoles
<1>5. Actives \in [UserIds -> SUBSET Roles] /\ \A u \in UserIds : Actives[u] = ActiveRoles(u)
  BY DEF Actives, ActiveRoles
<1> QED
  BY <1>2, <1>3, <1>4, <1>5

\* The state a commit leaves, in one place.
LEMMA AppliedState ==
  ASSUME IndInv, NEW h \in Handlers, Ending(h), Apply(h)
  PROVE  /\ Target(h) \in UserIds
         /\ users' = IF tx[h].hold = "none" THEN users
                     ELSE [users EXCEPT ![Target(h)] = tx[h].row]
         /\ creds' = IF tx[h].cred THEN creds \cup {Target(h)} ELSE creds
         /\ Actives' = [Actives EXCEPT ![Target(h)] = After(h, @)]
         /\ Actives[Target(h)] = ActiveRoles(Target(h))
         /\ Actives \in [UserIds -> SUBSET Roles]
         /\ Holding(h) /\ TypeOK /\ Busy(h) /\ Op(h) \in {"create", "update", "delete"}
<1>1. TypeOK /\ Local
  BY DEF IndInv
<1>2. Target(h) \in UserIds /\ Holding(h) /\ Busy(h) /\ Op(h) \in {"create", "update", "delete"}
  BY <1>1, EndingFacts
<1>3. Actives' = [Actives EXCEPT ![Target(h)] = After(h, @)]
  BY <1>1, ActivesAfter
<1> QED
  BY <1>1, <1>2, <1>3 DEF Apply, Actives, ActiveRoles

\* A transaction that writes no role leaves the active roles alone.
LEMMA RolesUntouched ==
  ASSUME Actives \in [UserIds -> SUBSET Roles], NEW h \in Handlers, tx[h].roles = NoTx.roles,
         Actives' = [Actives EXCEPT ![Target(h)] = After(h, @)]
  PROVE  Actives' = Actives
<1> SUFFICES ASSUME NEW T, T = Target(h)
             PROVE  Actives' = Actives
  OBVIOUS
<1>1. \A S \in SUBSET Roles : After(h, S) = S
  BY DEF After, NoTx
<1> QED
  BY <1>1

\* The commit of a create registers its user.
LEMMA CreateRefines ==
  ASSUME IndInv, History, NEW h \in Handlers, Apply(h), pc[h] = "commit", Op(h) = "create"
  PROVE  Dir!Register(Target(h))
<1>1. Ending(h)
  BY DEF Ending
<1> DEFINE T == Target(h)
           role == Args(h).role
<1>2. /\ T \in UserIds /\ Holding(h) /\ TypeOK /\ Busy(h) /\ role \in Roles
      /\ creds' = IF tx[h].cred THEN creds \cup {T} ELSE creds
      /\ Actives' = [Actives EXCEPT ![T] = After(h, @)]
      /\ Actives[T] = ActiveRoles(T) /\ Actives \in [UserIds -> SUBSET Roles]
  BY <1>1, AppliedState, EndingFacts DEF IndInv
<1>3. tx[h].hold = "indexed" /\ tx[h].row \in UserRow /\ tx[h].row.status = "live" /\ tx[h].cred
  BY <1>2 DEF Holding
<1>4. users[T].status = "none"
  BY <1>2 DEF IndInv, Present, Creating, CreateLabels
<1>5. users' = [users EXCEPT ![T] = tx[h].row]
  BY <1>1, <1>3, AppliedState
<1>6. Actives' = [Actives EXCEPT ![T] = {role}]
  <2>1. ActiveRoles(T) = {}
    BY <1>2, <1>4 DEF IndInv, CompleteAccounts, ActiveRoles
  <2>2. \A r \in Roles : tx[h].roles[r] = "active" <=> r = role
    BY DEF History, Record, RolesSet
  <2>3. After(h, {}) = {role}
    BY <1>2, <2>2 DEF After
  <2> QED
    BY <1>2, <2>1, <2>3
<1>7. \A v \in UserIds \ {T} : users[v].status = "live" => Lower[users[v].email] # Lower[tx[h].row.email]
  BY <1>3 DEF IndInv, PendingKeys, Live, Key
<1> QED
  BY <1>2, <1>3, <1>4, <1>5, <1>6, <1>7
     DEF Dir!Register, Dir!Exists, Dir!EmailFree, Dir!Live, Dir!UserRow, UserRow, Actives

\* The commit of optype 3 revises its user.
LEMMA UpdateRefines ==
  ASSUME IndInv, History, NEW h \in Handlers, Apply(h), pc[h] = "commit", Op(h) = "update"
  PROVE  Dir!Revise(Target(h))
<1>1. Ending(h)
  BY DEF Ending
<1> DEFINE T == Target(h)
<1>2. Holding(h) /\ T \in UserIds
  BY <1>1, AppliedState
<1>3. /\ tx[h].hold = "indexed" /\ tx[h].row \in UserRow /\ tx[h].row.status = "live"
      /\ ~tx[h].cred /\ tx[h].roles = NoTx.roles
  BY <1>2 DEF Holding
<1>4. users[T].status = "live"
  BY <1>3 DEF IndInv, Present, Live
<1>5. users' = [users EXCEPT ![T] = tx[h].row] /\ creds' = creds
  BY <1>1, <1>3, AppliedState
<1>6. Actives' = Actives
  BY <1>1, <1>3, AppliedState, RolesUntouched
<1>7. \A v \in UserIds \ {T} : users[v].status = "live" => Lower[users[v].email] # Lower[tx[h].row.email]
  BY <1>3 DEF IndInv, PendingKeys, Live, Key
<1> QED
  BY <1>3, <1>4, <1>5, <1>6, <1>7 DEF Dir!Revise, Dir!EmailFree, Dir!Live, Dir!UserRow,
     UserRow, Actives

\* The commit of optype 4 removes its user.
LEMMA DeleteRefines ==
  ASSUME IndInv, History, NEW h \in Handlers, Apply(h), pc[h] = "commit", Op(h) = "delete"
  PROVE  Dir!Remove(Target(h))
<1>1. Ending(h)
  BY DEF Ending
<1> DEFINE T == Target(h)
<1>2. Holding(h) /\ T \in UserIds
  BY <1>1, AppliedState
<1>3. tx[h].hold # "none" /\ ~tx[h].cred /\ tx[h].roles = NoTx.roles
  BY <1>2 DEF Holding
<1>4. users[T].status = "live"
  BY <1>3 DEF IndInv, Present, Live
<1>5. tx[h].row = SoftDelete(users[T])
  BY <1>3 DEF History, Record, RowSet
<1>6. users' = [users EXCEPT ![T] = SoftDelete(@)] /\ creds' = creds
  BY <1>1, <1>3, <1>5, AppliedState
<1>7. Actives' = Actives
  BY <1>1, <1>3, AppliedState, RolesUntouched
<1> QED
  BY <1>4, <1>6, <1>7 DEF Dir!Remove, Dir!Live, Dir!SoftDelete, SoftDelete, Actives

\* The commit of SetUserRole switches the role of its user: the roles it has not
\* seen active are kept.
LEMMA RoleRefines ==
  ASSUME IndInv, History, NEW h \in Handlers, Apply(h), pc[h] = "commitRole"
  PROVE  Dir!SwitchRole(Target(h))
<1>1. Ending(h)
  BY DEF Ending
<1> DEFINE T == Target(h)
           role == Args(h).role
           kept == {r \in Actives[T] : tx[h].roles[r] # "inactive"}
<1>2. /\ T \in UserIds /\ Holding(h) /\ Busy(h) /\ role \in Roles /\ Op(h) = "update"
      /\ Actives' = [Actives EXCEPT ![T] = After(h, @)]
      /\ Actives \in [UserIds -> SUBSET Roles]
  BY <1>1, AppliedState, EndingFacts DEF IndInv
<1>3. tx[h].hold = "none" /\ ~tx[h].cred
  BY <1>2 DEF Holding
<1>4. users' = users /\ creds' = creds
  BY <1>1, <1>3, AppliedState
<1>5. users[T].status # "none"
  BY <1>2 DEF IndInv, Present, Found, UpdateLabels, RoleLabels
<1>6. Actives' = [Actives EXCEPT ![T] = kept \cup {role}]
  <2>1. \A r \in Roles : tx[h].roles[r] = "active" <=> r = role
    BY DEF History, Record, RolesSet
  <2>2. After(h, Actives[T]) = kept \cup {role}
    BY <1>2, <2>1 DEF After
  <2> QED
    BY <1>2, <2>2
<1>7. kept \in SUBSET Actives[T]
  OBVIOUS
<1> QED
  BY <1>2, <1>4, <1>5, <1>6, <1>7 DEF Dir!SwitchRole, Dir!Exists, Actives

\* A commit is a step of the directory.
LEMMA CommitRefines ==
  ASSUME IndInv, History, NEW h \in Handlers, Ending(h), Apply(h)
  PROVE  Dir!Next
<1>1. Target(h) \in UserIds /\ Op(h) \in {"create", "update", "delete"}
  BY AppliedState
<1>2. Dir!Register(Target(h)) \/ Dir!Revise(Target(h)) \/ Dir!Remove(Target(h))
         \/ Dir!SwitchRole(Target(h))
  BY <1>1, CreateRefines, UpdateRefines, DeleteRefines, RoleRefines DEF Ending
<1> QED
  BY <1>1, <1>2 DEF Dir!Next

\* A step that commits nothing is invisible to the directory.
LEMMA UncommittedRefines ==
  ASSUME UNCHANGED db
  PROVE  UNCHANGED Dir!dirVars
BY DEF db, Dir!dirVars, ActiveRoles

\* Every step is a step of the directory, or invisible to it.
LEMMA StepRefines ==
  ASSUME IndInv, History, [Next]_vars
  PROVE  [Dir!Next]_(Dir!dirVars)
<1>1. ASSUME NEW h \in Handlers, Commit(h) \/ CommitRole(h) \/ LoseCommitAck(h)
      PROVE  Dir!Next
  <2>1. Ending(h) /\ Apply(h)
    BY <1>1 DEF Commit, CommitRole, LoseCommitAck, Ending
  <2> QED
    BY <2>1, CommitRefines
<1>2. ASSUME NEW h \in Handlers, NEW q \in Requests, Receive(h, q)
      PROVE  UNCHANGED db
  BY <1>2 DEF Receive
<1>3. ASSUME NEW h \in Handlers, Step(h), ~Commit(h), ~CommitRole(h)
      PROVE  UNCHANGED db
  BY <1>3 DEF Step, ReadUser, CheckNewEmail, CheckChangedEmail, LoadRoles, CheckInProcedure,
     InsertUser, InsertCredentials, InsertRole, ScanRoles, DeactivateRole, AssignRole,
     UpdateRow, IndexRow, DeleteRow
<1>4. ASSUME NEW h \in Handlers, Reply(h) \/ AbortDeadlock(h) \/ Fault(h)
      PROVE  UNCHANGED db
  BY <1>4 DEF Reply, AbortDeadlock, Fault
<1>5. (Crash \/ UNCHANGED vars) => UNCHANGED db
  BY DEF Crash, vars, db
<1> QED
  BY <1>1, <1>2, <1>3, <1>4, <1>5, UncommittedRefines DEF Next

\* The process starts on the directory it was given.
LEMMA InitRefines ==
  ASSUME Init
  PROVE  Dir!Init
<1>1. \A u \in UserIds : {r \in Roles : ura[u][r] = "active"} = SeedRoles[u]
  BY SeedAssumption DEF Init
<1>2. [u \in UserIds |-> ActiveRoles(u)] = SeedRoles
  BY <1>1, SeedAssumption DEF ActiveRoles
<1> QED
  BY <1>2 DEF Init, Dir!Init

\* The handlers of internal/user implement the directory: every commit is one
\* registration, revision, removal or change of role, and nothing else is seen.
THEOREM Refinement == Spec => ImplementsDirectory
<1>1. Init => Dir!Init
  BY InitRefines
<1>2. IndInv /\ History /\ [Next]_vars => [Dir!Next]_(Dir!dirVars)
  BY StepRefines
<1>3. Spec => Dir!Spec
  BY <1>1, <1>2, HistoryInvariance, PTL DEF Spec, Dir!Spec
<1> QED
  BY <1>3 DEF ImplementsDirectory
=============================================================================
