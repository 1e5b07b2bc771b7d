-------------------------- MODULE UserRequestsProofs --------------------------
(***************************************************************************)
(* Proofs about UserRequests, for any users, handlers and requests: the    *)
(* invariant of UserRequestsInv is inductive, and what follows from it.    *)
(***************************************************************************)
EXTENDS UserRequestsInv, TLAPS

-----------------------------------------------------------------------------
(* What the pure operators return.                                         *)

\* A create that passed its checks has a proper row to insert and a live role.
LEMMA NewRowType ==
  ASSUME NEW actor \in Actor, NEW body \in Body, NEW target, NEW respelled,
         RequestError("create", actor, target, respelled, body) = "none"
  PROVE  /\ NewRow(actor, body) \in UserRow
         /\ NewRow(actor, body).status = "live"
         /\ body.email \in Emails
         /\ NewRow(actor, body).email = Lower[body.email]
         /\ NewRow(actor, body).email \in Emails
         /\ ~IsSuperAdmin(actor) => NewRow(actor, body).org = actor.org
         /\ body.role \in Roles
         /\ ~IsSuperAdmin(actor) => RoleCode[body.role] # "SUPER_ADMIN"
<1>1. ~InvalidCreate(actor, body) /\ OrgError(CreateOrg(actor, body)) = "none"
      /\ RoleError(actor, body.role) = "none"
  BY DEF RequestError, CreateError, OrgError
<1>2. CreateOrg(actor, body) \in Orgs
  BY <1>1 DEF OrgError
<1>3. body.role \in Roles /\ (~IsSuperAdmin(actor) => RoleCode[body.role] # "SUPER_ADMIN")
  BY <1>1 DEF RoleError
<1>4. body.email \in Emails /\ body.name \in Names
  BY <1>1 DEF InvalidCreate, Text, Body
<1>5. Lower[body.email] \in Emails
  BY <1>4, EmailAssumption
<1>6. /\ body.validTill \in Dates \cup {Absent}
      /\ body.active \in BOOLEAN \cup {Absent}
      /\ body.approved \in BOOLEAN \cup {Absent}
  BY DEF Body
<1>7. NewRow(actor, body) \in UserRow
  BY <1>2, <1>4, <1>5, <1>6 DEF NewRow, UserRow, Normalize
<1> QED
  BY <1>2, <1>3, <1>4, <1>5, <1>7 DEF NewRow, Normalize, CreateOrg

\* An update that passed its checks writes a proper row; a blank text or
\* organization leaves the column as it is, and an organization's admin writes
\* the organization of the row that was read.
LEMMA OverwriteType ==
  ASSUME NEW actor \in Actor, NEW body \in Body,
         NEW current \in UserRow, NEW existing \in UserRow,
         UpdateOrgError(actor, body) = "none"
  PROVE  LET row == Overwrite(current, Merge(actor, body, existing))
         IN  /\ row \in UserRow
             /\ row.status = current.status
             /\ ~IsSuperAdmin(actor) => row.org = existing.org
<1> DEFINE m == Merge(actor, body, existing)
<1>1. m.email \in Emails \cup {Blank}
  <2>1. existing.email \in Emails
    BY DEF UserRow
  <2> QED
    BY <2>1, EmailAssumption DEF Merge, Normalize
<1>2. m.name \in Names \cup {Blank}
  BY DEF Merge, Given, Body, UserRow
<1>3. m.org \in Orgs \cup {Blank}
  <2>1. existing.org \in Orgs
    BY DEF UserRow
  <2>2. CASE IsSuperAdmin(actor) /\ Text(body.org) # Blank
    <3>1. body.org \in Orgs
      BY <2>2 DEF UpdateOrgError, OrgError
    <3> QED
      BY <2>1, <3>1 DEF Merge, Given
  <2>3. CASE IsSuperAdmin(actor) /\ Text(body.org) = Blank
    BY <2>1, <2>3 DEF Merge, Given, Text
  <2>4. CASE ~IsSuperAdmin(actor)
    BY <2>1, <2>4 DEF Merge
  <2> QED
    BY <2>2, <2>3, <2>4
<1>4. m.validTill \in Dates \cup {NoDate}
  BY DEF Merge, Given, Body, UserRow
<1>5. m.active \in BOOLEAN /\ m.approved \in BOOLEAN
  BY DEF Merge, Given, Body, UserRow
<1>6. ~IsSuperAdmin(actor) => m.org = existing.org /\ existing.org # Blank
  BY SpecialValues DEF Merge, UserRow
<1> HIDE DEF m
<1>7. Overwrite(current, m) \in UserRow /\ Overwrite(current, m).status = current.status
  BY <1>1, <1>2, <1>3, <1>4, <1>5 DEF Overwrite, Coalesce, UserRow
<1>8. ~IsSuperAdmin(actor) => Overwrite(current, m).org = existing.org
  BY <1>6 DEF Overwrite, Coalesce, UserRow
<1> QED
  BY <1>7, <1>8 DEF m

\* A soft-deleted row is a proper row.
LEMMA SoftDeleteType ==
  ASSUME NEW row \in UserRow
  PROVE  SoftDelete(row) \in UserRow /\ SoftDelete(row).status = "deleted"
BY DEF SoftDelete, UserRow

\* A live row is a row of the table.
LEMMA LiveRowType ==
  ASSUME TypeOK, NEW u, Live(u)
  PROVE  u \in UserIds /\ users[u] \in UserRow
BY DEF TypeOK, Live, Row, NoRow

Outcomes == {"none", "ok"} \cup Refusals \cup Failures
Errors == Refusals \cup Failures

\* Every check answers "none" or one of the errors.
LEMMA ErrorTypes ==
  ASSUME NEW op, NEW actor, NEW target, NEW respelled, NEW body, NEW role, NEW org
  PROVE  /\ RoleError(actor, role) \in {"none"} \cup Errors
         /\ OrgError(org) \in {"none"} \cup Errors
         /\ RequestError(op, actor, target, respelled, body) \in {"none"} \cup Errors
         /\ UpdateOrgError(actor, body) \in {"none"} \cup Errors
<1>1. ASSUME NEW r PROVE RoleError(actor, r) \in {"none"} \cup Errors
  BY DEF RoleError, Errors, Refusals, Failures
<1>2. ASSUME NEW o PROVE OrgError(o) \in {"none"} \cup Errors
  BY DEF OrgError, Errors, Refusals, Failures
<1>3. CreateError(actor, body) \in {"none"} \cup Errors
  <2>1. "invalidInput" \in Errors
    BY DEF Errors, Refusals
  <2> QED
    BY <1>1, <1>2, <2>1 DEF CreateError
<1>4. RequestError(op, actor, target, respelled, body) \in {"none"} \cup Errors
  BY <1>3 DEF RequestError, Errors, Refusals, Failures
<1>5. UpdateOrgError(actor, body) \in {"none"} \cup Errors
  BY <1>2 DEF UpdateOrgError
<1> QED
  BY <1>1, <1>2, <1>4, <1>5

-----------------------------------------------------------------------------
(* One handler's step: the types, and what it leaves to the others.        *)

HandlerTypes ==
  /\ pc \in [Handlers -> Labels]
  /\ outcome \in [Handlers -> Outcomes]
  /\ tx \in [Handlers -> [hold : {"none", "locked", "indexed"}, row : Row,
                          cred : BOOLEAN, roles : [Roles -> Pending]]]
  /\ todo \in [Handlers -> SUBSET Roles]

\* A step of h does not touch the other handlers.
OthersRun(h) == \A g \in Handlers \ {h} : pc'[g] = pc[g] /\ tx'[g] = tx[g]
OthersKeep(h) ==
  OthersRun(h) /\ \A g \in Handlers \ {h} : req'[g] = req[g] /\ seen'[g] = seen[g]

\* A handler without a transaction has a record of the right kind.
LEMMA NoTxType ==
  NoTx \in [hold : {"none", "locked", "indexed"}, row : Row,
            cred : BOOLEAN, roles : [Roles -> Pending]]
BY DEF NoTx, Row, NoRow, Pending

\* Returning answers the request and leaves no transaction.
LEMMA ReturnEffect ==
  ASSUME TypeOK, NEW h \in Handlers, NEW result \in Outcomes, Return(h, result)
  PROVE  /\ HandlerTypes' /\ OthersRun(h)
         /\ pc'[h] = "answered" /\ tx'[h] = NoTx /\ outcome'[h] = result
BY NoTxType DEF TypeOK, HandlerTypes, Return, OthersRun, Outcomes, Labels

\* Going on moves only the label.
LEMMA GotoEffect ==
  ASSUME TypeOK, NEW h \in Handlers, NEW label \in Labels, Goto(h, label),
         UNCHANGED <<tx, todo>>
  PROVE  /\ HandlerTypes' /\ OthersRun(h)
         /\ pc'[h] = label /\ tx'[h] = tx[h]
BY DEF TypeOK, HandlerTypes, Goto, OthersRun, Outcomes

\* A check does one or the other.
LEMMA UnlessEffect ==
  ASSUME TypeOK, NEW h \in Handlers, NEW label \in Labels,
         NEW error \in {"none"} \cup Errors, Unless(h, error, label)
  PROVE  /\ HandlerTypes' /\ OthersRun(h)
         /\ \/ pc'[h] = "answered" /\ tx'[h] = NoTx
            \/ pc'[h] = label /\ tx'[h] = tx[h] /\ error = "none"
<1>1. CASE error = "none"
  BY <1>1, GotoEffect DEF Unless
<1>2. CASE error # "none"
  <2>1. error \in Outcomes
    BY DEF Outcomes, Errors
  <2> QED
    BY <1>2, <2>1, ReturnEffect DEF Unless
<1> QED
  BY <1>1, <1>2

\* What the handlers rely on is kept by a step of h when h itself keeps it ...
LEMMA LocalFrame ==
  ASSUME Local, NEW h \in Handlers, OthersKeep(h),
         Admitted(h)', UpdateReady(h)', Holding(h)'
  PROVE  Local'
<1> SUFFICES ASSUME NEW g \in Handlers \ {h}
             PROVE  (Admitted(g) /\ UpdateReady(g) /\ Holding(g))'
  BY DEF Local
<1>1. pc'[g] = pc[g] /\ tx'[g] = tx[g] /\ req'[g] = req[g] /\ seen'[g] = seen[g]
  BY DEF OthersKeep, OthersRun
<1>2. Admitted(g) /\ UpdateReady(g) /\ Holding(g)
  BY DEF Local
<1>3. Admitted(g)'
  BY <1>1, <1>2 DEF Admitted, Busy, Op, Caller, Target, Args, Creating, Found
<1>4. UpdateReady(g)'
  BY <1>1, <1>2 DEF UpdateReady, Op, Caller, Args
<1>5. Holding(g)'
  BY <1>1, <1>2 DEF Holding, Op, Args
<1> QED
  BY <1>3, <1>4, <1>5

\* ... and a handler that has answered relies on nothing.
LEMMA LocalAnswered ==
  ASSUME Local, NEW h \in Handlers, OthersKeep(h),
         pc'[h] \in {"answered", "idle"}, tx'[h] = NoTx
  PROVE  Local'
<1>1. Admitted(h)' /\ UpdateReady(h)' /\ Holding(h)'
  BY DEF Admitted, Busy, UpdateReady, UpdateLabels, RoleLabels, Holding
<1> QED
  BY <1>1, LocalFrame

-----------------------------------------------------------------------------
(* Types, and what a handler relies on, step by step.                      *)

\* An arriving request is let in only past the checks before the first statement.
LEMMA ReceiveLocal ==
  ASSUME TypeOK, Local, NEW h \in Handlers, NEW q \in Requests, Receive(h, q)
  PROVE  TypeOK' /\ Local'
<1> DEFINE error == RequestError(q.op, q.actor, q.target, q.respelled, q.body)
           label == IF q.op = "create" THEN "email" ELSE "load"
<1>1. q \in Request
  BY RequestAssumption
<1>2. PICK r \in Request :
        /\ req' = [req EXCEPT ![h] = r]
        /\ r.op = q.op /\ r.actor = q.actor /\ r.body = q.body /\ r.respelled = q.respelled
        /\ r.target = q.target \/ q.op = "create"
        /\ error = "none" /\ q.op = "create" => r.target \in UserIds
  <2>1. CASE (error # "none" \/ q.op # "create") /\ req' = [req EXCEPT ![h] = q]
    BY <1>1, <2>1
  <2>2. ASSUME q.op = "create", NEW u \in FreshIds,
               req' = [req EXCEPT ![h] = [q EXCEPT !.target = u]]
        PROVE  \E r \in Request :
                 /\ req' = [req EXCEPT ![h] = r]
                 /\ r.op = q.op /\ r.actor = q.actor /\ r.body = q.body /\ r.respelled = q.respelled
                 /\ r.target = q.target \/ q.op = "create"
                 /\ r.target \in UserIds
    <3>1. u \in UserIds
      BY DEF FreshIds
    <3>2. /\ [q EXCEPT !.target = u] \in Request
          /\ [q EXCEPT !.target = u].op = q.op
          /\ [q EXCEPT !.target = u].actor = q.actor
          /\ [q EXCEPT !.target = u].body = q.body
          /\ [q EXCEPT !.target = u].respelled = q.respelled
          /\ [q EXCEPT !.target = u].target = u
      BY <1>1, <3>1 DEF Request
    <3> QED
      BY <2>2, <3>1, <3>2
  <2> QED
    BY <2>1, <2>2 DEF Receive
<1>3. label \in Labels /\ error \in {"none"} \cup Errors
  BY ErrorTypes DEF Labels
<1>4. Unless(h, error, label) /\ UNCHANGED <<db, seen, wrote, faults>> /\ pc[h] = "idle"
  BY DEF Receive
<1>5. /\ HandlerTypes' /\ OthersRun(h)
      /\ \/ pc'[h] = "answered" /\ tx'[h] = NoTx
         \/ pc'[h] = label /\ tx'[h] = tx[h] /\ error = "none"
  BY <1>3, <1>4, UnlessEffect
<1>6. TypeOK'
  BY <1>2, <1>4, <1>5 DEF TypeOK, HandlerTypes, Outcomes, db
<1>7. OthersKeep(h) /\ req'[h] = r
  BY <1>2, <1>4, <1>5 DEF OthersKeep, TypeOK
<1>8. CASE pc'[h] = "answered" /\ tx'[h] = NoTx
  BY <1>6, <1>7, <1>8, LocalAnswered
<1>9. CASE pc'[h] = label /\ tx'[h] = tx[h] /\ error = "none"
  <2>1. RequestError(r.op, r.actor, r.target, r.respelled, r.body) = "none"
    BY <1>2, <1>9 DEF RequestError
  <2>2. Admitted(h)'
    BY <1>1, <1>2, <1>7, <1>9, <2>1 DEF Admitted, Creating, Found, Op, Caller, Target, Args,
       CreateLabels, UpdateLabels, DeleteLabels, RoleLabels, Request, Operations
  <2>3. UpdateReady(h)'
    BY <1>2, <1>7, <1>9 DEF UpdateReady, Op, UpdateLabels, RoleLabels
  <2>4. Holding(h)'
    BY <1>4, <1>9 DEF Holding, Local
  <2> QED
    BY <1>6, <1>7, <2>2, <2>3, <2>4, LocalFrame
<1> QED
  BY <1>5, <1>8, <1>9

\* A goroutine that has answered holds nothing.
LEMMA ReplyLocal ==
  ASSUME TypeOK, Local, NEW h \in Handlers, Reply(h)
  PROVE  TypeOK' /\ Local'
<1>1. TypeOK'
  BY DEF TypeOK, Reply, Unseen, Row, Labels, db
<1>2. tx[h] = NoTx
  BY DEF Reply, Local, Holding
<1>3. OthersKeep(h) /\ pc'[h] = "idle" /\ tx'[h] = NoTx
  BY <1>2 DEF OthersKeep, OthersRun, Reply, TypeOK
<1> QED
  BY <1>1, <1>3, LocalAnswered

\* A handler that returns an error.
LEMMA ReturnLocal ==
  ASSUME TypeOK, Local, NEW h \in Handlers, NEW result \in Outcomes,
         Return(h, result), UNCHANGED req,
         users' \in [UserIds -> Row], creds' \in SUBSET UserIds,
         ura' \in [UserIds -> [Roles -> {"none", "inactive", "active"}]],
         seen' \in [Handlers -> [row : Row, roles : SUBSET Roles]],
         \A g \in Handlers \ {h} : seen'[g] = seen[g],
         wrote' \in [Handlers -> SUBSET {"row", "roles"}],
         faults' \in 0 .. MaxFaults
  PROVE  TypeOK' /\ Local'
<1>1. /\ HandlerTypes' /\ OthersRun(h)
      /\ pc'[h] = "answered" /\ tx'[h] = NoTx
  BY ReturnEffect
<1>2. TypeOK'
  BY <1>1 DEF TypeOK, HandlerTypes, Outcomes
<1> QED
  BY <1>1, <1>2, LocalAnswered DEF OthersKeep

\* An update goes on to its role change, or to its row.
LEMMA ChangeRoleEffect ==
  ASSUME TypeOK, NEW h \in Handlers, ChangeRole(h)
  PROVE  /\ HandlerTypes' /\ OthersRun(h)
         /\ \/ pc'[h] = "answered" /\ tx'[h] = NoTx
            \/ pc'[h] = "update" /\ tx'[h] = tx[h]
            \/ /\ pc'[h] = "scan" /\ tx'[h] = tx[h]
               /\ RoleError(Caller(h), Args(h).role) = "none"
<1>1. {"update", "scan"} \subseteq Labels
  BY DEF Labels
<1>2. RoleError(Caller(h), Args(h).role) \in {"none"} \cup Errors
  BY ErrorTypes
<1> QED
  BY <1>1, <1>2, UnlessEffect, GotoEffect DEF ChangeRole

\* GetByID, and the decisions on its row, admit the request to the next label.
LEMMA ReadUserLocal ==
  ASSUME TypeOK, Local, NEW h \in Handlers, ReadUser(h)
  PROVE  TypeOK' /\ Local'
<1>1. /\ pc[h] = "load" /\ Busy(h) /\ UNCHANGED <<db, req, wrote, faults>>
      /\ req[h] \in Request /\ Op(h) # "create" /\ tx[h] = NoTx
      /\ RequestError(Op(h), Caller(h), Target(h), req[h].respelled, Args(h)) = "none"
  BY DEF ReadUser, Busy, Local, Admitted, Holding, CreateLabels
<1>2. CASE seen' = seen /\ \E e \in Outcomes : Return(h, e)
  BY <1>1, <1>2, ReturnLocal DEF TypeOK, db
<1>3. CASE /\ Live(Target(h)) /\ CanAccess(Caller(h), users[Target(h)])
           /\ seen' = [seen EXCEPT ![h].row = users[Target(h)]]
  <2>1. users[Target(h)] \in UserRow /\ Target(h) \in UserIds
    BY <1>3, LiveRowType
  <2>2. /\ seen' \in [Handlers -> [row : Row, roles : SUBSET Roles]]
        /\ seen'[h].row = users[Target(h)]
        /\ \A g \in Handlers \ {h} : seen'[g] = seen[g]
    <3>1. users[Target(h)] \in Row
      BY <2>1 DEF Row
    <3> QED
      BY <1>3, <3>1 DEF TypeOK
  <2>3. CASE Op(h) \in {"get", "delete"} /\ UNCHANGED <<tx, todo>>
             /\ Goto(h, IF Op(h) = "get" THEN "roles" ELSE "delete")
    <3>1. /\ HandlerTypes' /\ OthersRun(h) /\ tx'[h] = NoTx
          /\ pc'[h] = IF Op(h) = "get" THEN "roles" ELSE "delete"
      BY <1>1, <2>3, GotoEffect DEF Labels
    <3>2. TypeOK' /\ OthersKeep(h) /\ req'[h] = req[h]
      BY <1>1, <2>2, <3>1 DEF TypeOK, HandlerTypes, Outcomes, OthersKeep, db
    <3>3. Admitted(h)' /\ UpdateReady(h)' /\ Holding(h)'
      BY <1>1, <2>1, <2>3, <3>1, <3>2 DEF Admitted, UpdateReady, Holding, Op, Caller, Target,
         Args, Creating, DeleteLabels
    <3> QED
      BY <3>2, <3>3, LocalFrame
  <2>4. CASE Op(h) = "update" /\ UpdateOrgError(Caller(h), Args(h)) = "none"
             /\ \/ Goto(h, "email") /\ UNCHANGED <<tx, todo>>
                \/ ChangeRole(h)
    <3>1. /\ HandlerTypes' /\ OthersRun(h)
          /\ \/ pc'[h] = "answered" /\ tx'[h] = NoTx
             \/ pc'[h] \in {"email", "update"} /\ tx'[h] = NoTx
             \/ /\ pc'[h] = "scan" /\ tx'[h] = NoTx
                /\ RoleError(Caller(h), Args(h).role) = "none"
      BY <1>1, <2>4, GotoEffect, ChangeRoleEffect DEF Labels
    <3>2. TypeOK' /\ OthersKeep(h) /\ req'[h] = req[h]
      BY <1>1, <2>2, <3>1 DEF TypeOK, HandlerTypes, Outcomes, OthersKeep, db
    <3>3. CASE pc'[h] = "answered"
      BY <3>1, <3>2, <3>3, LocalAnswered
    <3>4. CASE pc'[h] # "answered"
      <4>1. pc'[h] \in {"email", "update", "scan"} /\ tx'[h] = NoTx
        BY <3>1, <3>4
      <4>2. Admitted(h)'
        BY <1>1, <2>1, <2>4, <3>2, <4>1 DEF Admitted, Op, Caller, Target, Args, Creating,
           UpdateLabels, RoleLabels
      <4>3. UpdateReady(h)'
        BY <1>3, <2>1, <2>2, <2>4, <3>1, <3>2, <3>4 DEF UpdateReady, Op, Caller, Args, RoleLabels
      <4>4. Holding(h)'
        BY <4>1 DEF Holding
      <4> QED
        BY <3>2, <4>2, <4>3, <4>4, LocalFrame
    <3> QED
      BY <3>3, <3>4
  <2>5. CASE \E e \in Outcomes : Return(h, e)
    BY <1>1, <2>2, <2>5, ReturnLocal DEF TypeOK, db
  <2>6. UpdateOrgError(Caller(h), Args(h)) # "none" =>
          UpdateOrgError(Caller(h), Args(h)) \in Outcomes
    BY ErrorTypes DEF Outcomes, Errors
  <2> QED
    BY <1>1, <1>3, <2>3, <2>4, <2>5, <2>6 DEF ReadUser, Op, Request, Operations
<1>4. {"userNotFound", "cannotAccessUser"} \subseteq Outcomes
  BY DEF Outcomes, Refusals
<1> QED
  BY <1>2, <1>3, <1>4 DEF ReadUser

TxType == [hold : {"none", "locked", "indexed"}, row : Row,
           cred : BOOLEAN, roles : [Roles -> Pending]]

\* A statement that takes h to a label and leaves it with a transaction.
LEMMA MoveEffect ==
  ASSUME TypeOK, NEW h \in Handlers, NEW label \in Labels, NEW t \in TxType,
         pc' = [pc EXCEPT ![h] = label], tx' = [tx EXCEPT ![h] = t],
         todo' \in [Handlers -> SUBSET Roles],
         UNCHANGED <<users, creds, ura, req, seen, outcome, wrote, faults>>
  PROVE  /\ TypeOK' /\ OthersKeep(h)
         /\ pc'[h] = label /\ tx'[h] = t /\ req'[h] = req[h] /\ seen'[h] = seen[h]
BY DEF TypeOK, OthersKeep, OthersRun, TxType

\* The same for the statements of a transaction, field by field.
LEMMA WriteEffect ==
  ASSUME TypeOK, NEW h \in Handlers, NEW hold \in {"none", "locked", "indexed"},
         NEW row \in Row
  PROVE  /\ [tx[h] EXCEPT !.hold = hold, !.row = row] \in TxType
         /\ [tx[h] EXCEPT !.hold = hold] \in TxType
         /\ [tx[h] EXCEPT !.cred = TRUE] \in TxType
         /\ \A r \in Roles, p \in Pending : [tx[h] EXCEPT !.roles[r] = p] \in TxType
<1>1. tx[h] \in TxType
  BY DEF TypeOK, TxType
<1> QED
  BY <1>1 DEF TxType

\* The EmailExists of a create only reads.
LEMMA CheckNewEmailLocal ==
  ASSUME TypeOK, Local, NEW h \in Handlers, CheckNewEmail(h)
  PROVE  TypeOK' /\ Local'
<1>1. /\ pc[h] = "email" /\ Op(h) = "create" /\ tx[h] = NoTx
      /\ Admitted(h) /\ Busy(h) /\ UNCHANGED <<db, req, seen, wrote, faults>>
  BY DEF CheckNewEmail, Op, Busy, Local, Holding
<1>2. CASE \E e \in Outcomes : Return(h, e)
  BY <1>1, <1>2, ReturnLocal DEF TypeOK, db
<1>3. CASE Goto(h, "procedure") /\ UNCHANGED <<tx, todo>>
  <2>1. /\ HandlerTypes' /\ OthersRun(h) /\ pc'[h] = "procedure" /\ tx'[h] = NoTx
    BY <1>1, <1>3, GotoEffect DEF Labels
  <2>2. TypeOK' /\ OthersKeep(h) /\ req'[h] = req[h]
    BY <1>1, <2>1 DEF TypeOK, HandlerTypes, Outcomes, OthersKeep, db
  <2>3. Admitted(h)' /\ UpdateReady(h)' /\ Holding(h)'
    BY <1>1, <2>1, <2>2 DEF Admitted, UpdateReady, Holding, Op, Caller, Target, Args,
       Creating, CreateLabels, Found
  <2> QED
    BY <2>2, <2>3, LocalFrame
<1>4. {"duplicateEmail", "failed"} \subseteq Outcomes
  BY DEF Outcomes, Refusals, Failures
<1> QED
  BY <1>2, <1>3, <1>4 DEF CheckNewEmail, Unless

\* The EmailExists of an update only reads, and leads to the role or to the row.
LEMMA CheckChangedEmailLocal ==
  ASSUME TypeOK, Local, NEW h \in Handlers, CheckChangedEmail(h)
  PROVE  TypeOK' /\ Local'
<1>1. /\ pc[h] = "email" /\ Op(h) = "update" /\ tx[h] = NoTx
      /\ Admitted(h) /\ UpdateReady(h) /\ Busy(h) /\ Target(h) \in UserIds
      /\ UNCHANGED <<db, req, seen, wrote, faults>>
  BY DEF CheckChangedEmail, Op, Busy, Local, Holding, Admitted, Found, UpdateLabels
<1>2. CASE Return(h, "duplicateEmail")
  BY <1>1, <1>2, ReturnLocal DEF TypeOK, db, Outcomes, Refusals
<1>3. CASE ChangeRole(h)
  <2>1. /\ HandlerTypes' /\ OthersRun(h)
        /\ \/ pc'[h] = "answered" /\ tx'[h] = NoTx
           \/ pc'[h] = "update" /\ tx'[h] = tx[h]
           \/ /\ pc'[h] = "scan" /\ tx'[h] = tx[h]
              /\ RoleError(Caller(h), Args(h).role) = "none"
    BY <1>3, ChangeRoleEffect
  <2>2. TypeOK' /\ OthersKeep(h) /\ req'[h] = req[h] /\ seen'[h] = seen[h]
    BY <1>1, <2>1 DEF TypeOK, HandlerTypes, Outcomes, OthersKeep, db
  <2>3. CASE pc'[h] = "answered"
    BY <2>1, <2>2, <2>3, LocalAnswered
  <2>4. CASE pc'[h] # "answered"
    <3>1. Admitted(h)'
      BY <1>1, <2>1, <2>2, <2>4 DEF Admitted, Op, Caller, Target, Args, Creating,
         UpdateLabels, RoleLabels
    <3>2. UpdateReady(h)'
      BY <1>1, <2>1, <2>2, <2>4 DEF UpdateReady, Op, Caller, Args, UpdateLabels, RoleLabels
    <3>3. Holding(h)'
      BY <1>1, <2>1, <2>4 DEF Holding
    <3> QED
      BY <2>2, <3>1, <3>2, <3>3, LocalFrame
  <2> QED
    BY <2>3, <2>4
<1> QED
  BY <1>2, <1>3 DEF CheckChangedEmail

\* loadRoles ends the request.
LEMMA LoadRolesLocal ==
  ASSUME TypeOK, Local, NEW h \in Handlers, LoadRoles(h)
  PROVE  TypeOK' /\ Local'
<1>1. /\ Return(h, "ok") /\ UNCHANGED <<db, req, wrote, faults>>
      /\ seen' = [seen EXCEPT ![h].roles = ActiveRoles(Target(h))]
      /\ ActiveRoles(Target(h)) \in SUBSET Roles
  BY DEF LoadRoles, ActiveRoles
<1>2. /\ seen' \in [Handlers -> [row : Row, roles : SUBSET Roles]]
      /\ \A g \in Handlers \ {h} : seen'[g] = seen[g]
  BY <1>1 DEF TypeOK
<1> QED
  BY <1>1, <1>2, ReturnLocal DEF TypeOK, db, Outcomes

\* The EXISTS of optype 2 only reads.
LEMMA CheckInProcedureLocal ==
  ASSUME TypeOK, Local, NEW h \in Handlers, CheckInProcedure(h)
  PROVE  TypeOK' /\ Local'
<1>1. /\ pc[h] = "procedure" /\ Op(h) = "create" /\ tx[h] = NoTx
      /\ Admitted(h) /\ Busy(h) /\ UNCHANGED <<db, req, seen, wrote, faults>>
  BY DEF CheckInProcedure, Busy, Local, Admitted, Holding, Op, Request, Operations,
     UpdateLabels, DeleteLabels, RoleLabels
<1>2. CASE Return(h, "duplicateEmail")
  BY <1>1, <1>2, ReturnLocal DEF TypeOK, db, Outcomes, Refusals
<1>3. CASE Goto(h, "insert") /\ UNCHANGED <<tx, todo>>
  <2>1. /\ HandlerTypes' /\ OthersRun(h) /\ pc'[h] = "insert" /\ tx'[h] = NoTx
    BY <1>1, <1>3, GotoEffect DEF Labels
  <2>2. TypeOK' /\ OthersKeep(h) /\ req'[h] = req[h]
    BY <1>1, <2>1 DEF TypeOK, HandlerTypes, Outcomes, OthersKeep, db
  <2>3. Admitted(h)' /\ UpdateReady(h)' /\ Holding(h)'
    BY <1>1, <2>1, <2>2 DEF Admitted, UpdateReady, Holding, Op, Caller, Target, Args,
       Creating, CreateLabels, Found
  <2> QED
    BY <2>2, <2>3, LocalFrame
<1> QED
  BY <1>2, <1>3 DEF CheckInProcedure, Unless

\* The labels of a create's transaction are reached by creates only.
LEMMA CreateFacts ==
  ASSUME TypeOK, Local, NEW h \in Handlers,
         pc[h] \in {"procedure", "insert", "credentials", "role"}
  PROVE  /\ Op(h) = "create" /\ Busy(h) /\ req[h] \in Request /\ Target(h) \in UserIds
         /\ NewRow(Caller(h), Args(h)) \in UserRow
         /\ NewRow(Caller(h), Args(h)).status = "live"
         /\ NewRow(Caller(h), Args(h)).email = Lower[Args(h).email]
         /\ Args(h).email \in Emails /\ Args(h).role \in Roles
<1>1. Busy(h) /\ Admitted(h)
  BY DEF Busy, Local
<1>2. Op(h) = "create" /\ req[h] \in Request
  BY <1>1 DEF Admitted, Op, Request, Operations, UpdateLabels, DeleteLabels, RoleLabels
<1>3. Caller(h) \in Actor /\ Args(h) \in Body
  BY <1>2 DEF Caller, Args, Request
<1>4. RequestError("create", Caller(h), Target(h), req[h].respelled, Args(h)) = "none" /\ Target(h) \in UserIds
  BY <1>1, <1>2 DEF Admitted, Creating, CreateLabels
<1> QED
  BY <1>1, <1>2, <1>3, <1>4, NewRowType

\* The INSERT of optype 2 leaves a well-formed new row in the transaction, or answers.
LEMMA InsertUserLocal ==
  ASSUME TypeOK, Local, NEW h \in Handlers, InsertUser(h)
  PROVE  TypeOK' /\ Local'
<1> DEFINE row == NewRow(Caller(h), Args(h))
           t == [tx[h] EXCEPT !.hold = "indexed", !.row = row]
<1>1. /\ pc[h] = "insert" /\ tx[h] = NoTx /\ Admitted(h)
      /\ UNCHANGED <<db, req, seen, wrote, faults>>
  BY DEF InsertUser, Local, Holding
<1>2. Op(h) = "create" /\ Busy(h) /\ row \in UserRow /\ row.status = "live"
  BY <1>1, CreateFacts
<1>3. CASE Return(h, "uniqueViolation")
  BY <1>1, <1>3, ReturnLocal DEF TypeOK, db, Outcomes, Failures
<1>4. CASE Goto(h, "credentials") /\ UNCHANGED todo
           /\ tx' = [tx EXCEPT ![h].hold = "indexed", ![h].row = row]
  <2>1. t \in TxType /\ tx' = [tx EXCEPT ![h] = t]
    <3>1. row \in Row
      BY <1>2 DEF Row
    <3>2. t \in TxType
      BY <3>1, WriteEffect
    <3> QED
      BY <1>4, <3>2 DEF TypeOK
  <2> HIDE DEF t
  <2>2. /\ TypeOK' /\ OthersKeep(h)
        /\ pc'[h] = "credentials" /\ tx'[h] = t /\ req'[h] = req[h] /\ seen'[h] = seen[h]
    BY <1>1, <1>4, <2>1, MoveEffect DEF Goto, Labels, TypeOK, db
  <2>3. t.hold = "indexed" /\ t.row = row /\ t.cred = FALSE /\ t.roles = NoTx.roles
    BY <1>1 DEF t, NoTx
  <2>4. Admitted(h)' /\ UpdateReady(h)' /\ Holding(h)'
    BY <1>1, <1>2, <2>2, <2>3 DEF Admitted, UpdateReady, Holding, Op, Caller, Target, Args,
       Creating, CreateLabels, Found
  <2> QED
    BY <2>2, <2>4, LocalFrame
<1> QED
  BY <1>3, <1>4 DEF InsertUser

\* The second insert of Create adds the credentials, and nothing else.
LEMMA InsertCredentialsLocal ==
  ASSUME TypeOK, Local, NEW h \in Handlers, InsertCredentials(h)
  PROVE  TypeOK' /\ Local'
<1> DEFINE t == [tx[h] EXCEPT !.cred = TRUE]
<1>1. /\ pc[h] = "credentials" /\ Admitted(h) /\ Holding(h) /\ Op(h) = "create" /\ Busy(h)
      /\ UNCHANGED <<db, todo, req, seen, wrote, faults>> /\ Goto(h, "role")
  BY CreateFacts DEF InsertCredentials, Local
<1>2. t \in TxType /\ tx' = [tx EXCEPT ![h] = t]
  BY WriteEffect DEF InsertCredentials, Row
<1>3. t.hold = tx[h].hold /\ t.row = tx[h].row /\ t.cred = TRUE /\ t.roles = tx[h].roles
  BY DEF TypeOK
<1> HIDE DEF t
<1>4. /\ TypeOK' /\ OthersKeep(h)
      /\ pc'[h] = "role" /\ tx'[h] = t /\ req'[h] = req[h] /\ seen'[h] = seen[h]
  BY <1>1, <1>2, MoveEffect DEF Goto, Labels, TypeOK, db
<1>5. Admitted(h)' /\ UpdateReady(h)' /\ Holding(h)'
  BY <1>1, <1>3, <1>4 DEF Admitted, UpdateReady, Holding, Op, Caller, Target, Args,
     Creating, CreateLabels, Found
<1> QED
  BY <1>4, <1>5, LocalFrame

\* The third insert of Create adds the role asked for, and nothing else.
LEMMA InsertRoleLocal ==
  ASSUME TypeOK, Local, NEW h \in Handlers, InsertRole(h)
  PROVE  TypeOK' /\ Local'
<1> DEFINE t == [tx[h] EXCEPT !.roles[Args(h).role] = "active"]
<1>1. /\ pc[h] = "role" /\ Admitted(h) /\ Holding(h) /\ Op(h) = "create" /\ Busy(h)
      /\ Args(h).role \in Roles
      /\ UNCHANGED <<db, todo, req, seen, wrote, faults>> /\ Goto(h, "commit")
  BY CreateFacts DEF InsertRole, Local
<1>2. t \in TxType /\ tx' = [tx EXCEPT ![h] = t]
  BY <1>1, WriteEffect DEF InsertRole, Row, Pending
<1>3. /\ t.hold = tx[h].hold /\ t.row = tx[h].row /\ t.cred = tx[h].cred
      /\ t.roles[Args(h).role] = "active"
  BY <1>1 DEF TypeOK
<1> HIDE DEF t
<1>4. /\ TypeOK' /\ OthersKeep(h)
      /\ pc'[h] = "commit" /\ tx'[h] = t /\ req'[h] = req[h] /\ seen'[h] = seen[h]
  BY <1>1, <1>2, MoveEffect DEF Goto, Labels, TypeOK, db
<1>5. Admitted(h)' /\ UpdateReady(h)' /\ Holding(h)'
  BY <1>1, <1>3, <1>4 DEF Admitted, UpdateReady, Holding, Op, Caller, Target, Args,
     Creating, CreateLabels, Found
<1> QED
  BY <1>4, <1>5, LocalFrame

\* The labels of an update that has found its user.
LEMMA UpdateFacts ==
  ASSUME TypeOK, Local, NEW h \in Handlers,
         pc[h] \in {"scan", "deactivate", "assign", "commitRole", "update", "index"}
  PROVE  /\ Op(h) = "update" /\ Busy(h) /\ req[h] \in Request /\ Target(h) \in UserIds
         /\ Caller(h) \in Actor /\ Args(h) \in Body
         /\ seen[h].row \in UserRow
         /\ CanAccess(Caller(h), seen[h].row)
         /\ UpdateOrgError(Caller(h), Args(h)) = "none"
         /\ pc[h] \in RoleLabels =>
              /\ Args(h).role \in Roles
              /\ ~IsSuperAdmin(Caller(h)) => RoleCode[Args(h).role] # "SUPER_ADMIN"
<1>1. Busy(h) /\ Admitted(h) /\ UpdateReady(h)
  BY DEF Busy, Local
<1>2. Op(h) = "update" /\ req[h] \in Request
  BY <1>1 DEF Admitted, Op, Request, Operations, CreateLabels, DeleteLabels
<1>3. Caller(h) \in Actor /\ Args(h) \in Body
  BY <1>2 DEF Caller, Args, Request
<1>4. pc[h] \in UpdateLabels /\ Target(h) \in UserIds
  BY <1>1, <1>2 DEF Admitted, Found, UpdateLabels, RoleLabels
<1>5. pc[h] \in RoleLabels => RoleError(Caller(h), Args(h).role) = "none"
  BY <1>1, <1>2 DEF UpdateReady
<1> QED
  BY <1>1, <1>2, <1>3, <1>4, <1>5 DEF UpdateReady, RoleError

\* The snapshot of SetUserRole writes nothing.
LEMMA ScanRolesLocal ==
  ASSUME TypeOK, Local, NEW h \in Handlers, ScanRoles(h)
  PROVE  TypeOK' /\ Local'
<1> DEFINE label == IF ActiveRoles(Target(h)) = {} THEN "assign" ELSE "deactivate"
<1>1. /\ pc[h] = "scan" /\ Admitted(h) /\ UpdateReady(h) /\ tx[h] = NoTx
      /\ Op(h) = "update" /\ Busy(h)
      /\ UNCHANGED <<db, tx, req, seen, wrote, faults>> /\ Goto(h, label)
  BY UpdateFacts DEF ScanRoles, Local, Holding
<1>2. todo' \in [Handlers -> SUBSET Roles]
  BY DEF ScanRoles, ActiveRoles, TypeOK
<1>3. tx[h] \in TxType /\ tx' = [tx EXCEPT ![h] = tx[h]]
  BY <1>1 DEF TypeOK, TxType
<1>4. label \in Labels
  BY DEF Labels
<1>5. /\ TypeOK' /\ OthersKeep(h)
      /\ pc'[h] = label /\ tx'[h] = tx[h] /\ req'[h] = req[h] /\ seen'[h] = seen[h]
  BY <1>1, <1>2, <1>3, <1>4, MoveEffect DEF Goto, db
<1>6. Admitted(h)' /\ UpdateReady(h)' /\ Holding(h)'
  BY <1>1, <1>5 DEF Admitted, UpdateReady, Holding, Op, Caller, Target, Args,
     Creating, UpdateLabels, RoleLabels, Found, NoTx
<1> QED
  BY <1>5, <1>6, LocalFrame

\* A row SetUserRole visits is deactivated or only locked.
LEMMA DeactivateRoleLocal ==
  ASSUME TypeOK, Local, NEW h \in Handlers, DeactivateRole(h)
  PROVE  TypeOK' /\ Local'
<1>1. /\ pc[h] = "deactivate" /\ Admitted(h) /\ UpdateReady(h) /\ Holding(h)
      /\ Op(h) = "update" /\ Busy(h) /\ UNCHANGED <<db, req, seen, wrote, faults>>
  BY UpdateFacts DEF DeactivateRole, Local
<1>2. PICK r \in todo[h] :
        /\ tx' = [tx EXCEPT ![h].roles[r] =
                    IF ura[Target(h)][r] = "active" THEN "inactive" ELSE "locked"]
        /\ todo' = [todo EXCEPT ![h] = @ \ {r}]
        /\ Goto(h, IF todo[h] = {r} THEN "assign" ELSE "deactivate")
  BY DEF DeactivateRole
<1> DEFINE p == IF ura[Target(h)][r] = "active" THEN "inactive" ELSE "locked"
           t == [tx[h] EXCEPT !.roles[r] = p]
           label == IF todo[h] = {r} THEN "assign" ELSE "deactivate"
<1>3. r \in Roles /\ p \in Pending /\ label \in {"assign", "deactivate"}
  BY DEF TypeOK, Pending
<1>4. t \in TxType /\ tx' = [tx EXCEPT ![h] = t]
  BY <1>2, <1>3, WriteEffect DEF Row
<1>5. t.hold = tx[h].hold /\ t.cred = tx[h].cred
  BY DEF TypeOK
<1>6. todo' \in [Handlers -> SUBSET Roles]
  BY <1>2 DEF TypeOK
<1> HIDE DEF t, label
<1>7. /\ TypeOK' /\ OthersKeep(h)
      /\ pc'[h] = label /\ tx'[h] = t /\ req'[h] = req[h] /\ seen'[h] = seen[h]
  <2>1. label \in Labels
    BY <1>3 DEF Labels
  <2>2. pc' = [pc EXCEPT ![h] = label] /\ outcome' = outcome
    BY <1>2 DEF Goto, label
  <2> QED
    BY <1>1, <1>4, <1>6, <2>1, <2>2, MoveEffect DEF db
<1>8. Admitted(h)' /\ UpdateReady(h)' /\ Holding(h)'
  BY <1>1, <1>3, <1>5, <1>7 DEF Admitted, UpdateReady, Holding, Op, Caller, Target, Args,
     Creating, UpdateLabels, RoleLabels, Found
<1> QED
  BY <1>7, <1>8, LocalFrame

\* The upsert of SetUserRole makes the role asked for active.
LEMMA AssignRoleLocal ==
  ASSUME TypeOK, Local, NEW h \in Handlers, AssignRole(h)
  PROVE  TypeOK' /\ Local'
<1> DEFINE t == [tx[h] EXCEPT !.roles[Args(h).role] = "active"]
<1>1. /\ pc[h] = "assign" /\ Admitted(h) /\ UpdateReady(h) /\ Holding(h)
      /\ Op(h) = "update" /\ Busy(h) /\ Args(h).role \in Roles
      /\ UNCHANGED <<db, todo, req, seen, wrote, faults>> /\ Goto(h, "commitRole")
  BY UpdateFacts DEF AssignRole, Local, RoleLabels
<1>2. t \in TxType /\ tx' = [tx EXCEPT ![h] = t]
  BY <1>1, WriteEffect DEF AssignRole, Row, Pending
<1>3. t.hold = tx[h].hold /\ t.cred = tx[h].cred /\ t.roles[Args(h).role] = "active"
  BY <1>1 DEF TypeOK
<1> HIDE DEF t
<1>4. /\ TypeOK' /\ OthersKeep(h)
      /\ pc'[h] = "commitRole" /\ tx'[h] = t /\ req'[h] = req[h] /\ seen'[h] = seen[h]
  BY <1>1, <1>2, MoveEffect DEF Goto, Labels, TypeOK, db
<1>5. Admitted(h)' /\ UpdateReady(h)' /\ Holding(h)'
  BY <1>1, <1>3, <1>4 DEF Admitted, UpdateReady, Holding, Op, Caller, Target, Args,
     Creating, UpdateLabels, RoleLabels, Found
<1> QED
  BY <1>4, <1>5, LocalFrame

\* Optype 3 leaves a well-formed live row in the transaction, or answers.
LEMMA UpdateRowLocal ==
  ASSUME TypeOK, Local, NEW h \in Handlers, UpdateRow(h)
  PROVE  TypeOK' /\ Local'
<1> DEFINE row == Overwrite(users[Target(h)], Merge(Caller(h), Args(h), seen[h].row))
           t == [tx[h] EXCEPT !.hold = "locked", !.row = row]
<1>1. /\ pc[h] = "update" /\ tx[h] = NoTx /\ Admitted(h) /\ UpdateReady(h)
      /\ UNCHANGED <<db, req, seen, wrote, faults>> /\ Op(h) = "update" /\ Busy(h)
  BY UpdateFacts DEF UpdateRow, Local, Holding
<1>2. CASE Return(h, "userNotFound")
  BY <1>1, <1>2, ReturnLocal DEF TypeOK, db, Outcomes, Refusals
<1>3. CASE /\ Live(Target(h)) /\ Goto(h, "index") /\ UNCHANGED todo
           /\ tx' = [tx EXCEPT ![h].hold = "locked", ![h].row = row]
  <2>1. row \in UserRow /\ row.status = "live"
    <3>1. users[Target(h)] \in UserRow /\ users[Target(h)].status = "live"
      BY <1>3, LiveRowType DEF Live
    <3> QED
      BY <1>1, <3>1, UpdateFacts, OverwriteType
  <2> HIDE DEF row
  <2>2. t \in TxType /\ tx' = [tx EXCEPT ![h] = t]
    <3>1. row \in Row
      BY <2>1 DEF Row
    <3>2. t \in TxType
      BY <3>1, WriteEffect
    <3> QED
      BY <1>3, <3>2 DEF TypeOK
  <2>3. t.hold = "locked" /\ t.row = row /\ t.cred = FALSE /\ t.roles = NoTx.roles
    BY <1>1 DEF NoTx
  <2> HIDE DEF t
  <2>4. /\ TypeOK' /\ OthersKeep(h)
        /\ pc'[h] = "index" /\ tx'[h] = t /\ req'[h] = req[h] /\ seen'[h] = seen[h]
    BY <1>1, <1>3, <2>2, MoveEffect DEF Goto, Labels, TypeOK, db
  <2>5. Admitted(h)' /\ UpdateReady(h)' /\ Holding(h)'
    BY <1>1, <2>1, <2>3, <2>4 DEF Admitted, UpdateReady, Holding, Op, Caller, Target, Args,
       Creating, UpdateLabels, RoleLabels, Found
  <2> QED
    BY <2>4, <2>5, LocalFrame
<1> QED
  BY <1>2, <1>3 DEF UpdateRow

\* The index entry of optype 3 leaves the row as it was written.
LEMMA IndexRowLocal ==
  ASSUME TypeOK, Local, NEW h \in Handlers, IndexRow(h)
  PROVE  TypeOK' /\ Local'
<1> DEFINE t == [tx[h] EXCEPT !.hold = "indexed"]
<1>1. /\ pc[h] = "index" /\ Admitted(h) /\ UpdateReady(h) /\ Holding(h)
      /\ UNCHANGED <<db, req, seen, wrote, faults>> /\ Op(h) = "update" /\ Busy(h)
  BY UpdateFacts DEF IndexRow, Local
<1>2. CASE Return(h, "uniqueViolation")
  BY <1>1, <1>2, ReturnLocal DEF TypeOK, db, Outcomes, Failures
<1>3. CASE Goto(h, "commit") /\ UNCHANGED todo /\ tx' = [tx EXCEPT ![h].hold = "indexed"]
  <2>1. t \in TxType /\ tx' = [tx EXCEPT ![h] = t]
    BY <1>3, WriteEffect DEF Row
  <2>2. t.hold = "indexed" /\ t.row = tx[h].row /\ t.cred = tx[h].cred /\ t.roles = tx[h].roles
    BY DEF TypeOK
  <2> HIDE DEF t
  <2>3. /\ TypeOK' /\ OthersKeep(h)
        /\ pc'[h] = "commit" /\ tx'[h] = t /\ req'[h] = req[h] /\ seen'[h] = seen[h]
    BY <1>1, <1>3, <2>1, MoveEffect DEF Goto, Labels, TypeOK, db
  <2>4. Admitted(h)' /\ UpdateReady(h)' /\ Holding(h)'
    BY <1>1, <2>2, <2>3 DEF Admitted, UpdateReady, Holding, Op, Caller, Target, Args,
       Creating, UpdateLabels, RoleLabels, Found
  <2> QED
    BY <2>3, <2>4, LocalFrame
<1> QED
  BY <1>2, <1>3 DEF IndexRow

\* Optype 4 leaves a deleted row in the transaction, or answers.
LEMMA DeleteRowLocal ==
  ASSUME TypeOK, Local, NEW h \in Handlers, DeleteRow(h)
  PROVE  TypeOK' /\ Local'
<1> DEFINE row == SoftDelete(users[Target(h)])
           t == [tx[h] EXCEPT !.hold = "locked", !.row = row]
<1>1. /\ pc[h] = "delete" /\ tx[h] = NoTx /\ Admitted(h) /\ Busy(h)
      /\ UNCHANGED <<db, req, seen, wrote, faults>>
  BY DEF DeleteRow, Local, Holding, Busy
<1>2. Op(h) = "delete"
  BY <1>1 DEF Admitted, Op, Request, Operations, CreateLabels, UpdateLabels, RoleLabels
<1>3. CASE Return(h, "userNotFound")
  BY <1>1, <1>3, ReturnLocal DEF TypeOK, db, Outcomes, Refusals
<1>4. CASE /\ Live(Target(h)) /\ Goto(h, "commit") /\ UNCHANGED todo
           /\ tx' = [tx EXCEPT ![h].hold = "locked", ![h].row = row]
  <2>1. row \in UserRow /\ row.status = "deleted"
    BY <1>4, LiveRowType, SoftDeleteType
  <2> HIDE DEF row
  <2>2. t \in TxType /\ tx' = [tx EXCEPT ![h] = t]
    <3>1. row \in Row
      BY <2>1 DEF Row
    <3>2. t \in TxType
      BY <3>1, WriteEffect
    <3> QED
      BY <1>4, <3>2 DEF TypeOK
  <2>3. t.hold = "locked" /\ t.row = row /\ t.cred = FALSE /\ t.roles = NoTx.roles
    BY <1>1 DEF NoTx
  <2> HIDE DEF t
  <2>4. /\ TypeOK' /\ OthersKeep(h)
        /\ pc'[h] = "commit" /\ tx'[h] = t /\ req'[h] = req[h] /\ seen'[h] = seen[h]
    BY <1>1, <1>4, <2>2, MoveEffect DEF Goto, Labels, TypeOK, db
  <2>5. Admitted(h)' /\ UpdateReady(h)' /\ Holding(h)'
    BY <1>1, <1>2, <2>1, <2>3, <2>4 DEF Admitted, UpdateReady, Holding, Op, Caller, Target,
       Args, Creating, DeleteLabels, Found
  <2> QED
    BY <2>4, <2>5, LocalFrame
<1> QED
  BY <1>3, <1>4 DEF DeleteRow

-----------------------------------------------------------------------------
(* Ends of transactions.                                                   *)

\* A transaction that ends with its row written, or with its roles.
Ending(h) == pc[h] \in {"commit", "commitRole"}

\* What is known of a transaction that is about to commit.
LEMMA EndingFacts ==
  ASSUME TypeOK, Local, NEW h \in Handlers, Ending(h)
  PROVE  /\ Busy(h) /\ Admitted(h) /\ Holding(h) /\ UpdateReady(h) /\ Target(h) \in UserIds
         /\ Op(h) \in {"create", "update", "delete"}
         /\ pc[h] = "commitRole" => Op(h) = "update"
         /\ pc[h] = "commitRole" => Args(h).role \in Roles
         /\ Op(h) = "create" => Args(h).role \in Roles
<1>1. Busy(h) /\ Admitted(h) /\ Holding(h) /\ UpdateReady(h)
  BY DEF Ending, Busy, Local
<1>2. req[h] \in Request /\ Op(h) \in {"create", "update", "delete"}
  BY <1>1 DEF Admitted, Ending, Op, Request, Operations
<1>3. pc[h] = "commitRole" => Op(h) = "update" /\ Args(h).role \in Roles
  BY UpdateFacts DEF RoleLabels
<1>4. Op(h) = "create" => Creating(h)
  BY <1>3 DEF Creating, CreateLabels, Ending
<1>5. Op(h) # "create" => Found(h)
  BY DEF Found, UpdateLabels, RoleLabels, Ending
<1>6. Target(h) \in UserIds
  BY <1>1, <1>4, <1>5 DEF Admitted
<1>7. Op(h) = "create" => Args(h).role \in Roles
  <2> SUFFICES ASSUME Op(h) = "create" PROVE Args(h).role \in Roles
    OBVIOUS
  <2>1. RequestError("create", Caller(h), Target(h), req[h].respelled, Args(h)) = "none"
    BY <1>1 DEF Admitted
  <2>2. Caller(h) \in Actor /\ Args(h) \in Body
    BY <1>2 DEF Caller, Args, Request
  <2> QED
    BY <2>1, <2>2, NewRowType
<1> QED
  BY <1>1, <1>2, <1>3, <1>6, <1>7

\* A commit keeps the tables well formed.
LEMMA ApplyTypes ==
  ASSUME TypeOK, Local, NEW h \in Handlers, Ending(h), Apply(h)
  PROVE  /\ users' \in [UserIds -> Row]
         /\ creds' \in SUBSET UserIds
         /\ ura' \in [UserIds -> [Roles -> {"none", "inactive", "active"}]]
         /\ wrote' \in [Handlers -> SUBSET {"row", "roles"}]
<1>1. Target(h) \in UserIds
  BY EndingFacts
<1>2. tx[h].row \in Row /\ tx[h].roles \in [Roles -> Pending]
  BY DEF TypeOK
<1>3. users' \in [UserIds -> Row]
  BY <1>1, <1>2 DEF Apply, TypeOK
<1>4. creds' \in SUBSET UserIds
  BY <1>1 DEF Apply, TypeOK
<1>5. ura' \in [UserIds -> [Roles -> {"none", "inactive", "active"}]]
  BY <1>1, <1>2 DEF Apply, TypeOK
<1>6. wrote' \in [Handlers -> SUBSET {"row", "roles"}]
  BY DEF Apply, TypeOK
<1> QED
  BY <1>3, <1>4, <1>5, <1>6

\* After the commit of Create or callManageUser nothing is held.
LEMMA CommitLocal ==
  ASSUME TypeOK, Local, NEW h \in Handlers, Commit(h)
  PROVE  TypeOK' /\ Local'
<1>1. /\ pc[h] = "commit" /\ Apply(h) /\ UNCHANGED <<req, faults>>
      /\ seen' = [seen EXCEPT ![h].row = tx[h].row] /\ Ending(h)
  BY DEF Commit, Ending
<1>2. /\ seen' \in [Handlers -> [row : Row, roles : SUBSET Roles]]
      /\ \A g \in Handlers \ {h} : seen'[g] = seen[g]
  <2>1. tx[h].row \in Row
    BY DEF TypeOK
  <2> QED
    BY <1>1, <2>1 DEF TypeOK
<1>3. CASE Return(h, "ok")
  BY <1>1, <1>2, <1>3, ApplyTypes, ReturnLocal DEF TypeOK, Outcomes
<1>4. CASE /\ Op(h) # "delete" /\ Goto(h, "roles")
           /\ tx' = [tx EXCEPT ![h] = NoTx] /\ UNCHANGED todo
  <2>1. TypeOK'
    BY <1>1, <1>2, <1>4, ApplyTypes, NoTxType DEF TypeOK, Goto, Labels
  <2>2. OthersKeep(h) /\ pc'[h] = "roles" /\ tx'[h] = NoTx /\ req'[h] = req[h]
    BY <1>1, <1>2, <1>4 DEF OthersKeep, OthersRun, Goto, TypeOK
  <2>3. Admitted(h) /\ Busy(h) /\ Target(h) \in UserIds /\ Op(h) \in {"create", "update", "delete"}
    BY <1>1, EndingFacts
  <2>4. Admitted(h)' /\ UpdateReady(h)' /\ Holding(h)'
    BY <1>1, <1>4, <2>2, <2>3 DEF Admitted, UpdateReady, Holding, Op, Caller, Target, Args,
       UpdateLabels, RoleLabels
  <2> QED
    BY <2>1, <2>2, <2>4, LocalFrame
<1> QED
  BY <1>3, <1>4 DEF Commit, Op

\* After the commit of SetUserRole nothing is held.
LEMMA CommitRoleLocal ==
  ASSUME TypeOK, Local, NEW h \in Handlers, CommitRole(h)
  PROVE  TypeOK' /\ Local'
<1>1. /\ pc[h] = "commitRole" /\ Apply(h) /\ UNCHANGED <<todo, req, seen, faults>>
      /\ Goto(h, "update") /\ tx' = [tx EXCEPT ![h] = NoTx] /\ Ending(h)
  BY DEF CommitRole, Ending
<1>2. TypeOK'
  BY <1>1, ApplyTypes, NoTxType DEF TypeOK, Goto, Labels
<1>3. /\ OthersKeep(h) /\ pc'[h] = "update" /\ tx'[h] = NoTx
      /\ req'[h] = req[h] /\ seen'[h] = seen[h]
  BY <1>1 DEF OthersKeep, OthersRun, Goto, TypeOK
<1>4. /\ Admitted(h) /\ UpdateReady(h) /\ Busy(h) /\ Target(h) \in UserIds /\ Op(h) = "update"
  BY <1>1, EndingFacts
<1>5. Admitted(h)' /\ UpdateReady(h)' /\ Holding(h)'
  BY <1>1, <1>3, <1>4 DEF Admitted, UpdateReady, Holding, Op, Caller, Target, Args,
     UpdateLabels, RoleLabels
<1> QED
  BY <1>2, <1>3, <1>5, LocalFrame

\* A failure rolls back and answers.
LEMMA FailureLocal ==
  ASSUME TypeOK, Local, NEW h \in Handlers,
         AbortDeadlock(h) \/ Fault(h) \/ LoseCommitAck(h)
  PROVE  TypeOK' /\ Local'
<1>1. {"deadlockDetected", "failed"} \subseteq Outcomes
  BY DEF Outcomes, Failures
<1>2. CASE AbortDeadlock(h)
  BY <1>1, <1>2, ReturnLocal DEF AbortDeadlock, TypeOK, db
<1>3. faults < MaxFaults /\ faults' = faults + 1 => faults' \in 0 .. MaxFaults
  BY FaultAssumption DEF TypeOK
<1>4. CASE Fault(h)
  BY <1>1, <1>3, <1>4, ReturnLocal DEF Fault, TypeOK, db
<1>5. CASE LoseCommitAck(h)
  BY <1>1, <1>3, <1>5, ApplyTypes, ReturnLocal DEF LoseCommitAck, TypeOK, Ending
<1> QED
  BY <1>2, <1>4, <1>5

\* After a restart every handler is idle.
LEMMA CrashLocal ==
  ASSUME TypeOK, Local, Crash
  PROVE  TypeOK' /\ Local'
<1>1. faults' \in 0 .. MaxFaults
  BY FaultAssumption DEF TypeOK, Crash
<1>2. TypeOK'
  BY <1>1, NoTxType DEF TypeOK, Crash, Labels, Unseen, Row, db
<1>3. \A h \in Handlers : pc'[h] = "idle" /\ tx'[h] = NoTx
  BY DEF Crash
<1> QED
  BY <1>2, <1>3 DEF Local, Admitted, Busy, UpdateReady, UpdateLabels, RoleLabels, Holding

\* Every step keeps the types and what the handlers rely on.
LEMMA LocalNext ==
  ASSUME TypeOK, Local, [Next]_vars
  PROVE  TypeOK' /\ Local'
<1>1. CASE UNCHANGED vars
  <2>1. TypeOK'
    BY <1>1 DEF vars, TypeOK
  <2> SUFFICES ASSUME NEW h \in Handlers
               PROVE  (Admitted(h) /\ UpdateReady(h) /\ Holding(h))'
    BY <2>1 DEF Local
  <2>2. Admitted(h) /\ UpdateReady(h) /\ Holding(h)
    BY DEF Local
  <2>3. Admitted(h)'
    BY <1>1, <2>2 DEF vars, Admitted, Busy, Creating, Found, Op, Caller, Target, Args
  <2>4. UpdateReady(h)'
    BY <1>1, <2>2 DEF vars, UpdateReady, Op, Caller, Args
  <2>5. Holding(h)'
    BY <1>1, <2>2 DEF vars, Holding, Op, Args
  <2> QED
    BY <2>3, <2>4, <2>5
<1>2. ASSUME NEW h \in Handlers, NEW q \in Requests, Receive(h, q)
      PROVE  TypeOK' /\ Local'
  BY <1>2, ReceiveLocal
<1>3. ASSUME NEW h \in Handlers, Step(h)
      PROVE  TypeOK' /\ Local'
  BY <1>3, ReadUserLocal, CheckNewEmailLocal, CheckChangedEmailLocal, LoadRolesLocal,
     CheckInProcedureLocal, InsertUserLocal, InsertCredentialsLocal, InsertRoleLocal,
     ScanRolesLocal, DeactivateRoleLocal, AssignRoleLocal, UpdateRowLocal, IndexRowLocal,
     DeleteRowLocal, CommitLocal, CommitRoleLocal DEF Step
<1>4. ASSUME NEW h \in Handlers,
             Reply(h) \/ AbortDeadlock(h) \/ Fault(h) \/ LoseCommitAck(h)
      PROVE  TypeOK' /\ Local'
  BY <1>4, ReplyLocal, FailureLocal
<1> QED
  BY <1>1, <1>2, <1>3, <1>4, CrashLocal DEF Next

-----------------------------------------------------------------------------
(* What the transactions keep of the tables.                               *)

Shared == Present /\ Exclusive /\ PendingKeys /\ UniqueLiveEmail /\ CompleteAccounts

\* The database conditions a step of h has to meet for the request it serves.
OwnRequest(h) ==
  /\ (Busy(h) /\ Creating(h))' =>
       /\ users[Target(h)'].status = "none"
       /\ \A g \in Handlers \ {h} : Busy(g) /\ Creating(g) => Target(g) # Target(h)'
  /\ (Busy(h) /\ Found(h))' => users[Target(h)'].status # "none"

\* They hold of a step within one request ...
LEMMA SameRequest ==
  ASSUME Present, Exclusive, NEW h \in Handlers, req'[h] = req[h],
         (Busy(h) /\ Creating(h))' => Busy(h) /\ Creating(h),
         (Busy(h) /\ Found(h))' => Busy(h) /\ Found(h)
  PROVE  OwnRequest(h)
<1>1. Target(h)' = Target(h)
  BY DEF Target
<1> QED
  BY <1>1 DEF OwnRequest, Present, Exclusive

\* ... and of a step that ends it.
LEMMA EndedRequest ==
  ASSUME NEW h \in Handlers, pc'[h] \in {"answered", "idle"}
  PROVE  OwnRequest(h)
BY DEF OwnRequest, Busy

\* A step that writes no table and takes no row or index entry.
LEMMA QuietShared ==
  ASSUME TypeOK, Shared, NEW h \in Handlers, OthersKeep(h), UNCHANGED db, OwnRequest(h),
         \/ tx'[h].hold = "none"
         \/ tx'[h].hold = tx[h].hold /\ tx'[h].row = tx[h].row /\ req'[h] = req[h]
  PROVE  Shared'
<1>1. \A g \in Handlers \ {h} :
        /\ pc'[g] = pc[g] /\ tx'[g] = tx[g] /\ req'[g] = req[g]
        /\ Busy(g)' = Busy(g) /\ Creating(g)' = Creating(g) /\ Found(g)' = Found(g)
        /\ Op(g)' = Op(g) /\ Target(g)' = Target(g)
  BY DEF OthersKeep, OthersRun, Busy, Creating, Found, Op, Target
<1>2. users' = users /\ creds' = creds /\ ura' = ura /\ \A u : Live(u)' = Live(u)
  BY DEF db, Live
<1>3. tx'[h].hold # "none" =>
        /\ tx'[h].hold = tx[h].hold /\ tx'[h].row = tx[h].row
        /\ Target(h)' = Target(h) /\ Op(h)' = Op(h)
  BY DEF Target, Op
<1>4. Present'
  <2> SUFFICES ASSUME NEW g \in Handlers
               PROVE  /\ (Busy(g) /\ Creating(g))' => users[Target(g)'].status = "none"
                      /\ (Busy(g) /\ Found(g))' => users[Target(g)'].status # "none"
                      /\ tx'[g].hold # "none" /\ Op(g)' # "create" => Live(Target(g)')
    BY <1>2 DEF Present, Live
  <2>1. CASE g = h
    BY <1>3, <2>1 DEF OwnRequest, Shared, Present
  <2>2. CASE g # h
    BY <1>1, <2>2 DEF Shared, Present
  <2> QED
    BY <2>1, <2>2
<1>5. Exclusive'
  <2> SUFFICES ASSUME NEW g \in Handlers, NEW k \in Handlers, g # k
               PROVE  /\ tx'[g].hold # "none" /\ tx'[k].hold # "none" => Target(g)' # Target(k)'
                      /\ (Busy(g) /\ Creating(g))' /\ (Busy(k) /\ Creating(k))'
                           => Target(g)' # Target(k)'
    BY DEF Exclusive
  <2>1. CASE g # h /\ k # h
    BY <1>1, <2>1 DEF Shared, Exclusive
  <2>2. CASE g = h
    BY <1>1, <1>3, <2>2 DEF OwnRequest, Shared, Exclusive
  <2>3. CASE k = h
    BY <1>1, <1>3, <2>3 DEF OwnRequest, Shared, Exclusive
  <2> QED
    BY <2>1, <2>2, <2>3
<1>6. PendingKeys'
  <2>1. \A g \in Handlers : tx'[g].hold = "indexed" =>
          tx[g].hold = "indexed" /\ tx'[g].row = tx[g].row /\ Target(g)' = Target(g)
    BY <1>1, <1>3
  <2> QED
    BY <1>2, <2>1 DEF Shared, PendingKeys, Key
<1>7. UniqueLiveEmail' /\ CompleteAccounts'
  BY <1>2 DEF Shared, UniqueLiveEmail, CompleteAccounts, Live, Key, ActiveRoles
<1> QED
  BY <1>4, <1>5, <1>6, <1>7 DEF Shared

\* A step that returns an error rolls back and writes nothing.
LEMMA ReturnShared ==
  ASSUME TypeOK, Shared, NEW h \in Handlers, NEW result \in Outcomes,
         Return(h, result), UNCHANGED <<db, req>>,
         \A g \in Handlers \ {h} : seen'[g] = seen[g]
  PROVE  Shared'
<1>1. OthersRun(h) /\ pc'[h] = "answered" /\ tx'[h] = NoTx
  BY ReturnEffect
<1>2. OthersKeep(h) /\ tx'[h].hold = "none"
  BY <1>1 DEF OthersKeep, NoTx
<1> QED
  BY <1>1, <1>2, EndedRequest, QuietShared

\* A statement that moves h within its request, between labels at which it
\* holds no row or goes on holding it.
LEMMA MoveShared ==
  ASSUME TypeOK, Shared, NEW h \in Handlers, OthersKeep(h), UNCHANGED <<db, req>>,
         Busy(h), Creating(h)' => Creating(h), Found(h)' => Found(h),
         tx'[h].hold = "none" \/ (tx'[h].hold = tx[h].hold /\ tx'[h].row = tx[h].row)
  PROVE  Shared'
BY SameRequest, QuietShared DEF Shared

\* A new request collides with nobody: its id is fresh.
LEMMA ReceiveShared ==
  ASSUME TypeOK, Local, Shared, NEW h \in Handlers, NEW q \in Requests, Receive(h, q)
  PROVE  Shared'
<1> DEFINE error == RequestError(q.op, q.actor, q.target, q.respelled, q.body)
           label == IF q.op = "create" THEN "email" ELSE "load"
<1>1. label \in Labels /\ error \in {"none"} \cup Errors
  BY ErrorTypes DEF Labels
<1>2. Unless(h, error, label) /\ UNCHANGED <<db, seen>> /\ tx[h] = NoTx
  BY DEF Receive, Local, Holding
<1>3. /\ OthersRun(h) /\ tx'[h] = NoTx
      /\ pc'[h] = "answered" \/ (pc'[h] = label /\ error = "none")
  BY <1>1, <1>2, UnlessEffect
<1>4. OthersKeep(h)
  BY <1>2, <1>3 DEF OthersKeep, Receive, TypeOK
<1>5. OwnRequest(h)
  <2>1. CASE pc'[h] = "answered"
    BY <2>1, EndedRequest
  <2>2. CASE pc'[h] = "load" /\ q.op # "create"
    BY <2>2 DEF OwnRequest, Creating, Found, CreateLabels, UpdateLabels, DeleteLabels, RoleLabels
  <2>3. CASE pc'[h] = "email" /\ q.op = "create" /\ error = "none"
    <3>1. PICK u \in FreshIds : req' = [req EXCEPT ![h] = [q EXCEPT !.target = u]]
      BY <2>3 DEF Receive
    <3>2. q \in Request
      BY RequestAssumption
    <3>3. Target(h)' = u /\ Op(h)' = "create"
      BY <2>3, <3>1, <3>2 DEF Target, Op, TypeOK, Request
    <3> QED
      BY <2>3, <3>1, <3>3 DEF OwnRequest, FreshIds, Found
  <2> QED
    BY <1>3, <2>1, <2>2, <2>3
<1> QED
  BY <1>2, <1>3, <1>4, <1>5, QuietShared DEF NoTx

\* A reply changes nothing that others see.
LEMMA ReplyShared ==
  ASSUME TypeOK, Local, Shared, NEW h \in Handlers, Reply(h)
  PROVE  Shared'
<1>1. OthersKeep(h) /\ pc'[h] = "idle" /\ tx'[h] = NoTx /\ UNCHANGED db
  BY DEF OthersKeep, OthersRun, Reply, TypeOK, Local, Holding
<1> QED
  BY <1>1, EndedRequest, QuietShared DEF NoTx

\* A user that was found is there.
LEMMA ReadUserShared ==
  ASSUME TypeOK, Local, Shared, NEW h \in Handlers, ReadUser(h)
  PROVE  Shared'
<1>1. /\ pc[h] = "load" /\ UNCHANGED <<db, req>> /\ tx[h] = NoTx /\ Op(h) # "create"
      /\ \A g \in Handlers \ {h} : seen'[g] = seen[g]
  BY DEF ReadUser, Local, Admitted, Holding, Busy, CreateLabels, TypeOK
<1>2. CASE \E e \in Outcomes : Return(h, e)
  BY <1>1, <1>2, ReturnShared
<1>3. CASE /\ users[Target(h)].status = "live"
           /\ \/ \E l \in {"roles", "delete", "email"} : Goto(h, l) /\ UNCHANGED <<tx, todo>>
              \/ ChangeRole(h)
  <2>1. {"roles", "delete", "email"} \subseteq Labels
    BY DEF Labels
  <2>2. OthersRun(h) /\ tx'[h] = NoTx
    BY <1>1, <1>3, <2>1, GotoEffect, ChangeRoleEffect
  <2>3. OthersKeep(h) /\ tx'[h].hold = "none"
    BY <1>1, <2>2 DEF OthersKeep, NoTx
  <2>4. OwnRequest(h)
    BY <1>1, <1>3 DEF OwnRequest, Creating, Target, Op
  <2> QED
    BY <1>1, <2>3, <2>4, QuietShared
<1>4. /\ {"userNotFound", "cannotAccessUser"} \subseteq Outcomes
      /\ UpdateOrgError(Caller(h), Args(h)) # "none" =>
           UpdateOrgError(Caller(h), Args(h)) \in Outcomes
  BY ErrorTypes DEF Outcomes, Errors, Refusals
<1>5. Op(h) \in {"get", "delete", "update"}
  BY <1>1 DEF Local, Admitted, Busy, Op, Request, Operations
<1> QED
  BY <1>2, <1>3, <1>4, <1>5 DEF ReadUser, Live, Op

\* The other statements that hold no row, and those of Create after its row.
LEMMA PlainShared ==
  ASSUME TypeOK, Local, Shared, NEW h \in Handlers,
         \/ CheckNewEmail(h) \/ CheckChangedEmail(h) \/ LoadRoles(h) \/ CheckInProcedure(h)
         \/ InsertCredentials(h) \/ InsertRole(h)
         \/ ScanRoles(h) \/ DeactivateRole(h) \/ AssignRole(h)
         \/ AbortDeadlock(h) \/ Fault(h)
  PROVE  Shared'
<1>1. {"ok", "duplicateEmail", "failed", "deadlockDetected"} \subseteq Outcomes
  BY DEF Outcomes, Refusals, Failures
<1>2. CASE LoadRoles(h) \/ AbortDeadlock(h) \/ Fault(h)
  <2>1. /\ \E e \in Outcomes : Return(h, e)
        /\ UNCHANGED <<db, req>> /\ \A g \in Handlers \ {h} : seen'[g] = seen[g]
    BY <1>1, <1>2 DEF LoadRoles, AbortDeadlock, Fault, TypeOK
  <2> QED
    BY <2>1, ReturnShared
<1>3. CASE CheckNewEmail(h) \/ CheckInProcedure(h)
  <2>1. CASE \E e \in Outcomes : Return(h, e)
    BY <1>3, <2>1, ReturnShared DEF CheckNewEmail, CheckInProcedure
  <2>2. CASE \E l \in {"procedure", "insert"} : Goto(h, l) /\ UNCHANGED <<tx, todo>>
    <3>1. /\ Op(h) = "create" /\ Creating(h) /\ Busy(h) /\ tx[h] = NoTx
          /\ UNCHANGED <<db, req, seen>>
      BY <1>3, CreateFacts DEF CheckNewEmail, CheckInProcedure, Op, Creating, CreateLabels,
         Busy, Local, Holding
    <3>2. OthersRun(h) /\ tx'[h] = NoTx
      BY <2>2, <3>1, GotoEffect DEF Labels
    <3>3. OthersKeep(h) /\ ~Found(h)'
      BY <3>1, <3>2 DEF OthersKeep, Found, Op
    <3> QED
      BY <3>1, <3>2, <3>3, MoveShared DEF NoTx
  <2> QED
    BY <1>1, <1>3, <2>1, <2>2 DEF CheckNewEmail, CheckInProcedure, Unless
<1>4. CASE CheckChangedEmail(h)
  <2>1. CASE Return(h, "duplicateEmail")
    BY <1>1, <1>4, <2>1, ReturnShared DEF CheckChangedEmail
  <2>2. CASE ChangeRole(h)
    <3>1. /\ Op(h) = "update" /\ Found(h) /\ Busy(h) /\ tx[h] = NoTx
          /\ UNCHANGED <<db, req, seen>>
      BY <1>4 DEF CheckChangedEmail, Op, Found, UpdateLabels, Busy, Local, Holding
    <3>2. OthersRun(h) /\ tx'[h] = NoTx
      BY <2>2, <3>1, ChangeRoleEffect
    <3>3. OthersKeep(h) /\ ~Creating(h)'
      BY <3>1, <3>2 DEF OthersKeep, Creating, Op
    <3> QED
      BY <3>1, <3>2, <3>3, MoveShared DEF NoTx
  <2> QED
    BY <1>4, <2>1, <2>2 DEF CheckChangedEmail
<1>5. CASE InsertCredentials(h) \/ InsertRole(h)
  <2>1. /\ Op(h) = "create" /\ Busy(h) /\ Creating(h) /\ UNCHANGED <<db, req, seen>>
    BY <1>5, CreateFacts DEF InsertCredentials, InsertRole, Creating, CreateLabels
  <2>2. tx'[h].hold = tx[h].hold /\ tx'[h].row = tx[h].row /\ OthersKeep(h)
    BY <1>5, <2>1 DEF InsertCredentials, InsertRole, TypeOK, OthersKeep, OthersRun, Goto
  <2>3. ~Found(h)'
    BY <2>1 DEF Found, Op
  <2> QED
    BY <2>1, <2>2, <2>3, MoveShared
<1>6. CASE ScanRoles(h) \/ DeactivateRole(h) \/ AssignRole(h)
  <2>1. /\ Op(h) = "update" /\ Busy(h) /\ Found(h) /\ UNCHANGED <<db, req, seen>>
    BY <1>6, UpdateFacts DEF ScanRoles, DeactivateRole, AssignRole, Found, UpdateLabels, RoleLabels
  <2>2. tx'[h].hold = tx[h].hold /\ tx'[h].row = tx[h].row /\ OthersKeep(h)
    BY <1>6, <2>1 DEF ScanRoles, DeactivateRole, AssignRole, TypeOK, OthersKeep, OthersRun, Goto
  <2>3. ~Creating(h)'
    BY <2>1 DEF Creating, Op
  <2> QED
    BY <2>1, <2>2, <2>3, MoveShared
<1> QED
  BY <1>2, <1>3, <1>4, <1>5, <1>6

\* Whoever holds a row is in the middle of a create, or found the row.
LEMMA HolderFacts ==
  ASSUME TypeOK, Local, NEW g \in Handlers, tx[g].hold # "none"
  PROVE  /\ pc[g] \in {"credentials", "role", "index", "commit"} /\ Busy(g)
         /\ Op(g) = "create" => Creating(g)
         /\ Op(g) # "create" => Found(g)
         /\ tx[g].row \in UserRow
<1>1. Holding(g)
  BY DEF Local
<1>2. pc[g] \in {"credentials", "role", "index", "commit"}
  BY <1>1 DEF Holding, NoTx
<1>3. pc[g] = "index" => Op(g) = "update"
  BY UpdateFacts
<1>4. pc[g] \in {"credentials", "role"} => Op(g) = "create"
  BY CreateFacts
<1> QED
  BY <1>1, <1>2, <1>3, <1>4 DEF Holding, Busy, Creating, Found, CreateLabels, UpdateLabels,
     DeleteLabels

\* An UPDATE takes a live row nobody holds.
LEMMA TakeShared ==
  ASSUME TypeOK, Local, Shared, NEW h \in Handlers, OthersKeep(h), UNCHANGED <<db, req>>,
         Op(h) # "create", Busy(h), Found(h), Live(Target(h)), RowHolders(h, Target(h)) = {},
         tx'[h].hold = "locked"
  PROVE  Shared'
<1>1. \A g \in Handlers \ {h} :
        /\ pc'[g] = pc[g] /\ tx'[g] = tx[g] /\ req'[g] = req[g]
        /\ Busy(g)' = Busy(g) /\ Creating(g)' = Creating(g) /\ Found(g)' = Found(g)
        /\ Op(g)' = Op(g) /\ Target(g)' = Target(g)
  BY DEF OthersKeep, OthersRun, Busy, Creating, Found, Op, Target
<1>2. users' = users /\ creds' = creds /\ ura' = ura /\ \A u : Live(u)' = Live(u)
  BY DEF db, Live
<1>3. Target(h)' = Target(h) /\ Op(h)' = Op(h) /\ ~Creating(h)'
  BY DEF Target, Op, Creating
<1>4. Present'
  <2> SUFFICES ASSUME NEW g \in Handlers
               PROVE  /\ (Busy(g) /\ Creating(g))' => users[Target(g)'].status = "none"
                      /\ (Busy(g) /\ Found(g))' => users[Target(g)'].status # "none"
                      /\ tx'[g].hold # "none" /\ Op(g)' # "create" => Live(Target(g)')
    BY <1>2 DEF Present, Live
  <2>1. CASE g = h
    BY <1>3, <2>1 DEF Live
  <2>2. CASE g # h
    BY <1>1, <2>2 DEF Shared, Present
  <2> QED
    BY <2>1, <2>2
<1>5. Exclusive'
  <2>1. \A g \in Handlers \ {h} : tx[g].hold # "none" => Target(g) # Target(h)
    BY DEF RowHolders
  <2> SUFFICES ASSUME NEW g \in Handlers, NEW k \in Handlers, g # k
               PROVE  /\ tx'[g].hold # "none" /\ tx'[k].hold # "none" => Target(g)' # Target(k)'
                      /\ (Busy(g) /\ Creating(g))' /\ (Busy(k) /\ Creating(k))'
                           => Target(g)' # Target(k)'
    BY DEF Exclusive
  <2>2. CASE g # h /\ k # h
    BY <1>1, <2>2 DEF Shared, Exclusive
  <2>3. CASE g = h
    BY <1>1, <1>3, <2>1, <2>3
  <2>4. CASE k = h
    BY <1>1, <1>3, <2>1, <2>4
  <2> QED
    BY <2>2, <2>3, <2>4
<1>6. PendingKeys'
  <2>1. \A g \in Handlers : tx'[g].hold = "indexed" =>
          tx[g].hold = "indexed" /\ tx'[g].row = tx[g].row /\ Target(g)' = Target(g)
    BY <1>1
  <2> QED
    BY <1>2, <2>1 DEF Shared, PendingKeys, Key
<1>7. UniqueLiveEmail' /\ CompleteAccounts'
  BY <1>2 DEF Shared, UniqueLiveEmail, CompleteAccounts, Live, Key, ActiveRoles
<1> QED
  BY <1>4, <1>5, <1>6, <1>7 DEF Shared

\* An index entry goes in when no committed row and no other transaction has
\* its key.
LEMMA EnterShared ==
  ASSUME TypeOK, Local, Shared, NEW h \in Handlers, OthersKeep(h), UNCHANGED <<db, req>>,
         Busy(h), Creating(h) \/ (tx[h].hold # "none" /\ Found(h) /\ Op(h) # "create"),
         NEW row \in UserRow, tx'[h].hold = "indexed", tx'[h].row = row,
         KeyHolders(h, row.email, Target(h)) = {},
         \A v \in UserIds \ {Target(h)} : Live(v) => Key(users[v]) # Key(row)
  PROVE  Shared'
<1>1. \A g \in Handlers \ {h} :
        /\ pc'[g] = pc[g] /\ tx'[g] = tx[g] /\ req'[g] = req[g]
        /\ Busy(g)' = Busy(g) /\ Creating(g)' = Creating(g) /\ Found(g)' = Found(g)
        /\ Op(g)' = Op(g) /\ Target(g)' = Target(g)
  BY DEF OthersKeep, OthersRun, Busy, Creating, Found, Op, Target
<1>2. users' = users /\ creds' = creds /\ ura' = ura /\ \A u : Live(u)' = Live(u)
  BY DEF db, Live
<1>3. Target(h)' = Target(h) /\ Op(h)' = Op(h)
  BY DEF Target, Op
<1>4. Present'
  <2> SUFFICES ASSUME NEW g \in Handlers
               PROVE  /\ (Busy(g) /\ Creating(g))' => users[Target(g)'].status = "none"
                      /\ (Busy(g) /\ Found(g))' => users[Target(g)'].status # "none"
                      /\ tx'[g].hold # "none" /\ Op(g)' # "create" => Live(Target(g)')
    BY <1>2 DEF Present, Live
  <2>1. CASE g = h
    BY <1>3, <2>1 DEF Shared, Present, Creating, Found, Op
  <2>2. CASE g # h
    BY <1>1, <2>2 DEF Shared, Present
  <2> QED
    BY <2>1, <2>2
<1>5. \A g \in Handlers \ {h} : tx[g].hold # "none" => Target(g) # Target(h)
  <2> SUFFICES ASSUME NEW g \in Handlers \ {h}, tx[g].hold # "none"
               PROVE  Target(g) # Target(h)
    OBVIOUS
  <2>1. CASE tx[h].hold # "none"
    BY <2>1 DEF Shared, Exclusive
  <2>2. CASE Creating(h) /\ Op(g) = "create"
    BY <2>2, HolderFacts DEF Shared, Exclusive
  <2>3. CASE Creating(h) /\ Op(g) # "create"
    BY <2>3 DEF Shared, Present, Live
  <2> QED
    BY <2>1, <2>2, <2>3
<1>6. Exclusive'
  <2> SUFFICES ASSUME NEW g \in Handlers, NEW k \in Handlers, g # k
               PROVE  /\ tx'[g].hold # "none" /\ tx'[k].hold # "none" => Target(g)' # Target(k)'
                      /\ (Busy(g) /\ Creating(g))' /\ (Busy(k) /\ Creating(k))'
                           => Target(g)' # Target(k)'
    BY DEF Exclusive
  <2>1. Creating(h)' => Creating(h)
    BY <1>3 DEF Creating
  <2>2. CASE g # h /\ k # h
    BY <1>1, <2>2 DEF Shared, Exclusive
  <2>3. CASE g = h
    BY <1>1, <1>3, <1>5, <2>1, <2>3 DEF Shared, Exclusive
  <2>4. CASE k = h
    BY <1>1, <1>3, <1>5, <2>1, <2>4 DEF Shared, Exclusive
  <2> QED
    BY <2>2, <2>3, <2>4
<1>7. PendingKeys'
  <2>1. \A g \in Handlers \ {h} :
          tx[g].hold = "indexed" => Key(tx[g].row) # Key(row)
    BY <1>5 DEF KeyHolders, Key
  <2> SUFFICES ASSUME NEW g \in Handlers, tx'[g].hold = "indexed"
               PROVE  /\ \A v \in UserIds \ {Target(g)'} :
                           Live(v) => Key(users[v]) # Key(tx'[g].row)
                      /\ \A k \in Handlers \ {g} :
                           tx'[k].hold = "indexed" => Key(tx'[k].row) # Key(tx'[g].row)
    BY <1>2 DEF PendingKeys, Key
  <2>2. CASE g = h
    BY <1>1, <1>3, <2>1, <2>2
  <2>3. CASE g # h
    BY <1>1, <2>1, <2>3 DEF Shared, PendingKeys
  <2> QED
    BY <2>2, <2>3
<1>8. UniqueLiveEmail' /\ CompleteAccounts'
  BY <1>2 DEF Shared, UniqueLiveEmail, CompleteAccounts, Live, Key, ActiveRoles
<1> QED
  BY <1>4, <1>6, <1>7, <1>8 DEF Shared

\* A new row enters the index only when its address is free and not in doubt.
LEMMA InsertUserShared ==
  ASSUME TypeOK, Local, Shared, NEW h \in Handlers, InsertUser(h)
  PROVE  Shared'
<1> DEFINE row == NewRow(Caller(h), Args(h))
<1>1. /\ pc[h] = "insert" /\ Busy(h) /\ Creating(h) /\ Args(h).email \in Emails
      /\ row \in UserRow /\ row.email = Lower[Args(h).email]
      /\ UNCHANGED <<db, req, seen>> /\ KeyHolders(h, row.email, Target(h)) = {}
  BY CreateFacts DEF InsertUser, Creating, CreateLabels, Blockers
<1>2. CASE Return(h, "uniqueViolation")
  BY <1>1, <1>2, ReturnShared DEF Outcomes, Failures
<1>3. CASE /\ ~EmailTaken(Args(h).email, Target(h)) /\ Goto(h, "credentials")
           /\ tx' = [tx EXCEPT ![h].hold = "indexed", ![h].row = row]
  <2>1. OthersKeep(h) /\ tx'[h].hold = "indexed" /\ tx'[h].row = row
    BY <1>1, <1>3 DEF OthersKeep, OthersRun, Goto, TypeOK
  <2>2. Key(row) = Normalize(Args(h).email)
    BY <1>1, EmailAssumption DEF Key, Normalize
  <2>3. \A v \in UserIds \ {Target(h)} : Live(v) => Key(users[v]) # Key(row)
    BY <1>3, <2>2 DEF EmailTaken
  <2> QED
    BY <1>1, <2>1, <2>3, EnterShared
<1> QED
  BY <1>2, <1>3 DEF InsertUser

\* An update locks a live row nobody else holds.
LEMMA UpdateRowShared ==
  ASSUME TypeOK, Local, Shared, NEW h \in Handlers, UpdateRow(h)
  PROVE  Shared'
<1>1. /\ pc[h] = "update" /\ Op(h) = "update" /\ Busy(h) /\ Found(h)
      /\ UNCHANGED <<db, req, seen>> /\ RowHolders(h, Target(h)) = {}
  BY UpdateFacts DEF UpdateRow, Found, UpdateLabels, Blockers
<1>2. CASE Return(h, "userNotFound")
  BY <1>1, <1>2, ReturnShared DEF Outcomes, Refusals
<1>3. CASE Live(Target(h)) /\ ~Return(h, "userNotFound")
  <2>1. OthersKeep(h) /\ tx'[h].hold = "locked"
    BY <1>1, <1>3 DEF UpdateRow, OthersKeep, OthersRun, Goto, TypeOK
  <2> QED
    BY <1>1, <1>3, <2>1, TakeShared
<1> QED
  BY <1>2, <1>3 DEF UpdateRow

\* A delete locks a live row nobody else holds.
LEMMA DeleteRowShared ==
  ASSUME TypeOK, Local, Shared, NEW h \in Handlers, DeleteRow(h)
  PROVE  Shared'
<1>1. /\ pc[h] = "delete" /\ Op(h) # "create" /\ Busy(h) /\ Found(h)
      /\ UNCHANGED <<db, req, seen>> /\ RowHolders(h, Target(h)) = {}
  BY DEF DeleteRow, Found, DeleteLabels, Blockers, Busy, Local, Admitted, CreateLabels
<1>2. CASE Return(h, "userNotFound")
  BY <1>1, <1>2, ReturnShared DEF Outcomes, Refusals
<1>3. CASE Live(Target(h)) /\ ~Return(h, "userNotFound")
  <2>1. OthersKeep(h) /\ tx'[h].hold = "locked"
    BY <1>1, <1>3 DEF DeleteRow, OthersKeep, OthersRun, Goto, TypeOK
  <2> QED
    BY <1>1, <1>3, <2>1, TakeShared
<1> QED
  BY <1>2, <1>3 DEF DeleteRow

\* An updated row enters the index only when its address is free and not in doubt.
LEMMA IndexRowShared ==
  ASSUME TypeOK, Local, Shared, NEW h \in Handlers, IndexRow(h)
  PROVE  Shared'
<1> DEFINE row == tx[h].row
<1>1. /\ pc[h] = "index" /\ Op(h) = "update" /\ Busy(h) /\ Found(h)
      /\ UNCHANGED <<db, req, seen>> /\ KeyHolders(h, row.email, Target(h)) = {}
      /\ tx[h].hold # "none" /\ row \in UserRow
  BY UpdateFacts DEF IndexRow, Found, UpdateLabels, Blockers, Local, Holding
<1>2. CASE Return(h, "uniqueViolation")
  BY <1>1, <1>2, ReturnShared DEF Outcomes, Failures
<1>3. CASE /\ ~EmailTaken(row.email, Target(h)) /\ Goto(h, "commit")
           /\ tx' = [tx EXCEPT ![h].hold = "indexed"]
  <2>1. OthersKeep(h) /\ tx'[h].hold = "indexed" /\ tx'[h].row = row
    BY <1>1, <1>3 DEF OthersKeep, OthersRun, Goto, TypeOK
  <2>2. Key(row) = Normalize(row.email)
    BY <1>1 DEF Key, Normalize, UserRow
  <2>3. \A v \in UserIds \ {Target(h)} : Live(v) => Key(users[v]) # Key(row)
    BY <1>3, <2>2 DEF EmailTaken
  <2> QED
    BY <1>1, <2>1, <2>3, EnterShared
<1> QED
  BY <1>2, <1>3 DEF IndexRow

\* The tables after a transaction: what changed of the one user it is about.
LEMMA ApplyFacts ==
  ASSUME TypeOK, Local, Shared, NEW h \in Handlers, Ending(h), Apply(h)
  PROVE  /\ \A v \in UserIds \ {Target(h)} :
              /\ users'[v] = users[v] /\ ura'[v] = ura[v]
              /\ v \in creds' <=> v \in creds
         /\ users'[Target(h)] = IF tx[h].hold = "none" THEN users[Target(h)] ELSE tx[h].row
         /\ users'[Target(h)].status # "none"
         /\ Target(h) \in creds' /\ \E r \in Roles : ura'[Target(h)][r] = "active"
<1> DEFINE u == Target(h)
<1>1. u \in UserIds /\ Busy(h) /\ Holding(h)
  BY EndingFacts
<1>2. \A v \in UserIds \ {u} :
        /\ users'[v] = users[v] /\ ura'[v] = ura[v] /\ (v \in creds' <=> v \in creds)
  BY <1>1 DEF Apply, TypeOK
<1>3. users'[u] = IF tx[h].hold = "none" THEN users[u] ELSE tx[h].row
  BY <1>1 DEF Apply, TypeOK
<1>4. \A r \in Roles : ura'[u][r] = IF tx[h].roles[r] \in {"active", "inactive"}
                                    THEN tx[h].roles[r] ELSE ura[u][r]
  BY <1>1 DEF Apply, TypeOK
<1>5. u \in creds' <=> u \in creds \/ tx[h].cred
  BY <1>1 DEF Apply, TypeOK
<1>6. CASE Op(h) = "create"
  <2>1. pc[h] = "commit" /\ Args(h).role \in Roles
    BY <1>6, EndingFacts DEF Ending
  <2>2. /\ tx[h].hold = "indexed" /\ tx[h].cred /\ tx[h].row.status = "live"
        /\ tx[h].roles[Args(h).role] = "active"
    BY <1>1, <1>6, <2>1 DEF Holding
  <2> QED
    BY <1>2, <1>3, <1>4, <1>5, <2>1, <2>2
<1>7. CASE Op(h) # "create"
  <2>1. Found(h) /\ users[u].status # "none"
    BY <1>1, <1>7 DEF Found, Ending, UpdateLabels, RoleLabels, Shared, Present
  <2>2. u \in creds /\ ActiveRoles(u) # {}
    BY <1>1, <2>1 DEF Shared, CompleteAccounts
  <2>3. CASE pc[h] = "commitRole"
    <3>1. tx[h].hold = "none" /\ tx[h].roles[Args(h).role] = "active" /\ Args(h).role \in Roles
      BY <1>1, <2>3, EndingFacts DEF Holding
    <3> QED
      BY <1>2, <1>3, <1>4, <1>5, <2>1, <2>2, <3>1
  <2>4. CASE pc[h] = "commit"
    <3>1. tx[h].hold # "none" /\ tx[h].row.status # "none" /\ tx[h].roles = NoTx.roles
      BY <1>1, <1>7, <2>4 DEF Holding
    <3>2. \A r \in Roles : ura'[u][r] = ura[u][r]
      BY <1>4, <3>1 DEF NoTx
    <3> QED
      BY <1>2, <1>3, <1>5, <2>2, <3>1, <3>2 DEF ActiveRoles
  <2> QED
    BY <2>3, <2>4 DEF Ending
<1> QED
  BY <1>6, <1>7

\* A transaction ends, committed, and the handler goes on without one.
LEMMA ApplyShared ==
  ASSUME TypeOK, Local, Shared, NEW h \in Handlers, Ending(h), Apply(h), OthersKeep(h),
         req' = req, tx'[h] = NoTx, pc'[h] \in {"roles", "update", "answered"}
  PROVE  Shared'
<1> DEFINE u == Target(h)
<1>1. /\ Busy(h) /\ u \in UserIds
      /\ Op(h) = "create" => Creating(h)
      /\ Op(h) # "create" => Found(h)
  BY EndingFacts DEF Creating, Found, Ending, CreateLabels, UpdateLabels, RoleLabels
<1>2. \A g \in Handlers \ {h} :
        /\ pc'[g] = pc[g] /\ tx'[g] = tx[g] /\ Busy(g)' = Busy(g)
        /\ Creating(g)' = Creating(g) /\ Found(g)' = Found(g)
  BY DEF OthersKeep, OthersRun, Busy, Creating, Found, Op
<1>3. \A g : Target(g)' = Target(g) /\ Op(g)' = Op(g)
  BY DEF Target, Op
<1>4. /\ \A v \in UserIds \ {u} :
           /\ users'[v] = users[v] /\ Live(v)' = Live(v) /\ ura'[v] = ura[v]
           /\ v \in creds' <=> v \in creds
      /\ users'[u] = IF tx[h].hold = "none" THEN users[u] ELSE tx[h].row
      /\ users'[u].status # "none"
      /\ u \in creds' /\ \E r \in Roles : ura'[u][r] = "active"
  BY ApplyFacts DEF Live
<1>5. tx'[h].hold = "none" /\ ~Creating(h)'
  BY DEF NoTx, Creating, CreateLabels
<1>6. \A g \in Handlers \ {h} : (Busy(g) /\ Creating(g)) => Target(g) # u
  <2>1. CASE Op(h) = "create"
    BY <1>1, <2>1 DEF Shared, Exclusive
  <2>2. CASE Op(h) # "create"
    BY <1>1, <2>2 DEF Shared, Present
  <2> QED
    BY <2>1, <2>2
<1>7. \A g \in Handlers \ {h} :
        tx[g].hold # "none" /\ Op(g) # "create" => Target(g) # u \/ tx[h].hold = "none"
  BY DEF Shared, Exclusive
<1>8. \A g \in Handlers \ {h} :
        Busy(g) /\ (Creating(g) \/ Found(g)) => Target(g) \in UserIds
  BY DEF Local, Admitted
<1>9. Present'
  <2> SUFFICES ASSUME NEW g \in Handlers
               PROVE  /\ (Busy(g) /\ Creating(g))' => users'[Target(g)].status = "none"
                      /\ (Busy(g) /\ Found(g))' => users'[Target(g)].status # "none"
                      /\ tx'[g].hold # "none" /\ Op(g) # "create" => Live(Target(g))'
    BY <1>3 DEF Present, Live
  <2>1. CASE g = h
    BY <1>4, <1>5, <2>1
  <2>2. CASE g # h
    <3>1. (Busy(g) /\ Creating(g))' => users'[Target(g)].status = "none"
      BY <1>2, <1>4, <1>6, <1>8, <2>2 DEF Shared, Present
    <3>2. (Busy(g) /\ Found(g))' => users'[Target(g)].status # "none"
      BY <1>2, <1>4, <1>8, <2>2 DEF Shared, Present
    <3>3. tx'[g].hold # "none" /\ Op(g) # "create" => Live(Target(g))'
      <4> SUFFICES ASSUME tx[g].hold # "none", Op(g) # "create"
                   PROVE  Live(Target(g))'
        BY <1>2, <2>2
      <4>1. Live(Target(g)) /\ Target(g) \in UserIds
        BY DEF Shared, Present, Live
      <4>2. CASE Target(g) # u
        BY <1>4, <1>3, <4>1, <4>2 DEF Live
      <4>3. CASE Target(g) = u
        BY <1>3, <1>4, <1>7, <2>2, <4>1, <4>3 DEF Live
      <4> QED
        BY <4>2, <4>3
    <3> QED
      BY <3>1, <3>2, <3>3
  <2> QED
    BY <2>1, <2>2
<1>10. Exclusive'
  <2> SUFFICES ASSUME NEW g \in Handlers, NEW k \in Handlers, g # k
               PROVE  /\ tx'[g].hold # "none" /\ tx'[k].hold # "none" => Target(g) # Target(k)
                      /\ (Busy(g) /\ Creating(g))' /\ (Busy(k) /\ Creating(k))'
                           => Target(g) # Target(k)
    BY <1>3 DEF Exclusive
  <2>1. CASE g = h \/ k = h
    BY <1>5, <2>1
  <2>2. CASE g # h /\ k # h
    BY <1>2, <2>2 DEF Shared, Exclusive
  <2> QED
    BY <2>1, <2>2
<1>11. tx[h].hold # "none" /\ tx[h].row.status = "live" => tx[h].hold = "indexed"
  BY HolderFacts DEF Local, Holding, Ending
<1>12. users'[u].status = "live" =>
         \/ Live(u) /\ users'[u] = users[u]
         \/ tx[h].hold = "indexed" /\ users'[u] = tx[h].row
  BY <1>1, <1>4, <1>11 DEF Live
<1>13. PendingKeys'
  <2> SUFFICES ASSUME NEW g \in Handlers, tx'[g].hold = "indexed"
               PROVE  /\ \A v \in UserIds \ {Target(g)} :
                           users'[v].status = "live" => Lower[users'[v].email] # Lower[tx'[g].row.email]
                      /\ \A k \in Handlers \ {g} :
                           tx'[k].hold = "indexed" => Lower[tx'[k].row.email] # Lower[tx'[g].row.email]
    BY DEF PendingKeys, Key, Live, Target
  <2>1. g # h /\ tx'[g] = tx[g] /\ tx[g].hold = "indexed"
    BY <1>2, <1>5
  <2>2. \A k \in Handlers \ {g} :
          tx[k].hold = "indexed" => Lower[tx[k].row.email] # Lower[tx[g].row.email]
    BY <2>1 DEF Shared, PendingKeys, Key
  <2>3. \A v \in UserIds \ {Target(g)} :
          Live(v) => Lower[users[v].email] # Lower[tx[g].row.email]
    BY <2>1 DEF Shared, PendingKeys, Key
  <2>4. \A k \in Handlers \ {g} :
          tx'[k].hold = "indexed" => Lower[tx'[k].row.email] # Lower[tx'[g].row.email]
    BY <1>2, <1>5, <2>1, <2>2
  <2>5. ASSUME NEW v \in UserIds \ {Target(g)}, users'[v].status = "live"
        PROVE  Lower[users'[v].email] # Lower[tx'[g].row.email]
    <3>1. CASE v # u
      BY <1>4, <2>1, <2>3, <2>5, <3>1 DEF Live
    <3>2. CASE v = u
      BY <1>12, <2>1, <2>2, <2>3, <2>5, <3>2 DEF Live
    <3> QED
      BY <3>1, <3>2
  <2> QED
    BY <2>4, <2>5
<1>14. UniqueLiveEmail'
  <2>1. ASSUME NEW v \in UserIds \ {u}, Live(v), users'[u].status = "live"
        PROVE  Lower[users[v].email] # Lower[users'[u].email]
    BY <1>1, <1>12, <2>1 DEF Shared, UniqueLiveEmail, PendingKeys, Key, Live
  <2>2. \A v, w \in UserIds \ {u} :
          v # w /\ Live(v) /\ Live(w) => Lower[users[v].email] # Lower[users[w].email]
    BY DEF Shared, UniqueLiveEmail, Key
  <2> SUFFICES ASSUME NEW v \in UserIds, NEW w \in UserIds, v # w,
                      users'[v].status = "live", users'[w].status = "live"
               PROVE  Lower[users'[v].email] # Lower[users'[w].email]
    BY DEF UniqueLiveEmail, Key, Live
  <2>3. CASE v # u /\ w # u
    BY <1>4, <2>2, <2>3 DEF Live
  <2>4. CASE v = u
    BY <1>4, <2>1, <2>4 DEF Live
  <2>5. CASE w = u
    BY <1>4, <2>1, <2>5 DEF Live
  <2> QED
    BY <2>3, <2>4, <2>5
<1>15. CompleteAccounts'
  BY <1>4 DEF Shared, CompleteAccounts, ActiveRoles
<1> QED
  BY <1>9, <1>10, <1>13, <1>14, <1>15 DEF Shared

\* The three ways a commit takes effect.
LEMMA EndingShared ==
  ASSUME TypeOK, Local, Shared, NEW h \in Handlers,
         Commit(h) \/ CommitRole(h) \/ LoseCommitAck(h)
  PROVE  Shared'
<1>1. Ending(h) /\ Apply(h) /\ req' = req
  BY DEF Commit, CommitRole, LoseCommitAck, Ending
<1>2. tx'[h] = NoTx /\ pc'[h] \in {"roles", "update", "answered"}
  BY DEF Commit, CommitRole, LoseCommitAck, Return, Goto, TypeOK
<1>3. OthersKeep(h)
  BY <1>1 DEF Commit, CommitRole, LoseCommitAck, Return, Goto, TypeOK, OthersKeep, OthersRun
<1> QED
  BY <1>1, <1>2, <1>3, ApplyShared

\* A crash loses the open transactions and no committed row.
LEMMA CrashShared ==
  ASSUME TypeOK, Local, Shared, Crash
  PROVE  Shared'
<1>1. /\ users' = users /\ creds' = creds /\ ura' = ura /\ \A u : Live(u)' = Live(u)
      /\ \A h \in Handlers : ~Busy(h)' /\ tx'[h].hold = "none"
  BY DEF Crash, db, Live, Busy, NoTx
<1>2. Present' /\ Exclusive' /\ PendingKeys'
  BY <1>1 DEF Present, Exclusive, PendingKeys
<1>3. UniqueLiveEmail' /\ CompleteAccounts'
  BY <1>1 DEF Shared, UniqueLiveEmail, CompleteAccounts, Live, Key, ActiveRoles
<1> QED
  BY <1>2, <1>3 DEF Shared

\* A step that changes nothing.
LEMMA StutterShared ==
  ASSUME Shared, UNCHANGED vars
  PROVE  Shared'
<1>1. /\ users' = users /\ creds' = creds /\ ura' = ura /\ tx' = tx /\ pc' = pc /\ req' = req
  BY DEF vars
<1>2. Present'
  BY <1>1 DEF Shared, Present, Live, Busy, Creating, Found, Op, Target
<1>3. Exclusive'
  BY <1>1 DEF Shared, Exclusive, Busy, Creating, Op, Target
<1>4. PendingKeys' /\ UniqueLiveEmail' /\ CompleteAccounts'
  BY <1>1 DEF Shared, PendingKeys, UniqueLiveEmail, CompleteAccounts, Live, Key, ActiveRoles, Target
<1> QED
  BY <1>2, <1>3, <1>4 DEF Shared

\* Every step keeps the conditions over the tables.
LEMMA SharedNext ==
  ASSUME TypeOK, Local, Shared, [Next]_vars
  PROVE  Shared'
<1>1. ASSUME NEW h \in Handlers, NEW q \in Requests, Receive(h, q)
      PROVE  Shared'
  BY <1>1, ReceiveShared
<1>2. ASSUME NEW h \in Handlers, Step(h)
      PROVE  Shared'
  BY <1>2, ReadUserShared, PlainShared, InsertUserShared, UpdateRowShared, IndexRowShared,
     DeleteRowShared, EndingShared DEF Step
<1>3. ASSUME NEW h \in Handlers,
             Reply(h) \/ AbortDeadlock(h) \/ Fault(h) \/ LoseCommitAck(h)
      PROVE  Shared'
  BY <1>3, ReplyShared, PlainShared, EndingShared
<1> QED
  BY <1>1, <1>2, <1>3, CrashShared, StutterShared DEF Next

-----------------------------------------------------------------------------
(* The theorems.                                                           *)

\* The seeded directory satisfies the invariant, with every handler idle.
LEMMA InitInv ==
  ASSUME Init
  PROVE  IndInv
<1>1. TypeOK
  <2>1. creds \in SUBSET UserIds /\ users \in [UserIds -> Row]
    BY SeedAssumption DEF Init
  <2>2. tx \in [Handlers -> TxType]
    BY NoTxType DEF Init, TxType
  <2>3. faults \in 0 .. MaxFaults
    BY FaultAssumption DEF Init
  <2> QED
    BY <2>1, <2>2, <2>3 DEF Init, TypeOK, TxType, Labels, Unseen, Row, Pending
<1>2. \A h \in Handlers : ~Busy(h) /\ pc[h] = "idle" /\ tx[h] = NoTx
  BY DEF Init, Busy
<1>3. Local
  BY <1>2 DEF Local, Admitted, UpdateReady, Holding, UpdateLabels, RoleLabels, Op
<1>4. Present /\ Exclusive /\ PendingKeys
  BY <1>2 DEF Present, Exclusive, PendingKeys, NoTx
<1>5. UniqueLiveEmail
  BY SeedAssumption DEF Init, UniqueLiveEmail, Live, Key
<1>6. CompleteAccounts
  BY SeedAssumption DEF Init, CompleteAccounts, ActiveRoles
<1> QED
  BY <1>1, <1>3, <1>4, <1>5, <1>6 DEF IndInv

\* No step of the program, and no failure or crash, breaks the invariant.
LEMMA InvNext ==
  ASSUME IndInv, [Next]_vars
  PROVE  IndInv'
<1>1. TypeOK /\ Local /\ Shared
  BY DEF IndInv, Shared
<1>2. TypeOK' /\ Local'
  BY <1>1, LocalNext
<1>3. Shared'
  BY <1>1, SharedNext
<1> QED
  BY <1>2, <1>3 DEF IndInv, Shared

\* The conditions the handlers rely on at each of their statements hold in
\* every state: what a request has established before it writes is still so.
THEOREM Invariance == Spec => []IndInv
<1>1. Init => IndInv
  BY InitInv
<1>2. IndInv /\ [Next]_vars => IndInv'
  BY InvNext
<1> QED
  BY <1>1, <1>2, PTL DEF Spec

\* Every variable always holds values of its kind; in particular no statement
\* ever writes a row of identity.users with a NULL e-mail, name or
\* organization, or gives a role that does not exist.
THEOREM TypeCorrect == Spec => []TypeOK
<1>1. IndInv => TypeOK
  BY DEF IndInv
<1> QED
  BY <1>1, Invariance, PTL

\* Whatever creates, updates and deletes run at the same time, and whenever
\* they fail, no two live users have the same address up to its case.
THEOREM UniqueEmails == Spec => []UniqueLiveEmail
<1>1. IndInv => UniqueLiveEmail
  BY DEF IndInv
<1> QED
  BY <1>1, Invariance, PTL

\* There is never a user without credentials or without an active role, and
\* never credentials or a role without their user.
THEOREM AccountsComplete == Spec => []CompleteAccounts
<1>1. IndInv => CompleteAccounts
  BY DEF IndInv
<1> QED
  BY <1>1, Invariance, PTL

\* A transaction commits a row only over a row that is not there yet or over
\* one that is live when the commit happens.
LEMMA ApplyKeepsDeleted ==
  ASSUME TypeOK, Local, Shared, NEW h \in Handlers, Ending(h), Apply(h),
         NEW u \in UserIds, users[u].status = "deleted"
  PROVE  users'[u] = users[u]
<1>1. CASE u # Target(h)
  BY <1>1, ApplyFacts
<1>2. CASE u = Target(h) /\ tx[h].hold = "none"
  BY <1>2 DEF Apply
<1>3. CASE u = Target(h) /\ tx[h].hold # "none"
  <2>1. CASE Op(h) = "create"
    BY <1>3, <2>1, HolderFacts DEF Shared, Present
  <2>2. CASE Op(h) # "create"
    BY <1>3, <2>2 DEF Shared, Present, Live
  <2> QED
    BY <2>1, <2>2
<1> QED
  BY <1>1, <1>2, <1>3

\* No step changes the row of a deleted user.
LEMMA DeletedNext ==
  ASSUME IndInv, Next
  PROVE  \A u \in UserIds : users[u].status = "deleted" => users'[u] = users[u]
<1> USE DEF db
<1>0. TypeOK /\ Local /\ Shared
  BY DEF IndInv, Shared
<1>1. ASSUME NEW h \in Handlers, Commit(h) \/ CommitRole(h) \/ LoseCommitAck(h)
      PROVE  \A u \in UserIds : users[u].status = "deleted" => users'[u] = users[u]
  <2>1. Ending(h) /\ Apply(h)
    BY <1>1 DEF Commit, CommitRole, LoseCommitAck, Ending
  <2> QED
    BY <1>0, <2>1, ApplyKeepsDeleted
<1>2. ASSUME NEW h \in Handlers, NEW q \in Requests, Receive(h, q)
      PROVE  users' = users
  BY <1>2 DEF Receive
<1>3. ASSUME NEW h \in Handlers, Step(h), ~Commit(h), ~CommitRole(h)
      PROVE  users' = users
  <2>1. ReadUser(h) \/ CheckNewEmail(h) \/ CheckChangedEmail(h) \/ LoadRoles(h)
          \/ CheckInProcedure(h) => users' = users
    BY DEF ReadUser, CheckNewEmail, CheckChangedEmail, LoadRoles, CheckInProcedure
  <2>2. InsertUser(h) \/ InsertCredentials(h) \/ InsertRole(h) => users' = users
    BY DEF InsertUser, InsertCredentials, InsertRole
  <2>3. ScanRoles(h) \/ DeactivateRole(h) \/ AssignRole(h) => users' = users
    BY DEF ScanRoles, DeactivateRole, AssignRole
  <2>4. UpdateRow(h) \/ IndexRow(h) \/ DeleteRow(h) => users' = users
    BY DEF UpdateRow, IndexRow, DeleteRow
  <2> QED
    BY <1>3, <2>1, <2>2, <2>3, <2>4 DEF Step
<1>4. ASSUME NEW h \in Handlers, Reply(h) \/ AbortDeadlock(h) \/ Fault(h)
      PROVE  users' = users
  BY <1>4 DEF Reply, AbortDeadlock, Fault
<1>5. Crash => users' = users
  BY DEF Crash
<1> QED
  BY <1>1, <1>2, <1>3, <1>4, <1>5 DEF Next

\* Nobody brings a deleted user back or changes it: an update that read the
\* user while it was live finds it gone.
THEOREM DeletedStays == Spec => DeletedIsFinal
<1>1. IndInv /\ [Next]_vars
        => [\A u \in UserIds : users[u].status = "deleted" => users'[u] = users[u]]_vars
  BY DeletedNext
<1> QED
  BY <1>1, Invariance, PTL DEF Spec, DeletedIsFinal
=============================================================================
