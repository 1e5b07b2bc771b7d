------------------------- MODULE UserRequestsProgress -------------------------
(***************************************************************************)
(* Why every request comes to an end, as far as safety goes: somebody who  *)
(* waits always waits for a request that can go on, or for a cycle that    *)
(* PostgreSQL breaks, and a request that goes on comes nearer to its       *)
(* answer.                                                                 *)
(***************************************************************************)
EXTENDS UserRequestsApart

\* The first UPDATE of a role change stays only while it has rows to visit.
Visiting == \A h \in Handlers : pc[h] = "deactivate" => todo[h] # {}

-----------------------------------------------------------------------------
(* Visiting is inductive.                                                  *)

LEMMA VisitingNext ==
  ASSUME TypeOK, Local, Visiting, [Next]_vars
  PROVE  Visiting'
<1>1. ASSUME NEW h \in Handlers,
             \/ \E q \in Requests : Receive(h, q)
             \/ Step(h) \/ Reply(h) \/ AbortDeadlock(h) \/ Fault(h) \/ LoseCommitAck(h)
      PROVE  Visiting'
  <2>1. \A g \in Handlers \ {h} : pc'[g] = pc[g] /\ todo'[g] = todo[g]
    BY <1>1, OthersSwitch
  <2>2. pc'[h] = "deactivate" => todo'[h] # {}
    <3>1. CASE ScanRoles(h)
      BY <3>1 DEF ScanRoles, Goto, TypeOK
    <3>2. CASE DeactivateRole(h)
      BY <3>2 DEF DeactivateRole, Goto, TypeOK
    <3>3. CASE AssignRole(h)
      BY <3>3 DEF AssignRole, Goto, TypeOK
    <3>4. CASE ~ScanRoles(h) /\ ~DeactivateRole(h) /\ ~AssignRole(h)
      BY <1>1, <3>4, OtherSteps DEF Switches
    <3> QED
      BY <3>1, <3>2, <3>3, <3>4
  <2> QED
    BY <2>1, <2>2 DEF Visiting
<1>2. CASE Crash
  BY <1>2 DEF Crash, Visiting
<1>3. CASE UNCHANGED vars
  BY <1>3 DEF vars, Visiting
<1> QED
  BY <1>1, <1>2, <1>3 DEF Next

THEOREM VisitingInvariance == Spec => []Visiting
<1>1. Init => Visiting
  BY DEF Init, Visiting
<1>2. IndInv /\ Visiting /\ [Next]_vars => Visiting'
  BY VisitingNext DEF IndInv
<1> QED
  BY <1>1, <1>2, Invariance, PTL DEF Spec

-----------------------------------------------------------------------------
(* Nobody is stuck.                                                        *)

\* Whoever is waited for has a transaction open.
LEMMA BlockersHold ==
  ASSUME TypeOK, Local, NEW h \in Handlers, NEW g \in Blockers(h)
  PROVE  g \in Handlers /\ tx[g] # NoTx
<1>1. CASE pc[h] \in {"update", "delete"}
  BY <1>1 DEF Blockers, RowHolders, NoTx
<1>2. CASE pc[h] \in {"insert", "index"}
  BY <1>2 DEF Blockers, KeyHolders, NoTx
<1>3. CASE pc[h] = "deactivate"
  <2>1. PICK r \in todo[h] : g \in RoleHolders(h, Target(h), r)
    BY <1>3 DEF Blockers
  <2>2. r \in Roles
    BY DEF TypeOK
  <2> QED
    BY <2>1, <2>2 DEF RoleHolders, NoTx
<1>4. CASE pc[h] = "assign"
  <2>1. Args(h).role \in Roles
    BY <1>4, UpdateFacts DEF RoleLabels
  <2>2. g \in RoleHolders(h, Target(h), Args(h).role)
    BY <1>4 DEF Blockers
  <2> QED
    BY <2>1, <2>2 DEF RoleHolders, NoTx
<1>5. pc[h] \in {"update", "delete", "insert", "index", "deactivate", "assign"}
  BY DEF Blockers
<1> QED
  BY <1>1, <1>2, <1>3, <1>4, <1>5

\* ... and a transaction is open only while its request is served.
LEMMA BlockersBusy ==
  ASSUME TypeOK, Local, NEW h \in Handlers, NEW g \in Blockers(h)
  PROVE  g \in Handlers /\ Busy(g)
<1>1. g \in Handlers /\ tx[g] # NoTx
  BY BlockersHold
<1>2. Holding(g)
  BY <1>1 DEF Local
<1> QED
  BY <1>1, <1>2 DEF Holding, Busy

\* A request that cannot run its next statement waits for a lock.
LEMMA NotReady ==
  ASSUME TypeOK, Local, Visiting, NEW h \in Handlers, Busy(h), ~Ready(h)
  PROVE  Blockers(h) # {}
<1>1. req[h] \in Request /\ Admitted(h) /\ Op(h) \in {"create", "update", "delete", "get"}
  BY DEF Local, Admitted, Request, Operations, Op
<1>2. pc[h] = "load" => Op(h) # "create"
  BY <1>1 DEF Admitted, CreateLabels
<1>3. pc[h] = "email" => Op(h) \in {"create", "update"}
  BY <1>1 DEF Admitted, DeleteLabels
<1>4. pc[h] \in {"insert", "assign", "update", "index", "delete"} \/ pc[h] = "deactivate"
  BY <1>1, <1>2, <1>3 DEF Ready, Busy, TypeOK, Labels, Op
<1>5. CASE pc[h] = "deactivate"
  <2>1. PICK r \in todo[h] : RoleHolders(h, Target(h), r) # {}
    BY <1>5 DEF Ready, Visiting
  <2>2. Blockers(h) = UNION {RoleHolders(h, Target(h), s) : s \in todo[h]}
    BY <1>5 DEF Ready, Blockers
  <2> QED
    BY <2>1, <2>2
<1> QED
  BY <1>4, <1>5 DEF Ready

\* Of finitely many handlers that wait for each other, some form a cycle.
LEMMA Cycle ==
  ASSUME IsFiniteSet(Handlers), NEW B \in SUBSET Handlers, Tangled(B)
  PROVE  \E h \in B : Deadlocked(h)
<1> DEFINE Knots == {T \in SUBSET B : Tangled(T)}
           R == StrictSubsetOrdering(Handlers)
<1>1. IsWellFoundedOn(R, FiniteSubsetsOf(Handlers))
  BY FS_StrictSubsetOrderingWellFounded
<1>2. FiniteSubsetsOf(Handlers) = SUBSET Handlers
  BY FS_FiniteSubsetsOfFinite
<1>3. Knots \subseteq SUBSET Handlers /\ Knots # {}
  OBVIOUS
<1> HIDE DEF R, Knots
<1>4. PICK M \in Knots : \A T \in Knots : <<T, M>> \notin R
  BY <1>1, <1>2, <1>3, WFMin
<1>5. M \in SUBSET B /\ M \in SUBSET Handlers /\ Tangled(M)
  BY <1>3 DEF Knots
<1>6. \A T \in (SUBSET M) \ {M} : ~Tangled(T)
  <2> SUFFICES ASSUME NEW T \in SUBSET M, T # M, Tangled(T)
               PROVE  FALSE
    OBVIOUS
  <2>1. T \in Knots
    BY <1>5 DEF Knots
  <2>2. <<T, M>> \in R
    BY <1>5 DEF R, StrictSubsetOrdering
  <2> QED
    BY <1>4, <2>1, <2>2
<1>7. PICK h \in M : Blockers(h) \cap M # {}
  BY <1>5 DEF Tangled
<1>8. Deadlocked(h)
  BY <1>5, <1>6, <1>7 DEF Deadlocked
<1> QED
  BY <1>5, <1>8

\* Requests that wait for each other only are never all stuck for good: none
\* waits for a transaction left open, and a cycle among them is one PostgreSQL
\* finds (every transaction of repository.go, its deferred Rollback).
THEOREM NobodyStuck == ASSUME IsFiniteSet(Handlers) PROVE Spec => []NeverStuck
<1>1. IndInv /\ Visiting => NeverStuck
  <2> SUFFICES ASSUME IndInv, Visiting, NEW S \in SUBSET Handlers,
                      \E h \in S : Busy(h), \A g \in S : Blockers(g) \subseteq S,
                      \A g \in S : Busy(g) => ~Ready(g) /\ ~Deadlocked(g)
               PROVE  FALSE
    BY DEF NeverStuck
  <2> DEFINE B == {g \in S : Busy(g)}
  <2>1. TypeOK /\ Local
    BY DEF IndInv
  <2>2. ASSUME NEW g \in B
        PROVE  Blockers(g) # {} /\ Blockers(g) \subseteq B
    <3>1. Blockers(g) # {}
      BY <2>1, NotReady
    <3>2. \A x \in Blockers(g) : Busy(x)
      BY <2>1, BlockersBusy
    <3> QED
      BY <3>1, <3>2
  <2>3. Tangled(B)
    BY <2>2 DEF Tangled
  <2>4. \E h \in B : Deadlocked(h)
    BY <2>3, Cycle
  <2> QED
    BY <2>4
<1> QED
  BY <1>1, Invariance, VisitingInvariance, PTL

-----------------------------------------------------------------------------
(* A request comes nearer to its answer.                                   *)

\* What is left from each label on.
LEMMA LeftAt ==
  ASSUME IsFiniteSet(Roles), NEW visits \in SUBSET Roles
  PROVE  /\ Cardinality(visits) \in 0 .. Cardinality(Roles) /\ Cardinality(Roles) \in Nat
         /\ \A label \in {"idle", "answered"} : StatementsFrom(label, visits) = 0
         /\ StatementsFrom("roles", visits) = 1
         /\ StatementsFrom("commit", visits) = 2
         /\ \A label \in {"role", "index", "delete"} : StatementsFrom(label, visits) = 3
         /\ \A label \in {"credentials", "update"} : StatementsFrom(label, visits) = 4
         /\ \A label \in {"insert", "commitRole"} : StatementsFrom(label, visits) = 5
         /\ \A label \in {"procedure", "assign"} : StatementsFrom(label, visits) = 6
         /\ StatementsFrom("deactivate", visits) = 6 + Cardinality(visits)
         /\ StatementsFrom("scan", visits) = 7 + Cardinality(Roles)
         /\ StatementsFrom("email", visits) = 8 + Cardinality(Roles)
         /\ StatementsFrom("load", visits) = 9 + Cardinality(Roles)
<1>1. /\ Cardinality(Roles) \in Nat /\ Cardinality(visits) \in Nat
      /\ Cardinality(visits) <= Cardinality(Roles)
  BY FS_Subset, FS_CardinalityType
<1> QED
  BY <1>1 DEF StatementsFrom, Rank

Advances(h) == StatementsLeft(h)' < StatementsLeft(h)

\* Everything that is left, for a busy handler in a state of the right kind.
LEMMA LeftBusy ==
  ASSUME IsFiniteSet(Roles), TypeOK, NEW h \in Handlers, Busy(h)
  PROVE  StatementsLeft(h) \in Nat /\ StatementsLeft(h) > 0
<1>1. todo[h] \in SUBSET Roles /\ pc[h] \in Labels \ {"idle", "answered"}
  BY DEF TypeOK, Busy
<1> QED
  BY <1>1, LeftAt DEF StatementsLeft, Labels

\* An answer is the end of the request.
LEMMA AnswerAdvances ==
  ASSUME IsFiniteSet(Roles), TypeOK, TypeOK', NEW h \in Handlers, Busy(h),
         pc'[h] \in {"idle", "answered"}
  PROVE  Advances(h)
<1>1. todo'[h] \in SUBSET Roles
  BY DEF TypeOK
<1>2. StatementsLeft(h)' = 0
  BY <1>1, LeftAt DEF StatementsLeft
<1> QED
  BY <1>2, LeftBusy DEF Advances

\* The label a step leads to comes later in the request.
LEMMA LaterAdvances ==
  ASSUME IsFiniteSet(Roles), TypeOK, TypeOK', NEW h \in Handlers,
         \/ pc[h] = "load" /\ pc'[h] \in {"email", "scan", "update", "delete", "roles"}
         \/ pc[h] = "email" /\ pc'[h] \in {"procedure", "scan", "update"}
         \/ pc[h] = "procedure" /\ pc'[h] = "insert"
         \/ pc[h] = "insert" /\ pc'[h] = "credentials"
         \/ pc[h] = "credentials" /\ pc'[h] = "role"
         \/ pc[h] = "role" /\ pc'[h] = "commit"
         \/ pc[h] = "scan" /\ pc'[h] \in {"deactivate", "assign"}
         \/ pc[h] = "assign" /\ pc'[h] = "commitRole"
         \/ pc[h] = "commitRole" /\ pc'[h] = "update"
         \/ pc[h] = "update" /\ pc'[h] = "index"
         \/ pc[h] \in {"index", "delete"} /\ pc'[h] = "commit"
         \/ pc[h] = "commit" /\ pc'[h] = "roles"
  PROVE  Advances(h)
<1>1. todo[h] \in SUBSET Roles /\ todo'[h] \in SUBSET Roles
  BY DEF TypeOK
<1> QED
  BY <1>1, LeftAt DEF Advances, StatementsLeft

\* A row that has been visited is not visited again.
LEMMA DeactivateRoleAdvances ==
  ASSUME IsFiniteSet(Roles), TypeOK, TypeOK', NEW h \in Handlers, DeactivateRole(h)
  PROVE  Advances(h)
<1>1. todo[h] \in SUBSET Roles /\ todo'[h] \in SUBSET Roles /\ pc[h] = "deactivate"
  BY DEF TypeOK, DeactivateRole
<1>2. PICK r \in todo[h] : /\ todo'[h] = todo[h] \ {r}
                          /\ pc'[h] \in {"assign", "deactivate"}
  BY DEF DeactivateRole, Goto, TypeOK
<1>3. IsFiniteSet(todo[h])
  BY <1>1, FS_Subset
<1>4. Cardinality(todo'[h]) = Cardinality(todo[h]) - 1
  BY <1>2, <1>3, FS_RemoveElement
<1>5. Cardinality(todo[h]) \in Nat /\ Cardinality(todo'[h]) \in Nat
  BY <1>1, LeftAt
<1>6. StatementsLeft(h) = 6 + Cardinality(todo[h])
  BY <1>1, LeftAt DEF StatementsLeft
<1>7. StatementsLeft(h)' \in {6, 6 + Cardinality(todo'[h])}
  BY <1>1, <1>2, LeftAt DEF StatementsLeft
<1> QED
  BY <1>4, <1>5, <1>6, <1>7 DEF Advances

LEMMA ReadUserAdvances ==
  ASSUME IsFiniteSet(Roles), TypeOK, TypeOK', Local, NEW h \in Handlers, ReadUser(h)
  PROVE  Advances(h)
<1>1. pc[h] = "load" /\ Busy(h) /\ req[h] \in Request /\ req[h].op # "create"
  BY DEF ReadUser, Local, Admitted, Busy, CreateLabels, Op
<1>2. req[h].op \in {"get", "delete", "update"}
  BY <1>1 DEF Request, Operations
<1>3. pc'[h] \in {"answered", "email", "scan", "update", "delete", "roles"}
  BY <1>2 DEF ReadUser, ChangeRole, Unless, Goto, Return, TypeOK
<1> QED
  BY <1>1, <1>3, AnswerAdvances, LaterAdvances

\* Whatever statement a handler runs, fewer are left.
LEMMA StepAdvances ==
  ASSUME IsFiniteSet(Roles), TypeOK, TypeOK', Local, NEW h \in Handlers, Busy(h),
         Step(h) \/ AbortDeadlock(h) \/ Fault(h) \/ LoseCommitAck(h)
  PROVE  Advances(h)
<1> USE DEF TypeOK, Goto, Return, Unless
<1>1. CASE ReadUser(h)
  BY <1>1, ReadUserAdvances
<1>2. CASE CheckNewEmail(h) \/ CheckChangedEmail(h)
  <2>1. pc[h] = "email" /\ pc'[h] \in {"answered", "procedure", "scan", "update"}
    BY <1>2 DEF CheckNewEmail, CheckChangedEmail, ChangeRole
  <2> QED
    BY <2>1, AnswerAdvances, LaterAdvances
<1>3. CASE CheckInProcedure(h) \/ InsertUser(h) \/ InsertCredentials(h) \/ InsertRole(h)
  <2>1. \/ pc'[h] = "answered"
        \/ pc[h] = "procedure" /\ pc'[h] = "insert"
        \/ pc[h] = "insert" /\ pc'[h] = "credentials"
        \/ pc[h] = "credentials" /\ pc'[h] = "role"
        \/ pc[h] = "role" /\ pc'[h] = "commit"
    BY <1>3 DEF CheckInProcedure, InsertUser, InsertCredentials, InsertRole
  <2> QED
    BY <2>1, AnswerAdvances, LaterAdvances
<1>4. CASE ScanRoles(h) \/ AssignRole(h) \/ CommitRole(h)
  <2>1. \/ pc[h] = "scan" /\ pc'[h] \in {"deactivate", "assign"}
        \/ pc[h] = "assign" /\ pc'[h] = "commitRole"
        \/ pc[h] = "commitRole" /\ pc'[h] = "update"
    BY <1>4 DEF ScanRoles, AssignRole, CommitRole
  <2> QED
    BY <2>1, LaterAdvances
<1>5. CASE DeactivateRole(h)
  BY <1>5, DeactivateRoleAdvances
<1>6. CASE UpdateRow(h) \/ IndexRow(h) \/ DeleteRow(h) \/ Commit(h)
  <2>1. \/ pc'[h] = "answered"
        \/ pc[h] = "update" /\ pc'[h] = "index"
        \/ pc[h] \in {"index", "delete"} /\ pc'[h] = "commit"
        \/ pc[h] = "commit" /\ pc'[h] = "roles"
    BY <1>6 DEF UpdateRow, IndexRow, DeleteRow, Commit
  <2> QED
    BY <2>1, AnswerAdvances, LaterAdvances
<1>7. CASE LoadRoles(h) \/ AbortDeadlock(h) \/ Fault(h) \/ LoseCommitAck(h)
  <2>1. pc'[h] = "answered"
    BY <1>7 DEF LoadRoles, AbortDeadlock, Fault, LoseCommitAck
  <2> QED
    BY <2>1, AnswerAdvances
<1> QED
  BY <1>1, <1>2, <1>3, <1>4, <1>5, <1>6, <1>7 DEF Step

LEMMA NextAdvances ==
  ASSUME IsFiniteSet(Roles), IndInv, IndInv', [Next]_vars, NEW g \in Handlers, Busy(g)
  PROVE  Advances(g) \/ UNCHANGED <<pc[g], todo[g], tx[g], req[g]>>
<1>1. TypeOK /\ Local /\ TypeOK'
  BY DEF IndInv
<1>2. ASSUME NEW h \in Handlers,
             \/ \E q \in Requests : Receive(h, q)
             \/ Step(h) \/ Reply(h) \/ AbortDeadlock(h) \/ Fault(h) \/ LoseCommitAck(h)
      PROVE  Advances(g) \/ UNCHANGED <<pc[g], todo[g], tx[g], req[g]>>
  <2>1. CASE g # h
    <3>1. pc'[g] = pc[g] /\ req'[g] = req[g] /\ tx'[g] = tx[g] /\ todo'[g] = todo[g]
      BY <1>1, <1>2, <2>1, OthersSwitch
    <3> QED
      BY <3>1
  <2>2. CASE g = h
    <3>1. ~(\E q \in Requests : Receive(h, q)) /\ ~Reply(h)
      BY <2>2 DEF Receive, Reply, Busy
    <3> QED
      BY <1>1, <1>2, <2>2, <3>1, StepAdvances
  <2> QED
    BY <2>1, <2>2
<1>3. CASE Crash
  <2>1. pc'[g] = "idle"
    BY <1>3 DEF Crash
  <2> QED
    BY <1>1, <2>1, AnswerAdvances
<1>4. CASE UNCHANGED vars
  BY <1>4 DEF vars
<1> QED
  BY <1>2, <1>3, <1>4 DEF Next

\* No request runs a statement again: whatever happens to a busy handler, it has
\* fewer statements left than before (no handler of internal/user tries again).
THEOREM RequestsComeNearer == ASSUME IsFiniteSet(Roles) PROVE Spec => RequestsAdvance
<1>1. IndInv /\ IndInv' /\ [Next]_vars =>
        [\A h \in Handlers : Busy(h) =>
           \/ StatementsLeft(h)' < StatementsLeft(h)
           \/ UNCHANGED <<pc[h], todo[h], tx[h], req[h]>>]_vars
  BY NextAdvances DEF Advances
<1>2. Spec => [][\A h \in Handlers : Busy(h) =>
                   \/ StatementsLeft(h)' < StatementsLeft(h)
                   \/ UNCHANGED <<pc[h], todo[h], tx[h], req[h]>>]_vars
  BY <1>1, Invariance, PTL DEF Spec
<1> QED
  BY <1>2 DEF RequestsAdvance
=============================================================================
