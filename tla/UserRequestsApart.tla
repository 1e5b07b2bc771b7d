--------------------------- MODULE UserRequestsApart ---------------------------
(***************************************************************************)
(* Proofs about requests that do not overlap where it matters: what        *)
(* SetUserRole and the description of the API promise, and requests that   *)
(* meet break, holds of them; of one handler that serves one request after *)
(* another in particular.                                                  *)
(***************************************************************************)
EXTENDS UserRequestsPromises, FiniteSetTheorems

OneHandler == \A g, h \in Handlers : g = h

\* The labels of a role change between its snapshot and its commit.
Switches == {"deactivate", "assign", "commitRole"}

\* No two role changes of one user overlap.
RoleChangesApart ==
  \A g, h \in Handlers :
    g # h /\ pc[g] \in Switches /\ pc[h] \in Switches => Target(g) # Target(h)

\* The process starts on users with one role.
OneSeedRole == \A u \in UserIds : \A r, s \in SeedRoles[u] : r = s

\* A role change has still to visit a role, or has deactivated it; in the end it
\* may be the one it has made active itself.
Clears(h, r) ==
  /\ pc[h] = "deactivate" => r \in todo[h] \/ tx[h].roles[r] = "inactive"
  /\ pc[h] = "assign" => tx[h].roles[r] = "inactive"
  /\ pc[h] = "commitRole" => r = Args(h).role \/ tx[h].roles[r] = "inactive"

\* It clears all roles that are active.
SwitchingOf(h) == \A r \in ActiveRoles(Target(h)) : Clears(h, r)

Switching == \A h \in Handlers : SwitchingOf(h)

-----------------------------------------------------------------------------
(* Switching is inductive.                                                 *)

\* The snapshot is of all active roles.
LEMMA ScanRolesClears ==
  ASSUME TypeOK, NEW h \in Handlers, ScanRoles(h), NEW r \in ActiveRoles(Target(h))
  PROVE  Clears(h, r)'
<1>1. /\ todo'[h] = ActiveRoles(Target(h))
      /\ pc'[h] = IF ActiveRoles(Target(h)) = {} THEN "assign" ELSE "deactivate"
  BY DEF ScanRoles, Goto, TypeOK
<1> QED
  BY <1>1 DEF Clears

\* A row that is visited is deactivated when it is active.
LEMMA DeactivateRoleClears ==
  ASSUME TypeOK, NEW h \in Handlers, DeactivateRole(h), NEW s \in ActiveRoles(Target(h)),
         Clears(h, s)
  PROVE  Clears(h, s)'
<1>1. pc[h] = "deactivate"
  BY DEF DeactivateRole
<1>2. PICK r \in todo[h] :
        /\ tx' = [tx EXCEPT ![h].roles[r] =
                    IF ura[Target(h)][r] = "active" THEN "inactive" ELSE "locked"]
        /\ todo' = [todo EXCEPT ![h] = @ \ {r}]
        /\ pc' = [pc EXCEPT ![h] = IF todo[h] = {r} THEN "assign" ELSE "deactivate"]
  BY DEF DeactivateRole, Goto
<1>3. /\ todo'[h] = todo[h] \ {r}
      /\ pc'[h] = IF todo[h] = {r} THEN "assign" ELSE "deactivate"
  BY <1>2 DEF TypeOK
<1>4. s \in todo'[h] \/ tx'[h].roles[s] = "inactive"
  <2>1. s \in Roles /\ ura[Target(h)][s] = "active"
    BY DEF ActiveRoles
  <2>2. s \in todo[h] \/ tx[h].roles[s] = "inactive"
    BY <1>1 DEF Clears
  <2>3. tx'[h].roles[s] = IF s = r THEN "inactive" ELSE tx[h].roles[s]
    BY <1>2, <2>1 DEF TypeOK
  <2> QED
    BY <1>3, <2>2, <2>3
<1> QED
  BY <1>3, <1>4 DEF Clears

\* The upsert touches the role asked for.
LEMMA AssignRoleClears ==
  ASSUME TypeOK, NEW h \in Handlers, AssignRole(h), NEW s \in Roles, Clears(h, s)
  PROVE  Clears(h, s)'
<1>1. pc[h] = "assign" /\ pc'[h] = "commitRole" /\ Args(h)' = Args(h)
  BY DEF AssignRole, Goto, Args, TypeOK
<1>2. tx' = [tx EXCEPT ![h].roles[Args(h).role] = "active"]
  BY DEF AssignRole
<1>3. s # Args(h).role => tx'[h].roles[s] = "inactive"
  <2>1. tx[h].roles[s] = "inactive"
    BY <1>1 DEF Clears
  <2> QED
    BY <1>2, <2>1 DEF TypeOK
<1> QED
  BY <1>1, <1>3 DEF Clears

\* The statements of a role change keep what it clears, and commit nothing.
LEMMA SwitchClears ==
  ASSUME TypeOK, NEW h \in Handlers, ScanRoles(h) \/ DeactivateRole(h) \/ AssignRole(h)
  PROVE  /\ \A u : ActiveRoles(u)' = ActiveRoles(u)
         /\ Target(h)' = Target(h)
         /\ \A r \in ActiveRoles(Target(h)) : Clears(h, r) => Clears(h, r)'
<1>1. UNCHANGED <<db, req>>
  BY DEF ScanRoles, DeactivateRole, AssignRole
<1>2. ActiveRoles(Target(h)) \subseteq Roles
  BY DEF ActiveRoles
<1>3. \A r \in ActiveRoles(Target(h)) : Clears(h, r) => Clears(h, r)'
  BY <1>2, ScanRolesClears, DeactivateRoleClears, AssignRoleClears
<1> QED
  BY <1>1, <1>3 DEF db, ActiveRoles, Target

\* Nothing else leads a handler into a role change.
LEMMA OtherSteps ==
  ASSUME TypeOK, Local, NEW h \in Handlers,
         \/ \E q \in Requests : Receive(h, q)
         \/ Step(h) /\ ~ScanRoles(h) /\ ~DeactivateRole(h) /\ ~AssignRole(h)
         \/ Reply(h) \/ AbortDeadlock(h) \/ Fault(h) \/ LoseCommitAck(h)
  PROVE  pc'[h] \notin Switches
<1> USE DEF TypeOK, Goto, Return, Unless, Switches
<1>1. CASE (\E q \in Requests : Receive(h, q)) \/ Reply(h)
  BY <1>1 DEF Receive, Reply
<1>2. CASE AbortDeadlock(h) \/ Fault(h) \/ LoseCommitAck(h) \/ Commit(h) \/ CommitRole(h)
  BY <1>2 DEF AbortDeadlock, Fault, LoseCommitAck, Commit, CommitRole
<1>3. CASE ReadUser(h)
  <2>1. req[h] \in Request /\ req[h].op # "create"
    BY <1>3 DEF ReadUser, Local, Admitted, Busy, CreateLabels, Op
  <2>2. req[h].op \in {"get", "delete", "update"}
    BY <2>1 DEF Request, Operations
  <2> QED
    BY <1>3, <2>2 DEF ReadUser, ChangeRole
<1>4. CASE CheckNewEmail(h) \/ CheckChangedEmail(h) \/ LoadRoles(h) \/ CheckInProcedure(h)
  BY <1>4 DEF CheckNewEmail, CheckChangedEmail, LoadRoles, CheckInProcedure, ChangeRole
<1>5. CASE InsertUser(h) \/ InsertCredentials(h) \/ InsertRole(h)
  BY <1>5 DEF InsertUser, InsertCredentials, InsertRole
<1>6. CASE UpdateRow(h) \/ IndexRow(h) \/ DeleteRow(h)
  BY <1>6 DEF UpdateRow, IndexRow, DeleteRow
<1> QED
  BY <1>1, <1>2, <1>3, <1>4, <1>5, <1>6 DEF Step

\* A step of h leaves what the other handlers are at alone.
LEMMA OthersSwitch ==
  ASSUME TypeOK, Local, NEW h \in Handlers,
         \/ \E q \in Requests : Receive(h, q)
         \/ Step(h) \/ Reply(h) \/ AbortDeadlock(h) \/ Fault(h) \/ LoseCommitAck(h)
  PROVE  \A g \in Handlers \ {h} :
           /\ pc'[g] = pc[g] /\ req'[g] = req[g] /\ tx'[g] = tx[g] /\ todo'[g] = todo[g]
           /\ seen'[g] = seen[g] /\ outcome'[g] = outcome[g]
<1>1. \A g \in Handlers \ {h} : pc'[g] = pc[g] /\ req'[g] = req[g] /\ outcome'[g] = outcome[g]
  BY OthersAnswers
<1>2. \A g \in Handlers \ {h} : tx'[g] = tx[g] /\ todo'[g] = todo[g] /\ seen'[g] = seen[g]
  <2> USE DEF TypeOK, Goto, Return, Unless
  <2>1. CASE (\E q \in Requests : Receive(h, q)) \/ Reply(h)
    BY <2>1 DEF Receive, Reply
  <2>2. CASE AbortDeadlock(h) \/ Fault(h) \/ LoseCommitAck(h) \/ Commit(h) \/ CommitRole(h)
    BY <2>2 DEF AbortDeadlock, Fault, LoseCommitAck, Commit, CommitRole
  <2>3. CASE ReadUser(h)
    <3>1. req[h] \in Request /\ req[h].op # "create"
      BY <2>3 DEF ReadUser, Local, Admitted, Busy, CreateLabels, Op
    <3>2. req[h].op \in {"get", "delete", "update"}
      BY <3>1 DEF Request, Operations
    <3> QED
      BY <2>3, <3>2 DEF ReadUser, ChangeRole
  <2>4. CASE CheckNewEmail(h) \/ CheckChangedEmail(h) \/ LoadRoles(h) \/ CheckInProcedure(h)
    BY <2>4 DEF CheckNewEmail, CheckChangedEmail, LoadRoles, CheckInProcedure, ChangeRole
  <2>5. CASE InsertUser(h) \/ InsertCredentials(h) \/ InsertRole(h)
    BY <2>5 DEF InsertUser, InsertCredentials, InsertRole
  <2>6. CASE ScanRoles(h) \/ AssignRole(h)
    BY <2>6 DEF ScanRoles, AssignRole
  <2>7. CASE DeactivateRole(h)
    BY <2>7 DEF DeactivateRole
  <2>8. CASE UpdateRow(h) \/ IndexRow(h) \/ DeleteRow(h)
    BY <2>8 DEF UpdateRow, IndexRow, DeleteRow
  <2> QED
    BY <2>1, <2>2, <2>3, <2>4, <2>5, <2>6, <2>7, <2>8 DEF Step
<1> QED
  BY <1>1, <1>2

\* What a handler does to roles depends on nothing else.
LEMMA ClearsSame ==
  ASSUME NEW h, NEW r, Clears(h, r), pc'[h] = pc[h], req'[h] = req[h], tx'[h] = tx[h],
         todo'[h] = todo[h]
  PROVE  Clears(h, r)'
BY DEF Clears, Args

\* A handler outside a role change clears everything there is to clear.
LEMMA ClearsIdle ==
  ASSUME NEW h, NEW r, pc'[h] \notin Switches
  PROVE  Clears(h, r)'
BY DEF Clears, Switches

\* A commit ends the role change.
LEMMA EndingLeaves ==
  ASSUME TypeOK, NEW h \in Handlers, Commit(h) \/ CommitRole(h) \/ LoseCommitAck(h)
  PROVE  /\ pc'[h] \notin Switches /\ Ending(h) /\ Apply(h)
         /\ \A u \in UserIds \ {Target(h)} : ActiveRoles(u)' = ActiveRoles(u)
<1>1. pc'[h] \notin Switches /\ Ending(h) /\ Apply(h)
  BY DEF Commit, CommitRole, LoseCommitAck, Goto, Return, Switches, TypeOK, Ending
<1>2. \A u \in UserIds \ {Target(h)} : ura'[u] = ura[u]
  BY <1>1 DEF Apply, TypeOK
<1> QED
  BY <1>1, <1>2 DEF ActiveRoles

\* What a handler does is seen when it commits.
LEMMA Uncommitted ==
  ASSUME NEW h \in Handlers, ~(Commit(h) \/ CommitRole(h) \/ LoseCommitAck(h)),
         \/ \E q \in Requests : Receive(h, q)
         \/ Step(h) \/ Reply(h) \/ AbortDeadlock(h) \/ Fault(h)
  PROVE  UNCHANGED db
<1>1. CASE \E q \in Requests : Receive(h, q)
  BY <1>1 DEF Receive
<1>2. CASE Step(h)
  BY <1>2 DEF Step, ReadUser, CheckNewEmail, CheckChangedEmail, LoadRoles, CheckInProcedure,
     InsertUser, InsertCredentials, InsertRole, ScanRoles, DeactivateRole, AssignRole,
     UpdateRow, IndexRow, DeleteRow
<1>3. CASE Reply(h) \/ AbortDeadlock(h) \/ Fault(h)
  BY <1>3 DEF Reply, AbortDeadlock, Fault
<1> QED
  BY <1>1, <1>2, <1>3

\* A commit of another request meets no role change in progress.
LEMMA OthersEnding ==
  ASSUME IndInv, RoleChangesApart, NEW h \in Handlers, NEW g \in Handlers \ {h},
         pc[g] \in Switches, Commit(h) \/ CommitRole(h) \/ LoseCommitAck(h), NEW T, T = Target(g)
  PROVE  ActiveRoles(T)' = ActiveRoles(T)
<1>1. TypeOK /\ Local
  BY DEF IndInv
<1>2. /\ Ending(h) /\ Apply(h)
      /\ \A u \in UserIds \ {Target(h)} : ActiveRoles(u)' = ActiveRoles(u)
  BY <1>1, EndingLeaves
<1>3. T \in UserIds /\ Busy(g) /\ Op(g) = "update"
  BY <1>1, UpdateFacts DEF Switches
<1>4. CASE T # Target(h)
  BY <1>2, <1>3, <1>4
<1>5. CASE T = Target(h)
  <2>1. pc[h] = "commit"
    BY <1>2, <1>5 DEF RoleChangesApart, Switches, Ending
  <2>2. users[T].status # "none"
    BY <1>3 DEF IndInv, Present, Found, Switches, UpdateLabels, RoleLabels
  <2>3. /\ Holding(h) /\ Busy(h) /\ Op(h) \in {"create", "update", "delete"}
        /\ Actives' = [Actives EXCEPT ![Target(h)] = After(h, @)]
        /\ Actives \in [UserIds -> SUBSET Roles]
    BY <1>2, AppliedState
  <2>4. Op(h) # "create"
    BY <1>5, <2>1, <2>2, <2>3 DEF IndInv, Present, Creating, CreateLabels
  <2>5. tx[h].roles = NoTx.roles
    BY <2>1, <2>3, <2>4 DEF Holding
  <2>6. Actives' = Actives
    BY <2>3, <2>5, RolesUntouched
  <2> QED
    BY <1>3, <2>6 DEF Actives
<1> QED
  BY <1>4, <1>5

\* A step of one handler leaves the role changes of the others as they were.
LEMMA OthersSwitching ==
  ASSUME IndInv, RoleChangesApart, NEW h \in Handlers, NEW g \in Handlers \ {h},
         \/ \E q \in Requests : Receive(h, q)
         \/ Step(h) \/ Reply(h) \/ AbortDeadlock(h) \/ Fault(h) \/ LoseCommitAck(h),
         SwitchingOf(g)
  PROVE  SwitchingOf(g)'
<1>1. TypeOK /\ Local
  BY DEF IndInv
<1>2. pc'[g] = pc[g] /\ req'[g] = req[g] /\ tx'[g] = tx[g] /\ todo'[g] = todo[g]
  BY <1>1, OthersSwitch
<1>3. CASE pc[g] \notin Switches
  BY <1>2, <1>3, ClearsIdle DEF SwitchingOf
<1>4. CASE pc[g] \in Switches
  <2> SUFFICES ASSUME NEW T, T = Target(g), NEW r \in ActiveRoles(T)'
               PROVE  Clears(g, r)'
    BY <1>2 DEF SwitchingOf, Target
  <2>1. ActiveRoles(T)' = ActiveRoles(T)
    <3>1. CASE Commit(h) \/ CommitRole(h) \/ LoseCommitAck(h)
      BY <1>4, <3>1, OthersEnding
    <3>2. CASE ~(Commit(h) \/ CommitRole(h) \/ LoseCommitAck(h))
      <4>1. UNCHANGED db
        BY <3>2, Uncommitted
      <4> QED
        BY <4>1 DEF db, ActiveRoles
    <3> QED
      BY <3>1, <3>2
  <2>2. Clears(g, r)
    BY <2>1 DEF SwitchingOf
  <2> QED
    BY <1>2, <2>2, ClearsSame
<1> QED
  BY <1>3, <1>4

\* No role becomes active behind the snapshot of a role change.
LEMMA SwitchingNext ==
  ASSUME IndInv, RoleChangesApart, Switching, [Next]_vars
  PROVE  Switching'
<1>1. TypeOK /\ Local
  BY DEF IndInv
<1>2. ASSUME NEW h \in Handlers,
             \/ \E q \in Requests : Receive(h, q)
             \/ Step(h) \/ Reply(h) \/ AbortDeadlock(h) \/ Fault(h) \/ LoseCommitAck(h)
      PROVE  Switching'
  <2>1. SwitchingOf(h)'
    <3>1. CASE ScanRoles(h) \/ DeactivateRole(h) \/ AssignRole(h)
      <4>1. SwitchingOf(h)
        BY DEF Switching
      <4> QED
        BY <1>1, <3>1, <4>1, SwitchClears DEF SwitchingOf
    <3>2. CASE ~(ScanRoles(h) \/ DeactivateRole(h) \/ AssignRole(h))
      <4>1. pc'[h] \notin Switches
        BY <1>1, <1>2, <3>2, OtherSteps
      <4> QED
        BY <4>1, ClearsIdle DEF SwitchingOf
    <3> QED
      BY <3>1, <3>2
  <2>2. \A g \in Handlers \ {h} : SwitchingOf(g)'
    BY <1>2, OthersSwitching DEF Switching
  <2> QED
    BY <2>1, <2>2 DEF Switching
<1>3. CASE Crash
  BY <1>3 DEF Crash, Switching, SwitchingOf, Clears
<1>4. CASE UNCHANGED vars
  BY <1>4 DEF vars, Switching, SwitchingOf, Clears, ActiveRoles, Target, Args
<1> QED
  BY <1>2, <1>3, <1>4 DEF Next

\* What is active when SetUserRole commits, it has deactivated.
THEOREM SwitchingInvariance == Spec /\ []RoleChangesApart => []Switching
<1>1. Init => Switching
  BY DEF Init, Switching, SwitchingOf, Clears
<1>2. IndInv /\ RoleChangesApart /\ Switching /\ [Next]_vars => Switching'
  BY SwitchingNext
<1> QED
  BY <1>1, <1>2, Invariance, PTL DEF Spec

-----------------------------------------------------------------------------
(* The refinement of the exclusive directory.                              *)

\* The commit of SetUserRole leaves the one role it was asked for.
LEMMA RoleReplaced ==
  ASSUME IndInv, History, NEW h \in Handlers, SwitchingOf(h), Apply(h), pc[h] = "commitRole"
  PROVE  Dir!ReplaceRole(Target(h))
<1>1. Ending(h)
  BY DEF Ending
<1> DEFINE T == Target(h)
           role == Args(h).role
<1>2. /\ T \in UserIds /\ Holding(h) /\ Busy(h) /\ role \in Roles /\ Op(h) = "update"
      /\ Actives' = [Actives EXCEPT ![T] = After(h, @)]
      /\ Actives[T] = ActiveRoles(T) /\ Actives \in [UserIds -> SUBSET Roles]
  BY <1>1, AppliedState, EndingFacts DEF IndInv
<1>3. tx[h].hold = "none" /\ ~tx[h].cred
  BY <1>2 DEF Holding
<1>4. users' = users /\ creds' = creds
  BY <1>1, <1>3, AppliedState
<1>5. users[T].status # "none"
  BY <1>2 DEF IndInv, Present, Found, UpdateLabels, RoleLabels
<1>6. Actives' = [Actives EXCEPT ![T] = {role}]
  <2>1. \A r \in Roles : tx[h].roles[r] = "active" <=> r = role
    BY DEF History, Record, RolesSet
  <2>2. \A r \in ActiveRoles(T) \ {role} : tx[h].roles[r] = "inactive"
    BY DEF SwitchingOf, Clears
  <2>3. After(h, ActiveRoles(T)) = {role}
    BY <1>2, <2>1, <2>2 DEF After
  <2> QED
    BY <1>2, <2>3
<1> QED
  BY <1>2, <1>4, <1>5, <1>6 DEF Dir!ReplaceRole, Dir!Exists, Actives

\* A commit is a step of the exclusive directory.
LEMMA CommitReplaces ==
  ASSUME IndInv, History, Switching, NEW h \in Handlers, Ending(h), Apply(h)
  PROVE  Dir!NextExclusive
<1>1. Target(h) \in UserIds /\ Op(h) \in {"create", "update", "delete"} /\ SwitchingOf(h)
  BY AppliedState DEF Switching
<1>2. Dir!Register(Target(h)) \/ Dir!Revise(Target(h)) \/ Dir!Remove(Target(h))
         \/ Dir!ReplaceRole(Target(h))
  BY <1>1, CreateRefines, UpdateRefines, DeleteRefines, RoleReplaced DEF Ending
<1> QED
  BY <1>1, <1>2 DEF Dir!NextExclusive

\* Only commits are seen.
LEMMA OnlyCommits ==
  ASSUME [Next]_vars
  PROVE  UNCHANGED db \/ \E h \in Handlers : Ending(h) /\ Apply(h)
<1>1. (Crash \/ UNCHANGED vars) => UNCHANGED db
  BY DEF Crash, vars, db
<1>2. \A h \in Handlers :
        Commit(h) \/ CommitRole(h) \/ LoseCommitAck(h) => Ending(h) /\ Apply(h)
  BY DEF Commit, CommitRole, LoseCommitAck, Ending
<1> QED
  BY <1>1, <1>2, Uncommitted DEF Next

\* Role changes that do not overlap are those of the comment on SetUserRole: each
\* replaces all the roles a user has.
THEOREM ApartReplaces == Spec /\ []RoleChangesApart => ImplementsExclusiveDirectory
<1>1. Init => Dir!Init
  BY InitRefines
<1>2. IndInv /\ History /\ Switching /\ [Next]_vars => [Dir!NextExclusive]_(Dir!dirVars)
  BY OnlyCommits, CommitReplaces, UncommittedRefines
<1>3. Spec /\ []RoleChangesApart => Dir!ExclusiveSpec
  BY <1>1, <1>2, HistoryInvariance, SwitchingInvariance, PTL DEF Spec, Dir!ExclusiveSpec
<1> QED
  BY <1>3 DEF ImplementsExclusiveDirectory

LEMMA OneIsApart == ASSUME OneHandler PROVE RoleChangesApart
BY DEF OneHandler, RoleChangesApart

\* One handler is the directory as the comment on SetUserRole describes it.
THEOREM OneHandlerReplaces ==
  ASSUME OneHandler PROVE Spec => ImplementsExclusiveDirectory
BY OneIsApart, ApartReplaces, PTL

-----------------------------------------------------------------------------
(* At most one active role.                                                *)

Sole == \A u \in UserIds : \A r, s \in Actives[u] : r = s

LEMMA SoleNext ==
  ASSUME [Dir!NextExclusive]_(Dir!dirVars), Sole,
         Actives \in [UserIds -> SUBSET Roles]
  PROVE  Sole'
<1>1. CASE UNCHANGED Dir!dirVars
  BY <1>1 DEF Dir!dirVars, Actives, Sole
<1>2. ASSUME NEW u \in UserIds, NEW r \in Roles, Actives' = [Actives EXCEPT ![u] = {r}]
      PROVE  Sole'
  BY <1>2 DEF Sole
<1>3. ASSUME NEW u \in UserIds, Dir!Register(u) \/ Dir!ReplaceRole(u)
      PROVE  Sole'
  BY <1>2, <1>3 DEF Dir!Register, Dir!ReplaceRole, Actives
<1>4. ASSUME NEW u \in UserIds, Dir!Revise(u) \/ Dir!Remove(u)
      PROVE  Sole'
  BY <1>4 DEF Dir!Revise, Dir!Remove, Actives, Sole
<1> QED
  BY <1>1, <1>3, <1>4 DEF Dir!NextExclusive

\* Nobody has two active roles who had not two to begin with, unless two changes
\* of the roles of one user overlap.
THEOREM ApartOneRole ==
  ASSUME OneSeedRole PROVE Spec /\ []RoleChangesApart => []AtMostOneActiveRole
<1>1. Init => Sole
  <2> SUFFICES ASSUME Init PROVE Sole
    OBVIOUS
  <2>1. \A u \in UserIds : {r \in Roles : ura[u][r] = "active"} = SeedRoles[u]
    BY SeedAssumption DEF Init
  <2> QED
    BY <2>1 DEF Sole, Actives, ActiveRoles, OneSeedRole
<1>2. IndInv /\ History /\ Switching /\ Sole /\ [Next]_vars => Sole'
  <2>1. Actives \in [UserIds -> SUBSET Roles]
    BY DEF Actives, ActiveRoles
  <2> QED
    BY <2>1, OnlyCommits, CommitReplaces, UncommittedRefines, SoleNext
<1>3. Sole => AtMostOneActiveRole
  <2> SUFFICES ASSUME Sole, NEW u \in UserIds
               PROVE  Cardinality(ActiveRoles(u)) <= 1
    BY DEF AtMostOneActiveRole
  <2>1. \A r, s \in ActiveRoles(u) : r = s
    BY DEF Sole, Actives
  <2>2. CASE ActiveRoles(u) = {}
    <3>1. Cardinality(ActiveRoles(u)) = 0
      BY <2>2, FS_EmptySet
    <3> QED
      BY <3>1
  <2>3. CASE \E r : ActiveRoles(u) = {r}
    <3>1. Cardinality(ActiveRoles(u)) = 1
      BY <2>3, FS_Singleton
    <3> QED
      BY <3>1
  <2> QED
    BY <2>1, <2>2, <2>3
<1> QED
  BY <1>1, <1>2, <1>3, HistoryInvariance, SwitchingInvariance, PTL DEF Spec

\* With one handler no two do.
THEOREM OneHandlerOneRole ==
  ASSUME OneHandler, OneSeedRole PROVE Spec => []AtMostOneActiveRole
BY OneIsApart, ApartOneRole, PTL

-----------------------------------------------------------------------------
(* Every duplicate address is found before the index finds it.             *)

\* The checks before a write never answer with an error of the index.
LEMMA CheckAnswers ==
  ASSUME NEW actor, NEW body, NEW role
  PROVE  /\ CreateError(actor, body) # "uniqueViolation"
         /\ RoleError(actor, role) # "uniqueViolation"
         /\ UpdateOrgError(actor, body) # "uniqueViolation"
<1>1. \A org, r : /\ OrgError(org) # "uniqueViolation"
                  /\ RoleError(actor, r) # "uniqueViolation"
  BY DEF OrgError, RoleError
<1> QED
  BY <1>1 DEF CreateError, UpdateOrgError

LEMMA RequestAnswers ==
  ASSUME NEW op, NEW actor, NEW target, NEW respelled, NEW body
  PROVE  RequestError(op, actor, target, respelled, body) # "uniqueViolation"
<1>1. CreateError(actor, body) # "uniqueViolation"
  BY CheckAnswers
<1> QED
  BY <1>1 DEF RequestError

\* The row an update would write.
Revised(h) == Overwrite(users[Target(h)], Merge(Caller(h), Args(h), seen[h].row))

\* From the check of the address to the statement that writes it, nobody has it.
AddressChecked(h) ==
  /\ pc[h] = "email" /\ Op(h) = "update" =>
       Live(Target(h)) /\ seen[h].row = users[Target(h)]
  /\ pc[h] = "insert" => ~EmailTaken(Args(h).email, Target(h))
  /\ pc[h] \in RoleLabels \cup {"update"} => ~EmailTaken(Revised(h).email, Target(h))
  /\ pc[h] = "index" => ~EmailTaken(tx[h].row.email, Target(h))
  /\ outcome[h] # "uniqueViolation"

AddressesChecked == \A h \in Handlers : AddressChecked(h)

\* Between the check and the write, no other transaction holds the row of the
\* user or one with the address.
Wanted(h) ==
  IF pc[h] = "insert" THEN Args(h).email
  ELSE IF pc[h] = "index" THEN tx[h].row.email ELSE Revised(h).email
Writing(h) ==
  \/ pc[h] = "email" /\ Op(h) = "update"
  \/ pc[h] \in {"insert", "update", "index"} \cup RoleLabels
AddressesApart ==
  \A g, h \in Handlers :
    g # h /\ tx[g].hold # "none" /\ Writing(h) =>
      Target(g) # Target(h) /\ Key(tx[g].row) # Normalize(Wanted(h))

\* A user keeps its own address, or gets one that has been found free.
LEMMA RevisedFree ==
  ASSUME TypeOK, UniqueLiveEmail, NEW T, Live(T), NEW actor, NEW body \in Body,
         body.email = Absent \/ ~EmailTaken(body.email, T)
  PROVE  ~EmailTaken(Overwrite(users[T], Merge(actor, body, users[T])).email, T)
<1> DEFINE email == Overwrite(users[T], Merge(actor, body, users[T])).email
<1>1. T \in UserIds /\ users[T] \in UserRow
  BY LiveRowType
<1>2. users[T].email \in Emails
  BY <1>1 DEF UserRow
<1>3. email = Coalesce(IF body.email = Absent THEN users[T].email ELSE Normalize(body.email),
                       users[T].email)
  BY <1>1 DEF Overwrite, Merge, UserRow
<1>4. ~EmailTaken(users[T].email, T)
  BY <1>1, <1>2 DEF EmailTaken, UniqueLiveEmail, Normalize, Key
<1>5. CASE email = users[T].email
  BY <1>4, <1>5
<1>6. CASE email # users[T].email
  <2>1. body.email # Absent /\ email = Normalize(body.email) /\ email # Blank
    BY <1>3, <1>6 DEF Coalesce
  <2>2. body.email \in Emails /\ email = Lower[body.email]
    BY <2>1 DEF Normalize
  <2>3. Normalize(email) = Normalize(body.email)
    BY <2>2, EmailAssumption DEF Normalize
  <2> QED
    BY <2>1, <2>3 DEF EmailTaken
<1> QED
  BY <1>5, <1>6

\* Going on to the role change, or to the row.
LEMMA ChangeRoleChecked ==
  ASSUME TypeOK, NEW h \in Handlers, ChangeRole(h), UNCHANGED <<users, req>>,
         AddressChecked(h),
         ~EmailTaken(Overwrite(users[Target(h)],
                       Merge(Caller(h), Args(h), seen'[h].row)).email, Target(h))
  PROVE  AddressChecked(h)'
<1>1. \/ pc'[h] \in {"update", "scan"} /\ outcome'[h] = outcome[h]
      \/ pc'[h] = "answered" /\ outcome'[h] # "uniqueViolation"
  <2>1. RoleError(Caller(h), Args(h).role) # "uniqueViolation"
    BY CheckAnswers
  <2> QED
    BY <2>1 DEF ChangeRole, Unless, Goto, Return, TypeOK
<1>2. ~EmailTaken(Revised(h).email, Target(h))'
  BY DEF Revised, EmailTaken, Live, Key, Target, Caller, Args
<1> QED
  BY <1>1, <1>2 DEF AddressChecked, RoleLabels

LEMMA ReadUserChecked ==
  ASSUME TypeOK, Local, UniqueLiveEmail, NEW h \in Handlers, AddressChecked(h), ReadUser(h)
  PROVE  AddressChecked(h)'
<1>1. /\ pc[h] = "load" /\ UNCHANGED <<db, users, req, wrote, faults>>
      /\ req[h] \in Request /\ Op(h) # "create" /\ Args(h) \in Body
  BY DEF ReadUser, Local, Admitted, Busy, CreateLabels, Op, db, Request, Args
<1>2. Op(h) \in {"get", "delete", "update"}
  BY <1>1 DEF Request, Operations, Op
<1>3. CASE ~Live(Target(h)) \/ ~CanAccess(Caller(h), users[Target(h)])
  BY <1>3 DEF ReadUser, Return, TypeOK, AddressChecked, RoleLabels
<1>4. CASE Live(Target(h)) /\ CanAccess(Caller(h), users[Target(h)])
  <2>1. seen' = [seen EXCEPT ![h].row = users[Target(h)]]
    BY <1>4 DEF ReadUser
  <2>2. seen'[h].row = users[Target(h)]
    BY <2>1 DEF TypeOK
  <2>3. CASE Op(h) \in {"get", "delete"}
    <3>1. pc'[h] \in {"roles", "delete"} /\ outcome' = outcome
      BY <1>4, <2>3 DEF ReadUser, Goto, TypeOK, Op
    <3> QED
      BY <3>1 DEF AddressChecked, RoleLabels
  <2>4. CASE Op(h) = "update" /\ UpdateOrgError(Caller(h), Args(h)) # "none"
    <3>1. Return(h, UpdateOrgError(Caller(h), Args(h)))
      BY <1>4, <2>4 DEF ReadUser, Op
    <3>2. pc'[h] = "answered" /\ outcome'[h] # "uniqueViolation"
      BY <3>1, CheckAnswers DEF Return, TypeOK
    <3> QED
      BY <3>2 DEF AddressChecked, RoleLabels
  <2>5. CASE /\ Op(h) = "update" /\ UpdateOrgError(Caller(h), Args(h)) = "none"
             /\ Args(h).email # Absent
    <3>1. Goto(h, "email")
      BY <1>4, <2>5 DEF ReadUser, Op
    <3>2. pc'[h] = "email" /\ outcome' = outcome
      BY <3>1 DEF Goto, TypeOK
    <3>3. (Live(Target(h)) /\ seen[h].row = users[Target(h)])'
      BY <1>1, <1>4, <2>2 DEF Live, Target
    <3> QED
      BY <3>2, <3>3 DEF AddressChecked, RoleLabels
  <2>6. CASE /\ Op(h) = "update" /\ UpdateOrgError(Caller(h), Args(h)) = "none"
             /\ Args(h).email = Absent
    <3>1. ChangeRole(h)
      BY <1>4, <2>6 DEF ReadUser, Op
    <3>2. ~EmailTaken(Overwrite(users[Target(h)],
                        Merge(Caller(h), Args(h), seen'[h].row)).email, Target(h))
      BY <1>1, <1>4, <2>2, <2>6, RevisedFree
    <3> QED
      BY <1>1, <3>1, <3>2, ChangeRoleChecked
  <2> QED
    BY <1>2, <2>3, <2>4, <2>5, <2>6
<1> QED
  BY <1>3, <1>4

LEMMA CheckChangedEmailChecked ==
  ASSUME TypeOK, Local, UniqueLiveEmail, NEW h \in Handlers, AddressChecked(h),
         CheckChangedEmail(h)
  PROVE  AddressChecked(h)'
<1>1. /\ pc[h] = "email" /\ Op(h) = "update" /\ UNCHANGED <<users, req, seen>>
      /\ req[h] \in Request /\ Args(h) \in Body
  BY DEF CheckChangedEmail, db, Op, Local, Admitted, Busy, Request, Args
<1>2. Live(Target(h)) /\ seen[h].row = users[Target(h)]
  BY <1>1 DEF AddressChecked
<1>3. CASE EmailTaken(Args(h).email, Target(h))
  BY <1>3 DEF CheckChangedEmail, Return, TypeOK, AddressChecked, RoleLabels
<1>4. CASE ~EmailTaken(Args(h).email, Target(h))
  <2>1. ChangeRole(h)
    BY <1>4 DEF CheckChangedEmail
  <2>2. ~EmailTaken(Overwrite(users[Target(h)],
                      Merge(Caller(h), Args(h), seen'[h].row)).email, Target(h))
    BY <1>1, <1>2, <1>4, RevisedFree
  <2> QED
    BY <1>1, <2>1, <2>2, ChangeRoleChecked
<1> QED
  BY <1>3, <1>4

\* The procedure looks for the address itself, right before it inserts it.
LEMMA CheckInProcedureChecked ==
  ASSUME TypeOK, NEW h \in Handlers, AddressChecked(h), CheckInProcedure(h)
  PROVE  AddressChecked(h)'
<1>1. \/ pc'[h] = "answered" /\ outcome'[h] = "duplicateEmail"
      \/ /\ pc'[h] = "insert" /\ outcome' = outcome
         /\ ~EmailTaken(Args(h).email, Blank)
  BY DEF CheckInProcedure, Unless, Goto, Return, TypeOK
<1>2. ~EmailTaken(Args(h).email, Blank) => ~EmailTaken(Args(h).email, Target(h))'
  BY SpecialValues DEF CheckInProcedure, db, EmailTaken, Live, Key, Args, Target
<1> QED
  BY <1>1, <1>2 DEF AddressChecked, RoleLabels

\* A role change leaves the rows, and what the update will write into one.
LEMMA RoleStepChecked ==
  ASSUME TypeOK, Local, NEW h \in Handlers, AddressChecked(h),
         ScanRoles(h) \/ DeactivateRole(h) \/ AssignRole(h) \/ CommitRole(h)
  PROVE  AddressChecked(h)'
<1>1. /\ pc[h] \in RoleLabels /\ pc'[h] \in RoleLabels \cup {"update"}
      /\ UNCHANGED <<req, seen, outcome>>
  BY DEF ScanRoles, DeactivateRole, AssignRole, CommitRole, RoleLabels, Goto, TypeOK
<1>2. users' = users
  <2>1. CASE CommitRole(h)
    <3>1. tx[h].hold = "none"
      BY <2>1 DEF CommitRole, Local, Holding
    <3> QED
      BY <2>1, <3>1 DEF CommitRole, Apply
  <2> QED
    BY <2>1 DEF ScanRoles, DeactivateRole, AssignRole, db
<1>3. ~EmailTaken(Revised(h).email, Target(h))
  BY <1>1 DEF AddressChecked
<1>4. ~EmailTaken(Revised(h).email, Target(h))'
  BY <1>1, <1>2, <1>3 DEF Revised, EmailTaken, Live, Key, Target, Caller, Args
<1> QED
  BY <1>1, <1>4 DEF AddressChecked, RoleLabels

\* The row that was revised is the one the index gets.
LEMMA RowStepChecked ==
  ASSUME TypeOK, NEW h \in Handlers, AddressChecked(h),
         InsertUser(h) \/ UpdateRow(h) \/ IndexRow(h)
  PROVE  AddressChecked(h)'
<1>1. CASE InsertUser(h)
  <2>1. pc[h] = "insert" /\ ~EmailTaken(Args(h).email, Target(h))
    BY <1>1 DEF InsertUser, AddressChecked
  <2>2. pc'[h] = "credentials" /\ outcome' = outcome
    BY <1>1, <2>1 DEF InsertUser, Goto, TypeOK
  <2> QED
    BY <2>2 DEF AddressChecked, RoleLabels
<1>2. CASE UpdateRow(h)
  <2>1. /\ pc[h] = "update" /\ ~EmailTaken(Revised(h).email, Target(h))
        /\ UNCHANGED <<users, req>>
    BY <1>2 DEF UpdateRow, AddressChecked, db
  <2>2. CASE Return(h, "userNotFound")
    BY <2>2 DEF Return, TypeOK, AddressChecked, RoleLabels
  <2>3. CASE ~Return(h, "userNotFound")
    <3>1. /\ pc'[h] = "index" /\ outcome' = outcome
          /\ tx'[h].row = Revised(h)
      BY <1>2, <2>3 DEF UpdateRow, Goto, TypeOK, Revised
    <3>2. ~EmailTaken(tx[h].row.email, Target(h))'
      BY <2>1, <3>1 DEF EmailTaken, Live, Key, Target
    <3> QED
      BY <3>1, <3>2 DEF AddressChecked, RoleLabels
  <2> QED
    BY <2>2, <2>3
<1>3. CASE IndexRow(h)
  <2>1. ~EmailTaken(tx[h].row.email, Target(h))
    BY <1>3 DEF IndexRow, AddressChecked
  <2>2. pc'[h] = "commit" /\ outcome' = outcome
    BY <1>3, <2>1 DEF IndexRow, Goto, TypeOK
  <2> QED
    BY <2>2 DEF AddressChecked, RoleLabels
<1> QED
  BY <1>1, <1>2, <1>3

\* The other steps lead to no statement that relies on the check.
LEMMA OtherStepChecked ==
  ASSUME TypeOK, NEW h \in Handlers, AddressChecked(h),
         \/ \E q \in Requests : Receive(h, q)
         \/ CheckNewEmail(h) \/ LoadRoles(h) \/ InsertCredentials(h) \/ InsertRole(h)
         \/ DeleteRow(h) \/ Commit(h)
         \/ Reply(h) \/ AbortDeadlock(h) \/ Fault(h) \/ LoseCommitAck(h)
  PROVE  AddressChecked(h)'
<1> USE DEF TypeOK, Goto, Return, Unless, AddressChecked, RoleLabels
<1>1. CASE \E q \in Requests : Receive(h, q)
  <2>1. PICK q \in Requests : Receive(h, q)
    BY <1>1
  <2>2. \/ pc'[h] = "answered"
        \/ pc'[h] = "email" /\ q.op = "create"
        \/ pc'[h] = "load"
    BY <2>1 DEF Receive
  <2>3. outcome'[h] # "uniqueViolation"
    <3>1. RequestError(q.op, q.actor, q.target, q.respelled, q.body) # "uniqueViolation"
      BY RequestAnswers
    <3> QED
      BY <2>1, <3>1 DEF Receive
  <2>4. q.op = "create" => Op(h)' # "update"
    BY <2>1, RequestAssumption DEF Receive, Op, Request
  <2> QED
    BY <2>2, <2>3, <2>4
<1>2. CASE CheckNewEmail(h) \/ LoadRoles(h) \/ InsertCredentials(h) \/ InsertRole(h)
  BY <1>2 DEF CheckNewEmail, LoadRoles, InsertCredentials, InsertRole
<1>3. CASE DeleteRow(h) \/ Commit(h)
  BY <1>3 DEF DeleteRow, Commit
<1>4. CASE Reply(h) \/ AbortDeadlock(h) \/ Fault(h) \/ LoseCommitAck(h)
  BY <1>4 DEF Reply, AbortDeadlock, Fault, LoseCommitAck
<1> QED
  BY <1>1, <1>2, <1>3, <1>4

\* What another request commits has not the address, and is not the user.
LEMMA CommitChecked ==
  ASSUME TypeOK, NEW h \in Handlers, tx[h].hold = "none" \/ Target(h) \in UserIds, Apply(h),
         NEW T \in UserIds, NEW email, ~EmailTaken(email, T),
         tx[h].hold # "none" => Target(h) # T /\ Key(tx[h].row) # Normalize(email)
  PROVE  users'[T] = users[T] /\ ~EmailTaken(email, T)'
<1>1. CASE tx[h].hold = "none"
  <2>1. users' = users
    BY <1>1 DEF Apply
  <2> QED
    BY <2>1 DEF EmailTaken, Live, Key
<1>2. CASE tx[h].hold # "none"
  <2>1. users' = [users EXCEPT ![Target(h)] = tx[h].row]
    BY <1>2 DEF Apply
  <2>2. \A v \in UserIds : users'[v] = IF v = Target(h) THEN tx[h].row ELSE users[v]
    BY <2>1 DEF TypeOK
  <2> QED
    BY <1>2, <2>2 DEF EmailTaken, Live, Key
<1> QED
  BY <1>1, <1>2

\* A step of one handler takes no address another one has found free.
LEMMA OthersChecked ==
  ASSUME IndInv, AddressesApart, NEW h \in Handlers, NEW g \in Handlers \ {h},
         \/ \E q \in Requests : Receive(h, q)
         \/ Step(h) \/ Reply(h) \/ AbortDeadlock(h) \/ Fault(h) \/ LoseCommitAck(h),
         AddressChecked(g)
  PROVE  AddressChecked(g)'
<1>1. TypeOK /\ Local
  BY DEF IndInv
<1>2. /\ pc'[g] = pc[g] /\ req'[g] = req[g] /\ tx'[g] = tx[g]
      /\ seen'[g] = seen[g] /\ outcome'[g] = outcome[g]
  BY <1>1, OthersSwitch
<1>3. CASE ~Writing(g)
  BY <1>2, <1>3 DEF AddressChecked, Writing, Op
<1>4. CASE Writing(g) /\ UNCHANGED db
  BY <1>2, <1>4 DEF AddressChecked, Revised, EmailTaken, Live, Key, Target, Caller, Args, Op, db
<1>5. CASE Writing(g) /\ (Commit(h) \/ CommitRole(h) \/ LoseCommitAck(h))
  <2>1. Ending(h) /\ Apply(h)
    BY <1>1, <1>5, EndingLeaves
  <2>2. Target(h) \in UserIds
    BY <1>1, <2>1, EndingFacts
  <2>3. tx[h].hold # "none" => Target(h) # Target(g) /\ Key(tx[h].row) # Normalize(Wanted(g))
    BY <1>5 DEF AddressesApart
  <2>4. Target(g) \in UserIds
    <3>1. CASE pc[g] = "email"
      BY <1>5, <3>1 DEF Writing, AddressChecked, RoleLabels, Live
    <3>2. CASE pc[g] = "insert"
      BY <1>1, <3>2, CreateFacts
    <3>3. CASE pc[g] \in {"update", "index"} \cup RoleLabels
      BY <1>1, <3>3, UpdateFacts DEF RoleLabels
    <3> QED
      BY <1>5, <3>1, <3>2, <3>3 DEF Writing
  <2>5. users'[Target(g)] = users[Target(g)]
    BY <1>1, <2>1, <2>2, <2>3, <2>4 DEF Apply, TypeOK
  <2>6. CASE pc[g] = "email"
    <3>1. (Live(Target(g)) /\ seen[g].row = users[Target(g)])'
      BY <1>2, <1>5, <2>4, <2>5, <2>6 DEF Writing, AddressChecked, RoleLabels, Live, Target
    <3> QED
      BY <1>2, <2>6, <3>1 DEF AddressChecked, RoleLabels
  <2>7. CASE pc[g] # "email"
    <3>1. ~EmailTaken(Wanted(g), Target(g))
      BY <1>5, <2>7 DEF Writing, AddressChecked, Wanted, RoleLabels
    <3> SUFFICES ASSUME NEW T, T = Target(g), NEW email, email = Wanted(g)
                 PROVE  AddressChecked(g)'
      OBVIOUS
    <3>2. ~EmailTaken(email, T)'
      BY <1>1, <2>1, <2>2, <2>3, <2>4, <3>1, CommitChecked
    <3>3. Target(g)' = T /\ Wanted(g)' = email
      BY <1>2, <2>5 DEF Target, Wanted, Args, Caller, Revised
    <3>4. ~EmailTaken(Wanted(g), Target(g))'
      BY <3>2, <3>3 DEF EmailTaken
    <3> QED
      BY <1>2, <2>7, <3>4 DEF AddressChecked, Wanted, RoleLabels
  <2> QED
    BY <2>6, <2>7
<1>6. Commit(h) \/ CommitRole(h) \/ LoseCommitAck(h) \/ UNCHANGED db
  BY Uncommitted
<1> QED
  BY <1>3, <1>4, <1>5, <1>6

LEMMA AddressesCheckedNext ==
  ASSUME IndInv, AddressesApart, AddressesChecked, [Next]_vars
  PROVE  AddressesChecked'
<1>1. ASSUME NEW h \in Handlers,
             \/ \E q \in Requests : Receive(h, q)
             \/ Step(h) \/ Reply(h) \/ AbortDeadlock(h) \/ Fault(h) \/ LoseCommitAck(h)
      PROVE  AddressesChecked'
  <2>1. TypeOK /\ Local /\ UniqueLiveEmail /\ AddressChecked(h)
    BY DEF IndInv, AddressesChecked
  <2>2. AddressChecked(h)'
    BY <1>1, <2>1, ReadUserChecked, CheckChangedEmailChecked, CheckInProcedureChecked,
       RoleStepChecked, RowStepChecked, OtherStepChecked DEF Step
  <2>3. \A g \in Handlers \ {h} : AddressChecked(g)'
    BY <1>1, OthersChecked DEF AddressesChecked
  <2> QED
    BY <2>2, <2>3 DEF AddressesChecked
<1>2. CASE Crash
  BY <1>2 DEF Crash, AddressesChecked, AddressChecked, RoleLabels
<1>3. CASE UNCHANGED vars
  BY <1>3 DEF vars, AddressesChecked, AddressChecked, Revised, EmailTaken, Live, Key, Target,
     Caller, Args, Op
<1> QED
  BY <1>1, <1>2, <1>3 DEF Next

\* The index never rejects an address when no other transaction holds the row or
\* the address between the check and the write: EmailExists or the procedure has
\* found every duplicate, in whatever case it is written, and answered it with
\* 409 (Create and Update of service.go).
THEOREM ApartConflict == Spec /\ []AddressesApart => []DuplicateEmailIsConflict
<1>1. Init => AddressesChecked
  BY DEF Init, AddressesChecked, AddressChecked, RoleLabels
<1>2. IndInv /\ AddressesApart /\ AddressesChecked /\ [Next]_vars => AddressesChecked'
  BY AddressesCheckedNext
<1>3. AddressesChecked => DuplicateEmailIsConflict
  BY DEF AddressesChecked, AddressChecked, DuplicateEmailIsConflict
<1> QED
  BY <1>1, <1>2, <1>3, Invariance, PTL DEF Spec

\* With one handler none does.
THEOREM OneHandlerConflict == ASSUME OneHandler PROVE Spec => []DuplicateEmailIsConflict
<1>1. AddressesApart
  BY DEF OneHandler, AddressesApart
<1> QED
  BY <1>1, ApartConflict, PTL

-----------------------------------------------------------------------------
(* Requests for a user who is not moved meanwhile.                         *)

\* No new row is pending that moves the user of a request of an organization's
\* admin that has found it.
MovesApart ==
  \A g, h \in Handlers :
    /\ g # h /\ tx[g].hold = "indexed" /\ Target(g) = Target(h)
    /\ Busy(h) /\ Found(h) /\ ~IsSuperAdmin(Caller(h))
    => tx[g].row.org = users[Target(h)].org

\* Such a user is in the organization it was found in.
AtHome(h) ==
  Busy(h) /\ Found(h) /\ ~IsSuperAdmin(Caller(h)) => users[Target(h)].org = Caller(h).org

AllAtHome == \A h \in Handlers : AtHome(h)

\* What a commit makes of the row of a user somebody has found: its organization
\* stays, by the write of its own admin, by a deletion, and by the others apart.
LEMMA CommitAtHome ==
  ASSUME IndInv, History, MovesApart, NEW g \in Handlers, Ending(g), Apply(g),
         NEW h \in Handlers, Busy(h), Found(h), ~IsSuperAdmin(Caller(h)), AtHome(h)
  PROVE  users'[Target(h)].org = Caller(h).org
<1>1. /\ TypeOK /\ Local /\ Present /\ RowSet(g)
      /\ users[Target(h)].status # "none"
      /\ users[Target(h)].org = Caller(h).org
  BY DEF IndInv, History, Record, Present, AtHome
<1>2. /\ Target(g) \in UserIds /\ Holding(g) /\ Busy(g)
      /\ users' = IF tx[g].hold = "none" THEN users
                  ELSE [users EXCEPT ![Target(g)] = tx[g].row]
  BY AppliedState
<1>3. CASE tx[g].hold = "none" \/ Target(g) # Target(h)
  BY <1>1, <1>2, <1>3 DEF TypeOK
<1>4. CASE tx[g].hold # "none" /\ Target(g) = Target(h)
  <2>1. users'[Target(h)] = tx[g].row
    BY <1>1, <1>2, <1>4 DEF TypeOK
  <2>2. pc[g] = "commit"
    BY <1>2, <1>4 DEF Ending, Holding
  <2>3. Op(g) # "create"
    BY <1>1, <1>2, <1>4, <2>2 DEF Present, Creating, CreateLabels
  <2>4. CASE Op(g) = "delete"
    <3>1. tx[g].row = SoftDelete(users[Target(h)]) /\ Live(Target(h))
      BY <1>1, <1>4, <2>4 DEF RowSet, Present
    <3>2. users[Target(h)] \in UserRow
      BY <1>1, <3>1, LiveRowType
    <3> QED
      BY <1>1, <2>1, <3>1, <3>2 DEF SoftDelete, UserRow
  <2>5. CASE Op(g) # "delete" /\ g = h
    BY <1>1, <1>4, <2>1, <2>5 DEF RowSet
  <2>6. CASE Op(g) # "delete" /\ g # h
    <3>1. tx[g].hold = "indexed"
      BY <1>2, <2>2, <2>6 DEF Holding
    <3> QED
      BY <1>1, <1>4, <2>1, <2>6, <3>1 DEF MovesApart
  <2> QED
    BY <2>4, <2>5, <2>6
<1> QED
  BY <1>3, <1>4

LEMMA AllAtHomeNext ==
  ASSUME IndInv, History, MovesApart, AllAtHome, [Next]_vars
  PROVE  AllAtHome'
<1> SUFFICES ASSUME NEW h \in Handlers, (Busy(h) /\ Found(h) /\ ~IsSuperAdmin(Caller(h)))'
             PROVE  (users[Target(h)].org = Caller(h).org)'
  BY DEF AllAtHome, AtHome
<1>1. TypeOK /\ Local /\ AtHome(h)
  BY DEF IndInv, AllAtHome
<1>2. ASSUME NEW g \in Handlers,
             \/ \E q \in Requests : Receive(g, q)
             \/ Step(g) \/ Reply(g) \/ AbortDeadlock(g) \/ Fault(g) \/ LoseCommitAck(g)
      PROVE  (users[Target(h)].org = Caller(h).org)'
  <2>1. CASE g = h /\ ReadUser(h)
    <3>1. pc'[h] # "answered"
      BY DEF Busy
    <3>2. CanAccess(Caller(h), users[Target(h)])
      BY <1>1, <2>1, <3>1 DEF ReadUser, Return, TypeOK
    <3>3. users' = users /\ req' = req
      BY <2>1 DEF ReadUser, db
    <3> QED
      BY <3>2, <3>3 DEF CanAccess, Caller, Target
  <2>2. CASE ~(g = h /\ ReadUser(h))
    <3>1. req'[h] = req[h] /\ Busy(h) /\ Found(h)
      <4>1. CASE g = h
        BY <1>1, <1>2, <2>2, <4>1, FoundBefore
      <4>2. CASE g # h
        <5>1. pc'[h] = pc[h] /\ req'[h] = req[h]
          BY <1>1, <1>2, <4>2, OthersAnswers
        <5> QED
          BY <5>1 DEF Busy, Found, Op
      <4> QED
        BY <4>1, <4>2
    <3>2. Target(h)' = Target(h) /\ Caller(h)' = Caller(h)
      BY <3>1 DEF Target, Caller
    <3>3. CASE Commit(g) \/ CommitRole(g) \/ LoseCommitAck(g)
      <4>1. Ending(g) /\ Apply(g)
        BY <1>1, <3>3, EndingLeaves
      <4>2. users'[Target(h)].org = Caller(h).org
        BY <1>1, <3>1, <3>2, <4>1, CommitAtHome
      <4> QED
        BY <3>2, <4>2
    <3>4. CASE UNCHANGED db
      BY <1>1, <3>1, <3>2, <3>4 DEF AtHome, db
    <3> QED
      BY <1>2, <3>3, <3>4, Uncommitted
  <2> QED
    BY <2>1, <2>2
<1>3. CASE UNCHANGED vars
  BY <1>1, <1>3 DEF vars, AtHome, Busy, Found, Op, Caller, Target
<1>4. ~Crash
  BY DEF Crash, Busy
<1> QED
  BY <1>2, <1>3, <1>4 DEF Next

\* Whoever an organization's admin updates, deletes or gives a role to is in its
\* organization when that is written, as long as nobody moves the user between
\* GetByID's CanAccess and the write.
THEOREM ApartOrgs == Spec /\ []MovesApart => []OrgAdminsReachTheirOrgOnly
<1>1. Init => AllAtHome
  BY DEF Init, AllAtHome, AtHome, Busy
<1>2. IndInv /\ History /\ MovesApart /\ AllAtHome /\ [Next]_vars => AllAtHome'
  BY AllAtHomeNext
<1>3. IndInv /\ AllAtHome => OrgAdminsReachTheirOrgOnly
  <2> SUFFICES ASSUME IndInv, AllAtHome, NEW h \in Handlers, Busy(h),
                      ~IsSuperAdmin(Caller(h)), Op(h) # "create", Writes(h)
               PROVE  users[Target(h)].org = Caller(h).org
    BY DEF OrgAdminsReachTheirOrgOnly, Op
  <2>1. TypeOK /\ Local /\ AtHome(h)
    BY DEF IndInv, AllAtHome
  <2> QED
    BY <2>1, WritesFound DEF AtHome
<1> QED
  BY <1>1, <1>2, <1>3, HistoryInvariance, PTL DEF Spec

\* With one handler nobody does.
THEOREM OneHandlerOrgs == ASSUME OneHandler PROVE Spec => []OrgAdminsReachTheirOrgOnly
<1>1. MovesApart
  BY DEF OneHandler, MovesApart
<1> QED
  BY <1>1, ApartOrgs, PTL
=============================================================================
