--------------------------- MODULE UserRequestsRoles ---------------------------
(***************************************************************************)
(* How many roles can be left active when role changes of one user meet:   *)
(* no more than there are handlers.  Each active role of a user has an     *)
(* owner of its own, the handler that made it active last, and a handler   *)
(* clears what it owns before it makes another role active.                *)
(***************************************************************************)
EXTENDS UserRequestsApart, FunctionTheorems

\* The directory the process starts on is one that such handlers have left.
SeedRolesFit ==
  \A u \in UserIds : IsFiniteSet(SeedRoles[u])
                     /\ Cardinality(SeedRoles[u]) <= Cardinality(Handlers)

\* No two active roles of u have one owner, and a handler that changes the roles
\* of u clears those it owns.
Owned(u, owner) ==
  /\ \A r, s \in ActiveRoles(u) : owner[r] = owner[s] => r = s
  /\ \A h \in Handlers : Target(h) = u =>
       \A r \in ActiveRoles(u) : owner[r] = h => Clears(h, r)

RolesOwned == \A u \in UserIds : \E owner \in [Roles -> Handlers] : Owned(u, owner)

-----------------------------------------------------------------------------
(* RolesOwned is inductive.                                                *)

\* The owners stay when no role becomes active.
LEMMA OwnersStay ==
  ASSUME NEW u \in UserIds, NEW owner \in [Roles -> Handlers], Owned(u, owner),
         ActiveRoles(u)' = ActiveRoles(u), NEW h \in Handlers,
         \A g \in Handlers \ {h} :
           pc'[g] = pc[g] /\ req'[g] = req[g] /\ tx'[g] = tx[g] /\ todo'[g] = todo[g],
         Target(h)' = u => \A r \in ActiveRoles(u) : owner[r] = h => Clears(h, r)'
  PROVE  Owned(u, owner)'
<1>1. ASSUME NEW g \in Handlers, Target(g)' = u, NEW r \in ActiveRoles(u), owner[r] = g
      PROVE  Clears(g, r)'
  <2>1. CASE g = h
    BY <1>1, <2>1
  <2>2. CASE g # h
    <3>1. Target(g) = u
      BY <1>1, <2>2 DEF Target
    <3>2. Clears(g, r)
      BY <1>1, <3>1 DEF Owned
    <3> QED
      BY <2>2, <3>2, ClearsSame
  <2> QED
    BY <2>1, <2>2
<1> QED
  BY <1>1 DEF Owned

\* The handler that commits a role owns it from then on.
LEMMA CommitOwns ==
  ASSUME NEW u \in UserIds, NEW owner \in [Roles -> Handlers], Owned(u, owner),
         NEW h \in Handlers, NEW role \in Roles, pc'[h] \notin Switches,
         \A g \in Handlers \ {h} :
           pc'[g] = pc[g] /\ req'[g] = req[g] /\ tx'[g] = tx[g] /\ todo'[g] = todo[g],
         ActiveRoles(u)' \subseteq {role} \cup {r \in ActiveRoles(u) : owner[r] # h}
  PROVE  Owned(u, [owner EXCEPT ![role] = h])'
<1> DEFINE next == [owner EXCEPT ![role] = h]
<1>1. \A r \in ActiveRoles(u)' : next[r] = IF r = role THEN h ELSE owner[r]
  BY DEF ActiveRoles
<1>2. \A r, s \in ActiveRoles(u)' : next[r] = next[s] => r = s
  BY <1>1 DEF Owned
<1>3. ASSUME NEW g \in Handlers, Target(g)' = u, NEW r \in ActiveRoles(u)', next[r] = g
      PROVE  Clears(g, r)'
  <2>1. CASE g = h
    BY <2>1, ClearsIdle
  <2>2. CASE g # h
    <3>1. Target(g) = u /\ r \in ActiveRoles(u) /\ owner[r] = g
      BY <1>1, <1>3, <2>2 DEF Target
    <3>2. Clears(g, r)
      BY <3>1 DEF Owned
    <3> QED
      BY <2>2, <3>2, ClearsSame
  <2> QED
    BY <2>1, <2>2
<1> QED
  BY <1>2, <1>3 DEF Owned

\* What the commit of h leaves active of the roles of its user.
LEMMA CommitLeaves ==
  ASSUME IndInv, History, NEW h \in Handlers, Ending(h), Apply(h),
         NEW T, T = Target(h), NEW owner, Owned(T, owner)
  PROVE  \/ ActiveRoles(T)' = ActiveRoles(T)
         \/ \E role \in Roles :
              ActiveRoles(T)' \subseteq {role} \cup {r \in ActiveRoles(T) : owner[r] # h}
<1> DEFINE role == Args(h).role
<1>1. /\ T \in UserIds /\ Holding(h) /\ Busy(h) /\ Op(h) \in {"create", "update", "delete"}
      /\ Actives' = [Actives EXCEPT ![T] = After(h, @)]
      /\ Actives[T] = ActiveRoles(T) /\ Actives \in [UserIds -> SUBSET Roles]
  BY AppliedState
<1>2. Actives'[T] = ActiveRoles(T)'
  BY <1>1 DEF Actives
<1>3. CASE pc[h] = "commit" /\ Op(h) # "create"
  <2>1. tx[h].roles = NoTx.roles
    BY <1>1, <1>3 DEF Holding
  <2>2. Actives' = Actives
    BY <1>1, <2>1, RolesUntouched
  <2> QED
    BY <1>1, <1>2, <2>2
<1>4. CASE pc[h] = "commitRole" \/ Op(h) = "create"
  <2>1. role \in Roles
    BY <1>4, EndingFacts DEF IndInv
  <2>2. ActiveRoles(T)' = After(h, ActiveRoles(T))
    BY <1>1, <1>2
  <2>3. \A r \in Roles : tx[h].roles[r] = "active" => r = role
    BY DEF History, Record, RolesSet
  <2>4. ASSUME NEW r \in ActiveRoles(T), tx[h].roles[r] # "inactive", r # role
        PROVE  owner[r] # h
    <3>1. CASE pc[h] = "commitRole"
      <4>1. ~Clears(h, r)
        BY <2>4, <3>1 DEF Clears
      <4> QED
        BY <1>1, <4>1 DEF Owned
    <3>2. CASE pc[h] = "commit" /\ Op(h) = "create"
      <4>1. users[T].status = "none"
        BY <1>1, <3>2 DEF IndInv, Present, Creating, CreateLabels
      <4>2. ActiveRoles(T) = {}
        BY <1>1, <4>1 DEF IndInv, CompleteAccounts, ActiveRoles
      <4> QED
        BY <4>2
    <3> QED
      BY <1>4, <3>1, <3>2 DEF Ending
  <2>5. After(h, ActiveRoles(T)) \subseteq {role} \cup {r \in ActiveRoles(T) : owner[r] # h}
    BY <2>3, <2>4 DEF After
  <2> QED
    BY <2>1, <2>2, <2>5
<1> QED
  BY <1>3, <1>4 DEF Ending

\* No step of a handler leaves a user a role without an owner of its own.
LEMMA HandlerOwned ==
  ASSUME IndInv, History, NEW h \in Handlers,
         \/ \E q \in Requests : Receive(h, q)
         \/ Step(h) \/ Reply(h) \/ AbortDeadlock(h) \/ Fault(h) \/ LoseCommitAck(h),
         NEW u \in UserIds, NEW owner \in [Roles -> Handlers], Owned(u, owner)
  PROVE  \E next \in [Roles -> Handlers] : Owned(u, next)'
<1>1. TypeOK /\ Local
  BY DEF IndInv
<1>2. \A g \in Handlers \ {h} :
        pc'[g] = pc[g] /\ req'[g] = req[g] /\ tx'[g] = tx[g] /\ todo'[g] = todo[g]
  BY <1>1, OthersSwitch
<1>3. CASE ScanRoles(h) \/ DeactivateRole(h) \/ AssignRole(h)
  <2>1. /\ ActiveRoles(u)' = ActiveRoles(u) /\ Target(h)' = Target(h)
        /\ \A r \in ActiveRoles(Target(h)) : Clears(h, r) => Clears(h, r)'
    BY <1>1, <1>3, SwitchClears
  <2>2. Target(h)' = u => \A r \in ActiveRoles(u) : owner[r] = h => Clears(h, r)'
    BY <2>1 DEF Owned
  <2>3. Owned(u, owner)'
    BY <1>2, <2>1, <2>2, OwnersStay
  <2> QED
    BY <2>3
<1>4. ASSUME pc'[h] \notin Switches, ActiveRoles(u)' = ActiveRoles(u)
      PROVE  \E next \in [Roles -> Handlers] : Owned(u, next)'
  <2>1. Target(h)' = u => \A r \in ActiveRoles(u) : owner[r] = h => Clears(h, r)'
    BY <1>4, ClearsIdle
  <2>2. Owned(u, owner)'
    BY <1>2, <1>4, <2>1, OwnersStay
  <2> QED
    BY <2>2
<1>5. CASE Commit(h) \/ CommitRole(h) \/ LoseCommitAck(h)
  <2>1. /\ pc'[h] \notin Switches /\ Ending(h) /\ Apply(h)
        /\ u # Target(h) => ActiveRoles(u)' = ActiveRoles(u)
    BY <1>1, <1>5, EndingLeaves
  <2>2. CASE u = Target(h)
    <3>1. \/ ActiveRoles(u)' = ActiveRoles(u)
          \/ \E role \in Roles :
               ActiveRoles(u)' \subseteq {role} \cup {r \in ActiveRoles(u) : owner[r] # h}
      BY <2>1, <2>2, CommitLeaves
    <3>2. ASSUME NEW role \in Roles,
                 ActiveRoles(u)' \subseteq {role} \cup {r \in ActiveRoles(u) : owner[r] # h}
          PROVE  \E next \in [Roles -> Handlers] : Owned(u, next)'
      <4>1. Owned(u, [owner EXCEPT ![role] = h])'
        BY <1>2, <2>1, <3>2, CommitOwns
      <4>2. [owner EXCEPT ![role] = h] \in [Roles -> Handlers]
        OBVIOUS
      <4> QED
        BY <4>1, <4>2
    <3> QED
      BY <1>4, <2>1, <3>1, <3>2
  <2> QED
    BY <1>4, <2>1, <2>2
<1>6. CASE /\ ~(ScanRoles(h) \/ DeactivateRole(h) \/ AssignRole(h))
           /\ ~(Commit(h) \/ CommitRole(h) \/ LoseCommitAck(h))
  <2>1. pc'[h] \notin Switches
    BY <1>1, <1>6, OtherSteps
  <2>2. UNCHANGED db
    BY <1>6, Uncommitted
  <2>3. ActiveRoles(u)' = ActiveRoles(u)
    BY <2>2 DEF db, ActiveRoles
  <2> QED
    BY <1>4, <2>1, <2>3
<1> QED
  BY <1>3, <1>5, <1>6

LEMMA RolesOwnedNext ==
  ASSUME IndInv, History, RolesOwned, [Next]_vars
  PROVE  RolesOwned'
<1> SUFFICES ASSUME NEW u \in UserIds
             PROVE  \E next \in [Roles -> Handlers] : Owned(u, next)'
  BY DEF RolesOwned
<1>1. PICK owner \in [Roles -> Handlers] : Owned(u, owner)
  BY DEF RolesOwned
<1>2. ASSUME NEW h \in Handlers,
             \/ \E q \in Requests : Receive(h, q)
             \/ Step(h) \/ Reply(h) \/ AbortDeadlock(h) \/ Fault(h) \/ LoseCommitAck(h)
      PROVE  \E next \in [Roles -> Handlers] : Owned(u, next)'
  BY <1>1, <1>2, HandlerOwned
<1>3. CASE Crash
  <2>1. ActiveRoles(u)' = ActiveRoles(u) /\ \A h \in Handlers : pc'[h] \notin Switches
    BY <1>3 DEF Crash, db, ActiveRoles, Switches
  <2>2. Owned(u, owner)'
    BY <1>1, <2>1, ClearsIdle DEF Owned
  <2> QED
    BY <2>2
<1>4. CASE UNCHANGED vars
  <2>1. Owned(u, owner)'
    BY <1>1, <1>4 DEF Owned, vars, ActiveRoles, Target, Clears, Args
  <2> QED
    BY <2>1
<1> QED
  BY <1>2, <1>3, <1>4 DEF Next

-----------------------------------------------------------------------------
(* The bound.                                                              *)

\* A finite set that is no larger maps into the other one.
LEMMA FitsInto ==
  ASSUME NEW S, NEW T, IsFiniteSet(S), IsFiniteSet(T), Cardinality(S) <= Cardinality(T)
  PROVE  \E f \in [S -> T] : \A x, y \in S : f[x] = f[y] => x = y
<1> DEFINE m == Cardinality(S)
           n == Cardinality(T)
<1>1. /\ m \in Nat /\ ExistsBijection(1 .. m, S)
      /\ n \in Nat /\ ExistsBijection(1 .. n, T)
  BY FS_CardinalityType
<1>2. ExistsInjection(S, 1 .. m) /\ ExistsInjection(1 .. n, T)
  BY <1>1, Fun_ExistsBijEquiv
<1>3. ExistsInjection(1 .. m, 1 .. n)
  BY <1>1, Fun_NatInjLeq
<1>4. ExistsInjection(S, T)
  BY <1>2, <1>3, Fun_ExistsInjTransitive
<1>5. PICK f \in Injection(S, T) : TRUE
  BY <1>4 DEF ExistsInjection
<1> QED
  BY <1>5 DEF Injection, IsInjective

LEMMA InitOwned ==
  ASSUME IsFiniteSet(Handlers), Handlers # {}, SeedRolesFit, Init
  PROVE  RolesOwned
<1> SUFFICES ASSUME NEW u \in UserIds
             PROVE  \E owner \in [Roles -> Handlers] : Owned(u, owner)
  BY DEF RolesOwned
<1>1. ActiveRoles(u) = SeedRoles[u] /\ SeedRoles[u] \subseteq Roles
  BY SeedAssumption DEF Init, ActiveRoles
<1>2. PICK f \in [SeedRoles[u] -> Handlers] :
        \A r, s \in SeedRoles[u] : f[r] = f[s] => r = s
  BY FitsInto DEF SeedRolesFit
<1>3. PICK any \in Handlers : TRUE
  OBVIOUS
<1> DEFINE owner == [r \in Roles |-> IF r \in SeedRoles[u] THEN f[r] ELSE any]
<1>4. owner \in [Roles -> Handlers]
  BY <1>2
<1>5. \A r, s \in ActiveRoles(u) : owner[r] = owner[s] => r = s
  BY <1>1, <1>2
<1>6. \A h \in Handlers : pc[h] \notin Switches
  BY DEF Init, Switches
<1>7. Owned(u, owner)
  BY <1>5, <1>6 DEF Owned, Clears, Switches
<1> QED
  BY <1>4, <1>7

\* However role changes meet, and whatever of them fails, no user is left more
\* active roles than there are handlers (SetUserRole run by concurrent updates).
THEOREM RolesBounded ==
  ASSUME IsFiniteSet(Handlers), Handlers # {}, SeedRolesFit
  PROVE  Spec => []NoMoreRolesThanHandlers
<1>1. Init => RolesOwned
  BY InitOwned
<1>2. IndInv /\ History /\ RolesOwned /\ [Next]_vars => RolesOwned'
  BY RolesOwnedNext
<1>3. RolesOwned => NoMoreRolesThanHandlers
  <2> SUFFICES ASSUME RolesOwned, NEW u \in UserIds
               PROVE  Cardinality(ActiveRoles(u)) <= Cardinality(Handlers)
    BY DEF NoMoreRolesThanHandlers
  <2>1. PICK owner \in [Roles -> Handlers] : Owned(u, owner)
    BY DEF RolesOwned
  <2> DEFINE f == [r \in ActiveRoles(u) |-> owner[r]]
  <2>2. f \in [ActiveRoles(u) -> Handlers]
    BY <2>1 DEF ActiveRoles
  <2>3. \A r, s \in ActiveRoles(u) : f[r] = f[s] => r = s
    BY <2>1 DEF Owned
  <2>4. f \in Injection(ActiveRoles(u), Handlers)
    BY <2>2, <2>3 DEF Injection, IsInjective
  <2> QED
    BY <2>4, FS_Injection
<1> QED
  BY <1>1, <1>2, <1>3, HistoryInvariance, PTL DEF Spec
=============================================================================
