----------------------------- MODULE UserListProofs -----------------------------
(***************************************************************************)
(* Theorems about UserList, for any users, organizations, roles, actors    *)
(* and number of changes.                                                  *)
(***************************************************************************)
EXTENDS UserListInv, TLAPS

-----------------------------------------------------------------------------
(* Facts about the data.                                                   *)

\* A row that is live or deleted is a row of a user.
LEMMA LiveRows ==
  ASSUME NEW row \in Row, row.status # "none"
  PROVE  row \in UserRow
BY DEF Row, NoRow

LEMMA NoRowIsNone == NoRow \in Row /\ NoRow.status = "none"
BY DEF NoRow, Row

\* The directory of this moment.
Directories == [rows : [UserIds -> Row], active : [UserIds -> SUBSET Roles]]

\* The tables keep their types, every user keeps a role, addresses stay unique and
\* nobody vanishes, whatever another request does.
LEMMA DirectoryStep ==
  ASSUME TypeOK, Sound(rows, active), Dir!Next
  PROVE  /\ rows' \in [UserIds -> Row] /\ creds' \in SUBSET UserIds
         /\ active' \in [UserIds -> SUBSET Roles]
         /\ Sound(rows', active')
         /\ \A u \in UserIds : Dir!Exists(u) => Dir!Exists(u)'
<1>. PICK u \in UserIds : \/ Dir!Register(u) \/ Dir!Revise(u) \/ Dir!Remove(u)
                          \/ Dir!SwitchRole(u)
  BY DEF Dir!Next
<1>. USE DEF TypeOK
<1>1. CASE Dir!Register(u)
  <2>. PICK row \in UserRow, r \in Roles :
         /\ row.status = "live" /\ Dir!EmailFree(row.email, u)
         /\ rows' = [rows EXCEPT ![u] = row] /\ active' = [active EXCEPT ![u] = {r}]
    BY <1>1 DEF Dir!Register, UserRow, Dir!UserRow
  <2>1. Sound(rows', active') BY DEF Sound, Dir!Live, Dir!EmailFree
  <2>. QED BY <1>1, <2>1 DEF Dir!Register, Row, Dir!Exists
<1>2. CASE Dir!Revise(u)
  <2>. PICK row \in UserRow :
         /\ row.status = "live" /\ Dir!EmailFree(row.email, u)
         /\ rows' = [rows EXCEPT ![u] = row]
    BY <1>2 DEF Dir!Revise, UserRow, Dir!UserRow
  <2>1. Sound(rows', active') BY <1>2 DEF Sound, Dir!Live, Dir!EmailFree, Dir!Revise
  <2>. QED BY <1>2, <2>1 DEF Dir!Revise, Row, Dir!Exists
<1>3. CASE Dir!Remove(u)
  <2>1. rows[u] \in UserRow BY <1>3, LiveRows DEF Dir!Remove, Dir!Live
  <2>2. SoftDelete(rows[u]) \in UserRow /\ SoftDelete(rows[u]).status = "deleted"
    BY <2>1 DEF SoftDelete, UserRow
  <2>3. rows' = [rows EXCEPT ![u] = SoftDelete(rows[u])] /\ UNCHANGED <<creds, active>>
    BY <1>3 DEF Dir!Remove, Dir!SoftDelete, SoftDelete
  <2>4. rows[u].status = "live" BY <1>3 DEF Dir!Remove, Dir!Live
  <2>5. Sound(rows', active') BY <2>2, <2>3, <2>4 DEF Sound
  <2>. QED BY <2>2, <2>3, <2>5 DEF Row, Dir!Exists
<1>4. CASE Dir!SwitchRole(u)
  <2>. PICK r \in Roles, kept \in SUBSET active[u] :
         active' = [active EXCEPT ![u] = kept \cup {r}]
    BY <1>4 DEF Dir!SwitchRole
  <2>1. UNCHANGED <<rows, creds>> BY <1>4 DEF Dir!SwitchRole
  <2>2. Sound(rows', active') BY <2>1 DEF Sound
  <2>. QED BY <2>1, <2>2 DEF Dir!Exists
<1>. QED BY <1>1, <1>2, <1>3, <1>4

-----------------------------------------------------------------------------
(* The steps of a listing.                                                 *)

\* What has been answered stays true while the history grows.
LEMMA AnswerStays ==
  ASSUME ListIsOfOneMoment, RolesWereHeld, UNCHANGED <<actor, listed, roles, outcome>>,
         witnessed \subseteq witnessed'
  PROVE  ListIsOfOneMoment' /\ RolesWereHeld'
<1>1. Shown' = Shown BY DEF Shown
<1>2. ListIsOfOneMoment' BY <1>1 DEF ListIsOfOneMoment, IsSuperAdmin
<1>3. RolesWereHeld' BY <1>1 DEF RolesWereHeld
<1>. QED BY <1>2, <1>3

\* What a step of the listing has to keep when it does not answer a list.
LEMMA Unanswered ==
  ASSUME ListInv, UNCHANGED tables, outcome' # "ok", TypeOK', Progress',
         \A m \in witnessed' : m \in witnessed \/ m = Moment
  PROVE  ListInv'
<1>1. Sound(rows', active') BY DEF ListInv, tables
<1>2. \A m \in witnessed' : Sound(m.rows, m.active) BY DEF ListInv, Moment
<1>. QED BY <1>1, <1>2 DEF ListInv, ListIsOfOneMoment, RolesWereHeld

LEMMA ListStep ==
  ASSUME ListInv, NEW a \in Actors, List(a)
  PROVE  ListInv'
<1>. USE DEF ListInv, List
<1>1. Moment \in Directories BY DEF TypeOK, Moment, Directories
<1>2. TypeOK' BY <1>1, ListAssumption DEF TypeOK, Directories, tables
<1>3. Moment' = Moment BY DEF Moment, tables
<1>4. Progress' BY <1>3, ListAssumption DEF Progress
<1>. QED BY <1>2, <1>4, Unanswered DEF Progress

LEMMA ReadStep ==
  ASSUME ListInv, Read
  PROVE  ListInv'
<1>. USE DEF ListInv, Read
<1>1. TypeOK' BY NoRowIsNone DEF TypeOK, tables
<1>2. Moment \in witnessed /\ Moment' = Moment BY DEF Progress, Moment, tables
<1>3. ReadAtOneMoment' BY <1>2 DEF ReadAtOneMoment, Moment, TypeOK, Dir!Live
<1>4. Shown' = {u \in UserIds : Dir!Live(u)} BY NoRowIsNone DEF Shown, Dir!Live
<1>5. Progress' BY <1>2, <1>3, <1>4 DEF Progress, Dir!Live, Dir!Exists, tables
<1>. QED BY <1>1, <1>5, Unanswered DEF Progress

LEMMA LoadRolesStep ==
  ASSUME ListInv, NEW u \in UserIds, LoadRoles(u)
  PROVE  ListInv'
<1>. USE DEF ListInv, LoadRoles
<1>1. TypeOK' BY DEF TypeOK, tables
<1>2. Moment \in witnessed /\ Moment' = Moment /\ Shown' = Shown
  BY DEF Progress, Moment, Shown, tables
<1>3. ReadAtOneMoment' BY DEF Progress, ReadAtOneMoment
<1>4. roles'[u] # {} /\ roles'[u] = Moment.active[u]
  BY DEF Progress, Sound, Dir!Exists, Moment, TypeOK
<1>5. \A v \in Shown' \ todo' :
        roles'[v] # {} /\ \E m \in witnessed' : roles'[v] = m.active[v]
  BY <1>2, <1>4 DEF Progress, TypeOK
<1>6. Progress' BY <1>2, <1>3, <1>5 DEF Progress, Dir!Exists, tables
<1>. QED BY <1>1, <1>6, Unanswered DEF Progress

LEMMA FilterStep ==
  ASSUME ListInv, Filter
  PROVE  ListInv'
<1>. USE DEF ListInv, Filter
<1>1. TypeOK' BY NoRowIsNone DEF TypeOK, tables
<1>2. Sound(rows', active') /\ \A m \in witnessed' : Sound(m.rows, m.active) BY DEF tables
<1>3. Progress' BY DEF Progress, Moment, tables
<1>4. PICK m \in witnessed :
        \A u \in UserIds : listed[u] = IF m.rows[u].status = "live" THEN m.rows[u] ELSE NoRow
  BY DEF Progress, ReadAtOneMoment
<1>5. \A u \in UserIds :
        listed'[u] # NoRow <=> listed[u] # NoRow /\ CanAccess(actor, listed[u])
  OBVIOUS
<1>6. ListIsOfOneMoment'
  <2>1. \A u \in UserIds : listed[u] # NoRow <=> m.rows[u].status = "live"
    BY <1>4, NoRowIsNone
  <2>2. Shown' = {u \in UserIds :
                    m.rows[u].status = "live"
                      /\ (IsSuperAdmin(actor) \/ m.rows[u].org = actor.org)}
    BY <1>4, <1>5, <2>1 DEF Shown, CanAccess
  <2>3. \A u \in Shown' : listed'[u] = m.rows[u] BY <1>4, <1>5, <2>1 DEF Shown
  <2>4. UNCHANGED <<actor, witnessed>> OBVIOUS
  <2>. HIDE DEF Filter
  <2>. QED BY <2>2, <2>3, <2>4 DEF ListIsOfOneMoment, IsSuperAdmin
<1>7. RolesWereHeld'
  <2>1. Shown' \subseteq Shown \ todo BY <1>5 DEF Shown
  <2>. QED BY <2>1 DEF Progress, RolesWereHeld
<1>. QED BY <1>1, <1>2, <1>3, <1>6, <1>7

LEMMA EndStep ==
  ASSUME ListInv, Fault \/ Reply
  PROVE  ListInv'
<1>. USE DEF ListInv, Fault, Reply
<1>1. TypeOK'
  BY NoRowIsNone DEF TypeOK, NoList, NoRoles, tables
<1>2. Moment' = Moment BY DEF Moment, tables
<1>3. Progress' BY <1>2 DEF Progress
<1>. QED BY <1>1, <1>3, Unanswered

LEMMA ChangeStep ==
  ASSUME ListInv, Change
  PROVE  ListInv'
<1>. USE DEF ListInv, Change
<1>1. /\ rows' \in [UserIds -> Row] /\ creds' \in SUBSET UserIds
      /\ active' \in [UserIds -> SUBSET Roles]
      /\ Sound(rows', active')
      /\ \A u \in UserIds : Dir!Exists(u) => Dir!Exists(u)'
  BY DirectoryStep
<1>2. Moment' \in Directories BY <1>1 DEF Moment, Directories
<1>3. UNCHANGED <<pc, actor, listed, todo, roles, outcome>> BY DEF listing
<1>4. TypeOK' BY <1>1, <1>2, <1>3 DEF TypeOK, Moment, Directories
<1>5. \A m \in witnessed' : m \in witnessed \/ m = Moment' BY DEF Moment
<1>6. \A m \in witnessed' : Sound(m.rows, m.active) BY <1>1, <1>5 DEF Moment
<1>7. CASE pc = "idle"
  <2>1. outcome' = "none" BY <1>3, <1>7 DEF Progress
  <2>2. Progress' BY <1>3, <1>7, <2>1 DEF Progress
  <2>. QED BY <1>1, <1>4, <1>6, <2>1, <2>2 DEF ListIsOfOneMoment, RolesWereHeld
<1>8. CASE pc # "idle"
  <2>1. witnessed \subseteq witnessed' /\ Moment' \in witnessed' BY <1>8 DEF Moment
  <2>2. Shown' = Shown BY <1>3 DEF Shown
  <2>3. ReadAtOneMoment => ReadAtOneMoment' BY <1>3, <2>1 DEF ReadAtOneMoment
  <2>4. Progress'
    <3>. HIDE DEF Change
    <3>. QED BY <1>1, <1>3, <2>1, <2>2, <2>3 DEF Progress, Shown
  <2>5. ListIsOfOneMoment' /\ RolesWereHeld' BY <1>3, <2>1, AnswerStays
  <2>. QED BY <1>1, <1>4, <1>6, <2>4, <2>5
<1>. QED BY <1>7, <1>8

-----------------------------------------------------------------------------
(* The theorems.                                                           *)

LEMMA InitInv == Init => ListInv
<1>. SUFFICES ASSUME Init PROVE ListInv OBVIOUS
<1>. USE DEF Init, Dir!Init
<1>1. TypeOK BY DirectoryAssumption, NoRowIsNone DEF TypeOK, NoList, NoRoles
<1>2. Sound(rows, active) BY DirectoryAssumption DEF Sound
<1>. QED BY <1>1, <1>2 DEF ListInv, Progress, ListIsOfOneMoment, RolesWereHeld

LEMMA NextInv == ListInv /\ [Next]_vars => ListInv'
<1>. SUFFICES ASSUME ListInv, [Next]_vars PROVE ListInv' OBVIOUS
<1>1. CASE UNCHANGED vars
  <2>. USE <1>1 DEF vars, tables, listing, ListInv
  <2>1. Moment' = Moment /\ Shown' = Shown BY DEF Moment, Shown
  <2>2. TypeOK' BY DEF TypeOK
  <2>3. Progress' BY <2>1 DEF Progress, ReadAtOneMoment, Dir!Exists
  <2>4. ListIsOfOneMoment' /\ RolesWereHeld' BY AnswerStays
  <2>. QED BY <2>2, <2>3, <2>4 DEF Sound
<1>. QED
  BY <1>1, ListStep, ReadStep, LoadRolesStep, FilterStep, EndStep, ChangeStep DEF Next

\* The inductive invariant holds.
THEOREM ListInvariance == Spec => []ListInv
<1>. QED BY InitInv, NextInv, PTL DEF Spec

\* GET /api/v1/users answers the visible users of one moment since the request
\* arrived, for any number of users and changes between its statements.
THEOREM ListsAreOfOneMoment == Spec => []ListIsOfOneMoment
<1>1. ListInv => ListIsOfOneMoment BY DEF ListInv
<1>. QED BY <1>1, ListInvariance, PTL

\* The roles it answers were held, and nobody is shown without one.
THEOREM ListedRolesWereHeld == Spec => []RolesWereHeld
<1>1. ListInv => RolesWereHeld BY DEF ListInv
<1>. QED BY <1>1, ListInvariance, PTL

\* No address appears twice in a list.
THEOREM ListedAddressesDiffer == Spec => []NoAddressTwice
<1>1. ListInv => NoAddressTwice
  BY DEF ListInv, ListIsOfOneMoment, NoAddressTwice, Sound
<1>. QED BY <1>1, ListInvariance, PTL
=============================================================================
