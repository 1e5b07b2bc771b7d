------------------------------ MODULE UserListInv ------------------------------
(***************************************************************************)
(* The inductive invariant behind the theorems about UserList.             *)
(***************************************************************************)
EXTENDS UserList

\* In one directory every user has a role, and live users have different addresses.
Sound(rs, act) ==
  /\ \A u \in UserIds : rs[u].status # "none" => act[u] # {}
  /\ \A u, v \in UserIds :
       u # v /\ rs[u].status = "live" /\ rs[v].status = "live"
         => Lower[rs[u].email] # Lower[rs[v].email]

\* The list so far is the live users of one moment since the request arrived.
ReadAtOneMoment ==
  \E m \in witnessed :
    \A u \in UserIds : listed[u] = IF m.rows[u].status = "live" THEN m.rows[u] ELSE NoRow

\* What has been read so far, and what it has to do with the directory.
Progress ==
  /\ pc # "idle" => Moment \in witnessed /\ actor \in Actor
  /\ pc # "answered" => outcome = "none"
  /\ pc = "roles" =>
       /\ ReadAtOneMoment
       /\ \A u \in Shown : Dir!Exists(u)
       /\ todo \subseteq Shown
       /\ \A u \in Shown \ todo :
            roles[u] # {} /\ \E m \in witnessed : roles[u] = m.active[u]

\* The inductive invariant.
ListInv ==
  /\ TypeOK
  /\ Sound(rows, active)
  /\ \A m \in witnessed : Sound(m.rows, m.active)
  /\ Progress
  /\ ListIsOfOneMoment
  /\ RolesWereHeld
=============================================================================
