--------------------------- MODULE UserRequestsHomes ---------------------------
(***************************************************************************)
(* UserRequests with a memory of where the user of each request has been:  *)
(* the organizations its row was in, live, since the request arrived.      *)
(* What an organization's admin may do is decided from one reading of the  *)
(* row (GetByID) and done by later statements, which do not look at the    *)
(* organization again.                                                     *)
(***************************************************************************)
EXTENDS UserRequestsInv

VARIABLE homes   \* history: those organizations, for each handler

homesVars == <<vars, homes>>

\* The organization the user of h is in.
Home(h) == IF Live(Target(h)) THEN {users[Target(h)].org} ELSE {}

HomesInit == Init /\ homes = [h \in Handlers |-> {}]

Remember ==
  homes' = [h \in Handlers |-> IF pc'[h] = "idle" THEN {} ELSE homes[h] \cup Home(h)']

HomesNext == Next /\ Remember
HomesSpec == HomesInit /\ [][HomesNext]_homesVars

\* Whatever an organization's admin has pending, a row, a deletion or a role, is
\* for a user who was live in the admin's organization at some moment since the
\* request arrived.  The row stays in that organization, or is brought back to it;
\* a deletion leaves the organization as it is; nobody is made a super admin.  The
\* user may have been moved in between: see OrgAdminsReachTheirOrgOnly.
OrgAdminsStayInTheirOrg ==
  \A h \in Handlers : Busy(h) /\ ~IsSuperAdmin(Caller(h)) =>
    /\ Op(h) # "create" /\ Writes(h) => Caller(h).org \in homes[h]
    /\ tx[h].hold # "none" =>
         tx[h].row.org = IF Op(h) = "delete" THEN users[Target(h)].org ELSE Caller(h).org
    /\ \A r \in Roles : tx[h].roles[r] = "active" => RoleCode[r] # "SUPER_ADMIN"
=============================================================================
