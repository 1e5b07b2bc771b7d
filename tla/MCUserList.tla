------------------------------ MODULE MCUserList ------------------------------
(***************************************************************************)
(* A small instance of UserList for TLC.                                   *)
(***************************************************************************)
EXTENDS UserListInv

CONSTANTS ann, bob, cyd, acme, apex, orgRole, clientRole, mailA, MailA, mailB, title

MCOrgs == {acme, apex}
MCRoles == {orgRole, clientRole}
MCRoleCode == [r \in MCRoles |-> IF r = orgRole THEN "ORG_ADMIN" ELSE "CLIENT"]
MCEmails == {mailA, MailA, mailB}
MCLower == [e \in MCEmails |-> IF e = MailA THEN mailA ELSE e]

UserIn(org, email) ==
  [status |-> "live", email |-> email, name |-> title, org |-> org,
   validTill |-> NoDate, active |-> TRUE, approved |-> TRUE]

\* A user in each organization, and a free id.
MCSeedRows ==
  [u \in UserIds |-> CASE u = ann -> UserIn(acme, mailA) [] u = bob -> UserIn(apex, mailB)
                       [] OTHER -> NoRow]
MCSeedRoles == [u \in UserIds |-> IF u = cyd THEN {} ELSE {clientRole}]

\* Users move, and take over an address in another spelling.
MCProfiles == {UserIn(apex, mailA), UserIn(acme, MailA), UserIn(acme, mailB)}

\* The super admin, a manager, and somebody who is none.
MCActors == {[user |-> ann, org |-> acme, roles |-> {"SUPER_ADMIN"}],
             [user |-> ann, org |-> acme, roles |-> {"ORG_ADMIN", "CLIENT"}],
             [user |-> bob, org |-> apex, roles |-> {"CLIENT"}]}
=============================================================================
