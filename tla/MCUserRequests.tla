---------------------------- MODULE MCUserRequests ----------------------------
(***************************************************************************)
(* Small instances of UserRequests for TLC: directories of two to four     *)
(* users, and for each run the few requests whose interleavings it is      *)
(* about.                                                                  *)
(***************************************************************************)
EXTENDS UserRequestsInv, TLC

CONSTANTS root, ann, bob, new1, new2, acme, apex, superRole, orgRole, clientRole,
          mailR, mailA, MailA, mailB, mailC, title, other, day1

MCOrgs == {acme, apex}
MCRoles == {superRole, orgRole, clientRole}
MCRoleCode == [r \in MCRoles |-> CASE r = superRole -> "SUPER_ADMIN"
                                   [] r = orgRole -> "ORG_ADMIN"
                                   [] r = clientRole -> "CLIENT"]
MCEmails == {mailR, mailA, MailA, mailB, mailC}
MCLower == [e \in MCEmails |-> IF e = MailA THEN mailA ELSE e]
MCNames == {title, other}
MCDates == {day1}

HandlerSymmetry == Permutations(Handlers)

LiveRow(email, org) ==
  [status |-> "live", email |-> email, name |-> title, org |-> org,
   validTill |-> day1, active |-> TRUE, approved |-> TRUE]

\* The seeded administrator, and two users earlier requests have made.
MCSeedRows == [u \in UserIds |-> CASE u = root -> LiveRow(mailR, acme)
                                   [] u = ann -> LiveRow(mailA, acme)
                                   [] u = bob -> LiveRow(mailB, acme)
                                   [] OTHER -> NoRow]
MCSeedRoles == [u \in UserIds |-> CASE u = root -> {superRole}
                                    [] u \in {ann, bob} -> {clientRole}
                                    [] OTHER -> {}]

Super == [user |-> root, org |-> acme, roles |-> {"SUPER_ADMIN"}]
AcmeAdmin == [user |-> root, org |-> acme, roles |-> {"ORG_ADMIN"}]
Client == [user |-> root, org |-> acme, roles |-> {"CLIENT"}]

NoArgs == [email |-> Absent, name |-> Absent, org |-> Absent, role |-> Absent,
           validTill |-> Absent, active |-> Absent, approved |-> Absent,
           password |-> "fit"]
Create(actor, email, org, role) ==
  [op |-> "create", actor |-> actor, target |-> Blank, respelled |-> FALSE,
   body |-> [NoArgs EXCEPT !.email = email, !.name = title, !.org = org, !.role = role]]
Update(actor, user, body) ==
  [op |-> "update", actor |-> actor, target |-> user, respelled |-> FALSE, body |-> body]
Delete(actor, user) ==
  [op |-> "delete", actor |-> actor, target |-> user, respelled |-> FALSE, body |-> NoArgs]
Get(actor, user) ==
  [op |-> "get", actor |-> actor, target |-> user, respelled |-> FALSE, body |-> NoArgs]
\* The same request with its id in another spelling.
Respelled(q) == [q EXCEPT !.respelled = TRUE]

\* Who gets an address: creates, changes of address, renames that carry the
\* address as it was read, and deletes that set it free.
EmailRequests ==
  {Create(Super, MailA, acme, clientRole),
   Update(Super, ann, [NoArgs EXCEPT !.email = mailB]),
   Update(Super, ann, [NoArgs EXCEPT !.name = other, !.role = orgRole]),
   Delete(Super, ann)}

\* Role changes of one user that meet each other, reads and a delete.
RoleRequests ==
  {Update(Super, ann, [NoArgs EXCEPT !.role = r]) : r \in MCRoles}
  \cup {Delete(Super, ann), Get(Super, ann)}

\* Admins of one organization while a super admin moves the user between two.
OrgRequests ==
  {Update(Super, ann, [NoArgs EXCEPT !.org = apex]),
   Update(AcmeAdmin, ann, [NoArgs EXCEPT !.name = other, !.org = apex]),
   Update(AcmeAdmin, ann, [NoArgs EXCEPT !.role = orgRole]),
   Update(AcmeAdmin, ann, [NoArgs EXCEPT !.role = superRole]),
   Create(AcmeAdmin, mailB, apex, clientRole),
   Create(AcmeAdmin, mailB, apex, superRole),
   Delete(AcmeAdmin, ann), Get(AcmeAdmin, ann)}

\* A user renamed with the address it had when it was read, while two other
\* handlers pass that address around.
SwapRequests ==
  {Update(Super, ann, [NoArgs EXCEPT !.name = other]),
   Update(Super, ann, [NoArgs EXCEPT !.email = mailC]),
   Update(Super, bob, [NoArgs EXCEPT !.email = mailA]),
   Update(Super, bob, [NoArgs EXCEPT !.email = mailC])}

\* Two role changes of one user, one of them with an address a create wants,
\* and a delete: every kind of wait.
WaitRequests ==
  {Create(Super, mailB, acme, clientRole),
   Update(Super, ann, [NoArgs EXCEPT !.role = orgRole]),
   Update(Super, ann, [NoArgs EXCEPT !.email = mailB, !.role = clientRole]),
   Delete(Super, ann)}

\* One of everything, well formed or with one thing wrong, in a create and in
\* an update.
FullArgs == [NoArgs EXCEPT !.email = mailB, !.name = other, !.org = apex, !.role = orgRole]
Bodies ==
  {NoArgs, FullArgs, [FullArgs EXCEPT !.role = Absent]}
  \cup {[FullArgs EXCEPT !.email = e] : e \in {Blank, Absent, MailA}}
  \cup {[FullArgs EXCEPT !.org = o] : o \in {Blank, Absent, UnknownId, BadId}}
  \cup {[FullArgs EXCEPT !.role = r] : r \in {Blank, UnknownId, BadId, superRole}}
  \cup {[FullArgs EXCEPT !.password = p] : p \in {"short", "long"}}
  \cup {[NoArgs EXCEPT !.name = Blank, !.active = FALSE, !.approved = FALSE]}
AllRequests ==
  {Update(a, u, b) : a \in {Super, AcmeAdmin, Client}, u \in {ann, BadId, Blank}, b \in Bodies}
  \cup {[op |-> "create", actor |-> a, target |-> Blank, respelled |-> FALSE, body |-> b] :
          a \in {Super, AcmeAdmin, Client}, b \in Bodies}
  \cup {Delete(a, u) : a \in {Super, AcmeAdmin, Client}, u \in {root, ann, BadId, Blank}}
  \cup {Respelled(Delete(a, u)) : a \in {Super, AcmeAdmin, Client}, u \in {root, ann}}
  \cup {Get(a, u) : a \in {Super, AcmeAdmin, Client}, u \in {root, ann, BadId, Blank}}
=============================================================================
