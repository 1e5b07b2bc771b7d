--------------------------- MODULE MCAuthentication ---------------------------
(***************************************************************************)
(* Small instances of Authentication for TLC.                              *)
(***************************************************************************)
EXTENDS AuthenticationInv

CONSTANTS ann, bob, acme, apex, orgRole, clientRole, mailA, MailA, mailB, title,
          pass, other

MCOrgs == {acme, apex}
MCRoles == {orgRole, clientRole}
MCRoleCode == [r \in MCRoles |-> IF r = orgRole THEN "ORG_ADMIN" ELSE "CLIENT"]
MCEmails == {mailA, MailA, mailB}
MCLower == [e \in MCEmails |-> IF e = MailA THEN mailA ELSE e]
MCNames == {title}
MCSecret == [u \in UserIds |-> IF u = ann THEN pass ELSE other]

\* One user, whose account ends after the first tick, and a free id.
AnnRow == [status |-> "live", email |-> mailA, name |-> title, org |-> acme,
           validTill |-> 1, active |-> TRUE, approved |-> TRUE]
MCSeedRows == [u \in UserIds |-> IF u = ann THEN AnnRow ELSE NoRow]
MCSeedRoles == [u \in UserIds |-> IF u = ann THEN {clientRole} ELSE {}]

\* The account prolonged and moved, suspended, not approved, and renamed.
MCProfiles == {[AnnRow EXCEPT !.validTill = NoDate, !.org = apex],
               [AnnRow EXCEPT !.active = FALSE], [AnnRow EXCEPT !.approved = FALSE],
               [AnnRow EXCEPT !.email = mailB]}

LoginWith(email, password) == [op |-> "login", email |-> email, password |-> password]

\* The right password in another spelling of the address, the wrong one, and a
\* body with nothing in it.
AnnLogins == {LoginWith(MailA, pass), LoginWith(mailA, other), LoginWith(Blank, Blank)}
OneLogin == {LoginWith(mailA, pass)}
=============================================================================
