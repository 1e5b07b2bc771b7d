------------------------------- MODULE Identity -------------------------------
(***************************************************************************)
(* The data of the user service and its pure decisions: rows of            *)
(* identity.users, the requests of the /api/v1/users endpoints, and the    *)
(* checks internal/user/service.go makes on a request without looking at   *)
(* any row a request can change.  No state.                                *)
(*                                                                         *)
(* Names, e-mail addresses and ids are opaque values.  A text that is      *)
(* empty after strings.TrimSpace is Blank, a nil pointer in a body is      *)
(* Absent.  user_name stands for the three plain text columns user_name,   *)
(* contact_no and address, which every statement treats alike.             *)
(***************************************************************************)
EXTENDS Naturals, FiniteSets

CONSTANTS
  UserIds,      \* values gen_random_uuid() can return for users.user_id
  Orgs,         \* organizations with is_active and not is_deleted
  Roles,        \* role ids with is_active and not is_deleted
  RoleCode,     \* the role_code of each role
  Emails,       \* e-mail addresses as clients spell them
  Lower,        \* strings.ToLower and SQL LOWER on Emails
  Names,        \* texts other than Blank
  Dates,        \* values of valid_till other than NULL
  Blank,        \* the empty string
  Absent,       \* a JSON member that was left out (nil pointer)
  UnknownId,    \* a well-formed uuid of no live role or organization
  BadId,        \* a text uuid.Parse rejects
  NoDate        \* valid_till IS NULL

RoleCodes == {"SUPER_ADMIN", "ORG_ADMIN", "CLIENT"}

ASSUME RoleAssumption == RoleCode \in [Roles -> RoleCodes]

\* Lower-casing is idempotent and never empties a text.
ASSUME EmailAssumption ==
  /\ Lower \in [Emails -> Emails]
  /\ \A e \in Emails : Lower[Lower[e]] = Lower[e]

\* The special values are none of the ordinary ones.
ASSUME SpecialValues ==
  /\ {Blank, Absent} \cap (Emails \cup Names) = {}
  /\ {Blank, Absent, UnknownId, BadId} \cap (Orgs \cup Roles) = {}
  /\ {Blank, BadId} \cap UserIds = {}
  /\ NoDate \notin Dates /\ Absent \notin Dates /\ Absent \notin BOOLEAN
  /\ Blank # Absent

-----------------------------------------------------------------------------
(* Rows, actors and requests.                                              *)

UserRow == [status : {"live", "deleted"}, email : Emails, name : Names,
            org : Orgs, validTill : Dates \cup {NoDate},
            active : BOOLEAN, approved : BOOLEAN]
NoRow == [status |-> "none"]
Row == UserRow \cup {NoRow}

\* What a JWT says of its bearer; it may be older than the rows.
Actor == [user : UserIds, org : Orgs \cup {UnknownId}, roles : SUBSET RoleCodes]

Id(ids) == ids \cup {UnknownId, BadId, Blank, Absent}

\* "short" fails the length check, "long" exceeds the 72 bytes of bcrypt.
Body == [email : Emails \cup {Blank, Absent}, name : Names \cup {Blank, Absent},
         org : Id(Orgs), role : Id(Roles), validTill : Dates \cup {Absent},
         active : BOOLEAN \cup {Absent}, approved : BOOLEAN \cup {Absent},
         password : {"short", "fit", "long"}]

Operations == {"create", "update", "delete", "get"}

\* The id in the path; a create has none until the insert draws one.  uuid.Parse
\* takes an id in more spellings than the one the database writes (upper case,
\* braces, no hyphens): "respelled" says that this is one of the others.
Request == [op : Operations, actor : Actor, body : Body,
            target : UserIds \cup {Blank, BadId}, respelled : BOOLEAN]

-----------------------------------------------------------------------------
(* Roles of the actor.                                                     *)

IsSuperAdmin(actor) == "SUPER_ADMIN" \in actor.roles
IsOrgAdmin(actor) == "ORG_ADMIN" \in actor.roles
IsUserManager(actor) == IsSuperAdmin(actor) \/ IsOrgAdmin(actor)

\* Mistake: every manager reaches every user.
AccessToAll(actor, row) == IsUserManager(actor)

CanAccess(actor, row) == IsSuperAdmin(actor) \/ row.org = actor.org

\* GetRoleByID and ensureActorCanAssignRole; "none" when the role may be given.
RoleError(actor, role) ==
  IF role = UnknownId THEN "invalidRole"
  ELSE IF role \notin Roles THEN "failed"
  ELSE IF RoleCode[role] = "SUPER_ADMIN" /\ ~IsSuperAdmin(actor) THEN "cannotAssignRole"
  ELSE "none"

\* OrganizationExists: a text that is no uuid is an error of its own.
OrgError(org) ==
  IF org \in Orgs THEN "none"
  ELSE IF org = UnknownId THEN "invalidOrganization" ELSE "failed"

-----------------------------------------------------------------------------
(* Create.                                                                 *)

Text(v) == IF v = Absent THEN Blank ELSE v
Normalize(email) == IF email \in Emails THEN Lower[email] ELSE Blank

CreateOrg(actor, body) == IF IsSuperAdmin(actor) THEN Text(body.org) ELSE actor.org

InvalidCreate(actor, body) ==
  \/ Blank \in {Text(body.name), Text(body.email), Text(body.role),
                CreateOrg(actor, body)}
  \/ body.password = "short"

CreateError(actor, body) ==
  LET orgError == OrgError(CreateOrg(actor, body))
  IN  IF InvalidCreate(actor, body) THEN "invalidInput"
      ELSE IF orgError # "none" THEN orgError
      ELSE RoleError(actor, body.role)

NewRow(actor, body) ==
  [status |-> "live", email |-> Normalize(body.email), name |-> body.name,
   org |-> CreateOrg(actor, body),
   validTill |-> IF body.validTill = Absent THEN NoDate ELSE body.validTill,
   active |-> IF body.active = Absent THEN TRUE ELSE body.active,
   approved |-> IF body.approved = Absent THEN FALSE ELSE body.approved]

-----------------------------------------------------------------------------
(* Update.                                                                 *)

Given(value, old) == IF value = Absent THEN old ELSE value

\* mergeUpdate and the organization rule of Update, over the row as read.
Merge(actor, body, existing) ==
  [email |-> IF body.email = Absent THEN existing.email ELSE Normalize(body.email),
   name |-> Given(body.name, existing.name),
   org |-> IF IsSuperAdmin(actor) THEN Given(body.org, existing.org) ELSE existing.org,
   validTill |-> Given(body.validTill, existing.validTill),
   active |-> Given(body.active, existing.active),
   approved |-> Given(body.approved, existing.approved)]

\* Only a super admin's organization is looked up, and only when it is not blank.
UpdateOrgError(actor, body) ==
  IF IsSuperAdmin(actor) /\ Text(body.org) # Blank THEN OrgError(body.org) ELSE "none"

\* Mistake: the column is overwritten also with NULL.
ColumnAsGiven(value, column) == value

\* nullableString and nullableUUID turn Blank into NULL, and COALESCE keeps the
\* column of the row as it is when the statement runs.
Coalesce(value, column) == IF value = Blank THEN column ELSE value

Overwrite(current, merged) ==
  [current EXCEPT !.email = Coalesce(merged.email, @),
                  !.name = Coalesce(merged.name, @),
                  !.org = Coalesce(merged.org, @),
                  !.validTill = merged.validTill,
                  !.active = merged.active,
                  !.approved = merged.approved]

SoftDelete(row) == [row EXCEPT !.status = "deleted", !.active = FALSE]

-----------------------------------------------------------------------------
(* The checks every operation makes before it reads a user, and the status *)
(* writeUserError gives to an error.                                       *)

\* Delete compares the text of the path with the id in the token: an actor's own
\* id in another spelling passes.
OwnIdInPath(actor, target, respelled) == target = actor.user /\ ~respelled

RequestError(op, actor, target, respelled, body) ==
  IF ~IsUserManager(actor) THEN "forbidden"
  ELSE IF op = "create" THEN CreateError(actor, body)
  ELSE IF target = Blank THEN "invalidInput"
  ELSE IF op = "delete" /\ OwnIdInPath(actor, target, respelled) THEN "forbidden"
  ELSE "none"

Refusals == {"forbidden", "invalidInput", "invalidRole", "invalidOrganization",
             "cannotAssignRole", "cannotAccessUser", "userNotFound", "duplicateEmail"}
Failures == {"uniqueViolation", "deadlockDetected", "failed"}

Status(outcome) ==
  CASE outcome = "ok" -> 200
    [] outcome \in {"invalidInput", "invalidRole", "invalidOrganization"} -> 400
    [] outcome \in {"forbidden", "cannotAssignRole", "cannotAccessUser"} -> 403
    [] outcome = "userNotFound" -> 404
    [] outcome = "duplicateEmail" -> 409
    [] OTHER -> 500
=============================================================================
