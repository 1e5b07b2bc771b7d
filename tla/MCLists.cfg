\* Listings while users come, go, move and change their roles.
SPECIFICATION Spec
CONSTANTS
  ann = ann
  bob = bob
  cyd = cyd
  acme = acme
  apex = apex
  orgRole = orgRole
  clientRole = clientRole
  mailA = mailA
  MailA = MailA
  mailB = mailB
  title = title
  Blank = Blank
  Absent = Absent
  UnknownId = UnknownId
  BadId = BadId
  NoDate = NoDate
  UserIds = {ann, bob, cyd}
  Dates = {}
  Names = {title}
  MaxChanges = 3
  Orgs <- MCOrgs
  Roles <- MCRoles
  RoleCode <- MCRoleCode
  Emails <- MCEmails
  Lower <- MCLower
  Actors <- MCActors
  Profiles <- MCProfiles
  SeedRows <- MCSeedRows
  SeedRoles <- MCSeedRoles
INVARIANTS
  ListInv
  ListIsOfOneMoment
  RolesWereHeld
  NoAddressTwice
