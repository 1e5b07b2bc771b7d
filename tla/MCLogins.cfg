\* Logins while other requests change the accounts; one failure or crash.
SPECIFICATION Spec
CONSTANTS
  ann = ann
  bob = bob
  acme = acme
  apex = apex
  orgRole = orgRole
  clientRole = clientRole
  mailA = mailA
  MailA = MailA
  mailB = mailB
  title = title
  pass = pass
  other = other
  Blank = Blank
  Absent = Absent
  UnknownId = UnknownId
  BadId = BadId
  NoDate = NoDate
  Passwords = {pass, other}
  UserIds = {ann, bob}
  Clients = {c1}
  Dates = {1}
  Logins <- AnnLogins
  Second = 1
  TTL = 1
  MaxTime = 2
  MaxChanges = 2
  MaxFaults = 1
  Orgs <- MCOrgs
  Roles <- MCRoles
  RoleCode <- MCRoleCode
  Emails <- MCEmails
  Lower <- MCLower
  Names <- MCNames
  Secret <- MCSecret
  Profiles <- MCProfiles
  SeedRows <- MCSeedRows
  SeedRoles <- MCSeedRoles
INVARIANTS
  AuthInv
  TokenIsTrue
  LastLoginIsALogin
