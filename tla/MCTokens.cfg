\* Tokens used until they expire.
SPECIFICATION Spec
CONSTANTS
  ann = ann
  bob = bob
  acme = acme
  apex = apex
  orgRole = orgRole
  clientRole = clientRole
  mailA = mailA
  MailA = MailA
  mailB = mailB
  title = title
  pass = pass
  other = other
  Blank = Blank
  Absent = Absent
  UnknownId = UnknownId
  BadId = BadId
  NoDate = NoDate
  Passwords = {pass, other}
  UserIds = {ann}
  Clients = {c1}
  Dates = {1}
  Logins <- OneLogin
  Second = 2
  TTL = 2
  MaxTime = 16
  MaxChanges = 0
  MaxFaults = 1
  Orgs <- MCOrgs
  Roles <- MCRoles
  RoleCode <- MCRoleCode
  Emails <- MCEmails
  Lower <- MCLower
  Names <- MCNames
  Secret <- MCSecret
  Profiles <- MCProfiles
  SeedRows <- MCSeedRows
  SeedRoles <- MCSeedRoles
PROPERTIES
  TokensLastAsPromised
