\* Two creates with one address at the same time.
SPECIFICATION Spec
CONSTANTS
  root = root
  ann = ann
  bob = bob
  new1 = new1
  new2 = new2
  acme = acme
  apex = apex
  superRole = superRole
  orgRole = orgRole
  clientRole = clientRole
  mailR = mailR
  mailA = mailA
  MailA = MailA
  mailB = mailB
  mailC = mailC
  title = title
  other = other
  day1 = day1
  Blank = Blank
  Absent = Absent
  UnknownId = UnknownId
  BadId = BadId
  NoDate = NoDate
  UserIds = {root, ann, new1, new2}
  Handlers = {h1, h2}
  Requests <- EmailRequests
  MaxFaults = 0
  Orgs <- MCOrgs
  Roles <- MCRoles
  RoleCode <- MCRoleCode
  Emails <- MCEmails
  Lower <- MCLower
  Names <- MCNames
  Dates <- MCDates
  SeedRows <- MCSeedRows
  SeedRoles <- MCSeedRoles
INVARIANTS
  DuplicateEmailIsConflict
