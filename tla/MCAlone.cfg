\* One handler, every kind of request.
SPECIFICATION Spec
CONSTANTS
  root = root
  ann = ann
  bob = bob
  new1 = new1
  new2 = new2
  acme = acme
  apex = apex
  superRole = superRole
  orgRole = orgRole
  clientRole = clientRole
  mailR = mailR
  mailA = mailA
  MailA = MailA
  mailB = mailB
  mailC = mailC
  title = title
  other = other
  day1 = day1
  Blank = Blank
  Absent = Absent
  UnknownId = UnknownId
  BadId = BadId
  NoDate = NoDate
  UserIds = {root, ann, new1}
  Handlers = {h1}
  Requests <- AllRequests
  MaxFaults = 1
  Orgs <- MCOrgs
  Roles <- MCRoles
  RoleCode <- MCRoleCode
  Emails <- MCEmails
  Lower <- MCLower
  Names <- MCNames
  Dates <- MCDates
  SeedRows <- MCSeedRows
  SeedRoles <- MCSeedRoles
INVARIANTS
  TypeOK
  AtMostOneActiveRole
  OrgAdminsReachTheirOrgOnly
  DuplicateEmailIsConflict
PROPERTIES
  ImplementsExclusiveDirectory
