SPECIFICATION OneSpec
CONSTANTS
  Moving = {"access", "file", "user", "admin"}
  Tabs = {"t", "u"}
  Buckets = {"A", "B"}
  Nothing = Nothing
  Lost = Lost
  SendsCookies = FALSE
  MaxActs = 4
  MaxMishaps = 1
  MaxForeign = 0
  FileTabs = {"t", "u"}
  Passwords = {"w", "x"}
  NoPassword = NoPassword
  Redirects = TRUE
  MaxVisits = 2
  MaxSubmits = 1
  MaxChanges = 1
  MaxFaults = 1
  Processes = {"p", "q"}
  Clients = {"t", "u"}
  Emails = {"new"}
  Default = Default
  Chosen = {"w", "x"}
  Ids = {1, 2}
  NoUser = NoUser
  MaxRequests = 3
  MaxCrashes = 1
  IPs = {"ip"}
  NoIp = NoIp
  AllFiles = {1, 2}
  IpOf <- Both
  Handlers = {h1, h2}
  MaxBegun = 2
  MaxOthers = 1
  MaxErrors = 1
INVARIANTS
  SessionsInv
  ChecksUseUpNothing
  LastChangeWorks
PROPERTY
  AdminExplained
CHECK_DEADLOCK FALSE
