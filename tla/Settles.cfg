SPECIFICATION FairOneSpec
CONSTANTS
  Moving = {"access", "file", "preview", "login"}
  Tabs = {"t"}
  Buckets = {"A", "B"}
  Nothing = Nothing
  Lost = Lost
  SendsCookies = TRUE
  MaxActs = 4
  MaxMishaps = 1
  MaxForeign = 1
  Previewed = {"picture", "text", "file"}
  Remote = {"picture", "text"}
  Thumbed = {"picture", "file"}
  MaxStale = 2
  MaxRenders = 1
  MaxChanges = 1
  MaxBroken = 1
  Enabled = TRUE
  Locks = TRUE
  Early = TRUE
  Submits = {1, 2}
  Tokens = {"a", "b", "c"}
  NoToken = NoToken
  MaxSubmits = 2
  MaxTyped = 1
  MaxFailed = 1
INVARIANTS
  NothingUncalledFor
PROPERTIES
  PagesSettle
CHECK_DEADLOCK FALSE
