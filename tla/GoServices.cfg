\* Two requests for thumbnails of overlapping files, and two downloads of one client.
SPECIFICATION FairOneSpec
CONSTANTS
  Moving = {"pool", "zip"}
  Downloads = {d1, d2}
  Keys = {k}
  Parts = 1
  SoftDeleteSet = TRUE
  MaxZipFaults = 1
  r1 = r1
  r2 = r2
  f1 = f1
  f2 = f2
  f3 = f3
  f4 = f4
  Requests = {r1, r2}
  Adding = {r2}
  Files = {f1, f2, f3, f4}
  Wanted <- MCAdded
  Unsupported = {f4}
  Workers = {w1, w2}
  BatchSize = 2
  ForeignKeys = TRUE
  NoFile = NoFile
  Removable = {f2, f3}
  MaxFaults = 2
INVARIANTS
  PoolInv
  KeysOK
  NothingLeftBehind
PROPERTIES
  ImplementsJob
  EverythingEnds
CHECK_DEADLOCK FALSE
