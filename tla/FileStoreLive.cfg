SPECIFICATION SceneSpec
CONSTANTS
  u1 = u1  u2 = u2  k1 = k1  b1 = b1
  Uploads = {u1, u2}
  Requests = {r1}
  Nodes = {n1}
  Keys = {k1}
  KeyOf <- MCSameKey
  Buckets = {b1}
  Bucketed = {u1, u2}
  BucketOf <- MCBucketOf
  OneTime = {}
  Protected = {}
  SoftDeleteSet = TRUE
  MaxFaults = 1
INVARIANTS
  SyncPurgesDeadRows
  ContentSurvives
PROPERTIES
  ReclaimedAsConfigured
  DuplicatesCollapse
