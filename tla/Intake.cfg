\* The second refused name blocks the IP.
SPECIFICATION Spec
CONSTANTS
  Uploads = {u1, u2}
  Kinds <- MCKinds
  Threshold = 1
  BatchSize = 1
  MaxBlocks = 1
  MaxFaults = 1
INVARIANTS
  AcceptedIsWhole
  RefusalsAreWhole
  BlockedStaysOut
  NoneForgotten
SYMMETRY MCAlike
\* Everything ends: all uploads are answered.
CHECK_DEADLOCK FALSE
