SPECIFICATION Spec
CONSTANTS
  Files = {1, 2}
  Albums = {a1}
  None = None
  Absent = Absent
  Limit = 1
  MaxConcurrent = 1
  Rejected = {}
  Calls = {c1, c2}
  MaxFaults = 1
  Stored0 = {1}
  MaxBegun = 2
SYMMETRY MCCalls
INVARIANTS
  StatusFollowsUploads
  ShowsItsChanges
  PageInv
PROPERTIES
  NeverSentTwice
CHECK_DEADLOCK FALSE
