\* The file of the largest size, and its expiry.
SPECIFICATION Spec
CONSTANTS
  Mb = 4
  LimitMb = 2
  Sizes = {1, 4, 8}
  Asked = {1, 100}
  LastDay = 40
INVARIANT LargestForThirtyDays
CHECK_DEADLOCK FALSE
