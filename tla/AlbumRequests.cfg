\* Two requests at a time, two files of which one fits into the album of a normal bucket.
SPECIFICATION Spec
CONSTANTS
  Files = {1, 2}
  Limit = 1
  Requests = {r1, r2}
  MaxSent = 6
  MaxOrder = 4
  MaxShares = 1
INVARIANTS
  LimitKept
  RowsHaveFiles
  UrlsAsTold
PROPERTY
  ImplementsList
SYMMETRY MCAlike
\* When the album and its files are deleted nothing is left to do.
CHECK_DEADLOCK FALSE
