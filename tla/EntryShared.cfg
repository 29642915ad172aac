\* Two requests at a time, each in either of two processes; and four builds of the program, and
\* the one before migrations, with four reverts.
SPECIFICATION OneSpec
CONSTANTS
  Moving = {"entry", "data"}
  Requests = {r1, r2}
  Procs = {p1, p2}
  Passwords = {w1}
  NULL = NULL
  Releases = {8, 12, 22, 26}
  MaxReverts = 4
INVARIANTS
  ContentFollowsRow
  StaleSavesExplained
  SchemaAsReleased
  RowsKeepTheirMeaning
CONSTRAINT InDoubt
SYMMETRY MCAlike
