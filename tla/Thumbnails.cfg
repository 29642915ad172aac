SPECIFICATION OneSpec
CONSTANTS
  Moving = {"maker", "copies"}
  Slots = {s1, s2}
  Enforced = FALSE
  Requests = {r1}
  Tokens = {t1}
  Urls = {u1}
  gif = gif
  alike = alike
  large = large
  Contents <- MCContents
  Media <- MCMedia
  Size <- MCSize
  Start <- MCStart
  BodyLimit = 2
  MaxCached = 1
  MaxCrashes = 1
  MaxFaults = 1
INVARIANTS
  MovesAsAsked
  OwnThumbnail
  CopiesGo
  NoneMissed
SYMMETRY MCAlike
CHECK_DEADLOCK FALSE
