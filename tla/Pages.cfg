SPECIFICATION OneSpec
CONSTANTS
  Moving = {"browser", "pages", "albums", "pins"}
  Files <- TwoFiles
  Mode = "bucket"
  Sortings <- MCSortings
  Rank <- MCRank
  Searches <- MCSearches
  NoSearch = ""
  Blanks <- MCBlanks
  Matches <- MCMatches
  Tabs = {t1, t2}
  NoTab = NoTab
  Albums = {1, 2}
  Names = {1, 2}
  NoAlbum = NoAlbum
  Removed = Removed
  MaxLinks = 1
  MaxWorks = 2
  MaxRefusals = 0
  Lists = {"all", "album"}
  ItemsPerPage = 1
  Factors = {1, 5}
  MaxFiles = 6
INVARIANTS
  ShownIsSo
PROPERTIES
  DeletesWhatWasAsked
  ReordersByLayout
  ComesBack
SYMMETRY MCAlike
CHECK_DEADLOCK FALSE
