\* Three worlds, every list of the server, pages of one, three and six rows.
SPECIFICATION Spec
CONSTANTS
  None = None
  Mask = Mask
  Cap = 90
  MaxMatches = 5
  MaxListed = 2
  MaxRoutes = 5
  MaxCells = 12
  Symbols = 2
  MaxImage = 9
  SampleFloor = 100
  RateStep = 10
  StandardRules = {"NORMAL", "SINGLE", "DOUBLE", "LINKAGE"}
  InitialModules = {20}
  AccountServer = "en"
  MaxTokens = 2
  Bm25 <- MCBm25
  Worlds <- MCWorlds
  Requests <- MCRequests
  MaxFailures = 1
INVARIANTS WalkWhole HonestPage Disclosed Decodes
PROPERTY WalkEnds
CHECK_DEADLOCK FALSE
