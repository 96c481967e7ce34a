SPECIFICATION PartSpec
CONSTANTS
  f1 = f1
  f2 = f2
  r1 = r1
  r2 = r2
  r3 = r3
  topic1 = topic1
  None = None
  Requests <- MCRequests
  Names <- MCNames
  Name <- MCName
  Kind <- MCKind
  Topic <- MCTopic
  MaxReloads = 1
  MaxRestarts = 1
  ReloadRaces = FALSE
  SaveFails = TRUE
  StartFails = TRUE
  Ids = {e1, e2}
  Pages = {p1, p2}
  CacheSizes = {1, 2}
  MaxCrashes = 1
  RestartSizes = {2}
  PagesRace = FALSE
  SavesRace = FALSE
SYMMETRY Interchangeable
CHECK_DEADLOCK FALSE
INVARIANTS EntryIsLive  
PROPERTIES NoOverwrite
