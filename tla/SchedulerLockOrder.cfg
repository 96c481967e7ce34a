SPECIFICATION FairPartSpec
CONSTANTS
  x = x
  y = y
  daily = daily
  once = once
  again = again
  hourly = hourly
  None = None
  Ids <- MCIds
  Recurring <- MCRecurring
  NoPeriod = NoPeriod
  Periods <- SomePeriods
  Down <- Downtimes
  MaxIncrements = 5
  Half = 3
  Horizon = 15
  Criteria <- TwoCriteria
  Parts = {"schedule"}
  Entries <- FewEntries
  Id <- FewId
  MaxCalls = 2
  MaxRestarts = 0
  ExecuteFails = FALSE
  SaveFails = FALSE
  Kinds <- OneEach
  Day = 4
  StartHour = 3
  StopHour = 1
  Period <- Hourly
  Prompt = TRUE
  MaxEvents = 3
  MaxCrashes = 0
  MaxReplaces = 0
PROPERTIES DueIsRun
CHECK_DEADLOCK FALSE
