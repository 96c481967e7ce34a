SPECIFICATION PartSpec
CONSTANTS
  x = x
  y = y
  daily = daily
  once = once
  again = again
  hourly = hourly
  None = None
  Ids <- MCIds
  Recurring <- MCRecurring
  NoPeriod = NoPeriod
  Periods <- SomePeriods
  Down <- Downtimes
  MaxIncrements = 5
  Half = 3
  Horizon = 15
  Criteria <- TwoCriteria
  Parts = {"schedule", "trigger", "times"}
  Entries <- MCEntries
  Id <- MCId
  MaxCalls = 4
  MaxRestarts = 2
  ExecuteFails = FALSE
  SaveFails = FALSE
  Kinds <- AnyKind
  Day = 3
  StartHour = 1
  StopHour = 2
  Period <- EveryHour
  Prompt = FALSE
  MaxEvents = 3
  MaxCrashes = 1
  MaxReplaces = 1
CHECK_DEADLOCK FALSE
INVARIANTS OneEntryPerId RecurringStays FileCurrent OneTimeOnce RunIsWarranted
PROPERTIES CrashKeepsSaved NextIsFirst
