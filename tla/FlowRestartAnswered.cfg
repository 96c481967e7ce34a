SPECIFICATION ApartSpec
CONSTANTS
  a = a
  b = b
  c = c
  NoThread = NoThread
  Root = a
  Jobs <- ShortcutJobs
  Dependees <- ShortcutDependees
  MayCancel = TRUE
  ReportFails = FALSE
  SaveFails = FALSE
  Disablable <- ShortcutJobs
  MaxRestarts = 2
  WhileRunning = FALSE
  Requests <- BothPages
INVARIANTS RerunsTheRest VerdictOfRound
PROPERTIES RunsAfterDependees RoundAnswered
