SPECIFICATION RestartSpec
CONSTANTS
  a = a
  b = b
  c = c
  NoThread = NoThread
  Root = a
  Jobs <- ChainJobs
  Dependees <- ChainDependees
  MayCancel = TRUE
  ReportFails = FALSE
  SaveFails = FALSE
  Disablable = {a}
  MaxRestarts = 1
  WhileRunning = TRUE
  Requests <- BothPages
INVARIANTS NoWaitCycle
