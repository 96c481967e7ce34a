SPECIFICATION ApartSpec
CONSTANTS
  a = a
  b = b
  c = c
  d = d
  NoThread = NoThread
  Root = a
  Jobs <- MCJobs
  Dependees <- MCDependees
  MayCancel = TRUE
  ReportFails = FALSE
  SaveFails = FALSE
  MaySkip = FALSE
  Whole = {TRUE, FALSE}
INVARIANTS FileIsAState 
