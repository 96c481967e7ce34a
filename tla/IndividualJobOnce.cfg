SPECIFICATION FairPartSpec
CONSTANTS
  k1 = k1
  k2 = k2
  k3 = k3
  c1 = c1
  c2 = c2
  p0 = p0
  p1 = p1
  Null = Null
  EmptyProps = p0
  Calls <- MCCalls
  Cancels <- MCCancels
  ParentProps <- MCProps
  Classes = {"LongArgJob", "ProcessJob"}
  Commands = 2
  MayCancel = TRUE
  Size = 3
  MaxLines = 7
  ResetEarly = FALSE
  Parts = {"leaf", "process", "lines"}
  MaxResets = 0
  ReportFails = FALSE
  MaxRetries = 2
CHECK_DEADLOCK FALSE
INVARIANTS SameVerdict NoneLeftBehind RunIsHonest HoldsTheLast
PROPERTIES EveryCallAnswered CancelEnds
