SPECIFICATION PartSpec
CONSTANTS
  a = a
  b = b
  c = c
  d = d
  Folders <- TwoFolders
  Jobs = {a, b, c, d}
  Deployers = {t1, t2}
  Runners = {r1}
  Requests <- WithEdits
  InitFiles <- SomeFiles
  MoveFails = TRUE
  MaxDeploys = 3
  PageJobs <- MCPageJobs
  Dependees <- MCDependees
  Root = a
  MaxRecursions = 2
  MaxPosts = 2
SYMMETRY Interchangeable
INVARIANTS ServedIsSound AloneIsServed
PROPERTIES EditsTheSet SeenIsSent
