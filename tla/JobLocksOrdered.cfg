SPECIFICATION FairSpec
CONSTANTS
  j1 = j1
  j2 = j2
  j3 = j3
  NoJob = NoJob
  NoLock = NoLock
  Jobs <- OrderedJobs
  Resources <- MCResources
  ReadLocks <- OrderedReads
  WriteLocks <- OrderedWrites
  Permits <- OrderedPermits
  TotalPermits = 2
  Known <- MCKnown
INVARIANTS ExclusiveWriters PermitsConserved NoDeadlock
PROPERTIES GetsThrough
