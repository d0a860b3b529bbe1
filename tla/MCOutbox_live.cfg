CONSTANTS
  j1 = j1
  u1 = u1
  None = None
  Schedules <- MCNone
  Jobs <- MCJobs
  Setups <- MCSetups
  Size <- MCSize
  Doubtful <- MCDoubtful
  MaxTime = 2
  MaxResults = 1
  JournalMax = 4
  MaxSlots = 2
  RejectLimit = 2
  MaxCrashes = 1
  MaxFaults = 0
  MaxOutages = 1
  MayBeRevoked = TRUE
SPECIFICATION FairSpec
PROPERTIES
  NothingLost
  NothingAfterRevocation
  EveryOpenRunReported
  EveryStartedRunSettled
CHECK_DEADLOCK FALSE
