SPECIFICATION FairSpec
CONSTANTS
  a = a
  b = b
  c = c
  cost = cost
  reader = reader
  rpc1 = rpc1
  rpc2 = rpc2
  NoMessage = NoMessage
  NoCost = NoCost
  Messages <- FourMessages
  Confirmers = {reader}
  Feeders = {}
  Reorgers = {}
  ReorgsInLog = TRUE
  GenesisTime = 1
  MaxMessages = 3
  MaxBatch = 2
  MaxCrashes = 1
  MaxFailures = 0
  MaxReorgs = 0
INVARIANTS
  LogContiguous
  ResultsFollowLog
  ResultsArePrefix
  CanonicalTimestamps
PROPERTIES
  CommittedImmutable
  EventuallyExecuted
  ImplementsMessageLog
