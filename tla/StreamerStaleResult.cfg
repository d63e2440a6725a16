SPECIFICATION Spec
CONSTANTS
  a = a
  b = b
  c = c
  cost = cost
  reader = reader
  rpc1 = rpc1
  rpc2 = rpc2
  NoMessage = NoMessage
  NoCost = NoCost
  Messages <- ThreeMessages
  Confirmers = {}
  Feeders = {rpc1}
  Reorgers = {rpc1}
  ReorgsInLog = FALSE
  GenesisTime = 1
  MaxMessages = 3
  MaxBatch = 1
  MaxCrashes = 0
  MaxFailures = 0
  MaxReorgs = 1
INVARIANTS
  ResultsFollowLogAtRest
