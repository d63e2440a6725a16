SPECIFICATION FairSpec
CONSTANTS
  MaxBatches = 6
  MaxCount = 8
  Histories <- SmallHistories
  Positions <- SmallPositions
INVARIANTS
  FindsContaining
PROPERTIES
  SearchEnds
CHECK_DEADLOCK FALSE
