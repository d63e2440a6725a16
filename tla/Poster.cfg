SPECIFICATION FairSpec
CONSTANTS
  Sizes <- SmallSizes
  Budget = 2
  HasKey = TRUE
  MaxLog = 4
  MaxDelayed = 1
  MaxMoves = 2
  MaxReorgs = 1
  MaxRestarts = 1
INVARIANTS
  SentInOrder
  ForkNeverReturns
  WithinBudget
PROPERTIES
  NewCountIsPosted
CHECK_DEADLOCK FALSE
