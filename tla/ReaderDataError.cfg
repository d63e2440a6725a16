SPECIFICATION FairSpec
CONSTANTS
  Modes = {"latest"}
  FirstBlock = 1
  DelayBlocks = 0
  MinBlocks = 1
  DefaultBlocks = 1
  TargetMessages = 1
  MaxBlocks = 4
  Cap = 1
  Bodies = {"x"}
  Locations = {1}
  Failing = {"data"}
  MaxHeight = 2
  MaxDelayed = 1
  MaxBatches = 1
  MaxLog = 8
  MaxErrors = 1
  MaxReorgs = 0
  MaxRestarts = 0
PROPERTIES
  CatchesUp
CHECK_DEADLOCK FALSE
