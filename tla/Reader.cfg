SPECIFICATION ScheduledSpec
CONSTANTS
  Modes = {"latest"}
  FirstBlock = 1
  DelayBlocks = 0
  MinBlocks = 1
  DefaultBlocks = 1
  TargetMessages = 1
  MaxBlocks = 4
  Cap = 1
  Bodies = {"x"}
  Locations = {1, 2}
  Failing = {"bcount"}
  MaxHeight = 3
  MaxDelayed = 2
  MaxBatches = 2
  MaxLog = 8
  MaxErrors = 1
  MaxReorgs = 0
  MaxRestarts = 0
INVARIANTS
  NothingSkipped
  CountsUpToBlock
PROPERTIES
  CatchesUp
