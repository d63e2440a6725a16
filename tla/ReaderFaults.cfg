SPECIFICATION Spec
CONSTANTS
  Modes = {"latest", "safe"}
  FirstBlock = 1
  DelayBlocks = 1
  MinBlocks = 1
  DefaultBlocks = 1
  TargetMessages = 1
  MaxBlocks = 4
  Cap = 1
  Bodies = {"x"}
  Locations = {0}
  Failing <- AnyCall
  MaxHeight = 3
  MaxDelayed = 2
  MaxBatches = 2
  MaxLog = 6
  MaxErrors = 1
  MaxReorgs = 1
  MaxRestarts = 1
INVARIANTS
  RecordsRestOnDelayed
  OnlySafeRecorded
PROPERTIES
  SafeReaderUndisturbed
CHECK_DEADLOCK FALSE
