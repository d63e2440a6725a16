SPECIFICATION Spec
CONSTANTS
  Absent = Absent
  Bodies = {"x", "y"}
  Contents <- OneL2
  MaxDelayed = 2
  MaxBatches = 2
  MaxLog = 4
  MaxReorgs = 1
  MaxRereads = 1
  MaxCrashes = 1
INVARIANTS
  DelayedChained
  BatchesRestOnDelayed
  BatchesChained
  SequencedExact
  LogCoversMetadata
  CacheCoherent
PROPERTIES
  CallsAreAtomic
CHECK_DEADLOCK FALSE
