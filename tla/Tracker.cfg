SPECIFICATION FairSpec
CONSTANTS
  Absent = Absent
  Bodies = {"x", "y"}
  Contents <- PostedContents
  MaxDelayed = 2
  MaxBatches = 3
  MaxLog = 8
  MaxReorgs = 0
  MaxRereads = 0
  MaxCrashes = 0
INVARIANTS
  LogIsCanonical
  LogMatchesMetadata
PROPERTIES
  EventuallyRecorded
CHECK_DEADLOCK FALSE
