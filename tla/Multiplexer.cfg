SPECIFICATION Spec
CONSTANTS
  Windows <- AllWindows
  MaxKnown = 2
  TimeLimit = 5
INVARIANTS
  PopsExpansion
  DelayedStepByStep
  TimeIsSumOfAdvances
  CountIsRecorded
CHECK_DEADLOCK FALSE
