SPECIFICATION FairSpec
CONSTANTS
  None = None
  MaxVersions = 2
  MaxFaults = 1
  MaxDrifts = 1
INVARIANT NothingForgotten
PROPERTY NoRollback
PROPERTY Converges
PROPERTY Repaired
CHECK_DEADLOCK FALSE
