SPECIFICATION FairSpec
CONSTANTS
  Instances = {i1, i2, i3}
  Conferences = {c1, c2}
  Failures <- FailureKinds
  MaxRuns = 3
  MaxFaults = 1
CHECK_DEADLOCK FALSE
INVARIANTS
  LockFoundIsAnothers
  NoLockIsLeft
PROPERTIES
  TheDayIsLoaded
