SPECIFICATION Spec
CONSTANTS
  Instances = {i1, i2}
  Conferences = {c1}
  Failures = {}
  MaxRuns = 2
  MaxFaults = 0
CHECK_DEADLOCK FALSE
INVARIANTS
  AtMostOneLoads
