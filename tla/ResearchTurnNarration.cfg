SPECIFICATION Spec
CONSTANTS
  k1 = k1
  k2 = k2
  r1 = r1
  r2 = r2
  w1 = w1
  w2 = w2
  Keys = {k1}
  Requests = {r1}
  Writers <- MCWriters
  MilestoneCount = 2
  Nobody = Nobody
  MaxFaults = 1
INVARIANTS
  MilestoneOnce
CHECK_DEADLOCK FALSE
