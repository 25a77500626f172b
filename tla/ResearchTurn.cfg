SPECIFICATION Spec
CONSTANTS
  k1 = k1
  k2 = k2
  r1 = r1
  r2 = r2
  w1 = w1
  w2 = w2
  Keys <- MCKeys
  Requests <- MCRequests
  Writers = {w1}
  MilestoneCount = 1
  Nobody = Nobody
  MaxFaults = 1
INVARIANTS
  TypeOK
  OneOutcomePerTurn
  TurnsDoNotInterleave
  OneActiveExecution
PROPERTIES
  TurnsAreNotBlocked
CHECK_DEADLOCK FALSE
