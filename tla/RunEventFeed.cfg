SPECIFICATION Spec
CONSTANTS
  Mounts = 2
  MaxEvents = 3
  PageLimit = 2
  Publishing <- MCPublishing
  MaxFaults = 2
INVARIANTS
  ShownHasNoHole
  StoppedMissesNothing
PROPERTIES
  OpenPageCatchesUp
CHECK_DEADLOCK FALSE
