SPECIFICATION WorkerSpec
CONSTANTS
  StepCount = 2
  Phases <- MCPhases
  EnterStatus <- MCEnterStatus
  MaxAttempts <- MCMaxAttempts
  MaxGeneration = 3
  MaxEvents = 5
  w1 = w1
  w2 = w2
  Workers <- MCWorkers
  RepairSteps = {2}
  IsRevision = FALSE
  MaxFaults = 0
PROPERTIES
  DecidedRunIsServed
CHECK_DEADLOCK FALSE
