SPECIFICATION WorkerSpec
CONSTANTS
  StepCount = 2
  Phases <- MCPhases
  EnterStatus <- MCEnterStatus
  MaxAttempts <- MCMaxAttempts
  MaxGeneration = 4
  MaxEvents = 6
  w1 = w1
  w2 = w2
  Workers <- MCWorkers
  RepairSteps = {2}
  IsRevision = TRUE
  MaxFaults = 2
INVARIANTS
  WorkerTypeOK
  OneRunnerThread
  FenceMeansMine
PROPERTIES
  QueuedRunIsServed
  QueuedRunIsStarted
  OnlyTheHolderCommits
  ImplementsStore
CHECK_DEADLOCK FALSE
