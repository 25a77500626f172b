SPECIFICATION Spec
CONSTANTS
  StepCount = 3
  Phases <- MCPhases
  EnterStatus <- MCEnterStatus
  MaxAttempts <- MCMaxAttempts
  MaxGeneration = 3
  MaxEvents = 7
INVARIANTS
  TypeOK
  SingleRunningAttempt
  ExactlyOncePublication
  WaitingIsAnswerable
PROPERTIES
  RevisionFencesEveryCommand
  ImplementsLifecycle
CHECK_DEADLOCK FALSE
