SPECIFICATION Spec
CONSTANTS
  Artifacts <- MCArtifacts
  DataKinds <- MCDataKinds
  StepKeys <- MCStepKeys
  Outputs <- MCOutputs
  Reads <- MCReads
  Contracts <- MCContracts
  Adjudicable = {"literature_relations"}
  TaskArtifacts = {"lookup_report", "gaia_report"}
  GaiaSteps = {"gaia"}
  MaxRuns = 3
  MaxOriginals = 2
  MaxFeedback = 2
  MaxPlans = 2
INVARIANTS
  TypeOK
  FrozenBaselinesHold
  ReusedOutputsAreUpToDate
  MoreFeedbackRepeatsMore
CHECK_DEADLOCK FALSE
