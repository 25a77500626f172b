SPECIFICATION Spec
CONSTANTS
  Artifacts <- MCArtifacts
  DataKinds <- MCDataKinds
  StepKeys <- MCStepKeys
  Outputs <- MCOutputs
  Reads <- MCReads
  Contracts <- MCTaskContracts
  Adjudicable = {"literature_relations"}
  TaskArtifacts = {"lookup_report", "gaia_report"}
  GaiaSteps = {"gaia"}
  MaxRuns = 3
  MaxOriginals = 2
  MaxFeedback = 2
  MaxPlans = 2
INVARIANTS
  AddingFeedbackNeverShrinks
CHECK_DEADLOCK FALSE
