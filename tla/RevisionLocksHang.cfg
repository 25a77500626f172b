\* Two feedbacks on a version that is read from a stored document, an upload.
CONSTANTS
  Artifacts <- MCArtifacts
  Feedbacks = {f1, f2}
  About <- MCAboutFirst
  DocumentBacked <- MCDocuments
  Ingestions = {u1}
  Planners = {}
  Confirmers = {}
  Steps <- MCTwoSteps
SPECIFICATION Spec
PROPERTY TransactionsEnd
CHECK_DEADLOCK FALSE
