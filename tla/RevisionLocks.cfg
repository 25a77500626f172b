\* One feedback whose validation suspends, an upload, a plan, two confirmations.
CONSTANTS
  Artifacts <- MCArtifacts
  Feedbacks = {f1}
  About <- MCAboutFirst
  DocumentBacked <- MCDocuments
  Ingestions = {u1}
  Planners = {p1}
  Confirmers = {c1, c2}
  Steps <- MCTwoSteps
SPECIFICATION Spec
PROPERTIES
  OnlyFeedbackHangsTheLoop
  FeedbackIsOnTheLatest
  PlansAreOneCut
  ConfirmationsAreCurrent
\* All requests may have been answered.
CHECK_DEADLOCK FALSE
