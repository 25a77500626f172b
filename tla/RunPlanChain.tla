---- MODULE RunPlanChain ----
(***************************************************************************)
(* The frozen step chain of a ResearchRun, as workflow/store.py validates  *)
(* and freezes it before the first event is written.  A chain is the       *)
(* ordered list of RunSteps; what the workflow needs of a step is the run  *)
(* status it enters and its attempt budget.  Step keys are the positions.  *)
(***************************************************************************)
EXTENDS Integers

CONSTANTS
  StepCount,     \* number of frozen steps
  Phases,        \* the run statuses of RUN_STEP_STATUS_ORDER
  EnterStatus,   \* step -> the phase the run enters when the step begins
  MaxAttempts    \* step -> attempt budget frozen in RunStepModel.max_attempts

Steps == 1..StepCount

TerminalRunStatuses == {"completed", "failed", "cancelled"}

RunStatuses == Phases \cup {"queued", "waiting_for_input"} \cup TerminalRunStatuses

IncompleteStepStatuses == {"pending", "running", "waiting"}

StepStatuses == IncompleteStepStatuses \cup {"completed", "failed", "cancelled"}

AttemptStatuses == {"running", "completed", "failed", "cancelled"}

(* The status a published step leaves its run in: the next step's phase,   *)
(* and "completed" after the last.                                         *)
SuccessStatus(s) == IF s = StepCount THEN "completed" ELSE EnterStatus[s + 1]

ASSUME ChainAssumption ==
  /\ StepCount \in Nat \ {0}
  /\ EnterStatus \in [Steps -> Phases]
  /\ MaxAttempts \in [Steps -> Nat \ {0}]
  /\ Phases \cap (TerminalRunStatuses \cup {"queued", "waiting_for_input"}) = {}
====
