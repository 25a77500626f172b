---- MODULE WorkflowStore ----
(***************************************************************************)
(* PersistentWorkflowStore and ArtifactPublisher.publish_step_outputs for  *)
(* one ResearchRun.  Every command is one PostgreSQL transaction that      *)
(* first locks the run row (SELECT ... FOR UPDATE), so a command is one    *)
(* atomic action.  A caller identifies itself with a handle: the lease     *)
(* token and generation it was granted, and the run status and revision    *)
(* it last saw.  A command whose guard fails raises and changes nothing.   *)
(***************************************************************************)
EXTENDS RunPlanChain, Sequences, FiniteSets

CONSTANTS
  MaxGeneration,  \* bound on lease acquisitions
  MaxEvents       \* bound on the event sequence for streaming appends

ASSUME BoundAssumption == MaxGeneration \in Nat /\ MaxEvents \in Nat

VARIABLES
  status,        \* ResearchRunModel.status
  revision,      \* ResearchRunModel.revision
  eventSeq,      \* ResearchRunModel.latest_event_sequence
  leaseToken,    \* ResearchRunModel.lease_token: 0 is NULL, g the uuid of grant g
  leaseGeneration,
  leaseExpired,  \* lease_expires_at <= clock_timestamp()
  stepStatus,    \* RunStepModel.status by step
  attempts,      \* StepAttemptModel.status by step and attempt_number
  checkpoint,    \* RunCheckpointModel and its decision, by step
  published      \* attempts whose ArtifactVersion set was committed, by step

leaseVars == <<leaseToken, leaseGeneration, leaseExpired>>
storeVars == <<status, revision, eventSeq, leaseToken, leaseGeneration,
               leaseExpired, stepStatus, attempts, checkpoint, published>>

(* "none": no RunCheckpoint; "open": no decision; "decided": immutable     *)
(* decision recorded; "repaired": the decision has its repair_outcome.     *)
CheckpointStates == {"none", "open", "decided", "repaired"}
Decided == {"decided", "repaired"}

(* What a caller presents: its grant, and the snapshot it believes in.     *)
Handle(t, g, st, r) == [token |-> t, generation |-> g, status |-> st, revision |-> r]
CurrentHandle == Handle(leaseToken, leaseGeneration, status, revision)

(* Mutant: the event sequence starts at 0, although creation wrote event 1. *)
InitWithoutEvent ==
  /\ status = "queued" /\ revision = 1 /\ eventSeq = 0
  /\ leaseToken = 0 /\ leaseGeneration = 0 /\ leaseExpired = FALSE
  /\ stepStatus = [s \in Steps |-> "pending"] /\ attempts = [s \in Steps |-> << >>]
  /\ checkpoint = [s \in Steps |-> "none"] /\ published = [s \in Steps |-> {}]

Init ==
  /\ status = "queued"
  /\ revision = 1
  /\ eventSeq = 1
  /\ leaseToken = 0 /\ leaseGeneration = 0 /\ leaseExpired = FALSE
  /\ stepStatus = [s \in Steps |-> "pending"]
  /\ attempts = [s \in Steps |-> << >>]
  /\ checkpoint = [s \in Steps |-> "none"]
  /\ published = [s \in Steps |-> {}]

(* Mutant: a lease past its expiry still passes the fence.                 *)
RequireLeaseIgnoringClock(h) ==
  /\ status = h.status /\ revision = h.revision
  /\ leaseToken = h.token /\ leaseGeneration = h.generation
  /\ leaseToken # 0
  /\ status \notin TerminalRunStatuses

(* _require_lease / _require_active_lease *)
RequireLease(h) ==
  /\ status = h.status /\ revision = h.revision
  /\ leaseToken = h.token /\ leaseGeneration = h.generation
  /\ leaseToken # 0 /\ ~leaseExpired
  /\ status \notin TerminalRunStatuses

(* _lock_running_attempt *)
RunningAttempt(s, a) ==
  /\ a \in 1..Len(attempts[s])
  /\ attempts[s][a] = "running"
  /\ stepStatus[s] = "running"

SetStep(s, value) == stepStatus' = [stepStatus EXCEPT ![s] = value]
SetAttempt(s, a, value) == attempts' = [attempts EXCEPT ![s][a] = value]

(* Every command that changes the run advances its revision and appends    *)
(* its event in the same transaction.                                      *)
Advance(events) == revision' = revision + 1 /\ eventSeq' = eventSeq + events

ReleaseLease ==
  /\ leaseToken' = 0 /\ leaseExpired' = FALSE
  /\ UNCHANGED leaseGeneration

(* Mutants: a grant that does not move the revision; a grant that never    *)
(* takes over an expired lease.                                            *)
AcquireLeaseSameRevision(h) ==
  /\ status = h.status /\ revision = h.revision
  /\ status \notin TerminalRunStatuses
  /\ leaseToken = 0 \/ leaseExpired
  /\ leaseGeneration < MaxGeneration
  /\ leaseToken' = leaseGeneration + 1 /\ leaseGeneration' = leaseGeneration + 1
  /\ leaseExpired' = FALSE
  /\ UNCHANGED <<status, revision, eventSeq, stepStatus, attempts, checkpoint, published>>
AcquireLeaseNoTakeover(h) ==
  /\ status = h.status /\ revision = h.revision
  /\ status \notin TerminalRunStatuses
  /\ leaseToken = 0
  /\ leaseGeneration < MaxGeneration
  /\ leaseToken' = leaseGeneration + 1 /\ leaseGeneration' = leaseGeneration + 1
  /\ leaseExpired' = FALSE /\ revision' = revision + 1
  /\ UNCHANGED <<status, eventSeq, stepStatus, attempts, checkpoint, published>>

AcquireLease(h) ==
  /\ status = h.status /\ revision = h.revision
  /\ status \notin TerminalRunStatuses
  /\ leaseToken = 0 \/ leaseExpired
  /\ leaseGeneration < MaxGeneration
  /\ leaseToken' = leaseGeneration + 1
  /\ leaseGeneration' = leaseGeneration + 1
  /\ leaseExpired' = FALSE
  /\ revision' = revision + 1
  /\ UNCHANGED <<status, eventSeq, stepStatus, attempts, checkpoint, published>>

(* A heartbeat that passes the fence only moves lease_expires_at of a      *)
(* lease that has not expired: nothing the model keeps changes.            *)
HeartbeatLease(h) == RequireLease(h) /\ UNCHANGED storeVars

LeaseExpires ==
  /\ leaseToken # 0 /\ ~leaseExpired
  /\ leaseExpired' = TRUE
  /\ UNCHANGED <<status, revision, eventSeq, leaseToken, leaseGeneration,
                 stepStatus, attempts, checkpoint, published>>

RequiredStatus(s) ==
  IF s = 1 /\ Len(attempts[s]) = 0 THEN "queued" ELSE EnterStatus[s]

(* Mutant: a running step may begin again.                                 *)
MayBeginAgain(h, s) ==
  /\ RequireLease(h)
  /\ stepStatus[s] \in {"pending", "running"}
  /\ \A p \in 1..(s - 1) : stepStatus[p] = "completed"
  /\ Len(attempts[s]) < MaxAttempts[s]
  /\ h.status = RequiredStatus(s)

MayBegin(h, s) ==
  /\ RequireLease(h)
  /\ stepStatus[s] = "pending"
  /\ \A p \in 1..(s - 1) : stepStatus[p] = "completed"
  /\ Len(attempts[s]) < MaxAttempts[s]
  /\ h.status = RequiredStatus(s)

BeginStep(h, s) ==
  /\ MayBegin(h, s)
  /\ SetStep(s, "running")
  /\ status' = EnterStatus[s]
  /\ attempts' = [attempts EXCEPT ![s] = Append(@, "running")]
  /\ Advance(1)
  /\ UNCHANGED <<leaseVars, checkpoint, published>>

AppendActivityEvent(h) ==
  /\ RequireLease(h)
  /\ eventSeq < MaxEvents
  /\ eventSeq' = eventSeq + 1
  /\ UNCHANGED <<status, revision, leaseVars, stepStatus, attempts, checkpoint, published>>

RecordRetryableFailure(h, s, a) ==
  /\ RequireLease(h)
  /\ RunningAttempt(s, a)
  /\ a < MaxAttempts[s]
  /\ SetAttempt(s, a, "failed")
  /\ SetStep(s, "pending")
  /\ Advance(1)
  /\ UNCHANGED <<status, leaseVars, checkpoint, published>>

FailRun(h, s, a) ==
  /\ RequireLease(h)
  /\ RunningAttempt(s, a)
  /\ SetAttempt(s, a, "failed")
  /\ SetStep(s, "failed")
  /\ status' = "failed"
  /\ ReleaseLease
  /\ Advance(1)
  /\ UNCHANGED <<checkpoint, published>>

(* The user's cancel presents no lease, only the snapshot it was read from. *)
CancelRun(h) ==
  /\ status \notin TerminalRunStatuses
  /\ status = h.status /\ revision = h.revision
  /\ attempts' = [s \in Steps |-> [a \in DOMAIN attempts[s] |->
                    IF attempts[s][a] = "running" THEN "cancelled" ELSE attempts[s][a]]]
  /\ stepStatus' = [s \in Steps |->
                      IF stepStatus[s] \in IncompleteStepStatuses
                        THEN "cancelled" ELSE stepStatus[s]]
  /\ status' = "cancelled"
  /\ ReleaseLease
  /\ Advance(1)
  /\ UNCHANGED <<checkpoint, published>>

(* The attempt that asks is "completed": its question is its result.       *)
RequestCheckpoint(h, s, a) ==
  /\ RequireLease(h)
  /\ a \in 1..Len(attempts[s]) /\ attempts[s][a] = "running"
  /\ checkpoint' = [checkpoint EXCEPT ![s] = IF @ = "none" THEN "open" ELSE @]
  /\ SetAttempt(s, a, "completed")
  /\ SetStep(s, "waiting")
  /\ status' = "waiting_for_input"
  /\ ReleaseLease
  /\ Advance(1)
  /\ UNCHANGED published

(* Mutant: the decision completes the step it should reopen.               *)
DecisionCompletesStep(h, s) ==
  /\ checkpoint[s] = "open"
  /\ status = h.status /\ revision = h.revision
  /\ status = "waiting_for_input" /\ stepStatus[s] = "waiting"
  /\ checkpoint' = [checkpoint EXCEPT ![s] = "decided"]
  /\ SetStep(s, "completed") /\ status' = EnterStatus[s]
  /\ Advance(1)
  /\ UNCHANGED <<leaseVars, attempts, published>>

SubmitCheckpointDecision(h, s) ==
  /\ checkpoint[s] = "open"
  /\ status = h.status /\ revision = h.revision
  /\ status = "waiting_for_input"
  /\ stepStatus[s] = "waiting"
  /\ checkpoint' = [checkpoint EXCEPT ![s] = "decided"]
  /\ SetStep(s, "pending")
  /\ status' = EnterStatus[s]
  /\ Advance(1)
  /\ UNCHANGED <<leaseVars, attempts, published>>

(* A second identical outcome is a no-op, a different one is refused.      *)
CompleteRepairCheckpoint(h, s) ==
  /\ RequireLease(h)
  /\ checkpoint[s] = "decided"
  /\ checkpoint' = [checkpoint EXCEPT ![s] = "repaired"]
  /\ UNCHANGED <<status, revision, eventSeq, leaseVars, stepStatus, attempts, published>>

(* publish_step_outputs: the versions, the attempt, the step, the run and  *)
(* the events are one commit; the final step also ends the run.  (Keys     *)
(* already published are replayed before the fence: that changes nothing.) *)
(* Mutant: the result of an attempt that has ended is still accepted.      *)
MayPublishLate(h, s, a) ==
  /\ RequireLease(h)
  /\ stepStatus[s] = "running"
  /\ status = EnterStatus[s]

MayPublish(h, s, a) ==
  /\ RequireLease(h)
  /\ RunningAttempt(s, a)
  /\ status = EnterStatus[s]

PublishStepOutputs(h, s, a) ==
  /\ MayPublish(h, s, a)
  /\ published' = [published EXCEPT ![s] = @ \cup {a}]
  /\ SetAttempt(s, a, "completed")
  /\ SetStep(s, "completed")
  /\ status' = SuccessStatus(s)
  /\ Advance(IF s = StepCount THEN 2 ELSE 1)
  /\ IF s = StepCount THEN ReleaseLease ELSE UNCHANGED leaseVars
  /\ UNCHANGED checkpoint

(* Mutant: it asks whatever the user has decided before.                   *)
AsksForRepairAlways(s) == TRUE

(* The cleaning step asks only while no decision is on record.             *)
AsksForRepair(s) == checkpoint[s] \notin Decided

AttemptCommand(h, s, a) ==
  \/ RecordRetryableFailure(h, s, a)
  \/ FailRun(h, s, a)
  \/ AsksForRepair(s) /\ RequestCheckpoint(h, s, a)
  \/ PublishStepOutputs(h, s, a)

StepCommand(h, s) ==
  \/ BeginStep(h, s)
  \/ SubmitCheckpointDecision(h, s)
  \/ CompleteRepairCheckpoint(h, s)
  \/ \E a \in 1..Len(attempts[s]) : AttemptCommand(h, s, a)

(* A caller may present any handle; a handle other than the current one is *)
(* refused by every guard, so only the current one is enumerated.          *)
Next ==
  \/ AcquireLease(CurrentHandle)
  \/ LeaseExpires
  \/ AppendActivityEvent(CurrentHandle)
  \/ CancelRun(CurrentHandle)
  \/ \E s \in Steps : StepCommand(CurrentHandle, s)

Spec == Init /\ [][Next]_storeVars

-----------------------------------------------------------------------------
(* Every variable has the shape of its column.                             *)
TypeOK ==
  /\ status \in RunStatuses
  /\ revision \in Nat \ {0} /\ eventSeq \in Nat \ {0}
  /\ leaseToken \in Nat /\ leaseGeneration \in Nat /\ leaseExpired \in BOOLEAN
  /\ stepStatus \in [Steps -> StepStatuses]
  /\ attempts \in [Steps -> Seq(AttemptStatuses)]
  /\ checkpoint \in [Steps -> CheckpointStates]
  /\ published \in [Steps -> SUBSET Nat]

LastAttempt(s) == Len(attempts[s])

(* A run has at most one running attempt: it is the newest attempt of the  *)
(* one step that is running, and a running step always has it.  Otherwise  *)
(* two results could be committed for one step, or a step would run with   *)
(* nobody able to finish it.                                               *)
SingleRunningAttempt ==
  /\ \A s \in Steps : \A a \in 1..LastAttempt(s) :
       attempts[s][a] = "running" => a = LastAttempt(s) /\ stepStatus[s] = "running"
  /\ \A s \in Steps : stepStatus[s] = "running" =>
       LastAttempt(s) > 0 /\ attempts[s][LastAttempt(s)] = "running"
  /\ \A s, t \in Steps : stepStatus[s] = "running" /\ stepStatus[t] = "running" => s = t

(* No step is ever attempted before every earlier frozen step is complete, *)
(* across retries, checkpoints and takeovers by another executor.          *)
PlanOrder ==
  \A s \in Steps : LastAttempt(s) > 0 =>
    \A p \in 1..(s - 1) : stepStatus[p] = "completed"

(* A completed step has exactly one published output set, that of its last *)
(* attempt; a step that is not completed has published nothing.            *)
ExactlyOncePublication ==
  \A s \in Steps : published[s] =
    IF stepStatus[s] = "completed" THEN {LastAttempt(s)} ELSE {}

(* While a run executes, its public status names the phase of its first    *)
(* unfinished step: the status begin_step will demand of that step.        *)
StatusTracksPlan ==
  status \in Phases =>
    \E s \in Steps :
      /\ \A p \in 1..(s - 1) : stepStatus[p] = "completed"
      /\ stepStatus[s] \in {"pending", "running"}
      /\ status = EnterStatus[s]

(* A run is completed exactly when every frozen step has been published.   *)
CompletedMeansAllPublished ==
  status = "completed" <=> \A s \in Steps : published[s] # {}

(* A run waits for input exactly when one of its steps waits, and then the *)
(* question of that step is still open: the wait can be ended.             *)
WaitingIsAnswerable ==
  /\ status = "waiting_for_input" <=> \E s \in Steps : stepStatus[s] = "waiting"
  /\ \A s \in Steps : stepStatus[s] = "waiting" => checkpoint[s] = "open"

(* A finished run holds no lease and nothing of it still runs or waits.    *)
TerminalIsReleased ==
  status \in TerminalRunStatuses =>
    /\ leaseToken = 0
    /\ \A s \in Steps : stepStatus[s] \notin {"running", "waiting"}

(* What the invariant needs besides the properties: how a step ended       *)
(* agrees with how its run ended, a step without an attempt is untouched,  *)
(* and a queued run has spent no attempt.                                  *)
StepLedger ==
  /\ \A s \in Steps :
       /\ LastAttempt(s) = 0 => stepStatus[s] \in {"pending", "cancelled"}
       /\ stepStatus[s] = "cancelled" => status = "cancelled"
       /\ stepStatus[s] = "failed" => status = "failed"
  /\ status = "queued" => \A s \in Steps : LastAttempt(s) = 0

(* The inductive invariant: each part needs the others.                    *)
StoreInv ==
  /\ TypeOK /\ SingleRunningAttempt /\ PlanOrder /\ ExactlyOncePublication
  /\ StatusTracksPlan /\ CompletedMeansAllPublished /\ WaitingIsAnswerable
  /\ TerminalIsReleased /\ StepLedger

(* A late result, a cancel or a decision never changes a finished run.     *)
TerminalIsFinal == [][(status \in TerminalRunStatuses) => UNCHANGED storeVars]_storeVars

(* Whatever changes the status, a step, an attempt or the lease of a run   *)
(* moves its revision by one, so that expected_revision alone makes every  *)
(* older snapshot stale; nothing else moves it.                            *)
RevisionFencesEveryCommand ==
  [][ revision' = (IF <<status, stepStatus, attempts, leaseToken>>' #
                      <<status, stepStatus, attempts, leaseToken>>
                     THEN revision + 1 ELSE revision) ]_storeVars

(* A client that follows the event cursor sees every status and step       *)
(* change: none commits without a new event.                               *)
EveryTransitionIsAnnounced ==
  [][ <<status, stepStatus>>' # <<status, stepStatus>> => eventSeq' > eventSeq ]_storeVars

-----------------------------------------------------------------------------
(* What the store implements: steps published once and in order.           *)
lifecyclePhase ==
  CASE status = "waiting_for_input" -> "waiting"
    [] status \in TerminalRunStatuses -> status
    [] OTHER -> "open"
lifecycleDone == {s \in Steps : stepStatus[s] = "completed"}

Lifecycle == INSTANCE RunLifecycle WITH phase <- lifecyclePhase, done <- lifecycleDone

ImplementsLifecycle == Lifecycle!Spec
====
