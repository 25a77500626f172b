---- MODULE ResearchRunWorker ----
(***************************************************************************)
(* ResearchRunWorker driving PersistentWorkflowExecutor over the store:    *)
(* several API processes poll for the queued run, lease it, and execute    *)
(* its frozen steps.  The step runner lives on a thread of its own, which  *)
(* keeps running when the event loop has given the attempt up, and then    *)
(* still calls the store with the handle it was started with.              *)
(***************************************************************************)
EXTENDS WorkflowStore

CONSTANTS
  Workers,      \* API processes with a research-run worker
  RepairSteps,  \* steps that may ask for a scientific repair (cleaning_data)
  IsRevision,   \* derivation_kind = "revision": context is loaded under the lease
  MaxFaults     \* bound on crashes, stalls beyond the lease and database errors

ASSUME WorkerAssumption ==
  /\ RepairSteps \subseteq Steps /\ IsRevision \in BOOLEAN /\ MaxFaults \in Nat

VARIABLES
  pc,      \* where the event loop of a worker is in execute_run
  handle,  \* its lease and the snapshot of its last store call
  cur,     \* the planned step it is at (StepCount + 1: past the last)
  att,     \* the attempt number it began
  result,  \* how the runner the loop waits for has ended, or "none"
  threads, \* runner threads alive: what each of them was started with
  faults   \* faults that have happened

workerVars == <<pc, handle, cur, att, result, threads, faults>>
allVars == <<storeVars, workerVars>>

NoHandle == Handle(0, 0, "none", 0)
Thread(w, h, s, a) == [worker |-> w, handle |-> h, step |-> s, attempt |-> a]

WorkerInit ==
  /\ Init
  /\ pc = [w \in Workers |-> "idle"]
  /\ handle = [w \in Workers |-> NoHandle]
  /\ cur = [w \in Workers |-> 0]
  /\ att = [w \in Workers |-> 0]
  /\ result = [w \in Workers |-> "none"]
  /\ threads = {}
  /\ faults = 0

Goto(w, label) == pc' = [pc EXCEPT ![w] = label]
Fault == faults < MaxFaults /\ faults' = faults + 1

(* execute_run returns or raises: _serve logs it and polls again.  A lease *)
(* that is still held stays held, and a thread still running keeps going.  *)
Leave(w) ==
  /\ Goto(w, "idle")
  /\ handle' = [handle EXCEPT ![w] = NoHandle]
  /\ cur' = [cur EXCEPT ![w] = 0]
  /\ att' = [att EXCEPT ![w] = 0]
  /\ result' = [result EXCEPT ![w] = "none"]

(* Mutant: the loop runs past its end.                                     *)
FirstIncompletePastEnd ==
  IF \A s \in Steps : stepStatus[s] = "completed" THEN StepCount + 2
  ELSE CHOOSE s \in Steps : /\ stepStatus[s] # "completed"
                            /\ \A p \in 1..(s - 1) : stepStatus[p] = "completed"

(* load_snapshot under the worker's grant; the loop skips completed steps. *)
FirstIncomplete ==
  IF \A s \in Steps : stepStatus[s] = "completed" THEN StepCount + 1
  ELSE CHOOSE s \in Steps : /\ stepStatus[s] # "completed"
                            /\ \A p \in 1..(s - 1) : stepStatus[p] = "completed"

LoadSnapshot(w) ==
  /\ handle' = [handle EXCEPT ![w].status = status, ![w].revision = revision]
  /\ cur' = [cur EXCEPT ![w] = FirstIncomplete]

-----------------------------------------------------------------------------
(* _queued_run_ids                                                         *)
Poll(w) ==
  /\ pc[w] = "idle" /\ status = "queued"
  /\ Goto(w, "polled")
  /\ UNCHANGED <<storeVars, handle, cur, att, result, threads, faults>>

(* The load_snapshot that opens execute_run: the run may have moved since. *)
Open(w) ==
  /\ pc[w] = "polled"
  /\ Goto(w, "leasing")
  /\ handle' = [handle EXCEPT ![w] = Handle(0, 0, status, revision)]
  /\ UNCHANGED <<storeVars, cur, att, result, threads, faults>>

Lease(w) ==
  /\ pc[w] = "leasing"
  /\ AcquireLease(handle[w])
  /\ handle' = [handle EXCEPT ![w] =
       Handle(leaseToken', leaseGeneration', status, revision')]
  /\ Goto(w, "granted")
  /\ UNCHANGED <<cur, att, result, threads, faults>>

LeaseRefused(w) ==
  /\ pc[w] = "leasing"
  /\ \/ handle[w].status \in TerminalRunStatuses
     \/ handle[w].status # status \/ handle[w].revision # revision
     \/ leaseToken # 0 /\ ~leaseExpired
     \/ leaseGeneration = MaxGeneration
  /\ Leave(w)
  /\ UNCHANGED <<storeVars, threads, faults>>

(* The second load_snapshot, and the run-started message of the thread.    *)
Start(w) ==
  /\ pc[w] = "granted"
  /\ LoadSnapshot(w)
  /\ Goto(w, "ready")
  /\ UNCHANGED <<storeVars, att, result, threads, faults>>

(* A revision whose frozen inputs moved: the first step is begun only to   *)
(* fail with the run.                                                      *)
PreflightBegin(w) ==
  /\ pc[w] = "granted" /\ IsRevision
  /\ BeginStep(handle[w], 1)
  /\ handle' = [handle EXCEPT ![w].status = status', ![w].revision = revision']
  /\ cur' = [cur EXCEPT ![w] = 1]
  /\ att' = [att EXCEPT ![w] = Len(attempts'[1])]
  /\ Goto(w, "rejecting")
  /\ UNCHANGED <<result, threads, faults>>

(* Mutant: the rejected run is marked failed around the store.             *)
PreflightFailDirectly(w) ==
  /\ pc[w] = "rejecting"
  /\ status' = "failed" /\ ReleaseLease /\ Advance(1)
  /\ Leave(w)
  /\ UNCHANGED <<stepStatus, attempts, checkpoint, published, threads, faults>>

PreflightFail(w) ==
  /\ pc[w] = "rejecting"
  /\ FailRun(handle[w], cur[w], att[w])
  /\ Leave(w)
  /\ UNCHANGED <<threads, faults>>

PreflightRefused(w) ==
  /\ \/ pc[w] = "granted" /\ IsRevision /\ ~MayBegin(handle[w], 1)
     \/ pc[w] = "rejecting" /\ ~RequireLease(handle[w])
  /\ Leave(w)
  /\ UNCHANGED <<storeVars, threads, faults>>

-----------------------------------------------------------------------------
(* Mutant: the attempt number is counted before the attempt is inserted.   *)
BeginCountsFromZero(w) ==
  /\ pc[w] = "ready" /\ cur[w] \in Steps
  /\ BeginStep(handle[w], cur[w])
  /\ handle' = [handle EXCEPT ![w].status = status', ![w].revision = revision']
  /\ att' = [att EXCEPT ![w] = Len(attempts[cur[w]])]
  /\ Goto(w, "renewing")
  /\ UNCHANGED <<cur, result, threads, faults>>

(* PersistentWorkflowExecutor.execute_step                                 *)
Begin(w) ==
  /\ pc[w] = "ready" /\ cur[w] \in Steps
  /\ BeginStep(handle[w], cur[w])
  /\ handle' = [handle EXCEPT ![w].status = status', ![w].revision = revision']
  /\ att' = [att EXCEPT ![w] = Len(attempts'[cur[w]])]
  /\ Goto(w, "renewing")
  /\ UNCHANGED <<cur, result, threads, faults>>

BeginRefused(w) ==
  /\ pc[w] = "ready"
  /\ cur[w] \in Steps => ~MayBegin(handle[w], cur[w])
  /\ Leave(w)
  /\ UNCHANGED <<storeVars, threads, faults>>

(* The renewal before the runner starts, and the start of its thread.      *)
FirstRenewal(w) ==
  /\ pc[w] = "renewing"
  /\ HeartbeatLease(handle[w])
  /\ threads' = threads \cup {Thread(w, handle[w], cur[w], att[w])}
  /\ Goto(w, "running")
  /\ UNCHANGED <<handle, cur, att, result, faults>>

(* Mutant: a failed renewal is recorded as a retryable failure.            *)
RenewalIsRetried(w) ==
  /\ pc[w] \in {"renewing", "running"}
  /\ (~RequireLease(handle[w]) /\ UNCHANGED faults) \/ Fault
  /\ Goto(w, "recordingRetry")
  /\ result' = [result EXCEPT ![w] = "none"]
  /\ UNCHANGED <<storeVars, handle, cur, att, threads>>

(* A renewal is refused, or the database fails it: the executor stops      *)
(* waiting for the runner and records a failure that is not retryable.     *)
RenewalRaises(w) ==
  /\ pc[w] \in {"renewing", "running"}
  /\ \/ ~RequireLease(handle[w]) /\ UNCHANGED faults
     \/ Fault
  /\ Goto(w, "recordingFatal")
  /\ result' = [result EXCEPT ![w] = "none"]
  /\ UNCHANGED <<storeVars, handle, cur, att, threads>>

Join(w) ==
  /\ pc[w] = "running" /\ result[w] \in {"prepared", "retryable", "fatal"}
  /\ Goto(w, CASE result[w] = "prepared"  -> "publishing"
               [] result[w] = "retryable" -> "recordingRetry"
               [] result[w] = "fatal"     -> "recordingFatal")
  /\ result' = [result EXCEPT ![w] = "none"]
  /\ UNCHANGED <<storeVars, handle, cur, att, threads, faults>>

(* WorkflowCheckpointRequested: the run is parked and execute_run returns. *)
JoinCheckpoint(w) ==
  /\ pc[w] = "running" /\ result[w] = "asked"
  /\ Leave(w)
  /\ UNCHANGED <<storeVars, threads, faults>>

(* _record_failure: a retryable failure past the budget fails the run; a   *)
(* refused or failed bookkeeping write is only noted on the exception.     *)
RecordFailure(w) ==
  /\ pc[w] \in {"recordingRetry", "recordingFatal"}
  /\ \/ /\ pc[w] = "recordingRetry"
        /\ RecordRetryableFailure(handle[w], cur[w], att[w])
        /\ UNCHANGED faults
     \/ /\ pc[w] = "recordingRetry" => att[w] >= MaxAttempts[cur[w]]
        /\ FailRun(handle[w], cur[w], att[w])
        /\ UNCHANGED faults
     \/ /\ ~RequireLease(handle[w])
        /\ UNCHANGED <<storeVars, faults>>
     \/ Fault /\ UNCHANGED storeVars
  /\ Goto(w, "recorded")
  /\ UNCHANGED <<handle, cur, att, result, threads>>

(* Mutant: execute_run returns after every failure.                        *)
AfterFailureLeaves(w) ==
  /\ pc[w] = "recorded" /\ Leave(w) /\ UNCHANGED <<storeVars, threads, faults>>

(* The snapshot after a failure: only a step that is pending again is      *)
(* retried.                                                                *)
AfterFailure(w) ==
  /\ pc[w] = "recorded"
  /\ IF stepStatus[cur[w]] = "pending"
       THEN LoadSnapshot(w) /\ Goto(w, "ready") /\ UNCHANGED <<att, result>>
       ELSE Leave(w)
  /\ UNCHANGED <<storeVars, threads, faults>>

Publish(w) ==
  /\ pc[w] = "publishing"
  /\ PublishStepOutputs(handle[w], cur[w], att[w])
  /\ Goto(w, "published")
  /\ UNCHANGED <<handle, cur, att, result, threads, faults>>

(* A refused publication is not rewritten as a failure: it leaves.         *)
PublishRefused(w) ==
  /\ pc[w] = "publishing"
  /\ ~MayPublish(handle[w], cur[w], att[w])
  /\ Leave(w)
  /\ UNCHANGED <<storeVars, threads, faults>>

NextStep(w) ==
  /\ pc[w] = "published"
  /\ LoadSnapshot(w)
  /\ Goto(w, "ready")
  /\ UNCHANGED <<storeVars, att, result, threads, faults>>

-----------------------------------------------------------------------------
(* prepare_step on a runner thread.  Only the loop that still waits for it *)
(* learns how it ended.                                                    *)
Ends(t, outcome) ==
  /\ threads' = threads \ {t}
  /\ result' = IF pc[t.worker] = "running" /\ Thread(t.worker, handle[t.worker],
                   cur[t.worker], att[t.worker]) = t
                 THEN [result EXCEPT ![t.worker] = outcome] ELSE result

EmitActivity(t) == AppendActivityEvent(t.handle) /\ UNCHANGED workerVars

(* The runner returns its publication.  (Its other outcome, completing a   *)
(* decided repair, needs a second attempt of a step that asked: run_plan   *)
(* gives the only step that asks one attempt.)                             *)
Prepare(t) ==
  /\ Ends(t, "prepared")
  /\ UNCHANGED <<storeVars, pc, handle, cur, att, faults>>

Ask(t) ==
  /\ t.step \in RepairSteps
  /\ AsksForRepair(t.step)
  /\ RequestCheckpoint(t.handle, t.step, t.attempt)
  /\ Ends(t, "asked")
  /\ UNCHANGED <<pc, handle, cur, att, faults>>

(* The adapter raises, and so does any fenced call of a stale thread.      *)
ThreadRaises(t) ==
  /\ \E outcome \in {"retryable", "fatal"} : Ends(t, outcome)
  /\ UNCHANGED <<storeVars, pc, handle, cur, att, faults>>

-----------------------------------------------------------------------------
(* The environment                                                         *)
Cancel == CancelRun(CurrentHandle) /\ UNCHANGED workerVars

Decide ==
  /\ \E s \in Steps : SubmitCheckpointDecision(CurrentHandle, s)
  /\ UNCHANGED workerVars

Holds(w) == pc[w] # "idle" /\ handle[w].token = leaseToken

(* The lease of a worker that went away runs out; that of a worker which   *)
(* renews every minute does so only when its process stalls for half an    *)
(* hour.                                                                   *)
LeaseRunsOut ==
  /\ LeaseExpires
  /\ IF \E w \in Workers : Holds(w) THEN Fault ELSE UNCHANGED faults
  /\ UNCHANGED <<pc, handle, cur, att, result, threads>>

Crash(w) ==
  /\ pc[w] # "idle" \/ \E t \in threads : t.worker = w
  /\ Fault
  /\ Leave(w)
  /\ threads' = {t \in threads : t.worker # w}
  /\ UNCHANGED storeVars

(* The context, a message, a snapshot or a publication fails in the        *)
(* database: execute_run raises.                                           *)
DatabaseError(w) ==
  /\ pc[w] \in {"polled", "leasing", "granted", "ready", "publishing", "published", "recorded"}
  /\ Fault
  /\ Leave(w)
  /\ UNCHANGED <<storeVars, threads>>

LoopStep(w) ==
  \/ Poll(w) \/ Open(w) \/ Lease(w) \/ LeaseRefused(w) \/ Start(w)
  \/ PreflightBegin(w) \/ PreflightFail(w) \/ PreflightRefused(w)
  \/ Begin(w) \/ BeginRefused(w) \/ FirstRenewal(w)
  \/ Join(w) \/ JoinCheckpoint(w) \/ RecordFailure(w) \/ AfterFailure(w)
  \/ Publish(w) \/ PublishRefused(w) \/ NextStep(w)

ThreadStep(w) ==
  \E t \in threads : t.worker = w /\ (Prepare(t) \/ Ask(t) \/ ThreadRaises(t))

WorkerNext ==
  \/ \E w \in Workers :
       LoopStep(w) \/ RenewalRaises(w) \/ ThreadStep(w) \/ Crash(w)
         \/ DatabaseError(w)
  \/ \E t \in threads : EmitActivity(t)
  \/ Cancel \/ Decide \/ LeaseRunsOut

(* The event loop of a process keeps running, adapters have time limits,   *)
(* and an abandoned lease reaches its expiry.                              *)
Fairness ==
  /\ \A w \in Workers : WF_allVars(LoopStep(w)) /\ WF_allVars(ThreadStep(w))
  /\ WF_allVars(LeaseRunsOut)

WorkerSpec == WorkerInit /\ [][WorkerNext]_allVars /\ Fairness

-----------------------------------------------------------------------------
Executing == {"renewing", "running", "recordingRetry", "recordingFatal", "publishing"}
Places == Executing \cup {"idle", "polled", "leasing", "granted", "rejecting", "ready",
                          "published", "recorded"}

(* A worker that executes, and a runner thread, is at a step of the plan.  *)
Placed ==
  /\ pc \in [Workers -> Places]
  /\ cur = [w \in Workers |-> cur[w]]
  /\ \A w \in Workers :
       pc[w] \in Executing \cup {"rejecting", "recorded"} => cur[w] \in Steps
  /\ \A t \in threads : t.step \in Steps

(* Every worker is at a place of execute_run, within the plan.             *)
WorkerTypeOK ==
  LET Handles == [token : Nat, generation : Nat,
                  status : RunStatuses \cup {"none"}, revision : Nat]
  IN /\ Placed
     /\ cur \in [Workers -> 0..(StepCount + 1)]
     /\ handle \in [Workers -> Handles] /\ att \in [Workers -> Nat]
     /\ result \in [Workers -> {"none", "prepared", "retryable", "fatal", "asked"}]
     /\ threads \subseteq [worker : Workers, handle : Handles, step : Steps, attempt : Nat]
     /\ faults \in 0..MaxFaults

(* However many processes poll, stall, crash and lose their lease, the     *)
(* frozen steps run on one thread at a time, although a lost renewal       *)
(* abandons a thread without stopping it.                                  *)
OneRunnerThread == Cardinality(threads) <= 1

(* Holding a lease that passes the fence is enough to know that the        *)
(* attempt one began is still the running one, on the event loop and on    *)
(* the runner thread alike: neither checks more before it commits.         *)
FenceMeansMine ==
  /\ \A w \in Workers :
       pc[w] \in Executing /\ RequireLease(handle[w]) =>
         RunningAttempt(cur[w], att[w]) /\ status = EnterStatus[cur[w]]
  /\ \A t \in threads : RequireLease(t.handle) => RunningAttempt(t.step, t.attempt)

(* A step whose attempt was given up is not published by its late result:  *)
(* a commit changes the run only from the worker whose lease is current.   *)
OnlyTheHolderCommits ==
  [][ \A s \in Steps : published'[s] # published[s] =>
        \E w \in Workers :
          /\ pc[w] = "publishing" /\ pc'[w] = "published"
          /\ handle[w].generation = leaseGeneration /\ ~leaseExpired
          /\ cur[w] = s ]_allVars

(* The workers use the store's commands and nothing else: every worker     *)
(* step is a store command presented with the current snapshot, or changes *)
(* nothing of the run.                                                     *)
ImplementsStore == Spec

(* A queued run is executed until it needs its user or ends, unless its    *)
(* worker fails: a run abandoned in a phase is nobody's.                   *)
QueuedRunIsServed ==
  status = "queued"
    ~> (status = "waiting_for_input" \/ status \in TerminalRunStatuses \/ faults > 0)

(* A queued run is started in spite of crashes, stalls and failed database  *)
(* calls of the workers that tried before.                                 *)
QueuedRunIsStarted == status = "queued" ~> status # "queued"

(* A decided checkpoint gives the run back to execution: it ends, or asks  *)
(* again.                                                                  *)
DecidedRunIsServed ==
  (status \in Phases /\ \E s \in Steps : stepStatus[s] = "pending" /\ checkpoint[s] = "decided")
     ~> (status = "waiting_for_input" \/ status \in TerminalRunStatuses)
====
