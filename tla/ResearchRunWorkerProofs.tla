---- MODULE ResearchRunWorkerProofs ----
(***************************************************************************)
(* Every step of the workers, their threads and their environment is one   *)
(* command of the store, presented with the snapshot the run has at that   *)
(* moment, or leaves the run alone.  So every theorem about the store      *)
(* holds of the workers, however many there are.                           *)
(***************************************************************************)
EXTENDS ResearchRunWorker, WorkflowStoreProofs, FiniteSetTheorems, WellFoundedInduction

(* What passes the fence is the current grant and snapshot.                *)
LEMMA FenceIsCurrent ==
  ASSUME NEW h, RequireLease(h)
  PROVE  RequireLease(CurrentHandle) /\ h.status = status
BY DEF RequireLease, CurrentHandle, Handle

(* A store command accepted for some handle is the command for the current *)
(* handle: the command reads nothing else of what it is presented with.    *)
LEMMA CommandsAreCurrent ==
  ASSUME NEW h
  PROVE  /\ AcquireLease(h) => Next
         /\ AppendActivityEvent(h) => Next
         /\ \A s \in Steps : BeginStep(h, s) => Next
         /\ \A s \in Steps : \A a \in 1..Len(attempts[s]) :
              /\ RecordRetryableFailure(h, s, a) => Next
              /\ FailRun(h, s, a) => Next
              /\ AsksForRepair(s) /\ RequestCheckpoint(h, s, a) => Next
              /\ PublishStepOutputs(h, s, a) => Next
<1>1. AcquireLease(h) => Next
  BY DEF AcquireLease, CurrentHandle, Handle, Next
<1>2. AppendActivityEvent(h) => Next
  BY FenceIsCurrent DEF AppendActivityEvent, Next
<1>3. \A s \in Steps : BeginStep(h, s) => Next
  <2> SUFFICES ASSUME NEW s \in Steps, BeginStep(h, s) PROVE Next
    OBVIOUS
  <2>1. MayBegin(CurrentHandle, s)
    BY FenceIsCurrent DEF BeginStep, MayBegin, CurrentHandle, Handle
  <2>2. BeginStep(CurrentHandle, s)
    BY <2>1 DEF BeginStep
  <2> QED BY <2>2 DEF Next, StepCommand
<1>4. ASSUME NEW s \in Steps, NEW a \in 1..Len(attempts[s])
      PROVE  /\ RecordRetryableFailure(h, s, a) => AttemptCommand(CurrentHandle, s, a)
             /\ FailRun(h, s, a) => AttemptCommand(CurrentHandle, s, a)
             /\ AsksForRepair(s) /\ RequestCheckpoint(h, s, a) => AttemptCommand(CurrentHandle, s, a)
             /\ PublishStepOutputs(h, s, a) => AttemptCommand(CurrentHandle, s, a)
  <2>1. RecordRetryableFailure(h, s, a) => RecordRetryableFailure(CurrentHandle, s, a)
    BY FenceIsCurrent DEF RecordRetryableFailure
  <2>2. FailRun(h, s, a) => FailRun(CurrentHandle, s, a)
    BY FenceIsCurrent DEF FailRun
  <2>3. RequestCheckpoint(h, s, a) => RequestCheckpoint(CurrentHandle, s, a)
    BY FenceIsCurrent DEF RequestCheckpoint
  <2>4. PublishStepOutputs(h, s, a) => PublishStepOutputs(CurrentHandle, s, a)
    BY FenceIsCurrent DEF PublishStepOutputs, MayPublish
  <2> QED BY <2>1, <2>2, <2>3, <2>4 DEF AttemptCommand
<1>5. ASSUME NEW s \in Steps, NEW a \in 1..Len(attempts[s]), AttemptCommand(CurrentHandle, s, a)
      PROVE  Next
  BY <1>5 DEF Next, StepCommand
<1> QED BY <1>1, <1>2, <1>3, <1>4, <1>5

(* The attempt a worker or a thread names exists whenever the store        *)
(* accepts it.                                                             *)
LEMMA NamedAttemptExists ==
  ASSUME NEW h, NEW s, NEW a,
         RecordRetryableFailure(h, s, a) \/ FailRun(h, s, a) \/ RequestCheckpoint(h, s, a)
           \/ PublishStepOutputs(h, s, a)
  PROVE  a \in 1..Len(attempts[s])
BY DEF RecordRetryableFailure, FailRun, RequestCheckpoint, PublishStepOutputs, MayPublish,
       RunningAttempt

(* A move of the event loop keeps workers and threads within the plan when *)
(* the step it moves to is one of the plan.                                *)
LEMMA MoveKeepsPlaced ==
  ASSUME Placed, NEW w \in Workers, NEW label \in Places, Goto(w, label),
         NEW c, cur' = [cur EXCEPT ![w] = c],
         label \in Executing \cup {"rejecting", "recorded"} => c \in Steps,
         \A t \in threads' : t.step \in Steps
  PROVE  Placed'
<1>1. pc' \in [Workers -> Places] /\ pc' = [pc EXCEPT ![w] = label]
  BY DEF Placed, Goto
<1>2. /\ cur' = [v \in Workers |-> cur'[v]] /\ cur'[w] = c
      /\ \A v \in Workers \ {w} : cur'[v] = cur[v]
  BY DEF Placed
<1>3. \A v \in Workers : pc'[v] \in Executing \cup {"rejecting", "recorded"} => cur'[v] \in Steps
  BY <1>1, <1>2 DEF Placed
<1> QED BY <1>1, <1>2, <1>3 DEF Placed

(* A move within a step keeps the worker on that step.                     *)
LEMMA StayKeepsPlaced ==
  ASSUME Placed, NEW w \in Workers, NEW label \in Places, Goto(w, label), UNCHANGED cur,
         label \in Executing \cup {"rejecting", "recorded"} => cur[w] \in Steps,
         \A t \in threads' : t.step \in Steps
  PROVE  Placed'
<1>1. cur' = [cur EXCEPT ![w] = cur[w]]
  BY DEF Placed
<1> QED BY <1>1, MoveKeepsPlaced

(* A worker that drops the run is idle again, on no step.                  *)
LEMMA LeaveKeepsPlaced ==
  ASSUME Placed, NEW w \in Workers, Leave(w), threads' \subseteq threads
  PROVE  Placed'
<1>1. /\ "idle" \in Places /\ "idle" \notin Executing \cup {"rejecting", "recorded"}
      /\ Goto(w, "idle") /\ cur' = [cur EXCEPT ![w] = 0]
      /\ \A t \in threads' : t.step \in Steps
  BY DEF Leave, Places, Executing, Placed
<1> QED BY <1>1, MoveKeepsPlaced

(* Where the loop stays within the plan, and what it does to the run.      *)
LEMMA LoopStepRefines ==
  ASSUME Placed, NEW w \in Workers, LoopStep(w)
  PROVE  Placed' /\ [Next]_storeVars
<1> USE DEF Placed, Places, Executing
<1>1. CASE Poll(w) \/ Open(w)
  BY <1>1, StayKeepsPlaced DEF Poll, Open
<1>2. CASE Lease(w)
  BY <1>2, StayKeepsPlaced, CommandsAreCurrent DEF Lease
<1>3. CASE LeaseRefused(w) \/ PreflightRefused(w) \/ BeginRefused(w) \/ JoinCheckpoint(w)
           \/ PublishRefused(w)
  BY <1>3, LeaveKeepsPlaced DEF LeaseRefused, PreflightRefused, BeginRefused, JoinCheckpoint,
     PublishRefused
<1>4. CASE Start(w) \/ NextStep(w)
  BY <1>4, MoveKeepsPlaced DEF Start, NextStep, LoadSnapshot
<1>5. CASE PreflightBegin(w)
  <2>1. 1 \in Steps
    BY ChainAssumption DEF Steps
  <2> QED BY <1>5, <2>1, MoveKeepsPlaced, CommandsAreCurrent DEF PreflightBegin
<1>6. CASE PreflightFail(w)
  BY <1>6, LeaveKeepsPlaced, CommandsAreCurrent, NamedAttemptExists DEF PreflightFail
<1>7. CASE Begin(w)
  BY <1>7, StayKeepsPlaced, CommandsAreCurrent DEF Begin
<1>8. CASE FirstRenewal(w)
  <2>1. \A t \in threads' : t.step \in Steps
    BY <1>8 DEF FirstRenewal, Thread
  <2> QED BY <1>8, <2>1, StayKeepsPlaced DEF FirstRenewal, HeartbeatLease
<1>9. CASE Join(w)
  <2>1. CASE result[w] = "prepared"
    BY <1>9, <2>1, StayKeepsPlaced DEF Join
  <2>2. CASE result[w] = "retryable"
    BY <1>9, <2>2, StayKeepsPlaced DEF Join
  <2>3. CASE result[w] = "fatal"
    BY <1>9, <2>3, StayKeepsPlaced DEF Join
  <2> QED BY <1>9, <2>1, <2>2, <2>3 DEF Join
<1>10. CASE RecordFailure(w)
  <2>1. Placed'
    BY <1>10, StayKeepsPlaced DEF RecordFailure
  <2>2. [Next]_storeVars
    BY <1>10, CommandsAreCurrent, NamedAttemptExists DEF RecordFailure
  <2> QED BY <2>1, <2>2
<1>11. CASE AfterFailure(w)
  <2>1. CASE stepStatus[cur[w]] = "pending"
    BY <1>11, <2>1, MoveKeepsPlaced DEF AfterFailure, LoadSnapshot
  <2>2. CASE stepStatus[cur[w]] # "pending"
    BY <1>11, <2>2, LeaveKeepsPlaced DEF AfterFailure
  <2> QED BY <2>1, <2>2, <1>11 DEF AfterFailure
<1>12. CASE Publish(w)
  BY <1>12, StayKeepsPlaced, CommandsAreCurrent, NamedAttemptExists DEF Publish
<1> QED BY <1>1, <1>2, <1>3, <1>4, <1>5, <1>6, <1>7, <1>8, <1>9, <1>10, <1>11, <1>12 DEF LoopStep

(* What a runner thread does to the database is a store command or         *)
(* nothing.                                                                *)
LEMMA ThreadStepRefines ==
  ASSUME Placed, NEW t \in threads, Prepare(t) \/ Ask(t) \/ ThreadRaises(t) \/ EmitActivity(t)
  PROVE  Placed' /\ [Next]_storeVars
<1>1. t.step \in Steps
  BY DEF Placed
<1>2. UNCHANGED <<pc, cur>> /\ threads' \subseteq threads
  BY DEF Prepare, Ask, ThreadRaises, EmitActivity, Ends, workerVars
<1>3. Placed'
  BY <1>2 DEF Placed
<1>4. [Next]_storeVars
  BY <1>1, CommandsAreCurrent, NamedAttemptExists DEF Prepare, Ask, ThreadRaises, EmitActivity
<1> QED BY <1>3, <1>4

(* Every step of the workers is a store step or a stutter.                 *)
LEMMA WorkerNextRefines ==
  ASSUME Placed, [WorkerNext]_allVars
  PROVE  Placed' /\ [Next]_storeVars
<1>1. ASSUME NEW w \in Workers, LoopStep(w) PROVE Placed' /\ [Next]_storeVars
  BY <1>1, LoopStepRefines
<1>2. ASSUME NEW w \in Workers, RenewalRaises(w) PROVE Placed' /\ [Next]_storeVars
  <2>1. UNCHANGED storeVars
    BY <1>2 DEF RenewalRaises
  <2>2. cur[w] \in Steps /\ Goto(w, "recordingFatal") /\ UNCHANGED <<cur, threads>>
    BY <1>2 DEF RenewalRaises, Placed, Executing
  <2> QED BY <2>1, <2>2, StayKeepsPlaced DEF Placed, Places, Executing
<1>3. ASSUME NEW w \in Workers, ThreadStep(w) PROVE Placed' /\ [Next]_storeVars
  BY <1>3, ThreadStepRefines DEF ThreadStep
<1>4. ASSUME NEW w \in Workers, Crash(w) \/ DatabaseError(w) PROVE Placed' /\ [Next]_storeVars
  BY <1>4, LeaveKeepsPlaced DEF Crash, DatabaseError
<1>5. ASSUME NEW t \in threads, EmitActivity(t) PROVE Placed' /\ [Next]_storeVars
  BY <1>5, ThreadStepRefines
<1>6. CASE Cancel
  BY <1>6 DEF Cancel, Next, Placed, workerVars
<1>7. CASE Decide
  <2>1. PICK s \in Steps : SubmitCheckpointDecision(CurrentHandle, s)
    BY <1>7 DEF Decide
  <2>2. Next
    BY <2>1 DEF Next, StepCommand
  <2> QED BY <1>7, <2>2 DEF Decide, Placed, workerVars
<1>8. CASE LeaseRunsOut
  BY <1>8 DEF LeaseRunsOut, Next, Placed
<1>9. CASE UNCHANGED allVars
  BY <1>9 DEF allVars, workerVars, Placed
<1> QED BY <1>1, <1>2, <1>3, <1>4, <1>5, <1>6, <1>7, <1>8, <1>9 DEF WorkerNext

(* Any number of workers, with every crash, stall and abandoned thread,    *)
(* behave as the store allows.                                             *)
THEOREM WorkersImplementStore == WorkerSpec => ImplementsStore
<1>1. WorkerInit => Init /\ Placed
  BY DEF WorkerInit, Placed, Places, Executing
<1>2. Placed /\ [WorkerNext]_allVars => Placed' /\ [Next]_storeVars
  BY WorkerNextRefines
<1> QED BY <1>1, <1>2, PTL DEF WorkerSpec, Spec, ImplementsStore

(* So the run the workers execute has the store's whole safety, and        *)
(* implements the lifecycle.                                               *)
THEOREM WorkersAreSafe == WorkerSpec => []StoreInv /\ ImplementsLifecycle
<1>1. ImplementsStore => Spec
  BY DEF ImplementsStore
<1> QED BY <1>1, WorkersImplementStore, StoreSafety, StoreImplementsLifecycle, PTL

-----------------------------------------------------------------------------
(* The types of the workers.                                               *)

(* A set of positions that is not empty has a first one.                   *)
LEMMA FirstPosition ==
  ASSUME NEW n \in Nat, NEW S, S \subseteq 1..n, S # {}
  PROVE  \E m \in S : \A k \in S : m <= k
<1> DEFINE Prefixes == {1..k : k \in S}
<1>1. IsWellFoundedOn(StrictSubsetOrdering(1..n), FiniteSubsetsOf(1..n))
  BY FS_StrictSubsetOrderingWellFounded
<1>2. Prefixes \subseteq FiniteSubsetsOf(1..n) /\ Prefixes # {}
  <2>1. ASSUME NEW k \in S PROVE IsFiniteSet(1..k) /\ 1..k \subseteq 1..n
    BY FS_Interval
  <2> QED BY <2>1 DEF FiniteSubsetsOf
<1>3. PICK P \in Prefixes : \A Q \in Prefixes : ~ (<<Q, P>> \in StrictSubsetOrdering(1..n))
  BY <1>1, <1>2, WFMin
<1>4. PICK m \in S : P = 1..m
  OBVIOUS
<1>5. ASSUME NEW k \in S PROVE m <= k
  <2> SUFFICES ASSUME k < m PROVE FALSE
    OBVIOUS
  <2>1. 1..k \in Prefixes
    OBVIOUS
  <2>2. 1..k \subseteq 1..n /\ P \subseteq 1..n /\ 1..k \subseteq P /\ 1..k # P
    BY <1>4
  <2> QED BY <1>3, <2>1, <2>2 DEF StrictSubsetOrdering
<1> QED BY <1>5

(* The loop over the planned steps stops at a step or past the last one.   *)
LEMMA FirstIncompleteType == FirstIncomplete \in 1..(StepCount + 1)
<1> DEFINE Todo == {s \in Steps : stepStatus[s] # "completed"}
           IsFirst(s) == /\ stepStatus[s] # "completed"
                         /\ \A p \in 1..(s - 1) : stepStatus[p] = "completed"
<1>1. CASE Todo = {}
  BY <1>1, ChainAssumption DEF FirstIncomplete, Steps
<1>2. CASE Todo # {}
  <2>1. PICK m \in Todo : \A k \in Todo : m <= k
    BY <1>2, ChainAssumption, FirstPosition DEF Steps
  <2>2. m \in Steps /\ IsFirst(m)
    BY <2>1, ChainAssumption DEF Steps
  <2>3. (CHOOSE s \in Steps : IsFirst(s)) \in Steps
    BY <2>2
  <2>4. FirstIncomplete = CHOOSE s \in Steps : IsFirst(s)
    BY <1>2 DEF FirstIncomplete
  <2> QED BY <2>3, <2>4, ChainAssumption DEF Steps
<1> QED BY <1>1, <1>2

(* What a worker may hold.                                                 *)
HeldHandles == [token : Nat, generation : Nat,
                status : RunStatuses \cup {"none"}, revision : Nat]
Results == {"none", "prepared", "retryable", "fatal", "asked"}

(* The types besides the place, which is Placed.                           *)
ValuesTyped ==
  /\ cur \in [Workers -> 0..(StepCount + 1)]
  /\ handle \in [Workers -> HeldHandles] /\ att \in [Workers -> Nat]
  /\ result \in [Workers -> Results]
  /\ threads \subseteq [worker : Workers, handle : HeldHandles, step : Steps, attempt : Nat]
  /\ faults \in 0..MaxFaults

LEMMA TypesInParts == WorkerTypeOK <=> Placed /\ ValuesTyped
BY DEF WorkerTypeOK, ValuesTyped, HeldHandles, Results

LEMMA FaultsTyped ==
  ASSUME ValuesTyped, Fault \/ UNCHANGED faults PROVE faults' \in 0..MaxFaults
BY WorkerAssumption DEF ValuesTyped, Fault

(* A handle built from the run is one a worker may hold.                   *)
LEMMA SnapshotType ==
  ASSUME TypeOK
  PROVE  /\ \A t, g \in Nat : Handle(t, g, status, revision) \in HeldHandles
         /\ NoHandle \in HeldHandles
BY DEF TypeOK, Handle, HeldHandles, NoHandle

LEMMA LeaveTypes ==
  ASSUME TypeOK, ValuesTyped, NEW w \in Workers, Leave(w), threads' \subseteq threads,
         Fault \/ UNCHANGED faults
  PROVE  ValuesTyped'
<1>1. 0 \in 0..(StepCount + 1) /\ 0 \in Nat /\ "none" \in Results /\ NoHandle \in HeldHandles
  BY SnapshotType, ChainAssumption DEF Results
<1> QED BY <1>1, FaultsTyped DEF ValuesTyped, Leave

(* A worker that looks at the run again keeps its grant.                   *)
Looked(h, st, r) == [h EXCEPT !.status = st, !.revision = r]

LEMMA LookedFacts ==
  ASSUME NEW h \in HeldHandles, NEW st \in RunStatuses, NEW r \in Nat
  PROVE  /\ Looked(h, st, r) \in HeldHandles
         /\ Looked(h, st, r).token = h.token /\ Looked(h, st, r).generation = h.generation
         /\ Looked(h, st, r).status = st /\ Looked(h, st, r).revision = r
BY DEF HeldHandles, Looked

LooksAgain(w, st, r) == handle' = [handle EXCEPT ![w].status = st, ![w].revision = r]

LEMMA LooksAgainFacts ==
  ASSUME ValuesTyped, NEW w \in Workers, NEW st \in RunStatuses, NEW r \in Nat,
         LooksAgain(w, st, r)
  PROVE  /\ handle' \in [Workers -> HeldHandles]
         /\ handle'[w].token = handle[w].token /\ handle'[w].revision = r
         /\ \A v \in Workers \ {w} : handle'[v] = handle[v]
<1>1. handle' = [handle EXCEPT ![w] = Looked(handle[w], st, r)]
  BY DEF LooksAgain, Looked
<1>2. handle \in [Workers -> HeldHandles] /\ handle[w] \in HeldHandles
  BY DEF ValuesTyped
<1> QED BY <1>1, <1>2, LookedFacts

LEMMA LoadFacts ==
  ASSUME TypeOK, ValuesTyped, NEW w \in Workers, LoadSnapshot(w)
  PROVE  /\ handle' \in [Workers -> HeldHandles] /\ cur' \in [Workers -> 0..(StepCount + 1)]
         /\ handle'[w].token = handle[w].token /\ handle'[w].revision = revision
         /\ \A v \in Workers \ {w} : handle'[v] = handle[v] /\ cur'[v] = cur[v]
<1>1. LooksAgain(w, status, revision) /\ cur' = [cur EXCEPT ![w] = FirstIncomplete]
  BY DEF LoadSnapshot, LooksAgain
<1>2. status \in RunStatuses /\ revision \in Nat /\ cur \in [Workers -> 0..(StepCount + 1)]
  BY DEF TypeOK, ValuesTyped
<1>3. FirstIncomplete \in 0..(StepCount + 1)
  BY FirstIncompleteType, ChainAssumption
<1> QED BY <1>1, <1>2, <1>3, LooksAgainFacts

(* The snapshot a worker keeps after a step it began.                      *)
LEMMA BegunFacts ==
  ASSUME TypeOK, ValuesTyped, NEW w \in Workers, NEW h, NEW s \in Steps, BeginStep(h, s), TypeOK',
         LooksAgain(w, status', revision'), att' = [att EXCEPT ![w] = Len(attempts'[s])]
  PROVE  /\ handle' \in [Workers -> HeldHandles] /\ att' \in [Workers -> Nat]
         /\ handle'[w].token = handle[w].token /\ handle'[w].revision = revision'
         /\ att'[w] = Len(attempts[s]) + 1
         /\ \A v \in Workers \ {w} : handle'[v] = handle[v] /\ att'[v] = att[v]
<1>1. status' \in RunStatuses /\ revision' \in Nat /\ att \in [Workers -> Nat]
  BY DEF TypeOK, ValuesTyped
<1>2. Len(attempts[s]) \in Nat /\ Len(attempts'[s]) = Len(attempts[s]) + 1
  BY BeginFacts, AttemptsType DEF LastAttempt
<1> QED BY <1>1, <1>2, LooksAgainFacts

LEMMA EndsTypes ==
  ASSUME ValuesTyped, NEW t \in threads, NEW outcome \in Results, Ends(t, outcome)
  PROVE  /\ result' \in [Workers -> Results]
         /\ threads' \subseteq [worker : Workers, handle : HeldHandles, step : Steps, attempt : Nat]
BY DEF ValuesTyped, Ends

(* Every step keeps what the workers hold typed.                           *)
LEMMA ValuesStayTyped ==
  ASSUME TypeOK, TypeOK', Placed, ValuesTyped, [WorkerNext]_allVars
  PROVE  ValuesTyped'
<1>1. ASSUME NEW w \in Workers, LoopStep(w) PROVE ValuesTyped'
  <2>1. CASE Poll(w) \/ Join(w) \/ RecordFailure(w) \/ Publish(w)
    <3>1. "none" \in Results
      BY DEF Results
    <3> QED BY <2>1, <3>1, FaultsTyped DEF Poll, Join, RecordFailure, Publish, ValuesTyped
  <2>2. CASE Open(w)
    <3>1. Handle(0, 0, status, revision) \in HeldHandles
      BY SnapshotType
    <3> QED BY <2>2, <3>1 DEF Open, ValuesTyped
  <2>3. CASE Lease(w)
    <3>1. leaseToken' \in Nat /\ leaseGeneration' \in Nat /\ revision' \in Nat
          /\ status \in RunStatuses
      BY DEF TypeOK
    <3>2. Handle(leaseToken', leaseGeneration', status, revision') \in HeldHandles
      BY <3>1 DEF Handle, HeldHandles
    <3> QED BY <2>3, <3>2 DEF Lease, ValuesTyped
  <2>4. CASE LeaseRefused(w) \/ PreflightRefused(w) \/ PreflightFail(w) \/ BeginRefused(w)
             \/ JoinCheckpoint(w) \/ PublishRefused(w)
    BY <2>4, LeaveTypes DEF LeaseRefused, PreflightRefused, PreflightFail, BeginRefused,
       JoinCheckpoint, PublishRefused
  <2>5. CASE Start(w) \/ NextStep(w)
    BY <2>5, LoadFacts DEF Start, NextStep, ValuesTyped
  <2>6. CASE AfterFailure(w)
    <3>1. CASE stepStatus[cur[w]] = "pending"
      BY <2>6, <3>1, LoadFacts DEF AfterFailure, ValuesTyped
    <3>2. CASE stepStatus[cur[w]] # "pending"
      BY <2>6, <3>2, LeaveTypes DEF AfterFailure
    <3> QED BY <3>1, <3>2
  <2>7. CASE PreflightBegin(w)
    <3>1. 1 \in Steps /\ 1 \in 0..(StepCount + 1)
      BY ChainAssumption DEF Steps
    <3> QED BY <2>7, <3>1, BegunFacts DEF PreflightBegin, LooksAgain, ValuesTyped
  <2>8. CASE Begin(w)
    BY <2>8, BegunFacts DEF Begin, LooksAgain, ValuesTyped
  <2>9. CASE FirstRenewal(w)
    <3>1. cur[w] \in Steps /\ handle[w] \in HeldHandles /\ att[w] \in Nat
      BY <2>9 DEF FirstRenewal, Placed, Executing, ValuesTyped
    <3> QED BY <2>9, <3>1 DEF FirstRenewal, Thread, ValuesTyped
  <2> QED BY <1>1, <2>1, <2>2, <2>3, <2>4, <2>5, <2>6, <2>7, <2>8, <2>9 DEF LoopStep
<1>2. ASSUME NEW w \in Workers, RenewalRaises(w) PROVE ValuesTyped'
  <2>1. "none" \in Results
    BY DEF Results
  <2> QED BY <1>2, <2>1, FaultsTyped DEF RenewalRaises, ValuesTyped
<1>3. ASSUME NEW w \in Workers, ThreadStep(w) PROVE ValuesTyped'
  <2>1. PICK t \in threads : Prepare(t) \/ Ask(t) \/ ThreadRaises(t)
    BY <1>3 DEF ThreadStep
  <2>2. PICK outcome \in Results : Ends(t, outcome)
    BY <2>1 DEF Prepare, Ask, ThreadRaises, Results
  <2> QED BY <2>1, <2>2, EndsTypes DEF Prepare, Ask, ThreadRaises, ValuesTyped
<1>4. ASSUME NEW w \in Workers, Crash(w) \/ DatabaseError(w) PROVE ValuesTyped'
  BY <1>4, LeaveTypes DEF Crash, DatabaseError
<1>5. CASE Cancel \/ Decide \/ \E t \in threads : EmitActivity(t)
  BY <1>5 DEF Cancel, Decide, EmitActivity, ValuesTyped, workerVars
<1>6. CASE LeaseRunsOut
  BY <1>6, FaultsTyped DEF LeaseRunsOut, ValuesTyped
<1>7. CASE UNCHANGED allVars
  BY <1>7 DEF allVars, workerVars, ValuesTyped
<1> QED BY <1>1, <1>2, <1>3, <1>4, <1>5, <1>6, <1>7 DEF WorkerNext

-----------------------------------------------------------------------------
(* Whose attempt a lease stands for.                                       *)

(* A handle is of a grant and a revision the run has had, and no two       *)
(* workers have the same grant.                                            *)
GrantsAreOwn ==
  /\ \A w \in Workers : handle[w].token <= leaseGeneration /\ handle[w].revision <= revision
  /\ \A v, w \in Workers : handle[v].token = handle[w].token /\ handle[w].token # 0 => v = w

(* A worker at these places, its lease being current, has no thread alive. *)
Quiet(w) ==
  \/ pc[w] \in {"renewing", "publishing", "recordingRetry"}
  \/ pc[w] = "running" /\ result[w] # "none"

Mine(w) ==
  pc[w] \in Executing /\ RequireLease(handle[w]) =>
    RunningAttempt(cur[w], att[w]) /\ status = EnterStatus[cur[w]]

Alone(w) ==
  /\ pc[w] # "running" => result[w] = "none"
  /\ Quiet(w) /\ RequireLease(handle[w]) => threads = {}

(* A thread works on the running attempt of the run, or the run is over;   *)
(* there is no second one.                                                 *)
ThreadsRun ==
  \A t \in threads : RunningAttempt(t.step, t.attempt) \/ status \in TerminalRunStatuses
OneThread == \A t, u \in threads : t = u

(* The inductive invariant: a grant tells its worker what the store would  *)
(* tell it, because nobody else can change the run without the revision    *)
(* showing it.                                                             *)
WorkerInv ==
  /\ StoreInv /\ LeaseIsNewest /\ Placed /\ ValuesTyped /\ GrantsAreOwn
  /\ \A w \in Workers : Mine(w) /\ Alone(w)
  /\ ThreadsRun /\ OneThread

LEMMA WorkerInitInv == WorkerInit => WorkerInv
<1> SUFFICES ASSUME WorkerInit PROVE WorkerInv
  OBVIOUS
<1>1. StoreInv /\ LeaseIsNewest
  BY InitEstablishes DEF WorkerInit, Init, LeaseIsNewest
<1>2. Placed
  BY DEF WorkerInit, Placed, Places, Executing
<1>3. TypeOK
  BY <1>1 DEF StoreInv
<1>4. 0 \in 0..(StepCount + 1) /\ NoHandle \in HeldHandles /\ 0 \in 0..MaxFaults
  BY <1>3, SnapshotType, ChainAssumption, WorkerAssumption
<1>5. ValuesTyped
  BY <1>4 DEF WorkerInit, ValuesTyped, Results
<1>6. \A w \in Workers : handle[w].token = 0 /\ handle[w].revision = 0
  BY DEF WorkerInit, NoHandle, Handle
<1>7. GrantsAreOwn
  BY <1>3, <1>6 DEF GrantsAreOwn, TypeOK
<1>8. \A w \in Workers : Mine(w) /\ Alone(w)
  BY DEF WorkerInit, Mine, Alone, Executing, Quiet
<1>9. ThreadsRun /\ OneThread
  BY DEF WorkerInit, ThreadsRun, OneThread
<1> QED BY <1>1, <1>2, <1>5, <1>7, <1>8, <1>9 DEF WorkerInv

(* A handle that passes the fence after a step passed it before, and the   *)
(* step left the attempts of the run alone.                                *)
LEMMA FenceIsFresh ==
  ASSUME WorkerInv, [Next]_storeVars, NEW w \in Workers, handle'[w] = handle[w],
         RequireLease(handle[w])'
  PROVE  RequireLease(handle[w]) /\ UNCHANGED <<status, stepStatus, attempts>>
<1>1. /\ status' = handle[w].status /\ revision' = handle[w].revision
      /\ leaseToken' = handle[w].token /\ leaseGeneration' = handle[w].generation
      /\ leaseToken' # 0 /\ ~leaseExpired' /\ status' \notin TerminalRunStatuses
  BY DEF RequireLease
<1>2. handle[w].revision <= revision /\ revision \in Nat /\ handle[w].revision \in Nat
  BY DEF WorkerInv, GrantsAreOwn, ValuesTyped, HeldHandles, StoreInv, TypeOK
<1>3. /\ UNCHANGED <<revision, leaseGeneration>> /\ Seen' = Seen
      /\ leaseExpired => leaseExpired'
  BY <1>1, <1>2, CommandIsFenced DEF WorkerInv
<1> QED BY <1>1, <1>3 DEF RequireLease, Seen

(* A worker that keeps its place and its attempt, or moves on among the    *)
(* places where it executes, keeps knowing that the attempt is its own.    *)
LEMMA MineKept ==
  ASSUME WorkerInv, [Next]_storeVars, NEW w \in Workers,
         handle'[w] = handle[w], cur'[w] = cur[w], att'[w] = att[w],
         pc'[w] \in Executing => pc[w] \in Executing
  PROVE  Mine(w)'
<1> SUFFICES ASSUME pc'[w] \in Executing, RequireLease(handle[w])'
             PROVE  (RunningAttempt(cur[w], att[w]) /\ status = EnterStatus[cur[w]])'
  BY DEF Mine, Executing
<1>1. RequireLease(handle[w]) /\ UNCHANGED <<status, stepStatus, attempts>>
  BY FenceIsFresh
<1>2. RunningAttempt(cur[w], att[w]) /\ status = EnterStatus[cur[w]]
  BY <1>1 DEF WorkerInv, Mine
<1> QED BY <1>1, <1>2 DEF RunningAttempt

LEMMA AloneKept ==
  ASSUME WorkerInv, [Next]_storeVars, NEW w \in Workers, handle'[w] = handle[w],
         Quiet(w)' => Quiet(w), threads' \subseteq threads,
         pc'[w] # "running" => result'[w] = "none"
  PROVE  Alone(w)'
<1>1. ASSUME Quiet(w)', RequireLease(handle[w])' PROVE threads' = {}
  <2>1. RequireLease(handle[w])
    BY <1>1, FenceIsFresh
  <2> QED BY <1>1, <2>1 DEF WorkerInv, Alone
<1> QED BY <1>1 DEF Alone

(* The workers a step does not touch.                                      *)
Untouched(w) ==
  \A v \in Workers \ {w} : /\ pc'[v] = pc[v] /\ handle'[v] = handle[v] /\ cur'[v] = cur[v]
                          /\ att'[v] = att[v] /\ result'[v] = result[v]

LEMMA OthersKept ==
  ASSUME WorkerInv, [Next]_storeVars, NEW w, Untouched(w), threads' \subseteq threads
  PROVE  \A v \in Workers \ {w} : Mine(v)' /\ Alone(v)'
<1> SUFFICES ASSUME NEW v \in Workers \ {w} PROVE Mine(v)' /\ Alone(v)'
  OBVIOUS
<1>1. /\ pc'[v] = pc[v] /\ handle'[v] = handle[v] /\ cur'[v] = cur[v]
      /\ att'[v] = att[v] /\ result'[v] = result[v]
  BY DEF Untouched
<1>2. Mine(v)'
  BY <1>1, MineKept
<1>3. (Quiet(v)' => Quiet(v)) /\ (pc'[v] # "running" => result'[v] = "none")
  BY <1>1 DEF Quiet, WorkerInv, Alone
<1> QED BY <1>1, <1>2, <1>3, AloneKept

(* What a step of worker w owes the invariant: its own entries, the        *)
(* threads and its handle.                                                 *)
LEMMA WorkerStepKeeps ==
  ASSUME WorkerInv, [Next]_storeVars, Placed', ValuesTyped', NEW w \in Workers, Untouched(w),
         threads' \subseteq threads,
         handle'[w].revision <= revision',
         \/ handle'[w].token \in {0, handle[w].token}
         \/ handle'[w].token = leaseGeneration' /\ leaseGeneration < leaseGeneration',
         Mine(w)', Alone(w)', ThreadsRun'
  PROVE  WorkerInv'
<1>1. StoreInv' /\ LeaseIsNewest' /\ leaseGeneration <= leaseGeneration' /\ revision <= revision'
  <2>1. StoreInv' /\ LeaseIsNewest' /\ leaseGeneration <= leaseGeneration'
    BY StoreInvInductive, LeaseStaysNewest DEF WorkerInv, StoreInv
  <2>2. revision \in Nat /\ (revision' = revision + 1 \/ revision' = revision)
    BY CommandIsFenced DEF WorkerInv, StoreInv, TypeOK
  <2> QED BY <2>1, <2>2
<1>2. GrantsAreOwn'
  <2>1. /\ revision \in Nat /\ revision' \in Nat
        /\ leaseGeneration \in Nat /\ leaseGeneration' \in Nat
    BY <1>1 DEF WorkerInv, StoreInv, TypeOK
  <2>2. \A v \in Workers : /\ handle[v].token \in Nat /\ handle'[v].token \in Nat
                          /\ handle[v].revision \in Nat
    BY DEF WorkerInv, ValuesTyped, HeldHandles
  <2>3. \A v \in Workers : /\ handle[v].token <= leaseGeneration
                          /\ handle[v].revision <= revision
    BY DEF WorkerInv, GrantsAreOwn
  <2>4. \A v \in Workers \ {w} : handle'[v] = handle[v]
    BY DEF Untouched
  <2>5. \A v \in Workers : /\ handle'[v].token <= leaseGeneration'
                          /\ handle'[v].revision <= revision'
    BY <1>1, <2>1, <2>2, <2>3, <2>4
  <2>6. \A v \in Workers \ {w} : handle'[w].token # 0 => handle'[v].token # handle'[w].token
    BY <1>1, <2>1, <2>2, <2>3, <2>4 DEF WorkerInv, GrantsAreOwn
  <2>7. \A u, v \in Workers \ {w} :
          handle'[u].token = handle'[v].token /\ handle'[v].token # 0 => u = v
    BY <2>4 DEF WorkerInv, GrantsAreOwn
  <2> QED BY <2>5, <2>6, <2>7 DEF GrantsAreOwn
<1>3. \A v \in Workers : Mine(v)' /\ Alone(v)'
  BY OthersKept
<1>4. OneThread'
  BY DEF WorkerInv, OneThread
<1> QED BY <1>1, <1>2, <1>3, <1>4 DEF WorkerInv

(* A step that leaves the attempt a thread works on alone, or ends the run. *)
LEMMA ThreadsKept ==
  ASSUME WorkerInv, threads' \subseteq threads,
         UNCHANGED <<status, stepStatus, attempts>> \/ status' \in TerminalRunStatuses
  PROVE  ThreadsRun'
BY DEF WorkerInv, ThreadsRun, RunningAttempt

(* A step begins only when every thread has ended: an attempt that still   *)
(* runs is of a step that stands before it.                                *)
LEMMA BeginFindsNoThread ==
  ASSUME WorkerInv, NEW h, NEW s \in Steps, BeginStep(h, s)
  PROVE  threads = {}
<1> SUFFICES ASSUME NEW t \in threads PROVE FALSE
  OBVIOUS
<1>1. /\ status \notin TerminalRunStatuses /\ stepStatus[s] = "pending"
      /\ \A p \in 1..(s - 1) : stepStatus[p] = "completed"
  BY DEF BeginStep, MayBegin, RequireLease
<1>2. t.step \in Steps /\ RunningAttempt(t.step, t.attempt)
  BY <1>1 DEF WorkerInv, ThreadsRun, Placed
<1>3. /\ stepStatus[t.step] = "running"
      /\ \A u \in Steps : u < t.step => stepStatus[u] = "completed"
  BY <1>2, RunningFacts DEF RunningAttempt, WorkerInv
<1>4. s < t.step \/ s = t.step \/ t.step \in 1..(s - 1)
  BY <1>2, ChainAssumption DEF Steps
<1> QED BY <1>1, <1>3, <1>4

(* Dropping the run.                                                       *)
LEMMA LeaveKeepsInv ==
  ASSUME WorkerInv, [Next]_storeVars, Placed', ValuesTyped', NEW w \in Workers, Leave(w),
         threads' \subseteq threads,
         UNCHANGED <<status, stepStatus, attempts>> \/ status' \in TerminalRunStatuses
  PROVE  WorkerInv'
<1>1. /\ pc'[w] = "idle" /\ handle'[w] = NoHandle /\ result'[w] = "none" /\ Untouched(w)
  BY DEF Leave, Goto, Untouched, WorkerInv, Placed, ValuesTyped
<1>2. handle'[w].token = 0 /\ handle'[w].revision = 0
  BY <1>1 DEF NoHandle, Handle
<1>3. Mine(w)' /\ Alone(w)'
  BY <1>1 DEF Mine, Alone, Executing, Quiet
<1>4. 0 <= revision'
  BY StoreInvInductive DEF WorkerInv, StoreInv, TypeOK
<1>5. ThreadsRun'
  BY ThreadsKept
<1> QED BY <1>1, <1>2, <1>3, <1>4, <1>5, WorkerStepKeeps

(* A move to a place where the worker does not execute, on its own grant   *)
(* and a snapshot it has just taken or had before.                         *)
LEMMA MoveKeepsInv ==
  ASSUME WorkerInv, [Next]_storeVars, Placed', ValuesTyped', NEW w \in Workers, Untouched(w),
         pc'[w] \notin Executing, result'[w] = "none", UNCHANGED threads,
         handle'[w].revision <= revision',
         \/ handle'[w].token \in {0, handle[w].token}
         \/ handle'[w].token = leaseGeneration' /\ leaseGeneration < leaseGeneration',
         \/ UNCHANGED <<status, stepStatus, attempts>>
         \/ status' \in TerminalRunStatuses
         \/ threads = {}
  PROVE  WorkerInv'
<1>1. Mine(w)'
  BY DEF Mine, Executing
<1>2. Alone(w)'
  BY DEF Alone, Executing, Quiet
<1>3. ThreadsRun'
  BY ThreadsKept DEF ThreadsRun
<1> QED BY <1>1, <1>2, <1>3, WorkerStepKeeps

(* A step of the environment, which touches no worker and no thread.       *)
LEMMA EnvironmentKeeps ==
  ASSUME WorkerInv, [Next]_storeVars, Placed', ValuesTyped',
         UNCHANGED <<pc, handle, cur, att, result, threads>>, ThreadsRun'
  PROVE  WorkerInv'
<1>1. StoreInv' /\ LeaseIsNewest' /\ leaseGeneration <= leaseGeneration' /\ revision <= revision'
  <2>1. StoreInv' /\ LeaseIsNewest' /\ leaseGeneration <= leaseGeneration'
    BY StoreInvInductive, LeaseStaysNewest DEF WorkerInv, StoreInv
  <2>2. revision \in Nat /\ (revision' = revision + 1 \/ revision' = revision)
    BY CommandIsFenced DEF WorkerInv, StoreInv, TypeOK
  <2> QED BY <2>1, <2>2
<1>2. GrantsAreOwn'
  <2>1. /\ revision \in Nat /\ revision' \in Nat
        /\ leaseGeneration \in Nat /\ leaseGeneration' \in Nat
        /\ \A v \in Workers : handle[v].token \in Nat /\ handle[v].revision \in Nat
    BY <1>1 DEF WorkerInv, StoreInv, TypeOK, ValuesTyped, HeldHandles
  <2> QED BY <1>1, <2>1 DEF WorkerInv, GrantsAreOwn
<1>3. \A v \in Workers : Mine(v)' /\ Alone(v)'
  <2> SUFFICES ASSUME NEW v \in Workers PROVE Mine(v)' /\ Alone(v)'
    OBVIOUS
  <2>1. Mine(v)'
    BY MineKept
  <2>2. (Quiet(v)' => Quiet(v)) /\ (pc'[v] # "running" => result'[v] = "none")
    BY DEF Quiet, WorkerInv, Alone
  <2> QED BY <2>1, <2>2, AloneKept
<1>4. OneThread'
  BY DEF WorkerInv, OneThread
<1> QED BY <1>1, <1>2, <1>3, <1>4 DEF WorkerInv

-----------------------------------------------------------------------------
(* The steps of the event loop.                                            *)

LEMMA LeasingKeeps ==
  ASSUME WorkerInv, [Next]_storeVars, Placed', ValuesTyped', NEW w \in Workers,
         Poll(w) \/ Open(w) \/ Lease(w)
  PROVE  WorkerInv'
<1>1. /\ handle[w].revision <= revision /\ revision \in Nat
      /\ leaseGeneration \in Nat /\ result[w] = "none"
  BY DEF WorkerInv, GrantsAreOwn, StoreInv, TypeOK, Alone, Poll, Open, Lease
<1>2. Untouched(w)
  BY DEF Poll, Open, Lease, Untouched, Goto, WorkerInv, Placed, ValuesTyped
<1>3. CASE Poll(w)
  <2>1. /\ pc'[w] = "polled" /\ UNCHANGED <<storeVars, handle, result, threads>>
    BY <1>3 DEF Poll, Goto, WorkerInv, Placed
  <2> QED BY <1>1, <1>2, <2>1, MoveKeepsInv DEF Executing, storeVars
<1>4. CASE Open(w)
  <2>1. /\ pc'[w] = "leasing" /\ UNCHANGED <<storeVars, result, threads>>
        /\ handle'[w].token = 0 /\ handle'[w].revision = revision
    BY <1>4 DEF Open, Goto, Handle, WorkerInv, Placed, ValuesTyped
  <2> QED BY <1>1, <1>2, <2>1, MoveKeepsInv DEF Executing, storeVars
<1>5. CASE Lease(w)
  <2>1. /\ pc'[w] = "granted" /\ UNCHANGED <<result, threads>>
        /\ handle'[w].token = leaseToken' /\ handle'[w].revision = revision'
    BY <1>5 DEF Lease, Goto, Handle, WorkerInv, Placed, ValuesTyped
  <2>2. /\ leaseToken' = leaseGeneration' /\ leaseGeneration < leaseGeneration'
        /\ revision' \in Nat /\ UNCHANGED <<status, stepStatus, attempts>>
    BY <1>1, <1>5 DEF Lease, AcquireLease
  <2> QED BY <1>1, <1>2, <2>1, <2>2, MoveKeepsInv DEF Executing
<1> QED BY <1>3, <1>4, <1>5

LEMMA LoadingKeeps ==
  ASSUME WorkerInv, [Next]_storeVars, Placed', ValuesTyped', NEW w \in Workers,
         \/ Start(w) \/ NextStep(w)
         \/ AfterFailure(w) /\ stepStatus[cur[w]] = "pending"
  PROVE  WorkerInv'
<1>1. /\ LoadSnapshot(w) /\ Goto(w, "ready") /\ pc[w] # "running"
      /\ UNCHANGED <<storeVars, att, result, threads>>
  BY DEF Start, NextStep, AfterFailure
<1>2. /\ handle'[w].token = handle[w].token /\ handle'[w].revision = revision
      /\ \A v \in Workers \ {w} : handle'[v] = handle[v] /\ cur'[v] = cur[v]
  BY <1>1, LoadFacts DEF WorkerInv, StoreInv
<1>3. pc'[w] = "ready" /\ result'[w] = "none" /\ Untouched(w)
  BY <1>1, <1>2 DEF Goto, Untouched, WorkerInv, Placed, Alone
<1>4. revision' = revision /\ revision \in Nat /\ UNCHANGED <<status, stepStatus, attempts>>
  BY <1>1 DEF storeVars, WorkerInv, StoreInv, TypeOK
<1> QED BY <1>1, <1>2, <1>3, <1>4, MoveKeepsInv DEF Executing

(* The step a worker begins is its own: nobody else's thread is alive.     *)
LEMMA BeginningKeeps ==
  ASSUME WorkerInv, [Next]_storeVars, Placed', ValuesTyped', NEW w \in Workers,
         PreflightBegin(w) \/ Begin(w)
  PROVE  WorkerInv'
<1> DEFINE s == cur'[w]
<1>1. TypeOK /\ TypeOK' /\ revision' \in Nat
  BY StoreInvInductive DEF WorkerInv, StoreInv, TypeOK
<1>2. /\ BeginStep(handle[w], s) /\ s \in Steps /\ LooksAgain(w, status', revision')
      /\ att' = [att EXCEPT ![w] = Len(attempts'[s])]
      /\ pc[w] # "running" /\ pc'[w] \in {"renewing", "rejecting"}
      /\ \A v \in Workers \ {w} : pc'[v] = pc[v] /\ cur'[v] = cur[v]
      /\ UNCHANGED <<result, threads>>
  <2>1. CASE Begin(w)
    <3>1. /\ BeginStep(handle[w], cur[w]) /\ cur[w] \in Steps /\ pc[w] = "ready"
          /\ LooksAgain(w, status', revision') /\ att' = [att EXCEPT ![w] = Len(attempts'[cur[w]])]
          /\ Goto(w, "renewing") /\ cur' = cur /\ UNCHANGED <<result, threads>>
      BY <2>1 DEF Begin, LooksAgain
    <3> QED BY <3>1 DEF Goto, WorkerInv, Placed
  <2>2. CASE PreflightBegin(w)
    <3>1. /\ BeginStep(handle[w], 1) /\ pc[w] = "granted"
          /\ LooksAgain(w, status', revision') /\ att' = [att EXCEPT ![w] = Len(attempts'[1])]
          /\ Goto(w, "rejecting") /\ cur' = [cur EXCEPT ![w] = 1] /\ UNCHANGED <<result, threads>>
      BY <2>2 DEF PreflightBegin, LooksAgain
    <3>2. cur \in [Workers -> 0..(StepCount + 1)] /\ 1 \in Steps
      BY ChainAssumption DEF Steps, WorkerInv, ValuesTyped
    <3> QED BY <3>1, <3>2 DEF Goto, WorkerInv, Placed
  <2> QED BY <2>1, <2>2
<1> HIDE DEF s
<1>3. threads = {}
  BY <1>2, BeginFindsNoThread
<1>4. /\ handle'[w].token = handle[w].token /\ handle'[w].revision = revision'
      /\ att'[w] = Len(attempts[s]) + 1
      /\ \A v \in Workers \ {w} : handle'[v] = handle[v] /\ att'[v] = att[v]
  BY <1>1, <1>2, BegunFacts DEF WorkerInv
<1>5. Untouched(w)
  BY <1>2, <1>4 DEF Untouched
<1>6. result'[w] = "none"
  BY <1>2 DEF WorkerInv, Alone
<1>7. CASE pc'[w] = "renewing"
  <2>1. (RunningAttempt(cur[w], att[w]) /\ status = EnterStatus[cur[w]])'
    <3>1. /\ Len(attempts[s]) \in Nat /\ Len(attempts'[s]) = Len(attempts[s]) + 1
          /\ attempts'[s][Len(attempts[s]) + 1] = "running"
      BY <1>1, <1>2, BeginFacts, AttemptsType DEF LastAttempt
    <3>2. stepStatus'[s] = "running" /\ status' = EnterStatus[s]
      BY <1>1, <1>2 DEF BeginStep, SetStep, TypeOK
    <3>3. Len(attempts[s]) + 1 \in 1..(Len(attempts[s]) + 1)
      BY <3>1
    <3> QED BY <1>4, <3>1, <3>2, <3>3 DEF RunningAttempt, s
  <2>2. Mine(w)'
    BY <2>1 DEF Mine
  <2>3. Alone(w)' /\ ThreadsRun'
    BY <1>2, <1>3, <1>6 DEF Alone, ThreadsRun
  <2> QED BY <1>1, <1>2, <1>3, <1>4, <1>5, <2>2, <2>3, WorkerStepKeeps
<1>8. CASE pc'[w] = "rejecting"
  BY <1>1, <1>2, <1>3, <1>4, <1>5, <1>6, <1>8, MoveKeepsInv DEF Executing
<1> QED BY <1>2, <1>7, <1>8

(* A thread is started only by the worker whose lease is current, and no   *)
(* thread was alive: the worker is quiet.                                  *)
LEMMA FirstRenewalKeeps ==
  ASSUME WorkerInv, [Next]_storeVars, Placed', ValuesTyped', NEW w \in Workers, FirstRenewal(w)
  PROVE  WorkerInv'
<1> DEFINE new == Thread(w, handle[w], cur[w], att[w])
<1>1. /\ pc[w] = "renewing" /\ RequireLease(handle[w]) /\ threads' = threads \cup {new}
      /\ pc' = [pc EXCEPT ![w] = "running"]
      /\ UNCHANGED storeVars /\ UNCHANGED <<handle, cur, att, result>>
  BY DEF FirstRenewal, HeartbeatLease, Goto
<1>2. threads' = {new}
  BY <1>1 DEF WorkerInv, Alone, Quiet
<1>3. pc'[w] = "running" /\ \A v \in Workers \ {w} : pc'[v] = pc[v]
  BY <1>1 DEF WorkerInv, Placed
<1>4. StoreInv' /\ LeaseIsNewest' /\ GrantsAreOwn' /\ UNCHANGED <<status, stepStatus, attempts>>
  BY <1>1, StoreInvInductive DEF WorkerInv, storeVars, LeaseIsNewest, GrantsAreOwn
<1>5. RunningAttempt(cur[w], att[w])
  BY <1>1 DEF WorkerInv, Mine, Executing
<1>6. ThreadsRun' /\ OneThread'
  <2>1. new.step = cur[w] /\ new.attempt = att[w]
    BY DEF Thread
  <2> HIDE DEF new
  <2> QED BY <1>2, <1>4, <1>5, <2>1 DEF ThreadsRun, OneThread, RunningAttempt
<1>7. ASSUME NEW v \in Workers PROVE Mine(v)' /\ Alone(v)'
  <2>1. Mine(v)'
    BY <1>1, <1>3, MineKept DEF Executing
  <2>2. pc'[v] # "running" => result'[v] = "none"
    BY <1>1, <1>3 DEF WorkerInv, Alone
  <2>3. ~(Quiet(v)' /\ RequireLease(handle[v])')
    <3>1. CASE v = w
      BY <1>1, <1>3, <3>1 DEF WorkerInv, Alone, Quiet
    <3>2. ASSUME v # w, RequireLease(handle[v])' PROVE FALSE
      <4>1. leaseToken' = handle[v].token
        BY <1>1, <3>2 DEF RequireLease
      <4>2. leaseToken' = handle[w].token /\ handle[w].token # 0
        BY <1>1 DEF RequireLease, storeVars
      <4> QED BY <3>2, <4>1, <4>2 DEF WorkerInv, GrantsAreOwn
    <3> QED BY <3>1, <3>2
  <2> QED BY <2>1, <2>2, <2>3 DEF Alone
<1> QED BY <1>4, <1>6, <1>7 DEF WorkerInv

(* The loop stops waiting for its thread: what it goes on to is quiet only *)
(* if the thread has ended.                                                *)
LEMMA JoiningKeeps ==
  ASSUME WorkerInv, [Next]_storeVars, Placed', ValuesTyped', NEW w \in Workers,
         Join(w) \/ RenewalRaises(w)
  PROVE  WorkerInv'
<1>1. /\ pc[w] \in {"renewing", "running"} /\ result' = [result EXCEPT ![w] = "none"]
      /\ UNCHANGED storeVars /\ UNCHANGED <<handle, cur, att, threads>>
  BY DEF Join, RenewalRaises
<1>2. \/ Goto(w, "recordingFatal")
      \/ /\ pc[w] = "running" /\ result[w] # "none"
         /\ Goto(w, "publishing") \/ Goto(w, "recordingRetry")
  <2>1. CASE Join(w) /\ result[w] = "prepared"
    BY <2>1 DEF Join
  <2>2. CASE Join(w) /\ result[w] = "retryable"
    BY <2>2 DEF Join
  <2>3. CASE Join(w) /\ result[w] = "fatal"
    BY <2>3 DEF Join
  <2> QED BY <2>1, <2>2, <2>3 DEF Join, RenewalRaises
<1>3. /\ pc'[w] \in {"recordingFatal", "publishing", "recordingRetry"} /\ result'[w] = "none"
      /\ Quiet(w)' => Quiet(w)
  BY <1>1, <1>2 DEF Goto, Quiet, WorkerInv, Placed, ValuesTyped
<1>4. Untouched(w)
  BY <1>1, <1>2 DEF Goto, Untouched, WorkerInv, Placed, ValuesTyped
<1>5. Mine(w)'
  BY <1>1, MineKept DEF Executing
<1>6. Alone(w)'
  BY <1>1, <1>3, AloneKept
<1>7. ThreadsRun'
  BY <1>1, ThreadsKept DEF storeVars
<1>8. handle'[w].revision <= revision' /\ handle'[w].token = handle[w].token
  BY <1>1 DEF WorkerInv, GrantsAreOwn, storeVars
<1> QED BY <1>1, <1>4, <1>5, <1>6, <1>7, <1>8, WorkerStepKeeps

(* Recording a failure ends the run, or finds that the thread has ended.   *)
LEMMA RecordingKeeps ==
  ASSUME WorkerInv, [Next]_storeVars, Placed', ValuesTyped', NEW w \in Workers,
         RecordFailure(w) \/ Publish(w)
  PROVE  WorkerInv'
<1>1. /\ pc[w] \in {"recordingRetry", "recordingFatal", "publishing"}
      /\ Goto(w, "recorded") \/ Goto(w, "published")
      /\ UNCHANGED <<handle, cur, att, result, threads>>
  BY DEF RecordFailure, Publish
<1>2. pc'[w] \in {"recorded", "published"} /\ Untouched(w) /\ result'[w] = "none"
  BY <1>1 DEF Goto, Untouched, WorkerInv, Placed, Alone
<1>3. \/ UNCHANGED <<status, stepStatus, attempts>>
      \/ status' \in TerminalRunStatuses
      \/ threads = {}
  <2>1. CASE RecordRetryableFailure(handle[w], cur[w], att[w]) /\ pc[w] = "recordingRetry"
    BY <2>1 DEF RecordRetryableFailure, WorkerInv, Alone, Quiet
  <2>2. CASE FailRun(handle[w], cur[w], att[w])
    BY <2>2 DEF FailRun, TerminalRunStatuses
  <2>3. CASE PublishStepOutputs(handle[w], cur[w], att[w]) /\ pc[w] = "publishing"
    BY <2>3 DEF PublishStepOutputs, MayPublish, WorkerInv, Alone, Quiet
  <2> QED BY <2>1, <2>2, <2>3 DEF RecordFailure, Publish, storeVars
<1>4. handle'[w].revision <= revision' /\ handle'[w].token = handle[w].token
  <2>1. revision \in Nat /\ (revision' = revision + 1 \/ revision' = revision)
    BY CommandIsFenced DEF WorkerInv, StoreInv, TypeOK
  <2>2. handle[w].revision <= revision /\ handle[w].revision \in Nat
    BY DEF WorkerInv, GrantsAreOwn, ValuesTyped, HeldHandles
  <2> QED BY <1>1, <2>1, <2>2
<1> QED BY <1>1, <1>2, <1>3, <1>4, MoveKeepsInv DEF Executing

(* The thread that ends was the only one.                                  *)
LEMMA ThreadEndKeeps ==
  ASSUME WorkerInv, [Next]_storeVars, Placed', ValuesTyped', NEW t \in threads,
         Prepare(t) \/ Ask(t) \/ ThreadRaises(t)
  PROVE  WorkerInv'
<1> DEFINE w == t.worker
<1>1. PICK outcome : Ends(t, outcome) /\ UNCHANGED <<pc, handle, cur, att>>
  BY DEF Prepare, Ask, ThreadRaises
<1>2. w \in Workers
  BY DEF WorkerInv, ValuesTyped
<1>3. threads' = {} /\ threads' \subseteq threads
  BY <1>1 DEF Ends, WorkerInv, OneThread
<1>4. /\ \A v \in Workers \ {w} : result'[v] = result[v]
      /\ pc[w] # "running" => result'[w] = result[w]
  BY <1>1 DEF Ends, WorkerInv, ValuesTyped
<1> HIDE DEF w
<1>5. Untouched(w)
  BY <1>1, <1>4 DEF Untouched
<1>6. Mine(w)'
  BY <1>1, <1>2, MineKept
<1>7. Alone(w)' /\ ThreadsRun'
  BY <1>1, <1>2, <1>3, <1>4 DEF Alone, ThreadsRun, WorkerInv
<1>8. handle'[w].revision <= revision' /\ handle'[w].token = handle[w].token
  <2>1. revision \in Nat /\ (revision' = revision + 1 \/ revision' = revision)
    BY CommandIsFenced DEF WorkerInv, StoreInv, TypeOK
  <2>2. handle[w].revision <= revision /\ handle[w].revision \in Nat
    BY <1>2 DEF WorkerInv, GrantsAreOwn, ValuesTyped, HeldHandles
  <2> QED BY <1>1, <2>1, <2>2
<1> QED BY <1>2, <1>3, <1>5, <1>6, <1>7, <1>8, WorkerStepKeeps

(* The user, the clock, and the events a thread appends.                   *)
LEMMA OutsideKeeps ==
  ASSUME WorkerInv, [Next]_storeVars, Placed', ValuesTyped',
         Cancel \/ Decide \/ LeaseRunsOut \/ (\E t \in threads : EmitActivity(t)) \/ UNCHANGED allVars
  PROVE  WorkerInv'
<1>1. UNCHANGED <<pc, handle, cur, att, result, threads>>
  BY DEF Cancel, Decide, LeaseRunsOut, EmitActivity, workerVars, allVars
<1>2. ThreadsRun'
  <2>1. CASE Cancel
    <3>1. status' \in TerminalRunStatuses
      BY <2>1 DEF Cancel, CancelRun, TerminalRunStatuses
    <3> QED BY <1>1, <3>1, ThreadsKept
  <2>2. CASE Decide
    <3>1. PICK s \in Steps : SubmitCheckpointDecision(CurrentHandle, s)
      BY <2>2 DEF Decide
    <3>2. /\ stepStatus[s] = "waiting" /\ attempts' = attempts
          /\ status \notin TerminalRunStatuses
          /\ \A u \in Steps \ {s} : stepStatus'[u] = stepStatus[u]
      BY <3>1 DEF SubmitCheckpointDecision, SetStep, TerminalRunStatuses, WorkerInv, StoreInv, TypeOK
    <3>3. \A t \in threads : t.step \in Steps
      BY DEF WorkerInv, Placed
    <3> QED BY <1>1, <3>2, <3>3 DEF WorkerInv, ThreadsRun, RunningAttempt
  <2>3. CASE LeaseRunsOut \/ (\E t \in threads : EmitActivity(t)) \/ UNCHANGED allVars
    <3>1. UNCHANGED <<status, stepStatus, attempts>>
      BY <2>3 DEF LeaseRunsOut, LeaseExpires, EmitActivity, AppendActivityEvent, allVars, storeVars
    <3> QED BY <1>1, <3>1, ThreadsKept
  <2> QED BY <2>1, <2>2, <2>3
<1> QED BY <1>1, <1>2, EnvironmentKeeps

(* Every step of the workers keeps the invariant.                          *)
LEMMA WorkerInvInductive == WorkerInv /\ [WorkerNext]_allVars => WorkerInv'
<1> SUFFICES ASSUME WorkerInv, [WorkerNext]_allVars PROVE WorkerInv'
  OBVIOUS
<1>1. Placed' /\ [Next]_storeVars
  BY WorkerNextRefines DEF WorkerInv
<1>2. ValuesTyped'
  <2>1. TypeOK /\ TypeOK'
    BY <1>1, StoreInvInductive DEF WorkerInv, StoreInv
  <2> QED BY <2>1, ValuesStayTyped DEF WorkerInv
<1>3. ASSUME NEW w \in Workers, Leave(w), threads' \subseteq threads,
             UNCHANGED storeVars \/ status' = "failed"
      PROVE  WorkerInv'
  <2>1. UNCHANGED <<status, stepStatus, attempts>> \/ status' \in TerminalRunStatuses
    BY <1>3 DEF storeVars, TerminalRunStatuses
  <2> QED BY <1>1, <1>2, <1>3, <2>1, LeaveKeepsInv
<1>4. ASSUME NEW w \in Workers, LoopStep(w) PROVE WorkerInv'
  <2>1. CASE Poll(w) \/ Open(w) \/ Lease(w)
    BY <1>1, <1>2, <2>1, LeasingKeeps
  <2>2. CASE Start(w) \/ NextStep(w) \/ (AfterFailure(w) /\ stepStatus[cur[w]] = "pending")
    BY <1>1, <1>2, <2>2, LoadingKeeps
  <2>3. CASE PreflightBegin(w) \/ Begin(w)
    BY <1>1, <1>2, <2>3, BeginningKeeps
  <2>4. CASE FirstRenewal(w)
    BY <1>1, <1>2, <2>4, FirstRenewalKeeps
  <2>5. CASE Join(w)
    BY <1>1, <1>2, <2>5, JoiningKeeps
  <2>6. CASE RecordFailure(w) \/ Publish(w)
    BY <1>1, <1>2, <2>6, RecordingKeeps
  <2>7. CASE LeaseRefused(w) \/ PreflightFail(w) \/ PreflightRefused(w) \/ BeginRefused(w)
             \/ JoinCheckpoint(w) \/ PublishRefused(w)
             \/ (AfterFailure(w) /\ stepStatus[cur[w]] # "pending")
    BY <1>3, <2>7 DEF LeaseRefused, PreflightFail, FailRun, PreflightRefused, BeginRefused,
       JoinCheckpoint, PublishRefused, AfterFailure
  <2> QED BY <1>4, <2>1, <2>2, <2>3, <2>4, <2>5, <2>6, <2>7 DEF LoopStep
<1>5. ASSUME NEW w \in Workers, RenewalRaises(w) PROVE WorkerInv'
  BY <1>1, <1>2, <1>5, JoiningKeeps
<1>6. ASSUME NEW w \in Workers, ThreadStep(w) PROVE WorkerInv'
  BY <1>1, <1>2, <1>6, ThreadEndKeeps DEF ThreadStep
<1>7. ASSUME NEW w \in Workers, Crash(w) \/ DatabaseError(w) PROVE WorkerInv'
  BY <1>3, <1>7 DEF Crash, DatabaseError
<1>8. CASE Cancel \/ Decide \/ LeaseRunsOut \/ (\E t \in threads : EmitActivity(t)) \/ UNCHANGED allVars
  BY <1>1, <1>2, <1>8, OutsideKeeps
<1> QED BY <1>4, <1>5, <1>6, <1>7, <1>8 DEF WorkerNext

-----------------------------------------------------------------------------
(* What holds of any number of workers, faults, grants and steps.          *)
THEOREM WorkerSafety == WorkerSpec => []WorkerInv
<1> QED BY WorkerInitInv, WorkerInvInductive, PTL DEF WorkerSpec

(* Every worker is at a place of execute_run, within the plan.             *)
THEOREM WorkerTypes == WorkerSpec => []WorkerTypeOK
<1>1. WorkerInv => WorkerTypeOK
  BY TypesInParts DEF WorkerInv
<1> QED BY <1>1, WorkerSafety, PTL

(* An executor and a runner thread that still pass the fence may commit    *)
(* without asking whose the running attempt is.                            *)
THEOREM TheFenceIsEnough == WorkerSpec => []FenceMeansMine
<1>1. WorkerInv => FenceMeansMine
  BY DEF WorkerInv, Mine, ThreadsRun, FenceMeansMine, RequireLease
<1> QED BY <1>1, WorkerSafety, PTL

(* A thread that was abandoned without being stopped never has a second    *)
(* one beside it.                                                          *)
THEOREM StepsRunOnOneThread == WorkerSpec => []OneRunnerThread
<1>1. WorkerInv => OneRunnerThread
  <2> SUFFICES ASSUME OneThread PROVE Cardinality(threads) <= 1
    BY DEF WorkerInv, OneRunnerThread
  <2>1. CASE threads = {}
    BY <2>1, FS_EmptySet
  <2>2. CASE \E t \in threads : TRUE
    <3>1. PICK t \in threads : threads = {t}
      BY <2>2 DEF OneThread
    <3> QED BY <3>1, FS_Singleton
  <2> QED BY <2>1, <2>2
<1> QED BY <1>1, WorkerSafety, PTL

(* Outputs are committed by the worker whose lease is current, at the step *)
(* it executes; a late result commits nothing.                             *)
THEOREM LateResultsAreNotCommitted == WorkerSpec => OnlyTheHolderCommits
<1> DEFINE ByItsHolder(s) == \E w \in Workers :
             /\ pc[w] = "publishing" /\ pc'[w] = "published"
             /\ handle[w].generation = leaseGeneration /\ ~leaseExpired
             /\ cur[w] = s
<1>1. WorkerInv /\ [WorkerNext]_allVars =>
        [\A s \in Steps : published'[s] # published[s] => ByItsHolder(s)]_allVars
  <2> SUFFICES ASSUME WorkerInv, WorkerNext, NEW s \in Steps, published'[s] # published[s]
               PROVE  ByItsHolder(s)
    OBVIOUS
  <2>1. PICK w \in Workers : Publish(w)
    BY DEF WorkerNext, LoopStep, Poll, Open, Lease, AcquireLease, LeaseRefused, Start,
       PreflightBegin, BeginStep, PreflightFail, FailRun, PreflightRefused, Begin, BeginRefused,
       FirstRenewal, HeartbeatLease, Join, JoinCheckpoint, RecordFailure,
       RecordRetryableFailure, AfterFailure, PublishRefused, NextStep, RenewalRaises,
       ThreadStep, Prepare, Ask, RequestCheckpoint, ThreadRaises, EmitActivity,
       AppendActivityEvent, Crash, DatabaseError, Cancel, CancelRun, Decide,
       SubmitCheckpointDecision, LeaseRunsOut, LeaseExpires, storeVars
  <2>2. /\ pc[w] = "publishing" /\ Goto(w, "published") /\ RequireLease(handle[w])
        /\ published' = [published EXCEPT ![cur[w]] = @ \cup {att[w]}]
    BY <2>1 DEF Publish, PublishStepOutputs, MayPublish
  <2>3. pc'[w] = "published"
    BY <2>2 DEF Goto, WorkerInv, Placed
  <2>4. cur[w] = s
    BY <2>2 DEF WorkerInv, StoreInv, TypeOK
  <2> QED BY <2>2, <2>3, <2>4 DEF RequireLease
<1> QED BY <1>1, WorkerSafety, PTL DEF WorkerSpec, OnlyTheHolderCommits
====
