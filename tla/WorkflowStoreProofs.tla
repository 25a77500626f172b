---- MODULE WorkflowStoreProofs ----
(***************************************************************************)
(* The store's safety for every plan and every bound: StoreInv is          *)
(* inductive.  A command touches one step, so its proof says what the      *)
(* command does to the attempts pointwise and then argues about steps.     *)
(***************************************************************************)
EXTENDS WorkflowStore, SequenceTheorems, TLAPS

(* The ledger of a step is a sequence of attempt statuses whose length is  *)
(* a number.                                                               *)
LEMMA AttemptsType ==
  ASSUME TypeOK, NEW s \in Steps
  PROVE  /\ attempts[s] \in Seq(AttemptStatuses)
         /\ LastAttempt(s) \in Nat
         /\ \A a \in 1..LastAttempt(s) : attempts[s][a] \in AttemptStatuses
<1>1. attempts[s] \in Seq(AttemptStatuses)
  BY DEF TypeOK
<1> QED BY <1>1, LenProperties, ElementOfSeq DEF LastAttempt

(* Setting the outcome of one attempt changes nothing else of the ledger.  *)
LEMMA SetAttemptFacts ==
  ASSUME TypeOK, NEW s \in Steps, NEW a \in 1..Len(attempts[s]),
         NEW v \in AttemptStatuses, SetAttempt(s, a, v)
  PROVE  /\ attempts' \in [Steps -> Seq(AttemptStatuses)]
         /\ \A t \in Steps : Len(attempts'[t]) = Len(attempts[t])
         /\ \A t \in Steps : \A b \in 1..Len(attempts[t]) :
              attempts'[t][b] = IF t = s /\ b = a THEN v ELSE attempts[t][b]
<1> DEFINE new == [attempts[s] EXCEPT ![a] = v]
<1>1. attempts \in [Steps -> Seq(AttemptStatuses)]
  BY DEF TypeOK
<1>2. attempts' = [attempts EXCEPT ![s] = new]
  BY DEF SetAttempt
<1>3. /\ new \in Seq(AttemptStatuses) /\ Len(new) = Len(attempts[s])
      /\ \A b \in 1..Len(attempts[s]) : new[b] = IF b = a THEN v ELSE attempts[s][b]
  BY <1>1, ExceptSeq
<1> HIDE DEF new
<1> QED BY <1>1, <1>2, <1>3

(* Beginning a step appends one running attempt to that step.              *)
LEMMA BeginFacts ==
  ASSUME TypeOK, NEW s \in Steps, NEW h, BeginStep(h, s)
  PROVE  /\ attempts' \in [Steps -> Seq(AttemptStatuses)]
         /\ Len(attempts'[s]) = Len(attempts[s]) + 1
         /\ attempts'[s][Len(attempts[s]) + 1] = "running"
         /\ \A a \in 1..Len(attempts[s]) : attempts'[s][a] = attempts[s][a]
         /\ \A t \in Steps \ {s} : attempts'[t] = attempts[t]
<1>1. attempts \in [Steps -> Seq(AttemptStatuses)]
  BY DEF TypeOK
<1>2. attempts' = [attempts EXCEPT ![s] = Append(attempts[s], "running")]
  BY DEF BeginStep
<1>3. "running" \in AttemptStatuses
  BY DEF AttemptStatuses
<1>4. /\ Append(attempts[s], "running") \in Seq(AttemptStatuses)
      /\ Len(Append(attempts[s], "running")) = Len(attempts[s]) + 1
      /\ \A a \in 1..Len(attempts[s]) : Append(attempts[s], "running")[a] = attempts[s][a]
      /\ Append(attempts[s], "running")[Len(attempts[s]) + 1] = "running"
  BY <1>1, <1>3, AppendProperties
<1> QED BY <1>1, <1>2, <1>4

(* Cancelling ends the running attempts and keeps all the others.          *)
LEMMA CancelFacts ==
  ASSUME TypeOK, NEW h, CancelRun(h)
  PROVE  /\ attempts' \in [Steps -> Seq(AttemptStatuses)]
         /\ \A t \in Steps : Len(attempts'[t]) = Len(attempts[t])
         /\ \A t \in Steps : \A b \in 1..Len(attempts[t]) :
              attempts'[t][b] = IF attempts[t][b] = "running" THEN "cancelled" ELSE attempts[t][b]
<1> DEFINE new(t) == [a \in 1..Len(attempts[t]) |->
                        IF attempts[t][a] = "running" THEN "cancelled" ELSE attempts[t][a]]
<1>1. \A t \in Steps : attempts[t] \in Seq(AttemptStatuses)
  BY DEF TypeOK
<1>2. \A t \in Steps : /\ Len(attempts[t]) \in Nat
                       /\ DOMAIN attempts[t] = 1..Len(attempts[t])
                       /\ \A a \in 1..Len(attempts[t]) : attempts[t][a] \in AttemptStatuses
  BY <1>1, LenProperties, ElementOfSeq
<1>3. attempts' = [t \in Steps |-> new(t)]
  BY <1>2 DEF CancelRun
<1>4. ASSUME NEW t \in Steps
      PROVE  /\ new(t) \in Seq(AttemptStatuses) /\ Len(new(t)) = Len(attempts[t])
             /\ \A b \in 1..Len(attempts[t]) : new(t)[b] =
                  IF attempts[t][b] = "running" THEN "cancelled" ELSE attempts[t][b]
  <2>1. new(t) \in [1..Len(attempts[t]) -> AttemptStatuses]
    BY <1>2 DEF AttemptStatuses
  <2> QED BY <1>2, <2>1
<1> HIDE DEF new
<1> QED BY <1>3, <1>4

(* Two steps with attempts are in plan order: the earlier is complete.     *)
LEMMA LaterAttemptMeansCompleted ==
  ASSUME TypeOK, PlanOrder, NEW s \in Steps, NEW t \in Steps, s < t, LastAttempt(t) > 0
  PROVE  stepStatus[s] = "completed"
<1>1. s \in 1..(t - 1)
  BY ChainAssumption DEF Steps
<1> QED BY <1>1 DEF PlanOrder

(* A running attempt is the newest of the only unfinished step, whose      *)
(* phase the run then has.                                                 *)
LEMMA RunningFacts ==
  ASSUME StoreInv, NEW s \in Steps, NEW a \in 1..Len(attempts[s]), attempts[s][a] = "running"
  PROVE  /\ a = LastAttempt(s) /\ LastAttempt(s) > 0
         /\ stepStatus[s] = "running"
         /\ status \in Phases /\ status = EnterStatus[s]
         /\ published[s] = {}
         /\ \A t \in Steps : t < s => stepStatus[t] = "completed"
         /\ \A t \in Steps : t > s => LastAttempt(t) = 0 /\ stepStatus[t] = "pending"
<1> USE DEF StoreInv
<1>1. /\ a = LastAttempt(s) /\ stepStatus[s] = "running"
      /\ LastAttempt(s) \in Nat /\ LastAttempt(s) > 0
  BY AttemptsType DEF SingleRunningAttempt, LastAttempt
<1>2. \A t \in Steps : t < s => stepStatus[t] = "completed"
  BY <1>1, LaterAttemptMeansCompleted
<1>3. \A t \in Steps : t > s => LastAttempt(t) = 0
  BY <1>1, LaterAttemptMeansCompleted, AttemptsType
<1>4. status \notin TerminalRunStatuses
  BY <1>1 DEF TerminalIsReleased
<1>5. status # "queued"
  BY <1>1 DEF StepLedger
<1>6. status # "waiting_for_input"
  <2> SUFFICES ASSUME NEW t \in Steps, stepStatus[t] = "waiting" PROVE FALSE
    BY DEF WaitingIsAnswerable
  <2>1. LastAttempt(t) > 0
    BY AttemptsType DEF StepLedger
  <2>2. t < s \/ t = s \/ t > s
    BY DEF Steps
  <2> QED BY <1>1, <1>2, <1>3, <2>1, <2>2
<1>7. status \in Phases
  BY <1>4, <1>5, <1>6 DEF TypeOK, RunStatuses
<1>8. status = EnterStatus[s]
  <2>1. PICK t \in Steps : /\ \A p \in 1..(t - 1) : stepStatus[p] = "completed"
                           /\ stepStatus[t] \in {"pending", "running"}
                           /\ status = EnterStatus[t]
    BY <1>7 DEF StatusTracksPlan
  <2>2. CASE t < s
    BY <1>2, <2>1, <2>2
  <2>3. CASE t = s
    BY <2>1, <2>3
  <2>4. CASE t > s
    <3>1. s \in 1..(t - 1)
      BY <2>4 DEF Steps
    <3> QED BY <1>1, <2>1, <3>1
  <2> QED BY <2>2, <2>3, <2>4 DEF Steps
<1>9. \A t \in Steps : t > s => stepStatus[t] = "pending"
  BY <1>3, <1>4 DEF StepLedger, TerminalRunStatuses
<1> QED BY <1>1, <1>2, <1>3, <1>7, <1>8, <1>9 DEF ExactlyOncePublication

(* A freshly created run satisfies the invariant.                          *)
LEMMA InitEstablishes == Init => StoreInv
<1> SUFFICES ASSUME Init PROVE StoreInv
  OBVIOUS
<1>1. TypeOK
  <2>1. << >> \in Seq(AttemptStatuses)
    BY EmptySeq
  <2>2. attempts \in [Steps -> Seq(AttemptStatuses)]
    BY <2>1 DEF Init
  <2>3. leaseExpired \in BOOLEAN
    BY Zenon DEF Init
  <2> QED BY <2>2, <2>3 DEF Init, TypeOK, RunStatuses, StepStatuses, IncompleteStepStatuses,
            CheckpointStates
<1>2. \A s \in Steps : LastAttempt(s) = 0
  BY DEF Init, LastAttempt
<1>3. "queued" \notin Phases /\ "waiting_for_input" \notin Phases /\ 1 \in Steps
  BY ChainAssumption DEF Steps
<1>4. SingleRunningAttempt /\ PlanOrder /\ ExactlyOncePublication
  BY <1>2 DEF Init, SingleRunningAttempt, PlanOrder, ExactlyOncePublication
<1>5. StatusTracksPlan /\ CompletedMeansAllPublished /\ WaitingIsAnswerable
  BY <1>3 DEF Init, StatusTracksPlan, CompletedMeansAllPublished, WaitingIsAnswerable
<1>6. TerminalIsReleased /\ StepLedger
  BY <1>2 DEF Init, TerminalIsReleased, StepLedger, TerminalRunStatuses
<1> QED BY <1>1, <1>4, <1>5, <1>6 DEF StoreInv

(* What holds of the status and the ledger is not disturbed by a command   *)
(* that writes neither.                                                    *)
LEMMA LedgerUnchanged ==
  ASSUME StoreInv, UNCHANGED <<status, stepStatus, attempts, published>>
  PROVE  /\ SingleRunningAttempt' /\ PlanOrder' /\ ExactlyOncePublication'
         /\ StatusTracksPlan' /\ CompletedMeansAllPublished' /\ StepLedger'
<1> USE DEF StoreInv
<1>1. SingleRunningAttempt' /\ PlanOrder' /\ ExactlyOncePublication'
  BY DEF SingleRunningAttempt, PlanOrder, ExactlyOncePublication, LastAttempt
<1>2. StatusTracksPlan' /\ CompletedMeansAllPublished'
  BY DEF StatusTracksPlan, CompletedMeansAllPublished
<1>3. StepLedger'
  BY DEF StepLedger, LastAttempt
<1> QED BY <1>1, <1>2, <1>3

(* Leases and activity events leave the status and the ledger alone.       *)
LEMMA LeaseKeeps ==
  ASSUME StoreInv, NEW h,
         AcquireLease(h) \/ LeaseExpires \/ AppendActivityEvent(h)
  PROVE  StoreInv'
<1> USE DEF StoreInv
<1>1. UNCHANGED <<status, stepStatus, attempts, checkpoint, published>>
  BY DEF AcquireLease, LeaseExpires, AppendActivityEvent
<1>2. /\ revision' \in Nat \ {0} /\ eventSeq' \in Nat \ {0}
      /\ leaseToken' \in Nat /\ leaseGeneration' \in Nat /\ leaseExpired' \in BOOLEAN
  <2>1. CASE AcquireLease(h)
    <3>1. leaseExpired' = FALSE
      BY <2>1 DEF AcquireLease
    <3>2. leaseExpired' \in BOOLEAN
      BY <3>1, Zenon
    <3> QED BY <2>1, <3>2 DEF AcquireLease, TypeOK
  <2>2. CASE LeaseExpires
    BY <2>2 DEF LeaseExpires, TypeOK
  <2>3. CASE AppendActivityEvent(h)
    BY <2>3 DEF AppendActivityEvent, TypeOK, leaseVars
  <2> QED BY <2>1, <2>2, <2>3
<1>3. TypeOK'
  BY <1>1, <1>2 DEF TypeOK
<1>4. TerminalIsReleased'
  <2>1. status \notin TerminalRunStatuses
    BY DEF AcquireLease, LeaseExpires, AppendActivityEvent, RequireLease, TerminalIsReleased
  <2> QED BY <1>1, <2>1 DEF TerminalIsReleased
<1>5. WaitingIsAnswerable'
  BY <1>1 DEF WaitingIsAnswerable
<1>6. UNCHANGED <<status, stepStatus, attempts, published>>
  BY <1>1
<1> QED BY <1>3, <1>4, <1>5, <1>6, LedgerUnchanged

(* complete_repair_checkpoint settles a decided checkpoint and touches     *)
(* nothing else.                                                           *)
LEMMA RepairKeeps ==
  ASSUME StoreInv, NEW h, NEW s \in Steps, CompleteRepairCheckpoint(h, s)
  PROVE  StoreInv'
<1> USE DEF StoreInv, CompleteRepairCheckpoint
<1>1. TypeOK'
  BY DEF TypeOK, leaseVars, CheckpointStates
<1>2. WaitingIsAnswerable'
  BY DEF TypeOK, WaitingIsAnswerable
<1>3. TerminalIsReleased'
  BY DEF TerminalIsReleased, leaseVars
<1>4. UNCHANGED <<status, stepStatus, attempts, published>>
  OBVIOUS
<1> QED BY <1>1, <1>2, <1>3, <1>4, LedgerUnchanged

(* begin_step opens the first attempt that is not behind an unfinished     *)
(* step, so no other attempt can be running.                               *)
LEMMA BeginKeeps ==
  ASSUME StoreInv, NEW h, NEW s \in Steps, BeginStep(h, s)
  PROVE  StoreInv'
<1> USE DEF StoreInv
<1>0. /\ attempts' \in [Steps -> Seq(AttemptStatuses)]
      /\ LastAttempt(s)' = LastAttempt(s) + 1
      /\ attempts'[s][LastAttempt(s)'] = "running"
      /\ \A a \in 1..LastAttempt(s) : attempts'[s][a] = attempts[s][a]
      /\ \A t \in Steps \ {s} : attempts'[t] = attempts[t] /\ LastAttempt(t)' = LastAttempt(t)
  BY BeginFacts DEF LastAttempt
<1>1. /\ stepStatus[s] = "pending" /\ stepStatus' = [stepStatus EXCEPT ![s] = "running"]
      /\ \A p \in 1..(s - 1) : stepStatus[p] = "completed"
      /\ status' = EnterStatus[s] /\ EnterStatus[s] \in Phases
      /\ status \in Phases \cup {"queued"}
      /\ UNCHANGED <<checkpoint, published, leaseToken, leaseGeneration, leaseExpired>>
      /\ revision' = revision + 1 /\ eventSeq' = eventSeq + 1
  BY ChainAssumption DEF BeginStep, MayBegin, SetStep, RequireLease, RequiredStatus, leaseVars, Advance
<1>2. \A t \in Steps : t < s => stepStatus[t] = "completed"
  BY <1>1 DEF Steps
<1>3. \A t \in Steps : t > s => LastAttempt(t) = 0
  BY <1>1, LaterAttemptMeansCompleted, AttemptsType
<1>4. \A t \in Steps : LastAttempt(t) \in Nat
  BY AttemptsType
<1>5. /\ status \notin TerminalRunStatuses /\ status # "waiting_for_input"
      /\ status' \notin TerminalRunStatuses /\ status' \notin {"waiting_for_input", "queued"}
  BY <1>1, ChainAssumption DEF TerminalRunStatuses
<1>6. \A t \in Steps : t # s => stepStatus[t] # "running"
  <2> SUFFICES ASSUME NEW t \in Steps, t # s, stepStatus[t] = "running" PROVE FALSE
    OBVIOUS
  <2>1. LastAttempt(t) > 0
    BY DEF SingleRunningAttempt
  <2> QED BY <1>2, <1>3, <2>1 DEF Steps
<1>7. TypeOK'
  BY <1>0, <1>1 DEF TypeOK, RunStatuses, StepStatuses, IncompleteStepStatuses
<1>8. SingleRunningAttempt'
  <2>1. \A t \in Steps : \A a \in 1..LastAttempt(t)' :
          attempts'[t][a] = "running" => a = LastAttempt(t)' /\ stepStatus'[t] = "running"
    <3> SUFFICES ASSUME NEW t \in Steps, NEW a \in 1..LastAttempt(t)', attempts'[t][a] = "running"
                 PROVE  a = LastAttempt(t)' /\ stepStatus'[t] = "running"
      OBVIOUS
    <3>1. CASE t = s
      <4>1. a = LastAttempt(s)' \/ a \in 1..LastAttempt(s)
        BY <1>0, <1>4, <3>1
      <4>2. a \notin 1..LastAttempt(s)
        BY <1>0, <1>1, <3>1 DEF SingleRunningAttempt
      <4> QED BY <1>1, <3>1, <4>1, <4>2 DEF TypeOK
    <3>2. CASE t # s
      BY <1>0, <1>1, <3>2 DEF SingleRunningAttempt, TypeOK
    <3> QED BY <3>1, <3>2
  <2>2. \A t \in Steps : stepStatus'[t] = "running" =>
          LastAttempt(t)' > 0 /\ attempts'[t][LastAttempt(t)'] = "running"
    BY <1>0, <1>1, <1>4, <1>6 DEF TypeOK
  <2>3. \A t, u \in Steps : stepStatus'[t] = "running" /\ stepStatus'[u] = "running" => t = u
    BY <1>1, <1>6 DEF TypeOK
  <2> QED BY <2>1, <2>2, <2>3 DEF SingleRunningAttempt
<1>9. PlanOrder'
  <2> SUFFICES ASSUME NEW t \in Steps, LastAttempt(t)' > 0, NEW p \in 1..(t - 1)
               PROVE  stepStatus'[p] = "completed"
    BY DEF PlanOrder
  <2>1. p \in Steps
    BY ChainAssumption DEF Steps
  <2>2. stepStatus[p] = "completed"
    BY <1>0, <1>1 DEF PlanOrder
  <2> QED BY <1>1, <2>1, <2>2 DEF TypeOK
<1>10. ExactlyOncePublication'
  BY <1>0, <1>1 DEF ExactlyOncePublication, TypeOK
<1>11. StatusTracksPlan'
  <2>1. \A p \in 1..(s - 1) : stepStatus'[p] = "completed"
    BY <1>1, ChainAssumption DEF TypeOK, Steps
  <2> QED BY <1>1, <2>1 DEF StatusTracksPlan, TypeOK
<1>12. CompletedMeansAllPublished'
  BY <1>1, <1>5 DEF CompletedMeansAllPublished, ExactlyOncePublication, TerminalRunStatuses
<1>13. WaitingIsAnswerable'
  BY <1>1, <1>5 DEF WaitingIsAnswerable, TypeOK
<1>14. TerminalIsReleased' /\ StepLedger'
  BY <1>0, <1>1, <1>4, <1>5 DEF TerminalIsReleased, StepLedger, TypeOK, TerminalRunStatuses
<1> QED BY <1>7, <1>8, <1>9, <1>10, <1>11, <1>12, <1>13, <1>14

(* Ending the running attempt takes its step out of execution and leaves   *)
(* no other: the ledger's order survives whatever the outcome is.          *)
LEMMA OutcomeFacts ==
  ASSUME StoreInv, NEW s \in Steps, NEW a \in 1..Len(attempts[s]), attempts[s][a] = "running",
         NEW v \in AttemptStatuses \ {"running"}, SetAttempt(s, a, v),
         NEW w \in StepStatuses \ {"running"}, SetStep(s, w)
  PROVE  /\ attempts' \in [Steps -> Seq(AttemptStatuses)]
         /\ stepStatus' \in [Steps -> StepStatuses]
         /\ stepStatus'[s] = w
         /\ \A t \in Steps : t # s => stepStatus'[t] = stepStatus[t]
         /\ \A t \in Steps : LastAttempt(t)' = LastAttempt(t)
         /\ \A t \in Steps : stepStatus'[t] # "running"
         /\ SingleRunningAttempt' /\ PlanOrder'
<1> USE DEF StoreInv
<1>1. /\ attempts' \in [Steps -> Seq(AttemptStatuses)]
      /\ \A t \in Steps : LastAttempt(t)' = LastAttempt(t)
      /\ \A t \in Steps : \A b \in 1..LastAttempt(t) :
           attempts'[t][b] = IF t = s /\ b = a THEN v ELSE attempts[t][b]
  BY SetAttemptFacts DEF LastAttempt
<1>2. /\ stepStatus' \in [Steps -> StepStatuses]
      /\ stepStatus'[s] = w
      /\ \A t \in Steps : t # s => stepStatus'[t] = stepStatus[t]
  BY DEF SetStep, TypeOK
<1>3. \A t \in Steps : stepStatus'[t] # "running"
  BY <1>2, RunningFacts DEF SingleRunningAttempt
<1>4. \A t \in Steps : \A b \in 1..LastAttempt(t) : attempts'[t][b] # "running"
  <2> SUFFICES ASSUME NEW t \in Steps, NEW b \in 1..LastAttempt(t), attempts'[t][b] = "running"
               PROVE  FALSE
    OBVIOUS
  <2>1. attempts[t][b] = "running" /\ ~(t = s /\ b = a)
    BY <1>1
  <2>2. b = LastAttempt(t) /\ stepStatus[t] = "running"
    BY <2>1 DEF SingleRunningAttempt
  <2>3. t = s
    BY <2>2, RunningFacts DEF SingleRunningAttempt
  <2> QED BY <2>1, <2>2, <2>3, RunningFacts
<1>5. SingleRunningAttempt'
  BY <1>1, <1>3, <1>4 DEF SingleRunningAttempt
<1>6. PlanOrder'
  <2> SUFFICES ASSUME NEW t \in Steps, LastAttempt(t)' > 0, NEW p \in 1..(t - 1)
               PROVE  stepStatus'[p] = "completed"
    BY DEF PlanOrder
  <2>1. p \in Steps /\ stepStatus[p] = "completed"
    BY <1>1, ChainAssumption DEF PlanOrder, Steps
  <2>2. p # s
    BY <2>1, RunningFacts
  <2> QED BY <1>2, <2>1, <2>2
<1> QED BY <1>1, <1>2, <1>3, <1>5, <1>6

(* Releasing the lease leaves lease fields of their types.                 *)
LEMMA ReleasedLeaseType ==
  ASSUME TypeOK, ReleaseLease
  PROVE  leaseToken' = 0 /\ leaseToken' \in Nat /\ leaseGeneration' \in Nat /\ leaseExpired' \in BOOLEAN
<1>1. leaseExpired' = FALSE
  BY DEF ReleaseLease
<1>2. leaseExpired' \in BOOLEAN
  BY <1>1, Zenon
<1> QED BY <1>2 DEF ReleaseLease, TypeOK

(* A retryable failure closes the attempt and offers its step again.       *)
LEMMA RetryKeeps ==
  ASSUME StoreInv, NEW h, NEW s \in Steps, NEW a \in 1..Len(attempts[s]),
         RecordRetryableFailure(h, s, a)
  PROVE  StoreInv'
<1> USE DEF StoreInv
<1>1. /\ attempts[s][a] = "running" /\ SetAttempt(s, a, "failed") /\ SetStep(s, "pending")
      /\ "failed" \in AttemptStatuses \ {"running"} /\ "pending" \in StepStatuses \ {"running"}
      /\ UNCHANGED <<status, leaseToken, leaseGeneration, leaseExpired, checkpoint, published>>
      /\ revision' = revision + 1 /\ eventSeq' = eventSeq + 1
  BY DEF RecordRetryableFailure, RunningAttempt, Advance, leaseVars, AttemptStatuses,
         StepStatuses, IncompleteStepStatuses
<1>2. /\ stepStatus[s] = "running" /\ status \in Phases /\ status = EnterStatus[s]
      /\ published[s] = {} /\ LastAttempt(s) > 0
      /\ \A t \in Steps : t < s => stepStatus[t] = "completed"
  BY <1>1, RunningFacts
<1>3. /\ attempts' \in [Steps -> Seq(AttemptStatuses)]
      /\ stepStatus' \in [Steps -> StepStatuses] /\ stepStatus'[s] = "pending"
      /\ \A t \in Steps : t # s => stepStatus'[t] = stepStatus[t]
      /\ \A t \in Steps : LastAttempt(t)' = LastAttempt(t)
      /\ SingleRunningAttempt' /\ PlanOrder'
  BY <1>1, OutcomeFacts
<1>4. status \notin TerminalRunStatuses \cup {"queued", "waiting_for_input"}
  BY <1>2, ChainAssumption
<1>5. TypeOK'
  BY <1>1, <1>3 DEF TypeOK
<1>6. ExactlyOncePublication'
  BY <1>1, <1>2, <1>3 DEF ExactlyOncePublication
<1>7. StatusTracksPlan'
  <2>1. \A p \in 1..(s - 1) : p \in Steps /\ p < s
    BY ChainAssumption DEF Steps
  <2>2. \A p \in 1..(s - 1) : stepStatus'[p] = "completed"
    BY <1>2, <1>3, <2>1
  <2> QED BY <1>1, <1>2, <1>3, <2>2 DEF StatusTracksPlan
<1>8. CompletedMeansAllPublished'
  BY <1>1 DEF CompletedMeansAllPublished
<1>9. WaitingIsAnswerable'
  BY <1>1, <1>2, <1>3 DEF WaitingIsAnswerable
<1>10. TerminalIsReleased' /\ StepLedger'
  BY <1>1, <1>2, <1>3, <1>4 DEF TerminalIsReleased, StepLedger, TerminalRunStatuses
<1> QED BY <1>3, <1>5, <1>6, <1>7, <1>8, <1>9, <1>10

(* A fatal failure closes the attempt, the step, the run and the lease     *)
(* together.                                                               *)
LEMMA FailKeeps ==
  ASSUME StoreInv, NEW h, NEW s \in Steps, NEW a \in 1..Len(attempts[s]), FailRun(h, s, a)
  PROVE  StoreInv'
<1> USE DEF StoreInv
<1>1. /\ attempts[s][a] = "running" /\ SetAttempt(s, a, "failed") /\ SetStep(s, "failed")
      /\ "failed" \in AttemptStatuses \ {"running"} /\ "failed" \in StepStatuses \ {"running"}
      /\ UNCHANGED <<checkpoint, published>> /\ ReleaseLease /\ status' = "failed"
      /\ revision' = revision + 1 /\ eventSeq' = eventSeq + 1
  BY DEF FailRun, RunningAttempt, Advance, AttemptStatuses, StepStatuses
<1>2. /\ stepStatus[s] = "running" /\ status \in Phases
      /\ published[s] = {} /\ LastAttempt(s) > 0
  BY <1>1, RunningFacts
<1>3. /\ attempts' \in [Steps -> Seq(AttemptStatuses)]
      /\ stepStatus' \in [Steps -> StepStatuses] /\ stepStatus'[s] = "failed"
      /\ \A t \in Steps : t # s => stepStatus'[t] = stepStatus[t]
      /\ \A t \in Steps : LastAttempt(t)' = LastAttempt(t)
      /\ \A t \in Steps : stepStatus'[t] # "running"
      /\ SingleRunningAttempt' /\ PlanOrder'
  BY <1>1, OutcomeFacts
<1>4. status \notin TerminalRunStatuses \cup {"queued", "waiting_for_input"}
  BY <1>2, ChainAssumption
<1>5. TypeOK'
  BY <1>1, <1>3, ReleasedLeaseType DEF TypeOK, RunStatuses, TerminalRunStatuses
<1>6. ExactlyOncePublication'
  BY <1>1, <1>2, <1>3 DEF ExactlyOncePublication
<1>7. StatusTracksPlan'
  <2>1. "failed" \notin Phases
    BY ChainAssumption DEF TerminalRunStatuses
  <2> QED BY <1>1, <2>1 DEF StatusTracksPlan
<1>8. CompletedMeansAllPublished'
  BY <1>1, <1>2 DEF CompletedMeansAllPublished
<1>9. \A t \in Steps : stepStatus'[t] # "waiting"
  BY <1>3, <1>4 DEF WaitingIsAnswerable
<1>10. WaitingIsAnswerable'
  BY <1>1, <1>9 DEF WaitingIsAnswerable
<1>11. TerminalIsReleased'
  BY <1>1, <1>3, <1>9, ReleasedLeaseType DEF TerminalIsReleased
<1>12. StepLedger'
  BY <1>1, <1>2, <1>3, <1>4 DEF StepLedger, TerminalRunStatuses
<1> QED BY <1>3, <1>5, <1>6, <1>7, <1>8, <1>10, <1>11, <1>12

(* A checkpoint parks the run on the step that asks, whose attempt is      *)
(* closed.                                                                 *)
LEMMA RequestKeeps ==
  ASSUME StoreInv, NEW h, NEW s \in Steps, NEW a \in 1..Len(attempts[s]),
         AsksForRepair(s), RequestCheckpoint(h, s, a)
  PROVE  StoreInv'
<1> USE DEF StoreInv
<1>1. /\ attempts[s][a] = "running" /\ SetAttempt(s, a, "completed") /\ SetStep(s, "waiting")
      /\ "completed" \in AttemptStatuses \ {"running"} /\ "waiting" \in StepStatuses \ {"running"}
      /\ UNCHANGED published /\ ReleaseLease /\ status' = "waiting_for_input"
      /\ revision' = revision + 1 /\ eventSeq' = eventSeq + 1
      /\ checkpoint' = [checkpoint EXCEPT ![s] = IF @ = "none" THEN "open" ELSE @]
  BY DEF RequestCheckpoint, Advance, AttemptStatuses, StepStatuses, IncompleteStepStatuses
<1>2. /\ stepStatus[s] = "running" /\ status \in Phases
      /\ published[s] = {} /\ LastAttempt(s) > 0
  BY <1>1, RunningFacts
<1>3. /\ attempts' \in [Steps -> Seq(AttemptStatuses)]
      /\ stepStatus' \in [Steps -> StepStatuses] /\ stepStatus'[s] = "waiting"
      /\ \A t \in Steps : t # s => stepStatus'[t] = stepStatus[t]
      /\ \A t \in Steps : LastAttempt(t)' = LastAttempt(t)
      /\ SingleRunningAttempt' /\ PlanOrder'
  BY <1>1, OutcomeFacts
<1>4. /\ status \notin TerminalRunStatuses \cup {"queued", "waiting_for_input"}
      /\ status' \notin TerminalRunStatuses \cup Phases \cup {"queued"}
  BY <1>1, <1>2, ChainAssumption DEF TerminalRunStatuses
<1>5. /\ checkpoint' \in [Steps -> CheckpointStates]
      /\ checkpoint'[s] = "open"
      /\ \A t \in Steps : t # s => checkpoint'[t] = checkpoint[t]
  BY <1>1 DEF TypeOK, CheckpointStates, AsksForRepair, Decided
<1>6. TypeOK'
  BY <1>1, <1>3, <1>5, ReleasedLeaseType DEF TypeOK, RunStatuses
<1>7. ExactlyOncePublication'
  BY <1>1, <1>2, <1>3 DEF ExactlyOncePublication
<1>8. StatusTracksPlan' /\ CompletedMeansAllPublished'
  BY <1>1, <1>2, <1>4 DEF StatusTracksPlan, CompletedMeansAllPublished, TerminalRunStatuses
<1>9. WaitingIsAnswerable'
  BY <1>1, <1>3, <1>4, <1>5 DEF WaitingIsAnswerable
<1>10. TerminalIsReleased' /\ StepLedger'
  BY <1>2, <1>3, <1>4 DEF TerminalIsReleased, StepLedger, TerminalRunStatuses
<1> QED BY <1>3, <1>6, <1>7, <1>8, <1>9, <1>10

(* A waiting step is the only one: its run waits for exactly one answer.   *)
LEMMA WaitingFacts ==
  ASSUME StoreInv, NEW s \in Steps, stepStatus[s] = "waiting"
  PROVE  /\ status = "waiting_for_input" /\ LastAttempt(s) > 0 /\ published[s] = {}
         /\ \A t \in Steps : t < s => stepStatus[t] = "completed"
         /\ \A t \in Steps : t # s => stepStatus[t] \in {"completed", "pending"}
         /\ \A t \in Steps : stepStatus[t] # "running"
<1> USE DEF StoreInv
<1>1. status = "waiting_for_input"
  BY DEF WaitingIsAnswerable
<1>2. LastAttempt(s) > 0
  BY AttemptsType DEF StepLedger
<1>3. \A t \in Steps : t < s => stepStatus[t] = "completed"
  BY <1>2, LaterAttemptMeansCompleted
<1>4. \A t \in Steps : t > s => stepStatus[t] = "pending"
  <2> SUFFICES ASSUME NEW t \in Steps, t > s PROVE stepStatus[t] = "pending"
    OBVIOUS
  <2>1. LastAttempt(t) = 0
    BY LaterAttemptMeansCompleted, AttemptsType
  <2> QED BY <1>1, <2>1 DEF StepLedger
<1>5. \A t \in Steps : t # s => t < s \/ t > s
  BY DEF Steps
<1> QED BY <1>1, <1>2, <1>3, <1>4, <1>5 DEF ExactlyOncePublication

(* A decision offers the waiting step again, in the status it had.         *)
LEMMA SubmitKeeps ==
  ASSUME StoreInv, NEW h, NEW s \in Steps, SubmitCheckpointDecision(h, s)
  PROVE  StoreInv'
<1> USE DEF StoreInv
<1>1. /\ stepStatus[s] = "waiting" /\ stepStatus' = [stepStatus EXCEPT ![s] = "pending"]
      /\ checkpoint' = [checkpoint EXCEPT ![s] = "decided"]
      /\ status' = EnterStatus[s] /\ EnterStatus[s] \in Phases
      /\ UNCHANGED <<attempts, published, leaseToken, leaseGeneration, leaseExpired>>
      /\ revision' = revision + 1 /\ eventSeq' = eventSeq + 1
  BY ChainAssumption DEF SubmitCheckpointDecision, SetStep, Advance, leaseVars
<1>2. /\ status = "waiting_for_input" /\ LastAttempt(s) > 0 /\ published[s] = {}
      /\ \A t \in Steps : t < s => stepStatus[t] = "completed"
      /\ \A t \in Steps : t # s => stepStatus[t] \in {"completed", "pending"}
      /\ \A t \in Steps : stepStatus[t] # "running"
  BY <1>1, WaitingFacts
<1>3. /\ stepStatus' \in [Steps -> StepStatuses] /\ stepStatus'[s] = "pending"
      /\ \A t \in Steps : t # s => stepStatus'[t] = stepStatus[t]
      /\ \A t \in Steps : LastAttempt(t)' = LastAttempt(t)
  BY <1>1 DEF TypeOK, LastAttempt, StepStatuses, IncompleteStepStatuses
<1>4. status' \notin TerminalRunStatuses \cup {"queued", "waiting_for_input"}
  BY <1>1, ChainAssumption
<1>5. TypeOK'
  BY <1>1, <1>3 DEF TypeOK, RunStatuses, CheckpointStates
<1>6. SingleRunningAttempt'
  BY <1>1, <1>2, <1>3 DEF SingleRunningAttempt
<1>7. PlanOrder'
  <2> SUFFICES ASSUME NEW t \in Steps, LastAttempt(t)' > 0, NEW p \in 1..(t - 1)
               PROVE  stepStatus'[p] = "completed"
    BY DEF PlanOrder
  <2>1. p \in Steps /\ stepStatus[p] = "completed"
    BY <1>3, ChainAssumption DEF PlanOrder, Steps
  <2> QED BY <1>1, <1>3, <2>1
<1>8. ExactlyOncePublication'
  BY <1>1, <1>2, <1>3 DEF ExactlyOncePublication
<1>9. StatusTracksPlan'
  <2>1. \A p \in 1..(s - 1) : p \in Steps /\ p < s
    BY ChainAssumption DEF Steps
  <2>2. \A p \in 1..(s - 1) : stepStatus'[p] = "completed"
    BY <1>2, <1>3, <2>1
  <2> QED BY <1>1, <1>3, <2>2 DEF StatusTracksPlan
<1>10. CompletedMeansAllPublished'
  BY <1>1, <1>2, <1>4 DEF CompletedMeansAllPublished, TerminalRunStatuses
<1>11. WaitingIsAnswerable'
  BY <1>2, <1>3, <1>4 DEF WaitingIsAnswerable
<1>12. TerminalIsReleased' /\ StepLedger'
  BY <1>2, <1>3, <1>4 DEF TerminalIsReleased, StepLedger, TerminalRunStatuses
<1> QED BY <1>5, <1>6, <1>7, <1>8, <1>9, <1>10, <1>11, <1>12

(* Cancellation closes every attempt and step that was open.               *)
LEMMA CancelKeeps ==
  ASSUME StoreInv, NEW h, CancelRun(h)
  PROVE  StoreInv'
<1> USE DEF StoreInv
<1>1. /\ status \notin TerminalRunStatuses /\ status' = "cancelled" /\ ReleaseLease
      /\ stepStatus' = [s \in Steps |-> IF stepStatus[s] \in IncompleteStepStatuses
                                          THEN "cancelled" ELSE stepStatus[s]]
      /\ UNCHANGED <<checkpoint, published>>
      /\ revision' = revision + 1 /\ eventSeq' = eventSeq + 1
  BY DEF CancelRun, Advance
<1>2. /\ attempts' \in [Steps -> Seq(AttemptStatuses)]
      /\ \A t \in Steps : LastAttempt(t)' = LastAttempt(t) /\ LastAttempt(t) \in Nat
      /\ \A t \in Steps : \A b \in 1..LastAttempt(t) :
           attempts'[t][b] = IF attempts[t][b] = "running" THEN "cancelled" ELSE attempts[t][b]
  BY CancelFacts, AttemptsType DEF LastAttempt
<1>3. \A t \in Steps : stepStatus[t] \in IncompleteStepStatuses \cup {"completed"}
  BY <1>1 DEF StepLedger, TypeOK, StepStatuses, TerminalRunStatuses
<1>4. /\ stepStatus' \in [Steps -> StepStatuses]
      /\ \A t \in Steps : stepStatus'[t] =
           IF stepStatus[t] = "completed" THEN "completed" ELSE "cancelled"
  BY <1>1, <1>3 DEF StepStatuses, IncompleteStepStatuses
<1>5. TypeOK'
  BY <1>1, <1>2, <1>4, ReleasedLeaseType DEF TypeOK, RunStatuses, TerminalRunStatuses
<1>6. SingleRunningAttempt'
  BY <1>2, <1>4 DEF SingleRunningAttempt
<1>7. PlanOrder'
  <2> SUFFICES ASSUME NEW t \in Steps, LastAttempt(t)' > 0, NEW p \in 1..(t - 1)
               PROVE  stepStatus'[p] = "completed"
    BY DEF PlanOrder
  <2>1. p \in Steps /\ stepStatus[p] = "completed"
    BY <1>2, ChainAssumption DEF PlanOrder, Steps
  <2> QED BY <1>4, <2>1
<1>8. ExactlyOncePublication'
  BY <1>1, <1>2, <1>4 DEF ExactlyOncePublication
<1>9. "cancelled" \notin Phases
  BY ChainAssumption DEF TerminalRunStatuses
<1>10. StatusTracksPlan' /\ CompletedMeansAllPublished'
  BY <1>1, <1>9 DEF StatusTracksPlan, CompletedMeansAllPublished, TerminalRunStatuses
<1>11. WaitingIsAnswerable'
  BY <1>1, <1>4 DEF WaitingIsAnswerable
<1>12. TerminalIsReleased' /\ StepLedger'
  BY <1>1, <1>2, <1>4, ReleasedLeaseType DEF TerminalIsReleased, StepLedger
<1> QED BY <1>5, <1>6, <1>7, <1>8, <1>10, <1>11, <1>12

(* Publication completes the running step and moves the run to the phase   *)
(* after it, or to its end.                                                *)
LEMMA PublishKeeps ==
  ASSUME StoreInv, NEW h, NEW s \in Steps, NEW a \in 1..Len(attempts[s]),
         PublishStepOutputs(h, s, a)
  PROVE  StoreInv'
<1> USE DEF StoreInv
<1>1. /\ attempts[s][a] = "running" /\ SetAttempt(s, a, "completed") /\ SetStep(s, "completed")
      /\ "completed" \in AttemptStatuses \ {"running"} /\ "completed" \in StepStatuses \ {"running"}
      /\ UNCHANGED checkpoint /\ status' = SuccessStatus(s)
      /\ published' = [published EXCEPT ![s] = @ \cup {a}]
      /\ revision' = revision + 1
      /\ eventSeq' = eventSeq + (IF s = StepCount THEN 2 ELSE 1)
  BY DEF PublishStepOutputs, MayPublish, RunningAttempt, Advance, AttemptStatuses, StepStatuses
<1>2. /\ stepStatus[s] = "running" /\ status \in Phases /\ a = LastAttempt(s)
      /\ published[s] = {} /\ LastAttempt(s) > 0
      /\ \A t \in Steps : t < s => stepStatus[t] = "completed"
      /\ \A t \in Steps : t > s => LastAttempt(t) = 0 /\ stepStatus[t] = "pending"
  BY <1>1, RunningFacts
<1>3. /\ attempts' \in [Steps -> Seq(AttemptStatuses)]
      /\ stepStatus' \in [Steps -> StepStatuses] /\ stepStatus'[s] = "completed"
      /\ \A t \in Steps : t # s => stepStatus'[t] = stepStatus[t]
      /\ \A t \in Steps : LastAttempt(t)' = LastAttempt(t)
      /\ SingleRunningAttempt' /\ PlanOrder'
  BY <1>1, OutcomeFacts
<1>4. \A t \in Steps : stepStatus[t] # "waiting" /\ stepStatus'[t] # "waiting"
                       /\ stepStatus'[t] \in {"completed", "pending"}
  <2> SUFFICES ASSUME NEW t \in Steps, t # s PROVE stepStatus[t] \in {"completed", "pending"}
    BY <1>2, <1>3
  <2>1. t < s \/ t > s
    BY DEF Steps
  <2> QED BY <1>2, <2>1
<1>5. /\ published' \in [Steps -> SUBSET Nat] /\ published'[s] = {a}
      /\ \A t \in Steps : t # s => published'[t] = published[t]
  BY <1>1, <1>2, AttemptsType DEF TypeOK
<1>6. ExactlyOncePublication'
  BY <1>2, <1>3, <1>5 DEF ExactlyOncePublication
<1>7. /\ leaseToken' \in Nat /\ leaseGeneration' \in Nat /\ leaseExpired' \in BOOLEAN
      /\ s = StepCount => leaseToken' = 0
  <2>1. CASE s = StepCount
    BY <2>1, ReleasedLeaseType DEF PublishStepOutputs
  <2>2. CASE s # StepCount
    BY <2>2 DEF PublishStepOutputs, leaseVars, TypeOK
  <2> QED BY <2>1, <2>2
<1>8. s # StepCount => s + 1 \in Steps /\ stepStatus'[s + 1] = "pending"
  <2> SUFFICES ASSUME s # StepCount PROVE s + 1 \in Steps /\ stepStatus'[s + 1] = "pending"
    OBVIOUS
  <2>1. s + 1 \in Steps /\ s + 1 > s /\ s + 1 # s
    BY ChainAssumption DEF Steps
  <2> QED BY <1>2, <1>3, <2>1
<1>9. /\ s = StepCount => status' = "completed"
      /\ s # StepCount => status' = EnterStatus[s + 1] /\ EnterStatus[s + 1] \in Phases
  BY <1>1, <1>8, ChainAssumption DEF SuccessStatus
<1>10. status' \in Phases \cup {"completed"} /\ status' \in RunStatuses
       /\ status' \notin {"queued", "waiting_for_input", "failed", "cancelled"}
  BY <1>9, ChainAssumption DEF RunStatuses, TerminalRunStatuses
<1>11. TypeOK'
  BY <1>1, <1>3, <1>5, <1>7, <1>10 DEF TypeOK
<1>12. StatusTracksPlan'
  <2> SUFFICES ASSUME status' \in Phases PROVE StatusTracksPlan'
    BY DEF StatusTracksPlan
  <2>1. s # StepCount
    BY <1>9, ChainAssumption DEF TerminalRunStatuses
  <2>2. \A p \in 1..((s + 1) - 1) : p \in Steps /\ (p < s \/ p = s)
    BY ChainAssumption DEF Steps
  <2>3. \A p \in 1..((s + 1) - 1) : stepStatus'[p] = "completed"
    BY <1>2, <1>3, <2>2
  <2> QED BY <1>8, <1>9, <2>1, <2>3 DEF StatusTracksPlan
<1>13. CompletedMeansAllPublished'
  <2>1. CASE s = StepCount
    <3>1. \A t \in Steps : published'[t] # {}
      <4> SUFFICES ASSUME NEW t \in Steps, t # s PROVE published'[t] # {}
        BY <1>5
      <4>1. t < s
        BY <2>1 DEF Steps
      <4> QED BY <1>2, <1>5, <4>1 DEF ExactlyOncePublication
    <3> QED BY <1>9, <2>1, <3>1 DEF CompletedMeansAllPublished
  <2>2. CASE s # StepCount
    <3>1. published'[s + 1] = {}
      BY <1>6, <1>8, <2>2 DEF ExactlyOncePublication
    <3>2. status' # "completed"
      BY <1>9, <2>2, ChainAssumption DEF TerminalRunStatuses
    <3> QED BY <1>8, <2>2, <3>1, <3>2 DEF CompletedMeansAllPublished
  <2> QED BY <2>1, <2>2
<1>14. WaitingIsAnswerable'
  BY <1>4, <1>10 DEF WaitingIsAnswerable
<1>15. TerminalIsReleased'
  BY <1>4, <1>7, <1>9, ChainAssumption DEF TerminalIsReleased, TerminalRunStatuses
<1>16. StepLedger'
  BY <1>2, <1>3, <1>4, <1>10 DEF StepLedger
<1> QED BY <1>3, <1>6, <1>11, <1>12, <1>13, <1>14, <1>15, <1>16

(* Every step of the store keeps the invariant: one case per command.      *)
LEMMA StoreInvInductive == StoreInv /\ [Next]_storeVars => StoreInv'
<1> SUFFICES ASSUME StoreInv, [Next]_storeVars PROVE StoreInv'
  OBVIOUS
<1>1. CASE Next
  <2>1. CASE AcquireLease(CurrentHandle) \/ LeaseExpires \/ AppendActivityEvent(CurrentHandle)
    BY <2>1, LeaseKeeps
  <2>2. CASE CancelRun(CurrentHandle)
    BY <2>2, CancelKeeps
  <2>3. ASSUME NEW s \in Steps, StepCommand(CurrentHandle, s) PROVE StoreInv'
    <3>1. CASE BeginStep(CurrentHandle, s)
      BY <3>1, BeginKeeps
    <3>2. CASE SubmitCheckpointDecision(CurrentHandle, s)
      BY <3>2, SubmitKeeps
    <3>3. CASE CompleteRepairCheckpoint(CurrentHandle, s)
      BY <3>3, RepairKeeps
    <3>4. ASSUME NEW a \in 1..Len(attempts[s]), AttemptCommand(CurrentHandle, s, a)
          PROVE  StoreInv'
      BY <3>4, RetryKeeps, FailKeeps, RequestKeeps, PublishKeeps DEF AttemptCommand
    <3> QED BY <2>3, <3>1, <3>2, <3>3, <3>4 DEF StepCommand
  <2> QED BY <1>1, <2>1, <2>2, <2>3 DEF Next
<1>2. CASE UNCHANGED storeVars
  <2>1. UNCHANGED <<status, stepStatus, attempts, published>>
    BY <1>2 DEF storeVars
  <2>2. TypeOK' /\ WaitingIsAnswerable' /\ TerminalIsReleased'
    BY <1>2 DEF storeVars, StoreInv, TypeOK, WaitingIsAnswerable, TerminalIsReleased
  <2> QED BY <2>1, <2>2, LedgerUnchanged DEF StoreInv
<1> QED BY <1>1, <1>2

(* In every reachable state, whatever the plan: types, at most one running *)
(* attempt, plan order, exactly-once publication, a status that names the  *)
(* next step, an answerable wait, and nothing left behind by a finished    *)
(* run.                                                                    *)
THEOREM StoreSafety == Spec => []StoreInv
<1>1. Init => StoreInv
  BY InitEstablishes
<1>2. StoreInv /\ [Next]_storeVars => StoreInv'
  BY StoreInvInductive
<1> QED BY <1>1, <1>2, PTL DEF Spec

(* The variables keep the shape of their columns (the store's type rule).  *)
THEOREM StoreTypes == Spec => []TypeOK
<1>1. StoreInv => TypeOK
  BY DEF StoreInv
<1> QED BY <1>1, StoreSafety, PTL

(* No interleaving of executors, user and clock gives a run two running    *)
(* attempts.                                                               *)
THEOREM OneAttemptAtATime == Spec => []SingleRunningAttempt
<1>1. StoreInv => SingleRunningAttempt
  BY DEF StoreInv
<1> QED BY <1>1, StoreSafety, PTL

(* Every step's outputs are published exactly once, by its last attempt.   *)
THEOREM PublishedOnce == Spec => []ExactlyOncePublication
<1>1. StoreInv => ExactlyOncePublication
  BY DEF StoreInv
<1> QED BY <1>1, StoreSafety, PTL

(* A completed run has published every step and no other run has.          *)
THEOREM CompletionIsWhole == Spec => []CompletedMeansAllPublished
<1>1. StoreInv => CompletedMeansAllPublished
  BY DEF StoreInv
<1> QED BY <1>1, StoreSafety, PTL

(* No command changes a finished run: the status guards refuse all but the *)
(* lease clock, and a finished run has no lease that could expire.         *)
THEOREM FinishedRunsAreFinal == Spec => TerminalIsFinal
<1>1. StoreInv /\ [Next]_storeVars => [(status \in TerminalRunStatuses) => UNCHANGED storeVars]_storeVars
  <2> SUFFICES ASSUME StoreInv, Next, status \in TerminalRunStatuses PROVE FALSE
    OBVIOUS
  <2>1. leaseToken = 0 /\ status # "waiting_for_input"
    BY DEF StoreInv, TerminalIsReleased, TerminalRunStatuses
  <2>2. ASSUME NEW s \in Steps, StepCommand(CurrentHandle, s) PROVE FALSE
    BY <2>1, <2>2 DEF StepCommand, AttemptCommand, BeginStep, MayBegin, SubmitCheckpointDecision,
       CompleteRepairCheckpoint, RecordRetryableFailure, FailRun, RequestCheckpoint,
       PublishStepOutputs, MayPublish, RequireLease
  <2> QED BY <2>1, <2>2 DEF Next, AcquireLease, LeaseExpires, AppendActivityEvent, CancelRun,
            RequireLease
<1> QED BY <1>1, StoreSafety, PTL DEF Spec, TerminalIsFinal

(* Every command that changes the status or a step writes an event in the  *)
(* same commit.                                                            *)
THEOREM TransitionsAreAnnounced == Spec => EveryTransitionIsAnnounced
<1>1. StoreInv /\ [Next]_storeVars =>
        [<<status, stepStatus>>' # <<status, stepStatus>> => eventSeq' > eventSeq]_storeVars
  <2> SUFFICES ASSUME StoreInv, Next PROVE UNCHANGED <<status, stepStatus>> \/ eventSeq' > eventSeq
    OBVIOUS
  <2>1. eventSeq \in Nat
    BY DEF StoreInv, TypeOK
  <2>2. ASSUME NEW s \in Steps, StepCommand(CurrentHandle, s)
        PROVE  UNCHANGED <<status, stepStatus>> \/ eventSeq' > eventSeq
    <3>1. CASE CompleteRepairCheckpoint(CurrentHandle, s)
      BY <3>1 DEF CompleteRepairCheckpoint
    <3>2. CASE BeginStep(CurrentHandle, s) \/ SubmitCheckpointDecision(CurrentHandle, s)
      BY <2>1, <3>2 DEF BeginStep, SubmitCheckpointDecision, Advance
    <3>3. ASSUME NEW a \in 1..Len(attempts[s]), AttemptCommand(CurrentHandle, s, a)
          PROVE  eventSeq' > eventSeq
      BY <2>1, <3>3 DEF AttemptCommand, RecordRetryableFailure, FailRun, RequestCheckpoint,
         PublishStepOutputs, Advance
    <3> QED BY <2>2, <3>1, <3>2, <3>3 DEF StepCommand
  <2>3. CASE AcquireLease(CurrentHandle) \/ LeaseExpires
    BY <2>3 DEF AcquireLease, LeaseExpires
  <2>4. CASE AppendActivityEvent(CurrentHandle) \/ CancelRun(CurrentHandle)
    BY <2>1, <2>4 DEF AppendActivityEvent, CancelRun, Advance
  <2> QED BY <2>2, <2>3, <2>4 DEF Next
<1> QED BY <1>1, StoreSafety, PTL DEF Spec, EveryTransitionIsAnnounced

(* A run that waits for its user can be answered: the question is open.    *)
THEOREM WaitsCanBeAnswered == Spec => []WaitingIsAnswerable
<1>1. StoreInv => WaitingIsAnswerable
  BY DEF StoreInv
<1> QED BY <1>1, StoreSafety, PTL

-----------------------------------------------------------------------------
(* The revision as a fence.                                                *)

(* The lease of a run was granted no later than its newest grant, and      *)
(* grants are never counted back.                                          *)
LeaseIsNewest == leaseToken <= leaseGeneration

LEMMA LeaseStaysNewest ==
  ASSUME TypeOK, LeaseIsNewest, [Next]_storeVars
  PROVE  LeaseIsNewest' /\ leaseGeneration <= leaseGeneration'
<1> USE DEF LeaseIsNewest, TypeOK
<1>1. ASSUME NEW s \in Steps, StepCommand(CurrentHandle, s)
      PROVE  LeaseIsNewest' /\ leaseGeneration <= leaseGeneration'
  BY <1>1 DEF StepCommand, AttemptCommand, BeginStep, SubmitCheckpointDecision,
     CompleteRepairCheckpoint, RecordRetryableFailure, FailRun, RequestCheckpoint,
     PublishStepOutputs, ReleaseLease, leaseVars
<1>2. CASE AcquireLease(CurrentHandle) \/ LeaseExpires \/ AppendActivityEvent(CurrentHandle)
           \/ CancelRun(CurrentHandle)
  BY <1>2 DEF AcquireLease, LeaseExpires, AppendActivityEvent, CancelRun, ReleaseLease, leaseVars
<1>3. CASE UNCHANGED storeVars
  BY <1>3 DEF storeVars
<1> QED BY <1>1, <1>2, <1>3 DEF Next

(* What a snapshot of the run sees of it, besides its revision.            *)
Seen == <<status, stepStatus, attempts, leaseToken>>

LEMMA SetStepIsSeen ==
  ASSUME TypeOK, NEW s \in Steps, NEW v, SetStep(s, v), stepStatus[s] # v
  PROVE  Seen' # Seen
BY DEF TypeOK, SetStep, Seen

(* A command moves the revision by one and is seen, or does neither and    *)
(* leaves the lease as it is, but for its expiry.                          *)
LEMMA CommandIsFenced ==
  ASSUME StoreInv, LeaseIsNewest, [Next]_storeVars
  PROVE  \/ revision' = revision + 1 /\ Seen' # Seen
         \/ /\ UNCHANGED <<revision, leaseGeneration>> /\ Seen' = Seen
            /\ leaseExpired => leaseExpired'
<1> DEFINE Fenced == revision' = revision + 1 /\ Seen' # Seen
<1>1. TypeOK /\ LeaseIsNewest
  BY DEF StoreInv
<1>2. CASE AcquireLease(CurrentHandle)
  <2>1. leaseToken' # leaseToken /\ revision' = revision + 1
    BY <1>1, <1>2 DEF AcquireLease, LeaseIsNewest, TypeOK
  <2> QED BY <2>1 DEF Seen
<1>3. CASE LeaseExpires \/ AppendActivityEvent(CurrentHandle)
  BY <1>3 DEF LeaseExpires, AppendActivityEvent, Seen, leaseVars
<1>4. CASE CancelRun(CurrentHandle)
  <2>1. status' # status /\ revision' = revision + 1
    BY <1>4 DEF CancelRun, Advance, TerminalRunStatuses
  <2> QED BY <2>1 DEF Seen
<1>5. ASSUME NEW s \in Steps, StepCommand(CurrentHandle, s)
      PROVE  Fenced \/ CompleteRepairCheckpoint(CurrentHandle, s)
  <2>1. CASE BeginStep(CurrentHandle, s)
    <3>1. SetStep(s, "running") /\ stepStatus[s] = "pending" /\ revision' = revision + 1
      BY <2>1 DEF BeginStep, MayBegin, Advance
    <3> QED BY <1>1, <3>1, SetStepIsSeen
  <2>2. CASE SubmitCheckpointDecision(CurrentHandle, s)
    <3>1. SetStep(s, "pending") /\ stepStatus[s] = "waiting" /\ revision' = revision + 1
      BY <2>2 DEF SubmitCheckpointDecision, Advance
    <3> QED BY <1>1, <3>1, SetStepIsSeen
  <2>3. ASSUME NEW a \in 1..Len(attempts[s]), AttemptCommand(CurrentHandle, s, a)
        PROVE  Fenced
    <3>1. PICK v \in {"pending", "failed", "waiting", "completed"} : SetStep(s, v)
      BY <2>3 DEF AttemptCommand, RecordRetryableFailure, FailRun, RequestCheckpoint,
         PublishStepOutputs
    <3>2. attempts[s][a] = "running" /\ revision' = revision + 1
      BY <2>3 DEF AttemptCommand, RecordRetryableFailure, FailRun, RequestCheckpoint,
         PublishStepOutputs, MayPublish, RunningAttempt, Advance
    <3>3. stepStatus[s] = "running"
      BY <3>2 DEF StoreInv, SingleRunningAttempt, LastAttempt
    <3> QED BY <1>1, <3>1, <3>2, <3>3, SetStepIsSeen
  <2> QED BY <1>5, <2>1, <2>2, <2>3 DEF StepCommand
<1>6. ASSUME NEW s \in Steps, CompleteRepairCheckpoint(CurrentHandle, s)
      PROVE  UNCHANGED <<revision, leaseGeneration>> /\ Seen' = Seen /\ UNCHANGED leaseExpired
  BY <1>6 DEF CompleteRepairCheckpoint, Seen, leaseVars
<1>7. CASE UNCHANGED storeVars
  BY <1>7 DEF storeVars, Seen
<1> QED BY <1>2, <1>3, <1>4, <1>5, <1>6, <1>7 DEF Next

(* expected_revision alone makes every older snapshot stale: whatever      *)
(* changes the run, a step, an attempt or the lease moves it by one, and   *)
(* nothing else does.                                                      *)
THEOREM RevisionIsAFence == Spec => RevisionFencesEveryCommand
<1>1. Init => LeaseIsNewest
  BY DEF Init, LeaseIsNewest
<1>2. StoreInv /\ LeaseIsNewest /\ [Next]_storeVars => LeaseIsNewest'
  BY LeaseStaysNewest DEF StoreInv
<1>3. StoreInv /\ LeaseIsNewest /\ [Next]_storeVars =>
        [ revision' = (IF <<status, stepStatus, attempts, leaseToken>>' #
                          <<status, stepStatus, attempts, leaseToken>>
                         THEN revision + 1 ELSE revision) ]_storeVars
  BY CommandIsFenced DEF Seen
<1> QED BY <1>1, <1>2, <1>3, StoreSafety, PTL DEF Spec, RevisionFencesEveryCommand

-----------------------------------------------------------------------------
(* The refinement of RunLifecycle.                                         *)

(* A command that leaves the abstract phase and the completed steps alone  *)
(* is a stutter of the lifecycle.                                          *)
LEMMA SamePhase ==
  ASSUME StoreInv, status \notin TerminalRunStatuses, status # "waiting_for_input",
         status' \notin TerminalRunStatuses, status' # "waiting_for_input",
         \A s \in Steps : stepStatus'[s] = "completed" <=> stepStatus[s] = "completed"
  PROVE  UNCHANGED Lifecycle!vars
<1>1. lifecyclePhase = "open" /\ lifecyclePhase' = "open"
  BY DEF lifecyclePhase
<1>2. lifecycleDone' = lifecycleDone
  BY DEF lifecycleDone
<1> QED BY <1>1, <1>2 DEF Lifecycle!vars

(* A freshly created run is an open lifecycle without finished steps.      *)
LEMMA LifecycleInit == Init => Lifecycle!Init
<1> SUFFICES ASSUME Init PROVE lifecyclePhase = "open" /\ lifecycleDone = {}
  BY DEF Lifecycle!Init
<1>1. lifecyclePhase = "open"
  BY DEF Init, lifecyclePhase, TerminalRunStatuses
<1> QED BY <1>1 DEF Init, lifecycleDone

(* Publishing the outputs of a step is the lifecycle's Publish.            *)
LEMMA PublishRefines ==
  ASSUME StoreInv, NEW h, NEW s \in Steps, NEW a \in 1..Len(attempts[s]),
         PublishStepOutputs(h, s, a)
  PROVE  Lifecycle!Next
<1> USE DEF StoreInv
<1>1. /\ attempts[s][a] = "running" /\ status' = SuccessStatus(s)
      /\ stepStatus' = [stepStatus EXCEPT ![s] = "completed"]
  BY DEF PublishStepOutputs, MayPublish, RunningAttempt, SetStep
<1>2. /\ stepStatus[s] = "running" /\ status \in Phases
      /\ \A t \in Steps : t < s => stepStatus[t] = "completed"
  BY <1>1, RunningFacts
<1>3. lifecyclePhase = "open"
  BY <1>2, ChainAssumption DEF lifecyclePhase
<1>4. s \notin lifecycleDone /\ 1..(s - 1) \subseteq lifecycleDone
  BY <1>2, ChainAssumption DEF lifecycleDone, Steps
<1>5. lifecycleDone' = lifecycleDone \cup {s}
  BY <1>1 DEF lifecycleDone, TypeOK
<1>6. lifecyclePhase' = IF s = StepCount THEN "completed" ELSE "open"
  <2>1. CASE s = StepCount
    BY <1>1, <2>1 DEF lifecyclePhase, SuccessStatus, TerminalRunStatuses
  <2>2. CASE s # StepCount
    <3>1. s + 1 \in Steps
      BY <2>2, ChainAssumption DEF Steps
    <3>2. status' \in Phases
      BY <1>1, <2>2, <3>1, ChainAssumption DEF SuccessStatus
    <3> QED BY <2>2, <3>2, ChainAssumption DEF lifecyclePhase
  <2> QED BY <2>1, <2>2
<1>7. Lifecycle!Publish(s)
  BY <1>3, <1>4, <1>5, <1>6 DEF Lifecycle!Publish
<1> QED BY <1>7 DEF Lifecycle!Next, Lifecycle!Steps, Steps

(* Commands that open or close an attempt, or park the run, are lifecycle  *)
(* steps or stutters.                                                      *)
LEMMA AttemptCommandRefines ==
  ASSUME StoreInv, NEW h, NEW s \in Steps, NEW a \in 1..Len(attempts[s]),
         AttemptCommand(h, s, a)
  PROVE  Lifecycle!Next \/ UNCHANGED Lifecycle!vars
<1> USE DEF StoreInv
<1>1. attempts[s][a] = "running"
  BY DEF AttemptCommand, RecordRetryableFailure, FailRun, RequestCheckpoint, PublishStepOutputs,
         MayPublish, RunningAttempt
<1>2. /\ stepStatus[s] = "running"
      /\ status \notin TerminalRunStatuses \cup {"waiting_for_input"}
  BY <1>1, RunningFacts, ChainAssumption
<1>3. lifecyclePhase = "open"
  BY <1>2 DEF lifecyclePhase
<1>4. CASE RecordRetryableFailure(h, s, a)
  <2>1. status' = status /\ stepStatus' = [stepStatus EXCEPT ![s] = "pending"]
    BY <1>4 DEF RecordRetryableFailure, SetStep
  <2> QED BY <1>2, <2>1, SamePhase DEF TypeOK
<1>5. CASE FailRun(h, s, a)
  <2>1. status' = "failed" /\ stepStatus' = [stepStatus EXCEPT ![s] = "failed"]
    BY <1>5 DEF FailRun, SetStep
  <2>2. lifecyclePhase' = "failed" /\ lifecycleDone' = lifecycleDone
    BY <1>2, <2>1 DEF lifecyclePhase, lifecycleDone, TypeOK, TerminalRunStatuses
  <2>3. Lifecycle!Fail
    BY <1>3, <2>2 DEF Lifecycle!Fail
  <2> QED BY <2>3 DEF Lifecycle!Next
<1>6. CASE RequestCheckpoint(h, s, a)
  <2>1. status' = "waiting_for_input" /\ stepStatus' = [stepStatus EXCEPT ![s] = "waiting"]
    BY <1>6 DEF RequestCheckpoint, SetStep
  <2>2. lifecyclePhase' = "waiting" /\ lifecycleDone' = lifecycleDone
    BY <1>2, <2>1 DEF lifecyclePhase, lifecycleDone, TypeOK, TerminalRunStatuses
  <2>3. Lifecycle!Park
    BY <1>3, <2>2 DEF Lifecycle!Park
  <2> QED BY <2>3 DEF Lifecycle!Next
<1>7. CASE PublishStepOutputs(h, s, a)
  BY <1>7, PublishRefines
<1> QED BY <1>4, <1>5, <1>6, <1>7 DEF AttemptCommand

(* Every step of the store is a lifecycle step or a stutter.               *)
LEMMA LifecycleStep ==
  ASSUME StoreInv, [Next]_storeVars
  PROVE  [Lifecycle!Next]_(Lifecycle!vars)
<1> USE DEF StoreInv
<1>1. CASE UNCHANGED storeVars
  BY <1>1 DEF storeVars, lifecyclePhase, lifecycleDone, Lifecycle!vars
<1>2. CASE AcquireLease(CurrentHandle) \/ LeaseExpires \/ AppendActivityEvent(CurrentHandle)
  <2>1. UNCHANGED <<status, stepStatus>>
    BY <1>2 DEF AcquireLease, LeaseExpires, AppendActivityEvent
  <2> QED BY <2>1 DEF lifecyclePhase, lifecycleDone, Lifecycle!vars
<1>3. CASE CancelRun(CurrentHandle)
  <2>1. /\ status \notin TerminalRunStatuses /\ status' = "cancelled"
        /\ \A s \in Steps : stepStatus'[s] =
             IF stepStatus[s] \in IncompleteStepStatuses THEN "cancelled" ELSE stepStatus[s]
    BY <1>3 DEF CancelRun
  <2>2. lifecyclePhase \in {"open", "waiting"} /\ lifecyclePhase' = "cancelled"
    BY <2>1 DEF lifecyclePhase, TerminalRunStatuses
  <2>3. lifecycleDone' = lifecycleDone
    BY <2>1 DEF lifecycleDone, IncompleteStepStatuses
  <2>4. Lifecycle!Cancel
    BY <2>2, <2>3 DEF Lifecycle!Cancel
  <2> QED BY <2>4 DEF Lifecycle!Next
<1>4. ASSUME NEW s \in Steps, BeginStep(CurrentHandle, s)
      PROVE  UNCHANGED Lifecycle!vars
  <2>1. /\ stepStatus[s] = "pending" /\ stepStatus' = [stepStatus EXCEPT ![s] = "running"]
        /\ status \in Phases \cup {"queued"} /\ status' \in Phases
    BY <1>4, ChainAssumption DEF BeginStep, MayBegin, RequireLease, RequiredStatus, SetStep
  <2>2. /\ status \notin TerminalRunStatuses \cup {"waiting_for_input"}
        /\ status' \notin TerminalRunStatuses \cup {"waiting_for_input"}
    BY <2>1, ChainAssumption DEF TerminalRunStatuses
  <2> QED BY <2>1, <2>2, SamePhase DEF TypeOK
<1>5. ASSUME NEW s \in Steps, SubmitCheckpointDecision(CurrentHandle, s)
      PROVE  Lifecycle!Next
  <2>1. /\ stepStatus[s] = "waiting" /\ stepStatus' = [stepStatus EXCEPT ![s] = "pending"]
        /\ status = "waiting_for_input" /\ status' \in Phases
    BY <1>5, ChainAssumption DEF SubmitCheckpointDecision, SetStep
  <2>2. lifecyclePhase = "waiting" /\ lifecyclePhase' = "open"
    BY <2>1, ChainAssumption DEF lifecyclePhase, TerminalRunStatuses
  <2>3. lifecycleDone' = lifecycleDone
    BY <2>1 DEF lifecycleDone, TypeOK
  <2>4. Lifecycle!Resume
    BY <2>2, <2>3 DEF Lifecycle!Resume
  <2> QED BY <2>4 DEF Lifecycle!Next
<1>6. ASSUME NEW s \in Steps, CompleteRepairCheckpoint(CurrentHandle, s)
      PROVE  UNCHANGED Lifecycle!vars
  BY <1>6 DEF CompleteRepairCheckpoint, lifecyclePhase, lifecycleDone, Lifecycle!vars
<1>7. ASSUME NEW s \in Steps, StepCommand(CurrentHandle, s)
      PROVE  Lifecycle!Next \/ UNCHANGED Lifecycle!vars
  BY <1>4, <1>5, <1>6, <1>7, AttemptCommandRefines DEF StepCommand
<1> QED BY <1>1, <1>2, <1>3, <1>7 DEF Next

(* The workflow store implements the run lifecycle: published once, in     *)
(* plan order, never while waiting, and final once finished.               *)
THEOREM StoreImplementsLifecycle == Spec => ImplementsLifecycle
<1>1. Init => Lifecycle!Init
  BY LifecycleInit
<1>2. StoreInv /\ [Next]_storeVars => [Lifecycle!Next]_(Lifecycle!vars)
  BY LifecycleStep
<1> QED BY <1>1, <1>2, StoreSafety, PTL DEF Spec, ImplementsLifecycle, Lifecycle!Spec
====
