---- MODULE ResearchTurn ----
(***************************************************************************)
(* submit_research_turn on one project, and the Research Thread it shares  *)
(* with the project's run.  A turn is several transactions around a model  *)
(* call: it is admitted, started, and its outcome is persisted or recorded *)
(* as failed.  The transactions of turns lock the project row; those by    *)
(* which a run narrates its milestones do not.  An entry takes the next    *)
(* sequence number from max(sequence), and uq_research_thread_entry_       *)
(* project_sequence refuses the one that commits second: a transaction     *)
(* that appends commits only if the thread has not grown since it read it. *)
(***************************************************************************)
EXTENDS Integers, Sequences

CONSTANTS
  Keys,            \* idempotency keys: one per turn the user sends
  Requests,        \* HTTP requests in progress, each with its own uuid4 lease token
  Writers,         \* research-run workers
  MilestoneCount,  \* 1: run started; 2..: a step published or the run completed
  Nobody,          \* no lock holder, no lease owner
  MaxFaults        \* bound on crashes and lost commit acknowledgements

ASSUME TurnAssumption ==
  /\ MilestoneCount \in Nat \ {0} /\ MaxFaults \in Nat
  /\ Nobody \notin Requests /\ Nobody \notin Writers
  /\ Keys \cap (1..MilestoneCount) = {}

VARIABLES
  execution,  \* ModelExecutionModel.status by idempotency key ("none": no row)
  owner,      \* ModelExecutionModel.lease_token: the request that inserted it
  expired,    \* lease_expires_at <= now
  thread,     \* ResearchThreadEntryModel rows in sequence order
  lock,       \* holder of the project row lock
  pc, key,    \* of a request: its place and the key it carries
  base,       \* of a request: the length of the thread its transaction read
  leader,     \* the worker the run's lease was last granted to
  progress,   \* milestones the run has passed (0: still queued)
  narrator,   \* of a worker: its place, its milestone and the length it read
  faults

executionVars == <<execution, owner, expired>>
requestVars == <<pc, key, base>>
runVars == <<leader, progress, narrator>>
vars == <<executionVars, thread, lock, requestVars, runVars, faults>>

Milestones == 1..MilestoneCount
Entry(kind, of) == [kind |-> kind, of |-> of]
Active == {"pending", "running"}

Init ==
  /\ execution = [k \in Keys |-> "none"]
  /\ owner = [k \in Keys |-> Nobody]
  /\ expired = [k \in Keys |-> FALSE]
  /\ thread = << >>
  /\ lock = Nobody
  /\ pc = [r \in Requests |-> "idle"]
  /\ key \in [Requests -> Keys]
  /\ base = [r \in Requests |-> 0]
  /\ leader = Nobody /\ progress = 0
  /\ narrator = [w \in Writers |-> [at |-> "idle", milestone |-> 1, base |-> 0]]
  /\ faults = 0

Goto(r, place) == pc' = [pc EXCEPT ![r] = place]
Unlock(r) ==
  /\ lock = r /\ lock' = Nobody
  /\ base' = [base EXCEPT ![r] = 0]

(* The transaction takes the project lock; it then reads the thread.  What *)
(* it read is forgotten with the transaction.                              *)
Lock(r) ==
  /\ lock = Nobody /\ lock' = r
  /\ base' = [base EXCEPT ![r] = Len(thread)]

(* Every append of the transaction gets a sequence nobody else committed.  *)
SequenceIsFree(r) == Len(thread) = base[r]

-----------------------------------------------------------------------------
Submit(r, k) ==
  /\ pc[r] = "idle"
  /\ Goto(r, "admit") /\ key' = [key EXCEPT ![r] = k]
  /\ UNCHANGED <<executionVars, thread, lock, base, runVars, faults>>

AdmitBegin(r) ==
  /\ pc[r] = "admit" /\ Lock(r)
  /\ Goto(r, "admitting")
  /\ UNCHANGED <<executionVars, thread, key, runVars, faults>>

(* Mutant: only an execution that never started is reclaimed.              *)
StalePending == {k \in Keys : execution[k] = "pending" /\ expired[k]}

(* _expire_stale_model_executions: at most one execution is active, so at  *)
(* most one message is appended for it.                                    *)
Stale == {k \in Keys : execution[k] \in Active /\ expired[k]}

(* Mutant: the interrupted execution is closed without telling the user.   *)
NoStaleMessages == << >>

StaleMessages ==
  IF Stale = {} THEN << >>
  ELSE << Entry("unavailable", CHOOSE k \in Stale : TRUE) >>

(* Mutant: a turn is admitted although another one is active.              *)
AdmitWhileBusy(r) ==
  /\ pc[r] = "admitting" /\ Unlock(r)
  /\ execution[key[r]] = "none" /\ SequenceIsFree(r)
  /\ execution' = [execution EXCEPT ![key[r]] = "pending"]
  /\ owner' = [owner EXCEPT ![key[r]] = r]
  /\ thread' = Append(thread, Entry("user", key[r]))
  /\ Goto(r, "start")
  /\ UNCHANGED <<expired, key, runVars, faults>>

(* A new turn: stale executions are closed, the user's message is written. *)
Admit(r) ==
  /\ pc[r] = "admitting" /\ Unlock(r)
  /\ execution[key[r]] = "none"
  /\ \A k \in Keys \ Stale : execution[k] \notin Active
  /\ SequenceIsFree(r)
  /\ execution' = [k \in Keys |-> IF k = key[r] THEN "pending"
                                  ELSE IF k \in Stale THEN "failed" ELSE execution[k]]
  /\ owner' = [owner EXCEPT ![key[r]] = r]
  /\ expired' = [expired EXCEPT ![key[r]] = FALSE]
  /\ thread' = thread \o StaleMessages \o << Entry("user", key[r]) >>
  /\ Goto(r, "start")
  /\ UNCHANGED <<key, runVars, faults>>

(* A replay of a turn that succeeded returns it; closing another turn's    *)
(* stale execution commits with it.                                        *)
ReplaySucceeded(r) ==
  /\ pc[r] = "admitting" /\ Unlock(r)
  /\ execution[key[r]] = "succeeded"
  /\ Stale # {} => SequenceIsFree(r)
  /\ execution' = [k \in Keys |-> IF k \in Stale THEN "failed" ELSE execution[k]]
  /\ thread' = thread \o StaleMessages
  /\ Goto(r, "idle")
  /\ UNCHANGED <<owner, expired, key, runVars, faults>>

(* The raise (busy, the failure of the replayed turn, a sequence conflict) *)
(* rolls back what the transaction did, the closing of stale ones included. *)
AdmitRaises(r) ==
  /\ pc[r] = "admitting" /\ Unlock(r)
  /\ \/ execution[key[r]] \in Active \cup {"failed"}
     \/ \E k \in Keys \ Stale : execution[k] \in Active /\ execution[key[r]] = "none"
     \/ ~SequenceIsFree(r) /\ (execution[key[r]] = "none" \/ Stale # {})
  /\ Goto(r, "idle")
  /\ UNCHANGED <<executionVars, thread, key, runVars, faults>>

-----------------------------------------------------------------------------
(* Mutant: the result is stored whatever happened to the execution since.  *)
HoldsLeaseAlways(r, statuses) == TRUE

(* The lease the request took at admission still stands.                   *)
HoldsLease(r, statuses) ==
  /\ execution[key[r]] \in statuses
  /\ owner[key[r]] = r /\ ~expired[key[r]]

(* The second transaction: it takes no project lock and appends nothing.   *)
Start(r) ==
  /\ pc[r] = "start" /\ HoldsLease(r, {"pending"})
  /\ execution' = [execution EXCEPT ![key[r]] = "running"]
  /\ Goto(r, "call")
  /\ UNCHANGED <<owner, expired, thread, lock, key, base, runVars, faults>>

StartRefused(r) ==
  /\ pc[r] = "start" /\ ~HoldsLease(r, {"pending"})
  /\ Goto(r, "idle")
  /\ UNCHANGED <<executionVars, thread, lock, key, base, runVars, faults>>

(* planner.execute and the validation of its outcome, in no transaction.   *)
CallModel(r) ==
  /\ pc[r] = "call"
  /\ \E place \in {"persist", "fail"} : Goto(r, place)
  /\ UNCHANGED <<executionVars, thread, lock, key, base, runVars, faults>>

PersistBegin(r) ==
  /\ pc[r] = "persist" /\ Lock(r)
  /\ Goto(r, "persisting")
  /\ UNCHANGED <<executionVars, thread, key, runVars, faults>>

Outcomes(k) ==
  LET answer == << Entry("reasoning", k), Entry("message", k) >>
  IN {answer, Append(answer, Entry("question", k))}

(* _persist_successful_turn.  When the acknowledgement of its commit is    *)
(* lost, the caller takes it for a failure.                                *)
Persist(r) ==
  /\ pc[r] = "persisting" /\ Unlock(r)
  /\ HoldsLease(r, {"running"}) /\ SequenceIsFree(r)
  /\ execution' = [execution EXCEPT ![key[r]] = "succeeded"]
  /\ \E entries \in Outcomes(key[r]) : thread' = thread \o entries
  /\ \/ Goto(r, "idle") /\ UNCHANGED faults
     \/ Goto(r, "fail") /\ faults < MaxFaults /\ faults' = faults + 1
  /\ UNCHANGED <<owner, expired, key, runVars>>

PersistRaises(r) ==
  /\ pc[r] = "persisting" /\ Unlock(r)
  /\ ~(HoldsLease(r, {"running"}) /\ SequenceIsFree(r))
  /\ Goto(r, "fail")
  /\ UNCHANGED <<executionVars, thread, key, runVars, faults>>

FailBegin(r) ==
  /\ pc[r] = "fail" /\ Lock(r)
  /\ Goto(r, "failing")
  /\ UNCHANGED <<executionVars, thread, key, runVars, faults>>

(* _finish_failed_turn: a no-op once the lease is gone or the turn ended.  *)
Fail(r) ==
  /\ pc[r] = "failing" /\ Unlock(r)
  /\ IF HoldsLease(r, Active) /\ SequenceIsFree(r)
       THEN /\ execution' = [execution EXCEPT ![key[r]] = "failed"]
            /\ thread' = Append(thread, Entry("unavailable", key[r]))
       ELSE UNCHANGED <<execution, thread>>
  /\ Goto(r, "idle")
  /\ UNCHANGED <<owner, expired, key, runVars, faults>>

LeaseExpires(k) ==
  /\ execution[k] \in Active /\ ~expired[k]
  /\ expired' = [expired EXCEPT ![k] = TRUE]
  /\ UNCHANGED <<execution, owner, thread, lock, requestVars, runVars, faults>>

(* The process dies: its open transaction is rolled back.                  *)
Crash(r) ==
  /\ pc[r] # "idle" /\ faults < MaxFaults
  /\ faults' = faults + 1
  /\ Goto(r, "idle")
  /\ lock' = IF lock = r THEN Nobody ELSE lock
  /\ base' = [base EXCEPT ![r] = 0]
  /\ UNCHANGED <<executionVars, thread, key, runVars>>

-----------------------------------------------------------------------------
(* The run.  execute_run appends an idempotent message for every milestone *)
(* after the milestone is committed; a queued run may be taken over by     *)
(* another worker, a run that has begun its first step may not.            *)
Narrated(m) == \E i \in DOMAIN thread : thread[i].of = m
At(w, place) == narrator' = [narrator EXCEPT ![w].at = place, ![w].base = 0]

Grant(w) ==
  /\ narrator[w].at = "idle" /\ progress = 0
  /\ leader' = w
  /\ narrator' = [narrator EXCEPT ![w].at = "scan"]
  /\ UNCHANGED <<executionVars, thread, lock, requestVars, progress, faults>>

(* Mutant: the loop over the milestones runs past its end.                 *)
ProceedPastEnd(w) ==
  /\ narrator[w].at = "told"
  /\ progress' = narrator[w].milestone
  /\ narrator' = [narrator EXCEPT ![w].at = "scan", ![w].milestone = @ + 1]
  /\ UNCHANGED <<executionVars, thread, lock, requestVars, leader, faults>>

(* The message is there: the leader's run goes on to its next milestone,   *)
(* a worker that lost the run is refused by the store.                     *)
Proceed(w) ==
  /\ narrator[w].at = "told"
  /\ IF leader # w THEN At(w, "idle") /\ UNCHANGED progress
     ELSE /\ progress' = narrator[w].milestone
          /\ IF narrator[w].milestone = MilestoneCount THEN At(w, "done")
             ELSE narrator' = [narrator EXCEPT ![w].at = "scan", ![w].milestone = @ + 1]
  /\ UNCHANGED <<executionVars, thread, lock, requestVars, leader, faults>>

(* execute_run has raised, or its process has died.  A run that is still   *)
(* queued is polled again; nobody polls one that is in a phase.            *)
Abandon(w) == At(w, IF narrator[w].milestone = 1 THEN "idle" ELSE "stopped")

WriterCrash(w) ==
  /\ narrator[w].at \in {"scan", "read", "insert", "told"}
  /\ faults < MaxFaults /\ faults' = faults + 1
  /\ Abandon(w)
  /\ UNCHANGED <<executionVars, thread, lock, requestVars, leader, progress>>

(* append_thread_entry: look for the milestone key, then read the highest  *)
(* sequence, then insert; three statements of one READ COMMITTED           *)
(* transaction.                                                            *)
Scan(w) ==
  /\ narrator[w].at = "scan"
  /\ At(w, IF Narrated(narrator[w].milestone) THEN "told" ELSE "read")
  /\ UNCHANGED <<executionVars, thread, lock, requestVars, leader, progress, faults>>

ReadSequence(w) ==
  /\ narrator[w].at = "read"
  /\ narrator' = [narrator EXCEPT ![w].at = "insert", ![w].base = Len(thread)]
  /\ UNCHANGED <<executionVars, thread, lock, requestVars, leader, progress, faults>>

Insert(w) ==
  /\ narrator[w].at = "insert" /\ narrator[w].base = Len(thread)
  /\ thread' = Append(thread, Entry("milestone", narrator[w].milestone))
  /\ At(w, "told")
  /\ UNCHANGED <<executionVars, lock, requestVars, leader, progress, faults>>

(* IntegrityError: somebody else committed an entry in the meantime.       *)
InsertConflicts(w) ==
  /\ narrator[w].at = "insert" /\ narrator[w].base # Len(thread)
  /\ Abandon(w)
  /\ UNCHANGED <<executionVars, thread, lock, requestVars, leader, progress, faults>>

-----------------------------------------------------------------------------
RequestStep(r) ==
  \/ AdmitBegin(r) \/ Admit(r) \/ ReplaySucceeded(r) \/ AdmitRaises(r)
  \/ Start(r) \/ StartRefused(r) \/ CallModel(r)
  \/ PersistBegin(r) \/ Persist(r) \/ PersistRaises(r) \/ FailBegin(r) \/ Fail(r)

WriterStep(w) == Proceed(w) \/ Scan(w) \/ ReadSequence(w) \/ Insert(w) \/ InsertConflicts(w)

Next ==
  \/ \E r \in Requests : RequestStep(r) \/ Crash(r) \/ \E k \in Keys : Submit(r, k)
  \/ \E k \in Keys : LeaseExpires(k)
  \/ \E w \in Writers : Grant(w) \/ WriterStep(w) \/ WriterCrash(w)

(* Requests and workers keep running, PostgreSQL grants a row lock in      *)
(* turn, a lease reaches its expiry, and the user sends each turn again    *)
(* until it is admitted.                                                   *)
Fairness ==
  /\ \A r \in Requests : SF_vars(RequestStep(r))
  /\ \A k \in Keys : /\ WF_vars(LeaseExpires(k))
                     /\ SF_vars(execution[k] = "none" /\ \E r \in Requests : Submit(r, k))
  /\ \A w \in Writers : WF_vars(WriterStep(w)) /\ WF_vars(Grant(w))

Spec == Init /\ [][Next]_vars /\ Fairness

-----------------------------------------------------------------------------
Entries ==
  [kind : {"user", "reasoning", "message", "question", "unavailable"}, of : Keys]
    \cup [kind : {"milestone"}, of : Milestones]

(* Every row and every request is in one of its states.                    *)
TypeOK ==
  /\ execution \in [Keys -> {"none", "pending", "running", "succeeded", "failed"}]
  /\ owner \in [Keys -> Requests \cup {Nobody}] /\ expired \in [Keys -> BOOLEAN]
  /\ thread \in Seq(Entries)
  /\ lock \in Requests \cup {Nobody}
  /\ pc \in [Requests -> {"idle", "admit", "admitting", "start", "call", "persist",
                          "persisting", "fail", "failing"}]
  /\ key \in [Requests -> Keys] /\ base \in [Requests -> Nat]
  /\ leader \in Writers \cup {Nobody} /\ progress \in 0..MilestoneCount
  /\ narrator \in [Writers -> [at : {"idle", "scan", "read", "insert", "told", "done", "stopped"},
                               milestone : Milestones, base : Nat]]
  /\ faults \in 0..MaxFaults

(* What a thread tells of a turn, and the order it is told in.             *)
KindsIn(story, k) == {story[i].kind : i \in {j \in DOMAIN story : story[j].of = k}}

Rank(kind) == CASE kind = "user"                          -> 1
                [] kind \in {"reasoning", "unavailable"} -> 2
                [] kind = "message"                       -> 3
                [] OTHER                                  -> 4

InOrder(story, k) ==
  \A i, j \in DOMAIN story :
    i < j /\ story[i].of = k /\ story[j].of = k => Rank(story[i].kind) < Rank(story[j].kind)

KindsOf(status) ==
  CASE status = "none"   -> {{}}
    [] status \in Active -> {{"user"}}
    [] status = "failed" -> {{"user", "unavailable"}}
    [] OTHER             -> { {"user", "reasoning", "message"},
                              {"user", "reasoning", "message", "question"} }

(* What the thread tells of a turn is what its execution record says: one  *)
(* user message, then one outcome once the execution has ended, each entry *)
(* once and in this order, however requests are repeated, crash, lose      *)
(* their lease or lose the race for a sequence number.                     *)
OneOutcomePerTurn ==
  \A k \in Keys : KindsIn(thread, k) \in KindsOf(execution[k]) /\ InOrder(thread, k)

(* A turn's entries are never split by another turn's: the late outcome of *)
(* an interrupted turn cannot appear below the question that followed it.  *)
Unsplit(story) ==
  \A a, b, c \in DOMAIN story :
    a < b /\ b < c /\ story[a].of = story[c].of
      /\ story[a].kind # "milestone" /\ story[b].kind # "milestone"
        => story[b].of = story[a].of

TurnsDoNotInterleave == Unsplit(thread)

(* A turn that has ended keeps its outcome: a commit whose acknowledgement *)
(* was lost is not turned into a failure by the request that believes it   *)
(* failed, nor is a reclaimed turn revived by the late answer of the model. *)
OutcomeIsFinal ==
  [][ \A k \in Keys : execution[k] \in {"succeeded", "failed"} =>
        execution'[k] = execution[k] ]_vars

(* A project has at most one active execution, although expired ones are   *)
(* reclaimed by whichever turn comes next.                                 *)
OneActiveExecution ==
  \A j, k \in Keys : execution[j] \in Active /\ execution[k] \in Active => j = k

(* An interrupted execution does not block the project for good: a user    *)
(* who keeps sending a turn gets it admitted.                              *)
TurnsAreNotBlocked == \A k \in Keys : <>(execution[k] # "none")

(* _append_run_assistant_message says of itself that it writes "one        *)
(* idempotent semantic assistant entry": no milestone is told twice.  It   *)
(* does not hold: a worker that stalls between looking for the milestone   *)
(* and inserting it loses the queued run, its successor tells the          *)
(* milestone, and the first one inserts it again under a later number.     *)
ToldOnce(milestones) ==
  \A a, b \in DOMAIN thread :
    thread[a] = thread[b] /\ thread[a].kind = "milestone" /\ thread[a].of \in milestones
      => a = b

MilestoneOnce == ToldOnce(Milestones)

(* The repetition is confined to the first milestone: the milestones of    *)
(* the steps and of the end are told at most once, by any workers, because *)
(* a run that has begun its first step is never taken over.                *)
StepsAreToldOnce == ToldOnce(Milestones \ {1})
====
