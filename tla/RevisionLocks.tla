---- MODULE RevisionLocks ----
(***************************************************************************)
(* The transactions of feedback, revision plans and confirmations, and the *)
(* publications of the run under way, row lock by row lock, in one API     *)
(* process (services/revisions.py, routers/revisions.py and                *)
(* workflow/publisher.py).  create_feedback is a coroutine: its synchronous*)
(* statements hold the event loop, and while it validates its target it    *)
(* may give the loop up without giving up its locks.  The creation of a    *)
(* research input is the other coroutine that needs a row of the project;  *)
(* it gives the loop up between its two transactions.  The other requests  *)
(* and the publications run in threads.  PostgreSQL's part is external:    *)
(* row locks until the transaction ends, the KEY SHARE locks of foreign    *)
(* keys, and the deadlock detector.  What a plan decides is in             *)
(* RevisionPlans, and the keys of uploads are in ResearchInputs; here a    *)
(* plan is the versions it freezes, and an upload the locks it takes.      *)
(***************************************************************************)
EXTENDS Ordered

CONSTANTS
  Artifacts,       \* numbered in the order of their ids
  Feedbacks,       \* requests to create feedback
  About,           \* feedback request -> the artifact it is about
  DocumentBacked,  \* artifacts whose validation reads stored content
  Ingestions,      \* requests to create a research input
  Planners,        \* requests to create a plan
  Confirmers,      \* requests to confirm a plan
  Steps            \* the artifacts that each step of the run publishes

Requests == Feedbacks \cup Ingestions \cup Planners \cup Confirmers
Worker == "worker"
Txns == Requests \cup {Worker}
Free == "free"

ASSUME LockAssumption ==
  /\ Artifacts \subseteq Nat /\ IsFiniteSet(Artifacts)
  /\ Feedbacks \cap Planners = {} /\ (Feedbacks \cup Planners) \cap Confirmers = {}
  /\ Ingestions \cap (Feedbacks \cup Planners \cup Confirmers) = {}
  /\ Worker \notin Requests
  /\ About \in [Feedbacks -> Artifacts] /\ DocumentBacked \subseteq Artifacts
  /\ Steps \in Seq(SUBSET Artifacts) /\ Steps # <<>>

VARIABLES
  phase,      \* of each request or publication: idle, open, and how it ended
  script,     \* what an open one still has to do before its last commit
  held,       \* its row locks
  seen,       \* latest_version_id as it read it; for feedback, the version named
  subject,    \* the plan a confirmation is about
  loop,       \* the coroutine that the event loop is executing
  latest,     \* ResearchArtifactModel.latest_version_id, as a version number
  feedback,   \* UserFeedbackModel: artifact and baseline version
  plan,       \* planner -> the versions its RevisionPlan froze, <<>> before
  confirmed,  \* the plan of which a revision run was created, Free before
  run         \* the run that is executing: its step, or completed or stranded

vars == <<phase, script, held, seen, subject, loop, latest, feedback, plan, confirmed, run>>

NoVersions == [a \in Artifacts |-> 0]

(* The project has the versions of a completed run and one feedback on     *)
(* each, and another run has just started.                                 *)
Init ==
  /\ phase = [t \in Txns |-> "idle"]
  /\ script = [t \in Txns |-> <<>>]
  /\ held = [t \in Txns |-> {}]
  /\ seen = [t \in Txns |-> NoVersions]
  /\ subject = [t \in Confirmers |-> Free]
  /\ loop = Free
  /\ latest = [a \in Artifacts |-> 1]
  /\ feedback = {[artifact |-> a, version |-> 1] : a \in Artifacts}
  /\ plan = [t \in Planners |-> <<>>]
  /\ confirmed = Free
  /\ run = [status |-> "running", step |-> 1]

ProjectRow == <<"project">>
ParentRow == <<"parent">>
PlanRow(p) == <<"plan", p>>
ArtifactRow(a) == <<"artifact", a>>
VersionRow(a, n) == <<"version", a, n>>

Update(row) == [do |-> "lock", row |-> row, mode |-> "update"]
KeyShare(row) == [do |-> "lock", row |-> row, mode |-> "keyshare"]
Read == [do |-> "read"]
Check == [do |-> "check"]
Suspend == [do |-> "suspend"]
Resume == [do |-> "resume"]
Commit == [do |-> "commit"]
ForEach(S, Op(_)) == LET ids == Ordered(S) IN [i \in 1..Len(ids) |-> Op(ids[i])]

(* The handlers that are coroutines run on the event loop, statements and  *)
(* all; FastAPI runs the plain functions in threads.                       *)
OnLoop(t) == t \in Feedbacks \cup Ingestions

(* Mutant: the rows are read without FOR UPDATE.                           *)
FeedbackScriptUnlocked(q) ==
  LET a == About[q]
  IN <<Read>> \o (IF a \in DocumentBacked THEN <<Suspend, Resume>> ELSE <<>>)
              \o <<KeyShare(VersionRow(a, latest[a])), KeyShare(ProjectRow)>>

(* create_feedback: one joined FOR UPDATE locks version, artifact, project.*)
(* The validation of a target that is read from a stored document awaits.  *)
FeedbackScript(q) ==
  LET a == About[q]
  IN <<Update(VersionRow(a, latest[a])), Update(ArtifactRow(a)), Update(ProjectRow), Read>>
       \o (IF a \in DocumentBacked THEN <<Suspend, Resume>> ELSE <<>>)

(* Mutant: create_plan does not lock the project.                          *)
PlanScriptUnlocked(q) == <<Read, KeyShare(ParentRow)>>

(* create_plan: the versions it froze are locked when it has read them.    *)
PlanScript(q) == <<Update(ProjectRow), Read, KeyShare(ParentRow)>>

(* Mutant: the confirmation locks its plan alone.                          *)
ConfirmScriptPlanOnly(p) == <<Update(PlanRow(p)), Check, Read, Update(ProjectRow)>>

(* confirm_plan: plan and project in one statement, then the parent run,   *)
(* then the artifacts in the order of their ids.                           *)
ConfirmScript(p) ==
  <<Update(PlanRow(p)), Update(ProjectRow), Check, Update(ParentRow)>>
    \o ForEach(Artifacts, LAMBDA a : Update(ArtifactRow(a))) \o <<Read>>

(* Mutant: one transaction reserves the key and completes it.              *)
IngestScriptInOne(stored) == <<KeyShare(ProjectRow), Suspend, Resume, KeyShare(ProjectRow)>>

(* create: resolve inserts the reservation and commits, the bytes are      *)
(* stored with an await unless they are there, and commit_ingestion inserts*)
(* the input.  The rows of both refer to the project.                      *)
IngestScript(stored) ==
  <<KeyShare(ProjectRow), Commit>> \o (IF stored THEN <<>> ELSE <<Suspend, Resume>>)
                                  \o <<KeyShare(ProjectRow)>>

(* publish_step_outputs: the artifacts in the order of their ids; the      *)
(* inserted versions refer to the project and to what they supersede.      *)
PublishScript(S) ==
  ForEach(S, LAMBDA a : Update(ArtifactRow(a)))
    \o (IF S = {} THEN <<>> ELSE <<KeyShare(ProjectRow)>>)
    \o ForEach(S, LAMBDA a : KeyShare(VersionRow(a, latest[a])))

(* A request is received by the loop, and so is the result of a runner.    *)
Open(t, todo) ==
  /\ phase[t] = "idle" /\ loop = Free
  /\ phase' = [phase EXCEPT ![t] = "open"]
  /\ script' = [script EXCEPT ![t] = todo]
  /\ loop' = IF OnLoop(t) THEN t ELSE Free
  /\ UNCHANGED <<held, latest, feedback, plan, confirmed, run>>

(* The client names the version it is shown, and the plan it was given.    *)
ReceiveFeedback(q) == /\ Open(q, FeedbackScript(q))
                      /\ seen' = [seen EXCEPT ![q][About[q]] = latest[About[q]]]
                      /\ UNCHANGED subject
ReceiveIngestion(q) == \E stored \in BOOLEAN :
  Open(q, IngestScript(stored)) /\ UNCHANGED <<seen, subject>>
ReceivePlan(q) == Open(q, PlanScript(q)) /\ UNCHANGED <<seen, subject>>
ReceiveConfirm(q) == \E p \in Planners :
  /\ plan[p] # <<>>
  /\ Open(q, ConfirmScript(p))
  /\ subject' = [subject EXCEPT ![q] = p]
  /\ UNCHANGED seen
StartPublication ==
  /\ run.status = "running"
  /\ Open(Worker, PublishScript(Steps[run.step]))
  /\ UNCHANGED <<seen, subject>>

Compatible(m, n) == m = "keyshare" /\ n = "keyshare"

(* The transactions whose locks keep t from its next one.                  *)
Blockers(t) ==
  IF phase[t] # "open" \/ script[t] = <<>> \/ Head(script[t]).do # "lock" THEN {}
  ELSE {u \in Txns \ {t} : \E l \in held[u] :
          l.row = Head(script[t]).row /\ ~Compatible(l.mode, Head(script[t]).mode)}

NextIs(t, do) == phase[t] = "open" /\ script[t] # <<>> /\ Head(script[t]).do = do

Lock(t) ==
  /\ NextIs(t, "lock") /\ Blockers(t) = {}
  /\ held' = [held EXCEPT ![t] = @ \cup {Head(script[t])}]
  /\ script' = [script EXCEPT ![t] = Tail(@)]
  /\ UNCHANGED <<phase, seen, subject, loop, latest, feedback, plan, confirmed, run>>

(* An end of the transaction gives up its locks, and the loop if it is     *)
(* the coroutine that has it.                                              *)
End(t, how) ==
  /\ phase' = [phase EXCEPT ![t] = how]
  /\ script' = [script EXCEPT ![t] = <<>>]
  /\ held' = [held EXCEPT ![t] = {}]
  /\ loop' = IF loop = t THEN Free ELSE loop
  /\ UNCHANGED subject

(* What the service compares before it writes.  A plan is made of feedback *)
(* on current versions; a confirmation compares every artifact.            *)
Refuses(t) ==
  \/ t \in Feedbacks /\ latest[About[t]] # seen[t][About[t]]
  \/ t \in Planners /\ \A f \in feedback : latest[f.artifact] # f.version
  \/ t \in Confirmers /\ latest # plan[subject[t]]

ReadRows(t) ==
  /\ NextIs(t, "read")
  /\ \/ /\ Refuses(t) /\ End(t, "refused")
        /\ UNCHANGED seen
     \/ /\ ~Refuses(t)
        /\ seen' = [seen EXCEPT ![t] = latest]
        /\ script' = [script EXCEPT ![t] = Tail(@) \o
             (IF t \in Planners THEN ForEach(Artifacts, LAMBDA a : KeyShare(VersionRow(a, latest[a])))
                                ELSE <<>>)]
        /\ UNCHANGED <<phase, held, subject, loop>>
  /\ UNCHANGED <<latest, feedback, plan, confirmed, run>>

(* A plan is confirmed once.                                               *)
CheckPlan(t) ==
  /\ NextIs(t, "check")
  /\ \/ confirmed = subject[t] /\ End(t, "refused")
     \/ /\ confirmed # subject[t]
        /\ script' = [script EXCEPT ![t] = Tail(@)]
        /\ UNCHANGED <<phase, held, subject, loop>>
  /\ UNCHANGED <<seen, latest, feedback, plan, confirmed, run>>

(* FeedbackTargetAuthority.validate awaits the content store with its      *)
(* transaction open, an upload without one.                                *)
GiveUpLoop(t) ==
  /\ NextIs(t, "suspend")
  /\ loop' = IF loop = t THEN Free ELSE loop
  /\ script' = [script EXCEPT ![t] = Tail(@)]
  /\ UNCHANGED <<phase, held, seen, subject, latest, feedback, plan, confirmed, run>>

TakeLoop(t) ==
  /\ NextIs(t, "resume") /\ loop = Free
  /\ loop' = t
  /\ script' = [script EXCEPT ![t] = Tail(@)]
  /\ UNCHANGED <<phase, held, seen, subject, latest, feedback, plan, confirmed, run>>

(* resolve has returned: its transaction ends, the request goes on.        *)
CommitReservation(q) ==
  /\ q \in Ingestions /\ NextIs(q, "commit")
  /\ held' = [held EXCEPT ![q] = {}]
  /\ script' = [script EXCEPT ![q] = Tail(@)]
  /\ UNCHANGED <<phase, seen, subject, loop, latest, feedback, plan, confirmed, run>>

Ready(t) == phase[t] = "open" /\ script[t] = <<>>

CommitFeedback(q) ==
  /\ q \in Feedbacks /\ Ready(q) /\ End(q, "committed")
  /\ feedback' = feedback \cup {[artifact |-> About[q], version |-> seen[q][About[q]]]}
  /\ UNCHANGED <<seen, latest, plan, confirmed, run>>

CommitIngestion(q) ==
  /\ q \in Ingestions /\ Ready(q) /\ End(q, "committed")
  /\ UNCHANGED <<seen, latest, feedback, plan, confirmed, run>>

CommitPlan(q) ==
  /\ q \in Planners /\ Ready(q) /\ End(q, "committed")
  /\ plan' = [plan EXCEPT ![q] = seen[q]]
  /\ UNCHANGED <<seen, latest, feedback, confirmed, run>>

(* create_run_in_session refuses while a run is active.                    *)
CommitConfirm(q) ==
  /\ q \in Confirmers /\ Ready(q)
  /\ \/ /\ run.status = "completed" /\ confirmed = Free
        /\ confirmed' = subject[q]
        /\ End(q, "committed")
     \/ /\ run.status # "completed" \/ confirmed # Free
        /\ End(q, "refused")
        /\ UNCHANGED confirmed
  /\ UNCHANGED <<seen, latest, feedback, plan, run>>

(* The transaction of the last step completes the run.                     *)
CommitPublication ==
  /\ Ready(Worker) /\ End(Worker, IF run.step < Len(Steps) THEN "idle" ELSE "committed")
  /\ latest' = [a \in Artifacts |-> IF a \in Steps[run.step] THEN latest[a] + 1 ELSE latest[a]]
  /\ run' = IF run.step < Len(Steps) THEN [run EXCEPT !.step = @ + 1]
                                     ELSE [run EXCEPT !.status = "completed"]
  /\ UNCHANGED <<seen, feedback, plan, confirmed>>

(* t waits for v, directly or not: v is in every set that has what t waits *)
(* for and what each member waits for.                                     *)
WaitsFor(t, v) ==
  LET waits == [u \in Txns |-> Blockers(u)]
  IN /\ waits[t] # {}
     /\ \A S \in SUBSET Txns :
          waits[t] \subseteq S /\ (\A u \in S : waits[u] \subseteq S) => v \in S

InDeadlock(t) == WaitsFor(t, t)

(* PostgreSQL aborts a transaction of the cycle.  A request is answered    *)
(* with an error; the committer of a step raises, and its run keeps the    *)
(* status of the step, which no worker looks for.                          *)
Abort(t) ==
  /\ InDeadlock(t)
  /\ End(t, "aborted")
  /\ run' = IF t = Worker THEN [run EXCEPT !.status = "stranded"] ELSE run
  /\ UNCHANGED <<seen, latest, feedback, plan, confirmed>>

Advance(t) ==
  \/ Lock(t) \/ ReadRows(t) \/ CheckPlan(t) \/ GiveUpLoop(t) \/ TakeLoop(t)
  \/ CommitReservation(t) \/ CommitIngestion(t)
  \/ CommitFeedback(t) \/ CommitPlan(t) \/ CommitConfirm(t)
  \/ t = Worker /\ CommitPublication

Receive ==
  \/ \E q \in Feedbacks : ReceiveFeedback(q)
  \/ \E q \in Ingestions : ReceiveIngestion(q)
  \/ \E q \in Planners : ReceivePlan(q)
  \/ \E q \in Confirmers : ReceiveConfirm(q)
  \/ StartPublication

Next ==
  \/ Receive
  \/ \E t \in Txns : Advance(t) \/ Abort(t)

(* Threads are scheduled, a loop that is free resumes what is ready, and   *)
(* the detector breaks a deadlock; nobody has to send a request.           *)
Spec == Init /\ [][Next]_vars
          /\ (\A t \in Txns : WF_vars(Advance(t)))
          /\ WF_vars(\E t \in Txns : Abort(t))

(* API_CONTRACT.md:179-183: a request that was received is answered, with  *)
(* what it made or with a problem, and a publication ends.  It does not    *)
(* hold: the loop may hang.                                                *)
TransactionsEnd == \A t \in Txns : phase[t] = "open" ~> phase[t] # "open"

(* The coroutine that the loop executes is blocked, by whatever chain of   *)
(* row locks, behind a feedback that only the loop could resume.           *)
Hung == \E q \in Feedbacks : loop # Free /\ NextIs(q, "resume") /\ WaitsFor(loop, q)

(* What keeps requests and publications from ending is the suspension of   *)
(* create_feedback under its locks and nothing else: neither the opposite  *)
(* lock orders nor the await of an upload, which holds no lock meanwhile.  *)
OnlyFeedbackHangsTheLoop == <>[]Hung \/ TransactionsEnd

(* Feedback is bound to the version that is current when it is recorded,   *)
(* although its transaction is suspended after it compared them.           *)
FeedbackIsOnTheLatest ==
  [][\A q \in Feedbacks : phase[q] = "open" /\ phase'[q] = "committed" =>
       seen[q][About[q]] = latest[About[q]]]_vars

(* A plan freezes versions that are current together when it is committed, *)
(* whatever a run publishes between its statements.                        *)
PlansAreOneCut ==
  [][\A p \in Planners : plan'[p] # plan[p] => plan'[p] = latest']_vars

(* A revision run is created of versions that are current at that moment,  *)
(* and never beside another run of its project.                            *)
ConfirmationsAreCurrent ==
  [][confirmed' # confirmed =>
       confirmed = Free /\ run.status = "completed" /\ plan[confirmed'] = latest']_vars
====
