# Formal models of xingwen-astro-ai

This directory holds TLA+ models of the research workflow of xingwen-astro-ai: how a
research project goes from a conversation to a confirmed Contract, from the Contract to a
run, and from the run to published artifacts, when several requests, several API processes
and their threads work on the same PostgreSQL rows. TLC checks the models on small
instances; the most important properties are proved with TLAPS for every instance.

Paths below are relative to `src/apps/api/src/app/` unless they start with `docs/`, `apps/`
or `packages/`.

## 1. The system

The product is a FastAPI service over PostgreSQL with a React workspace as its client. A
process serves HTTP requests and also runs a *research-run worker*; several processes can
share one database. All coordination goes through the database: row locks, conditional
updates, unique indexes and lease columns. Nothing is kept in memory that another process
would need.

| component | state it keeps | operations | what makes it correct |
|---|---|---|---|
| Workflow store `workflow/store.py` | run status, revision, event sequence and lease; steps, attempts, checkpoints, decisions | create, acquire and renew a lease, begin a step, append activity, record a failure, fail, cancel, request a checkpoint, submit a decision, complete a repair | one running attempt; steps in plan order; every command fenced by token, generation, status and revision; final runs stay final |
| Publication `workflow/publisher.py` | artifact versions, producer executions | `publish_step_outputs`, start and finish a producer execution | outputs of a step published once and in the commit that completes it |
| Run plan `workflow/run_plan.py` | none (frozen into RunStep rows) | compile an original or revision plan | a chain of phases in a fixed order with attempt budgets |
| Run worker and executor `workflow/research_run_worker.py`, `workflow/persistent_executor.py` | the run it executes, its lease, runner threads | poll, lease, preflight, execute steps, renew, classify failures, commit, narrate | one executor at a time; queued runs get served |
| Step runtime `workflow/research_step_runtime.py`, `workflow/steps/`, `workflow/agent_runtime.py` | none of its own | prepare a step on a thread, ask for a scientific repair | it acts on the run only through the fence |
| Turns and thread `services/research.py`, `services/research_thread.py` | model executions with leases, thread entries | submit a turn, append an entry, reclaim an interrupted execution | one active execution; one outcome per turn; an ordered thread |
| Project, drafts, Contracts, run admission `services/research.py` | drafts with versions and expiry, active draft, Contracts, runs | create, get, update, confirm, create a run, cancel, decide, retry | a Contract is what was reviewed; one active run per project |
| Research inputs `services/research_input_ingestion.py`, `services/research_input_store.py`, `services/paper_candidate_inputs.py` | idempotency reservations with leases, inputs, quota | resolve, fetch, store, commit, release | one input per key, no key blocked for good |
| Content storage and lifecycle `services/content_storage.py`, `services/content_lifecycle.py` | content-addressed blobs | publish without replacement, repair, inspect | a published blob has its hash |
| Sessions, CSRF, quota `security.py`, `middleware.py` | sessions, bounded CSRF hashes, quota | create, resume, rotate, revoke, reserve | rotation leaves one valid credential |
| Revisions and feedback `services/revisions.py`, `services/data_revision_context.py` | feedback, plans with the versions they freeze, confirmations | give feedback, create a plan, confirm it into a revision run, check it before execution | a revision executes on the versions its plan froze; what it reuses is up to date; the requests end unless the process hangs |
| Run event feed `apps/workspace/src/application/run-event-feed.ts` | a cursor and the events shown, its timer and status; the query cache | start, pause, resume, stop, synchronise | no event is skipped; nothing is missing when it stops; it does not stop early |
| Document parsing `services/document_parse_store.py` | parse attempts and documents | start, finish, read | one result per input |
| Snapshots `services/snapshots.py`, provider configuration `services/model_provider_configuration.py`, cache `workflow/cache.py`, worker registry `workflow/capacity.py` | one table each | see the plan | see the plan |
| Pipelines, skills, frontends, generated contracts | none shared | computations and presentation | not a subject of these models |

How they interact. A *turn* calls the model between transactions and leaves entries in the
thread, possibly with a draft. *Confirming* a draft freezes a Contract. *Creating a run*
compiles the Contract to frozen steps. A *worker* polls for the queued run, leases it and
executes one step after the other: the step's runner works on a thread of its own and
returns a publication, which the worker commits on a thread as well
(`workflow/research_run_worker.py:343`). The worker tells the thread of the
project about milestones. The *user* may cancel the run or answer its checkpoint at any
time. When a run is completed the user may give *feedback* on its artifact versions, have a
*revision plan* made of it and confirm the plan; a derived run then recomputes some artifacts
and reuses the rest. The *page* of a run polls the run and its events while it is open. What
is hard about it:

* a lease is a promise about time: its holder may stall past it, and a thread behind
  `asyncio.to_thread` cannot be cancelled and acts after its worker has given up;
* each operation is several transactions, and the process can die between any two;
* row locks are taken in different orders by different operations;
* a plan is made, confirmed and executed at three moments, and runs publish in between;
* a coroutine that runs synchronous SQL holds the event loop while it waits for a row, and
  holds rows while it waits for the event loop;
* a feed that was stopped has a request in flight, and writes when it is answered;
* `max(...) + 1` is computed for thread entries, Contract versions and attempts;
* a commit can succeed while its caller believes that it failed.

## 2. The modules

```
RunPlanChain                  the frozen steps (constants and status sets)
   |-- RunLifecycle           abstract: what a run promises
   |-- WorkflowStore          the store's commands          --> implements RunLifecycle
          |-- WorkflowStoreProofs
          |-- ResearchRunWorker   workers, threads, faults  --> implements WorkflowStore
                 |-- ResearchRunWorkerProofs
ResearchTurn                  turns, thread and the run's narration
   |-- ResearchTurnProofs
ResearchProject               drafts, Contracts, run admission, row locks
   |-- ResearchProjectProofs
ResearchInputs                ingestion of inputs and the bridge from papers to inputs
   |-- ResearchInputsProofs
Ordered                       a finite set of numbers in its order
   |-- RevisionPlans          feedback, plans, confirmations, revision runs, versions
   |      |-- RevisionPlansProofs
   |-- RevisionLocks          the row locks and the event loop of the same requests
          |-- RevisionLocksProofs
RunEventFeed                  the feeds of a run's page and the cache they share
   |-- RunEventFeedProofs
MC*                           the instances TLC checks
```

Definitions keep the names of the code where they can; `PROJECT.json` maps each one to its
lines. Definitions marked `Mutant` are deliberate bugs that no specification uses: each property is
shown to fail when one of them replaces the definition it varies.

### RunPlanChain and RunLifecycle

A plan is a number of steps, the phase that each step enters and its attempt budget: all
the workflow looks at. The assumption of the module is what `_validate_step_definitions`
demands, less the fixed order of phases, which no property needs. The abstract lifecycle
has two variables, the phase of the run and the set of published steps, and says that
outputs are published once each, in order, never while the run waits, and never after it
has ended.

### WorkflowStore

One run. Every command of `PersistentWorkflowStore`, and `publish_step_outputs`, opens one
transaction and locks the run row before it reads anything else, so each is one atomic
action. A caller presents a *handle*: its lease token and generation and the status and
revision it last saw. A command whose guard fails raises and rolls back: it changes
nothing and is not an action. `Next` presents the current handle, since all others are
refused by every guard; the handles that really are stale appear in ResearchRunWorker.

| variable | code |
|---|---|
| `status`, `revision`, `eventSeq` | `ResearchRunModel.status`, `.revision`, `.latest_event_sequence` |
| `leaseToken`, `leaseGeneration`, `leaseExpired` | lease columns; time is one bit, expiry an action |
| `stepStatus`, `attempts` | `RunStepModel.status`; `StepAttemptModel.status` by attempt number |
| `checkpoint` | `RunCheckpointModel` with its decision and repair outcome |
| `published` | the attempts that committed an output set, by step |

A token is the generation that was granted with it (uuid4 values are unique). Progress,
labels, messages, error codes and the payloads of artifacts are left out: no guard depends
on them. The replay of publication keys precedes the fence and changes nothing.

### ResearchRunWorker

Several processes over the store. `pc` follows `execute_run` statement by statement:
`polled` between the poll and the snapshot, `leasing`, `granted`, `ready` before a step,
`renewing` (the renewal that precedes the runner), `running` while the loop waits for the
runner, `publishing`, `published`, and the recording of a failure. `threads` is the set of
runner threads alive, each with the handle it was started with; a thread stays in it when
its event loop gives up, and only the loop that still waits for it sees its result. The
actions of the store are used as they are, with the handle the worker has. Faults are a
crash (which takes the threads with it), a lease that runs out while its holder is alive, a
database error of a renewal or of a write outside the fence, and a lost failure record.
A thread that raises covers adapters, the model and refused store calls.

Preflight of a revision (`IsRevision`) begins the first step only to fail it. The
alternative outcome of the runner, completing a decided repair, cannot happen with the
attempt budgets of `run_plan.py` (see "Met while modelling"), so the worker does not model it; the
store does.

### ResearchTurn

One project, its idempotency keys and the requests that carry them. A turn is four
transactions: admission (project lock, reclaim, replay, busy check, insert), start, and
after the model call either persistence or the record of a failure. A locking transaction
is two actions, taking the lock and committing, so that everything which does not take the
lock can happen in between. `thread` is the sequence of committed entries. The unique
index on `(project_id, sequence)` becomes the guard `SequenceIsFree`: a transaction that
appends commits only if no entry was committed since it read the highest number. The run
that shares the thread is reduced to its milestones; its appends take no project lock and
are three statements, `Scan`, `ReadSequence` and `Insert`.

Not modelled: refusals that change nothing (no planner configured, an unknown question, a
key repeated with another request body), the content of entries, and the draft of a
`draft_ready` outcome, which is `CreateDraft` in ResearchProject.

A worker appends a milestone only while it executes the run. The first milestone is told
before the first step begins, so a worker whose lease ran out before that may still be about
to tell it when the next one does; the later ones follow a publication, which only one worker
can have made.

### ResearchProject

One project's drafts, Contracts and runs, and the row locks. A request names its operation
and `LockOrder` gives the rows that operation locks, in order; it takes one lock per action,
and its last action writes and commits. What a request reads before it writes is read in an
action of its own: the state of the draft when it is locked (`editable`), the next Contract
version (`ReadVersion`), and that there is no run (`LookForRuns`). So two confirmations could
read one number, and two admissions could both find no run, were it not for the locks. The
unique indexes on Contract versions and active runs are left out on purpose: with them every
invariant would hold whatever the locks do, and a request that an index refuses fails where
the code means it to be answered (`workflow/store.py:271` says so of runs). `update_draft`
locks the draft first, `confirm_contract` the project first; PostgreSQL breaks the cycle
(`DeadlockDetected`, the one external action). A draft's content is its version, so a Contract that froze another
content than the reviewed one would have another number. Requests for a missing draft or an
unconfirmed Contract are 404 answers and are not enumerated. Project metadata and deletion,
`retry_run` and run queries are left out.

### ResearchInputs

Requests that ingest an input, directly or for a paper the user selected, until each client
has an answer. Both services use one protocol over a table of their own: look up the
Idempotency-Key under its row lock, insert a pending row with a lease and a fresh token, do
the side effects without a transaction, and complete the key in the transaction that stores
the result. The two tables are the two levels of `ledger`. A bridge request goes through the
protocol at level `bridge` with the key of its header, calls ingestion at level `input` with
a key derived from the identity of the paper, and then persists the binding.

| variable | code |
|---|---|
| `ledger` | the rows of the two idempotency tables: status, request hash, token, lease, result |
| `inputs`, `removed`, `bindings` | `research_inputs`, those with `expires_at` set, `paper_candidate_input_bindings` |
| `blobs` | content hashes the content store has taken; storing one is atomic here |
| `pc`, `level`, `body`, `got` | where a request's coroutine stands, in which service, with which bytes and which input |
| `behind` | requests that read the clock before the lease they look at ran out |

A token is modelled by who carries it: `holder` is the request whose present attempt was
given the token of the row, so a client that sends again (`Send`) holds none of its earlier
tokens. `Look`, `Insert` and `Reread` are the three reads of `resolve`; the second inserts
unless another request has. A failure at any await goes to the handler the code has there:
`Release` for a fetch, a text's store and a commit, no handler for the store of a fetched
body (it is outside the `try`) or for `persist`. Cancellation and a crash run no handler,
because the handlers catch `Exception`. A commit may succeed and lose its acknowledgement;
`commit_ingestion`'s refusal of content that does not match its row is one of its failures.

Not modelled: the bridge's modes that store metadata or reuse an existing input, quota,
binding inputs to drafts and runs, and the in-memory adapter. A completed key whose input was
deleted answers as the code does: no longer available, whoever asks.

### RevisionPlans

One project: its artifacts, feedback, plans and runs, originals and revisions. Each request
is one transaction under the locks that RevisionLocks has in detail, so it is one action
here; what can go wrong lies between requests, and between them and the steps of runs.

| variable | code |
|---|---|
| `run` | `ResearchRunModel` and its frozen `RunStepModel` rows: status, chain, dependencies, next step, parent, plan |
| `rows`, `latest` | the artifacts that have a row, `ResearchArtifactModel.latest_version_id` |
| `published` | the artifacts of which a run has published a version |
| `madeFrom` | history: which versions the step that made a current version had read |
| `context` | `RunStepContext.versions` of the run that is executing |
| `feedback`, `plan` | `UserFeedbackModel`; `RevisionPlanModel` with its decisions and its confirmation |

A version is the number of the run that made it: no run publishes an artifact twice. The
actions are `CreateRun`, `StartOriginal` (`_load_context`, which also inserts the rows of the
artifacts a run may publish), `StartRevision` (the preflight: continue on the frozen versions
or fail), `EnsureTarget` (a scientific task inserts the row of its own artifact, in a
transaction before its publication), `Publish` (with the check of superseded versions),
`EndRun`, `CreateFeedback`, `CreatePlan` and `ConfirmPlan`. `create_plan` computes its closure
with a loop; here `AffectedSteps` is the least set that contains what was asked for and every
step that needs a member which others follow, and that is what the loop ends with.

Steps of the fixed pipeline publish one primary artifact per kind; a scientific task publishes
an artifact of its own, identified by the task. A Gaia task is both: it supplies the primary
data and writes a report. Feedback on nothing of it but the data makes it a *data-only* step
(`DataOnlySteps`): its runner makes the data again from what was acquired before and keeps the
report (`KeptByRunner`), and the steps after it are not repeated.

`ReadAssumption` says what a chain that `compile_run_plan` freezes looks like
(`ChainOrder`): step keys are unique (`workflow/store.py:1411`); an artifact has one producer,
since a Gaia task that supplies the primary data excludes `cleaning_data`
(`workflow/run_plan.py:203`); and what a step reads is made before it and after the last Gaia
step, because tasks read only what their Contract names by id
(`workflow/scientific_inputs.py:55`) and the steps that read current versions (papers,
literature, graph) belong to phases after all tasks. Of what it makes itself, the literature
step reads the claims and nothing else: it decides relations over them. TLC evaluates the
assumption for the Contracts of the run.

Left out: evidence and hashes, repeated keys (answered from the stored row), that feedback
names a target inside its version, and visualizations and models of tasks, which are published
the way reports are.

### RevisionLocks

The same three requests, the creation of research inputs and the publications of a run, one
statement per action, in one process. Each has a *script* of what it does before its last
commit: row locks, reads that may refuse it, the two ends of an await, and for an upload the
commit of its first transaction. `FeedbackScript`, `IngestScript`, `PlanScript`,
`ConfirmScript` and `PublishScript` give the order of each. `create_feedback` and
`create_research_input` are coroutines: each has the event loop from its reception on, and a
statement that waits for a row lock keeps it. Feedback gives the loop up while the validation
of a document-backed target reads the content store, with its transaction open, and needs it
again to commit. An upload gives it up between `resolve`, which inserts the reservation and
commits, and `commit_ingestion`, unless the bytes are stored already; both inserts refer to the
project and so take a `KEY SHARE` of its row (`db/models.py:1823`). The other two coroutines
that write rows of a project are parts of this: the bridge of a paper calls the same ingestion
(`routers/artifacts.py:801`), and binding an input (`routers/research_inputs.py:234`) is one
such transaction. Queries lock no row, and authentication, which runs on the loop too, only
rows of sessions. The plain functions and the publication run on threads but are received by
the loop. PostgreSQL is external: row locks
until the end of the transaction, `FOR KEY SHARE` locks on the rows that an insert refers to
(they conflict with `FOR UPDATE`), and a detector that aborts a member of a cycle of row locks. It
does not see a wait for the event loop. An aborted request is an error answer; an aborted
publication leaves the run as it is, since `execute_step` does not handle its committer's
exceptions. What a plan decides is in RevisionPlans; here it is the versions it freezes.

### RunEventFeed

One run, and the visits of its page, each with a feed of its own. `latest` and `terminal` are
the run on the server; `shown` is the query cache entry that the page renders and the next
feed starts from; `cache`, `status`, `timer` and `sync` belong to each feed. One action is one
request with the code up to the next one: `FetchRun`, `RecoverTail` and `FetchPage` (the two
requests of `recoverEvents`), then `WriteEvents`, `StartOver` or `GiveUpSync` by what arrived,
`Refresh`, and `SettleTerminal` or `SettleRunning`. `Unmount`, `Hide` and the end of a timer do
not touch `sync`: a synchronisation in flight goes on. `RequestFails` writes the feed's own
cache once more, as the handler does to show the error. A page of events is computed from the
server's `limit + 1` query with its cursor, which is null at the end of the list, so that the
next synchronisation reads from the beginning again. The gap the feed looks for never comes
from this server; a page that starts one event late stands for it, at the start of a
recovery, which is the only place where the code looks.

Left out: delays, the refetch of steps, thread and versions, and answers of invalidated
queries (`asked` is that they were asked for; React Query swallows their failure).

## 3. What is checked

All runs use two to three actors, because every race in this code is between two of them,
and one more lease grant or fault brings back the second situation after a first recovery.

| run | instance | what it shows |
|---|---|---|
| `workflow_store` | 3 steps with budgets 1, 2, 2; 3 grants; 7 events | the store invariants, the action properties and the refinement of RunLifecycle |
| `run_worker` | 2 workers, 2 steps (2 attempts; may ask), revision, 4 grants, 2 faults | one runner thread; the fence identifies the attempt; only the holder commits; the refinement of WorkflowStore; a queued run is started in spite of the faults, and served to its end or its question when none happens |
| `research_turn` | 2 keys, 2 requests, 1 worker with 1 milestone, 1 fault | one outcome per turn, in one piece; one active execution; no turn is blocked for good |
| `research_project` | 2 requests, 2 drafts, 2 Contract keys, 2 run keys, versions up to 2 | Contracts are what was reviewed, numbered without gap; an edit is of the version its author saw; one active run; only an edit and a confirmation of one draft collide |
| `research_inputs` | 2 requests of 4 kinds, 1 content, 2 faults | bindings agree with their papers; an answer is its own request's; stored before referred to; a client that retries is answered |
| `revision_plans` | 3 runs, at most 2 of them originals, of 2 Contracts (6 and 4 steps that share data and papers, 8 artifacts), 2 feedback rows, 2 plans | a confirmed revision stays executable; what it reuses is up to date; more feedback repeats no less, data-only steps aside |
| `revision_locks` | 1 feedback that suspends, 1 upload, 1 plan, 2 confirmations, 2 publications of 2 artifacts | every request and publication ends, or the loop hangs behind the suspended feedback; feedback, plans and confirmations are about the versions current when they commit |
| `run_event_feed` | 2 visits, 3 events on pages of 2, 2 faults | nothing shown has a hole; a feed that stops has everything; a page that stays open gets everything |

Bounds, and why they suffice. `MaxGeneration` (3 or 4) allows two takeovers of a lease;
`MaxEvents` only limits streamed activity, which nothing reads back; `MaxFaults` (1 or 2)
allows a fault during the recovery from another; `MaxVersion` (2) allows the one edit on
which two editors disagree, and two drafts are two Contracts whose confirmations compute the
next number at once; a `MaxAttempts` of 2 has a first, a last and a forbidden third attempt. When
`MaxGeneration` is reached a lease is refused, which a real run never sees; `run_worker`
therefore has one grant more than its faults can consume. The four kinds of request of
`research_inputs` are one paper under two keys, one key for two papers, and a text; bytes
enter no guard, so one content shows whether the first input to refer to it was stored.
Three runs are an original, a revision of it and a revision of that, or two originals whose
versions mix and a revision of one of them (`MaxOriginals` leaves out a third original), and
two plans are the two that compete for one confirmation or are nested in each
other's feedback. Two artifacts are enough for transactions to lock in opposite orders, two
publications for a version to move between any two statements of the others; a second upload
needs only the same shared lock. The worker of `research_turn` is there for its entries, which
race those of turns; `narration_twice` has two workers and two milestones. With three
events and pages of two a recovery has a page that ends at the tail, one before it and one
that ran past it; two visits are all that can write one cache entry at a time, since a third
only repeats the second. Two faults are a gap in both recoveries, or a failure in the
synchronisation that follows another fault.
Symmetry is used only in `research_project`, which checks no liveness. Deadlock checking is off because each system may
stop: a run ends, and no user is obliged to send another request.

Fairness. WorkflowStore has none: nothing in it is obliged to happen. In ResearchRunWorker
the event loop of a process and its runner threads keep going (weak fairness; every
provider call has a time limit) and an abandoned lease reaches its expiry; the user is
under no obligation to cancel or to decide. In ResearchTurn a request has strong fairness
because it competes for a row lock that PostgreSQL grants in turn, leases expire, and for
`TurnsAreNotBlocked` the user keeps sending a turn that has not been admitted. ResearchProject
has no fairness: that no order of locks but one pair collides is a property of each step, and
what ends a wait then is the commit of another request. With no faults the worker is assumed not to lose the race for a
sequence number either. In
ResearchInputs the event loop runs every handler, a client sends a failed request again,
and the clock passes the end of a lease under which nobody works; that a lease runs out
under a working holder is a fault and bounded. `RequestIsAnswered` excepts the two answers
a client is owed: a conflict when the key is another request's, and a deleted input. In
RevisionLocks threads are scheduled, an event loop that is free resumes what is ready, and the
deadlock detector runs; nobody is obliged to send a request, and nothing is assumed of a loop
that is blocked. In RunEventFeed a request that was sent
is answered or rejected, a timer fires, and faults are bounded; that the run becomes terminal
and that the page stays open and visible are premises of `OpenPageCatchesUp`, not
assumptions.

### Findings

Four runs violate a statement of the documents or of the code itself. Each shows a behaviour
of the code as it is.

1. `run_worker_decided`: a decided checkpoint leaves the run in the phase of its step, but
   workers poll only `queued` runs and the worker that executed it has returned. The run is
   never executed again (`workflow/research_run_worker.py:240`).
2. `feedback_hang`: a feedback on a version whose content is a stored document holds its row
   locks, that of the project included, and waits for the content store. Another coroutine of
   the process then blocks the event loop thread on one of these rows: a second feedback in its
   `SELECT ... FOR UPDATE`, or an upload to the project in the insert of its reservation
   (`routers/research_inputs.py:105`), so that one feedback and one upload are enough. The
   first one can never resume. There is no cycle for PostgreSQL to detect and no lock timeout
   is configured (`db/session.py:10`), so neither request, nor any other of the process, is
   answered (`services/revisions.py:115`). `revision_locks` checks that nothing else keeps a
   request from its answer (`OnlyFeedbackHangsTheLoop`): whenever some request or publication
   does not end, the loop is blocked for good behind a feedback that only the loop could
   resume.
3. `revision_shrinks`: feedback on the report of a lookup task repeats the Gaia task after it
   and the papers after that. With feedback on the data as well, the Gaia step counts as
   data-only although it is affected from above: the papers and the Gaia report drop out of the
   plan (`services/revisions.py:485`), which the document rules out in so many words. The Gaia
   runner then does not even acquire again. `revision_plans` checks, and the proof shows in
   general, that this exception is the only thing that makes a plan smaller
   (`MoreFeedbackRepeatsMore`).
4. `narration_twice`: a milestone's key is looked for and its entry then inserted, with
   neither a lock nor a unique index on the key (`services/research_thread.py:37`). A worker
   that stalled past its lease before the first step, and the one that took the run over, both
   find that "run started" has not been told and both tell it, where
   `workflow/research_run_worker.py:434` calls the entry idempotent. That this can happen to
   the first milestone only is proved for any number of workers (`StepsAreNarratedOnce`).

### Met while modelling

These disagreements were found with the models as well; no run states them now.

* Even if a decided run were polled, the step that asked has one attempt in its frozen budget
  and has spent it on asking (`workflow/run_plan.py:55`). `workflow_store` gives the step two
  attempts, so that re-execution after a decision is checked.
* A run's message races a turn for a sequence number; the losing insert makes `execute_run`
  raise after the step was committed (`services/research_thread.py:59`). The message is lost,
  and so is the run, because it now stands in a phase.
* `active_draft_id` can point to a confirmed or expired draft (`services/research.py:292`,
  `:347`): repeating `create_draft` with the key of a confirmed draft sets it back.
* A publication that PostgreSQL aborts in a deadlock with a confirmation or a feedback leaves
  its run in a phase (`workflow/persistent_executor.py:115`), which no worker polls:
  `Abort` of RevisionLocks. Feedback and publication order `artifact` and `project` alike,
  but the versions a publication supersedes come last in the one and first in the other.
* `StartOriginal` inserts artifact rows before anything is published. When that run fails, the
  rows stay without a version, and every later confirmation answers `REVISION_PLAN_STALE`
  until some run publishes them, because it counts rows against frozen versions
  (`services/revisions.py:799`).
* After a downstream revision, feedback on an upstream artifact of the original run is
  refused: the steps to repeat published outputs that are no longer current.
* A revision that adjudicates relations publishes relations only. Content feedback on these
  gives a plan whose check of co-outputs looks at what *that* run published, so it freezes the
  older claims for reuse; its reasoning step publishes claims again
  (`services/revisions.py:600`). The reused version is superseded by a copy of the same work,
  where `DATA_VERSIONING.md:64` has it stay; `ReusedOutputsAreUpToDate` holds all the same.
* The closure of a plan ends with its parent's Contract. When a second Contract has replaced
  the paper collection, and a revision of the first has made summaries from it, feedback on
  that collection keeps these summaries. `ReusedOutputsAreUpToDate` is therefore about the
  artifacts of the parent's Contract; the document says as much.
* Confirming while another run is active raises an exception that the revision router does
  not map, where `docs/architecture/WORKFLOW_DESIGN.md:94` promises a 409.
* The worker tells the thread about the end of a run after the terminal commit, so the feed
  may stop before the last message is in the thread it refetched
  (`workflow/research_run_worker.py:366`). A feed that was left may write older events over
  newer ones after the next feed has stopped; the next visit recovers them.

More was met while reading and needs no model, or is not modelled yet. A run refused because another one is
active is answered as a reused idempotency key: the store raises one exception class for
both and the service maps it to one reply (`services/research.py:531`; `RunConflict` shows
it). `retry_run` opens `session.begin()` on a session whose reads have already begun a
transaction (`services/research.py:821`), and would mark earlier steps `skipped`, a status
that `begin_step` does not count as complete. A renewal that is in flight when the runner
thread parks the run at a checkpoint is refused by the new revision, and the loop then
reports a failure for a run that rightly waits (`workflow/persistent_executor.py:145`).
The comment at `services/research_input_ingestion.py:353` says that the input was never
created when the commit raises; after a lost acknowledgement it was, which does no harm
since the release then finds a completed key and leaves it. Once the input of a bridged
paper is deleted, its derived key answers "no longer available" for good, and the paper
cannot be bridged again in the same identity. `_repair_corrupt`
(`services/content_storage.py:293`) renames whatever is at the final name: a second repairer
that verified the corrupt blob before the first one finished moves the good one aside, until
it publishes its own.

## 4. What is proved

Proofs are in the `*Proofs` modules and assume only the named assumptions of the
components: a plan is a chain of known phases with positive budgets, bounds are naturals,
model values are distinct, and the chains of Contracts are in the order that section 2
describes. Every invariant that a passing run checks is a theorem, and so is every action property.
Each module has its type invariant as a theorem too; what follows is about the others.

**WorkflowStore** (`StoreSafety` and the theorems after it). `StoreInv` is inductive as it
stands, but no part of it alone is. That a step is published exactly once needs that only
a running attempt publishes and that it is the newest one (`SingleRunningAttempt`). That
again needs `PlanOrder` and `StatusTracksPlan`: `begin_step` looks at the status of the run
and at the preceding steps but never asks whether another step is running, and it is the
order of steps which excludes it. `CompletedMeansAllPublished` needs `PlanOrder` for
the last step and `StepLedger` for the steps of failed and cancelled runs.
`WaitingIsAnswerable` (`WaitsCanBeAnswered`) needs that a decided checkpoint is not asked
again. There is one lemma per command. The action properties `FinishedRunsAreFinal` and
`TransitionsAreAnnounced` follow from the invariant. `RevisionIsAFence` says that the revision
moves exactly with the status, the steps, the attempts and the lease; that a grant changes
the lease needs one fact more, that the lease of a run is never from a later grant than the newest
(`LeaseIsNewest`). `StoreImplementsLifecycle` maps every command to a step of RunLifecycle or
to a stutter: publication is the only command that adds to `done`.

**ResearchRunWorker** (`WorkersImplementStore`, `WorkerSafety` and the theorems after it).
Every step of a worker, of a thread and of the environment is either a store command whose
handle passed the fence, hence the current handle, or leaves the run alone. `Placed` says that
workers and threads are at steps of the plan, so that the command they issue is one of `Next`.
`WorkersAreSafe` concludes that the whole store invariant and the lifecycle hold of any number
of workers. That alone does not say *whose* attempt is running, or how many threads there are.
`WorkerInv` adds what a worker may conclude from its handle: it is of a grant and a revision
the run has had, and no two workers have the same grant (`GrantsAreOwn`); if the handle of a
worker that executes still passes the fence, the running attempt is its own (`Mine`), and if it
does so where the worker has no thread to wait for, no thread is alive (`Alone`); and a thread
works on the running attempt or the run is over (`ThreadsRun`), so there is never a second one
(`OneThread`). What `RevisionIsAFence` states carries the induction: when another actor has
changed the run, the handle does not pass any more and nothing is claimed of it. From it follow
`FenceMeansMine`, `OneRunnerThread` and `OnlyTheHolderCommits`.

**ResearchTurn.** `OneExecutionAtATime` and `EndedTurnsKeepTheirOutcome` relate the places of
requests to executions: admission writes under the project lock and only when every execution
that is not stale has ended; persistence and failure write only an execution that is still
active. The other theorems are about the thread, a sequence that only grows, so it suffices to
say what one more entry does. `ThreadInv` says that the entries of a key are those its
execution stands for, in order, and that an execution which is still active has the last word:
no other turn told anything after it began (`ToldAs`, `HasLastWord`). So an outcome is told
once and agrees with the record (`TheThreadTellsTheRecord`), and no turn is split
(`TurnsStayWhole`). `StepsAreNarratedOnce` is about the run and holds for any number of
workers: every milestone after the first is told at most once. `NarrationInv` says that a
worker which is past the first milestone is the only one there (`LeadsAlone`), since it got
there by a commit under the fence, and that a worker which has looked for a milestone and not
found it is still right (`HasLooked`). Of the first milestone neither holds, which is what
`narration_twice` shows.

**ResearchProject** (`ContractsStayAsReviewed`, `EditsAreNotLost`, `OneRunAtATime`,
`ContractNumbersHaveNoGap`, `OnlyOnePairOfOrdersCollides`). `ProjectInv` has the locks at its centre (`LocksOK`): a request
holds exactly the first `held` rows of its lock order, so two requests never hold one row.
`ReadsOK` says that what a request read of its draft stays true while it holds that row, which
is why it may check before its second lock and write after it. The same is said of the number
a confirmation has read (`NumbersOK`) and of the runs an admission has looked for
(`AdmitKeepsRuns`): whoever could change either would have to hold the project row, which the
request holds itself. For the last theorem, two requests that wait for each other each hold
one row and want another (`HoldersOK`); since only `update` and `confirm` ever lock two, and
two of one kind lock them in one order, they are one of each, of one draft (`CyclesAreMixed`).

**ResearchInputs** (`KeysHaveOneInput`, `InputsAreStored`, `ReservationsAreKept`,
`AnswersAreOwn`, `BindingsAgree`). `InputsInv` says that only a completed key has a result and
only a pending one a lease (`RowsOK`), and that side effects are at level `input` with the
bytes they are about (`PlaceOK`). The one step that inserts an input completes the row it
holds, which is pending and so has no result: no earlier input has that key. Every row a
request writes either has no lease or is the request's own, which gives the action property in
the same induction (`StepKeeps`). There is one lemma per action. `AnswerInv` adds whose results
are whose: a completed key of ingestion names the input made under it and for its hash, one of
the bridge a binding of the paper its hash asks for (`ResultsOK`); a binding is to the input of
its paper's derived key (`BindingsOK`); and a request that was given an input was given its own
(`GotOf`). Two requests for one paper therefore bring the same input to `persist`, under
whichever keys, and it never finds a binding to refuse them for.

**RevisionPlans** (`RevisionsStayExecutable`, `MoreFeedbackNeverShrinks`, `ReuseIsUpToDate`).
`RevisionInv` says that at most one run is active (`OneActive`), that a revision's plan exists,
and that a plan is what `create_plan` makes of its feedback, its parent's chain and the versions
it froze (`PlansAreProposals`). Confirmation counts rows against frozen versions and compares
each: the two sets are finite, one contains the other, so they are equal, and from then on only
the revision itself publishes. That plans grow with feedback is a fact about two proposals,
proved from the closure and the decisions for any chain (`AffectedGrow`, `ProposalsGrow`); the
induction only carries that plans are proposals of a completed, hence unchanging, parent.

That a plan keeps nothing made from what it replaces is not checked anywhere in the code: it
holds because the closure, the check of co-outputs and the order of a chain fit together, and
the proof says how. Suppose a plan replaces `b`, and keeps `a`, which some step makes from `b`.
`b` has a producer among the steps executed (`ReplacedAreMade`); the order of the chain puts
the producer of `a` after it with no Gaia step in between, each step needs the one before it,
so the closure contains that producer as well (`LaterStepsFollow`). Its outputs that its run
published are then replaced or refuse the plan (`OutputsMatch`), and a completed run has
published all outputs of its steps (`PublishedOK`); the exceptions are Gaia steps and the
claims of decided relations, and a plan that decides relations executes nothing before the
step that makes them (`DecisionsStartAtReasoning`). The induction carries that chains stay in
order when a revision leaves steps out of them (`PartsAreOrdered`, `DerivedNeedsTheLast`) and
that a version was made from what a step of its artifact reads (`MadeOK`). The positions a
revision keeps are `Ordered`, and that this enumerates a finite set without omission and in
order (`OrderedIsAll`) is proved by counting: the rank of a member is the number of members up
to it, ranks differ and there are as many as members.

**RevisionLocks** (`LocksProtectReads`, `FeedbackStaysCurrent`, `PlansFreezeOneCut`,
`ConfirmsWhatIsCurrent`). `LockInv` is two-phase locking, said of scripts: two transactions
share a row only in `KEY SHARE` (`RowsAreExclusive`); a request either has its read before it,
and in front of that every lock it needs and does not have (`BeforeReading`), or it has these
locks and what it read is current (`AfterReading`); a publication has, or will have when it
commits, the artifacts it moves and a `KEY SHARE` of the project (`Publishes`); an upload reads
nothing it goes by, and needs nothing. So what a
publication moves, nobody has read who is yet to commit. Feedback needs its artifact, a plan
the project, a confirmation every artifact. That a coroutine is suspended
between its read and its commit changes nothing of this, which is why the hang of `feedback_hang`
is the price and not a stale feedback.

**RunEventFeed** (`FeedsAreWhole`, `FeedsStopComplete`). What is shown and every cache entry is
whole, hence an interval of events that have been committed (`CachesOK`). Of a synchronisation
under way (`SyncsOK`), a terminal snapshot is what the run will always be, the pages read so far
end where the next one begins, and the artifacts were asked for after the batch that named new
versions. With `RunOK` and `PageOK` (the run, the page), and since a feed that stopped or was
not created yet has no synchronisation under way (`StoppedOK`, `UnbornOK`), a feed stops only
when it has everything. The late write of an abandoned feed may set a cache back, but it
writes an interval as well.

Some theorems state more than a run does: `PlanOrder` and `StatusTracksPlan` (parts of
`StoreSafety`), `CompletedMeansAllPublished`, `TerminalIsFinal` and `EveryTransitionIsAnnounced` of the store,
`OutcomeIsFinal` and `StepsAreToldOnce` of turns, `OneInputPerKey` and
`HolderKeepsReservation` of inputs. TLC found each of them to hold before it was proved.

Left to TLC: liveness and fairness, and everything about `ENABLED`, which the provers cannot
reach: that queued runs are started and served, that turns are not blocked, that requests for
inputs are answered, that nothing but a suspended feedback keeps a request from its end, that an open page catches up. Left to TLC as well is what the
models assume of chains for the Contracts of the runs (`ChainAssumption`, `ReadAssumption`):
that `compile_run_plan` freezes such chains is read off its source, not proved.

## 5. Plan

Done: the workflow core (store, publication commit, worker), turns and thread, project and
admission, input ingestion and the paper bridge, revisions and feedback with their row locks,
and the event feed of the workspace.

Next, to extend the model:

1. `ResearchInputs`: the remaining modes of the bridge, quota, and an abstract "one result
   per key" specification that both of its levels implement.
2. `ProducerLedger`: start, find and finish of producer executions by runner threads and
   their use by publication, composed with the worker's threads.
3. `SessionSecurity`: resume, rotation, bounded CSRF hashes and quota.
4. `ContentStore`: publication without replacement, two concurrent repairs (request handlers
   and runner threads store in one process, and processes share the directory), lifecycle
   report.
5. Parse attempts, share snapshots, provider configuration, cache selection and the worker
   registry with drain.
6. A worker module over several queued runs, for the order in which they are served.

Then to prove: that RevisionLocks implements the requests of RevisionPlans, whose actions are
its commits; that both levels of ResearchInputs implement "one result per key"; and a
refinement of the turns by an abstract conversation in which a turn is one step.

Runs planned: two threads and one publication for the ledger; two tabs and a rotation for sessions; two writers and a corrupt
blob for storage.

## 6. Not modelled

Validation and hashing of payloads (`workflow/scientific_admission.py` apart from the rows it
inserts, `workflow/step_publication.py`, `schemas/`), the numerical and bibliographic pipelines
under `services/`, the HTTP surface, the frontends apart from the event feed, and generated
contracts: sequential code
without state shared between actors. The triggers in `db/postgres_invariants.py` repeat
guards of the store and are left out. Project deletion and session expiry remove a project
with all its rows; nothing here depends on a project after that.

## 7. Running the checks

```
tlc -workers 2 -config WorkflowStore.cfg MCWorkflowStore.tla
tlapm WorkflowStoreProofs.tla
```

`PROJECT.json` lists each run with its module and configuration. The largest are
`ResearchProject.cfg` with about 711,000 distinct states (a minute), `RunEventFeed.cfg` with
about 610,000 (two minutes), `ResearchTurn.cfg` with about 499,000 (two minutes) and
`RevisionPlans.cfg` with about 390,000 (a minute and a half); the others that check liveness,
`ResearchRunWorker.cfg`, `ResearchInputs.cfg` and `RevisionLocks.cfg`, take about a minute each.
