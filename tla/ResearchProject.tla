---- MODULE ResearchProject ----
(***************************************************************************)
(* The aggregate of one ResearchProject: its Contract drafts, the Contract *)
(* confirmed from each, and the admission of its runs.  A request is one   *)
(* transaction that takes row locks one after the other, reads under them  *)
(* and commits; requests interleave between the locks, and between what a  *)
(* confirmation or an admission reads and what it inserts.                 *)
(* confirm_contract locks the project and then the draft, update_draft the *)
(* draft and then the project.  The unique indexes on Contract versions,   *)
(* drafts of Contracts and active runs are left out: that the locks alone  *)
(* keep what the indexes say is what is to be shown, since a request that  *)
(* an index refuses is not answered as the code means it to be.            *)
(***************************************************************************)
EXTENDS Integers, Sequences, FiniteSets, FiniteSetsExt

CONSTANTS
  Requests,
  Drafts,        \* drafts by idempotency key (of create_draft, or of the turn)
  ContractKeys,  \* idempotency keys of confirm_contract
  RunKeys,       \* idempotency keys of create_run
  None,
  MaxVersion     \* bound on the edits of a draft

Project == "project"  \* the project's row, among the drafts' rows

ASSUME ProjectAssumption ==
  /\ IsFiniteSet(ContractKeys)
  /\ MaxVersion \in Nat \ {0}
  /\ None \notin Requests \cup Drafts \cup ContractKeys
  /\ Project \notin Drafts \cup {None}

VARIABLES
  draft,     \* ResearchContractDraftModel: its status and version
  due,       \* the drafts whose expires_at has passed
  active,    \* ResearchProjectModel.active_draft_id
  contract,  \* ResearchContractModel: its draft, the draft version it froze, its version
  run,       \* ResearchRunModel: "none", "active" (non-terminal) or "ended", its contract
  holder,    \* row locks: the project's and the drafts'
  request,   \* of a request: what it asks for
  held,      \* how many of its row locks it holds
  editable,  \* what it read of its draft when it locked it
  number,    \* the version a confirmation computed for its Contract (0: not yet)
  free,      \* an admission has found no run with its key and none active
  answer     \* the reply it was given, until it asks again

rows == <<draft, due, active, contract, run>>
reads == <<editable, number, free>>
vars == <<rows, holder, request, held, reads, answer>>

Idle == [op |-> "idle", draft |-> None, seen |-> 0, contract |-> None, run |-> None]
Ask(op, d, v, c, k) == [op |-> op, draft |-> d, seen |-> v, contract |-> c, run |-> k]

(* "get" and "update" name a draft that has been created, "run" a Contract *)
(* that has been confirmed: a request for anything else is a 404.          *)
Operations ==
  {Ask("create", d, 0, None, None) : d \in Drafts}
    \cup {Ask("get", d, 0, None, None) : d \in {d \in Drafts : draft[d].status # "none"}}
    \cup {Ask("update", d, v, None, None) :
            d \in {d \in Drafts : draft[d].status # "none"}, v \in 1..(MaxVersion - 1)}
    \cup {Ask("confirm", d, v, c, None) :
            d \in {d \in Drafts : draft[d].status # "none"}, v \in 1..MaxVersion,
            c \in ContractKeys}
    \cup {Ask("run", None, 0, c, k) :
            c \in {c \in ContractKeys : contract[c].draft # None}, k \in RunKeys}

(* Mutant: a confirmation locks the draft it confirms, and nothing else.   *)
LockOrderDraftOnly(q) ==
  CASE q.op = "get"     -> <<q.draft>>
    [] q.op = "update"  -> <<q.draft, Project>>
    [] q.op = "confirm" -> <<q.draft>>
    [] OTHER            -> <<Project>>

(* Mutant: a run is admitted without the lock of the project row.          *)
LockOrderFreeRuns(q) ==
  CASE q.op = "get"     -> <<q.draft>>
    [] q.op = "update"  -> <<q.draft, Project>>
    [] q.op = "confirm" -> <<Project, q.draft>>
    [] q.op = "run"     -> << >>
    [] OTHER            -> <<Project>>

(* Mutant: reading a draft locks its project as well, as an edit does.     *)
LockOrderReads(q) ==
  CASE q.op \in {"get", "update"} -> <<q.draft, Project>>
    [] q.op = "confirm"           -> <<Project, q.draft>>
    [] OTHER                      -> <<Project>>

(* The rows a request locks, in its order.                                 *)
LockOrder(q) ==
  CASE q.op = "get"     -> <<q.draft>>
    [] q.op = "update"  -> <<q.draft, Project>>
    [] q.op = "confirm" -> <<Project, q.draft>>
    [] OTHER            -> <<Project>>

Init ==
  /\ draft = [d \in Drafts |-> [status |-> "none", version |-> 0]]
  /\ due = {}
  /\ active = None
  /\ contract = [c \in ContractKeys |-> [draft |-> None, content |-> 0, version |-> 0]]
  /\ run = [k \in RunKeys |-> [status |-> "none", contract |-> None]]
  /\ holder = [row \in Drafts \cup {Project} |-> None]
  /\ request = [r \in Requests |-> Idle]
  /\ held = [r \in Requests |-> 0]
  /\ editable = [r \in Requests |-> FALSE]
  /\ number = [r \in Requests |-> 0]
  /\ free = [r \in Requests |-> FALSE]
  /\ answer = [r \in Requests |-> "none"]

Begin(r, q) ==
  /\ request[r] = Idle
  /\ request' = [request EXCEPT ![r] = q]
  /\ answer' = [answer EXCEPT ![r] = "none"]
  /\ UNCHANGED <<rows, holder, held, reads>>

(* Mutant: the version in If-Match is not compared.                        *)
ReadsEditableAnyVersion(q) == draft[q.draft].status = "draft" /\ q.draft \notin due

(* _expire_draft, the status check and require_revision                    *)
ReadsEditable(q) ==
  /\ draft[q.draft].status = "draft" /\ q.draft \notin due
  /\ draft[q.draft].version = q.seen

(* A confirmation replays its key before it looks at the draft; an update  *)
(* that read a stale draft does not go on to the project.                  *)
GoesOn(r) ==
  /\ request[r] # Idle /\ held[r] < Len(LockOrder(request[r]))
  /\ held[r] = 1 /\ request[r].op = "confirm" => contract[request[r].contract].draft = None
  /\ held[r] = 1 /\ request[r].op = "update" => editable[r]

NextRow(r) == LockOrder(request[r])[held[r] + 1]

TakeLock(r) ==
  /\ GoesOn(r) /\ holder[NextRow(r)] = None
  /\ holder' = [holder EXCEPT ![NextRow(r)] = r]
  /\ held' = [held EXCEPT ![r] = @ + 1]
  /\ editable' = [editable EXCEPT ![r] =
       IF NextRow(r) = request[r].draft THEN ReadsEditable(request[r]) ELSE @]
  /\ UNCHANGED <<rows, request, number, free, answer>>

(* The transaction ends: it releases its locks and answers.                *)
Answer(r, reply) ==
  /\ answer' = [answer EXCEPT ![r] = reply]
  /\ holder' = [row \in DOMAIN holder |-> IF holder[row] = r THEN None ELSE holder[row]]
  /\ request' = [request EXCEPT ![r] = Idle]
  /\ held' = [held EXCEPT ![r] = 0]
  /\ editable' = [editable EXCEPT ![r] = FALSE]
  /\ number' = [number EXCEPT ![r] = 0]
  /\ free' = [free EXCEPT ![r] = FALSE]

Locked(r, op) ==
  /\ request[r].op = op /\ held[r] = Len(LockOrder(request[r]))

-----------------------------------------------------------------------------
(* create_draft, and the Draft of a turn's draft_ready outcome (which has  *)
(* a key of its own and is never replayed).  A replay makes the draft it   *)
(* returns the active one.                                                 *)
CreateDraft(r) ==
  LET d == request[r].draft
  IN /\ Locked(r, "create")
     /\ draft' = IF draft[d].status # "none" THEN draft
                 ELSE [draft EXCEPT ![d] = [status |-> "draft", version |-> 1]]
     /\ active' = d
     /\ Answer(r, "ok")
     /\ UNCHANGED <<due, contract, run>>

(* Reading a draft after its hour stores that it has expired.              *)
GetDraft(r) ==
  LET d == request[r].draft
  IN /\ Locked(r, "get")
     /\ draft' = IF draft[d].status = "draft" /\ d \in due
                   THEN [draft EXCEPT ![d].status = "expired"] ELSE draft
     /\ Answer(r, "ok")
     /\ UNCHANGED <<due, active, contract, run>>

UpdateDraft(r) ==
  LET d == request[r].draft
  IN /\ Locked(r, "update")
     /\ draft' = [draft EXCEPT ![d].version = @ + 1]
     /\ active' = d
     /\ Answer(r, "ok")
     /\ UNCHANGED <<due, contract, run>>

(* coalesce(max(version), 0) + 1 over the project's Contracts              *)
NextVersion == 1 + Max({0} \cup {contract[c].version : c \in ContractKeys})

ReadVersion(r) ==
  /\ Locked(r, "confirm") /\ editable[r] /\ number[r] = 0
  /\ number' = [number EXCEPT ![r] = NextVersion]
  /\ UNCHANGED <<rows, holder, request, held, editable, free, answer>>

(* Mutant: the draft stays editable after its confirmation.                *)
ConfirmLeavesDraft(r) ==
  LET q == request[r]
  IN /\ Locked(r, "confirm") /\ number[r] # 0
     /\ contract' = [contract EXCEPT ![q.contract] =
          [draft |-> q.draft, content |-> draft[q.draft].version, version |-> number[r]]]
     /\ active' = None
     /\ Answer(r, "ok")
     /\ UNCHANGED <<due, draft, run>>

ConfirmContract(r) ==
  LET q == request[r]
  IN /\ Locked(r, "confirm") /\ number[r] # 0
     /\ contract' = [contract EXCEPT ![q.contract] =
          [draft |-> q.draft, content |-> draft[q.draft].version, version |-> number[r]]]
     /\ draft' = [draft EXCEPT ![q.draft].status = "confirmed"]
     /\ active' = None
     /\ Answer(r, "ok")
     /\ UNCHANGED <<due, run>>

(* A used key: the same request is answered with its Contract, another one *)
(* with a conflict.                                                        *)
ConfirmReplay(r) ==
  LET q == request[r]
  IN /\ q.op = "confirm" /\ held[r] = 1 /\ contract[q.contract].draft # None
     /\ Answer(r, IF <<q.draft, q.seen>> = <<contract[q.contract].draft,
                                              contract[q.contract].content>>
                    THEN "ok" ELSE "idempotency_conflict")
     /\ UNCHANGED rows

(* DRAFT_NOT_EDITABLE, a revision conflict, or a Contract that the case    *)
(* does not admit: the raise rolls back, the expiry of the draft included. *)
DraftRefused(r) ==
  /\ request[r].op \in {"update", "confirm"} /\ holder[request[r].draft] = r
  /\ request[r].op = "confirm" \/ ~editable[r]
  /\ Answer(r, "refused")
  /\ UNCHANGED rows

-----------------------------------------------------------------------------
ActiveRuns == {k \in RunKeys : run[k].status = "active"}

(* create_run_in_session looks for a run with its key and for an active    *)
(* run, and then inserts.                                                  *)
LookForRuns(r) ==
  /\ Locked(r, "run") /\ ~free[r]
  /\ run[request[r].run].status = "none" /\ ActiveRuns = {}
  /\ free' = [free EXCEPT ![r] = TRUE]
  /\ UNCHANGED <<rows, holder, request, held, editable, number, answer>>

AdmitRun(r) ==
  LET q == request[r]
  IN /\ Locked(r, "run") /\ free[r]
     /\ run' = [run EXCEPT ![q.run] = [status |-> "active", contract |-> q.contract]]
     /\ Answer(r, "ok")
     /\ UNCHANGED <<draft, due, active, contract>>

ReplayRun(r) ==
  LET q == request[r]
  IN /\ Locked(r, "run") /\ ~free[r] /\ run[q.run].contract = q.contract
     /\ Answer(r, "ok")
     /\ UNCHANGED rows

(* The store raises the same WorkflowConflictError for a key used by       *)
(* another request and for an active run; the service answers both alike.  *)
RunConflict(r) ==
  LET q == request[r]
  IN /\ Locked(r, "run") /\ ~free[r] /\ run[q.run].contract # q.contract
     /\ run[q.run].status # "none" \/ ActiveRuns # {}
     /\ Answer(r, "idempotency_conflict")
     /\ UNCHANGED rows

(* The run completes, fails or is cancelled: no project lock is taken.     *)
RunEnds(k) ==
  /\ run[k].status = "active"
  /\ run' = [run EXCEPT ![k].status = "ended"]
  /\ UNCHANGED <<draft, due, active, contract, holder, request, held, reads, answer>>

(* An hour passes after the draft was created.                             *)
DraftFallsDue(d) ==
  /\ draft[d].status # "none" /\ d \notin due
  /\ due' = due \cup {d}
  /\ UNCHANGED <<draft, active, contract, run, holder, request, held, reads, answer>>

-----------------------------------------------------------------------------
(* PostgreSQL: of two transactions that wait for each other's row one is   *)
(* aborted, with everything it did.                                        *)
DeadlockDetected(r) ==
  /\ GoesOn(r)
  /\ \E other \in Requests \ {r} :
       /\ GoesOn(other)
       /\ holder[NextRow(r)] = other /\ holder[NextRow(other)] = r
  /\ Answer(r, "error")
  /\ UNCHANGED rows

RequestStep(r) ==
  \/ TakeLock(r) \/ CreateDraft(r) \/ GetDraft(r) \/ UpdateDraft(r)
  \/ ReadVersion(r) \/ ConfirmContract(r) \/ ConfirmReplay(r) \/ DraftRefused(r)
  \/ LookForRuns(r) \/ AdmitRun(r) \/ ReplayRun(r) \/ RunConflict(r)

Next ==
  \/ \E r \in Requests :
       RequestStep(r) \/ DeadlockDetected(r) \/ \E q \in Operations : Begin(r, q)
  \/ \E k \in RunKeys : RunEnds(k)
  \/ \E d \in Drafts : DraftFallsDue(d)

Spec == Init /\ [][Next]_vars

-----------------------------------------------------------------------------
(* Every row, lock and request is in one of its states.                    *)
TypeOK ==
  /\ draft \in [Drafts -> [status : {"none", "draft", "confirmed", "expired"},
                           version : 0..MaxVersion]]
  /\ due \subseteq Drafts /\ active \in Drafts \cup {None}
  /\ contract \in [ContractKeys -> [draft : Drafts \cup {None}, content : 0..MaxVersion,
                                    version : Nat]]
  /\ run \in [RunKeys -> [status : {"none", "active", "ended"},
                          contract : ContractKeys \cup {None}]]
  /\ holder \in [Drafts \cup {Project} -> Requests \cup {None}]
  /\ held \in [Requests -> 0..2] /\ editable \in [Requests -> BOOLEAN]
  /\ number \in [Requests -> Nat] /\ free \in [Requests -> BOOLEAN]
  /\ answer \in [Requests -> {"none", "ok", "refused", "idempotency_conflict", "error"}]

Confirmed == {c \in ContractKeys : contract[c].draft # None}

(* A Contract is the draft its reviewer confirmed, for good: no edit that  *)
(* raced the confirmation is left in the draft and missing in the          *)
(* Contract, and a draft gives rise to at most one Contract.               *)
ContractIsItsDraft ==
  /\ \A c \in Confirmed :
       /\ draft[contract[c].draft].status = "confirmed"
       /\ draft[contract[c].draft].version = contract[c].content
  /\ \A c, e \in Confirmed : contract[c].draft = contract[e].draft => c = e

(* The Contracts of a project are numbered without gap or repetition,      *)
(* although confirmations of different drafts compute the next number      *)
(* before they insert under it: "The Project lock serializes version       *)
(* allocation and confirmation."                                           *)
ContractsAreNumbered ==
  {contract[c].version : c \in Confirmed} = 1..Cardinality(Confirmed)

(* An edit is applied only to the version its author saw: of two           *)
(* concurrent edits of one version one is refused.                         *)
EditsSawTheLatest ==
  [][ \A d \in Drafts : draft'[d].version > draft[d].version /\ draft[d].status # "none" =>
        \E r \in Requests : /\ request[r].op = "update" /\ request[r].draft = d
                            /\ request[r].seen = draft[d].version
                            /\ request'[r] = Idle ]_vars

(* A project never has two runs that are not finished, although admissions *)
(* look for an active run before they insert theirs: the project's row     *)
(* lock holds off the others, and the unique index is never what does.     *)
OneActiveRun == Cardinality(ActiveRuns) <= 1

(* The opposite lock orders cost an answer only where an edit and a        *)
(* confirmation of the same draft meet: no other of these requests is ever *)
(* aborted to break a cycle.                                               *)
OnlyEditAndConfirmationCollide ==
  [][ \A r \in Requests : answer[r] # "error" /\ answer'[r] = "error" =>
        \E other \in Requests :
          /\ {request[r].op, request[other].op} = {"update", "confirm"}
          /\ request[r].draft = request[other].draft ]_vars
====
