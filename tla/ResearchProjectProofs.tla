---- MODULE ResearchProjectProofs ----
(***************************************************************************)
(* A Contract stays equal to the draft it was confirmed from, for any      *)
(* number of requests, drafts and keys.  The argument is about locks: what *)
(* a request read of a draft remains true until it commits, because the    *)
(* requests that could change it need the row lock it holds.  So do what a *)
(* confirmation counted and what an admission looked for.                  *)
(***************************************************************************)
EXTENDS ResearchProject, FiniteSetTheorems, TLAPS

(* What the argument needs of the types.                                   *)
RecordsOK ==
  /\ draft \in [Drafts -> [status : {"none", "draft", "confirmed", "expired"}, version : Int]]
  /\ contract = [c \in ContractKeys |-> contract[c]]
  /\ \A c \in ContractKeys : contract[c].draft \in Drafts \cup {None}
  /\ holder \in [Drafts \cup {Project} -> Requests \cup {None}]
  /\ held \in [Requests -> 0..2]
  /\ editable \in [Requests -> BOOLEAN] /\ free \in [Requests -> BOOLEAN]
  /\ number = [r \in Requests |-> number[r]]
  /\ request = [r \in Requests |-> request[r]]

(* A request that is under way names rows that exist; an idle one holds    *)
(* nothing.                                                                *)
RequestsOK ==
  \A r \in Requests :
    \/ request[r] = Idle /\ held[r] = 0 /\ ~editable[r]
    \/ request[r].op = "create" /\ request[r].draft \in Drafts /\ held[r] \in 0..1
         /\ ~editable[r]
    \/ request[r].op = "get" /\ request[r].draft \in Drafts /\ held[r] \in 0..1
    \/ request[r].op \in {"update", "confirm"} /\ request[r].draft \in Drafts
         /\ (request[r].op = "confirm" => request[r].contract \in ContractKeys)
    \/ request[r].op = "run" /\ request[r].draft = None /\ held[r] \in 0..1
         /\ ~editable[r]

(* The locks a request has taken are held in its name.                     *)
LocksOK ==
  \A r \in Requests : request[r] # Idle =>
    \A i \in 1..held[r] : holder[LockOrder(request[r])[i]] = r

(* What it read of its draft still holds, and what it read of its Contract *)
(* key.  It counts or looks only once it has all its locks.                *)
ReadsOK ==
  \A r \in Requests :
    /\ editable[r] /\ request[r].op \in {"update", "confirm"} =>
         /\ holder[request[r].draft] = r
         /\ draft[request[r].draft].status = "draft"
         /\ draft[request[r].draft].version = request[r].seen
    /\ request[r].op = "update" /\ held[r] = 2 => editable[r]
    /\ request[r].op = "confirm" /\ held[r] = 2 =>
         /\ holder[Project] = r
         /\ contract[request[r].contract].draft = None
    /\ number[r] # 0 => request[r].op = "confirm" /\ held[r] = 2 /\ editable[r]
    /\ free[r] => request[r].op = "run" /\ held[r] = 1

ProjectInv == RecordsOK /\ RequestsOK /\ LocksOK /\ ReadsOK /\ ContractIsItsDraft

-----------------------------------------------------------------------------
(* Initially nothing is locked, read or confirmed.                         *)
LEMMA InitEstablishes == Init => ProjectInv
  BY ProjectAssumption DEF Init, ProjectInv, RecordsOK, RequestsOK, LocksOK, ReadsOK,
    ContractIsItsDraft, Confirmed, Idle

(* Every row a request has locked is a row.                                *)
LEMMA RowsExist ==
  ASSUME RecordsOK, RequestsOK, NEW r \in Requests, request[r] # Idle, NEW i \in 1..held[r]
  PROVE  LockOrder(request[r])[i] \in Drafts \cup {Project}
<1>1. CASE request[r].op \in {"create", "run"}
  <2>1. i = 1 /\ LockOrder(request[r]) = <<Project>>
    BY <1>1 DEF RecordsOK, RequestsOK, LockOrder, Idle
  <2> QED
    BY <2>1
<1>2. CASE request[r].op = "get"
  <2>1. i = 1 /\ LockOrder(request[r]) = <<request[r].draft>>
    BY <1>2 DEF RecordsOK, RequestsOK, LockOrder, Idle
  <2> QED
    BY <1>2, <2>1 DEF RequestsOK, Idle
<1>3. CASE request[r].op \in {"update", "confirm"}
  <2>0. held[r] \in 0..2
    BY DEF RecordsOK
  <2>1. i \in {1, 2}
    BY <2>0
  <2>3. request[r].draft \in Drafts
    BY <1>3 DEF RequestsOK
  <2>2. \/ LockOrder(request[r]) = <<request[r].draft, Project>>
        \/ LockOrder(request[r]) = <<Project, request[r].draft>>
    BY <1>3 DEF LockOrder
  <2> QED
    BY <2>1, <2>2, <2>3
<1> QED
  BY <1>1, <1>2, <1>3 DEF RequestsOK

(* A request that ends leaves the locks of the others in place.            *)
LEMMA AnswerKeepsLocks ==
  ASSUME RecordsOK, RequestsOK, LocksOK, NEW r \in Requests, NEW reply, Answer(r, reply)
  PROVE  /\ RequestsOK' /\ LocksOK'
         /\ holder' \in [Drafts \cup {Project} -> Requests \cup {None}]
         /\ held' \in [Requests -> 0..2] /\ editable' \in [Requests -> BOOLEAN]
         /\ request' = [p \in Requests |-> request'[p]]
         /\ free' \in [Requests -> BOOLEAN] /\ number' = [p \in Requests |-> number'[p]]
<1>1. /\ \A p \in Requests \ {r} : /\ request'[p] = request[p] /\ held'[p] = held[p]
                                   /\ editable'[p] = editable[p]
      /\ request'[r] = Idle /\ held'[r] = 0 /\ editable'[r] = FALSE
  BY DEF Answer, RecordsOK
<1>2. RequestsOK'
  BY <1>1 DEF RequestsOK
<1>3. LocksOK'
  <2> SUFFICES ASSUME NEW p \in Requests, request'[p] # Idle, NEW i \in 1..held'[p]
               PROVE  holder'[LockOrder(request'[p])[i]] = p
    BY DEF LocksOK
  <2>1. p # r /\ request'[p] = request[p] /\ held'[p] = held[p]
    BY <1>1
  <2>2. LockOrder(request[p])[i] \in Drafts \cup {Project}
    BY <2>1, RowsExist
  <2>3. holder[LockOrder(request[p])[i]] = p
    BY <2>1 DEF LocksOK
  <2> HIDE DEF LockOrder
  <2> QED
    BY <2>1, <2>2, <2>3 DEF Answer, RecordsOK
<1>4. holder' \in [Drafts \cup {Project} -> Requests \cup {None}]
  <2>1. DOMAIN holder = Drafts \cup {Project}
    BY DEF RecordsOK
  <2>2. holder' = [row \in Drafts \cup {Project} |->
                     IF holder[row] = r THEN None ELSE holder[row]]
    BY <2>1 DEF Answer
  <2>3. \A row \in Drafts \cup {Project} : holder[row] \in Requests \cup {None}
    BY DEF RecordsOK
  <2> QED
    BY <2>2, <2>3
<1>5. held' \in [Requests -> 0..2]
  BY DEF Answer, RecordsOK
<1>6. editable' \in [Requests -> BOOLEAN]
  BY DEF Answer, RecordsOK
<1>7. request' = [p \in Requests |-> request'[p]]
  BY DEF Answer, RecordsOK
<1>8. free' \in [Requests -> BOOLEAN]
  BY DEF Answer, RecordsOK
<1>9. number' = [p \in Requests |-> number'[p]]
  BY DEF Answer, RecordsOK
<1> QED
  BY <1>2, <1>3, <1>4, <1>5, <1>6, <1>7, <1>8, <1>9

(* A request that ends without changing a row keeps the invariant.         *)
LEMMA ReplyKeeps ==
  ASSUME ProjectInv, NEW r \in Requests, NEW reply, Answer(r, reply), UNCHANGED <<draft, contract>>
  PROVE  ProjectInv'
<1>1. /\ RequestsOK' /\ LocksOK'
      /\ holder' \in [Drafts \cup {Project} -> Requests \cup {None}]
      /\ held' \in [Requests -> 0..2] /\ editable' \in [Requests -> BOOLEAN]
      /\ request' = [p \in Requests |-> request'[p]]
      /\ free' \in [Requests -> BOOLEAN] /\ number' = [p \in Requests |-> number'[p]]
  BY AnswerKeepsLocks DEF ProjectInv
<1>2. RecordsOK'
  BY <1>1 DEF ProjectInv, RecordsOK
<1>3. ReadsOK'
  BY ProjectAssumption DEF Answer, ProjectInv, RecordsOK, RequestsOK, ReadsOK, Idle
<1>4. ContractIsItsDraft'
  BY DEF ProjectInv, ContractIsItsDraft, Confirmed
<1> QED
  BY <1>1, <1>2, <1>3, <1>4 DEF ProjectInv

(* A request that ends having changed a draft nobody else has read, and    *)
(* Contracts only under the project lock, leaves the reads of the others   *)
(* true.                                                                   *)
LEMMA CommitKeepsReads ==
  ASSUME RecordsOK, RequestsOK, ReadsOK, NEW r \in Requests, NEW reply, Answer(r, reply),
         NEW d \in Drafts, holder[d] = r \/ draft[d].status = "none",
         \A e \in Drafts \ {d} : draft'[e] = draft[e],
         holder[Project] = r \/ contract' = contract
  PROVE  ReadsOK'
<1> SUFFICES ASSUME NEW p \in Requests
             PROVE  /\ editable'[p] /\ request'[p].op \in {"update", "confirm"} =>
                         /\ holder'[request'[p].draft] = p
                         /\ draft'[request'[p].draft].status = "draft"
                         /\ draft'[request'[p].draft].version = request'[p].seen
                    /\ request'[p].op = "update" /\ held'[p] = 2 => editable'[p]
                    /\ request'[p].op = "confirm" /\ held'[p] = 2 =>
                         /\ holder'[Project] = p
                         /\ contract'[request'[p].contract].draft = None
                    /\ number'[p] # 0 =>
                         request'[p].op = "confirm" /\ held'[p] = 2 /\ editable'[p]
                    /\ free'[p] => request'[p].op = "run" /\ held'[p] = 1
  BY DEF ReadsOK
<1>1. CASE p = r
  BY <1>1 DEF Answer, RecordsOK, Idle
<1>2. CASE p # r
  <2>1. /\ request'[p] = request[p] /\ held'[p] = held[p] /\ editable'[p] = editable[p]
        /\ number'[p] = number[p] /\ free'[p] = free[p]
        /\ \A row \in Drafts \cup {Project} : holder[row] = p => holder'[row] = p
    BY <1>2 DEF Answer, RecordsOK
  <2>2. CASE editable[p] /\ request[p].op \in {"update", "confirm"}
    <3>1. /\ request[p].draft \in Drafts /\ holder[request[p].draft] = p
          /\ draft[request[p].draft].status = "draft"
          /\ draft[request[p].draft].version = request[p].seen
      BY <2>2 DEF ReadsOK, RequestsOK, Idle
    <3>2. request[p].draft # d
      BY <3>1, <1>2
    <3> QED
      BY <2>1, <3>1, <3>2, <1>2 DEF ReadsOK
  <2>3. CASE ~(editable[p] /\ request[p].op \in {"update", "confirm"})
    BY <2>1, <2>3, <1>2 DEF ReadsOK
  <2> QED
    BY <2>2, <2>3
<1> QED
  BY <1>1, <1>2

(* A new draft has no reader and no Contract; a replay changes no draft.   *)
LEMMA CreateKeeps ==
  ASSUME ProjectInv, NEW r \in Requests, CreateDraft(r) PROVE ProjectInv'
<1> DEFINE d == request[r].draft
<1>1. /\ request[r].op = "create" /\ Answer(r, "ok") /\ contract' = contract
      /\ draft' = IF draft[d].status # "none" THEN draft
                  ELSE [draft EXCEPT ![d] = [status |-> "draft", version |-> 1]]
  BY DEF CreateDraft, Locked
<1>2. d \in Drafts
  BY <1>1 DEF ProjectInv, RequestsOK, Idle
<1>3. CASE draft[d].status # "none"
  BY <1>1, <1>3, ReplyKeeps
<1>4. CASE draft[d].status = "none"
  <2>1. \A e \in Drafts \ {d} : draft'[e] = draft[e]
    BY <1>1, <1>4 DEF ProjectInv, RecordsOK
  <2>2. ReadsOK'
    BY <1>1, <1>2, <1>4, <2>1, CommitKeepsReads DEF ProjectInv
  <2>3. draft' \in [Drafts -> [status : {"none", "draft", "confirmed", "expired"}, version : Int]]
    BY <1>1, <1>2, <1>4 DEF ProjectInv, RecordsOK
  <2>4. RecordsOK' /\ RequestsOK' /\ LocksOK'
    BY <1>1, <2>3, AnswerKeepsLocks DEF ProjectInv, RecordsOK
  <2>5. ContractIsItsDraft'
    BY <1>1, <1>4, <2>1 DEF ProjectInv, RecordsOK, ContractIsItsDraft, Confirmed
  <2> QED
    BY <2>2, <2>4, <2>5 DEF ProjectInv
<1> QED
  BY <1>3, <1>4

(* Only an editable draft expires.                                         *)
LEMMA GetKeeps ==
  ASSUME ProjectInv, NEW r \in Requests, GetDraft(r) PROVE ProjectInv'
<1> DEFINE d == request[r].draft
<1>1. /\ request[r].op = "get" /\ Answer(r, "ok") /\ contract' = contract /\ held[r] = 1
      /\ draft' = IF draft[d].status = "draft" /\ d \in due
                    THEN [draft EXCEPT ![d].status = "expired"] ELSE draft
  BY DEF GetDraft, Locked, LockOrder
<1>2. d \in Drafts /\ holder[d] = r
  <2>1. d \in Drafts /\ request[r] # Idle
    BY <1>1 DEF ProjectInv, RequestsOK, Idle
  <2>2. LockOrder(request[r]) = <<d>>
    BY <1>1 DEF LockOrder
  <2>3. holder[LockOrder(request[r])[1]] = r
    BY <1>1, <2>1 DEF ProjectInv, LocksOK
  <2> QED
    BY <2>1, <2>2, <2>3
<1>3. \A e \in Drafts \ {d} : draft'[e] = draft[e]
  BY <1>1 DEF ProjectInv, RecordsOK
<1>4. ReadsOK'
  BY <1>1, <1>2, <1>3, CommitKeepsReads DEF ProjectInv
<1>5. draft' \in [Drafts -> [status : {"none", "draft", "confirmed", "expired"}, version : Int]]
  BY <1>1, <1>2 DEF ProjectInv, RecordsOK
<1>6. RecordsOK' /\ RequestsOK' /\ LocksOK'
  BY <1>1, <1>5, AnswerKeepsLocks DEF ProjectInv, RecordsOK
<1>7. ContractIsItsDraft'
  BY <1>1, <1>3 DEF ProjectInv, RecordsOK, ContractIsItsDraft, Confirmed
<1> QED
  BY <1>4, <1>6, <1>7 DEF ProjectInv

(* An edit commits on the draft it read: one that is still editable.       *)
LEMMA UpdateKeeps ==
  ASSUME ProjectInv, NEW r \in Requests, UpdateDraft(r) PROVE ProjectInv'
<1> DEFINE d == request[r].draft
<1>1. /\ request[r].op = "update" /\ Answer(r, "ok") /\ contract' = contract /\ held[r] = 2
      /\ draft' = [draft EXCEPT ![d].version = @ + 1]
  BY DEF UpdateDraft, Locked, LockOrder
<1>2. d \in Drafts /\ holder[d] = r /\ draft[d].status = "draft"
  BY <1>1 DEF ProjectInv, RequestsOK, ReadsOK, Idle
<1>3. \A e \in Drafts \ {d} : draft'[e] = draft[e]
  BY <1>1 DEF ProjectInv, RecordsOK
<1>4. ReadsOK'
  BY <1>1, <1>2, <1>3, CommitKeepsReads DEF ProjectInv
<1>5. draft' \in [Drafts -> [status : {"none", "draft", "confirmed", "expired"}, version : Int]]
  BY <1>1, <1>2 DEF ProjectInv, RecordsOK
<1>6. RecordsOK' /\ RequestsOK' /\ LocksOK'
  BY <1>1, <1>5, AnswerKeepsLocks DEF ProjectInv, RecordsOK
<1>7. ContractIsItsDraft'
  BY <1>1, <1>2, <1>3 DEF ProjectInv, RecordsOK, ContractIsItsDraft, Confirmed
<1> QED
  BY <1>4, <1>6, <1>7 DEF ProjectInv

(* A confirmation freezes a draft that is editable and has no Contract.    *)
LEMMA ConfirmKeeps ==
  ASSUME ProjectInv, NEW r \in Requests, ConfirmContract(r) PROVE ProjectInv'
<1> DEFINE d == request[r].draft
           key == request[r].contract
<1>1. /\ request[r].op = "confirm" /\ Answer(r, "ok") /\ held[r] = 2 /\ editable[r]
      /\ contract' = [contract EXCEPT ![key] =
           [draft |-> d, content |-> draft[d].version, version |-> number[r]]]
      /\ draft' = [draft EXCEPT ![d].status = "confirmed"]
  BY DEF ConfirmContract, Locked, ProjectInv, ReadsOK
<1>2. /\ d \in Drafts /\ key \in ContractKeys
      /\ holder[d] = r /\ draft[d].status = "draft"
      /\ holder[Project] = r /\ contract[key].draft = None
  BY <1>1 DEF ProjectInv, RequestsOK, ReadsOK, Idle
<1>3. /\ \A e \in Drafts \ {d} : draft'[e] = draft[e]
      /\ draft'[d].status = "confirmed" /\ draft'[d].version = draft[d].version
  BY <1>1, <1>2 DEF ProjectInv, RecordsOK
<1>4. /\ \A c \in ContractKeys \ {key} : contract'[c] = contract[c]
      /\ contract'[key].draft = d /\ contract'[key].content = draft[d].version
      /\ contract' = [c \in ContractKeys |-> contract'[c]]
  BY <1>1, <1>2 DEF ProjectInv, RecordsOK
<1>5. ReadsOK'
  BY <1>1, <1>2, <1>3, CommitKeepsReads DEF ProjectInv
<1>6. draft' \in [Drafts -> [status : {"none", "draft", "confirmed", "expired"}, version : Int]]
  BY <1>1, <1>2 DEF ProjectInv, RecordsOK
<1>7. \A c \in ContractKeys : contract'[c].draft \in Drafts \cup {None}
  BY <1>2, <1>4 DEF ProjectInv, RecordsOK
<1>8. RecordsOK' /\ RequestsOK' /\ LocksOK'
  BY <1>1, <1>4, <1>6, <1>7, AnswerKeepsLocks DEF ProjectInv, RecordsOK
<1>9. \A c \in Confirmed : contract[c].draft \in Drafts \ {d} /\ c # key
  BY <1>2 DEF ProjectInv, RecordsOK, ContractIsItsDraft, Confirmed
<1>10. Confirmed' = Confirmed \cup {key}
  BY <1>2, <1>4, ProjectAssumption DEF Confirmed
<1>11. ContractIsItsDraft'
  BY <1>3, <1>4, <1>9, <1>10 DEF ProjectInv, ContractIsItsDraft, Confirmed
<1> QED
  BY <1>5, <1>8, <1>11 DEF ProjectInv

(* A new request holds no lock and has read nothing.                       *)
LEMMA BeginKeeps ==
  ASSUME ProjectInv, NEW r \in Requests, NEW q \in Operations, Begin(r, q)
  PROVE  ProjectInv'
<1>1. /\ held[r] = 0 /\ editable[r] = FALSE
      /\ request' = [request EXCEPT ![r] = q]
      /\ UNCHANGED <<draft, contract, holder, held, editable, number, free>>
  BY DEF Begin, rows, reads, ProjectInv, RequestsOK, RecordsOK, Idle
<1>2. \/ q.op \in {"create", "get"} /\ q.draft \in Drafts
      \/ q.op = "update" /\ q.draft \in Drafts
      \/ q.op = "confirm" /\ q.draft \in Drafts /\ q.contract \in ContractKeys
      \/ q.op = "run" /\ q.draft = None
  BY DEF Operations, Ask
<1>3. request'[r] = q /\ \A p \in Requests \ {r} : request'[p] = request[p]
  BY <1>1 DEF ProjectInv, RecordsOK
<1>4. RecordsOK'
  BY <1>1 DEF ProjectInv, RecordsOK
<1>5. RequestsOK'
  BY <1>1, <1>2, <1>3 DEF ProjectInv, RequestsOK
<1>6. LocksOK'
  BY <1>1, <1>3 DEF ProjectInv, LocksOK
<1>7. ReadsOK'
  BY <1>1, <1>3 DEF ProjectInv, ReadsOK, Idle
<1>8. ContractIsItsDraft'
  BY <1>1 DEF ProjectInv, ContractIsItsDraft, Confirmed
<1> QED
  BY <1>4, <1>5, <1>6, <1>7, <1>8 DEF ProjectInv

(* A request that takes a lock takes a free one, and reads the row it      *)
(* locks.                                                                  *)
LEMMA TakeLockKeeps ==
  ASSUME ProjectInv, NEW r \in Requests, TakeLock(r) PROVE ProjectInv'
<1> DEFINE q == request[r]
           row == NextRow(r)
<1>1. /\ q # Idle /\ held[r] < Len(LockOrder(q))
      /\ holder[row] = None /\ row = LockOrder(q)[held[r] + 1]
      /\ holder' = [holder EXCEPT ![row] = r]
      /\ held' = [held EXCEPT ![r] = @ + 1]
      /\ editable' = [editable EXCEPT ![r] = IF row = q.draft THEN ReadsEditable(q) ELSE @]
      /\ UNCHANGED <<draft, contract, request, number, free>>
  BY DEF TakeLock, GoesOn, NextRow, rows
<1>2. /\ held[r] \in 0..2 /\ held'[r] = held[r] + 1
      /\ \A p \in Requests \ {r} : held'[p] = held[p] /\ editable'[p] = editable[p]
      /\ editable'[r] = IF row = q.draft THEN ReadsEditable(q) ELSE editable[r]
  BY <1>1 DEF ProjectInv, RecordsOK
<1>3. \/ q.op = "create" /\ q.draft \in Drafts /\ held[r] = 0 /\ row = Project
      \/ q.op = "run" /\ q.draft = None /\ held[r] = 0 /\ row = Project
      \/ q.op = "get" /\ q.draft \in Drafts /\ held[r] = 0 /\ row = q.draft
      \/ q.op = "update" /\ q.draft \in Drafts /\ held[r] = 0 /\ row = q.draft
      \/ q.op = "update" /\ q.draft \in Drafts /\ held[r] = 1 /\ row = Project
      \/ /\ q.op = "confirm" /\ q.draft \in Drafts /\ q.contract \in ContractKeys
         /\ \/ held[r] = 0 /\ row = Project
            \/ held[r] = 1 /\ row = q.draft
  <2>1. CASE q.op \in {"create", "run"}
    <3>1. LockOrder(q) = <<Project>>
      BY <2>1 DEF LockOrder
    <3> QED
      BY <1>1, <1>2, <2>1, <3>1 DEF ProjectInv, RequestsOK, Idle
  <2>2. CASE q.op = "get"
    <3>1. LockOrder(q) = <<q.draft>>
      BY <2>2 DEF LockOrder
    <3> QED
      BY <1>1, <1>2, <2>2, <3>1 DEF ProjectInv, RequestsOK, Idle
  <2>3. CASE q.op = "update"
    <3>1. LockOrder(q) = <<q.draft, Project>>
      BY <2>3 DEF LockOrder
    <3>2. held[r] = 0 \/ held[r] = 1
      BY <1>1, <1>2, <3>1
    <3>3. q.draft \in Drafts
      BY <2>3 DEF ProjectInv, RequestsOK, Idle
    <3> QED
      BY <1>1, <2>3, <3>1, <3>2, <3>3
  <2>4. CASE q.op = "confirm"
    <3>1. LockOrder(q) = <<Project, q.draft>>
      BY <2>4 DEF LockOrder
    <3>2. held[r] = 0 \/ held[r] = 1
      BY <1>1, <1>2, <3>1
    <3>3. q.draft \in Drafts /\ q.contract \in ContractKeys
      BY <2>4 DEF ProjectInv, RequestsOK, Idle
    <3> QED
      BY <1>1, <2>4, <3>1, <3>2, <3>3
  <2> QED
    BY <1>1, <2>1, <2>2, <2>3, <2>4 DEF ProjectInv, RequestsOK
<1>4. row \in Drafts \cup {Project}
  BY <1>3
<1>5. holder'[row] = r /\ \A w \in (Drafts \cup {Project}) \ {row} : holder'[w] = holder[w]
  BY <1>1, <1>4 DEF ProjectInv, RecordsOK
<1>6. RecordsOK'
  <2>1. holder' \in [Drafts \cup {Project} -> Requests \cup {None}]
    BY <1>1, <1>4 DEF ProjectInv, RecordsOK
  <2>2. held[r] + 1 \in 0..2
    BY <1>3
  <2>3. held' \in [Requests -> 0..2]
    BY <1>1, <2>2 DEF ProjectInv, RecordsOK
  <2>4. ReadsEditable(q) \in BOOLEAN
    BY DEF ReadsEditable
  <2>5. editable' \in [Requests -> BOOLEAN]
    <3>1. editable \in [Requests -> BOOLEAN]
      BY DEF ProjectInv, RecordsOK
    <3>2. (IF row = q.draft THEN ReadsEditable(q) ELSE editable[r]) \in BOOLEAN
      BY <2>4, <3>1
    <3> QED
      BY <1>1, <3>1, <3>2
  <2> QED
    BY <1>1, <2>1, <2>3, <2>5 DEF ProjectInv, RecordsOK
<1>7. RequestsOK'
  <2>1. q.op \in {"create", "run"} => editable'[r] = editable[r]
    BY <1>2, <1>3, ProjectAssumption
  <2>2. request'[r] = q /\ request' = request
    BY <1>1
  <2> QED
    BY <1>1, <1>2, <1>3, <2>1, <2>2 DEF ProjectInv, RequestsOK, Idle
<1>8. LocksOK'
  <2> SUFFICES ASSUME NEW p \in Requests, request[p] # Idle, NEW i \in 1..held'[p]
               PROVE  holder'[LockOrder(request[p])[i]] = p
    BY <1>1 DEF LocksOK
  <2>1. CASE i \in 1..held[p]
    <3>1. /\ LockOrder(request[p])[i] \in Drafts \cup {Project}
          /\ holder[LockOrder(request[p])[i]] = p
      BY <2>1, RowsExist DEF ProjectInv, LocksOK
    <3>2. LockOrder(request[p])[i] # row
      BY <1>1, <3>1, ProjectAssumption
    <3> QED
      BY <1>5, <3>1, <3>2
  <2>2. CASE i \notin 1..held[p]
    <3>1. p = r /\ i = held[r] + 1
      BY <1>2, <2>2
    <3> QED
      BY <1>1, <1>5, <3>1
  <2> QED
    BY <2>1, <2>2
<1>9. ReadsOK'
  <2> SUFFICES ASSUME NEW p \in Requests
               PROVE  /\ editable'[p] /\ request[p].op \in {"update", "confirm"} =>
                           /\ holder'[request[p].draft] = p
                           /\ draft[request[p].draft].status = "draft"
                           /\ draft[request[p].draft].version = request[p].seen
                      /\ request[p].op = "update" /\ held'[p] = 2 => editable'[p]
                      /\ request[p].op = "confirm" /\ held'[p] = 2 =>
                           /\ holder'[Project] = p
                           /\ contract[request[p].contract].draft = None
    <3>1. \A p \in Requests :
            /\ number[p] # 0 => request[p].op = "confirm" /\ held'[p] = 2 /\ editable'[p]
            /\ free[p] => request[p].op = "run" /\ held'[p] = 1
      BY <1>2, <1>3 DEF ProjectInv, ReadsOK
    <3> QED
      BY <1>1, <3>1 DEF ReadsOK
  <2>0. \A w \in Drafts \cup {Project} : holder[w] = p => holder'[w] = p
    BY <1>1, <1>5, ProjectAssumption
  <2>1. CASE p # r
    <3>1. request[p].op \in {"update", "confirm"} => request[p].draft \in Drafts
      BY DEF ProjectInv, RequestsOK, Idle
    <3> QED
      BY <1>2, <2>0, <2>1, <3>1 DEF ProjectInv, ReadsOK
  <2>2. CASE p = r /\ q.op = "update"
    <3>1. CASE row = q.draft
      <4>1. held'[r] = 1
        BY <1>2, <1>3, <2>2, <3>1, ProjectAssumption
      <4>2. editable'[r] => /\ draft[q.draft].status = "draft"
                           /\ draft[q.draft].version = q.seen
        BY <1>2, <3>1 DEF ReadsEditable
      <4>3. holder'[q.draft] = r
        BY <1>5, <3>1
      <4> QED
        BY <2>2, <4>1, <4>2, <4>3
    <3>2. CASE row # q.draft
      <4>1. held[r] = 1 /\ editable[r]
        BY <1>1, <1>3, <2>2, <3>2 DEF TakeLock, GoesOn
      <4> QED
        BY <1>2, <1>3, <2>0, <2>2, <3>2, <4>1 DEF ProjectInv, ReadsOK
    <3> QED
      BY <3>1, <3>2
  <2>3. CASE p = r /\ q.op = "confirm"
    <3>1. CASE row = q.draft
      <4>1. held[r] = 1 /\ contract[q.contract].draft = None
        BY <1>1, <1>3, <2>3, <3>1, ProjectAssumption DEF TakeLock, GoesOn
      <4>2. LockOrder(q) = <<Project, q.draft>>
        BY <2>3 DEF LockOrder
      <4>3. holder[LockOrder(q)[1]] = r
        BY <1>1, <4>1 DEF ProjectInv, LocksOK
      <4>4. holder'[Project] = r
        BY <2>0, <2>3, <4>2, <4>3
      <4> QED
        BY <1>2, <1>5, <2>3, <3>1, <4>1, <4>4 DEF ReadsEditable
    <3>2. CASE row # q.draft
      BY <1>2, <1>3, <2>0, <2>3, <3>2 DEF ProjectInv, ReadsOK
    <3> QED
      BY <3>1, <3>2
  <2>4. CASE p = r /\ q.op \notin {"update", "confirm"}
    BY <2>4
  <2> QED
    BY <2>1, <2>2, <2>3, <2>4
<1>10. ContractIsItsDraft'
  BY <1>1 DEF ProjectInv, ContractIsItsDraft, Confirmed
<1> QED
  BY <1>6, <1>7, <1>8, <1>9, <1>10 DEF ProjectInv

(* Counting and looking change nothing that was said so far.               *)
LEMMA LooksKeep ==
  ASSUME ProjectInv, NEW r \in Requests, ReadVersion(r) \/ LookForRuns(r)
  PROVE  ProjectInv'
<1>1. UNCHANGED <<draft, contract, holder, request, held, editable>>
  BY DEF ReadVersion, LookForRuns, rows
<1>2. /\ free' \in [Requests -> BOOLEAN] /\ number' = [p \in Requests |-> number'[p]]
      /\ \A p \in Requests \ {r} : number'[p] = number[p] /\ free'[p] = free[p]
  BY DEF ReadVersion, LookForRuns, ProjectInv, RecordsOK
<1>3. /\ number'[r] # number[r] => request[r].op = "confirm" /\ held[r] = 2 /\ editable[r]
      /\ free'[r] # free[r] => request[r].op = "run" /\ held[r] = 1
  BY DEF ReadVersion, LookForRuns, Locked, LockOrder
<1>4. RecordsOK' /\ RequestsOK' /\ LocksOK' /\ ContractIsItsDraft'
  BY <1>1, <1>2 DEF ProjectInv, RecordsOK, RequestsOK, LocksOK, ContractIsItsDraft, Confirmed
<1>5. ReadsOK'
  BY <1>1, <1>2, <1>3 DEF ProjectInv, ReadsOK
<1> QED
  BY <1>4, <1>5 DEF ProjectInv

(* The answers that change no draft and no Contract.                       *)
LEMMA RepliesKeep ==
  ASSUME ProjectInv, NEW r \in Requests,
         \/ ConfirmReplay(r) \/ DraftRefused(r) \/ AdmitRun(r) \/ ReplayRun(r)
         \/ RunConflict(r) \/ DeadlockDetected(r)
  PROVE  ProjectInv'
<1>1. CASE ConfirmReplay(r)
  BY <1>1, ReplyKeeps DEF ConfirmReplay, rows
<1>2. CASE DraftRefused(r)
  BY <1>2, ReplyKeeps DEF DraftRefused, rows
<1>3. CASE AdmitRun(r)
  BY <1>3, ReplyKeeps DEF AdmitRun
<1>4. CASE ReplayRun(r)
  BY <1>4, ReplyKeeps DEF ReplayRun, rows
<1>5. CASE RunConflict(r)
  BY <1>5, ReplyKeeps DEF RunConflict, rows
<1>6. CASE DeadlockDetected(r)
  BY <1>6, ReplyKeeps DEF DeadlockDetected, rows
<1> QED
  BY <1>1, <1>2, <1>3, <1>4, <1>5, <1>6

(* Every step keeps the invariant.                                         *)
LEMMA NextKeeps == ProjectInv /\ [Next]_vars => ProjectInv'
<1> SUFFICES ASSUME ProjectInv, [Next]_vars PROVE ProjectInv'
  OBVIOUS
<1>1. CASE UNCHANGED <<draft, contract, holder, request, held, editable, number, free>>
  BY <1>1 DEF ProjectInv, RecordsOK, RequestsOK, LocksOK, ReadsOK, ContractIsItsDraft, Confirmed
<1>2. ASSUME NEW r \in Requests, RequestStep(r) PROVE ProjectInv'
  BY <1>2, TakeLockKeeps, CreateKeeps, GetKeeps, UpdateKeeps, ConfirmKeeps, RepliesKeep,
     LooksKeep DEF RequestStep
<1>3. ASSUME NEW r \in Requests, DeadlockDetected(r) PROVE ProjectInv'
  BY <1>3, RepliesKeep
<1>4. ASSUME NEW r \in Requests, NEW q \in Operations, Begin(r, q) PROVE ProjectInv'
  BY <1>4, BeginKeeps
<1>5. CASE (\E k \in RunKeys : RunEnds(k)) \/ \E d \in Drafts : DraftFallsDue(d)
  BY <1>1, <1>5 DEF RunEnds, DraftFallsDue, reads
<1>6. CASE UNCHANGED vars
  BY <1>1, <1>6 DEF vars, rows, reads
<1> QED
  BY <1>2, <1>3, <1>4, <1>5, <1>6 DEF Next

(* Every Contract equals, for good, the one draft version its reviewer     *)
(* confirmed, whatever edits, reads and other confirmations interleave     *)
(* with the confirmation.                                                  *)
THEOREM ContractsStayAsReviewed == Spec => []ContractIsItsDraft
<1>1. ProjectInv => ContractIsItsDraft
  BY DEF ProjectInv
<1> QED
  BY <1>1, InitEstablishes, NextKeeps, PTL DEF Spec

(* Of two edits that started from the same version only one is applied.    *)
THEOREM EditsAreNotLost == Spec => EditsSawTheLatest
<1>1. ASSUME ProjectInv, [Next]_vars, NEW d \in Drafts,
             draft'[d].version > draft[d].version, draft[d].status # "none"
      PROVE  \E r \in Requests : /\ request[r].op = "update" /\ request[r].draft = d
                                 /\ request[r].seen = draft[d].version
                                 /\ request'[r] = Idle
  <2>0. draft[d].version \in Int /\ draft'[d].version # draft[d].version /\ draft' # draft
    BY <1>1 DEF ProjectInv, RecordsOK
  <2>1. PICK r \in Requests :
          CreateDraft(r) \/ GetDraft(r) \/ UpdateDraft(r) \/ ConfirmContract(r)
    BY <1>1, <2>0 DEF Next, RequestStep, Begin, TakeLock, ConfirmReplay, DraftRefused, AdmitRun,
      ReadVersion, LookForRuns, ReplayRun, RunConflict, RunEnds, DraftFallsDue, DeadlockDetected, vars, rows
  <2>2. ~CreateDraft(r)
    BY <1>1, <2>0 DEF CreateDraft, ProjectInv, RecordsOK
  <2>3. ~GetDraft(r)
    BY <1>1, <2>0 DEF GetDraft, ProjectInv, RecordsOK
  <2>4. ~ConfirmContract(r)
    BY <1>1, <2>0 DEF ConfirmContract, ProjectInv, RecordsOK
  <2>5. UpdateDraft(r)
    BY <2>1, <2>2, <2>3, <2>4
  <2>6. request[r].op = "update" /\ held[r] = 2
    BY <2>5 DEF UpdateDraft, Locked, LockOrder
  <2>7. request[r].draft = d
    BY <1>1, <2>0, <2>5 DEF UpdateDraft, ProjectInv, RecordsOK
  <2>8. request[r].seen = draft[d].version
    BY <1>1, <2>6, <2>7 DEF ProjectInv, ReadsOK
  <2>9. request'[r] = Idle
    BY <1>1, <2>5 DEF UpdateDraft, Answer, ProjectInv, RecordsOK
  <2> QED
    BY <2>6, <2>7, <2>8, <2>9
<1>2. ProjectInv /\ [Next]_vars =>
        [ \A d \in Drafts : draft'[d].version > draft[d].version /\ draft[d].status # "none" =>
          \E r \in Requests : /\ request[r].op = "update" /\ request[r].draft = d
                              /\ request[r].seen = draft[d].version
                              /\ request'[r] = Idle ]_vars
  BY <1>1
<1> QED
  BY <1>2, InitEstablishes, NextKeeps, PTL DEF Spec, EditsSawTheLatest

(* At most one run is active; and none is while an admission that has      *)
(* looked for runs goes on to insert, since it holds the project row.      *)
RunsOK ==
  /\ run = [k \in RunKeys |-> run[k]]
  /\ \A j, k \in ActiveRuns : j = k
  /\ \A r \in Requests : free[r] => ActiveRuns = {}

LEMMA AdmitKeepsRuns ==
  ASSUME ProjectInv, RunsOK, NEW r \in Requests, AdmitRun(r)
  PROVE  RunsOK'
<1>1. \A p \in Requests : free[p] => holder[Project] = p
  <2> SUFFICES ASSUME NEW p \in Requests, free[p] PROVE holder[Project] = p
    OBVIOUS
  <2>1. request[p].op = "run" /\ held[p] = 1 /\ request[p] # Idle
    BY DEF ProjectInv, ReadsOK, Idle
  <2>2. LockOrder(request[p]) = <<Project>>
    BY <2>1 DEF LockOrder
  <2>3. holder[LockOrder(request[p])[1]] = p
    BY <2>1 DEF ProjectInv, LocksOK
  <2> QED
    BY <2>2, <2>3
<1>2. \A p \in Requests : ~free'[p]
  BY <1>1 DEF AdmitRun, Answer, ProjectInv, RecordsOK
<1>3. ActiveRuns = {}
  BY DEF AdmitRun, RunsOK
<1> QED
  BY <1>2, <1>3 DEF AdmitRun, RunsOK, ActiveRuns

(* A project has at most one run that is not finished, with no help from   *)
(* the unique index: what an admission found is true when it inserts.      *)
THEOREM OneRunAtATime == Spec => []OneActiveRun
<1>1. Init => RunsOK
  BY DEF Init, RunsOK, ActiveRuns
<1>2. ProjectInv /\ RunsOK /\ [Next]_vars => RunsOK'
  <2> SUFFICES ASSUME ProjectInv, RunsOK, [Next]_vars PROVE RunsOK'
    OBVIOUS
  <2>1. CASE UNCHANGED run /\ \A p \in Requests : free'[p] => free[p]
    BY <2>1 DEF RunsOK, ActiveRuns
  <2>2. ASSUME NEW r \in Requests, NEW reply, Answer(r, reply)
        PROVE  \A p \in Requests : free'[p] => free[p]
    BY <2>2 DEF Answer, ProjectInv, RecordsOK
  <2>3. ASSUME NEW r \in Requests, LookForRuns(r) PROVE RunsOK'
    <3>1. UNCHANGED run /\ ActiveRuns = {}
      BY <2>3 DEF LookForRuns, rows
    <3> QED
      BY <3>1 DEF RunsOK, ActiveRuns
  <2>4. ASSUME NEW r \in Requests, RequestStep(r) \/ DeadlockDetected(r) PROVE RunsOK'
    <3>1. CASE \/ CreateDraft(r) \/ GetDraft(r) \/ UpdateDraft(r) \/ ConfirmContract(r)
               \/ ConfirmReplay(r) \/ DraftRefused(r) \/ ReplayRun(r) \/ RunConflict(r)
               \/ DeadlockDetected(r)
      <4>1. UNCHANGED run /\ \E reply : Answer(r, reply)
        BY <3>1 DEF CreateDraft, GetDraft, UpdateDraft, ConfirmContract, ConfirmReplay,
          DraftRefused, ReplayRun, RunConflict, DeadlockDetected, rows
      <4> QED
        BY <2>1, <2>2, <4>1
    <3>2. CASE TakeLock(r) \/ ReadVersion(r)
      BY <2>1, <3>2 DEF TakeLock, ReadVersion, rows
    <3> QED
      BY <2>3, <2>4, <3>1, <3>2, AdmitKeepsRuns DEF RequestStep
  <2>5. ASSUME NEW k \in RunKeys, RunEnds(k) PROVE RunsOK'
    BY <2>5 DEF RunEnds, RunsOK, ActiveRuns, reads
  <2>6. CASE UNCHANGED <<run, free>>
    BY <2>1, <2>6
  <2> QED
    BY <2>4, <2>5, <2>6 DEF Next, Begin, DraftFallsDue, vars, rows, reads
<1>3. RunsOK => OneActiveRun
  <2> SUFFICES ASSUME RunsOK PROVE Cardinality(ActiveRuns) <= 1
    BY DEF OneActiveRun
  <2>1. CASE ActiveRuns = {}
    BY <2>1, FS_EmptySet
  <2>2. ASSUME NEW k \in ActiveRuns PROVE Cardinality(ActiveRuns) <= 1
    <3>1. ActiveRuns = {k}
      BY <2>2 DEF RunsOK
    <3> QED
      BY <3>1, FS_Singleton
  <2> QED
    BY <2>1, <2>2
<1> QED
  BY <1>1, <1>2, <1>3, InitEstablishes, NextKeeps, PTL DEF Spec

-----------------------------------------------------------------------------
(* The numbers are counted over rows that only grow: a key that is used    *)
(* keeps its Contract, one that is not has number 0.  What a confirmation  *)
(* has computed is the next number until it commits.                       *)
NumbersOK ==
  /\ \A c \in ContractKeys \ Confirmed : contract[c].version = 0
  /\ ContractsAreNumbered
  /\ \A r \in Requests : number[r] # 0 => number[r] = NextVersion

(* The next number follows the numbers 1..n that are there.                *)
LEMMA NextNumber ==
  ASSUME NumbersOK
  PROVE  NextVersion = Cardinality(Confirmed) + 1 /\ NextVersion \in Nat
<1> DEFINE n == Cardinality(Confirmed)
           taken == {0} \cup {contract[c].version : c \in ContractKeys}
<1>1. n \in Nat
  <2>1. IsFiniteSet(Confirmed)
    BY ProjectAssumption, FS_Subset DEF Confirmed
  <2> QED
    BY <2>1, FS_CardinalityType
<1>2. {contract[c].version : c \in Confirmed} = 1..n
  BY DEF NumbersOK, ContractsAreNumbered
<1>3. taken = 0..n
  <2>1. \A c \in Confirmed : contract[c].version \in 1..n
    BY <1>2
  <2>2. \A c \in ContractKeys : contract[c].version \in 0..n
    BY <1>1, <2>1 DEF NumbersOK
  <2>3. ASSUME NEW m \in 1..n PROVE m \in taken
    <3>1. PICK c \in Confirmed : contract[c].version = m
      BY <1>2
    <3>2. c \in ContractKeys
      BY DEF Confirmed
    <3> QED
      BY <3>1, <3>2
  <2> QED
    BY <1>1, <2>2, <2>3
<1>4. Max(taken) = n
  <2> HIDE DEF n, taken
  <2>1. n \in taken /\ \A y \in taken : n >= y
    BY <1>1, <1>3
  <2>2. \A x \in taken : (\A y \in taken : x >= y) => x = n
    BY <1>1, <1>3
  <2> QED
    BY <2>1, <2>2 DEF Max
<1> QED
  BY <1>1, <1>4 DEF NextVersion

(* A confirmation gives its unused key the next number.                    *)
LEMMA ConfirmNumbers ==
  ASSUME ProjectInv, NumbersOK, NEW r \in Requests, ConfirmContract(r)
  PROVE  NumbersOK'
<1> DEFINE k == request[r].contract
           n == Cardinality(Confirmed)
<1>1. /\ request[r].op = "confirm" /\ held[r] = 2
      /\ request[r].draft \in Drafts /\ k \in ContractKeys /\ contract[k].draft = None
  BY DEF ConfirmContract, Locked, LockOrder, ProjectInv, RequestsOK, ReadsOK, Idle
<1>2. /\ contract'[k].draft = request[r].draft /\ contract'[k].version = number[r]
      /\ number[r] = NextVersion
      /\ \A c \in ContractKeys \ {k} : contract'[c] = contract[c]
  BY <1>1 DEF ConfirmContract, ProjectInv, RecordsOK, NumbersOK
<1>3. Confirmed' = Confirmed \cup {k} /\ k \notin Confirmed
  <2>1. request[r].draft # None
    BY <1>1, ProjectAssumption
  <2> QED
    BY <1>1, <1>2, <2>1 DEF Confirmed
<1>4. IsFiniteSet(Confirmed) /\ n \in Nat
  BY ProjectAssumption, FS_Subset, FS_CardinalityType DEF Confirmed
<1>5. Cardinality(Confirmed)' = n + 1
  BY <1>3, <1>4, FS_AddElement
<1>6. contract'[k].version = n + 1
  BY <1>2, NextNumber
<1>7. {contract[c].version : c \in Confirmed} = 1..n
  BY DEF NumbersOK, ContractsAreNumbered
<1>8. {contract'[c].version : c \in Confirmed \cup {k}} = 1..(n + 1)
  <2>1. \A c \in Confirmed : contract'[c].version = contract[c].version
    BY <1>2, <1>3 DEF Confirmed
  <2>2. {contract'[c].version : c \in Confirmed \cup {k}}
          = {contract[c].version : c \in Confirmed} \cup {n + 1}
    BY <1>6, <2>1
  <2> HIDE DEF n
  <2>3. 1..(n + 1) = 1..n \cup {n + 1}
    BY <1>4
  <2> QED
    BY <1>7, <2>2, <2>3
<1>9. ContractsAreNumbered'
  BY <1>3, <1>5, <1>8 DEF ContractsAreNumbered
<1>10. \A c \in ContractKeys \ Confirmed' : contract'[c].version = 0
  BY <1>2, <1>3 DEF NumbersOK
<1>11. \A p \in Requests : number'[p] = 0
  <2>1. \A p \in Requests : number[p] # 0 => holder[Project] = p
    BY DEF ProjectInv, ReadsOK
  <2>2. number[r] # 0
    BY DEF ConfirmContract
  <2> QED
    BY <2>1, <2>2 DEF ConfirmContract, Answer, ProjectInv, RecordsOK
<1> QED
  BY <1>9, <1>10, <1>11 DEF NumbersOK

(* Initially there is nothing to number.                                   *)
LEMMA InitNumbers == Init => NumbersOK
<1> SUFFICES ASSUME Init PROVE NumbersOK
  OBVIOUS
<1>1. Confirmed = {} /\ \A c \in ContractKeys : contract[c].version = 0
  BY DEF Init, Confirmed
<1>2. Cardinality(Confirmed) = 0
  BY <1>1, FS_EmptySet
<1>3. \A r \in Requests : number[r] = 0
  BY DEF Init
<1> QED
  BY <1>1, <1>2, <1>3 DEF NumbersOK, ContractsAreNumbered

(* No other step writes a Contract.                                        *)
LEMMA NextNumbers ==
  ASSUME ProjectInv, NumbersOK, [Next]_vars
  PROVE  NumbersOK'
<1>1. CASE UNCHANGED contract /\ \A p \in Requests : number'[p] \in {0, number[p], NextVersion}
  BY <1>1 DEF NumbersOK, ContractsAreNumbered, Confirmed, NextVersion
<1>2. ASSUME NEW r \in Requests, RequestStep(r) \/ DeadlockDetected(r) PROVE NumbersOK'
  <2>1. CASE \/ CreateDraft(r) \/ GetDraft(r) \/ UpdateDraft(r) \/ AdmitRun(r)
             \/ ConfirmReplay(r) \/ DraftRefused(r) \/ ReplayRun(r) \/ RunConflict(r)
             \/ DeadlockDetected(r)
    <3>1. UNCHANGED contract /\ \E reply : Answer(r, reply)
      BY <2>1 DEF CreateDraft, GetDraft, UpdateDraft, AdmitRun, ConfirmReplay,
        DraftRefused, ReplayRun, RunConflict, DeadlockDetected, rows
    <3>2. \A p \in Requests : number'[p] \in {0, number[p]}
      BY <3>1 DEF Answer, ProjectInv, RecordsOK
    <3> QED
      BY <1>1, <3>1, <3>2
  <2>2. CASE TakeLock(r) \/ LookForRuns(r)
    BY <1>1, <2>2 DEF TakeLock, LookForRuns, rows
  <2>3. CASE ReadVersion(r)
    <3>1. UNCHANGED contract /\ \A p \in Requests : number'[p] \in {number[p], NextVersion}
      BY <2>3 DEF ReadVersion, rows, ProjectInv, RecordsOK
    <3> QED
      BY <1>1, <3>1
  <2> QED
    BY <1>2, <2>1, <2>2, <2>3, ConfirmNumbers DEF RequestStep
<1>3. CASE UNCHANGED <<contract, number>>
  BY <1>1, <1>3
<1> QED
  BY <1>2, <1>3 DEF Next, Begin, RunEnds, DraftFallsDue, vars, rows, reads

(* The Contracts of a project are numbered 1 to n in the order of their    *)
(* confirmations, whatever drafts are confirmed together.                  *)
THEOREM ContractNumbersHaveNoGap == Spec => []ContractsAreNumbered
<1>1. ProjectInv /\ NumbersOK /\ [Next]_vars => NumbersOK'
  BY NextNumbers
<1> QED
  BY <1>1, InitNumbers, InitEstablishes, NextKeeps, PTL DEF Spec, NumbersOK

-----------------------------------------------------------------------------
(* What the type invariant needs of the requests: an update asks for a     *)
(* version below the bound, an admission for a Contract.                   *)
AsksOK ==
  \A r \in Requests :
    /\ request[r].op = "update" => request[r].seen \in 1..(MaxVersion - 1)
    /\ request[r].op = "run" => request[r].contract \in ContractKeys

LEMMA InitTyped == Init => TypeOK /\ AsksOK
  BY ProjectAssumption DEF Init, TypeOK, AsksOK, Idle

(* What the transactions do not write is unchanged by their answer.        *)
LEMMA AnswerTyped ==
  ASSUME ProjectInv, TypeOK, AsksOK, NEW r \in Requests,
         NEW reply \in {"ok", "refused", "idempotency_conflict", "error"}, Answer(r, reply)
  PROVE  /\ AsksOK'
         /\ holder' \in [Drafts \cup {Project} -> Requests \cup {None}]
         /\ held' \in [Requests -> 0..2] /\ editable' \in [Requests -> BOOLEAN]
         /\ number' \in [Requests -> Nat] /\ free' \in [Requests -> BOOLEAN]
         /\ answer' \in [Requests -> {"none", "ok", "refused", "idempotency_conflict", "error"}]
<1>1. answer' \in [Requests -> {"none", "ok", "refused", "idempotency_conflict", "error"}]
  BY DEF Answer, TypeOK
<1>2. AsksOK'
  BY DEF Answer, AsksOK, Idle, ProjectInv, RecordsOK
<1>3. number' \in [Requests -> Nat]
  BY DEF Answer, TypeOK
<1> QED
  BY <1>1, <1>2, <1>3, AnswerKeepsLocks DEF ProjectInv

(* The four transactions that write drafts or Contracts.                   *)
LEMMA WritesTyped ==
  ASSUME ProjectInv, NumbersOK, TypeOK, AsksOK, NEW r \in Requests,
         CreateDraft(r) \/ GetDraft(r) \/ UpdateDraft(r) \/ ConfirmContract(r)
  PROVE  TypeOK' /\ AsksOK'
<1> DEFINE d == request[r].draft
           Rows == [status : {"none", "draft", "confirmed", "expired"}, version : 0..MaxVersion]
<1>0. /\ draft \in [Drafts -> Rows] /\ MaxVersion \in Nat \ {0}
      /\ due \subseteq Drafts /\ active \in Drafts \cup {None}
  BY ProjectAssumption DEF TypeOK
<1>1. Answer(r, "ok") /\ run' = run /\ due' = due
  BY DEF CreateDraft, GetDraft, UpdateDraft, ConfirmContract
<1>2. d \in Drafts
  BY DEF CreateDraft, GetDraft, UpdateDraft, ConfirmContract, Locked, ProjectInv, RequestsOK, Idle
<1>3. draft' \in [Drafts -> Rows] /\ active' \in Drafts \cup {None}
  <2>1. CASE CreateDraft(r)
    BY <1>0, <1>2, <2>1 DEF CreateDraft
  <2>2. CASE GetDraft(r)
    BY <1>0, <1>2, <2>2 DEF GetDraft
  <2>3. CASE UpdateDraft(r)
    <3>1. request[r].op = "update" /\ held[r] = 2
      BY <2>3 DEF UpdateDraft, Locked, LockOrder
    <3>2. draft[d].version \in 1..(MaxVersion - 1)
      BY <3>1 DEF ProjectInv, ReadsOK, AsksOK
    <3>3. draft[d].version + 1 \in 0..MaxVersion
      BY <1>0, <3>2
    <3> QED
      BY <1>0, <1>2, <2>3, <3>3 DEF UpdateDraft
  <2>4. CASE ConfirmContract(r)
    BY <1>0, <1>2, <2>4 DEF ConfirmContract
  <2> QED
    BY <2>1, <2>2, <2>3, <2>4
<1>4. contract' \in [ContractKeys -> [draft : Drafts \cup {None}, content : 0..MaxVersion,
                                     version : Nat]]
  <2>1. CASE ConfirmContract(r)
    <3>1. number[r] \in Nat
      BY DEF TypeOK
    <3>2. draft[d].version \in 0..MaxVersion
      BY <1>0, <1>2
    <3> HIDE DEF d
    <3>3. contract' = [contract EXCEPT ![request[r].contract] =
            [draft |-> d, content |-> draft[d].version, version |-> number[r]]]
      BY <2>1 DEF ConfirmContract, d
    <3> QED
      BY <1>2, <3>1, <3>2, <3>3 DEF TypeOK
  <2>2. CASE contract' = contract
    BY <2>2 DEF TypeOK
  <2> QED
    BY <2>1, <2>2 DEF CreateDraft, GetDraft, UpdateDraft
<1> QED
  BY <1>0, <1>1, <1>3, <1>4, AnswerTyped DEF TypeOK

(* The transactions that write neither, and those that admit a run.        *)
LEMMA RepliesTyped ==
  ASSUME ProjectInv, TypeOK, AsksOK, NEW r \in Requests,
         \/ ConfirmReplay(r) \/ DraftRefused(r) \/ AdmitRun(r) \/ ReplayRun(r)
         \/ RunConflict(r) \/ DeadlockDetected(r)
  PROVE  TypeOK' /\ AsksOK'
<1>1. PICK reply \in {"ok", "refused", "idempotency_conflict", "error"} : Answer(r, reply)
  BY DEF ConfirmReplay, DraftRefused, AdmitRun, ReplayRun, RunConflict, DeadlockDetected
<1>2. UNCHANGED <<draft, due, active, contract>>
  BY DEF ConfirmReplay, DraftRefused, AdmitRun, ReplayRun, RunConflict, DeadlockDetected, rows
<1>3. run' \in [RunKeys -> [status : {"none", "active", "ended"},
                           contract : ContractKeys \cup {None}]]
  <2>1. CASE AdmitRun(r)
    <3>1. request[r].contract \in ContractKeys
      BY <2>1 DEF AdmitRun, Locked, AsksOK
    <3> QED
      BY <2>1, <3>1 DEF AdmitRun, TypeOK
  <2>2. CASE run' = run
    BY <2>2 DEF TypeOK
  <2> QED
    BY <2>1, <2>2 DEF ConfirmReplay, DraftRefused, ReplayRun, RunConflict, DeadlockDetected, rows
<1> QED
  BY <1>1, <1>2, <1>3, AnswerTyped DEF TypeOK

LEMMA NextTyped ==
  ASSUME ProjectInv, NumbersOK, TypeOK, AsksOK, [Next]_vars
  PROVE  TypeOK' /\ AsksOK'
<1>1. ASSUME NEW r \in Requests, RequestStep(r) \/ DeadlockDetected(r)
      PROVE  TypeOK' /\ AsksOK'
  <2>1. CASE TakeLock(r)
    <3>1. ProjectInv'
      BY <2>1, TakeLockKeeps
    <3>2. UNCHANGED <<rows, request, number, free, answer>>
      BY <2>1 DEF TakeLock
    <3>3. /\ holder' \in [Drafts \cup {Project} -> Requests \cup {None}]
          /\ held' \in [Requests -> 0..2] /\ editable' \in [Requests -> BOOLEAN]
      BY <3>1 DEF ProjectInv, RecordsOK
    <3> QED
      BY <3>2, <3>3 DEF TypeOK, AsksOK, rows
  <2>2. CASE ReadVersion(r) \/ LookForRuns(r)
    <3>1. UNCHANGED <<rows, holder, request, held, editable, answer>>
      BY <2>2 DEF ReadVersion, LookForRuns
    <3>2. number' \in [Requests -> Nat]
      BY <2>2, NextNumber DEF ReadVersion, LookForRuns, TypeOK
    <3>3. free' \in [Requests -> BOOLEAN]
      BY <2>2 DEF ReadVersion, LookForRuns, TypeOK
    <3> QED
      BY <3>1, <3>2, <3>3 DEF TypeOK, AsksOK, rows
  <2> QED
    BY <1>1, <2>1, <2>2, WritesTyped, RepliesTyped DEF RequestStep
<1>2. ASSUME NEW r \in Requests, NEW q \in Operations, Begin(r, q) PROVE TypeOK' /\ AsksOK'
  <2>1. /\ q.op = "update" => q.seen \in 1..(MaxVersion - 1)
        /\ q.op = "run" => q.contract \in ContractKeys
    BY DEF Operations, Ask
  <2>2. AsksOK'
    BY <1>2, <2>1 DEF Begin, AsksOK, ProjectInv, RecordsOK
  <2> QED
    BY <1>2, <2>2 DEF Begin, TypeOK, rows, reads
<1>3. ASSUME NEW k \in RunKeys, RunEnds(k) PROVE TypeOK' /\ AsksOK'
  BY <1>3 DEF RunEnds, TypeOK, AsksOK, reads
<1>4. ASSUME NEW d \in Drafts, DraftFallsDue(d) PROVE TypeOK' /\ AsksOK'
  BY <1>4 DEF DraftFallsDue, TypeOK, AsksOK, reads
<1>5. CASE UNCHANGED vars
  BY <1>5 DEF vars, rows, reads, TypeOK, AsksOK
<1> QED
  BY <1>1, <1>2, <1>3, <1>4, <1>5 DEF Next

TypedInv == ProjectInv /\ NumbersOK /\ TypeOK /\ AsksOK

LEMMA TypedInvHolds == (Init => TypedInv) /\ (TypedInv /\ [Next]_vars => TypedInv')
  BY InitEstablishes, InitTyped, InitNumbers, NextKeeps, NextNumbers, NextTyped DEF TypedInv

(* Every row, lock and request is in one of its states: no edit passes the *)
(* version its author could name, no run lacks its Contract.               *)
THEOREM ProjectTypes == Spec => []TypeOK
<1>1. TypedInv => TypeOK
  BY DEF TypedInv
<1> QED
  BY <1>1, TypedInvHolds, PTL DEF Spec

-----------------------------------------------------------------------------
(* Whoever holds a row has it among the rows it has locked.                *)
HoldersOK ==
  \A row \in Drafts \cup {Project}, r \in Requests : holder[row] = r =>
    request[r] # Idle /\ \E i \in 1..held[r] : LockOrder(request[r])[i] = row

LEMMA HoldersKept ==
  ASSUME ProjectInv, HoldersOK, [Next]_vars PROVE HoldersOK'
<1>1. CASE UNCHANGED <<holder, request, held>>
  BY <1>1 DEF HoldersOK
<1>2. ASSUME NEW r \in Requests, TakeLock(r) PROVE HoldersOK'
  <2> DEFINE taken == NextRow(r)
  <2>1. /\ request' = request /\ request[r] # Idle
        /\ held' = [held EXCEPT ![r] = @ + 1] /\ held[r] \in 0..2
        /\ taken = LockOrder(request[r])[held[r] + 1]
        /\ \A row \in (Drafts \cup {Project}) \ {taken} : holder'[row] = holder[row]
        /\ taken \in Drafts \cup {Project} => holder'[taken] = r
    BY <1>2 DEF TakeLock, GoesOn, NextRow, ProjectInv, RecordsOK
  <2> SUFFICES ASSUME NEW row \in Drafts \cup {Project}, NEW p \in Requests, holder'[row] = p
               PROVE  request[p] # Idle /\ \E i \in 1..held'[p] : LockOrder(request[p])[i] = row
    BY <2>1 DEF HoldersOK
  <2>2. held'[r] = held[r] + 1 /\ \A q \in Requests \ {r} : held'[q] = held[q]
    BY <2>1 DEF ProjectInv, RecordsOK
  <2>3. CASE row = taken
    <3>1. p = r /\ held'[r] \in 1..held'[r] /\ LockOrder(request[r])[held'[r]] = row
      BY <2>1, <2>2, <2>3
    <3> QED
      BY <2>1, <3>1
  <2>4. CASE row # taken
    <3>1. holder[row] = p
      BY <2>1, <2>4
    <3>2. request[p] # Idle
      BY <3>1 DEF HoldersOK
    <3>3. PICK i \in 1..held[p] : LockOrder(request[p])[i] = row
      BY <3>1 DEF HoldersOK
    <3>4. i \in 1..held'[p]
      BY <2>1, <2>2, <3>3
    <3> QED
      BY <3>2, <3>3, <3>4
  <2> QED
    BY <2>3, <2>4
<1>3. ASSUME NEW r \in Requests, NEW reply, Answer(r, reply) PROVE HoldersOK'
  <2> SUFFICES ASSUME NEW row \in Drafts \cup {Project}, NEW p \in Requests, holder'[row] = p
               PROVE  request'[p] # Idle /\ \E i \in 1..held'[p] : LockOrder(request'[p])[i] = row
    BY DEF HoldersOK
  <2>1. p # r /\ holder[row] = p
    BY <1>3, ProjectAssumption DEF Answer, ProjectInv, RecordsOK
  <2>2. request'[p] = request[p] /\ held'[p] = held[p]
    BY <1>3, <2>1 DEF Answer, ProjectInv, RecordsOK
  <2> QED
    BY <2>1, <2>2 DEF HoldersOK
<1>4. ASSUME NEW r \in Requests, NEW q \in Operations, Begin(r, q) PROVE HoldersOK'
  <2> SUFFICES ASSUME NEW row \in Drafts \cup {Project}, NEW p \in Requests, holder'[row] = p
               PROVE  request'[p] # Idle /\ \E i \in 1..held'[p] : LockOrder(request'[p])[i] = row
    BY DEF HoldersOK
  <2>1. holder[row] = p /\ held' = held /\ request[r] = Idle
    BY <1>4 DEF Begin
  <2>2. p # r
    BY <2>1 DEF HoldersOK
  <2>3. request'[p] = request[p]
    BY <1>4, <2>2 DEF Begin, ProjectInv, RecordsOK
  <2> QED
    BY <2>1, <2>3 DEF HoldersOK
<1>5. ASSUME NEW r \in Requests, RequestStep(r) \/ DeadlockDetected(r), ~ TakeLock(r)
      PROVE  UNCHANGED <<holder, request, held>> \/ \E reply : Answer(r, reply)
  BY <1>5 DEF RequestStep, CreateDraft, GetDraft, UpdateDraft, ConfirmContract, ConfirmReplay,
    DraftRefused, AdmitRun, ReplayRun, RunConflict, DeadlockDetected, ReadVersion, LookForRuns
<1> QED
  BY <1>1, <1>2, <1>3, <1>4, <1>5 DEF Next, RunEnds, DraftFallsDue, vars

(* Two requests that wait for each other are an edit and a confirmation    *)
(* that meet on one draft.                                                 *)
LEMMA CyclesAreMixed ==
  ASSUME ProjectInv, HoldersOK, NEW r \in Requests, NEW other \in Requests,
         GoesOn(r), GoesOn(other), holder[NextRow(r)] = other, holder[NextRow(other)] = r
  PROVE  /\ {request[r].op, request[other].op} = {"update", "confirm"}
         /\ request[r].draft = request[other].draft
<1>1. ASSUME NEW p \in Requests, GoesOn(p)
      PROVE  /\ NextRow(p) \in Drafts \cup {Project}
             /\ \/ held[p] = 0
                \/ /\ request[p].op \in {"update", "confirm"} /\ request[p].draft \in Drafts
                   /\ held[p] = 1 /\ NextRow(p) = LockOrder(request[p])[2]
  <2>1. request[p] # Idle /\ held[p] < Len(LockOrder(request[p])) /\ held[p] \in 0..2
    BY <1>1 DEF GoesOn, ProjectInv, RecordsOK
  <2>2. CASE request[p].op \in {"create", "run"}
    <3>1. LockOrder(request[p]) = <<Project>>
      BY <2>2 DEF LockOrder
    <3> QED
      BY <2>1, <3>1 DEF NextRow
  <2>3. CASE request[p].op = "get"
    <3>1. LockOrder(request[p]) = <<request[p].draft>> /\ request[p].draft \in Drafts
      BY <2>1, <2>3 DEF LockOrder, ProjectInv, RequestsOK
    <3> QED
      BY <2>1, <3>1 DEF NextRow
  <2>4. CASE request[p].op \in {"update", "confirm"}
    <3>1. /\ request[p].draft \in Drafts
          /\ \/ LockOrder(request[p]) = <<request[p].draft, Project>>
             \/ LockOrder(request[p]) = <<Project, request[p].draft>>
      BY <2>1, <2>4 DEF LockOrder, ProjectInv, RequestsOK
    <3>2. held[p] \in {0, 1}
      BY <2>1, <3>1
    <3> QED
      BY <2>4, <3>1, <3>2 DEF NextRow
  <2> QED
    BY <2>1, <2>2, <2>3, <2>4 DEF ProjectInv, RequestsOK
<1>2. ASSUME NEW p \in Requests, NEW q \in Requests, GoesOn(p), GoesOn(q), holder[NextRow(q)] = p
      PROVE  /\ request[p].op \in {"update", "confirm"} /\ request[p].draft \in Drafts
             /\ NextRow(p) = LockOrder(request[p])[2] /\ NextRow(q) = LockOrder(request[p])[1]
  <2>1. NextRow(q) \in Drafts \cup {Project}
    BY <1>1, <1>2
  <2>2. PICK i \in 1..held[p] : LockOrder(request[p])[i] = NextRow(q)
    BY <1>2, <2>1 DEF HoldersOK
  <2>3. held[p] # 0
    BY <2>2
  <2>4. held[p] = 1
    BY <1>1, <1>2, <2>3
  <2> QED
    BY <1>1, <1>2, <2>2, <2>4
<1>3. /\ request[r].op \in {"update", "confirm"} /\ request[r].draft \in Drafts
      /\ NextRow(r) = LockOrder(request[r])[2] /\ NextRow(other) = LockOrder(request[r])[1]
  BY <1>2
<1>4. /\ request[other].op \in {"update", "confirm"} /\ request[other].draft \in Drafts
      /\ NextRow(other) = LockOrder(request[other])[2]
      /\ NextRow(r) = LockOrder(request[other])[1]
  BY <1>2
<1>5. ASSUME NEW p \in {r, other}
      PROVE  /\ request[p].op = "update" => /\ LockOrder(request[p])[1] = request[p].draft
                                           /\ LockOrder(request[p])[2] = Project
             /\ request[p].op = "confirm" => /\ LockOrder(request[p])[1] = Project
                                            /\ LockOrder(request[p])[2] = request[p].draft
  BY DEF LockOrder
<1>6. request[r].draft # Project /\ request[other].draft # Project
  BY <1>3, <1>4, ProjectAssumption
<1>7. CASE request[r].op = "update"
  <2>1. NextRow(r) = Project /\ NextRow(other) = request[r].draft
    BY <1>3, <1>5, <1>7
  <2>2. request[other].op # "update"
    BY <1>4, <1>5, <1>6, <2>1
  <2>3. request[other].op = "confirm"
    BY <1>4, <2>2
  <2>4. NextRow(other) = request[other].draft
    BY <1>4, <1>5, <2>3
  <2> QED
    BY <1>7, <2>1, <2>3, <2>4
<1>8. CASE request[r].op = "confirm"
  <2>1. NextRow(r) = request[r].draft /\ NextRow(other) = Project
    BY <1>3, <1>5, <1>8
  <2>2. request[other].op # "confirm"
    BY <1>4, <1>5, <1>6, <2>1
  <2>3. request[other].op = "update"
    BY <1>4, <2>2
  <2>4. NextRow(r) = request[other].draft
    BY <1>4, <1>5, <2>3
  <2> QED
    BY <1>8, <2>1, <2>3, <2>4
<1> QED
  BY <1>3, <1>7, <1>8

(* However many requests there are, the detector never aborts a creation,  *)
(* a read or an admission, and an edit only for a confirmation of its own  *)
(* draft.                                                                  *)
THEOREM OnlyOnePairOfOrdersCollides == Spec => OnlyEditAndConfirmationCollide
<1>1. ASSUME TypedInv, HoldersOK, [Next]_vars, NEW r \in Requests,
             answer[r] # "error", answer'[r] = "error"
      PROVE  \E other \in Requests :
               /\ {request[r].op, request[other].op} = {"update", "confirm"}
               /\ request[r].draft = request[other].draft
  <2>1. ProjectInv /\ DOMAIN answer = Requests
    BY <1>1 DEF TypedInv, TypeOK
  <2>2. \A p \in Requests : \A reply : Answer(p, reply) /\ reply # "error" => answer'[r] # "error"
    BY <1>1, <2>1 DEF Answer
  <2>3. DeadlockDetected(r)
    <3>1. ASSUME NEW p \in Requests, RequestStep(p) PROVE FALSE
      <4>1. UNCHANGED answer \/ \E reply : reply # "error" /\ Answer(p, reply)
        BY <3>1 DEF RequestStep, TakeLock, CreateDraft, GetDraft, UpdateDraft, ReadVersion,
          ConfirmContract, ConfirmReplay, DraftRefused, LookForRuns, AdmitRun, ReplayRun, RunConflict
      <4> QED
        BY <1>1, <2>2, <4>1
    <3>2. ASSUME NEW p \in Requests, NEW q \in Operations, Begin(p, q) PROVE FALSE
      BY <1>1, <2>1, <3>2 DEF Begin
    <3>3. PICK p \in Requests : DeadlockDetected(p)
      BY <1>1, <3>1, <3>2 DEF Next, RunEnds, DraftFallsDue, vars
    <3>4. p = r
      BY <1>1, <2>1, <3>3 DEF DeadlockDetected, Answer
    <3> QED
      BY <3>3, <3>4
  <2>4. PICK other \in Requests : /\ GoesOn(r) /\ GoesOn(other)
                                  /\ holder[NextRow(r)] = other /\ holder[NextRow(other)] = r
    BY <2>3 DEF DeadlockDetected
  <2> QED
    BY <1>1, <2>1, <2>4, CyclesAreMixed
<1>2. TypedInv /\ HoldersOK /\ [Next]_vars =>
        [ \A r \in Requests : answer[r] # "error" /\ answer'[r] = "error" =>
            \E other \in Requests :
              /\ {request[r].op, request[other].op} = {"update", "confirm"}
              /\ request[r].draft = request[other].draft ]_vars
  BY <1>1
<1>3. Init => HoldersOK
  BY ProjectAssumption DEF Init, HoldersOK
<1>4. TypedInv /\ HoldersOK /\ [Next]_vars => HoldersOK'
  BY HoldersKept DEF TypedInv
<1> QED
  BY <1>2, <1>3, <1>4, TypedInvHolds, PTL DEF Spec, OnlyEditAndConfirmationCollide
====
