---- MODULE ResearchInputs ----
(***************************************************************************)
(* Ingestion of research inputs, and the bridge that turns a selected      *)
(* paper candidate into one.  Both reserve an Idempotency-Key with a lease *)
(* before any side effect, work outside the database (fetch, store the     *)
(* bytes), and complete the key together with their result.  A bridge      *)
(* request holds two reservations: its own key, and within it the key      *)
(* derived from the identity of the paper under which the input is         *)
(* ingested.                                                               *)
(***************************************************************************)
EXTENDS Integers, Sequences, FiniteSets

CONSTANTS
  Requests,  \* POSTs: each is sent again by its client when it fails
  Posts,     \* what a request may be
  Contents,  \* bytes a URL may serve, those of text and uploads among them
  None,
  MaxFaults  \* bound on failures, crashes and leases outrun by their holder

(* A POST goes to the bridge or directly to ingestion.  It carries a header *)
(* Idempotency-Key and a body, which stands for the identity of a paper or *)
(* of an input; a text or an upload carries its bytes, the others a URL.   *)
Post(bridged, key, asks, wants, bytes) ==
  [bridged |-> bridged, key |-> key, asks |-> asks, wants |-> wants, bytes |-> bytes]

Levels == {"bridge", "input"}
Places == {"idle", "look", "insert", "reread", "fetch", "store", "commit", "release",
           "persist", "failed", "done"}

ASSUME InputsAssumption ==
  /\ \A p \in Posts : p.bytes \in Contents \cup {None} /\ (p.bridged => p.bytes = None)
  /\ \A p, q \in Posts : p.bridged /\ q.bridged /\ p.asks = q.asks => p.wants = q.wants
  /\ None \notin Requests \cup Contents
  /\ MaxFaults \in Nat

VARIABLES
  post,      \* what each request is
  ledger,    \* the two idempotency tables, by level and key
  inputs,    \* research_inputs, in the order of their commit
  removed,   \* the inputs whose expires_at is set
  bindings,  \* paper_candidate_input_bindings, in the order of their commit
  blobs,     \* the content store
  pc, level, \* where a request is, and in which of the two services
  behind,    \* requests that read the clock before the lease they look at ran out
  body,      \* the bytes a request ingests
  got,       \* the input it was given
  faults

store == <<ledger, inputs, removed, bindings, blobs>>
frame == <<pc, level, behind, body, got>>
vars == <<post, store, frame, faults>>

(* Mutant: without the identity: the input of a bridge request keyed by its header.*)
InputKeyOfHeader(r) == post[r].key

(* A direct request is keyed by its header; the input of a bridge request  *)
(* by the identity of the paper, whatever header the request carries.      *)
InputKey(r) == IF post[r].bridged THEN post[r].wants ELSE post[r].key

Slot(r, l) == <<l, IF l = "bridge" THEN post[r].key ELSE InputKey(r)>>
RequestHash(r, l) == IF l = "bridge" THEN post[r].asks ELSE post[r].wants
Slots == Levels \X UNION {{p.key, p.wants} : p \in Posts}
Here(r) == Slot(r, level[r])
Row(r) == ledger[Here(r)]

NoRow == [status |-> "absent", hash |-> None, holder |-> None, live |-> FALSE, result |-> 0]
Reserved(r) == [status |-> "pending", hash |-> RequestHash(r, level[r]), holder |-> r,
                live |-> TRUE, result |-> 0]
(* Mutant: with a lease that completion forgets to clear.                  *)
CompletedUnderLease(r, x) ==
  [status |-> "completed", hash |-> RequestHash(r, level[r]), holder |-> None, live |-> TRUE,
   result |-> x]

Completed(r, x) == [status |-> "completed", hash |-> RequestHash(r, level[r]),
                    holder |-> None, live |-> FALSE, result |-> x]

(* The token the request carries is the row's: a row names the request     *)
(* whose present attempt carries its token.                                *)
Owns(r) == Row(r).holder = r

Working(r) == pc[r] \notin {"idle", "failed", "done"}

Init ==
  /\ post \in [Requests -> Posts]
  /\ ledger = [s \in Slots |-> NoRow]
  /\ inputs = <<>>
  /\ removed = {}
  /\ bindings = <<>>
  /\ blobs = {}
  /\ pc = [r \in Requests |-> "idle"]
  /\ level = [r \in Requests |-> IF post[r].bridged THEN "bridge" ELSE "input"]
  /\ behind = {}
  /\ body = [r \in Requests |-> None]
  /\ got = [r \in Requests |-> 0]
  /\ faults = 0

Fault == faults < MaxFaults /\ faults' = faults + 1
NoFault == UNCHANGED faults
Goto(r, p) == pc' = [pc EXCEPT ![r] = p]

(* An exception leaves the service the request is in: from ingestion it    *)
(* reaches the bridge, whose handler releases the bridge's reservation.    *)
Raise(r) ==
  IF post[r].bridged /\ level[r] = "input"
    THEN Goto(r, "release") /\ level' = [level EXCEPT ![r] = "bridge"]
    ELSE Goto(r, "failed") /\ UNCHANGED level

(* ingestion.create returns an input: to the bridge, or to the client.     *)
Return(r, i) ==
  /\ got' = [got EXCEPT ![r] = i]
  /\ IF post[r].bridged
       THEN Goto(r, "persist") /\ level' = [level EXCEPT ![r] = "bridge"]
       ELSE Goto(r, "done") /\ UNCHANGED level

----
(* The client sends its request, for the first time or again: nobody       *)
(* carries the tokens of the attempt before.                               *)
Send(r) ==
  /\ pc[r] \in {"idle", "failed"}
  /\ Goto(r, "look")
  /\ level' = [level EXCEPT ![r] = IF post[r].bridged THEN "bridge" ELSE "input"]
  /\ ledger' = [s \in Slots |-> IF ledger[s].holder = r THEN [ledger[s] EXCEPT !.holder = None]
                                                        ELSE ledger[s]]
  /\ behind' = behind \ {r}
  /\ body' = [body EXCEPT ![r] = None]
  /\ got' = [got EXCEPT ![r] = 0]
  /\ UNCHANGED <<post, inputs, removed, bindings, blobs, faults>>

(* The reservation was made: the bridge goes on to ingestion, ingestion to *)
(* its side effects.                                                       *)
Reserve(r) ==
  /\ ledger' = [ledger EXCEPT ![Here(r)] = Reserved(r)]
  /\ IF level[r] = "bridge"
       THEN Goto(r, "look") /\ level' = [level EXCEPT ![r] = "input"]
       ELSE Goto(r, IF post[r].bytes # None THEN "store" ELSE "fetch") /\ UNCHANGED level
  /\ body' = IF post[r].bytes # None THEN [body EXCEPT ![r] = post[r].bytes] ELSE body
  /\ UNCHANGED got

(* A completed key is answered with its result, unless the input was       *)
(* deleted since.                                                          *)
Replay(r) ==
  LET i == IF level[r] = "bridge" THEN bindings[Row(r).result].input ELSE Row(r).result IN
  /\ IF i \in removed
       THEN Raise(r) /\ UNCHANGED got
       ELSE IF level[r] = "bridge"
         THEN Goto(r, "done") /\ got' = [got EXCEPT ![r] = i] /\ UNCHANGED level
         ELSE Return(r, i)
  /\ UNCHANGED <<ledger, body>>

(* Mutant: with reservations that are never reclaimed.                     *)
NeverExpired(r) == FALSE

Expired(r) == ~Row(r).live /\ r \notin behind

(* Mutant: without the comparison of the request hash.                     *)
FromRowOfAnyHash(r) ==
  \/ Row(r).status = "completed" /\ Replay(r)
  \/ /\ Row(r).status = "pending" /\ ~Expired(r)
     /\ Raise(r)
     /\ UNCHANGED <<ledger, body, got>>
  \/ Row(r).status = "pending" /\ Expired(r) /\ Reserve(r)

(* What a row that exists means for the request that locks it.             *)
FromRow(r) ==
  \/ /\ Row(r).hash # RequestHash(r, level[r]) \* the key is another request's
     /\ Raise(r)
     /\ UNCHANGED <<ledger, body, got>>
  \/ /\ Row(r).hash = RequestHash(r, level[r])
     /\ Row(r).status = "completed"
     /\ Replay(r)
  \/ /\ Row(r).hash = RequestHash(r, level[r])
     /\ Row(r).status = "pending"
     /\ ~Expired(r)                            \* in progress
     /\ Raise(r)
     /\ UNCHANGED <<ledger, body, got>>
  \/ /\ Row(r).hash = RequestHash(r, level[r])
     /\ Row(r).status = "pending"
     /\ Expired(r)                             \* reclaimed with a fresh token
     /\ Reserve(r)

(* SELECT ... FOR UPDATE of the key's row.                                 *)
Look(r) ==
  /\ pc[r] = "look"
  /\ \/ Row(r).status # "absent" /\ FromRow(r)
     \/ /\ Row(r).status = "absent"
        /\ Goto(r, "insert")
        /\ UNCHANGED <<ledger, level, body, got>>
  /\ behind' = IF pc'[r] = "insert" THEN behind ELSE behind \ {r}
  /\ UNCHANGED <<post, inputs, removed, bindings, blobs, faults>>

(* The INSERT of a request that saw no row, which may meet one by now.     *)
Insert(r) ==
  /\ pc[r] = "insert"
  /\ \/ Row(r).status = "absent" /\ Reserve(r)
     \/ /\ Row(r).status # "absent"
        /\ Goto(r, "reread")
        /\ UNCHANGED <<ledger, level, body, got>>
  /\ behind' = IF pc'[r] = "reread" THEN behind ELSE behind \ {r}
  /\ UNCHANGED <<post, inputs, removed, bindings, blobs, faults>>

(* The winner's row decides, if the winner has not released it.            *)
Reread(r) ==
  /\ pc[r] = "reread"
  /\ \/ Row(r).status # "absent" /\ FromRow(r)
     \/ /\ Row(r).status = "absent"
        /\ Raise(r)
        /\ UNCHANGED <<ledger, body, got>>
  /\ behind' = behind \ {r}
  /\ UNCHANGED <<post, inputs, removed, bindings, blobs, faults>>

----
Fetch(r) ==
  /\ pc[r] = "fetch"
  /\ \/ /\ \E c \in Contents : body' = [body EXCEPT ![r] = c]
        /\ Goto(r, "store")
        /\ NoFault
     \/ /\ Fault
        /\ Goto(r, "release")
        /\ UNCHANGED body
  /\ UNCHANGED <<post, store, level, behind, got>>

(* Mutant: with bytes left to be stored after the commit.                  *)
StoreLazily(r) ==
  /\ pc[r] = "store"
  /\ \/ Goto(r, "commit") /\ UNCHANGED <<blobs, level, faults>>
     \/ Fault /\ post[r].bytes # None /\ Goto(r, "release") /\ UNCHANGED <<blobs, level>>
     \/ Fault /\ post[r].bytes = None /\ Raise(r) /\ UNCHANGED blobs
  /\ UNCHANGED <<post, ledger, inputs, removed, bindings, behind, body, got>>

(* Storing the bytes.  A failure releases the key of a text or an upload,  *)
(* not that of a URL: its store is outside the block that releases.        *)
Store(r) ==
  /\ pc[r] = "store"
  /\ \/ blobs' = blobs \cup {body[r]} /\ Goto(r, "commit") /\ NoFault /\ UNCHANGED level
     \/ Fault /\ post[r].bytes # None /\ Goto(r, "release") /\ UNCHANGED <<blobs, level>>
     \/ Fault /\ post[r].bytes = None /\ Raise(r) /\ UNCHANGED blobs
  /\ UNCHANGED <<post, ledger, inputs, removed, bindings, behind, body, got>>

(* The row a result may complete: still the request's own reservation.     *)
MayComplete(r) ==
  /\ Row(r).status = "pending"
  /\ Row(r).hash = RequestHash(r, level[r])
  /\ Owns(r)

(* One transaction inserts the input and completes its key.  When it does  *)
(* not commit, or its acknowledgement is lost, the handler releases.       *)
Commit(r) ==
  /\ pc[r] = "commit"
  /\ \/ /\ MayComplete(r)
        /\ inputs' = Append(inputs, [key |-> InputKey(r), hash |-> post[r].wants, content |-> body[r]])
        /\ ledger' = [ledger EXCEPT ![Here(r)] = Completed(r, Len(inputs'))]
        /\ \/ Return(r, Len(inputs')) /\ NoFault
           \/ Fault /\ Goto(r, "release") /\ UNCHANGED <<level, got>>
     \/ /\ (~MayComplete(r) /\ NoFault) \/ Fault
        /\ Goto(r, "release")
        /\ UNCHANGED <<ledger, inputs, level, got>>
  /\ body' = [body EXCEPT ![r] = None]
  /\ UNCHANGED <<post, removed, bindings, blobs, behind>>

MayRelease(r) == Row(r).status = "pending" /\ Owns(r)

(* The handler of an exception deletes the request's own pending row and   *)
(* raises again; it raises too when it fails.                              *)
Release(r) ==
  /\ pc[r] = "release"
  /\ \/ NoFault /\ ledger' = IF MayRelease(r) THEN [ledger EXCEPT ![Here(r)] = NoRow] ELSE ledger
     \/ Fault /\ UNCHANGED ledger
  /\ Raise(r)
  /\ UNCHANGED <<post, inputs, removed, bindings, blobs, behind, body, got>>

----
SameIdentity(r) == {b \in DOMAIN bindings : bindings[b].identity = post[r].wants}
SameKey(r) == {b \in DOMAIN bindings : bindings[b].key = post[r].key}

(* PaperCandidateInputRepository.persist: the INSERT does nothing when the *)
(* identity or the key already has a binding; the identity's binding is    *)
(* the answer if it is the same as the one to insert.                      *)
MayPersist(r) ==
  /\ MayComplete(r)
  /\ IF SameIdentity(r) = {} THEN SameKey(r) = {}
     ELSE \A b \in SameIdentity(r) : bindings[b].input = got[r]

(* A failure of persist leaves the reservation to its lease.  The answer   *)
(* reads the input again.                                                  *)
Persist(r) ==
  /\ pc[r] = "persist"
  /\ \/ /\ MayPersist(r)
        /\ bindings' = IF SameIdentity(r) # {} THEN bindings
                       ELSE Append(bindings, [key |-> post[r].key, identity |-> post[r].wants,
                                              input |-> got[r]])
        /\ ledger' = [ledger EXCEPT ![Here(r)] =
             Completed(r, CHOOSE b \in DOMAIN bindings' : bindings'[b].identity = post[r].wants)]
        /\ \/ Goto(r, IF got[r] \in removed THEN "failed" ELSE "done") /\ NoFault
           \/ Fault /\ Goto(r, "failed")
     \/ /\ (~MayPersist(r) /\ NoFault) \/ Fault
        /\ Goto(r, "failed")
        /\ UNCHANGED <<ledger, bindings>>
  /\ UNCHANGED <<post, inputs, removed, blobs, level, behind, body, got>>

----
(* The process dies, or the task of the request is cancelled, which no     *)
(* handler of the services catches.                                        *)
Crash(r) ==
  /\ Working(r)
  /\ Fault
  /\ Goto(r, "failed")
  /\ UNCHANGED <<post, store, level, behind, body, got>>

(* A lease runs out.  Its holder takes seconds and the lease is of minutes: *)
(* outrunning a working holder counts as a fault.                          *)
HolderWorks(s) ==
  LET r == ledger[s].holder IN r # None /\ Working(r)

Expire(s) ==
  /\ ledger[s].live
  /\ ledger' = [ledger EXCEPT ![s].live = FALSE]
  /\ behind' = behind \cup {r \in Requests : pc[r] \in {"look", "insert", "reread"} /\ Here(r) = s}
  /\ IF HolderWorks(s) THEN Fault ELSE NoFault
  /\ UNCHANGED <<post, inputs, removed, bindings, blobs, pc, level, body, got>>

(* PersistentResearchInputStore.delete: the row stays, with expires_at.    *)
Delete(i) ==
  /\ removed' = removed \cup {i}
  /\ i \notin removed
  /\ UNCHANGED <<post, ledger, inputs, bindings, blobs, frame, faults>>

Step(r) ==
  \/ Look(r) \/ Insert(r) \/ Reread(r)
  \/ Fetch(r) \/ Store(r) \/ Commit(r) \/ Release(r) \/ Persist(r)

Next ==
  \/ \E r \in Requests : Send(r) \/ Step(r) \/ Crash(r)
  \/ \E s \in Slots : Expire(s)
  \/ \E i \in DOMAIN inputs : Delete(i)

(* The event loop runs every handler, a client sends a failed request      *)
(* again, and the clock passes the end of a lease nobody works under.      *)
Fairness ==
  /\ \A r \in Requests : WF_vars(Step(r)) /\ WF_vars(pc[r] = "failed" /\ Send(r))
  /\ \A s \in Slots : WF_vars(~HolderWorks(s) /\ Expire(s))

Spec == Init /\ [][Next]_vars /\ Fairness

----
TypeOK ==
  /\ \A s \in Slots :
       /\ ledger[s].status \in {"absent", "pending", "completed"}
       /\ ledger[s].holder \in Requests \cup {None}
       /\ ledger[s].live => ledger[s].status = "pending"
       /\ ledger[s].status = "completed" <=> ledger[s].result # 0
       /\ ledger[s].result \in 0..(IF s[1] = "bridge" THEN Len(bindings) ELSE Len(inputs))
  /\ post \in [Requests -> Posts]
  /\ removed \subseteq DOMAIN inputs
  /\ blobs \subseteq Contents
  /\ pc \in [Requests -> Places]
  /\ level \in [Requests -> Levels]
  /\ behind \subseteq Requests
  /\ body \in [Requests -> Contents \cup {None}]
  /\ got \in [Requests -> 0..Len(inputs)]
  /\ faults \in 0..MaxFaults

(* An Idempotency-Key has at most one input, whatever expires, is          *)
(* reclaimed, is retried or loses its acknowledgement; and the key of an   *)
(* input is completed with it (resolve, commit_ingestion, release).        *)
OneInputPerKey ==
  \A i \in DOMAIN inputs :
    ledger[<<"input", inputs[i].key>>].result = i

(* persist never refuses a request for the binding it finds: whichever     *)
(* keys two requests for one paper carry, ingestion gave both the same     *)
(* input, so _require_same_binding and the conflict by key cannot fire.    *)
BindingsNeverConflict ==
  \A r \in Requests : pc[r] = "persist" /\ MayComplete(r) => MayPersist(r)

(* A client is answered with the input of its own request: a key used by   *)
(* another request is a conflict and never another's result.               *)
AnswerIsItsOwn ==
  \A r \in Requests : pc[r] = "done" =>
    inputs[got[r]].key = InputKey(r) /\ inputs[got[r]].hash = post[r].wants

(* Bytes are in the content store before an input refers to them.          *)
ContentIsStored == \A i \in DOMAIN inputs : inputs[i].content \in blobs

(* A reservation under a lease is ended by its holder or by the clock: no  *)
(* other request reclaims, completes or releases it.                       *)
HolderKeepsReservation ==
  [][\A s \in Slots : ledger[s].live /\ ledger[s].holder # None /\ ledger'[s] # ledger[s] =>
       \/ ledger'[s] = [ledger[s] EXCEPT !.live = FALSE]
       \/ LET r == ledger[s].holder IN <<pc'[r], level'[r]>> # <<pc[r], level[r]>>]_vars

(* A request whose client retries is answered: no crash, failed store,     *)
(* lost acknowledgement or abandoned reservation keeps it out for good.    *)
(* Except for the conflict it is owed when its key is another request's,   *)
(* or when the input was deleted.                                          *)
OwedConflict(r) ==
  \/ removed # {}
  \/ \E l \in IF post[r].bridged THEN Levels ELSE {"input"} :
       LET s == Slot(r, l) IN ledger[s].status = "completed" /\ ledger[s].hash # RequestHash(r, l)

RequestIsAnswered ==
  \A r \in Requests : (pc[r] = "look") ~> (pc[r] = "done" \/ OwedConflict(r))
====
