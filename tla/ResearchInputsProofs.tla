---- MODULE ResearchInputsProofs ----
(***************************************************************************)
(* A key has at most one input, bytes are stored before an input refers to *)
(* them, nobody takes a leased reservation from its holder, a client is    *)
(* answered with its own input and bindings never conflict: for any number *)
(* of requests, keys and faults.                                           *)
(***************************************************************************)
EXTENDS ResearchInputs, TLAPS

Hashes == {None} \cup UNION {{p.asks, p.wants} : p \in Posts}
LedgerRow == [status: {"absent", "pending", "completed"}, hash: Hashes,
              holder: Requests \cup {None}, live: BOOLEAN, result: Nat]
InputRow == [key: UNION {{p.key, p.wants} : p \in Posts}, hash: Hashes, content: Contents]

(* The shape of what the argument looks at.                                *)
ShapeOK ==
  /\ post \in [Requests -> Posts]
  /\ ledger \in [Slots -> LedgerRow]
  /\ inputs \in Seq(InputRow)
  /\ level \in [Requests -> Levels]
  /\ pc \in [Requests -> Places]
  /\ body \in [Requests -> Contents \cup {None}]
  /\ \E S : bindings \in Seq(S)

(* Only a completed key has a result, and only a pending one a lease.      *)
RowsOK ==
  \A s \in Slots : /\ ledger[s].result # 0 => ledger[s].status = "completed"
                   /\ ledger[s].live => ledger[s].status = "pending"

(* Side effects belong to ingestion; what is about to be committed is      *)
(* stored.                                                                 *)
PlaceOf(r) ==
  /\ pc[r] \in {"fetch", "store", "commit"} => level[r] = "input"
  /\ pc[r] \in {"store", "commit"} => body[r] \in Contents
  /\ pc[r] = "commit" => body[r] \in blobs

PlaceOK == \A r \in Requests : PlaceOf(r)

InputsInv == ShapeOK /\ RowsOK /\ PlaceOK /\ OneInputPerKey /\ ContentIsStored

----
(* A request is always at a slot of one of the two tables.                 *)
LEMMA SlotTyped ==
  ASSUME NEW r \in Requests, NEW l \in Levels, post \in [Requests -> Posts]
  PROVE  /\ Slot(r, l) \in Slots
         /\ InputKey(r) \in UNION {{p.key, p.wants} : p \in Posts}
         /\ RequestHash(r, l) \in Hashes
         /\ post[r].wants \in Hashes
<1>1. post[r] \in Posts
  OBVIOUS
<1>2. post[r].key \in UNION {{p.key, p.wants} : p \in Posts}
  BY <1>1
<1>3. post[r].wants \in UNION {{p.key, p.wants} : p \in Posts}
  BY <1>1
<1>4. InputKey(r) \in UNION {{p.key, p.wants} : p \in Posts}
  BY <1>2, <1>3 DEF InputKey
<1>5. Slot(r, l) \in Slots
  BY <1>2, <1>4 DEF Slot, Slots
<1>6. post[r].asks \in Hashes /\ post[r].wants \in Hashes
  BY <1>1 DEF Hashes
<1> QED
  BY <1>4, <1>5, <1>6 DEF RequestHash

(* The rows that are written are ledger rows.                              *)
LEMMA RowTyped ==
  ASSUME NEW r \in Requests, ShapeOK, NEW x \in Nat
  PROVE  /\ Here(r) \in Slots
         /\ NoRow \in LedgerRow
         /\ Reserved(r) \in LedgerRow
         /\ Completed(r, x) \in LedgerRow
<1>1. level[r] \in Levels /\ post \in [Requests -> Posts]
  BY DEF ShapeOK
<1>2. Here(r) \in Slots /\ RequestHash(r, level[r]) \in Hashes
  BY <1>1, SlotTyped DEF Here
<1> QED
  BY <1>2 DEF NoRow, Reserved, Completed, LedgerRow, Hashes

(* Initially nothing is reserved and nothing ingested.                     *)
LEMMA InitEstablishes == Init => InputsInv
<1> SUFFICES ASSUME Init PROVE InputsInv
  OBVIOUS
<1>1. NoRow \in LedgerRow
  BY DEF NoRow, LedgerRow, Hashes
<1>2. ledger \in [Slots -> LedgerRow]
  BY <1>1 DEF Init
<1>3. level \in [Requests -> Levels]
  BY DEF Init, Levels
<1>4. pc \in [Requests -> Places]
  BY DEF Init, Places
<1>5. body \in [Requests -> Contents \cup {None}]
  BY DEF Init
<1>6. inputs \in Seq(InputRow) /\ DOMAIN inputs = {}
  BY DEF Init
<1>10. bindings \in Seq({})
  BY DEF Init
<1>7. ShapeOK
  BY <1>2, <1>3, <1>4, <1>5, <1>6, <1>10 DEF Init, ShapeOK
<1>8. RowsOK
  BY DEF Init, RowsOK, NoRow
<1>9. PlaceOK
  BY DEF Init, PlaceOK, PlaceOf
<1> QED
  BY <1>6, <1>7, <1>8, <1>9 DEF InputsInv, OneInputPerKey, ContentIsStored

(* A step that inserts no input and leaves the completed rows their result *)
(* keeps one input to a key, and a step that takes no bytes away keeps     *)
(* inputs stored.                                                          *)
LEMMA FactsKept ==
  ASSUME InputsInv, ShapeOK', inputs' = inputs, blobs \subseteq blobs',
         \A s \in Slots : ledger[s].result # 0 => ledger'[s].result = ledger[s].result
  PROVE  OneInputPerKey' /\ ContentIsStored'
<1> USE DEF InputsInv, ShapeOK
<1>1. ASSUME NEW i \in DOMAIN inputs
      PROVE  ledger'[<<"input", inputs[i].key>>].result = i /\ inputs[i].content \in blobs'
  <2>1. inputs[i] \in InputRow /\ i # 0
    OBVIOUS
  <2>2. <<"input", inputs[i].key>> \in Slots
    BY <2>1 DEF InputRow, Slots, Levels
  <2> QED
    BY <2>1, <2>2 DEF OneInputPerKey, ContentIsStored
<1> QED
  BY <1>1 DEF OneInputPerKey, ContentIsStored

(* What a step of one request does to the frames, of all requests.         *)
FrameStep(r) ==
  /\ pc' \in [Requests -> Places]
  /\ level' \in [Requests -> Levels]
  /\ body' \in [Requests -> Contents \cup {None}]
  /\ \A q \in Requests \ {r} : pc'[q] = pc[q] /\ level'[q] = level[q] /\ body'[q] = body[q]
  /\ PlaceOf(r)'

LEMMA PlaceKept ==
  ASSUME PlaceOK, blobs \subseteq blobs', NEW r \in Requests, FrameStep(r)
  PROVE  PlaceOK'
  BY DEF PlaceOK, PlaceOf, FrameStep

(* An exception puts the request at a handler or ends its attempt.         *)
LEMMA RaiseStep ==
  ASSUME ShapeOK, NEW r \in Requests, Raise(r), body' = body
  PROVE  /\ FrameStep(r)
         /\ pc[r] # "failed" => <<pc'[r], level'[r]>> # <<pc[r], level[r]>>
<1>1. CASE post[r].bridged /\ level[r] = "input"
  <2>1. pc' = [pc EXCEPT ![r] = "release"] /\ level' = [level EXCEPT ![r] = "bridge"]
    BY <1>1 DEF Raise, Goto
  <2>2. pc'[r] = "release" /\ level'[r] = "bridge"
    BY <2>1 DEF ShapeOK
  <2>3. pc' \in [Requests -> Places] /\ \A q \in Requests \ {r} : pc'[q] = pc[q]
    BY <2>1 DEF ShapeOK, Places
  <2>4. level' \in [Requests -> Levels] /\ \A q \in Requests \ {r} : level'[q] = level[q]
    BY <2>1 DEF ShapeOK, Levels
  <2> QED
    BY <1>1, <2>2, <2>3, <2>4 DEF ShapeOK, FrameStep, PlaceOf
<1>2. CASE ~(post[r].bridged /\ level[r] = "input")
  <2>1. pc' = [pc EXCEPT ![r] = "failed"] /\ level' = level
    BY <1>2 DEF Raise, Goto
  <2>2. pc'[r] = "failed"
    BY <2>1 DEF ShapeOK
  <2>3. pc' \in [Requests -> Places] /\ \A q \in Requests \ {r} : pc'[q] = pc[q]
    BY <2>1 DEF ShapeOK, Places
  <2> QED
    BY <2>1, <2>2, <2>3 DEF ShapeOK, FrameStep, PlaceOf
<1> QED
  BY <1>1, <1>2

(* An input that ingestion returns sends the request on.                   *)
LEMMA ReturnStep ==
  ASSUME ShapeOK, NEW r \in Requests, NEW i, Return(r, i),
         body' = body \/ body' = [body EXCEPT ![r] = None]
  PROVE  /\ FrameStep(r)
         /\ pc'[r] \in {"persist", "done"}
<1>1. body' \in [Requests -> Contents \cup {None}]
      /\ \A q \in Requests \ {r} : body'[q] = body[q]
  BY DEF ShapeOK
<1>2. CASE post[r].bridged
  <2>1. pc' = [pc EXCEPT ![r] = "persist"] /\ level' = [level EXCEPT ![r] = "bridge"]
    BY <1>2 DEF Return, Goto
  <2>2. pc'[r] = "persist"
    BY <2>1 DEF ShapeOK
  <2>3. pc' \in [Requests -> Places] /\ \A q \in Requests \ {r} : pc'[q] = pc[q]
    BY <2>1 DEF ShapeOK, Places
  <2>4. level' \in [Requests -> Levels] /\ \A q \in Requests \ {r} : level'[q] = level[q]
    BY <2>1 DEF ShapeOK, Levels
  <2> QED
    BY <1>1, <2>2, <2>3, <2>4 DEF ShapeOK, FrameStep, PlaceOf
<1>3. CASE ~post[r].bridged
  <2>1. pc' = [pc EXCEPT ![r] = "done"] /\ level' = level
    BY <1>3 DEF Return, Goto
  <2>2. pc'[r] = "done"
    BY <2>1 DEF ShapeOK
  <2>3. pc' \in [Requests -> Places] /\ \A q \in Requests \ {r} : pc'[q] = pc[q]
    BY <2>1 DEF ShapeOK, Places
  <2> QED
    BY <1>1, <2>1, <2>2, <2>3 DEF ShapeOK, FrameStep, PlaceOf
<1> QED
  BY <1>2, <1>3

(* Going elsewhere in the same service, to no side effect.                 *)
LEMMA GotoStep ==
  ASSUME ShapeOK, NEW r \in Requests, NEW p \in Places, Goto(r, p), level' = level,
         p \notin {"fetch", "store", "commit"},
         body' = body \/ body' = [body EXCEPT ![r] = None]
  PROVE  FrameStep(r) /\ pc'[r] = p
<1>1. body' \in [Requests -> Contents \cup {None}]
      /\ \A q \in Requests \ {r} : body'[q] = body[q]
  BY DEF ShapeOK
<1>2. pc' = [pc EXCEPT ![r] = p] /\ pc'[r] = p
  BY DEF ShapeOK, Goto
<1>3. pc' \in [Requests -> Places] /\ \A q \in Requests \ {r} : pc'[q] = pc[q]
  BY <1>2 DEF ShapeOK
<1> QED
  BY <1>1, <1>2, <1>3 DEF ShapeOK, FrameStep, PlaceOf

----
(* What HolderKeepsReservation says of one row in one step.                *)
HolderKeeps(s) ==
  ledger[s].live /\ ledger[s].holder # None /\ ledger'[s] # ledger[s] =>
    \/ ledger'[s] = [ledger[s] EXCEPT !.live = FALSE]
    \/ LET r == ledger[s].holder IN <<pc'[r], level'[r]>> # <<pc[r], level[r]>>

StepKeeps == InputsInv' /\ \A s \in Slots : HolderKeeps(s)

(* A step that writes no row and inserts no input.                         *)
LEMMA QuietKept ==
  ASSUME InputsInv, NEW r \in Requests, FrameStep(r), post' = post, ledger' = ledger,
         inputs' = inputs, bindings' = bindings, blobs \subseteq blobs'
  PROVE  StepKeeps
<1>1. ShapeOK'
  BY DEF InputsInv, ShapeOK, FrameStep
<1>2. RowsOK'
  BY DEF InputsInv, RowsOK
<1>3. PlaceOK'
  BY PlaceKept DEF InputsInv
<1>4. OneInputPerKey' /\ ContentIsStored'
  BY <1>1, FactsKept
<1>5. \A s \in Slots : HolderKeeps(s)
  BY DEF HolderKeeps
<1> QED
  BY <1>1, <1>2, <1>3, <1>4, <1>5 DEF StepKeeps, InputsInv

(* A step that writes the row the request looks at: one without a lease,   *)
(* or the request's own.                                                   *)
LEMMA RowWritten ==
  ASSUME InputsInv, NEW r \in Requests, FrameStep(r),
         NEW row \in LedgerRow, ledger' = [ledger EXCEPT ![Here(r)] = row],
         row.result # 0 => row.status = "completed",
         row.live => row.status = "pending",
         Row(r).live => Owns(r) /\ <<pc'[r], level'[r]>> # <<pc[r], level[r]>>
  PROVE  /\ Here(r) \in Slots /\ ledger'[Here(r)] = row
         /\ ledger' \in [Slots -> LedgerRow]
         /\ \A s \in Slots : s # Here(r) => ledger'[s] = ledger[s]
         /\ RowsOK'
         /\ \A s \in Slots : HolderKeeps(s)
<1>1. Here(r) \in Slots
  BY RowTyped DEF InputsInv
<1>2. ledger \in [Slots -> LedgerRow]
  BY DEF InputsInv, ShapeOK
<1>3. ledger' \in [Slots -> LedgerRow]
  BY <1>1, <1>2
<1>4. ledger'[Here(r)] = row /\ \A s \in Slots : s # Here(r) => ledger'[s] = ledger[s]
  BY <1>1, <1>2
<1>5. RowsOK'
  BY <1>4 DEF InputsInv, RowsOK
<1>6. \A s \in Slots : HolderKeeps(s)
  BY <1>4 DEF HolderKeeps, Row, Owns
<1> QED
  BY <1>1, <1>3, <1>4, <1>5, <1>6

(* And when no input is inserted with it.                                  *)
LEMMA RowWrittenAlone ==
  ASSUME InputsInv, NEW r \in Requests, FrameStep(r),
         NEW row \in LedgerRow, ledger' = [ledger EXCEPT ![Here(r)] = row],
         row.result # 0 => row.status = "completed",
         row.live => row.status = "pending",
         Row(r).live => Owns(r) /\ <<pc'[r], level'[r]>> # <<pc[r], level[r]>>,
         Row(r).status # "completed",
         post' = post, inputs' = inputs, (\E S : bindings' \in Seq(S)), blobs \subseteq blobs'
  PROVE  StepKeeps
<1>1. /\ ledger' \in [Slots -> LedgerRow]
      /\ \A s \in Slots : s # Here(r) => ledger'[s] = ledger[s]
      /\ Here(r) \in Slots
      /\ RowsOK' /\ \A s \in Slots : HolderKeeps(s)
  BY RowWritten
<1>2. ShapeOK'
  BY <1>1 DEF InputsInv, ShapeOK, FrameStep
<1>3. PlaceOK'
  BY PlaceKept DEF InputsInv
<1>4. \A s \in Slots : ledger[s].result # 0 => ledger'[s].result = ledger[s].result
  BY <1>1 DEF InputsInv, RowsOK, Row
<1>5. OneInputPerKey' /\ ContentIsStored'
  BY <1>2, <1>4, FactsKept
<1> QED
  BY <1>1, <1>2, <1>3, <1>5 DEF StepKeeps, InputsInv

----
(* What the reservation of a key leaves alone.                             *)
Rest == post' = post /\ inputs' = inputs /\ bindings' = bindings /\ blobs' = blobs

(* A key is reserved where there is no row, or one whose lease ran out.    *)
LEMMA ReserveKeeps ==
  ASSUME InputsInv, InputsAssumption, NEW r \in Requests, Reserve(r), ~Row(r).live,
         Row(r).status # "completed",
         Rest
  PROVE  StepKeeps
<1> USE DEF InputsInv
<1>1. Reserved(r) \in LedgerRow
  BY RowTyped
<1>2. ledger' = [ledger EXCEPT ![Here(r)] = Reserved(r)]
      /\ Reserved(r).result = 0 /\ Reserved(r).status = "pending"
  BY DEF Reserve, Reserved
<1>3. post[r] \in Posts /\ post[r].bytes \in Contents \cup {None}
  BY DEF ShapeOK, InputsAssumption
<1>4. body' \in [Requests -> Contents \cup {None}]
      /\ (post[r].bytes # None => body'[r] \in Contents)
      /\ \A q \in Requests \ {r} : body'[q] = body[q]
  BY <1>3 DEF Reserve, ShapeOK
<1>5. FrameStep(r)
  <2>1. CASE level[r] = "bridge"
    <3>1. pc' = [pc EXCEPT ![r] = "look"] /\ level' = [level EXCEPT ![r] = "input"]
      BY <2>1 DEF Reserve, Goto
    <3>2. pc' \in [Requests -> Places] /\ pc'[r] = "look" /\ \A q \in Requests \ {r} : pc'[q] = pc[q]
      BY <3>1 DEF ShapeOK, Places
    <3>3. level' \in [Requests -> Levels] /\ \A q \in Requests \ {r} : level'[q] = level[q]
      BY <3>1 DEF ShapeOK, Levels
    <3> QED
      BY <1>4, <3>2, <3>3 DEF FrameStep, PlaceOf
  <2>2. CASE level[r] # "bridge"
    <3> DEFINE p == IF post[r].bytes # None THEN "store" ELSE "fetch"
    <3>1. pc' = [pc EXCEPT ![r] = p] /\ level' = level /\ level[r] = "input"
      BY <2>2 DEF Reserve, Goto, ShapeOK, Levels
    <3>2. p \in Places /\ (p = "store" => post[r].bytes # None) /\ p # "commit"
      BY DEF Places
    <3> HIDE DEF p
    <3>3. pc' \in [Requests -> Places] /\ pc'[r] = p /\ \A q \in Requests \ {r} : pc'[q] = pc[q]
      BY <3>1, <3>2 DEF ShapeOK
    <3> QED
      BY <1>4, <3>1, <3>2, <3>3 DEF FrameStep, PlaceOf, ShapeOK
  <2> QED
    BY <2>1, <2>2
<1> QED
  BY <1>1, <1>2, <1>5, RowWrittenAlone DEF Rest, ShapeOK

(* A replay writes no row.                                                 *)
LEMMA ReplayKeeps ==
  ASSUME InputsInv, NEW r \in Requests, Replay(r), Rest
  PROVE  StepKeeps
<1> USE DEF InputsInv
<1> DEFINE i == IF level[r] = "bridge" THEN bindings[Row(r).result].input ELSE Row(r).result
<1>1. ledger' = ledger /\ body' = body
  BY DEF Replay
<1>2. \/ Raise(r)
      \/ Goto(r, "done") /\ level' = level
      \/ Return(r, i)
  BY DEF Replay
<1>3. FrameStep(r)
  <2>1. CASE Raise(r)
    BY <1>1, <2>1, RaiseStep
  <2>2. CASE Goto(r, "done") /\ level' = level
    <3>1. "done" \in Places /\ "done" \notin {"fetch", "store", "commit"}
      BY DEF Places
    <3> QED
      BY <1>1, <2>2, <3>1, GotoStep
  <2>3. CASE Return(r, i)
    <3> HIDE DEF i
    <3> QED
      BY <1>1, <2>3, ReturnStep
  <2> QED
    BY <1>2, <2>1, <2>2, <2>3
<1> QED
  BY <1>1, <1>3, QuietKept DEF Rest

(* An exception before any reservation is touched.                         *)
LEMMA RaiseKeeps ==
  ASSUME InputsInv, NEW r \in Requests, Raise(r), ledger' = ledger, body' = body,
         Rest
  PROVE  StepKeeps
  BY RaiseStep, QuietKept DEF InputsInv, Rest

(* Whatever row was found, it is left alone or was without a lease.        *)
LEMMA FromRowKeeps ==
  ASSUME InputsInv, InputsAssumption, NEW r \in Requests, FromRow(r),
         Rest
  PROVE  StepKeeps
<1>1. CASE Raise(r) /\ UNCHANGED <<ledger, body, got>>
  BY <1>1, RaiseKeeps
<1>2. CASE Replay(r)
  BY <1>2, ReplayKeeps
<1>3. CASE Row(r).status = "pending" /\ Expired(r) /\ Reserve(r)
  BY <1>3, ReserveKeeps DEF Expired
<1> QED
  BY <1>1, <1>2, <1>3 DEF FromRow

(* Under the lock of the row, or after it was inserted by somebody else.   *)
LEMMA LookKeeps == ASSUME InputsInv, InputsAssumption, NEW r \in Requests, Look(r) PROVE StepKeeps
<1>1. Rest
  BY DEF Look, Rest
<1>2. CASE FromRow(r)
  BY <1>1, <1>2, FromRowKeeps
<1>3. CASE Goto(r, "insert") /\ UNCHANGED <<ledger, level, body, got>>
  <2>1. "insert" \in Places /\ "insert" \notin {"fetch", "store", "commit"}
    BY DEF Places
  <2>2. FrameStep(r)
    BY <1>3, <2>1, GotoStep DEF InputsInv
  <2> QED
    BY <1>1, <1>3, <2>2, QuietKept DEF Rest
<1> QED
  BY <1>2, <1>3 DEF Look

LEMMA InsertKeeps == ASSUME InputsInv, InputsAssumption, NEW r \in Requests, Insert(r) PROVE StepKeeps
<1>1. Rest
  BY DEF Insert, Rest
<1>2. CASE Row(r).status = "absent" /\ Reserve(r)
  <2>1. ~Row(r).live
    BY <1>2, RowTyped DEF InputsInv, RowsOK, Row
  <2> QED
    BY <1>1, <1>2, <2>1, ReserveKeeps
<1>3. CASE Goto(r, "reread") /\ UNCHANGED <<ledger, level, body, got>>
  <2>1. "reread" \in Places /\ "reread" \notin {"fetch", "store", "commit"}
    BY DEF Places
  <2>2. FrameStep(r)
    BY <1>3, <2>1, GotoStep DEF InputsInv
  <2> QED
    BY <1>1, <1>3, <2>2, QuietKept DEF Rest
<1> QED
  BY <1>2, <1>3 DEF Insert

LEMMA RereadKeeps == ASSUME InputsInv, InputsAssumption, NEW r \in Requests, Reread(r) PROVE StepKeeps
<1>1. Rest
  BY DEF Reread, Rest
<1>2. CASE FromRow(r)
  BY <1>1, <1>2, FromRowKeeps
<1>3. CASE Raise(r) /\ UNCHANGED <<ledger, body, got>>
  BY <1>1, <1>3, RaiseKeeps
<1> QED
  BY <1>2, <1>3 DEF Reread

----
(* Side effects write no row and insert no input.                          *)
LEMMA FetchKeeps == ASSUME InputsInv, NEW r \in Requests, Fetch(r) PROVE StepKeeps
<1> USE DEF InputsInv
<1>1. level' = level /\ Rest /\ ledger' = ledger /\ pc[r] = "fetch"
  BY DEF Fetch, Rest, store
<1>2. CASE Goto(r, "store") /\ \E c \in Contents : body' = [body EXCEPT ![r] = c]
  <2>1. PICK c \in Contents : body' = [body EXCEPT ![r] = c]
    BY <1>2
  <2>2. body' \in [Requests -> Contents \cup {None}] /\ body'[r] \in Contents
        /\ \A q \in Requests \ {r} : body'[q] = body[q]
    BY <2>1 DEF ShapeOK
  <2>3. pc' \in [Requests -> Places] /\ pc'[r] = "store" /\ \A q \in Requests \ {r} : pc'[q] = pc[q]
    BY <1>2 DEF Goto, ShapeOK, Places
  <2>4. level[r] = "input"
    BY <1>1 DEF PlaceOK, PlaceOf
  <2>5. FrameStep(r)
    BY <1>1, <2>2, <2>3, <2>4 DEF FrameStep, PlaceOf, ShapeOK
  <2> QED
    BY <1>1, <2>5, QuietKept DEF Rest
<1>3. CASE Goto(r, "release") /\ UNCHANGED body
  <2>1. "release" \in Places /\ "release" \notin {"fetch", "store", "commit"}
    BY DEF Places
  <2>2. FrameStep(r)
    BY <1>1, <1>3, <2>1, GotoStep
  <2> QED
    BY <1>1, <2>2, QuietKept DEF Rest
<1> QED
  BY <1>2, <1>3 DEF Fetch

LEMMA StoreKeeps == ASSUME InputsInv, NEW r \in Requests, Store(r) PROVE StepKeeps
<1> USE DEF InputsInv
<1>1. /\ post' = post /\ ledger' = ledger /\ inputs' = inputs /\ bindings' = bindings
      /\ body' = body /\ pc[r] = "store" /\ blobs \subseteq blobs'
  BY DEF Store
<1>2. CASE blobs' = blobs \cup {body[r]} /\ Goto(r, "commit") /\ UNCHANGED level
  <2>1. pc' \in [Requests -> Places] /\ pc'[r] = "commit" /\ \A q \in Requests \ {r} : pc'[q] = pc[q]
    BY <1>2 DEF Goto, ShapeOK, Places
  <2>2. level[r] = "input" /\ body[r] \in Contents
    BY <1>1 DEF PlaceOK, PlaceOf
  <2>3. FrameStep(r)
    BY <1>1, <1>2, <2>1, <2>2 DEF FrameStep, PlaceOf, ShapeOK
  <2> QED
    BY <1>1, <2>3, QuietKept
<1>3. CASE Goto(r, "release") /\ UNCHANGED level
  <2>1. "release" \in Places /\ "release" \notin {"fetch", "store", "commit"}
    BY DEF Places
  <2>2. FrameStep(r)
    BY <1>1, <1>3, <2>1, GotoStep
  <2> QED
    BY <1>1, <2>2, QuietKept
<1>4. CASE Raise(r)
  BY <1>1, <1>4, RaiseStep, QuietKept
<1> QED
  BY <1>2, <1>3, <1>4 DEF Store

----
(* The one step that inserts an input gives its key the input's number: no *)
(* input had that key, for the row of the key had no result.               *)
LEMMA InputCommitted ==
  ASSUME InputsInv, NEW r \in Requests, pc[r] = "commit", MayComplete(r), FrameStep(r),
         inputs' = Append(inputs, [key |-> InputKey(r), hash |-> post[r].wants, content |-> body[r]]),
         ledger' = [ledger EXCEPT ![Here(r)] = Completed(r, Len(inputs'))],
         <<pc'[r], level'[r]>> # <<pc[r], level[r]>>,
         post' = post, bindings' = bindings, blobs' = blobs
  PROVE  StepKeeps
<1> USE DEF InputsInv
<1> DEFINE n == Len(inputs) + 1
           new == [key |-> InputKey(r), hash |-> post[r].wants, content |-> body[r]]
<1>1. level[r] = "input" /\ body[r] \in Contents /\ body[r] \in blobs
  BY DEF PlaceOK, PlaceOf
<1>2. Here(r) = <<"input", InputKey(r)>>
  BY <1>1 DEF Here, Slot
<1>3. new \in InputRow
  BY <1>1, SlotTyped DEF ShapeOK, InputRow
<1>4. /\ inputs' \in Seq(InputRow) /\ Len(inputs') = n /\ n \in Nat \ {0}
      /\ inputs'[n] = new /\ DOMAIN inputs' = 1..n /\ DOMAIN inputs = 1..(n - 1)
      /\ \A i \in 1..(n - 1) : inputs'[i] = inputs[i]
  BY <1>3 DEF ShapeOK
<1> HIDE DEF n, new
<1>5. Completed(r, n) \in LedgerRow
  BY <1>4, RowTyped
<1>6. Completed(r, n).status = "completed" /\ Completed(r, n).live = FALSE /\ Completed(r, n).result = n
  BY DEF Completed
<1>7. ledger' = [ledger EXCEPT ![Here(r)] = Completed(r, n)]
  BY <1>4
<1>8. Row(r).status = "pending" /\ Owns(r)
  BY DEF MayComplete
<1>9. /\ Here(r) \in Slots /\ ledger'[Here(r)] = Completed(r, n)
      /\ ledger' \in [Slots -> LedgerRow]
      /\ \A s \in Slots : s # Here(r) => ledger'[s] = ledger[s]
      /\ RowsOK' /\ \A s \in Slots : HolderKeeps(s)
  BY <1>5, <1>6, <1>7, <1>8, RowWritten
<1>10. ledger[Here(r)].result = 0
  BY <1>8, <1>9 DEF RowsOK, Row
<1>11. ShapeOK'
  BY <1>4, <1>9 DEF ShapeOK, FrameStep
<1>12. PlaceOK'
  BY PlaceKept
<1>13. ASSUME NEW i \in DOMAIN inputs'
       PROVE  ledger'[<<"input", inputs'[i].key>>].result = i /\ inputs'[i].content \in blobs
  <2>1. CASE i = n
    <3>1. new.key = InputKey(r) /\ new.content = body[r]
      BY DEF new
    <3>2. inputs'[i] = new
      BY <1>4, <2>1
    <3>3. ledger'[<<"input", inputs'[i].key>>] = Completed(r, n)
      BY <1>2, <1>9, <3>1, <3>2
    <3> QED
      BY <1>1, <1>6, <2>1, <3>1, <3>2, <3>3
  <2>2. CASE i # n
    <3>1. i \in DOMAIN inputs /\ inputs'[i] = inputs[i] /\ inputs[i] \in InputRow /\ i # 0
      BY <1>4, <2>2 DEF ShapeOK
    <3>2. <<"input", inputs[i].key>> \in Slots
      BY <3>1 DEF InputRow, Slots, Levels
    <3>3. ledger[<<"input", inputs[i].key>>].result = i /\ inputs[i].content \in blobs
      BY <3>1 DEF OneInputPerKey, ContentIsStored
    <3>4. <<"input", inputs[i].key>> # Here(r)
      BY <1>10, <3>1, <3>3
    <3> QED
      BY <1>9, <3>1, <3>2, <3>3, <3>4
  <2> QED
    BY <2>1, <2>2
<1>14. OneInputPerKey' /\ ContentIsStored'
  BY <1>13 DEF OneInputPerKey, ContentIsStored
<1> QED
  BY <1>9, <1>11, <1>12, <1>14 DEF StepKeeps

LEMMA CommitKeeps == ASSUME InputsInv, NEW r \in Requests, Commit(r) PROVE StepKeeps
<1> USE DEF InputsInv
<1>1. /\ pc[r] = "commit" /\ body' = [body EXCEPT ![r] = None]
      /\ post' = post /\ bindings' = bindings /\ blobs' = blobs
  BY DEF Commit
<1>2. "release" \in Places /\ "release" \notin {"fetch", "store", "commit"}
  BY DEF Places
<1>3. ASSUME Goto(r, "release"), level' = level
      PROVE  FrameStep(r) /\ pc'[r] # pc[r]
  BY <1>1, <1>2, <1>3, GotoStep
<1>4. CASE /\ MayComplete(r)
           /\ inputs' = Append(inputs, [key |-> InputKey(r), hash |-> post[r].wants, content |-> body[r]])
           /\ ledger' = [ledger EXCEPT ![Here(r)] = Completed(r, Len(inputs'))]
           /\ \/ Return(r, Len(inputs'))
              \/ Goto(r, "release") /\ UNCHANGED <<level, got>>
  <2>1. CASE Return(r, Len(inputs'))
    <3>1. FrameStep(r) /\ pc'[r] \in {"persist", "done"}
      BY <1>1, <2>1, ReturnStep
    <3> QED
      BY <1>1, <1>4, <3>1, InputCommitted
  <2>2. CASE Goto(r, "release") /\ UNCHANGED <<level, got>>
    BY <1>1, <1>3, <1>4, <2>2, InputCommitted
  <2> QED
    BY <1>4, <2>1, <2>2
<1>5. CASE Goto(r, "release") /\ UNCHANGED <<ledger, inputs, level, got>>
  BY <1>1, <1>3, <1>5, QuietKept
<1> QED
  BY <1>4, <1>5, Zenon DEF Commit

----
(* Only a request's own reservation is given up.                           *)
LEMMA ReleaseKeeps == ASSUME InputsInv, NEW r \in Requests, Release(r) PROVE StepKeeps
<1> USE DEF InputsInv
<1>1. /\ pc[r] = "release" /\ body' = body /\ post' = post /\ inputs' = inputs
      /\ bindings' = bindings /\ blobs' = blobs /\ Raise(r)
  BY DEF Release
<1>2. FrameStep(r) /\ <<pc'[r], level'[r]>> # <<pc[r], level[r]>>
  BY <1>1, RaiseStep
<1>3. CASE MayRelease(r) /\ ledger' = [ledger EXCEPT ![Here(r)] = NoRow]
  <2>1. NoRow \in LedgerRow /\ NoRow.result = 0 /\ NoRow.live = FALSE
    BY RowTyped DEF NoRow
  <2>2. Row(r).status = "pending" /\ Owns(r)
    BY <1>3 DEF MayRelease
  <2>3. \E S : bindings' \in Seq(S)
    BY <1>1 DEF ShapeOK
  <2> QED
    BY <1>1, <1>2, <1>3, <2>1, <2>2, <2>3, RowWrittenAlone
<1>4. CASE ledger' = ledger
  BY <1>1, <1>2, <1>4, QuietKept
<1> QED
  BY <1>3, <1>4 DEF Release

(* Completing a bridge key concerns no key of an input: the row had no     *)
(* result.                                                                 *)
LEMMA PersistKeeps == ASSUME InputsInv, NEW r \in Requests, Persist(r) PROVE StepKeeps
<1> USE DEF InputsInv
<1>1. /\ pc[r] = "persist" /\ level' = level /\ body' = body /\ post' = post
      /\ inputs' = inputs /\ blobs' = blobs
  BY DEF Persist
<1>2. "failed" \in Places /\ "done" \in Places
      /\ {"failed", "done"} \cap {"fetch", "store", "commit"} = {}
  BY DEF Places
<1>3. FrameStep(r) /\ pc'[r] # pc[r]
  <2>1. CASE Goto(r, "failed")
    BY <1>1, <1>2, <2>1, GotoStep
  <2>2. CASE Goto(r, "done")
    BY <1>1, <1>2, <2>2, GotoStep
  <2> QED
    BY <2>1, <2>2 DEF Persist
<1> DEFINE b == CHOOSE b \in DOMAIN bindings' : bindings'[b].identity = post[r].wants
           new == [key |-> post[r].key, identity |-> post[r].wants, input |-> got[r]]
<1>4. CASE /\ MayPersist(r)
           /\ bindings' = IF SameIdentity(r) # {} THEN bindings ELSE Append(bindings, new)
           /\ ledger' = [ledger EXCEPT ![Here(r)] = Completed(r, b)]
  <2>1. PICK S : bindings \in Seq(S)
    BY DEF ShapeOK
  <2>2. bindings' \in Seq(S \cup {new}) /\ \E c \in DOMAIN bindings' : bindings'[c].identity = post[r].wants
    <3>1. CASE SameIdentity(r) # {}
      <4>1. bindings' = bindings /\ \E c \in DOMAIN bindings : bindings[c].identity = post[r].wants
        BY <1>4, <3>1 DEF SameIdentity
      <4> HIDE DEF new
      <4> QED
        BY <2>1, <4>1
    <3>2. CASE SameIdentity(r) = {}
      <4>1. new.identity = post[r].wants /\ bindings' = Append(bindings, new)
        BY <1>4, <3>2
      <4> HIDE DEF new
      <4>2. bindings' \in Seq(S \cup {new}) /\ Len(bindings) + 1 \in DOMAIN bindings'
            /\ bindings'[Len(bindings) + 1] = new
        BY <2>1, <4>1
      <4> QED
        BY <4>1, <4>2
    <3> QED
      BY <3>1, <3>2
  <2>3. b \in DOMAIN bindings'
    BY <2>2
  <2> HIDE DEF b, new
  <2>4. b \in Nat
    BY <2>2, <2>3
  <2>5. Completed(r, b) \in LedgerRow /\ Completed(r, b).status = "completed" /\ ~Completed(r, b).live
    BY <2>4, RowTyped DEF Completed
  <2>6. Row(r).status = "pending" /\ Owns(r)
    BY <1>4 DEF MayPersist, MayComplete
  <2> QED
    BY <1>1, <1>3, <1>4, <2>2, <2>5, <2>6, RowWrittenAlone
<1>5. CASE UNCHANGED <<ledger, bindings>>
  BY <1>1, <1>3, <1>5, QuietKept
<1> HIDE DEF b, new
<1> QED
  BY <1>4, <1>5 DEF Persist, b, new

----
(* A client that sends again gives up the tokens of its attempt before, so *)
(* rows lose their holder only with a step of the holder.                  *)
LEMMA SendKeeps == ASSUME InputsInv, NEW r \in Requests, Send(r) PROVE StepKeeps
<1> USE DEF InputsInv
<1>1. /\ post' = post /\ inputs' = inputs /\ bindings' = bindings /\ blobs' = blobs
      /\ pc[r] \in {"idle", "failed"} /\ pc' = [pc EXCEPT ![r] = "look"]
      /\ body' = [body EXCEPT ![r] = None]
  BY DEF Send, Goto
<1>2. pc' \in [Requests -> Places] /\ pc'[r] = "look" /\ \A q \in Requests \ {r} : pc'[q] = pc[q]
  BY <1>1 DEF ShapeOK, Places
<1>3. level' \in [Requests -> Levels] /\ \A q \in Requests \ {r} : level'[q] = level[q]
  BY DEF Send, ShapeOK, Levels
<1>4. body' \in [Requests -> Contents \cup {None}] /\ \A q \in Requests \ {r} : body'[q] = body[q]
  BY <1>1 DEF ShapeOK
<1>5. FrameStep(r)
  BY <1>2, <1>3, <1>4 DEF FrameStep, PlaceOf
<1>6. ASSUME NEW s \in Slots
      PROVE  /\ ledger'[s] \in LedgerRow
             /\ ledger'[s].status = ledger[s].status /\ ledger'[s].live = ledger[s].live
             /\ ledger'[s].result = ledger[s].result
             /\ ledger[s].holder # r => ledger'[s] = ledger[s]
  <2>1. ledger[s] \in LedgerRow
    BY DEF ShapeOK
  <2>2. ledger'[s] = IF ledger[s].holder = r THEN [ledger[s] EXCEPT !.holder = None] ELSE ledger[s]
    BY DEF Send
  <2> QED
    BY <2>1, <2>2 DEF LedgerRow
<1>7. ledger' \in [Slots -> LedgerRow]
  <2>1. ledger' = [s \in Slots |-> ledger'[s]]
    BY DEF Send
  <2> QED
    BY <1>6, <2>1
<1>8. ShapeOK'
  BY <1>1, <1>5, <1>7 DEF ShapeOK, FrameStep
<1>9. RowsOK' /\ \A s \in Slots : ledger[s].result # 0 => ledger'[s].result = ledger[s].result
  BY <1>6 DEF RowsOK
<1>10. PlaceOK' /\ OneInputPerKey' /\ ContentIsStored'
  BY <1>1, <1>5, <1>8, <1>9, PlaceKept, FactsKept
<1>11. \A s \in Slots : HolderKeeps(s)
  BY <1>1, <1>2, <1>6 DEF HolderKeeps
<1> QED
  BY <1>8, <1>9, <1>10, <1>11 DEF StepKeeps

LEMMA CrashKeeps == ASSUME InputsInv, NEW r \in Requests, Crash(r) PROVE StepKeeps
<1>1. /\ Goto(r, "failed") /\ level' = level /\ body' = body
      /\ post' = post /\ ledger' = ledger /\ inputs' = inputs /\ bindings' = bindings
      /\ blobs' = blobs
  BY DEF Crash, store
<1>2. "failed" \in Places /\ "failed" \notin {"fetch", "store", "commit"}
  BY DEF Places
<1>3. FrameStep(r)
  BY <1>1, <1>2, GotoStep DEF InputsInv
<1> QED
  BY <1>1, <1>3, QuietKept

(* The clock ends a lease and changes nothing else of a row.               *)
LEMMA ExpireKeeps == ASSUME InputsInv, NEW s \in Slots, Expire(s) PROVE StepKeeps
<1> USE DEF InputsInv
<1>1. /\ ledger' = [ledger EXCEPT ![s].live = FALSE]
      /\ UNCHANGED <<post, inputs, bindings, blobs, pc, level, body>>
  BY DEF Expire
<1>2. ledger \in [Slots -> LedgerRow] /\ ledger[s] \in LedgerRow
  BY DEF ShapeOK
<1>3. ledger'[s] = [ledger[s] EXCEPT !.live = FALSE] /\ \A t \in Slots : t # s => ledger'[t] = ledger[t]
  BY <1>1, <1>2
<1>4. /\ ledger'[s] \in LedgerRow /\ ledger'[s].status = ledger[s].status
      /\ ledger'[s].live = FALSE /\ ledger'[s].result = ledger[s].result
  BY <1>2, <1>3 DEF LedgerRow
<1>5. ledger' \in [Slots -> LedgerRow]
  BY <1>1, <1>2, <1>3, <1>4
<1>6. ShapeOK'
  BY <1>1, <1>5 DEF ShapeOK
<1>7. RowsOK' /\ \A t \in Slots : ledger[t].result # 0 => ledger'[t].result = ledger[t].result
  BY <1>3, <1>4 DEF RowsOK
<1>8. PlaceOK'
  BY <1>1 DEF PlaceOK, PlaceOf
<1>9. OneInputPerKey' /\ ContentIsStored'
  BY <1>1, <1>6, <1>7, FactsKept
<1>10. \A t \in Slots : HolderKeeps(t)
  BY <1>3 DEF HolderKeeps
<1> QED
  BY <1>6, <1>7, <1>8, <1>9, <1>10 DEF StepKeeps

(* Steps that touch none of the state the argument looks at.               *)
LEMMA OthersKeep ==
  ASSUME InputsInv, UNCHANGED <<post, store, frame>> \/ (\E i : Delete(i))
  PROVE  StepKeeps
<1>1. UNCHANGED <<post, ledger, inputs, bindings, blobs, pc, level, body>>
  BY DEF Delete, store, frame
<1>2. InputsInv'
  BY <1>1 DEF InputsInv, ShapeOK, RowsOK, PlaceOK, PlaceOf, OneInputPerKey, ContentIsStored
<1> QED
  BY <1>1, <1>2 DEF StepKeeps, HolderKeeps

LEMMA NextKeeps ==
  ASSUME InputsInv, InputsAssumption, [Next]_vars
  PROVE  StepKeeps
<1>1. ASSUME NEW r \in Requests, Send(r) \/ Step(r) \/ Crash(r)
      PROVE  StepKeeps
  BY <1>1, SendKeeps, CrashKeeps, LookKeeps, InsertKeeps, RereadKeeps, FetchKeeps, StoreKeeps,
     CommitKeeps, ReleaseKeeps, PersistKeeps DEF Step
<1>2. ASSUME NEW s \in Slots, Expire(s)
      PROVE  StepKeeps
  BY <1>2, ExpireKeeps
<1>3. ASSUME NEW i \in DOMAIN inputs, Delete(i)
      PROVE  StepKeeps
  BY <1>3, OthersKeep
<1>4. CASE UNCHANGED vars
  BY <1>4, OthersKeep DEF vars
<1> QED
  BY <1>1, <1>2, <1>3, <1>4 DEF Next

(* The invariant holds of any number of requests, keys and faults.         *)
THEOREM InputsAreSafe == Spec => []InputsInv
<1>1. Init => InputsInv
  BY InitEstablishes
<1>2. InputsInv /\ [Next]_vars => InputsInv'
  BY NextKeeps, InputsAssumption DEF StepKeeps
<1> QED
  BY <1>1, <1>2, PTL DEF Spec

(* An Idempotency-Key has at most one input, and is completed with it,     *)
(* whatever expires, is reclaimed, retried or loses its acknowledgement.   *)
THEOREM KeysHaveOneInput == Spec => []OneInputPerKey
<1>1. InputsInv => OneInputPerKey
  BY DEF InputsInv
<1> QED
  BY <1>1, InputsAreSafe, PTL

(* No input refers to bytes that the content store has not taken.          *)
THEOREM InputsAreStored == Spec => []ContentIsStored
<1>1. InputsInv => ContentIsStored
  BY DEF InputsInv
<1> QED
  BY <1>1, InputsAreSafe, PTL

(* Nobody but its holder and the clock ends a reservation under a lease.   *)
THEOREM ReservationsAreKept == Spec => HolderKeepsReservation
<1>1. InputsInv /\ [Next]_vars =>
        [\A s \in Slots : ledger[s].live /\ ledger[s].holder # None /\ ledger'[s] # ledger[s] =>
           \/ ledger'[s] = [ledger[s] EXCEPT !.live = FALSE]
           \/ LET r == ledger[s].holder IN <<pc'[r], level'[r]>> # <<pc[r], level[r]>>]_vars
  BY NextKeeps, InputsAssumption DEF StepKeeps, HolderKeeps
<1> QED
  BY <1>1, InputsAreSafe, PTL DEF Spec, HolderKeepsReservation

----
(* Whose result is whose.  A completed key of ingestion names the input    *)
(* that was made under it and for its hash, a completed key of the bridge  *)
(* a binding of the paper that its hash asks for.                          *)
KeyNames == UNION {{p.key, p.wants} : p \in Posts}
BindingRow == [key: KeyNames, identity: KeyNames, input: Nat]

ResultOf(s) ==
  /\ ledger[s].status = "completed" <=> ledger[s].result # 0
  /\ s[1] = "input" /\ ledger[s].result # 0 =>
       /\ ledger[s].result \in DOMAIN inputs
       /\ inputs[ledger[s].result].key = s[2]
       /\ inputs[ledger[s].result].hash = ledger[s].hash
  /\ s[1] = "bridge" /\ ledger[s].result # 0 =>
       /\ ledger[s].result \in DOMAIN bindings
       /\ \E p \in Posts : /\ p.bridged /\ p.asks = ledger[s].hash
                           /\ p.wants = bindings[ledger[s].result].identity

ResultsOK == \A s \in Slots : ResultOf(s)

(* A binding is of a completed key, and to the input of its paper.         *)
BindingOf(b) ==
  /\ ledger[<<"bridge", bindings[b].key>>].status = "completed"
  /\ bindings[b].input \in DOMAIN inputs
  /\ inputs[bindings[b].input].key = bindings[b].identity
  /\ inputs[bindings[b].input].hash = bindings[b].identity

BindingsOK == \A b \in DOMAIN bindings : BindingOf(b)

(* A request that was given an input was given its own.                    *)
IsOwn(r, i) == i \in DOMAIN inputs /\ inputs[i].key = InputKey(r) /\ inputs[i].hash = post[r].wants

GotOf(r) ==
  /\ level[r] = "bridge" => post[r].bridged
  /\ pc[r] = "persist" => level[r] = "bridge"
  /\ pc[r] \in {"persist", "done"} => IsOwn(r, got[r])

AnswerInv ==
  /\ InputsInv
  /\ bindings \in Seq(BindingRow) /\ got \in [Requests -> 0..Len(inputs)]
  /\ ResultsOK /\ BindingsOK /\ \A r \in Requests : GotOf(r)

LEMMA AnswerInit == Init => AnswerInv
<1> SUFFICES ASSUME Init PROVE AnswerInv
  OBVIOUS
<1>1. /\ \A s \in Slots : ledger[s] = NoRow
      /\ bindings \in Seq(BindingRow) /\ DOMAIN bindings = {}
      /\ got \in [Requests -> 0..Len(inputs)]
      /\ \A r \in Requests : pc[r] = "idle" /\ (level[r] = "bridge" => post[r].bridged)
  BY DEF Init
<1>2. ResultsOK
  BY <1>1 DEF ResultsOK, ResultOf, NoRow
<1>3. BindingsOK
  BY <1>1 DEF BindingsOK
<1> QED
  BY <1>1, <1>2, <1>3, InitEstablishes DEF AnswerInv, GotOf

(* What every step does to the inputs: their number only grows.            *)
InputsGrow ==
  /\ post' = post /\ inputs' \in Seq(InputRow) /\ Len(inputs) <= Len(inputs')
  /\ \A i \in DOMAIN inputs : i \in DOMAIN inputs' /\ inputs'[i] = inputs[i]

LEMMA InputsStay ==
  ASSUME ShapeOK, post' = post, inputs' = inputs
  PROVE  InputsGrow
  BY DEF InputsGrow, ShapeOK

(* What a step of one request does to what requests were given.            *)
GotStep(r) ==
  /\ got' \in [Requests -> 0..Len(inputs')]
  /\ \A q \in Requests \ {r} : pc'[q] = pc[q] /\ level'[q] = level[q] /\ got'[q] = got[q]
  /\ GotOf(r)'

LEMMA GotKept ==
  ASSUME AnswerInv, InputsGrow, NEW r \in Requests, GotStep(r)
  PROVE  got' \in [Requests -> 0..Len(inputs')] /\ (\A q \in Requests : GotOf(q))'
<1> SUFFICES ASSUME NEW q \in Requests, q # r PROVE GotOf(q)'
  BY DEF GotStep
<1>1. GotOf(q) /\ pc'[q] = pc[q] /\ level'[q] = level[q] /\ got'[q] = got[q]
  BY DEF AnswerInv, GotStep
<1>2. IsOwn(q, got[q]) => /\ got[q] \in DOMAIN inputs' /\ inputs'[got[q]].key = InputKey(q)
                          /\ inputs'[got[q]].hash = post[q].wants
  BY DEF IsOwn, InputsGrow
<1>3. post' = post
  BY DEF InputsGrow
<1> QED
  BY <1>1, <1>2, <1>3 DEF GotOf, IsOwn, InputKey

LEMMA RaiseGot ==
  ASSUME AnswerInv, InputsGrow, NEW r \in Requests, Raise(r), got' = got
  PROVE  GotStep(r)
<1>1. /\ pc \in [Requests -> Places] /\ level \in [Requests -> Levels] /\ post' = post
      /\ got \in [Requests -> 0..Len(inputs)] /\ GotOf(r)
  BY DEF AnswerInv, InputsInv, ShapeOK, InputsGrow
<1>2. got' \in [Requests -> 0..Len(inputs')]
  <2>1. Len(inputs) \in Nat /\ Len(inputs') \in Nat /\ Len(inputs) <= Len(inputs')
    BY DEF InputsGrow, AnswerInv, InputsInv, ShapeOK
  <2>2. \A q \in Requests : got[q] \in 0..Len(inputs')
    BY <1>1, <2>1
  <2> QED
    BY <1>1, <2>2
<1>3. \A q \in Requests \ {r} : pc'[q] = pc[q] /\ level'[q] = level[q] /\ got'[q] = got[q]
  BY <1>1 DEF Raise, Goto
<1>4. pc'[r] \in {"release", "failed"} /\ (level'[r] = "bridge" => post[r].bridged)
  BY <1>1 DEF Raise, Goto, GotOf
<1> QED
  BY <1>1, <1>2, <1>3, <1>4 DEF GotStep, GotOf

LEMMA GotoGot ==
  ASSUME AnswerInv, InputsGrow, NEW r \in Requests, NEW p \in Places, Goto(r, p),
         level' = level, got' = got, p \notin {"persist", "done"}
  PROVE  GotStep(r)
<1>1. /\ pc \in [Requests -> Places] /\ level \in [Requests -> Levels] /\ post' = post
      /\ got \in [Requests -> 0..Len(inputs)] /\ GotOf(r)
  BY DEF AnswerInv, InputsInv, ShapeOK, InputsGrow
<1>2. got' \in [Requests -> 0..Len(inputs')]
  <2>1. Len(inputs) \in Nat /\ Len(inputs') \in Nat /\ Len(inputs) <= Len(inputs')
    BY DEF InputsGrow, AnswerInv, InputsInv, ShapeOK
  <2>2. \A q \in Requests : got[q] \in 0..Len(inputs')
    BY <1>1, <2>1
  <2> QED
    BY <1>1, <2>2
<1> QED
  BY <1>1, <1>2 DEF GotStep, GotOf, Goto

(* An input is returned to the one it is for.                              *)
LEMMA ReturnGot ==
  ASSUME AnswerInv, InputsGrow, NEW r \in Requests, NEW i, Return(r, i),
         i \in DOMAIN inputs', inputs'[i].key = InputKey(r), inputs'[i].hash = post[r].wants
  PROVE  GotStep(r)
<1>1. /\ pc \in [Requests -> Places] /\ level \in [Requests -> Levels] /\ post' = post
      /\ got \in [Requests -> 0..Len(inputs)] /\ GotOf(r)
  BY DEF AnswerInv, InputsInv, ShapeOK, InputsGrow
<1>2. got' = [got EXCEPT ![r] = i] /\ got'[r] = i
  BY <1>1 DEF Return
<1>3. got' \in [Requests -> 0..Len(inputs')]
  <2>1. Len(inputs) \in Nat /\ Len(inputs') \in Nat /\ Len(inputs) <= Len(inputs')
        /\ i \in 1..Len(inputs')
    BY DEF InputsGrow, AnswerInv, InputsInv, ShapeOK
  <2>2. \A q \in Requests : got[q] \in 0..Len(inputs')
    BY <1>1, <2>1
  <2> QED
    BY <1>1, <1>2, <2>1, <2>2
<1>4. \A q \in Requests \ {r} : pc'[q] = pc[q] /\ level'[q] = level[q] /\ got'[q] = got[q]
  BY <1>1 DEF Return, Goto
<1>5. /\ pc'[r] \in {"persist", "done"} /\ (level'[r] = "bridge" => post[r].bridged)
      /\ pc'[r] = "persist" => level'[r] = "bridge"
  BY <1>1 DEF Return, Goto, GotOf
<1>6. IsOwn(r, got[r])'
  BY <1>1, <1>2 DEF IsOwn, InputKey
<1>7. GotOf(r)'
  BY <1>1, <1>5, <1>6 DEF GotOf
<1> QED
  BY <1>3, <1>4, <1>7 DEF GotStep

(* Rows that are written without a result: completed keys and bindings     *)
(* stay as they were.                                                      *)
RowsStay ==
  \A s \in Slots :
    /\ ledger'[s].status = "completed" <=> ledger[s].status = "completed"
    /\ ledger'[s].result = ledger[s].result
    /\ ledger[s].status = "completed" => ledger'[s].hash = ledger[s].hash

LEMMA ResultsStay ==
  ASSUME AnswerInv, RowsStay, inputs' = inputs, bindings' = bindings
  PROVE  bindings' \in Seq(BindingRow) /\ ResultsOK' /\ BindingsOK'
<1>1. ResultsOK'
  BY DEF AnswerInv, RowsStay, ResultsOK, ResultOf
<1>2. \A b \in DOMAIN bindings : <<"bridge", bindings[b].key>> \in Slots
  <2> TAKE b \in DOMAIN bindings
  <2>1. bindings[b] \in BindingRow
    BY DEF AnswerInv
  <2> QED
    BY <2>1 DEF BindingRow, KeyNames, Slots, Levels
<1>3. BindingsOK'
  BY <1>2 DEF AnswerInv, RowsStay, BindingsOK, BindingOf
<1> QED
  BY <1>1, <1>3 DEF AnswerInv

(* A step of one request that completes no key.                            *)
LEMMA QuietAnswers ==
  ASSUME AnswerInv, InputsInv', NEW r \in Requests, GotStep(r), RowsStay,
         post' = post, inputs' = inputs, bindings' = bindings
  PROVE  AnswerInv'
<1>1. InputsGrow
  BY InputsStay DEF AnswerInv, InputsInv
<1> QED
  BY <1>1, GotKept, ResultsStay DEF AnswerInv

(* A step that is of no request.                                           *)
LEMMA OutsideAnswers ==
  ASSUME AnswerInv, InputsInv', RowsStay,
         UNCHANGED <<post, inputs, bindings, pc, level, got>>
  PROVE  AnswerInv'
<1>1. \A r \in Requests : GotOf(r)'
  BY DEF AnswerInv, GotOf, IsOwn, InputKey
<1> QED
  BY <1>1, ResultsStay DEF AnswerInv

(* A row without a result takes the place of one that was not completed.   *)
LEMMA WriteStays ==
  ASSUME AnswerInv, NEW r \in Requests, NEW row, ledger' = [ledger EXCEPT ![Here(r)] = row],
         Row(r).status # "completed", row.status # "completed", row.result = 0
  PROVE  RowsStay
<1>1. Here(r) \in Slots /\ ledger \in [Slots -> LedgerRow]
  BY RowTyped DEF AnswerInv, InputsInv, ShapeOK
<1>2. ledger'[Here(r)] = row /\ \A s \in Slots : s # Here(r) => ledger'[s] = ledger[s]
  BY <1>1
<1>3. ledger[Here(r)].result = 0
  BY <1>1 DEF AnswerInv, ResultsOK, ResultOf, Row
<1> QED
  BY <1>2, <1>3 DEF RowsStay, Row

LEMMA ReserveAnswers ==
  ASSUME AnswerInv, InputsInv', NEW r \in Requests, Reserve(r), Row(r).status # "completed", Rest
  PROVE  AnswerInv'
<1>1. RowsStay
  <2>1. /\ ledger' = [ledger EXCEPT ![Here(r)] = Reserved(r)]
        /\ Reserved(r).status # "completed" /\ Reserved(r).result = 0
    BY DEF Reserve, Reserved
  <2> QED
    BY <2>1, WriteStays
<1>2. GotStep(r)
  <2>1. /\ pc \in [Requests -> Places] /\ level \in [Requests -> Levels] /\ post' = post
        /\ got' = got /\ got \in [Requests -> 0..Len(inputs)] /\ inputs' = inputs /\ GotOf(r)
    BY DEF AnswerInv, InputsInv, ShapeOK, Reserve, Rest
  <2>2. /\ pc'[r] \in {"look", "store", "fetch"} /\ (level'[r] = "bridge" => post[r].bridged)
        /\ \A q \in Requests \ {r} : pc'[q] = pc[q] /\ level'[q] = level[q]
    BY <2>1 DEF Reserve, Goto, GotOf
  <2> QED
    BY <2>1, <2>2 DEF GotStep, GotOf
<1> QED
  BY <1>1, <1>2, QuietAnswers DEF Rest

(* A replay is answered with what its key was completed with.              *)
LEMMA ReplayAnswers ==
  ASSUME AnswerInv, InputsAssumption, InputsInv', NEW r \in Requests, Replay(r), Rest,
         Row(r).status = "completed", Row(r).hash = RequestHash(r, level[r])
  PROVE  AnswerInv'
<1> DEFINE x == Row(r).result
           i == IF level[r] = "bridge" THEN bindings[x].input ELSE x
<1>1. /\ pc \in [Requests -> Places] /\ level \in [Requests -> Levels]
      /\ post \in [Requests -> Posts] /\ GotOf(r) /\ Here(r) \in Slots /\ ResultOf(Here(r))
      /\ got \in [Requests -> 0..Len(inputs)] /\ inputs \in Seq(InputRow)
  BY RowTyped DEF AnswerInv, InputsInv, ShapeOK, ResultsOK
<1>2. x # 0
  BY <1>1 DEF ResultOf, Row
<1>3. IsOwn(r, i)
  <2>1. CASE level[r] = "bridge"
    <3>1. Here(r)[1] = "bridge" /\ Row(r).hash = post[r].asks /\ post[r].bridged
      BY <1>1, <2>1 DEF Here, Slot, RequestHash, GotOf
    <3>2. /\ x \in DOMAIN bindings
          /\ \E p \in Posts : /\ p.bridged /\ p.asks = Row(r).hash
                              /\ p.wants = bindings[x].identity
      BY <1>1, <1>2, <3>1 DEF ResultOf, Row
    <3>3. bindings[x].identity = post[r].wants
      BY <1>1, <3>1, <3>2 DEF InputsAssumption
    <3>4. BindingOf(x)
      BY <3>2 DEF AnswerInv, BindingsOK
    <3> QED
      BY <2>1, <3>1, <3>3, <3>4 DEF BindingOf, IsOwn, InputKey
  <2>2. CASE level[r] # "bridge"
    <3>1. /\ Here(r)[1] = "input" /\ Here(r)[2] = InputKey(r) /\ Row(r).hash = post[r].wants
      BY <1>1, <2>2 DEF Here, Slot, RequestHash, Levels
    <3> QED
      BY <1>1, <1>2, <2>2, <3>1 DEF ResultOf, Row, IsOwn
  <2> QED
    BY <2>1, <2>2
<1>4. RowsStay
  BY DEF Replay, RowsStay
<1>5. InputsGrow
  BY InputsStay DEF AnswerInv, InputsInv, Rest
<1> HIDE DEF x, i
<1>6. \/ Raise(r) /\ got' = got
      \/ Goto(r, "done") /\ got' = [got EXCEPT ![r] = i] /\ level' = level
      \/ Return(r, i)
  BY DEF Replay, i, x
<1>7. GotStep(r)
  <2>1. CASE Raise(r) /\ got' = got
    BY <1>5, <2>1, RaiseGot
  <2>2. CASE Goto(r, "done") /\ got' = [got EXCEPT ![r] = i] /\ level' = level
    <3>1. /\ pc'[r] = "done" /\ got'[r] = i /\ post' = post /\ inputs' = inputs
          /\ \A q \in Requests \ {r} : pc'[q] = pc[q] /\ got'[q] = got[q]
      BY <1>1, <2>2 DEF Goto, Rest
    <3>2. got' \in [Requests -> 0..Len(inputs')]
      <4>1. i \in 0..Len(inputs)
        BY <1>1, <1>3 DEF IsOwn
      <4> QED
        BY <1>1, <2>2, <3>1, <4>1
    <3>3. IsOwn(r, got[r])'
      BY <1>3, <3>1 DEF IsOwn, InputKey
    <3>4. GotOf(r)'
      BY <1>1, <2>2, <3>1, <3>3 DEF GotOf
    <3> QED
      BY <2>2, <3>1, <3>2, <3>4 DEF GotStep
  <2>3. CASE Return(r, i)
    <3>1. i \in DOMAIN inputs' /\ inputs'[i].key = InputKey(r) /\ inputs'[i].hash = post[r].wants
      BY <1>3 DEF IsOwn, Rest
    <3> QED
      BY <1>5, <2>3, <3>1, ReturnGot
  <2> QED
    BY <1>6, <2>1, <2>2, <2>3
<1> QED
  BY <1>4, <1>7, QuietAnswers DEF Rest

(* An exception that leaves the rows alone.                                *)
LEMMA RaiseAnswers ==
  ASSUME AnswerInv, InputsInv', NEW r \in Requests, Raise(r), UNCHANGED <<ledger, got>>, Rest
  PROVE  AnswerInv'
<1>1. GotStep(r)
  BY InputsStay, RaiseGot DEF AnswerInv, InputsInv, Rest
<1>2. RowsStay
  BY DEF RowsStay
<1> QED
  BY <1>1, <1>2, QuietAnswers DEF Rest

(* So does a request that goes elsewhere in its service.                   *)
LEMMA GotoAnswers ==
  ASSUME AnswerInv, InputsInv', NEW r \in Requests, NEW p \in Places, Goto(r, p),
         p \notin {"persist", "done"}, UNCHANGED <<post, ledger, inputs, bindings, level, got>>
  PROVE  AnswerInv'
<1>1. GotStep(r)
  BY InputsStay, GotoGot DEF AnswerInv, InputsInv
<1>2. RowsStay
  BY DEF RowsStay
<1> QED
  BY <1>1, <1>2, QuietAnswers

LEMMA FromRowAnswers ==
  ASSUME AnswerInv, InputsAssumption, InputsInv', NEW r \in Requests, FromRow(r), Rest
  PROVE  AnswerInv'
<1>1. CASE Raise(r) /\ UNCHANGED <<ledger, body, got>>
  BY <1>1, RaiseAnswers
<1>2. CASE Row(r).hash = RequestHash(r, level[r]) /\ Row(r).status = "completed" /\ Replay(r)
  BY <1>2, ReplayAnswers
<1>3. CASE Row(r).status = "pending" /\ Reserve(r)
  BY <1>3, ReserveAnswers
<1> QED
  BY <1>1, <1>2, <1>3 DEF FromRow

LEMMA ReservingAnswers ==
  ASSUME AnswerInv, InputsAssumption, InputsInv', NEW r \in Requests,
         Look(r) \/ Insert(r) \/ Reread(r)
  PROVE  AnswerInv'
<1>1. Rest
  BY DEF Look, Insert, Reread, Rest
<1>2. CASE FromRow(r)
  BY <1>1, <1>2, FromRowAnswers
<1>3. CASE Row(r).status = "absent" /\ Reserve(r)
  BY <1>1, <1>3, ReserveAnswers
<1>4. CASE Raise(r) /\ UNCHANGED <<ledger, body, got>>
  BY <1>1, <1>4, RaiseAnswers
<1>5. CASE (Goto(r, "insert") \/ Goto(r, "reread")) /\ UNCHANGED <<ledger, level, body, got>>
  <2>1. "insert" \in Places /\ "reread" \in Places
    BY DEF Places
  <2> QED
    BY <1>1, <1>5, <2>1, GotoAnswers DEF Rest
<1> QED
  BY <1>2, <1>3, <1>4, <1>5 DEF Look, Insert, Reread

LEMMA WorkingAnswers ==
  ASSUME AnswerInv, InputsInv', NEW r \in Requests, Fetch(r) \/ Store(r) \/ Release(r) \/ Crash(r)
  PROVE  AnswerInv'
<1>1. {"store", "commit", "release", "failed"} \subseteq Places
  BY DEF Places
<1>2. CASE Fetch(r)
  BY <1>1, <1>2, GotoAnswers DEF Fetch, store
<1>3. CASE Store(r)
  BY <1>1, <1>3, GotoAnswers, RaiseAnswers DEF Store, Rest
<1>4. CASE Crash(r)
  BY <1>1, <1>4, GotoAnswers DEF Crash, store
<1>5. CASE Release(r)
  <2>1. RowsStay
    <3>1. CASE MayRelease(r) /\ ledger' = [ledger EXCEPT ![Here(r)] = NoRow]
      <4>1. NoRow.status # "completed" /\ NoRow.result = 0
        BY DEF NoRow
      <4>2. Row(r).status # "completed"
        BY <3>1 DEF MayRelease
      <4> QED
        BY <3>1, <4>1, <4>2, WriteStays
    <3>2. CASE ledger' = ledger
      BY <3>2 DEF RowsStay
    <3> QED
      BY <1>5, <3>1, <3>2 DEF Release
  <2>2. GotStep(r)
    BY <1>5, InputsStay, RaiseGot DEF AnswerInv, InputsInv, Release
  <2> QED
    BY <1>5, <2>1, <2>2, QuietAnswers DEF Release
<1> QED
  BY <1>2, <1>3, <1>4, <1>5

LEMMA SendAnswers ==
  ASSUME AnswerInv, InputsInv', NEW r \in Requests, Send(r)
  PROVE  AnswerInv'
<1>1. RowsStay
  <2> SUFFICES ASSUME NEW s \in Slots
               PROVE  /\ ledger'[s].status = ledger[s].status
                      /\ ledger'[s].result = ledger[s].result
                      /\ ledger'[s].hash = ledger[s].hash
    BY DEF RowsStay
  <2>1. ledger[s] \in LedgerRow
    BY DEF AnswerInv, InputsInv, ShapeOK
  <2>2. ledger'[s] = IF ledger[s].holder = r THEN [ledger[s] EXCEPT !.holder = None] ELSE ledger[s]
    BY DEF Send
  <2> QED
    BY <2>1, <2>2 DEF LedgerRow
<1>2. GotStep(r)
  <2>1. /\ pc \in [Requests -> Places] /\ level \in [Requests -> Levels] /\ post' = post
        /\ got \in [Requests -> 0..Len(inputs)] /\ inputs' = inputs /\ inputs \in Seq(InputRow)
    BY DEF AnswerInv, InputsInv, ShapeOK, Send
  <2>2. /\ pc'[r] = "look" /\ (level'[r] = "bridge" => post[r].bridged)
        /\ \A q \in Requests \ {r} : pc'[q] = pc[q] /\ level'[q] = level[q] /\ got'[q] = got[q]
        /\ got' \in [Requests -> 0..Len(inputs)]
    BY <2>1 DEF Send, Goto
  <2> QED
    BY <2>1, <2>2 DEF GotStep, GotOf
<1> QED
  BY <1>1, <1>2, QuietAnswers DEF Send

LEMMA ExpireAnswers ==
  ASSUME AnswerInv, InputsInv', NEW s \in Slots, Expire(s)
  PROVE  AnswerInv'
<1>1. RowsStay
  <2>1. ledger[s] \in LedgerRow /\ ledger \in [Slots -> LedgerRow]
    BY DEF AnswerInv, InputsInv, ShapeOK
  <2>2. ledger'[s] = [ledger[s] EXCEPT !.live = FALSE] /\ \A t \in Slots : t # s => ledger'[t] = ledger[t]
    BY <2>1 DEF Expire
  <2>3. /\ ledger'[s].status = ledger[s].status /\ ledger'[s].result = ledger[s].result
        /\ ledger'[s].hash = ledger[s].hash
    BY <2>1, <2>2 DEF LedgerRow
  <2> QED
    BY <2>2, <2>3 DEF RowsStay
<1> QED
  BY <1>1, OutsideAnswers DEF Expire

(* The completion of a key names what it was completed with.               *)
LEMMA CompletedIs ==
  ASSUME NEW r \in Requests, NEW x
  PROVE  /\ Completed(r, x).status = "completed" /\ Completed(r, x).result = x
         /\ Completed(r, x).hash = RequestHash(r, level[r])
  BY DEF Completed

(* The input that is committed is its key's, and of the request's body.    *)
LEMMA CommitCompletes ==
  ASSUME AnswerInv, InputsInv', NEW r \in Requests, pc[r] = "commit", MayComplete(r),
         inputs' = Append(inputs, [key |-> InputKey(r), hash |-> post[r].wants, content |-> body[r]]),
         ledger' = [ledger EXCEPT ![Here(r)] = Completed(r, Len(inputs'))],
         post' = post, bindings' = bindings
  PROVE  /\ InputsGrow /\ IsOwn(r, Len(inputs))'
         /\ bindings' \in Seq(BindingRow) /\ ResultsOK' /\ BindingsOK'
<1> DEFINE n == Len(inputs) + 1
           new == [key |-> InputKey(r), hash |-> post[r].wants, content |-> body[r]]
<1>1. level[r] = "input" /\ body[r] \in Contents /\ post \in [Requests -> Posts]
  BY DEF AnswerInv, InputsInv, ShapeOK, PlaceOK, PlaceOf
<1>2. Here(r) = <<"input", InputKey(r)>> /\ RequestHash(r, level[r]) = post[r].wants
  BY <1>1 DEF Here, Slot, RequestHash
<1>3. new \in InputRow /\ new.key = InputKey(r) /\ new.hash = post[r].wants
  BY <1>1, SlotTyped DEF InputRow, Levels
<1> HIDE DEF new
<1>4. /\ inputs \in Seq(InputRow) /\ inputs' = Append(inputs, new)
  BY DEF AnswerInv, InputsInv, ShapeOK, new
<1>5. /\ inputs' \in Seq(InputRow) /\ Len(inputs') = n /\ n \in Nat \ {0}
      /\ inputs'[n] = new /\ DOMAIN inputs' = 1..n /\ DOMAIN inputs = 1..(n - 1)
      /\ \A i \in 1..(n - 1) : inputs'[i] = inputs[i]
  BY <1>3, <1>4
<1>6. Len(inputs) <= Len(inputs')
  BY <1>5
<1> HIDE DEF n
<1>7. InputsGrow
  BY <1>5, <1>6 DEF InputsGrow
<1>8. /\ Here(r) \in Slots /\ ledger'[Here(r)] = Completed(r, n)
      /\ \A s \in Slots : s # Here(r) => ledger'[s] = ledger[s]
  <2>1. Here(r) \in Slots /\ ledger \in [Slots -> LedgerRow]
    BY RowTyped DEF AnswerInv, InputsInv, ShapeOK
  <2> QED
    BY <1>5, <2>1
<1>9. IsOwn(r, Len(inputs))'
  BY <1>3, <1>5 DEF IsOwn, InputKey
<1>10. ASSUME NEW s \in Slots PROVE ResultOf(s)'
  <2>1. CASE s = Here(r)
    <3>1. /\ ledger'[s].status = "completed" /\ ledger'[s].result = n
          /\ ledger'[s].hash = post[r].wants /\ s[1] = "input" /\ s[2] = InputKey(r)
      BY <1>2, <1>8, <2>1, CompletedIs
    <3> QED
      BY <1>3, <1>5, <3>1 DEF ResultOf
  <2>2. CASE s # Here(r)
    <3>1. ledger'[s] = ledger[s] /\ ResultOf(s)
      BY <1>8, <2>2 DEF AnswerInv, ResultsOK
    <3> QED
      BY <1>7, <3>1 DEF ResultOf, InputsGrow
  <2> QED
    BY <2>1, <2>2
<1>11. ASSUME NEW b \in DOMAIN bindings PROVE BindingOf(b)'
  <2>1. bindings[b] \in BindingRow /\ BindingOf(b)
    BY DEF AnswerInv, BindingsOK
  <2>2. <<"bridge", bindings[b].key>> \in Slots
    BY <2>1 DEF BindingRow, KeyNames, Slots, Levels
  <2>3. <<"bridge", bindings[b].key>> # Here(r)
    BY <1>2
  <2>4. ledger'[<<"bridge", bindings[b].key>>] = ledger[<<"bridge", bindings[b].key>>]
    BY <1>8, <2>2, <2>3
  <2> QED
    BY <1>7, <2>1, <2>4 DEF BindingOf, InputsGrow
<1> QED
  BY <1>7, <1>9, <1>10, <1>11 DEF AnswerInv, ResultsOK, BindingsOK

LEMMA CommitAnswers ==
  ASSUME AnswerInv, InputsInv', NEW r \in Requests, Commit(r)
  PROVE  AnswerInv'
<1>1. "release" \in Places /\ post' = post /\ bindings' = bindings /\ pc[r] = "commit"
  BY DEF Places, Commit
<1>2. CASE /\ MayComplete(r)
           /\ inputs' = Append(inputs, [key |-> InputKey(r), hash |-> post[r].wants, content |-> body[r]])
           /\ ledger' = [ledger EXCEPT ![Here(r)] = Completed(r, Len(inputs'))]
           /\ \/ Return(r, Len(inputs'))
              \/ Goto(r, "release") /\ UNCHANGED <<level, got>>
  <2>1. /\ InputsGrow /\ IsOwn(r, Len(inputs))'
        /\ bindings' \in Seq(BindingRow) /\ ResultsOK' /\ BindingsOK'
    BY <1>1, <1>2, CommitCompletes
  <2>2. /\ Len(inputs') \in DOMAIN inputs' /\ inputs'[Len(inputs')].key = InputKey(r)
        /\ inputs'[Len(inputs')].hash = post[r].wants
    BY <1>1, <2>1 DEF IsOwn, InputKey
  <2>3. GotStep(r)
    <3>1. CASE Return(r, Len(inputs'))
      BY <2>1, <2>2, <3>1, ReturnGot
    <3>2. CASE Goto(r, "release") /\ UNCHANGED <<level, got>>
      BY <1>1, <2>1, <3>2, GotoGot
    <3> QED
      BY <1>2, <3>1, <3>2
  <2> QED
    BY <2>1, <2>3, GotKept DEF AnswerInv
<1>3. CASE Goto(r, "release") /\ UNCHANGED <<ledger, inputs, level, got>>
  BY <1>1, <1>3, GotoAnswers
<1> QED
  BY <1>2, <1>3, Zenon DEF Commit

(* The results of the ledger once a bridge key holds binding x, the other  *)
(* rows being what they were and the bindings at most one longer.          *)
LEMMA BridgeResults ==
  ASSUME AnswerInv, NEW r \in Requests, NEW x, NEW s \in Slots,
         Here(r) = <<"bridge", post[r].key>>,
         RequestHash(r, level[r]) = post[r].asks,
         post[r].bridged, post[r] \in Posts,
         \A b \in DOMAIN bindings : b \in DOMAIN bindings' /\ bindings'[b] = bindings[b],
         x \in DOMAIN bindings', bindings'[x].identity = post[r].wants, x # 0,
         ledger'[Here(r)] = Completed(r, x),
         \A z \in Slots : z # Here(r) => ledger'[z] = ledger[z],
         post' = post, inputs' = inputs
  PROVE  ResultOf(s)'
<1>1. CASE s = Here(r)
  <2>1. /\ ledger'[s].status = "completed" /\ ledger'[s].result = x
        /\ ledger'[s].hash = post[r].asks
    BY <1>1, CompletedIs
  <2>2. s[1] = "bridge"
    BY <1>1
  <2> QED
    BY <2>1, <2>2 DEF ResultOf
<1>2. CASE s # Here(r)
  <2>1. ledger'[s] = ledger[s] /\ ResultOf(s)
    BY <1>2 DEF AnswerInv, ResultsOK
  <2> QED
    BY <2>1 DEF ResultOf
<1> QED
  BY <1>1, <1>2

(* A bridge key is completed with the binding of its paper.                *)
LEMMA PersistCompletes ==
  ASSUME AnswerInv, NEW r \in Requests, pc[r] = "persist", MayPersist(r),
         bindings' = (IF SameIdentity(r) # {} THEN bindings
                      ELSE Append(bindings, [key |-> post[r].key, identity |-> post[r].wants,
                                             input |-> got[r]])),
         ledger' = [ledger EXCEPT ![Here(r)] =
            Completed(r, CHOOSE b \in DOMAIN bindings' : bindings'[b].identity = post[r].wants)],
         post' = post, inputs' = inputs
  PROVE  bindings' \in Seq(BindingRow) /\ ResultsOK' /\ BindingsOK'
<1> DEFINE new == [key |-> post[r].key, identity |-> post[r].wants, input |-> got[r]]
           x == CHOOSE b \in DOMAIN bindings' : bindings'[b].identity = post[r].wants
<1>1. /\ level[r] = "bridge" /\ post[r].bridged /\ IsOwn(r, got[r]) /\ post[r] \in Posts
      /\ bindings \in Seq(BindingRow)
  BY DEF AnswerInv, InputsInv, ShapeOK, GotOf
<1>2. /\ Here(r) = <<"bridge", post[r].key>> /\ RequestHash(r, level[r]) = post[r].asks
      /\ InputKey(r) = post[r].wants
  BY <1>1 DEF Here, Slot, RequestHash, InputKey
<1>3. new \in BindingRow /\ new.key = post[r].key /\ new.identity = post[r].wants /\ new.input = got[r]
  <2>1. post[r].key \in KeyNames
    BY <1>1 DEF KeyNames
  <2>2. post[r].wants \in KeyNames
    BY <1>1 DEF KeyNames
  <2>3. got[r] \in Nat
    BY DEF AnswerInv
  <2> QED
    BY <2>1, <2>2, <2>3 DEF BindingRow
<1> HIDE DEF new
<1>4. /\ bindings' \in Seq(BindingRow)
      /\ \A b \in DOMAIN bindings : b \in DOMAIN bindings' /\ bindings'[b] = bindings[b]
      /\ \A b \in DOMAIN bindings' : b \in DOMAIN bindings \/ bindings'[b] = new
      /\ \E b \in DOMAIN bindings' : bindings'[b].identity = post[r].wants
  <2>1. CASE SameIdentity(r) # {}
    BY <1>1, <2>1 DEF SameIdentity
  <2>2. CASE SameIdentity(r) = {}
    <3>1. bindings' = Append(bindings, new)
      BY <2>2 DEF new
    <3> QED
      BY <1>1, <1>3, <3>1
  <2> QED
    BY <2>1, <2>2
<1>5. x \in DOMAIN bindings' /\ bindings'[x].identity = post[r].wants
  BY <1>4
<1>6. /\ Here(r) \in Slots /\ ledger'[Here(r)] = Completed(r, x)
      /\ \A s \in Slots : s # Here(r) => ledger'[s] = ledger[s]
  <2>1. Here(r) \in Slots /\ ledger \in [Slots -> LedgerRow]
    BY RowTyped DEF AnswerInv, InputsInv, ShapeOK
  <2> QED
    BY <2>1
<1> HIDE DEF x
<1>7. x # 0
  BY <1>4, <1>5
<1>8. ASSUME NEW s \in Slots PROVE ResultOf(s)'
  BY <1>1, <1>2, <1>4, <1>5, <1>6, <1>7, BridgeResults, Zenon
<1>9. ASSUME NEW b \in DOMAIN bindings' PROVE BindingOf(b)'
  <2>1. CASE b \in DOMAIN bindings
    <3>1. bindings[b] \in BindingRow /\ BindingOf(b) /\ bindings'[b] = bindings[b]
      BY <1>1, <1>4, <2>1 DEF AnswerInv, BindingsOK
    <3>2. <<"bridge", bindings[b].key>> \in Slots
      BY <3>1 DEF BindingRow, KeyNames, Slots, Levels
    <3>3. ledger'[<<"bridge", bindings[b].key>>].status = "completed"
      BY <1>6, <3>1, <3>2, CompletedIs DEF BindingOf
    <3> QED
      BY <3>1, <3>3 DEF BindingOf
  <2>2. CASE bindings'[b] = new
    <3>1. ledger'[<<"bridge", bindings'[b].key>>].status = "completed"
      BY <1>2, <1>3, <1>6, <2>2, CompletedIs
    <3> QED
      BY <1>1, <1>2, <1>3, <2>2, <3>1 DEF BindingOf, IsOwn
  <2> QED
    BY <1>4, <2>1, <2>2
<1> QED
  BY <1>4, <1>8, <1>9 DEF ResultsOK, BindingsOK

LEMMA PersistAnswers ==
  ASSUME AnswerInv, InputsInv', NEW r \in Requests, Persist(r)
  PROVE  AnswerInv'
<1>1. UNCHANGED <<post, inputs, level, got>> /\ pc[r] = "persist" /\ (Goto(r, "failed") \/ Goto(r, "done"))
  BY DEF Persist
<1>2. InputsGrow
  BY <1>1, InputsStay DEF AnswerInv, InputsInv
<1>3. GotStep(r)
  <2>1. /\ pc \in [Requests -> Places] /\ GotOf(r) /\ got \in [Requests -> 0..Len(inputs)]
    BY DEF AnswerInv, InputsInv, ShapeOK
  <2>2. pc'[r] \in {"failed", "done"} /\ \A q \in Requests \ {r} : pc'[q] = pc[q]
    BY <1>1, <2>1 DEF Goto
  <2>3. GotOf(r)'
    BY <1>1, <2>1, <2>2 DEF GotOf, IsOwn, InputKey
  <2> QED
    BY <1>1, <2>1, <2>2, <2>3 DEF GotStep
<1>4. bindings' \in Seq(BindingRow) /\ ResultsOK' /\ BindingsOK'
  <2>1. CASE UNCHANGED <<ledger, bindings>>
    BY <1>1, <2>1, ResultsStay DEF RowsStay
  <2>2. CASE /\ MayPersist(r)
             /\ bindings' = (IF SameIdentity(r) # {} THEN bindings
                             ELSE Append(bindings, [key |-> post[r].key, identity |-> post[r].wants,
                                                    input |-> got[r]]))
             /\ ledger' = [ledger EXCEPT ![Here(r)] =
                   Completed(r, CHOOSE b \in DOMAIN bindings' : bindings'[b].identity = post[r].wants)]
    BY <1>1, <2>2, PersistCompletes
  <2> QED
    BY <2>1, <2>2, Zenon DEF Persist
<1> QED
  BY <1>2, <1>3, <1>4, GotKept DEF AnswerInv

LEMMA NextAnswers == AnswerInv /\ [Next]_vars => AnswerInv'
<1> SUFFICES ASSUME AnswerInv, [Next]_vars PROVE AnswerInv'
  OBVIOUS
<1>0. InputsInv'
  BY NextKeeps, InputsAssumption DEF AnswerInv, StepKeeps
<1>1. ASSUME NEW r \in Requests, Send(r) \/ Step(r) \/ Crash(r) PROVE AnswerInv'
  BY <1>0, <1>1, InputsAssumption, SendAnswers, ReservingAnswers, WorkingAnswers, CommitAnswers,
     PersistAnswers DEF Step
<1>2. ASSUME NEW s \in Slots, Expire(s) PROVE AnswerInv'
  BY <1>0, <1>2, ExpireAnswers
<1>3. CASE UNCHANGED <<post, ledger, inputs, bindings, pc, level, got>>
  BY <1>0, <1>3, OutsideAnswers DEF RowsStay
<1> QED
  BY <1>1, <1>2, <1>3 DEF Next, Delete, vars, store, frame

(* A client is answered with the input of its own request: whatever keys   *)
(* requests share, whoever completes a key, reclaims or replays it.        *)
THEOREM AnswersAreOwn == Spec => []AnswerIsItsOwn
<1>1. AnswerInv => AnswerIsItsOwn
  BY DEF AnswerInv, GotOf, IsOwn, AnswerIsItsOwn
<1> QED
  BY <1>1, AnswerInit, NextAnswers, PTL DEF Spec

(* Under a reservation that stands, the repository finds no binding that   *)
(* contradicts the request: the key of a binding is completed, and all     *)
(* bindings of a paper are to the one input of its identity.               *)
THEOREM BindingsAgree == Spec => []BindingsNeverConflict
<1>1. ASSUME AnswerInv, NEW r \in Requests, pc[r] = "persist", MayComplete(r)
      PROVE  MayPersist(r)
  <2>1. /\ level[r] = "bridge" /\ post[r].bridged /\ IsOwn(r, got[r]) /\ OneInputPerKey
        /\ Here(r) = <<"bridge", post[r].key>> /\ InputKey(r) = post[r].wants
    BY <1>1 DEF AnswerInv, InputsInv, GotOf, Here, Slot, InputKey
  <2>2. SameKey(r) = {}
    <3>1. ledger[<<"bridge", post[r].key>>].status # "completed"
      BY <1>1, <2>1 DEF MayComplete, Row
    <3> QED
      BY <1>1, <3>1 DEF AnswerInv, BindingsOK, BindingOf, SameKey
  <2>3. ASSUME NEW b \in SameIdentity(r) PROVE bindings[b].input = got[r]
    <3>1. /\ bindings[b].input \in DOMAIN inputs
          /\ inputs[bindings[b].input].key = inputs[got[r]].key
      BY <1>1, <2>1 DEF AnswerInv, BindingsOK, BindingOf, SameIdentity, IsOwn
    <3> QED
      BY <2>1, <3>1 DEF OneInputPerKey, IsOwn
  <2> QED
    BY <1>1, <2>2, <2>3 DEF MayPersist
<1>2. AnswerInv => BindingsNeverConflict
  BY <1>1 DEF BindingsNeverConflict
<1> QED
  BY <1>2, AnswerInit, NextAnswers, PTL DEF Spec
----
(* What the argument so far had no use for: the deleted, the stored, the   *)
(* clock and the faults.                                                   *)
OutsideOK ==
  /\ removed \subseteq DOMAIN inputs /\ blobs \subseteq Contents /\ behind \subseteq Requests
  /\ faults \in 0..MaxFaults

(* A step has a fault at most, and leaves the deleted and the stored alone. *)
LEMMA FaultsTyped ==
  ASSUME OutsideOK, Fault \/ NoFault PROVE faults' \in 0..MaxFaults
  BY InputsAssumption DEF OutsideOK, InputsAssumption, Fault, NoFault

(* What a service reads, it reads in the database as it is.                *)
LEMMA RequestOutside ==
  ASSUME InputsInv, OutsideOK, NEW r \in Requests, Send(r) \/ Step(r) \/ Crash(r)
  PROVE  OutsideOK'
<1>1. DOMAIN inputs \subseteq DOMAIN inputs'
  <2>1. \E S : inputs \in Seq(S)
    BY DEF InputsInv, ShapeOK
  <2>2. \/ inputs' = inputs
        \/ inputs' = Append(inputs, [key |-> InputKey(r), hash |-> post[r].wants, content |-> body[r]])
    BY DEF Send, Step, Crash, store, Look, Insert, Reread, Fetch, Store, Commit, Release, Persist
  <2>3. ASSUME NEW e, inputs' = Append(inputs, e) PROVE DOMAIN inputs \subseteq DOMAIN inputs'
    BY <2>1, <2>3
  <2> QED
    BY <2>2, <2>3
<1>2. removed' = removed
  BY DEF Send, Step, Crash, store, Look, Insert, Reread, Fetch, Store, Commit, Release, Persist
<1>3. blobs' \subseteq Contents
  <2>1. CASE Store(r)
    <3>1. body[r] \in Contents
      BY <2>1 DEF Store, InputsInv, PlaceOK, PlaceOf
    <3> QED
      BY <2>1, <3>1 DEF OutsideOK, Store
  <2>2. CASE blobs' = blobs
    BY <2>2 DEF OutsideOK
  <2> QED
    BY <2>1, <2>2
       DEF Send, Step, Crash, store, Look, Insert, Reread, Fetch, Commit, Release, Persist
<1>4. behind' \subseteq Requests
  <2>1. behind' = behind \/ behind' = behind \ {r}
    BY DEF Send, Step, Crash, Look, Insert, Reread, Fetch, Store, Commit, Release, Persist
  <2> QED
    BY <2>1 DEF OutsideOK
<1>5. faults' \in 0..MaxFaults
  <2>1. Fault \/ NoFault
    BY DEF Send, Step, Crash, Look, Insert, Reread, Fetch, Store, Commit, Release, Persist, NoFault
  <2> QED
    BY <2>1, FaultsTyped
<1> QED
  BY <1>1, <1>2, <1>3, <1>4, <1>5 DEF OutsideOK

LEMMA NextOutside == InputsInv /\ OutsideOK /\ [Next]_vars => OutsideOK'
<1> SUFFICES ASSUME InputsInv, OutsideOK, [Next]_vars PROVE OutsideOK'
  OBVIOUS
<1>1. ASSUME NEW r \in Requests, Send(r) \/ Step(r) \/ Crash(r) PROVE OutsideOK'
  BY <1>1, RequestOutside
<1>2. ASSUME NEW s \in Slots, Expire(s) PROVE OutsideOK'
  <2>1. UNCHANGED <<removed, inputs, blobs>> /\ behind' \subseteq Requests /\ (Fault \/ NoFault)
    BY <1>2 DEF Expire, OutsideOK
  <2> QED
    BY <2>1, FaultsTyped DEF OutsideOK
<1>3. ASSUME NEW i \in DOMAIN inputs, Delete(i) PROVE OutsideOK'
  BY <1>3 DEF Delete, frame, OutsideOK
<1>4. CASE UNCHANGED vars
  BY <1>4 DEF vars, store, frame, OutsideOK
<1> QED
  BY <1>1, <1>2, <1>3, <1>4 DEF Next

(* Ledger, inputs, bindings, store and requests keep their shape, and a    *)
(* result always refers to a row of its own table.                         *)
THEOREM InputsTypes == Spec => []TypeOK
<1>1. AnswerInv /\ OutsideOK => TypeOK
  <2> SUFFICES ASSUME AnswerInv, OutsideOK PROVE TypeOK
    OBVIOUS
  <2>1. ASSUME NEW s \in Slots
        PROVE  /\ ledger[s].status \in {"absent", "pending", "completed"}
               /\ ledger[s].holder \in Requests \cup {None}
               /\ ledger[s].live => ledger[s].status = "pending"
               /\ ledger[s].status = "completed" <=> ledger[s].result # 0
               /\ ledger[s].result \in 0..(IF s[1] = "bridge" THEN Len(bindings) ELSE Len(inputs))
    <3>1. ledger[s] \in LedgerRow /\ ResultOf(s)
      BY DEF AnswerInv, InputsInv, ShapeOK, ResultsOK
    <3>2. ledger[s].live => ledger[s].status = "pending"
      BY DEF AnswerInv, InputsInv, RowsOK
    <3>3. s[1] = "bridge" \/ s[1] = "input"
      BY DEF Slots, Levels
    <3>4. DOMAIN inputs = 1..Len(inputs) /\ DOMAIN bindings = 1..Len(bindings)
          /\ Len(inputs) \in Nat /\ Len(bindings) \in Nat
      BY DEF AnswerInv, InputsInv, ShapeOK
    <3>5. ledger[s].result \in 0..(IF s[1] = "bridge" THEN Len(bindings) ELSE Len(inputs))
      BY <3>1, <3>3, <3>4 DEF ResultOf
    <3> QED
      BY <3>1, <3>2, <3>5 DEF LedgerRow, ResultOf
  <2> QED
    BY <2>1 DEF TypeOK, OutsideOK, AnswerInv, InputsInv, ShapeOK
<1>2. Init => OutsideOK
  BY InputsAssumption DEF InputsAssumption, Init, OutsideOK
<1>3. AnswerInv => InputsInv
  BY DEF AnswerInv
<1> QED
  BY <1>1, <1>2, <1>3, AnswerInit, NextAnswers, NextOutside, PTL DEF Spec
====
