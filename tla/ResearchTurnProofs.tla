---- MODULE ResearchTurnProofs ----
(***************************************************************************)
(* A project has at most one active execution, an ended turn keeps its     *)
(* outcome, and the Research Thread tells of every turn what its execution *)
(* record says, unsplit, for any number of keys, requests and workers.  Of *)
(* a run it tells every milestone after the first at most once.            *)
(***************************************************************************)
EXTENDS ResearchTurn, TLAPS

(* What of the type invariant the safety argument needs: the execution     *)
(* records are total functions of the keys, and requests carry keys.       *)
RecordsOK ==
  /\ execution \in [Keys -> {"none", "pending", "running", "succeeded", "failed"}]
  /\ key \in [Requests -> Keys]

TurnInv == RecordsOK /\ OneActiveExecution

(* Initially no key has an execution.                                      *)
LEMMA InitEstablishes == Init => TurnInv
  BY DEF Init, TurnInv, RecordsOK, OneActiveExecution, Active

(* Steps that leave the execution records and the carried keys alone.      *)
LEMMA OthersKeep == TurnInv /\ UNCHANGED <<execution, key>> => TurnInv'
  BY DEF TurnInv, RecordsOK, OneActiveExecution

(* An admission ends every stale execution and leaves one active: the new. *)
LEMMA AdmitKeeps ==
  ASSUME NEW r \in Requests, TurnInv, Admit(r) PROVE TurnInv'
  BY DEF Admit, TurnInv, RecordsOK, OneActiveExecution, Active, Stale, requestVars

(* A replay only ends executions.                                          *)
LEMMA ReplayKeeps ==
  ASSUME NEW r \in Requests, TurnInv, ReplaySucceeded(r) PROVE TurnInv'
  BY DEF ReplaySucceeded, TurnInv, RecordsOK, OneActiveExecution, Active, Stale

(* A started execution was active before, an ended one is not any more.    *)
LEMMA TurnKeeps ==
  ASSUME NEW r \in Requests, TurnInv, Start(r) \/ Persist(r) \/ Fail(r)
  PROVE  TurnInv'
<1>1. key[r] \in Keys
  BY DEF TurnInv, RecordsOK
<1>2. CASE Start(r)
  BY <1>1, <1>2 DEF Start, HoldsLease, TurnInv, RecordsOK, OneActiveExecution, Active
<1>3. CASE Persist(r)
  BY <1>1, <1>3 DEF Persist, HoldsLease, TurnInv, RecordsOK, OneActiveExecution, Active
<1>4. CASE Fail(r)
  BY <1>1, <1>4 DEF Fail, HoldsLease, TurnInv, RecordsOK, OneActiveExecution, Active
<1> QED
  BY <1>2, <1>3, <1>4

(* Every step of the system keeps the invariant.                           *)
LEMMA NextKeeps == TurnInv /\ [Next]_vars => TurnInv'
<1> SUFFICES ASSUME TurnInv, [Next]_vars PROVE TurnInv'
  OBVIOUS
<1>1. ASSUME NEW r \in Requests, RequestStep(r) PROVE TurnInv'
  <2>1. CASE Admit(r)
    BY <2>1, AdmitKeeps
  <2>2. CASE ReplaySucceeded(r)
    BY <2>2, ReplayKeeps
  <2>3. CASE Start(r) \/ Persist(r) \/ Fail(r)
    BY <2>3, TurnKeeps
  <2>4. CASE \/ AdmitBegin(r) \/ AdmitRaises(r) \/ StartRefused(r) \/ CallModel(r)
             \/ PersistBegin(r) \/ PersistRaises(r) \/ FailBegin(r)
    BY <2>4, OthersKeep DEF AdmitBegin, AdmitRaises, StartRefused, CallModel,
      PersistBegin, PersistRaises, FailBegin, executionVars
  <2> QED
    BY <1>1, <2>1, <2>2, <2>3, <2>4 DEF RequestStep
<1>2. ASSUME NEW r \in Requests, NEW k \in Keys, Submit(r, k) PROVE TurnInv'
  BY <1>2 DEF Submit, executionVars, TurnInv, RecordsOK, OneActiveExecution
<1>3. ASSUME NEW r \in Requests, Crash(r) PROVE TurnInv'
  BY <1>3, OthersKeep DEF Crash, executionVars
<1>4. ASSUME NEW k \in Keys, LeaseExpires(k) PROVE TurnInv'
  BY <1>4, OthersKeep DEF LeaseExpires, requestVars
<1>5. ASSUME NEW w \in Writers, Grant(w) \/ WriterStep(w) \/ WriterCrash(w) PROVE TurnInv'
  BY <1>5, OthersKeep DEF Grant, WriterStep, WriterCrash, Proceed, Scan, ReadSequence,
    Insert, InsertConflicts, executionVars, requestVars
<1>6. CASE UNCHANGED vars
  BY <1>6, OthersKeep DEF vars, executionVars, requestVars
<1> QED
  BY <1>1, <1>2, <1>3, <1>4, <1>5, <1>6 DEF Next

(* Every step of the system keeps the outcome of a turn that has ended.    *)
LEMMA NextKeepsOutcomes ==
  ASSUME TurnInv, [Next]_vars, NEW k \in Keys, execution[k] \in {"succeeded", "failed"}
  PROVE  execution'[k] = execution[k]
<1>1. ASSUME NEW r \in Requests, RequestStep(r) PROVE execution'[k] = execution[k]
  <2>1. CASE Admit(r) \/ ReplaySucceeded(r)
    BY <2>1 DEF Admit, ReplaySucceeded, TurnInv, RecordsOK, Stale, Active
  <2>2. CASE Start(r) \/ Persist(r) \/ Fail(r)
    BY <2>2 DEF Start, Persist, Fail, HoldsLease, TurnInv, RecordsOK, Active
  <2>3. CASE \/ AdmitBegin(r) \/ AdmitRaises(r) \/ StartRefused(r) \/ CallModel(r)
             \/ PersistBegin(r) \/ PersistRaises(r) \/ FailBegin(r)
    BY <2>3 DEF AdmitBegin, AdmitRaises, StartRefused, CallModel,
      PersistBegin, PersistRaises, FailBegin, executionVars
  <2> QED
    BY <1>1, <2>1, <2>2, <2>3 DEF RequestStep
<1>2. ASSUME ~ \E r \in Requests : RequestStep(r) PROVE execution' = execution
  BY <1>2 DEF Next, Submit, Crash, LeaseExpires, Grant, WriterStep, WriterCrash, Proceed,
    Scan, ReadSequence, Insert, InsertConflicts, vars, executionVars
<1> QED
  BY <1>1, <1>2

(* The unique active execution per project, for every number of requests.  *)
THEOREM OneExecutionAtATime == Spec => []OneActiveExecution
<1>1. Spec => []TurnInv
  BY InitEstablishes, NextKeeps, PTL DEF Spec
<1>2. TurnInv => OneActiveExecution
  BY DEF TurnInv
<1> QED
  BY <1>1, <1>2, PTL

(* A late result, a late failure or a repeated request never rewrites the  *)
(* outcome of a turn that has ended.                                       *)
THEOREM EndedTurnsKeepTheirOutcome == Spec => OutcomeIsFinal
<1>1. Spec => []TurnInv
  BY InitEstablishes, NextKeeps, PTL DEF Spec
<1>2. TurnInv /\ [Next]_vars => [ \A k \in Keys : execution[k] \in {"succeeded", "failed"} =>
                                  execution'[k] = execution[k] ]_vars
  BY NextKeepsOutcomes
<1> QED
  BY <1>1, <1>2, PTL DEF Spec, OutcomeIsFinal

-----------------------------------------------------------------------------
(* What an appended entry does to the story of a key.                      *)
LEMMA KindsAfterEntry ==
  ASSUME NEW s \in Seq(Entries), NEW e \in Entries, NEW k \in Keys
  PROVE  KindsIn(Append(s, e), k) =
           IF e.of = k THEN KindsIn(s, k) \cup {e.kind} ELSE KindsIn(s, k)
<1> DEFINE t == Append(s, e)
<1>1. /\ DOMAIN s = 1..Len(s) /\ DOMAIN t = 1..(Len(s) + 1) /\ Len(s) \in Nat
      /\ \A i \in 1..Len(s) : t[i] = s[i]
      /\ t[Len(s) + 1] = e
  OBVIOUS
<1>2. DOMAIN t = DOMAIN s \cup {Len(s) + 1}
  BY <1>1
<1> QED
  BY <1>1, <1>2 DEF KindsIn

(* An entry that comes after everything its key was told keeps the order.  *)
LEMMA OrderAfterEntry ==
  ASSUME NEW s \in Seq(Entries), NEW e \in Entries, NEW k \in Keys, InOrder(s, k),
         e.of = k => \A kind \in KindsIn(s, k) : Rank(kind) < Rank(e.kind)
  PROVE  InOrder(Append(s, e), k)
<1> DEFINE t == Append(s, e)
<1>1. /\ DOMAIN s = 1..Len(s) /\ DOMAIN t = 1..(Len(s) + 1) /\ Len(s) \in Nat
      /\ \A i \in 1..Len(s) : t[i] = s[i]
      /\ t[Len(s) + 1] = e
  OBVIOUS
<1> SUFFICES ASSUME NEW i \in DOMAIN t, NEW j \in DOMAIN t, i < j, t[i].of = k, t[j].of = k
             PROVE  Rank(t[i].kind) < Rank(t[j].kind)
  BY DEF InOrder
<1>2. i \in DOMAIN s /\ t[i] = s[i]
  BY <1>1
<1>3. CASE j \in DOMAIN s
  BY <1>1, <1>2, <1>3 DEF InOrder
<1>4. CASE j = Len(s) + 1
  <2>1. s[i].kind \in KindsIn(s, k)
    BY <1>2 DEF KindsIn
  <2> QED
    BY <1>1, <1>2, <1>4, <2>1
<1> QED
  BY <1>1, <1>3, <1>4

(* The story of k that a record with this status stands for.               *)
Story(s, k, status) == KindsIn(s, k) \in KindsOf(status) /\ InOrder(s, k)

(* Every kind of entry of a turn is an entry of the thread.                *)
LEMMA TurnEntries ==
  ASSUME NEW k \in Keys,
         NEW kind \in {"user", "reasoning", "message", "question", "unavailable"}
  PROVE  /\ Entry(kind, k) \in Entries
         /\ Entry(kind, k).of = k /\ Entry(kind, k).kind = kind
  BY DEF Entry, Entries

(* An entry of another key, or of the run, does not touch the story of k.  *)
LEMMA StoryOfOthers ==
  ASSUME NEW s \in Seq(Entries), NEW e \in Entries, NEW k \in Keys, e.of # k,
         NEW status, Story(s, k, status)
  PROVE  Story(Append(s, e), k, status)
<1>1. InOrder(Append(s, e), k)
  BY OrderAfterEntry DEF Story
<1> QED
  BY <1>1, KindsAfterEntry DEF Story

(* The story begins with the user's message.                               *)
LEMMA StoryBegins ==
  ASSUME NEW s \in Seq(Entries), NEW k \in Keys, Story(s, k, "none")
  PROVE  Story(Append(s, Entry("user", k)), k, "pending")
<1>1. KindsIn(s, k) = {}
  BY DEF Story, KindsOf, Active
<1>2. InOrder(Append(s, Entry("user", k)), k)
  BY <1>1, TurnEntries, OrderAfterEntry DEF Story
<1>3. KindsIn(Append(s, Entry("user", k)), k) = {"user"}
  BY <1>1, TurnEntries, KindsAfterEntry
<1> QED
  BY <1>2, <1>3 DEF Story, KindsOf, Active

(* A turn that is interrupted or fails is told unavailable.                *)
LEMMA StoryFails ==
  ASSUME NEW s \in Seq(Entries), NEW k \in Keys, NEW status \in Active, Story(s, k, status)
  PROVE  Story(Append(s, Entry("unavailable", k)), k, "failed")
<1>1. KindsIn(s, k) = {"user"}
  BY DEF Story, KindsOf, Active
<1>2. InOrder(Append(s, Entry("unavailable", k)), k)
  <2>1. Rank("user") < Rank("unavailable")
    BY DEF Rank
  <2> QED
    BY <1>1, <2>1, TurnEntries, OrderAfterEntry DEF Story
<1>3. KindsIn(Append(s, Entry("unavailable", k)), k) = {"user", "unavailable"}
  BY <1>1, TurnEntries, KindsAfterEntry
<1> QED
  BY <1>2, <1>3 DEF Story, KindsOf, Active

(* An outcome is two or three entries, appended one after another.         *)
LEMMA OutcomeEntries ==
  ASSUME NEW s \in Seq(Entries), NEW k \in Keys, NEW entries \in Outcomes(k)
  PROVE  LET two == Append(Append(s, Entry("reasoning", k)), Entry("message", k))
         IN  s \o entries \in {two, Append(two, Entry("question", k))}
<1> DEFINE a == Entry("reasoning", k)
           b == Entry("message", k)
           c == Entry("question", k)
<1>1. a \in Entries /\ b \in Entries /\ c \in Entries
  BY TurnEntries
<1>2. entries = <<a, b>> \/ entries = <<a, b, c>>
  BY DEF Outcomes
<1> HIDE DEF a, b, c
<1>3. s \o <<a, b>> = Append(Append(s, a), b)
  BY <1>1
<1>4. s \o <<a, b, c>> = Append(Append(Append(s, a), b), c)
  BY <1>1
<1> QED
  BY <1>2, <1>3, <1>4 DEF a, b, c

(* A turn that succeeds is told its reasoning, its message, its question.  *)
LEMMA StorySucceeds ==
  ASSUME NEW s \in Seq(Entries), NEW k \in Keys, NEW status \in Active, Story(s, k, status),
         NEW entries \in Outcomes(k)
  PROVE  Story(s \o entries, k, "succeeded")
<1> DEFINE one == Append(s, Entry("reasoning", k))
           two == Append(one, Entry("message", k))
           three == Append(two, Entry("question", k))
<1>1. one \in Seq(Entries) /\ two \in Seq(Entries)
  BY TurnEntries
<1>2. /\ Rank("user") < Rank("reasoning") /\ Rank("user") < Rank("message")
      /\ Rank("user") < Rank("question") /\ Rank("reasoning") < Rank("message")
      /\ Rank("reasoning") < Rank("question") /\ Rank("message") < Rank("question")
  BY DEF Rank
<1>3. KindsIn(s, k) = {"user"} /\ InOrder(s, k)
  BY DEF Story, KindsOf, Active
<1>4. KindsIn(one, k) = {"user", "reasoning"} /\ InOrder(one, k)
  BY <1>2, <1>3, TurnEntries, KindsAfterEntry, OrderAfterEntry
<1>5. KindsIn(two, k) = {"user", "reasoning", "message"} /\ InOrder(two, k)
  <2> HIDE DEF one
  <2> QED
    BY <1>1, <1>2, <1>4, TurnEntries, KindsAfterEntry, OrderAfterEntry
<1>6. KindsIn(three, k) = {"user", "reasoning", "message", "question"} /\ InOrder(three, k)
  <2> HIDE DEF two
  <2> QED
    BY <1>1, <1>2, <1>5, TurnEntries, KindsAfterEntry, OrderAfterEntry
<1>7. s \o entries = two \/ s \o entries = three
  BY OutcomeEntries
<1> HIDE DEF two, three
<1> QED
  BY <1>5, <1>6, <1>7 DEF Story, KindsOf, Active

-----------------------------------------------------------------------------
(* No other turn has told anything after k began.                          *)
HasLastWord(s, k) ==
  \A i, j \in DOMAIN s : i < j /\ s[i].of = k /\ s[j].kind # "milestone" => s[j].of = k

(* The turn that has the last word goes on, and keeps it.                  *)
LEMMA TurnGoesOn ==
  ASSUME NEW s \in Seq(Entries), NEW e \in Entries, Unsplit(s), HasLastWord(s, e.of)
  PROVE  Unsplit(Append(s, e)) /\ HasLastWord(Append(s, e), e.of)
<1> DEFINE t == Append(s, e)
<1>1. /\ DOMAIN s = 1..Len(s) /\ DOMAIN t = 1..(Len(s) + 1) /\ Len(s) \in Nat
      /\ \A i \in 1..Len(s) : t[i] = s[i]
      /\ t[Len(s) + 1] = e
  OBVIOUS
<1> HIDE DEF t
<1>2. HasLastWord(t, e.of)
  BY <1>1 DEF HasLastWord
<1>3. Unsplit(t)
  BY <1>1, <1>2 DEF Unsplit, HasLastWord
<1> QED
  BY <1>2, <1>3 DEF t

(* A turn of which nothing is told has the last word trivially.            *)
LEMMA UntoldHasLastWord ==
  ASSUME NEW s \in Seq(Entries), NEW k \in Keys, Story(s, k, "none")
  PROVE  HasLastWord(s, k)
  BY DEF Story, KindsOf, Active, KindsIn, HasLastWord

(* A milestone splits no turn and takes the last word from nobody.         *)
LEMMA MilestoneSplitsNothing ==
  ASSUME NEW s \in Seq(Entries), NEW e \in Entries, e.kind = "milestone", Unsplit(s)
  PROVE  /\ Unsplit(Append(s, e))
         /\ \A k \in Keys : HasLastWord(s, k) => HasLastWord(Append(s, e), k)
<1> DEFINE t == Append(s, e)
<1>1. /\ DOMAIN s = 1..Len(s) /\ DOMAIN t = 1..(Len(s) + 1) /\ Len(s) \in Nat
      /\ \A i \in 1..Len(s) : t[i] = s[i] /\ s[i] \in Entries
      /\ t[Len(s) + 1] = e
  OBVIOUS
<1>2. e.of \notin Keys
  BY TurnAssumption DEF Entries, Milestones
<1>3. \A i \in 1..Len(s) : s[i].kind # "milestone" => s[i].of # e.of
  BY <1>1, TurnAssumption DEF Entries, Milestones
<1> HIDE DEF t
<1>4. \A k \in Keys : HasLastWord(s, k) => HasLastWord(t, k)
  BY <1>1 DEF HasLastWord
<1>5. Unsplit(t)
  BY <1>1, <1>3 DEF Unsplit
<1> QED
  BY <1>4, <1>5 DEF t

-----------------------------------------------------------------------------
(* The type invariant is inductive.                                        *)
LEMMA InitTypes == Init => TypeOK
  BY TurnAssumption DEF Init, TypeOK, Milestones, Entries

LEMMA StaleMessagesTyped == StaleMessages \in Seq(Entries)
<1>1. CASE Stale = {}
  BY <1>1 DEF StaleMessages
<1>2. CASE Stale # {}
  BY <1>2, TurnEntries DEF StaleMessages, Stale
<1> QED
  BY <1>1, <1>2

LEMMA RequestStepTyped ==
  ASSUME TypeOK, NEW r \in Requests, RequestStep(r)
  PROVE  TypeOK'
<1>1. key[r] \in Keys /\ Len(thread) \in Nat /\ r \in Requests \cup {Nobody}
  BY DEF TypeOK
<1>2. CASE \/ AdmitBegin(r) \/ PersistBegin(r) \/ FailBegin(r)
  BY <1>1, <1>2 DEF AdmitBegin, PersistBegin, FailBegin, Lock, Goto, TypeOK, executionVars, runVars
<1>3. CASE Admit(r)
  <2>1. thread \o StaleMessages \o << Entry("user", key[r]) >> \in Seq(Entries)
    BY <1>1, StaleMessagesTyped, TurnEntries DEF TypeOK
  <2> QED
    BY <1>1, <1>3, <2>1 DEF Admit, Unlock, Goto, TypeOK, runVars
<1>4. CASE ReplaySucceeded(r)
  <2>1. thread \o StaleMessages \in Seq(Entries)
    BY StaleMessagesTyped DEF TypeOK
  <2> QED
    BY <1>4, <2>1 DEF ReplaySucceeded, Unlock, Goto, TypeOK, runVars
<1>5. CASE AdmitRaises(r) \/ PersistRaises(r)
  <2>1. /\ UNCHANGED <<executionVars, thread, key, runVars, faults>> /\ Unlock(r)
        /\ Goto(r, "idle") \/ Goto(r, "fail")
    BY <1>5 DEF AdmitRaises, PersistRaises
  <2> QED
    BY <2>1 DEF Unlock, Goto, TypeOK, executionVars, runVars
<1>9. CASE StartRefused(r) \/ CallModel(r)
  <2>1. /\ UNCHANGED <<executionVars, thread, lock, key, base, runVars, faults>>
        /\ Goto(r, "idle") \/ Goto(r, "persist") \/ Goto(r, "fail")
    BY <1>9 DEF StartRefused, CallModel
  <2> QED
    BY <2>1 DEF Goto, TypeOK, executionVars, runVars
<1>6. CASE Start(r)
  BY <1>1, <1>6 DEF Start, Goto, TypeOK, executionVars, runVars
<1>7. CASE Persist(r)
  <2>1. \A entries \in Outcomes(key[r]) : thread \o entries \in Seq(Entries)
    <3> TAKE entries \in Outcomes(key[r])
    <3> DEFINE one == Append(thread, Entry("reasoning", key[r]))
               two == Append(one, Entry("message", key[r]))
    <3>1. one \in Seq(Entries)
      BY <1>1, TurnEntries DEF TypeOK
    <3>2. two \in Seq(Entries)
      BY <1>1, <3>1, TurnEntries
    <3>3. thread \o entries \in {two, Append(two, Entry("question", key[r]))}
      BY <1>1, OutcomeEntries DEF TypeOK
    <3> HIDE DEF two
    <3>4. Append(two, Entry("question", key[r])) \in Seq(Entries)
      BY <1>1, <3>2, TurnEntries
    <3> QED
      BY <3>2, <3>3, <3>4, Zenon
  <2>2. thread' \in Seq(Entries)
    BY <1>7, <2>1 DEF Persist
  <2>3. faults' \in 0..MaxFaults
    BY <1>7, TurnAssumption DEF Persist, TypeOK
  <2> QED
    BY <1>1, <1>7, <2>2, <2>3 DEF Persist, Unlock, Goto, TypeOK, runVars
<1>8. CASE Fail(r)
  <2>1. Append(thread, Entry("unavailable", key[r])) \in Seq(Entries)
    BY <1>1, TurnEntries DEF TypeOK
  <2> QED
    BY <1>1, <1>8, <2>1 DEF Fail, Unlock, Goto, TypeOK, runVars
<1> QED
  BY <1>2, <1>3, <1>4, <1>5, <1>6, <1>7, <1>8, <1>9 DEF RequestStep

LEMMA WriterStepTyped ==
  ASSUME TypeOK, NEW w \in Writers, Grant(w) \/ WriterStep(w) \/ WriterCrash(w)
  PROVE  TypeOK'
<1> DEFINE Places == {"idle", "scan", "read", "insert", "told", "done", "stopped"}
<1>1. /\ narrator[w].milestone \in Milestones /\ Len(thread) \in Nat
      /\ \A m \in Milestones : m \in 0..MilestoneCount
      /\ \A m \in Milestones : m # MilestoneCount => m + 1 \in Milestones
  BY TurnAssumption DEF TypeOK, Milestones
<1>2. \A place \in Places : At(w, place) => narrator' \in
        [Writers -> [at : Places, milestone : Milestones, base : Nat]]
  <2> SUFFICES ASSUME NEW place \in Places, At(w, place)
               PROVE  narrator' \in
                        [Writers -> [at : Places, milestone : Milestones, base : Nat]]
    OBVIOUS
  <2>1. narrator[w] \in [at : Places, milestone : Milestones, base : Nat]
    BY DEF TypeOK
  <2>2. [narrator[w] EXCEPT !.at = place, !.base = 0] \in
          [at : Places, milestone : Milestones, base : Nat]
    BY <2>1
  <2>3. narrator' = [narrator EXCEPT ![w] = [narrator[w] EXCEPT !.at = place, !.base = 0]]
    BY <2>1 DEF At, TypeOK
  <2> QED
    BY <2>2, <2>3 DEF TypeOK
<1>3. CASE Grant(w)
  BY <1>3 DEF Grant, TypeOK, executionVars, requestVars
<1>4. CASE Proceed(w)
  <2>1. progress' \in 0..MilestoneCount
    BY <1>1, <1>4 DEF Proceed, TypeOK
  <2>2. narrator' \in [Writers -> [at : Places, milestone : Milestones, base : Nat]]
    <3>1. CASE At(w, "idle") \/ At(w, "done")
      BY <1>2, <3>1
    <3>2. CASE /\ narrator[w].milestone # MilestoneCount
               /\ narrator' = [narrator EXCEPT ![w].at = "scan", ![w].milestone = @ + 1]
      <4> DEFINE next == narrator[w].milestone + 1
      <4>1. narrator' = [narrator EXCEPT ![w].at = "scan", ![w].milestone = next]
        BY <3>2
      <4>2. next \in Milestones
        BY <1>1, <3>2
      <4> HIDE DEF next
      <4> QED
        BY <4>1, <4>2 DEF TypeOK
    <3> QED
      BY <1>4, <3>1, <3>2 DEF Proceed
  <2> QED
    BY <1>4, <2>1, <2>2 DEF Proceed, TypeOK, executionVars, requestVars
<1>5. CASE Scan(w)
  BY <1>2, <1>5 DEF Scan, TypeOK, executionVars, requestVars
<1>6. CASE ReadSequence(w)
  BY <1>1, <1>6 DEF ReadSequence, TypeOK, executionVars, requestVars
<1>7. CASE Insert(w)
  <2>1. Entry("milestone", narrator[w].milestone) \in Entries
    BY <1>1 DEF Entry, Entries
  <2>2. thread' \in Seq(Entries)
    BY <1>7, <2>1 DEF Insert, TypeOK
  <2> QED
    BY <1>2, <1>7, <2>2 DEF Insert, TypeOK, executionVars, requestVars
<1>8. CASE InsertConflicts(w)
  BY <1>2, <1>8 DEF InsertConflicts, Abandon, TypeOK, executionVars, requestVars
<1>9. CASE WriterCrash(w)
  <2>1. faults' \in 0..MaxFaults
    BY <1>9, TurnAssumption DEF WriterCrash, TypeOK
  <2> QED
    BY <1>2, <1>9, <2>1 DEF WriterCrash, Abandon, TypeOK, executionVars, requestVars
<1> QED
  BY <1>3, <1>4, <1>5, <1>6, <1>7, <1>8, <1>9 DEF WriterStep

LEMMA NextTyped == TypeOK /\ [Next]_vars => TypeOK'
<1> SUFFICES ASSUME TypeOK, [Next]_vars PROVE TypeOK'
  OBVIOUS
<1>1. ASSUME NEW r \in Requests, NEW k \in Keys, Submit(r, k) PROVE TypeOK'
  BY <1>1 DEF Submit, Goto, TypeOK, executionVars, runVars
<1>2. ASSUME NEW r \in Requests, Crash(r) PROVE TypeOK'
  <2>1. faults' \in 0..MaxFaults
    BY <1>2, TurnAssumption DEF Crash, TypeOK
  <2> QED
    BY <1>2, <2>1 DEF Crash, Goto, TypeOK, executionVars, runVars
<1>3. ASSUME NEW k \in Keys, LeaseExpires(k) PROVE TypeOK'
  BY <1>3 DEF LeaseExpires, TypeOK, requestVars, runVars
<1>4. CASE UNCHANGED vars
  BY <1>4 DEF vars, TypeOK, executionVars, requestVars, runVars
<1> QED
  BY <1>1, <1>2, <1>3, <1>4, RequestStepTyped, WriterStepTyped DEF Next

(* Every row, request and worker is in one of its states.                  *)
THEOREM TurnTypes == Spec => []TypeOK
  BY InitTypes, NextTyped, PTL DEF Spec

-----------------------------------------------------------------------------
(* The strengthening: the thread tells of every turn what its record says, *)
(* and the turn that is active is the last one that was told of.           *)
ToldAs(s, status) ==
  /\ \A k \in Keys : Story(s, k, status[k])
  /\ Unsplit(s)
  /\ \A k \in Keys : status[k] \in Active => HasLastWord(s, k)

ThreadInv == TypeOK /\ TurnInv /\ ToldAs(thread, execution)

LEMMA InitTold == Init => ThreadInv
<1> SUFFICES ASSUME Init PROVE ThreadInv
  OBVIOUS
<1>1. thread = << >> /\ execution = [k \in Keys |-> "none"]
  BY DEF Init
<1>2. \A k \in Keys : Story(thread, k, execution[k])
  <2> TAKE k \in Keys
  <2>1. KindsIn(thread, k) = {}
    BY <1>1 DEF KindsIn
  <2>2. InOrder(thread, k)
    BY <1>1 DEF InOrder
  <2> QED
    BY <1>1, <2>1, <2>2 DEF Story, KindsOf, Active
<1>3. Unsplit(thread) /\ \A k \in Keys : HasLastWord(thread, k)
  BY <1>1 DEF Unsplit, HasLastWord
<1> QED
  BY <1>2, <1>3, InitTypes, InitEstablishes DEF ThreadInv, ToldAs

(* One more entry of k, when k has the last word.                          *)
LEMMA EntryOfTurn ==
  ASSUME NEW s \in Seq(Entries), NEW k \in Keys,
         NEW kind \in {"user", "reasoning", "message", "question", "unavailable"},
         Unsplit(s), HasLastWord(s, k)
  PROVE  LET t == Append(s, Entry(kind, k))
         IN  /\ t \in Seq(Entries) /\ Unsplit(t) /\ HasLastWord(t, k)
             /\ \A j \in Keys \ {k}, status \in {"none", "succeeded", "failed"} :
                  Story(s, j, status) => Story(t, j, status)
<1>1. Entry(kind, k) \in Entries /\ Entry(kind, k).of = k
  BY TurnEntries
<1>2. Append(s, Entry(kind, k)) \in Seq(Entries)
  BY <1>1
<1>3. Unsplit(Append(s, Entry(kind, k))) /\ HasLastWord(Append(s, Entry(kind, k)), k)
  <2>1. HasLastWord(s, Entry(kind, k).of)
    BY <1>1
  <2> QED
    BY <1>1, <2>1, TurnGoesOn
<1>4. ASSUME NEW j \in Keys \ {k}, NEW status \in {"none", "succeeded", "failed"},
             Story(s, j, status)
      PROVE  Story(Append(s, Entry(kind, k)), j, status)
  BY <1>1, <1>4, StoryOfOthers
<1> QED
  BY <1>2, <1>3, <1>4

(* Closing the stale execution tells its turn unavailable.                 *)
AfterReclaim == [k \in Keys |-> IF k \in Stale THEN "failed" ELSE execution[k]]

LEMMA ReclaimIsTold ==
  ASSUME ThreadInv
  PROVE  /\ thread \o StaleMessages \in Seq(Entries)
         /\ ToldAs(thread \o StaleMessages, AfterReclaim)
<1>1. thread \in Seq(Entries) /\ ToldAs(thread, execution) /\ OneActiveExecution
      /\ execution \in [Keys -> {"none", "pending", "running", "succeeded", "failed"}]
  BY DEF ThreadInv, TypeOK, TurnInv
<1>2. CASE Stale = {}
  <2>1. thread \o StaleMessages = thread
    BY <1>1, <1>2 DEF StaleMessages
  <2>2. \A k \in Keys : AfterReclaim[k] = execution[k]
    BY <1>2 DEF AfterReclaim
  <2> QED
    BY <1>1, <2>1, <2>2 DEF ToldAs
<1>3. CASE Stale # {}
  <2> DEFINE k == CHOOSE j \in Stale : TRUE
  <2>1. k \in Keys /\ execution[k] \in Active /\ Stale = {k}
    BY <1>1, <1>3 DEF Stale, OneActiveExecution
  <2>2. thread \o StaleMessages = Append(thread, Entry("unavailable", k))
    <3>1. Entry("unavailable", k) \in Entries
      BY <2>1, TurnEntries
    <3> HIDE DEF k
    <3>2. thread \o << Entry("unavailable", k) >> = Append(thread, Entry("unavailable", k))
      BY <1>1, <3>1
    <3> QED
      BY <1>3, <3>2 DEF StaleMessages, k
  <2> HIDE DEF k
  <2>3. \A j \in Keys \ {k} : /\ execution[j] \in {"none", "succeeded", "failed"}
                              /\ AfterReclaim[j] = execution[j]
    BY <1>1, <2>1 DEF OneActiveExecution, Active, AfterReclaim
  <2>4. AfterReclaim[k] = "failed"
    BY <2>1 DEF AfterReclaim
  <2> DEFINE t == Append(thread, Entry("unavailable", k))
  <2>5. /\ t \in Seq(Entries) /\ Unsplit(t)
        /\ \A j \in Keys \ {k} : Story(t, j, execution[j])
    BY <1>1, <2>1, <2>3, EntryOfTurn DEF ToldAs
  <2>6. Story(t, k, "failed")
    BY <1>1, <2>1, StoryFails DEF ToldAs
  <2>7. \A j \in Keys : AfterReclaim[j] \notin Active
    BY <2>3, <2>4 DEF Active
  <2> HIDE DEF t
  <2>8. ToldAs(t, AfterReclaim)
    <3>1. \A j \in Keys : Story(t, j, AfterReclaim[j])
      BY <2>3, <2>4, <2>5, <2>6, Zenon
    <3> QED
      BY <2>5, <2>7, <3>1 DEF ToldAs
  <2> QED
    BY <2>2, <2>5, <2>8, Zenon DEF t
<1> QED
  BY <1>2, <1>3

(* An admission tells the user's message of the new turn.                  *)
LEMMA AdmitIsTold ==
  ASSUME NEW r \in Requests, ThreadInv, Admit(r)
  PROVE  ToldAs(thread, execution)'
<1> DEFINE k == key[r]
           s == thread \o StaleMessages
           t == Append(s, Entry("user", k))
<1>1. /\ k \in Keys /\ Entry("user", k) \in Entries
      /\ execution \in [Keys -> {"none", "pending", "running", "succeeded", "failed"}]
  BY TurnEntries DEF ThreadInv, TypeOK
<1>2. s \in Seq(Entries) /\ ToldAs(s, AfterReclaim)
  BY ReclaimIsTold
<1>3. thread' = t
  <2>1. thread' = s \o << Entry("user", k) >>
    BY DEF Admit
  <2> HIDE DEF s, k
  <2> QED
    BY <1>1, <1>2, <2>1
<1>4. /\ execution[k] = "none" /\ AfterReclaim[k] = "none" /\ execution'[k] = "pending"
      /\ \A j \in Keys \ {k} : execution'[j] = AfterReclaim[j]
      /\ \A j \in Keys \ {k} : AfterReclaim[j] \in {"none", "succeeded", "failed"}
  BY <1>1 DEF Admit, AfterReclaim, Stale, Active
<1> HIDE DEF s, k
<1>5. HasLastWord(s, k)
  BY <1>1, <1>2, <1>4, UntoldHasLastWord DEF ToldAs
<1>6. /\ Unsplit(t) /\ HasLastWord(t, k)
      /\ \A j \in Keys \ {k} : Story(t, j, AfterReclaim[j])
  BY <1>1, <1>2, <1>4, <1>5, EntryOfTurn DEF ToldAs
<1>7. Story(t, k, "pending")
  BY <1>1, <1>2, <1>4, StoryBegins DEF ToldAs
<1> HIDE DEF t
<1>8. \A j \in Keys : Story(t, j, execution'[j])
  BY <1>4, <1>6, <1>7, Zenon
<1>9. \A j \in Keys : execution'[j] \in Active => HasLastWord(t, j)
  BY <1>4, <1>6 DEF Active
<1> QED
  BY <1>3, <1>6, <1>8, <1>9 DEF ToldAs

(* The outcome of the active turn is told by it alone.                     *)
LEMMA OutcomeIsTold ==
  ASSUME ThreadInv, NEW k \in Keys, execution[k] \in Active,
         NEW t \in Seq(Entries), Unsplit(t),
         \A j \in Keys \ {k}, status \in {"none", "succeeded", "failed"} :
           Story(thread, j, status) => Story(t, j, status),
         NEW status \in {"succeeded", "failed"}, Story(t, k, status)
  PROVE  ToldAs(t, [execution EXCEPT ![k] = status])
<1> DEFINE st == [execution EXCEPT ![k] = status]
<1>1. /\ st[k] = status
      /\ \A j \in Keys \ {k} : st[j] = execution[j]
      /\ \A j \in Keys \ {k} : execution[j] \in {"none", "succeeded", "failed"}
  BY DEF ThreadInv, TypeOK, TurnInv, OneActiveExecution, Active
<1> HIDE DEF st
<1>2. \A j \in Keys : Story(t, j, st[j])
  BY <1>1 DEF ThreadInv, ToldAs
<1>3. \A j \in Keys : st[j] \notin Active
  BY <1>1 DEF Active
<1>4. ToldAs(t, st)
  BY <1>2, <1>3 DEF ToldAs
<1> QED
  BY <1>4 DEF st

LEMMA PersistIsTold ==
  ASSUME NEW r \in Requests, ThreadInv, Persist(r)
  PROVE  ToldAs(thread, execution)'
<1> DEFINE k == key[r]
           one == Append(thread, Entry("reasoning", k))
           two == Append(one, Entry("message", k))
           three == Append(two, Entry("question", k))
           Kept(s, t) == \A j \in Keys \ {k}, status \in {"none", "succeeded", "failed"} :
                           Story(s, j, status) => Story(t, j, status)
<1>1. /\ k \in Keys /\ execution[k] \in Active /\ thread \in Seq(Entries)
      /\ Unsplit(thread) /\ HasLastWord(thread, k) /\ Story(thread, k, execution[k])
  BY DEF Persist, HoldsLease, ThreadInv, TypeOK, ToldAs, Active
<1>2. PICK entries \in Outcomes(k) : thread' = thread \o entries
  BY DEF Persist
<1>3. one \in Seq(Entries) /\ Unsplit(one) /\ HasLastWord(one, k) /\ Kept(thread, one)
  BY <1>1, EntryOfTurn
<1>4. two \in Seq(Entries) /\ Unsplit(two) /\ HasLastWord(two, k) /\ Kept(thread, two)
  <2> HIDE DEF one, k
  <2>1. two \in Seq(Entries) /\ Unsplit(two) /\ HasLastWord(two, k) /\ Kept(one, two)
    BY <1>1, <1>3, EntryOfTurn
  <2> QED
    BY <1>3, <2>1
<1>5. three \in Seq(Entries) /\ Unsplit(three) /\ Kept(thread, three)
  <2> HIDE DEF two, k
  <2>1. three \in Seq(Entries) /\ Unsplit(three) /\ Kept(two, three)
    BY <1>1, <1>4, EntryOfTurn
  <2> QED
    BY <1>4, <2>1
<1>6. thread' = two \/ thread' = three
  BY <1>1, <1>2, OutcomeEntries
<1>7. Story(thread', k, "succeeded")
  BY <1>1, <1>2, StorySucceeds
<1>8. execution' = [execution EXCEPT ![k] = "succeeded"]
  BY DEF Persist
<1> HIDE DEF k, two, three
<1>9. thread' \in Seq(Entries) /\ Unsplit(thread') /\ Kept(thread, thread')
  BY <1>4, <1>5, <1>6
<1>10. ToldAs(thread', [execution EXCEPT ![k] = "succeeded"])
  BY <1>1, <1>7, <1>9, OutcomeIsTold
<1> QED
  BY <1>8, <1>10, Zenon DEF ToldAs, Unsplit, HasLastWord, Story

LEMMA FailIsTold ==
  ASSUME NEW r \in Requests, ThreadInv, Fail(r)
  PROVE  ToldAs(thread, execution)'
<1> DEFINE k == key[r]
           t == Append(thread, Entry("unavailable", k))
<1>1. k \in Keys /\ thread \in Seq(Entries)
  BY DEF ThreadInv, TypeOK
<1>2. CASE UNCHANGED <<execution, thread>>
  BY <1>2 DEF ThreadInv, ToldAs
<1>3. CASE /\ HoldsLease(r, Active) /\ thread' = t
           /\ execution' = [execution EXCEPT ![k] = "failed"]
  <2>1. /\ execution[k] \in Active /\ Story(thread, k, execution[k])
        /\ Unsplit(thread) /\ HasLastWord(thread, k)
    BY <1>1, <1>3 DEF HoldsLease, ThreadInv, ToldAs
  <2>2. /\ t \in Seq(Entries) /\ Unsplit(t)
        /\ \A j \in Keys \ {k}, status \in {"none", "succeeded", "failed"} :
             Story(thread, j, status) => Story(t, j, status)
    BY <1>1, <2>1, EntryOfTurn
  <2>3. Story(t, k, "failed")
    BY <1>1, <2>1, StoryFails
  <2> HIDE DEF k, t
  <2>4. ToldAs(t, [execution EXCEPT ![k] = "failed"])
    BY <1>1, <2>1, <2>2, <2>3, OutcomeIsTold
  <2>5. ToldAs(thread', execution')
    BY <1>3, <2>4, Zenon
  <2> QED
    BY <2>5, Zenon DEF ToldAs, Unsplit, HasLastWord, Story
<1> QED
  BY <1>2, <1>3 DEF Fail

(* A started turn tells what the pending one told.                         *)
LEMMA StartIsTold ==
  ASSUME NEW r \in Requests, ThreadInv, Start(r)
  PROVE  ToldAs(thread, execution)'
<1>1. /\ key[r] \in Keys /\ execution[key[r]] = "pending" /\ thread' = thread
      /\ execution'[key[r]] = "running"
      /\ \A j \in Keys \ {key[r]} : execution'[j] = execution[j]
  BY DEF Start, HoldsLease, ThreadInv, TypeOK
<1>2. \A j \in Keys : Story(thread, j, execution[j])
  BY DEF ThreadInv, ToldAs
<1>3. KindsOf("running") = KindsOf("pending")
  BY DEF KindsOf, Active
<1>4. \A j \in Keys : Story(thread, j, execution'[j])
  BY <1>1, <1>2, <1>3 DEF Story
<1> QED
  BY <1>1, <1>4 DEF ToldAs, ThreadInv, Active

(* A milestone is nobody's turn.                                           *)
LEMMA InsertIsTold ==
  ASSUME NEW w \in Writers, ThreadInv, Insert(w)
  PROVE  ToldAs(thread, execution)'
<1> DEFINE e == Entry("milestone", narrator[w].milestone)
<1>1. /\ e \in Entries /\ e.kind = "milestone" /\ e.of \notin Keys
      /\ thread \in Seq(Entries) /\ ToldAs(thread, execution)
  BY TurnAssumption DEF ThreadInv, TypeOK, Entry, Entries, Milestones
<1>2. thread' = Append(thread, e) /\ execution' = execution
  BY DEF Insert, executionVars
<1> HIDE DEF e
<1>3. \A j \in Keys : Story(Append(thread, e), j, execution[j])
  BY <1>1, StoryOfOthers DEF ToldAs
<1>4. ToldAs(thread', execution')
  BY <1>1, <1>2, <1>3, MilestoneSplitsNothing DEF ToldAs
<1> QED
  BY <1>4, Zenon DEF ToldAs, Unsplit, HasLastWord, Story

LEMMA NextTold == ThreadInv /\ [Next]_vars => ThreadInv'
<1> SUFFICES ASSUME ThreadInv, [Next]_vars PROVE ToldAs(thread, execution)'
  BY NextTyped, NextKeeps DEF ThreadInv
<1>1. CASE UNCHANGED <<thread, execution>>
  BY <1>1 DEF ThreadInv, ToldAs
<1>2. ASSUME NEW r \in Requests, RequestStep(r), ~ UNCHANGED <<thread, execution>>
      PROVE  ToldAs(thread, execution)'
  <2>1. Admit(r) \/ ReplaySucceeded(r) \/ Start(r) \/ Persist(r) \/ Fail(r)
    BY <1>2 DEF RequestStep, AdmitBegin, AdmitRaises, StartRefused, CallModel, PersistBegin,
      PersistRaises, FailBegin, executionVars
  <2>2. CASE ReplaySucceeded(r)
    <3>1. thread' = thread \o StaleMessages /\ execution' = AfterReclaim
      BY <2>2 DEF ReplaySucceeded, AfterReclaim
    <3>2. ToldAs(thread', execution')
      BY <3>1, ReclaimIsTold
    <3> QED
      BY <3>2, Zenon DEF ToldAs, Unsplit, HasLastWord, Story
  <2> QED
    BY <2>1, <2>2, AdmitIsTold, StartIsTold, PersistIsTold, FailIsTold
<1>3. ASSUME NEW w \in Writers, Insert(w) PROVE ToldAs(thread, execution)'
  BY <1>3, InsertIsTold
<1> QED
  BY <1>1, <1>2, <1>3 DEF Next, Submit, Crash, LeaseExpires, Grant, WriterStep, WriterCrash,
    Proceed, Scan, ReadSequence, InsertConflicts, vars, executionVars

(* The thread and the execution records never disagree about a turn, for   *)
(* any number of requests that repeat, crash or lose their lease.          *)
THEOREM TheThreadTellsTheRecord == Spec => []OneOutcomePerTurn
<1>1. Spec => []ThreadInv
  BY InitTold, NextTold, PTL DEF Spec
<1>2. ThreadInv => OneOutcomePerTurn
  BY DEF ThreadInv, ToldAs, Story, OneOutcomePerTurn
<1> QED
  BY <1>1, <1>2, PTL

(* No turn's entries are split by another turn's.                          *)
THEOREM TurnsStayWhole == Spec => []TurnsDoNotInterleave
<1>1. Spec => []ThreadInv
  BY InitTold, NextTold, PTL DEF Spec
<1>2. ThreadInv => TurnsDoNotInterleave
  BY DEF ThreadInv, ToldAs, TurnsDoNotInterleave
<1> QED
  BY <1>1, <1>2, PTL

-----------------------------------------------------------------------------
(* The narration of the run.  Only the worker that led the run through its *)
(* first milestone is at a later one, and it is the leader from then on; if *)
(* it is about to insert that milestone it has not found it.               *)
TurnTales == [kind : {"user", "reasoning", "message", "question", "unavailable"}, of : Keys]

LeadsAlone(w) == narrator[w].milestone # 1 => leader = w /\ progress # 0

HasLooked(w) ==
  narrator[w].at \in {"read", "insert"} /\ narrator[w].milestone # 1
    => ~ Narrated(narrator[w].milestone)

NarrationInv ==
  TypeOK /\ StepsAreToldOnce /\ \A w \in Writers : LeadsAlone(w) /\ HasLooked(w)

LEMMA TalesOfTurns ==
  ASSUME NEW k \in Keys,
         NEW kind \in {"user", "reasoning", "message", "question", "unavailable"}
  PROVE  Entry(kind, k) \in TurnTales
  BY DEF Entry, TurnTales

LEMMA StaleMessagesAreTales == StaleMessages \in Seq(TurnTales)
<1>1. CASE Stale = {}
  BY <1>1 DEF StaleMessages
<1>2. CASE Stale # {}
  BY <1>2, TalesOfTurns DEF StaleMessages, Stale
<1> QED
  BY <1>1, <1>2

(* Whatever a request appends is about turns.                              *)
LEMMA RequestsTellOfTurns ==
  ASSUME TypeOK, NEW r \in Requests, RequestStep(r)
  PROVE  \E tales \in Seq(TurnTales) : thread' = thread \o tales
<1>1. key[r] \in Keys /\ thread \in Seq(Entries)
  BY DEF TypeOK
<1>2. CASE thread' = thread
  <2>1. << >> \in Seq(TurnTales) /\ thread \o << >> = thread
    BY <1>1
  <2> QED
    BY <1>2, <2>1
<1>3. CASE Admit(r)
  <2> DEFINE tail == << Entry("user", key[r]) >>
  <2>1. tail \in Seq(TurnTales)
    BY <1>1, TalesOfTurns
  <2>2. thread' = (thread \o StaleMessages) \o tail
    BY <1>3 DEF Admit
  <2> HIDE DEF tail
  <2>3. (thread \o StaleMessages) \o tail = thread \o (StaleMessages \o tail)
    BY <1>1, <2>1, StaleMessagesAreTales, StaleMessagesTyped
  <2>4. StaleMessages \o tail \in Seq(TurnTales)
    BY <2>1, StaleMessagesAreTales
  <2> QED
    BY <2>2, <2>3, <2>4
<1>4. CASE ReplaySucceeded(r)
  BY <1>4, StaleMessagesAreTales DEF ReplaySucceeded
<1>5. CASE Persist(r)
  <2>1. PICK entries \in Outcomes(key[r]) : thread' = thread \o entries
    BY <1>5 DEF Persist
  <2>2. entries \in Seq(TurnTales)
    <3> DEFINE a == Entry("reasoning", key[r])
               b == Entry("message", key[r])
               c == Entry("question", key[r])
    <3>1. a \in TurnTales /\ b \in TurnTales /\ c \in TurnTales
      BY <1>1, TalesOfTurns
    <3>2. entries = <<a, b>> \/ entries = <<a, b, c>>
      BY DEF Outcomes
    <3> HIDE DEF a, b, c
    <3>3. << a, b >> \in Seq(TurnTales)
      BY <3>1
    <3>4. << a, b, c >> \in Seq(TurnTales)
      BY <3>1
    <3> QED
      BY <3>2, <3>3, <3>4, Zenon
  <2> QED
    BY <2>1, <2>2
<1>6. CASE Fail(r) /\ thread' # thread
  <2> DEFINE e == Entry("unavailable", key[r])
  <2>1. e \in TurnTales /\ e \in Entries
    BY <1>1, TalesOfTurns, TurnEntries
  <2>2. thread' = Append(thread, e)
    BY <1>6 DEF Fail
  <2> HIDE DEF e
  <2>3. Append(thread, e) = thread \o << e >> /\ << e >> \in Seq(TurnTales)
    BY <1>1, <2>1
  <2> QED
    BY <2>2, <2>3
<1> QED
  BY <1>2, <1>3, <1>4, <1>5, <1>6 DEF RequestStep, AdmitBegin, AdmitRaises, Start, StartRefused,
    CallModel, PersistBegin, PersistRaises, FailBegin

(* What is told of turns neither tells a milestone nor repeats one.        *)
LEMMA TalesTellNoMilestone ==
  ASSUME TypeOK, NEW tales \in Seq(TurnTales), thread' = thread \o tales
  PROVE  /\ StepsAreToldOnce => StepsAreToldOnce'
         /\ \A m \in Milestones : Narrated(m)' => Narrated(m)
<1> DEFINE n == Len(thread)
<1>1. thread \in Seq(Entries) /\ n \in Nat
  BY DEF TypeOK
<1>2. ASSUME NEW i \in DOMAIN thread'
      PROVE  \/ i \in DOMAIN thread /\ thread'[i] = thread[i]
             \/ thread'[i] \in TurnTales
  BY <1>1, <1>2
<1>3. \A e \in TurnTales : e.kind # "milestone" /\ e.of \in Keys
  BY DEF TurnTales
<1>4. StepsAreToldOnce => StepsAreToldOnce'
  BY <1>2, <1>3 DEF StepsAreToldOnce, ToldOnce, Milestones
<1>5. \A m \in Milestones : Narrated(m)' => Narrated(m)
  BY <1>2, <1>3, TurnAssumption DEF Narrated, Milestones
<1> QED
  BY <1>4, <1>5

(* The insertion of a milestone that is not told tells it once; the first  *)
(* milestone is no concern of the others.                                  *)
LEMMA InsertTellsOnce ==
  ASSUME NEW w \in Writers, TypeOK, StepsAreToldOnce, HasLooked(w), Insert(w)
  PROVE  /\ StepsAreToldOnce'
         /\ \A m \in Milestones \ {narrator[w].milestone} : Narrated(m)' => Narrated(m)
<1> DEFINE m == narrator[w].milestone
           e == Entry("milestone", m)
<1>1. thread \in Seq(Entries) /\ thread' = Append(thread, e) /\ e.of = m
  BY DEF TypeOK, Insert, Entry
<1>2. m = 1 \/ ~ Narrated(m)
  BY DEF HasLooked, Insert
<1> HIDE DEF e, m
<1>3. ASSUME NEW i \in DOMAIN thread'
      PROVE  \/ i \in DOMAIN thread /\ thread'[i] = thread[i]
             \/ i = Len(thread) + 1 /\ thread'[i] = e
  BY <1>1, <1>3
<1>4. m = 1 \/ \A i \in DOMAIN thread : thread[i] # e
  BY <1>1, <1>2 DEF Narrated
<1>5. StepsAreToldOnce'
  BY <1>1, <1>3, <1>4 DEF StepsAreToldOnce, ToldOnce, Milestones
<1>6. \A n \in Milestones \ {m} : Narrated(n)' => Narrated(n)
  BY <1>1, <1>3 DEF Narrated
<1> QED
  BY <1>5, <1>6 DEF m

(* A step of a worker that inserts nothing repeats no milestone, and a     *)
(* worker that goes on past the first milestone leads the run.             *)
LEMMA WriterNarrates ==
  ASSUME NarrationInv, NEW w \in Writers, ~ Insert(w),
         Grant(w) \/ WriterStep(w) \/ WriterCrash(w)
  PROVE  StepsAreToldOnce' /\ \A v \in Writers : LeadsAlone(v)' /\ HasLooked(v)'
<1>1. /\ thread' = thread /\ \A v \in Writers \ {w} : narrator'[v] = narrator[v]
      /\ StepsAreToldOnce /\ \A v \in Writers : LeadsAlone(v) /\ HasLooked(v)
      /\ w \in DOMAIN narrator /\ DOMAIN narrator[w] = {"at", "milestone", "base"}
      /\ narrator[w].milestone \in Milestones /\ 0 \notin Milestones
  BY TurnAssumption DEF NarrationInv, TypeOK, Milestones, Grant, WriterStep, WriterCrash, Proceed, Scan,
    ReadSequence, InsertConflicts, Abandon, At
<1>2. StepsAreToldOnce'
  BY <1>1 DEF StepsAreToldOnce, ToldOnce
<1>3. \A v \in Writers \ {w} : HasLooked(v)'
  BY <1>1 DEF HasLooked, Narrated
<1>4. CASE Scan(w)
  <2>1. /\ narrator'[w].milestone = narrator[w].milestone
        /\ narrator'[w].at = IF Narrated(narrator[w].milestone) THEN "told" ELSE "read"
        /\ leader' = leader /\ progress' = progress
    BY <1>1, <1>4 DEF Scan, At
  <2> QED
    BY <1>1, <1>2, <1>3, <2>1 DEF HasLooked, LeadsAlone, Narrated
<1>5. CASE ReadSequence(w)
  <2>1. /\ narrator'[w].milestone = narrator[w].milestone /\ narrator[w].at = "read"
        /\ leader' = leader /\ progress' = progress
    BY <1>1, <1>5 DEF ReadSequence
  <2> QED
    BY <1>1, <1>2, <1>3, <2>1 DEF HasLooked, LeadsAlone, Narrated
<1>6. CASE InsertConflicts(w) \/ WriterCrash(w)
  <2>1. /\ narrator'[w].milestone = narrator[w].milestone
        /\ narrator'[w].at \notin {"read", "insert"}
        /\ leader' = leader /\ progress' = progress
    BY <1>1, <1>6 DEF InsertConflicts, WriterCrash, Abandon, At
  <2> QED
    BY <1>1, <1>2, <1>3, <2>1 DEF HasLooked, LeadsAlone
<1>7. CASE Grant(w)
  <2>1. /\ narrator'[w].milestone = narrator[w].milestone
        /\ narrator'[w].at \notin {"read", "insert"} /\ progress = 0
    BY <1>1, <1>7 DEF Grant
  <2> QED
    BY <1>1, <1>2, <1>3, <2>1 DEF HasLooked, LeadsAlone
<1>8. CASE Proceed(w)
  <2>1. narrator'[w].at \notin {"read", "insert"} /\ leader' = leader
    BY <1>1, <1>8 DEF Proceed, At
  <2>2. CASE leader # w
    <3>1. narrator'[w].milestone = narrator[w].milestone /\ progress' = progress
      BY <1>1, <1>8, <2>2 DEF Proceed, At
    <3> QED
      BY <1>1, <1>2, <1>3, <2>1, <3>1 DEF HasLooked, LeadsAlone
  <2>3. CASE leader = w
    <3>1. progress' # 0
      BY <1>1, <1>8, <2>3 DEF Proceed
    <3>2. \A v \in Writers \ {w} : narrator[v].milestone = 1
      BY <1>1, <2>3 DEF LeadsAlone
    <3> QED
      BY <1>1, <1>2, <1>3, <2>1, <2>3, <3>1, <3>2 DEF HasLooked, LeadsAlone
  <2> QED
    BY <2>2, <2>3
<1> QED
  BY <1>4, <1>5, <1>6, <1>7, <1>8 DEF WriterStep

LEMMA NextNarrates == NarrationInv /\ [Next]_vars => NarrationInv'
<1> SUFFICES ASSUME NarrationInv, [Next]_vars
             PROVE  StepsAreToldOnce' /\ \A w \in Writers : LeadsAlone(w)' /\ HasLooked(w)'
  BY NextTyped DEF NarrationInv
<1>1. /\ TypeOK /\ StepsAreToldOnce
      /\ \A w \in Writers :
           narrator[w].milestone \in Milestones /\ LeadsAlone(w) /\ HasLooked(w)
  BY DEF NarrationInv, TypeOK
<1>2. ASSUME NEW r \in Requests, RequestStep(r)
      PROVE  StepsAreToldOnce' /\ \A w \in Writers : LeadsAlone(w)' /\ HasLooked(w)'
  <2>1. PICK tales \in Seq(TurnTales) : thread' = thread \o tales
    BY <1>1, <1>2, RequestsTellOfTurns
  <2>2. narrator' = narrator /\ leader' = leader /\ progress' = progress
    BY <1>2 DEF RequestStep, AdmitBegin, Admit, ReplaySucceeded, AdmitRaises, Start, StartRefused,
      CallModel, PersistBegin, Persist, PersistRaises, FailBegin, Fail, runVars
  <2>3. /\ StepsAreToldOnce'
        /\ \A m \in Milestones : Narrated(m)' => Narrated(m)
    BY <1>1, <2>1, TalesTellNoMilestone
  <2> QED
    BY <1>1, <2>2, <2>3 DEF HasLooked, LeadsAlone
<1>3. ASSUME NEW w \in Writers, Insert(w)
      PROVE  StepsAreToldOnce' /\ \A v \in Writers : LeadsAlone(v)' /\ HasLooked(v)'
  <2>1. /\ w \in DOMAIN narrator /\ DOMAIN narrator[w] = {"at", "milestone", "base"}
        /\ narrator'[w].at = "told" /\ narrator'[w].milestone = narrator[w].milestone
        /\ leader' = leader /\ progress' = progress
        /\ \A v \in Writers \ {w} : narrator'[v] = narrator[v]
    BY <1>1, <1>3 DEF Insert, At, TypeOK
  <2>2. /\ StepsAreToldOnce'
        /\ \A m \in Milestones \ {narrator[w].milestone} : Narrated(m)' => Narrated(m)
    BY <1>1, <1>3, InsertTellsOnce
  <2>3. \A v \in Writers \ {w} :
          narrator[v].milestone = 1 \/ narrator[v].milestone # narrator[w].milestone
    BY <1>1 DEF LeadsAlone
  <2> QED
    BY <1>1, <2>1, <2>2, <2>3 DEF HasLooked, LeadsAlone
<1>4. CASE UNCHANGED <<thread, narrator, leader, progress>>
  BY <1>1, <1>4 DEF HasLooked, LeadsAlone, StepsAreToldOnce, ToldOnce, Narrated
<1> QED
  BY <1>2, <1>3, <1>4, WriterNarrates DEF Next, Submit, Crash, LeaseExpires, vars, runVars

(* By any number of workers, with crashes, takeovers and any traffic of    *)
(* turns, what a run says of its steps and of its end it says once.  Only  *)
(* its first words can be repeated.                                        *)
THEOREM StepsAreNarratedOnce == Spec => []StepsAreToldOnce
<1>1. Init => NarrationInv
  BY InitTypes DEF Init, NarrationInv, StepsAreToldOnce, ToldOnce, LeadsAlone, HasLooked
<1>2. NarrationInv => StepsAreToldOnce
  BY DEF NarrationInv
<1> QED
  BY <1>1, <1>2, NextNarrates, PTL DEF Spec
====
