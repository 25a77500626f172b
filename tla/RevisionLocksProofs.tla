---- MODULE RevisionLocksProofs ----
(***************************************************************************)
(* What feedback, plans and confirmations were made of is still current    *)
(* when they commit: for any number of requests, artifacts and steps, on   *)
(* whichever thread they run and wherever they are suspended or aborted.   *)
(***************************************************************************)
EXTENDS RevisionLocks, FiniteSetTheorems, TLAPS

Phases == {"idle", "open", "committed", "refused", "aborted"}
IsSeq(s) == \E S : s \in Seq(S)

ShapeOK ==
  /\ phase \in [Txns -> Phases]
  /\ script = [t \in Txns |-> script[t]]
  /\ held = [t \in Txns |-> held[t]]
  /\ seen = [t \in Txns |-> seen[t]]
  /\ subject = [t \in Confirmers |-> subject[t]]
  /\ plan = [p \in Planners |-> plan[p]]
  /\ latest = [a \in Artifacts |-> latest[a]]
  /\ run \in [status : {"running", "completed", "stranded"}, step : Nat]
  /\ run.status = "running" => run.step \in 1..Len(Steps)

(* Two transactions share a row in KEY SHARE only.                         *)
RowsAreExclusive ==
  \A t, u \in Txns : t # u =>
    \A l \in held[t], m \in held[u] : l.row = m.row => Compatible(l.mode, m.mode)

(* A plan is written once, by the request that made it.                    *)
PlansAreMade == \A p \in Planners : plan[p] # <<>> => phase[p] = "committed"

(* What a script still has before it.                                      *)
ReadIn(s) == \E i \in 1..Len(s) : s[i].do = "read"
LockIn(s, l) == \E i \in 1..Len(s) : s[i] = l
LockFirst(s, l) == \E i \in 1..Len(s) : s[i] = l /\ \A k \in 1..i : s[k].do # "read"

(* The locks under which a request reads, and what it read; an upload      *)
(* reads nothing that it goes by.                                          *)
Needs(t) ==
  IF t \in Ingestions THEN {}
  ELSE IF t \in Feedbacks THEN {Update(ArtifactRow(About[t]))}
  ELSE IF t \in Planners THEN {Update(ProjectRow)}
  ELSE {Update(ArtifactRow(a)) : a \in Artifacts}

Sees(t) ==
  IF t \in Ingestions THEN TRUE
  ELSE IF t \in Feedbacks THEN seen[t][About[t]] = latest[About[t]]
  ELSE seen[t] = latest /\ (t \in Confirmers => plan[subject[t]] = latest)

(* A request has yet to read, and will have its locks by then, or it has   *)
(* them and what it read is current.                                       *)
BeforeReading(t) ==
  ReadIn(script[t]) /\ \A l \in Needs(t) : l \in held[t] \/ LockFirst(script[t], l)
AfterReading(t) == Needs(t) \subseteq held[t] /\ Sees(t)

RequestOK(t) ==
  /\ BeforeReading(t) \/ AfterReading(t)
  /\ t \in Confirmers => subject[t] \in Planners /\ plan[subject[t]] # <<>>

(* The publication of a step commits under the locks of its artifacts, and *)
(* under a KEY SHARE of the project if it has any.                         *)
Publishes(l) ==
  \/ \E a \in Steps[run.step] : l = Update(ArtifactRow(a))
  \/ Steps[run.step] # {} /\ l = KeyShare(ProjectRow)

WorkerOK ==
  /\ run.status = "running"
  /\ \A l : Publishes(l) => l \in held[Worker] \/ LockIn(script[Worker], l)

TxnOK(t) ==
  phase[t] = "open" =>
    IsSeq(script[t]) /\ (t \in Requests => RequestOK(t)) /\ (t = Worker => WorkerOK)

LockInv == ShapeOK /\ RowsAreExclusive /\ PlansAreMade /\ \A t \in Txns : TxnOK(t)

----
(* A finite set of numbers is enumerated without omission: the ranks of    *)
(* its members are pairwise different, and as many as there are members.   *)
LEMMA OrderedIsAll ==
  ASSUME NEW S \in SUBSET Nat, IsFiniteSet(S)
  PROVE  /\ Ordered(S) \in Seq(S)
         /\ \A i \in S : \E n \in 1..Len(Ordered(S)) : Ordered(S)[n] = i
<1> DEFINE upTo(i) == {j \in S : j <= i}
           rank == [i \in S |-> Cardinality(upTo(i))]
           ranks == 1..Cardinality(S)
<1>1. Cardinality(S) \in Nat
  BY FS_CardinalityType
<1>2. IsFiniteSet(ranks) /\ Cardinality(ranks) = Cardinality(S)
  BY <1>1, FS_Interval
<1>3. ASSUME NEW i \in S PROVE IsFiniteSet(upTo(i)) /\ Cardinality(upTo(i)) \in ranks
  <2>1. upTo(i) \in SUBSET S /\ upTo(i) # {}
    OBVIOUS
  <2>2. IsFiniteSet(upTo(i)) /\ Cardinality(upTo(i)) <= Cardinality(S)
    BY <2>1, FS_Subset
  <2>3. Cardinality(upTo(i)) \in Nat /\ Cardinality(upTo(i)) # 0
    BY <2>1, <2>2, FS_CardinalityType, FS_EmptySet
  <2> QED
    BY <1>1, <2>2, <2>3
<1>4. ASSUME NEW i \in S, NEW j \in S, i < j PROVE Cardinality(upTo(i)) # Cardinality(upTo(j))
  <2>0. i \in Nat /\ j \in Nat /\ i < j
    BY <1>4
  <2>1. upTo(i) \in SUBSET upTo(j) /\ j \in upTo(j) /\ j \notin upTo(i)
    <3>1. \A k \in S : k <= i => k <= j
      BY <2>0
    <3>2. \A k \in upTo(i) : k \in upTo(j)
      BY <3>1
    <3>3. j <= j /\ ~(j <= i)
      BY <2>0
    <3>4. j \in upTo(j) /\ j \notin upTo(i)
      BY <3>3
    <3> QED
      BY <3>2, <3>4
  <2>2. upTo(i) # upTo(j)
    BY <2>1
  <2>3. IsFiniteSet(upTo(j))
    BY <1>3
  <2> HIDE DEF upTo
  <2> QED
    BY <2>1, <2>2, <2>3, FS_Subset
<1>5. rank \in [S -> ranks]
  BY <1>3
<1>6. \A i, j \in S : rank[i] = rank[j] => i = j
  <2>1. ASSUME NEW i \in S, NEW j \in S, rank[i] = rank[j] PROVE ~(i < j) /\ ~(j < i)
    BY <1>4, <2>1
  <2> QED
    BY <2>1
<1> HIDE DEF rank
<1>7. rank \in Surjection(S, ranks)
  <2>1. rank \in Injection(S, ranks)
    BY <1>5, <1>6 DEF Injection, IsInjective
  <2> QED
    BY <1>2, <2>1, FS_Injection
<1>8. \A n \in ranks : \E i \in S : rank[i] = n
  BY <1>7 DEF Surjection
<1>9. /\ DOMAIN Ordered(S) = ranks
      /\ \A n \in ranks : Ordered(S)[n] = CHOOSE i \in S : Cardinality({j \in S : j <= i}) = n
      /\ Ordered(S) = [n \in ranks |-> Ordered(S)[n]]
  BY DEF Ordered
<1>10. ASSUME NEW n \in ranks PROVE Ordered(S)[n] \in S /\ rank[Ordered(S)[n]] = n
  <2>1. \A i \in S : rank[i] = Cardinality({j \in S : j <= i})
    BY DEF rank
  <2>2. \E i \in S : Cardinality({j \in S : j <= i}) = n
    BY <1>8, <2>1
  <2>3. Ordered(S)[n] \in S /\ Cardinality({j \in S : j <= Ordered(S)[n]}) = n
    BY <1>9, <2>2
  <2> QED
    BY <2>1, <2>3
<1>11. Ordered(S) \in Seq(S) /\ Len(Ordered(S)) = Cardinality(S)
  BY <1>1, <1>9, <1>10
<1>12. ASSUME NEW i \in S PROVE Ordered(S)[rank[i]] = i /\ rank[i] \in ranks
  BY <1>5, <1>6, <1>10
<1> QED
  BY <1>11, <1>12

----
(* A step that is no read leaves the read where it was, and every lock but *)
(* the one it takes.                                                       *)
LEMMA TailKeeps ==
  ASSUME NEW s, IsSeq(s), s # <<>>
  PROVE  /\ IsSeq(Tail(s))
         /\ ReadIn(s) /\ Head(s).do # "read" => ReadIn(Tail(s))
         /\ \A l : LockIn(s, l) /\ Head(s) # l => LockIn(Tail(s), l)
         /\ \A l : LockFirst(s, l) => /\ Head(s).do # "read"
                                      /\ Head(s) # l => LockFirst(Tail(s), l)
<1>1. PICK S : s \in Seq(S)
  BY DEF IsSeq
<1>2. /\ Tail(s) \in Seq(S) /\ Len(Tail(s)) = Len(s) - 1 /\ Len(s) \in Nat /\ Len(s) # 0
      /\ Head(s) = s[1] /\ \A i \in 1..Len(s) - 1 : Tail(s)[i] = s[i + 1]
  BY <1>1
<1>3. ASSUME NEW i \in 1..Len(s), i # 1
      PROVE  i - 1 \in 1..Len(Tail(s)) /\ Tail(s)[i - 1] = s[i]
  BY <1>2, <1>3
<1>4. ReadIn(s) /\ Head(s).do # "read" => ReadIn(Tail(s))
  BY <1>2, <1>3 DEF ReadIn
<1>5. ASSUME NEW l, LockIn(s, l), Head(s) # l PROVE LockIn(Tail(s), l)
  BY <1>2, <1>3, <1>5 DEF LockIn
<1>6. ASSUME NEW l, LockFirst(s, l) PROVE Head(s).do # "read"
  BY <1>2, <1>6 DEF LockFirst
<1>7. ASSUME NEW l, LockFirst(s, l), Head(s) # l PROVE LockFirst(Tail(s), l)
  <2>1. PICK i \in 1..Len(s) : s[i] = l /\ \A k \in 1..i : s[k].do # "read"
    BY <1>7 DEF LockFirst
  <2>2. i # 1 /\ i - 1 \in 1..Len(Tail(s)) /\ Tail(s)[i - 1] = l
    BY <1>2, <1>3, <1>7, <2>1
  <2>3. ASSUME NEW k \in 1..(i - 1) PROVE Tail(s)[k].do # "read"
    BY <1>2, <2>1
  <2> QED
    BY <2>2, <2>3 DEF LockFirst
<1> QED
  BY <1>2, <1>4, <1>5, <1>6, <1>7 DEF IsSeq

(* The locks of a set of artifacts, one by one.                            *)
ArtifactLocks(S) == ForEach(S, LAMBDA a : Update(ArtifactRow(a)))

LEMMA ArtifactLocksAreAll ==
  ASSUME NEW S \in SUBSET Artifacts
  PROVE  /\ IsSeq(ArtifactLocks(S))
         /\ \A i \in 1..Len(ArtifactLocks(S)) : ArtifactLocks(S)[i].do = "lock"
         /\ \A a \in S : \E i \in 1..Len(ArtifactLocks(S)) :
              ArtifactLocks(S)[i] = Update(ArtifactRow(a))
<1> DEFINE ids == Ordered(S)
           s == ArtifactLocks(S)
           locks == {Update(ArtifactRow(a)) : a \in S}
<1>1. S \in SUBSET Nat /\ IsFiniteSet(S)
  BY LockAssumption, FS_Subset DEF LockAssumption
<1>2. ids \in Seq(S) /\ \A a \in S : \E n \in 1..Len(ids) : ids[n] = a
  BY <1>1, OrderedIsAll
<1>3. /\ s = [i \in 1..Len(ids) |-> s[i]]
      /\ \A i \in 1..Len(ids) : s[i] = Update(ArtifactRow(ids[i]))
  BY DEF ArtifactLocks, ForEach
<1> HIDE DEF ids, s
<1>4. Len(ids) \in Nat /\ \A i \in 1..Len(ids) : ids[i] \in S
  BY <1>2
<1>5. ASSUME NEW i \in 1..Len(ids) PROVE s[i] \in locks
  <2>1. s[i] = Update(ArtifactRow(ids[i])) /\ ids[i] \in S
    BY <1>3, <1>4
  <2> QED
    BY <2>1
<1> HIDE DEF locks
<1>6. s \in Seq(locks) /\ Len(s) = Len(ids)
  BY <1>3, <1>4, <1>5
<1>7. \A row : Update(row).do = "lock"
  BY DEF Update
<1>8. \A i \in 1..Len(s) : s[i].do = "lock"
  BY <1>3, <1>6, <1>7
<1>9. \A a \in S : \E i \in 1..Len(s) : s[i] = Update(ArtifactRow(a))
  BY <1>2, <1>3, <1>6
<1>10. IsSeq(s)
  BY <1>6 DEF IsSeq
<1> QED
  BY <1>8, <1>9, <1>10 DEF s

(* What follows in a script does not change what is found at its start.    *)
LEMMA ConcatKeeps ==
  ASSUME NEW s, NEW u, IsSeq(s), IsSeq(u)
  PROVE  /\ IsSeq(s \o u) /\ Len(s \o u) = Len(s) + Len(u) /\ Len(s) \in Nat /\ Len(u) \in Nat
         /\ \A i \in 1..Len(s) : (s \o u)[i] = s[i]
         /\ \A i \in 1..Len(u) : Len(s) + i \in 1..Len(s \o u) /\ (s \o u)[Len(s) + i] = u[i]
<1>1. PICK S, U : s \in Seq(S) /\ u \in Seq(U)
  BY DEF IsSeq
<1>2. s \in Seq(S \cup U) /\ u \in Seq(S \cup U)
  BY <1>1
<1> QED
  BY <1>2 DEF IsSeq

LEMMA ScriptsFollow ==
  ASSUME NEW s, NEW u, IsSeq(s), IsSeq(u)
  PROVE  /\ IsSeq(s \o u)
         /\ ReadIn(s) \/ ReadIn(u) => ReadIn(s \o u)
         /\ \A l : LockIn(s, l) \/ LockIn(u, l) => LockIn(s \o u, l)
         /\ \A l : LockFirst(s, l) => LockFirst(s \o u, l)
         /\ ~ReadIn(s) => \A l : LockFirst(u, l) => LockFirst(s \o u, l)
<1>1. /\ IsSeq(s \o u) /\ Len(s \o u) = Len(s) + Len(u) /\ Len(s) \in Nat /\ Len(u) \in Nat
      /\ \A i \in 1..Len(s) : (s \o u)[i] = s[i]
      /\ \A i \in 1..Len(u) : Len(s) + i \in 1..Len(s \o u) /\ (s \o u)[Len(s) + i] = u[i]
  BY ConcatKeeps
<1>2. \A i \in 1..Len(s) : i \in 1..Len(s \o u)
  BY <1>1
<1>3. ASSUME ReadIn(s) \/ ReadIn(u) PROVE ReadIn(s \o u)
  BY <1>1, <1>2, <1>3 DEF ReadIn
<1>4. ASSUME NEW l, LockIn(s, l) \/ LockIn(u, l) PROVE LockIn(s \o u, l)
  BY <1>1, <1>2, <1>4 DEF LockIn
<1>5. ASSUME NEW l, LockFirst(s, l) PROVE LockFirst(s \o u, l)
  <2>1. PICK i \in 1..Len(s) : s[i] = l /\ \A k \in 1..i : s[k].do # "read"
    BY <1>5 DEF LockFirst
  <2>2. \A k \in 1..i : k \in 1..Len(s)
    BY <1>1
  <2> QED
    BY <1>1, <1>2, <2>1, <2>2 DEF LockFirst
<1>6. ASSUME ~ReadIn(s), NEW l, LockFirst(u, l) PROVE LockFirst(s \o u, l)
  <2>1. PICK i \in 1..Len(u) : u[i] = l /\ \A k \in 1..i : u[k].do # "read"
    BY <1>6 DEF LockFirst
  <2>2. ASSUME NEW k \in 1..(Len(s) + i) PROVE (s \o u)[k].do # "read"
    <3>1. CASE k \in 1..Len(s)
      BY <1>1, <1>6, <3>1 DEF ReadIn
    <3>2. CASE k \notin 1..Len(s)
      <4>1. k - Len(s) \in 1..i /\ k - Len(s) \in 1..Len(u) /\ Len(s) + (k - Len(s)) = k
        BY <1>1, <2>1, <3>2
      <4> QED
        BY <1>1, <2>1, <4>1
    <3> QED
      BY <3>1, <3>2
  <2> QED
    BY <1>1, <2>1, <2>2 DEF LockFirst
<1> QED
  BY <1>1, <1>3, <1>4, <1>5, <1>6

(* Scripts are short sequences of items.                                   *)
LEMMA ItemsAreSeq ==
  /\ IsSeq(<<>>)
  /\ \A a : IsSeq(<<a>>) /\ Len(<<a>>) = 1 /\ <<a>>[1] = a
  /\ \A a, b : IsSeq(<<a, b>>)
  /\ \A a, b, c : IsSeq(<<a, b, c>>) /\ Len(<<a, b, c>>) = 3
  /\ \A a, b, c, d : IsSeq(<<a, b, c, d>>) /\ Len(<<a, b, c, d>>) = 4
<1>1. IsSeq(<<>>)
  <2>1. <<>> \in Seq({})
    OBVIOUS
  <2> QED
    BY <2>1 DEF IsSeq
<1>2. ASSUME NEW a PROVE IsSeq(<<a>>) /\ Len(<<a>>) = 1 /\ <<a>>[1] = a
  <2>1. <<a>> \in Seq({a})
    OBVIOUS
  <2> QED
    BY <2>1 DEF IsSeq
<1>3. ASSUME NEW a, NEW b PROVE IsSeq(<<a, b>>)
  <2>1. <<a, b>> \in Seq({a, b})
    OBVIOUS
  <2> QED
    BY <2>1 DEF IsSeq
<1>4. ASSUME NEW a, NEW b, NEW c PROVE IsSeq(<<a, b, c>>) /\ Len(<<a, b, c>>) = 3
  <2>1. <<a, b, c>> \in Seq({a, b, c})
    OBVIOUS
  <2> QED
    BY <2>1 DEF IsSeq
<1>5. ASSUME NEW a, NEW b, NEW c, NEW d
      PROVE  IsSeq(<<a, b, c, d>>) /\ Len(<<a, b, c, d>>) = 4
  <2>1. <<a, b, c, d>> \in Seq({a, b, c, d})
    OBVIOUS
  <2> QED
    BY <2>1 DEF IsSeq
<1> QED
  BY <1>1, <1>2, <1>3, <1>4, <1>5

LEMMA ItemsDo ==
  /\ \A row : Update(row).do = "lock" /\ KeyShare(row).do = "lock"
  /\ Read.do = "read" /\ Check.do = "check" /\ Suspend.do = "suspend" /\ Resume.do = "resume"
  BY DEF Update, KeyShare, Read, Check, Suspend, Resume

LEMMA IngestScriptOK == ASSUME NEW stored \in BOOLEAN PROVE IsSeq(IngestScript(stored))
<1> DEFINE pre == <<KeyShare(ProjectRow), Commit>>
           mid == IF stored THEN <<>> ELSE <<Suspend, Resume>>
           post == <<KeyShare(ProjectRow)>>
<1>1. IsSeq(pre) /\ IsSeq(mid) /\ IsSeq(post)
  BY ItemsAreSeq
<1>2. IngestScript(stored) = (pre \o mid) \o post
  BY DEF IngestScript
<1> HIDE DEF pre, mid, post
<1> QED
  BY <1>1, <1>2, ScriptsFollow

LEMMA FeedbackScriptOK ==
  ASSUME NEW q \in Feedbacks
  PROVE  /\ IsSeq(FeedbackScript(q)) /\ ReadIn(FeedbackScript(q))
         /\ LockFirst(FeedbackScript(q), Update(ArtifactRow(About[q])))
<1> DEFINE a == About[q]
           pre == <<Update(VersionRow(a, latest[a])), Update(ArtifactRow(a)), Update(ProjectRow), Read>>
           post == IF a \in DocumentBacked THEN <<Suspend, Resume>> ELSE <<>>
<1>1. /\ pre[1] = Update(VersionRow(a, latest[a])) /\ pre[2] = Update(ArtifactRow(a))
      /\ pre[4] = Read
  OBVIOUS
<1>2. IsSeq(pre) /\ Len(pre) = 4 /\ IsSeq(post)
  BY ItemsAreSeq
<1>3. FeedbackScript(q) = pre \o post
  BY DEF FeedbackScript
<1> HIDE DEF pre, post, a
<1>4. ReadIn(pre)
  BY <1>1, <1>2, ItemsDo DEF ReadIn
<1>5. LockFirst(pre, Update(ArtifactRow(a)))
  <2>1. \A k \in 1..2 : k = 1 \/ k = 2
    OBVIOUS
  <2> QED
    BY <1>1, <1>2, <2>1, ItemsDo DEF LockFirst
<1> QED
  BY <1>2, <1>3, <1>4, <1>5, ScriptsFollow DEF a

LEMMA PlanScriptOK ==
  ASSUME NEW q \in Planners
  PROVE  /\ IsSeq(PlanScript(q)) /\ ReadIn(PlanScript(q))
         /\ LockFirst(PlanScript(q), Update(ProjectRow))
<1>1. PlanScript(q) = <<Update(ProjectRow), Read, KeyShare(ParentRow)>>
  BY DEF PlanScript
<1> DEFINE s == <<Update(ProjectRow), Read, KeyShare(ParentRow)>>
<1>2. IsSeq(s) /\ Len(s) = 3 /\ s[1] = Update(ProjectRow) /\ s[2] = Read
  BY ItemsAreSeq
<1> HIDE DEF s
<1>3. s[1].do # "read" /\ s[2].do = "read" /\ \A k \in 1..1 : k = 1
  BY <1>2, ItemsDo
<1>4. ReadIn(s) /\ LockFirst(s, Update(ProjectRow))
  BY <1>2, <1>3 DEF ReadIn, LockFirst
<1> QED
  BY <1>1, <1>2, <1>4 DEF s

LEMMA ConfirmScriptOK ==
  ASSUME NEW p \in Planners
  PROVE  /\ IsSeq(ConfirmScript(p)) /\ ReadIn(ConfirmScript(p))
         /\ \A a \in Artifacts : LockFirst(ConfirmScript(p), Update(ArtifactRow(a)))
<1> DEFINE pre == <<Update(PlanRow(p)), Update(ProjectRow), Check, Update(ParentRow)>>
           mid == ArtifactLocks(Artifacts)
           both == pre \o mid
<1>1. IsSeq(pre) /\ Len(pre) = 4 /\ \A i \in 1..4 : pre[i].do # "read"
  <2>1. /\ pre[1] = Update(PlanRow(p)) /\ pre[2] = Update(ProjectRow) /\ pre[3] = Check
        /\ pre[4] = Update(ParentRow)
    OBVIOUS
  <2>2. IsSeq(pre) /\ Len(pre) = 4
    BY ItemsAreSeq
  <2> HIDE DEF pre
  <2>3. \A i \in 1..4 : i = 1 \/ i = 2 \/ i = 3 \/ i = 4
    OBVIOUS
  <2> QED
    BY <2>1, <2>2, <2>3, ItemsDo
<1>2. IsSeq(<<Read>>) /\ ReadIn(<<Read>>)
  <2>1. 1 \in 1..1
    OBVIOUS
  <2> QED
    BY <2>1, ItemsAreSeq, ItemsDo DEF ReadIn
<1>3. /\ IsSeq(mid) /\ \A i \in 1..Len(mid) : mid[i].do = "lock"
      /\ \A a \in Artifacts : \E i \in 1..Len(mid) : mid[i] = Update(ArtifactRow(a))
  BY ArtifactLocksAreAll
<1>4. ConfirmScript(p) = both \o <<Read>>
  BY DEF ConfirmScript, ArtifactLocks
<1> HIDE DEF pre, mid
<1>5. ASSUME NEW a \in Artifacts PROVE LockFirst(mid, Update(ArtifactRow(a)))
  <2>1. PICK i \in 1..Len(mid) : mid[i] = Update(ArtifactRow(a))
    BY <1>3
  <2>2. Len(mid) \in Nat
    BY <1>3 DEF IsSeq
  <2>3. \A k \in 1..i : k \in 1..Len(mid)
    BY <2>2
  <2> QED
    BY <1>3, <2>1, <2>3 DEF LockFirst
<1>6. ~ReadIn(pre)
  BY <1>1 DEF ReadIn
<1>7. IsSeq(both) /\ \A a \in Artifacts : LockFirst(both, Update(ArtifactRow(a)))
  BY <1>1, <1>3, <1>5, <1>6, ScriptsFollow
<1> HIDE DEF both
<1> QED
  BY <1>2, <1>4, <1>7, ScriptsFollow

(* The KEY SHARE locks of the current versions.                            *)
VersionLocks(S) == ForEach(S, LAMBDA a : KeyShare(VersionRow(a, latest[a])))

LEMMA VersionLocksAreSeq == ASSUME NEW S \in SUBSET Artifacts PROVE IsSeq(VersionLocks(S))
<1> DEFINE ids == Ordered(S)
           s == VersionLocks(S)
           items == {s[i] : i \in 1..Len(ids)}
<1>1. S \in SUBSET Nat /\ IsFiniteSet(S)
  BY LockAssumption, FS_Subset DEF LockAssumption
<1>2. Len(ids) \in Nat
  BY <1>1, OrderedIsAll
<1>3. s = [i \in 1..Len(ids) |-> s[i]]
  BY DEF VersionLocks, ForEach
<1> HIDE DEF ids, s
<1>4. \A i \in 1..Len(ids) : s[i] \in items
  OBVIOUS
<1> HIDE DEF items
<1>5. s \in Seq(items)
  BY <1>2, <1>3, <1>4
<1>6. IsSeq(s)
  BY <1>5 DEF IsSeq
<1> QED
  BY <1>6 DEF s

LEMMA PublishScriptOK ==
  ASSUME NEW S \in SUBSET Artifacts
  PROVE  /\ IsSeq(PublishScript(S))
         /\ \A a \in S : LockIn(PublishScript(S), Update(ArtifactRow(a)))
         /\ S # {} => LockIn(PublishScript(S), KeyShare(ProjectRow))
<1> DEFINE pre == ArtifactLocks(S)
           mid == IF S = {} THEN <<>> ELSE <<KeyShare(ProjectRow)>>
           post == VersionLocks(S)
           both == pre \o mid
<1>1. IsSeq(pre) /\ \A a \in S : LockIn(pre, Update(ArtifactRow(a)))
  BY ArtifactLocksAreAll DEF LockIn
<1>2. IsSeq(mid) /\ (S # {} => LockIn(mid, KeyShare(ProjectRow)))
  <2>1. 1 \in 1..1
    OBVIOUS
  <2> QED
    BY <2>1, ItemsAreSeq DEF LockIn
<1>3. IsSeq(post)
  BY VersionLocksAreSeq
<1>4. PublishScript(S) = both \o post
  BY DEF PublishScript, ArtifactLocks, VersionLocks
<1> HIDE DEF pre, mid, post
<1>5. /\ IsSeq(both) /\ \A l : LockIn(pre, l) \/ LockIn(mid, l) => LockIn(both, l)
  BY <1>1, <1>2, ScriptsFollow
<1> HIDE DEF both
<1>6. /\ IsSeq(both \o post) /\ \A l : LockIn(both, l) => LockIn(both \o post, l)
  BY <1>3, <1>5, ScriptsFollow
<1> QED
  BY <1>1, <1>2, <1>4, <1>5, <1>6

----
(* What requests need and a worker publishes under are row locks.          *)
LEMMA NeedsAreLocks ==
  /\ \A t \in Txns : \A l \in Needs(t) : l.do = "lock"
  /\ \A l : Publishes(l) => l.do = "lock"
<1>1. ASSUME NEW t \in Txns, NEW l \in Needs(t) PROVE l.do = "lock"
  BY <1>1, ItemsDo DEF Needs
<1>2. ASSUME NEW l, Publishes(l) PROVE l.do = "lock"
  BY <1>2, ItemsDo DEF Publishes
<1> QED
  BY <1>1, <1>2

LEMMA Roles ==
  /\ Worker \in Txns /\ Worker \notin Requests
  /\ \A t \in Txns : t \in Requests \/ t = Worker
  /\ \A t \in Requests : t \in Txns /\ t # Worker
  /\ Feedbacks \subseteq Requests /\ Ingestions \subseteq Requests
  /\ Planners \subseteq Requests /\ Confirmers \subseteq Requests
  /\ \A t \in Feedbacks : t \notin Ingestions /\ t \notin Planners /\ t \notin Confirmers
  /\ \A t \in Ingestions : t \notin Feedbacks /\ t \notin Planners /\ t \notin Confirmers
  /\ \A t \in Planners : t \notin Feedbacks /\ t \notin Ingestions /\ t \notin Confirmers
  /\ \A t \in Confirmers : t \notin Feedbacks /\ t \notin Ingestions /\ t \notin Planners
  BY LockAssumption DEF LockAssumption, Txns, Requests

(* Initially nobody has asked for anything.                                *)
LEMMA LockInit == Init => LockInv
<1> SUFFICES ASSUME Init PROVE LockInv
  OBVIOUS
<1>1. ShapeOK
  <2>1. run.step \in 1..Len(Steps) /\ run \in [status : {"running", "completed", "stranded"}, step : Nat]
    BY LockAssumption DEF Init, LockAssumption
  <2> QED
    BY <2>1 DEF Init, ShapeOK, Phases
<1>2. RowsAreExclusive /\ PlansAreMade
  BY DEF Init, RowsAreExclusive, PlansAreMade
<1>3. \A t \in Txns : TxnOK(t)
  BY DEF Init, TxnOK
<1> QED
  BY <1>1, <1>2, <1>3 DEF LockInv

(* A transaction that a step of another one does not touch.                *)
LEMMA OtherOK ==
  ASSUME LockInv, NEW u \in Txns,
         phase'[u] = phase[u], script'[u] = script[u], held'[u] = held[u], seen'[u] = seen[u],
         u \in Confirmers => subject'[u] = subject[u],
         \A p \in Planners : plan[p] # <<>> => plan'[p] = plan[p],
         u = Worker => run' = run,
         latest' = latest \/ (u \in Requests /\ phase[u] = "open" /\ AfterReading(u) => Sees(u)')
  PROVE  TxnOK(u)'
<1> SUFFICES ASSUME phase[u] = "open"
             PROVE  /\ IsSeq(script[u])'
                    /\ u \in Requests => RequestOK(u)'
                    /\ u = Worker => WorkerOK'
  BY DEF TxnOK
<1>1. /\ IsSeq(script[u]) /\ (u \in Requests => RequestOK(u)) /\ (u = Worker => WorkerOK)
  BY DEF LockInv, TxnOK
<1>2. ASSUME u \in Requests PROVE RequestOK(u)'
  <2>1. /\ BeforeReading(u) \/ AfterReading(u)
        /\ u \in Confirmers => /\ subject[u] \in Planners /\ plan[subject[u]] # <<>>
                               /\ subject'[u] = subject[u] /\ plan'[subject[u]] = plan[subject[u]]
    BY <1>1, <1>2 DEF RequestOK
  <2>2. BeforeReading(u) => BeforeReading(u)'
    BY DEF BeforeReading, Needs
  <2>3. latest' = latest /\ Sees(u) => Sees(u)'
    BY <2>1 DEF Sees
  <2>4. AfterReading(u) => AfterReading(u)'
    BY <1>2, <2>3 DEF AfterReading, Needs
  <2> QED
    BY <2>1, <2>2, <2>4 DEF RequestOK
<1>3. u = Worker => WorkerOK'
  BY <1>1 DEF WorkerOK, Publishes
<1> QED
  BY <1>1, <1>2, <1>3

(* A transaction goes on in its script, with the lock it takes, if it does.*)
LEMMA MoveOK ==
  ASSUME LockInv, NEW t \in Txns, phase[t] = "open", script[t] # <<>>,
         Head(script[t]).do # "read", script'[t] = Tail(script[t]),
         held[t] \subseteq held'[t], Head(script[t]).do = "lock" => Head(script[t]) \in held'[t],
         UNCHANGED <<seen, subject, latest, plan, run>>
  PROVE  TxnOK(t)'
<1>1. /\ IsSeq(script[t]) /\ (t \in Requests => RequestOK(t)) /\ (t = Worker => WorkerOK)
  BY DEF LockInv, TxnOK
<1>2. /\ IsSeq(script'[t])
      /\ ReadIn(script[t]) => ReadIn(script'[t])
      /\ \A l : LockIn(script[t], l) => l = Head(script[t]) \/ LockIn(script'[t], l)
      /\ \A l : LockFirst(script[t], l) => l = Head(script[t]) \/ LockFirst(script'[t], l)
  BY <1>1, TailKeeps
<1>3. ASSUME t \in Requests PROVE RequestOK(t)'
  <2>1. BeforeReading(t) => BeforeReading(t)'
    <3> SUFFICES ASSUME BeforeReading(t), NEW l \in Needs(t)
                 PROVE  l \in held'[t] \/ LockFirst(script'[t], l)
      BY <1>2 DEF BeforeReading, Needs
    <3>1. l.do = "lock"
      BY NeedsAreLocks
    <3>2. l \in held[t] \/ LockFirst(script[t], l)
      BY DEF BeforeReading
    <3> QED
      BY <1>2, <3>1, <3>2
  <2>2. AfterReading(t) => AfterReading(t)'
    BY DEF AfterReading, Needs, Sees
  <2> QED
    BY <1>1, <1>3, <2>1, <2>2 DEF RequestOK
<1>4. ASSUME t = Worker PROVE WorkerOK'
  <2> SUFFICES ASSUME NEW l, Publishes(l) PROVE l \in held'[t] \/ LockIn(script'[t], l)
    BY <1>1, <1>4 DEF WorkerOK, Publishes
  <2>1. l.do = "lock" /\ (l \in held[t] \/ LockIn(script[t], l))
    BY <1>1, <1>4, NeedsAreLocks DEF WorkerOK
  <2> QED
    BY <1>2, <2>1
<1> QED
  BY <1>2, <1>3, <1>4 DEF TxnOK

(* The end of a transaction, whatever it commits.                          *)
LEMMA EndOK ==
  ASSUME LockInv, NEW t \in Txns, NEW how \in Phases \ {"open"}, End(t, how), seen' = seen,
         \A p \in Planners : plan[p] # <<>> => plan'[p] = plan[p],
         t # Worker => run' = run,
         \A u \in Txns \ {t} :
           latest' = latest \/ (u \in Requests /\ phase[u] = "open" /\ AfterReading(u) => Sees(u)')
  PROVE  /\ (\A u \in Txns : TxnOK(u))' /\ RowsAreExclusive'
         /\ phase' \in [Txns -> Phases] /\ phase'[t] = how
         /\ \A u \in Txns \ {t} : phase'[u] = phase[u]
         /\ script' = [u \in Txns |-> script'[u]] /\ held' = [u \in Txns |-> held'[u]]
<1>1. /\ phase \in [Txns -> Phases] /\ script = [u \in Txns |-> script[u]]
      /\ held = [u \in Txns |-> held[u]]
  BY DEF LockInv, ShapeOK
<1>2. /\ phase' = [phase EXCEPT ![t] = how] /\ script' = [script EXCEPT ![t] = <<>>]
      /\ held' = [held EXCEPT ![t] = {}] /\ subject' = subject
  BY DEF End
<1>3. /\ phase' \in [Txns -> Phases] /\ phase'[t] = how /\ held'[t] = {}
      /\ \A u \in Txns \ {t} : phase'[u] = phase[u] /\ script'[u] = script[u] /\ held'[u] = held[u]
  BY <1>1, <1>2
<1>4. script' = [u \in Txns |-> script'[u]] /\ held' = [u \in Txns |-> held'[u]]
  BY <1>1, <1>2
<1>5. TxnOK(t)'
  BY <1>3 DEF TxnOK
<1>6. ASSUME NEW u \in Txns, u # t PROVE TxnOK(u)'
  BY <1>2, <1>3, <1>6, OtherOK
<1>7. RowsAreExclusive'
  BY <1>3 DEF LockInv, RowsAreExclusive
<1> QED
  BY <1>3, <1>4, <1>5, <1>6, <1>7

----
(* Locks are taken that nobody has in a way that does not allow it.        *)
LEMMA LockKeeps == ASSUME LockInv, NEW t \in Txns, Lock(t) PROVE LockInv'
<1> DEFINE lock == Head(script[t])
<1>1. /\ phase[t] = "open" /\ script[t] # <<>> /\ lock.do = "lock" /\ Blockers(t) = {}
      /\ held' = [held EXCEPT ![t] = @ \cup {lock}] /\ script' = [script EXCEPT ![t] = Tail(@)]
      /\ UNCHANGED <<phase, seen, subject, loop, latest, feedback, plan, confirmed, run>>
  BY DEF Lock, NextIs
<1>2. held = [u \in Txns |-> held[u]] /\ script = [u \in Txns |-> script[u]]
  BY DEF LockInv, ShapeOK
<1>3. /\ held'[t] = held[t] \cup {lock} /\ script'[t] = Tail(script[t])
      /\ \A u \in Txns \ {t} : held'[u] = held[u] /\ script'[u] = script[u]
      /\ held' = [u \in Txns |-> held'[u]] /\ script' = [u \in Txns |-> script'[u]]
  BY <1>1, <1>2
<1>4. ASSUME NEW u \in Txns, u # t, NEW l \in held[u], l.row = lock.row
      PROVE  Compatible(l.mode, lock.mode)
  <2>1. u \notin Blockers(t)
    BY <1>1
  <2> QED
    BY <1>1, <1>4, <2>1 DEF Blockers
<1> HIDE DEF lock
<1>5. RowsAreExclusive'
  <2> SUFFICES ASSUME NEW v \in Txns, NEW u \in Txns, v # u, NEW l \in held'[v], NEW m \in held'[u],
                      l.row = m.row
               PROVE  Compatible(l.mode, m.mode)
    BY DEF RowsAreExclusive
  <2>1. CASE l \in held[v] /\ m \in held[u]
    BY <2>1 DEF LockInv, RowsAreExclusive
  <2>2. CASE v = t /\ l = lock
    BY <1>3, <1>4, <2>2 DEF Compatible
  <2>3. CASE u = t /\ m = lock
    BY <1>3, <1>4, <2>3 DEF Compatible
  <2> QED
    BY <1>3, <2>1, <2>2, <2>3
<1>6. TxnOK(t)'
  BY <1>1, <1>3, MoveOK DEF lock
<1>7. ASSUME NEW u \in Txns, u # t PROVE TxnOK(u)'
  BY <1>1, <1>3, <1>7, OtherOK
<1>8. ShapeOK' /\ PlansAreMade'
  BY <1>1, <1>3 DEF LockInv, ShapeOK, PlansAreMade
<1> QED
  BY <1>5, <1>6, <1>7, <1>8 DEF LockInv

(* A coroutine gives up the loop and takes it, or a plan is checked.       *)
LEMMA MoveKeeps ==
  ASSUME LockInv, NEW t \in Txns, phase[t] = "open", script[t] # <<>>,
         Head(script[t]).do \in {"check", "suspend", "resume"},
         script' = [script EXCEPT ![t] = Tail(@)],
         UNCHANGED <<phase, held, seen, subject, latest, feedback, plan, confirmed, run>>
  PROVE  LockInv'
<1>1. /\ script'[t] = Tail(script[t]) /\ \A u \in Txns \ {t} : script'[u] = script[u]
      /\ script' = [u \in Txns |-> script'[u]]
  BY DEF LockInv, ShapeOK
<1>2. TxnOK(t)'
  BY <1>1, MoveOK
<1>3. ASSUME NEW u \in Txns, u # t PROVE TxnOK(u)'
  BY <1>1, <1>3, OtherOK
<1>4. ShapeOK' /\ PlansAreMade' /\ RowsAreExclusive'
  BY <1>1 DEF LockInv, ShapeOK, PlansAreMade, RowsAreExclusive
<1> QED
  BY <1>2, <1>3, <1>4 DEF LockInv

(* The first transaction of an upload ends: it holds nothing that what it  *)
(* does later depends on.                                                  *)
LEMMA ReservationKeeps == ASSUME LockInv, NEW q \in Txns, CommitReservation(q) PROVE LockInv'
<1>1. /\ q \in Ingestions /\ phase[q] = "open" /\ script[q] # <<>>
      /\ held' = [held EXCEPT ![q] = {}] /\ script' = [script EXCEPT ![q] = Tail(@)]
      /\ UNCHANGED <<phase, seen, subject, loop, latest, feedback, plan, confirmed, run>>
  BY DEF CommitReservation, NextIs
<1>2. /\ held'[q] = {} /\ script'[q] = Tail(script[q])
      /\ \A u \in Txns \ {q} : held'[u] = held[u] /\ script'[u] = script[u]
      /\ held' = [u \in Txns |-> held'[u]] /\ script' = [u \in Txns |-> script'[u]]
  BY <1>1 DEF LockInv, ShapeOK
<1>3. TxnOK(q)'
  <2>1. IsSeq(script[q])
    BY <1>1 DEF LockInv, TxnOK
  <2>2. IsSeq(script'[q])
    BY <1>1, <1>2, <2>1, TailKeeps
  <2>3. RequestOK(q)'
    BY <1>1, Roles DEF RequestOK, AfterReading, Needs, Sees
  <2> QED
    BY <1>1, <2>2, <2>3, Roles DEF TxnOK
<1>4. ASSUME NEW u \in Txns, u # q PROVE TxnOK(u)'
  BY <1>1, <1>2, <1>4, OtherOK
<1>5. ShapeOK' /\ PlansAreMade' /\ RowsAreExclusive'
  BY <1>1, <1>2 DEF LockInv, ShapeOK, PlansAreMade, RowsAreExclusive
<1> QED
  BY <1>3, <1>4, <1>5 DEF LockInv

(* An end that commits nothing.                                            *)
LEMMA QuietEndKeeps ==
  ASSUME LockInv, NEW t \in Txns, NEW how \in {"committed", "refused", "aborted"}, End(t, how),
         UNCHANGED <<seen, latest, plan>>, run' = run \/ (t = Worker /\ run'.status = "stranded"
                                                           /\ run' \in [status : {"stranded"}, step : Nat]),
         phase[t] # "committed"
  PROVE  LockInv'
<1>1. how \in Phases \ {"open"}
  BY DEF Phases
<1>2. /\ (\A u \in Txns : TxnOK(u))' /\ RowsAreExclusive'
      /\ phase' \in [Txns -> Phases] /\ phase'[t] = how
      /\ \A u \in Txns \ {t} : phase'[u] = phase[u]
      /\ script' = [u \in Txns |-> script'[u]] /\ held' = [u \in Txns |-> held'[u]]
  BY <1>1, EndOK
<1>3. PlansAreMade'
  <2>1. \A p \in Planners : p \in Txns
    BY DEF Txns, Requests
  <2> QED
    BY <1>2, <2>1 DEF LockInv, PlansAreMade
<1>4. subject' = subject
  BY DEF End
<1>5. ShapeOK'
  BY <1>2, <1>4 DEF LockInv, ShapeOK
<1> QED
  BY <1>2, <1>3, <1>5 DEF LockInv

(* A transaction is opened with all of its script before it.               *)
LEMMA OpenKeeps ==
  ASSUME LockInv, NEW t \in Txns, NEW todo, Open(t, todo), IsSeq(todo),
         t \in Requests \ Ingestions => ReadIn(todo) /\ \A l \in Needs(t) : LockFirst(todo, l),
         t \in Confirmers => subject'[t] \in Planners /\ plan[subject'[t]] # <<>>,
         t = Worker => run.status = "running" /\ \A l : Publishes(l) => LockIn(todo, l),
         \A u \in Txns \ {t} : seen'[u] = seen[u] /\ (u \in Confirmers => subject'[u] = subject[u]),
         seen' = [u \in Txns |-> seen'[u]], subject' = [u \in Confirmers |-> subject'[u]]
  PROVE  LockInv'
<1>1. /\ phase[t] = "idle" /\ phase' = [phase EXCEPT ![t] = "open"]
      /\ script' = [script EXCEPT ![t] = todo]
      /\ UNCHANGED <<held, latest, feedback, plan, confirmed, run>>
  BY DEF Open
<1>2. phase \in [Txns -> Phases] /\ script = [u \in Txns |-> script[u]]
  BY DEF LockInv, ShapeOK
<1>3. /\ phase' \in [Txns -> Phases] /\ phase'[t] = "open" /\ script'[t] = todo
      /\ \A u \in Txns \ {t} : phase'[u] = phase[u] /\ script'[u] = script[u]
      /\ script' = [u \in Txns |-> script'[u]]
  BY <1>1, <1>2 DEF Phases
<1>4. TxnOK(t)'
  <2>1. t \in Requests => BeforeReading(t)' \/ AfterReading(t)'
    <3>1. CASE t \in Ingestions
      BY <3>1 DEF AfterReading, Needs, Sees
    <3>2. CASE t \notin Ingestions
      BY <1>1, <1>3, <3>2 DEF BeforeReading, Needs
    <3> QED
      BY <3>1, <3>2
  <2>2. t \in Requests => RequestOK(t)'
    BY <1>1, <2>1 DEF RequestOK
  <2>3. t = Worker => WorkerOK'
    BY <1>1, <1>3 DEF WorkerOK, Publishes
  <2> QED
    BY <1>3, <2>2, <2>3 DEF TxnOK
<1>5. ASSUME NEW u \in Txns, u # t PROVE TxnOK(u)'
  BY <1>1, <1>3, <1>5, OtherOK
<1>6. PlansAreMade'
  <2>1. \A p \in Planners : p \in Txns
    BY DEF Txns, Requests
  <2> QED
    BY <1>1, <1>3, <2>1 DEF LockInv, PlansAreMade
<1>7. ShapeOK' /\ RowsAreExclusive'
  BY <1>1, <1>3 DEF LockInv, ShapeOK, RowsAreExclusive
<1> QED
  BY <1>4, <1>5, <1>6, <1>7 DEF LockInv

LEMMA ReceiveFeedbackKeeps == ASSUME LockInv, NEW q \in Feedbacks, ReceiveFeedback(q) PROVE LockInv'
<1>1. /\ Open(q, FeedbackScript(q)) /\ subject' = subject
      /\ seen' = [seen EXCEPT ![q][About[q]] = latest[About[q]]]
  BY DEF ReceiveFeedback
<1>2. q \in Requests /\ q \in Txns /\ q # Worker /\ q \notin Confirmers
  BY Roles DEF Txns
<1>3. seen' = [u \in Txns |-> seen'[u]] /\ \A u \in Txns \ {q} : seen'[u] = seen[u]
  BY <1>1 DEF LockInv, ShapeOK
<1>4. subject' = [u \in Confirmers |-> subject'[u]]
  BY <1>1 DEF LockInv, ShapeOK
<1>5. Needs(q) = {Update(ArtifactRow(About[q]))}
  BY Roles DEF Needs
<1>6. /\ IsSeq(FeedbackScript(q)) /\ ReadIn(FeedbackScript(q))
      /\ \A l \in Needs(q) : LockFirst(FeedbackScript(q), l)
  BY <1>5, FeedbackScriptOK
<1>7. \A u \in Txns \ {q} : u \in Confirmers => subject'[u] = subject[u]
  BY <1>1
<1> QED
  BY <1>1, <1>2, <1>3, <1>4, <1>6, <1>7, OpenKeeps

LEMMA ReceiveIngestionKeeps == ASSUME LockInv, NEW q \in Ingestions, ReceiveIngestion(q) PROVE LockInv'
<1>1. PICK stored \in BOOLEAN : Open(q, IngestScript(stored)) /\ subject' = subject /\ seen' = seen
  BY DEF ReceiveIngestion
<1>2. q \in Txns /\ q # Worker /\ q \notin Confirmers
  BY Roles
<1>3. seen' = [u \in Txns |-> seen'[u]] /\ subject' = [u \in Confirmers |-> subject'[u]]
  BY <1>1 DEF LockInv, ShapeOK
<1> QED
  BY <1>1, <1>2, <1>3, IngestScriptOK, OpenKeeps

LEMMA ReceivePlanKeeps == ASSUME LockInv, NEW q \in Planners, ReceivePlan(q) PROVE LockInv'
<1>1. Open(q, PlanScript(q)) /\ subject' = subject /\ seen' = seen
  BY DEF ReceivePlan
<1>2. q \in Requests /\ q \in Txns /\ q # Worker /\ q \notin Confirmers /\ q \notin Feedbacks
  BY Roles DEF Txns
<1>3. seen' = [u \in Txns |-> seen'[u]] /\ subject' = [u \in Confirmers |-> subject'[u]]
  BY <1>1 DEF LockInv, ShapeOK
<1>4. Needs(q) = {Update(ProjectRow)}
  BY <1>2, Roles DEF Needs
<1>5. /\ IsSeq(PlanScript(q)) /\ ReadIn(PlanScript(q))
      /\ \A l \in Needs(q) : LockFirst(PlanScript(q), l)
  BY <1>4, PlanScriptOK
<1> QED
  BY <1>1, <1>2, <1>3, <1>5, OpenKeeps

LEMMA ReceiveConfirmKeeps == ASSUME LockInv, NEW q \in Confirmers, ReceiveConfirm(q) PROVE LockInv'
<1>1. PICK p \in Planners : /\ plan[p] # <<>> /\ Open(q, ConfirmScript(p)) /\ seen' = seen
                            /\ subject' = [subject EXCEPT ![q] = p]
  BY DEF ReceiveConfirm
<1>2. q \in Requests /\ q \in Txns /\ q # Worker /\ q \notin Planners /\ q \notin Feedbacks
  BY Roles DEF Txns
<1>3. /\ seen' = [u \in Txns |-> seen'[u]] /\ subject' = [u \in Confirmers |-> subject'[u]]
      /\ subject'[q] = p /\ \A u \in Confirmers \ {q} : subject'[u] = subject[u]
  BY <1>1 DEF LockInv, ShapeOK
<1>4. \A l \in Needs(q) : \E a \in Artifacts : l = Update(ArtifactRow(a))
  BY <1>2, Roles DEF Needs
<1>5. /\ IsSeq(ConfirmScript(p)) /\ ReadIn(ConfirmScript(p))
      /\ \A l \in Needs(q) : LockFirst(ConfirmScript(p), l)
  BY <1>4, ConfirmScriptOK
<1> QED
  BY <1>1, <1>2, <1>3, <1>5, OpenKeeps

LEMMA StartPublicationKeeps == ASSUME LockInv, StartPublication PROVE LockInv'
<1>1. /\ run.status = "running" /\ Open(Worker, PublishScript(Steps[run.step]))
      /\ subject' = subject /\ seen' = seen
  BY DEF StartPublication
<1>2. Worker \in Txns /\ Worker \notin Requests /\ Worker \notin Confirmers
  BY Roles
<1>3. seen' = [u \in Txns |-> seen'[u]] /\ subject' = [u \in Confirmers |-> subject'[u]]
  BY <1>1 DEF LockInv, ShapeOK
<1>4. Steps[run.step] \in SUBSET Artifacts
  <2>1. Steps \in Seq(SUBSET Artifacts) /\ run.step \in 1..Len(Steps)
    BY <1>1, LockAssumption DEF LockAssumption, LockInv, ShapeOK
  <2> QED
    BY <2>1
<1>5. /\ IsSeq(PublishScript(Steps[run.step]))
      /\ \A l : Publishes(l) => LockIn(PublishScript(Steps[run.step]), l)
  BY <1>4, PublishScriptOK DEF Publishes
<1> QED
  BY <1>1, <1>2, <1>3, <1>5, OpenKeeps

----
(* Before it reads, a request has the locks it needs.                      *)
LEMMA ReadsUnderLocks ==
  ASSUME LockInv, NEW t \in Requests, phase[t] = "open",
         script[t] = <<>> \/ Head(script[t]).do = "read"
  PROVE  Needs(t) \subseteq held[t] /\ (script[t] = <<>> => AfterReading(t))
<1>1. IsSeq(script[t]) /\ (BeforeReading(t) \/ AfterReading(t))
  BY DEF Txns, LockInv, TxnOK, RequestOK
<1>2. ASSUME script[t] = <<>> PROVE AfterReading(t)
  <2>1. ~ReadIn(script[t])
    BY <1>2 DEF ReadIn
  <2> QED
    BY <1>1, <2>1 DEF BeforeReading
<1>3. ASSUME script[t] # <<>>, Head(script[t]).do = "read", BeforeReading(t) PROVE Needs(t) \subseteq held[t]
  <2>1. \A l : ~LockFirst(script[t], l)
    BY <1>1, <1>3, TailKeeps
  <2> QED
    BY <1>3, <2>1 DEF BeforeReading
<1> QED
  BY <1>1, <1>2, <1>3 DEF AfterReading

LEMMA ReadKeeps ==
  ASSUME LockInv, NEW t \in Txns, NextIs(t, "read"), ~Refuses(t),
         seen' = [seen EXCEPT ![t] = latest],
         script' = [script EXCEPT ![t] = Tail(@) \o
           (IF t \in Planners THEN VersionLocks(Artifacts) ELSE <<>>)],
         UNCHANGED <<phase, held, subject, loop, latest, feedback, plan, confirmed, run>>
  PROVE  LockInv'
<1> DEFINE more == IF t \in Planners THEN VersionLocks(Artifacts) ELSE <<>>
<1>1. phase[t] = "open" /\ script[t] # <<>> /\ Head(script[t]).do = "read"
  BY DEF NextIs
<1>2. /\ seen'[t] = latest /\ script'[t] = Tail(script[t]) \o more
      /\ \A u \in Txns \ {t} : seen'[u] = seen[u] /\ script'[u] = script[u]
      /\ seen' = [u \in Txns |-> seen'[u]] /\ script' = [u \in Txns |-> script'[u]]
  BY DEF LockInv, ShapeOK
<1>3. IsSeq(more)
  BY VersionLocksAreSeq, ItemsAreSeq
<1> HIDE DEF more
<1>4. IsSeq(script[t]) /\ (t \in Requests => RequestOK(t)) /\ (t = Worker => WorkerOK)
  BY <1>1 DEF LockInv, TxnOK
<1>5. /\ IsSeq(script'[t])
      /\ \A l : LockIn(script[t], l) /\ Head(script[t]) # l => LockIn(script'[t], l)
  <2>1. /\ IsSeq(Tail(script[t]))
        /\ \A l : LockIn(script[t], l) /\ Head(script[t]) # l => LockIn(Tail(script[t]), l)
    BY <1>1, <1>4, TailKeeps
  <2> QED
    BY <1>2, <1>3, <2>1, ScriptsFollow
<1>6. ASSUME t \in Requests PROVE RequestOK(t)'
  <2>1. Needs(t) \subseteq held'[t]
    BY <1>1, <1>6, ReadsUnderLocks
  <2>2. Sees(t)'
    BY <1>2, Roles DEF Sees, Refuses
  <2> QED
    BY <1>4, <1>6, <2>1, <2>2 DEF RequestOK, AfterReading, Needs
<1>7. ASSUME t = Worker PROVE WorkerOK'
  <2> SUFFICES ASSUME NEW l, Publishes(l) PROVE l \in held'[Worker] \/ LockIn(script'[Worker], l)
    BY <1>4, <1>7 DEF WorkerOK, Publishes
  <2>1. l.do = "lock" /\ (l \in held[Worker] \/ LockIn(script[Worker], l))
    BY <1>4, <1>7, NeedsAreLocks DEF WorkerOK
  <2> QED
    BY <1>1, <1>5, <1>7, <2>1
<1>8. TxnOK(t)'
  BY <1>5, <1>6, <1>7 DEF TxnOK
<1>9. ASSUME NEW u \in Txns, u # t PROVE TxnOK(u)'
  BY <1>2, <1>9, OtherOK
<1>10. ShapeOK' /\ PlansAreMade' /\ RowsAreExclusive'
  BY <1>2 DEF LockInv, ShapeOK, PlansAreMade, RowsAreExclusive
<1> QED
  BY <1>8, <1>9, <1>10 DEF LockInv

LEMMA CommitPlanKeeps == ASSUME LockInv, NEW q \in Txns, CommitPlan(q) PROVE LockInv'
<1>1. /\ q \in Planners /\ phase[q] = "open" /\ End(q, "committed")
      /\ plan' = [plan EXCEPT ![q] = seen[q]] /\ UNCHANGED <<seen, latest, feedback, confirmed, run>>
  BY DEF CommitPlan, Ready
<1>2. plan[q] = <<>>
  BY <1>1 DEF LockInv, PlansAreMade
<1>3. /\ \A p \in Planners : plan[p] # <<>> => plan'[p] = plan[p]
      /\ \A p \in Planners \ {q} : plan'[p] = plan[p]
      /\ plan' = [p \in Planners |-> plan'[p]]
  BY <1>1, <1>2 DEF LockInv, ShapeOK
<1>4. "committed" \in Phases \ {"open"} /\ q # Worker
  BY <1>1, Roles DEF Phases
<1>5. /\ (\A u \in Txns : TxnOK(u))' /\ RowsAreExclusive'
      /\ phase' \in [Txns -> Phases] /\ phase'[q] = "committed"
      /\ \A u \in Txns \ {q} : phase'[u] = phase[u]
      /\ script' = [u \in Txns |-> script'[u]] /\ held' = [u \in Txns |-> held'[u]]
  BY <1>1, <1>3, <1>4, EndOK
<1>6. PlansAreMade'
  <2>1. \A p \in Planners : p \in Txns
    BY DEF Txns, Requests
  <2> QED
    BY <1>3, <1>5, <2>1 DEF LockInv, PlansAreMade
<1>7. ShapeOK'
  BY <1>1, <1>3, <1>5 DEF LockInv, ShapeOK, End
<1> QED
  BY <1>5, <1>6, <1>7 DEF LockInv

(* What a publication moves, nobody has read who has yet to commit.        *)
LEMMA PublicationMovesNothingRead ==
  ASSUME LockInv, CommitPublication, NEW u \in Requests, phase[u] = "open", AfterReading(u)
  PROVE  Sees(u)'
<1> DEFINE S == Steps[run.step]
<1>1. /\ phase[Worker] = "open" /\ script[Worker] = <<>>
      /\ latest' = [a \in Artifacts |-> IF a \in S THEN latest[a] + 1 ELSE latest[a]]
      /\ UNCHANGED <<seen, plan, subject>>
  BY DEF CommitPublication, Ready, End
<1>2. /\ \A a \in S : Update(ArtifactRow(a)) \in held[Worker]
      /\ S # {} => KeyShare(ProjectRow) \in held[Worker]
  <2>1. WorkerOK
    BY <1>1, Roles DEF LockInv, TxnOK
  <2>2. \A l : ~LockIn(script[Worker], l)
    BY <1>1 DEF LockIn
  <2> QED
    BY <2>1, <2>2 DEF WorkerOK, Publishes
<1>3. u \in Txns /\ u # Worker /\ Worker \in Txns /\ Needs(u) \subseteq held[u] /\ Sees(u)
  BY Roles DEF Txns, AfterReading
<1>4. \A l \in held[u], m \in held[Worker] : l.row = m.row => Compatible(l.mode, m.mode)
  BY <1>3 DEF LockInv, RowsAreExclusive
<1>5. \A row : /\ Update(row).row = row /\ ~Compatible(Update(row).mode, Update(row).mode)
               /\ KeyShare(row).row = row /\ ~Compatible(Update(row).mode, KeyShare(row).mode)
  BY DEF Update, KeyShare, Compatible
<1>6. \A a \in S : Update(ArtifactRow(a)) \notin held[u]
  BY <1>2, <1>4, <1>5
<1>7. Update(ProjectRow) \in held[u] => S = {}
  BY <1>2, <1>4, <1>5
<1>8. S = {} => latest' = latest
  BY <1>1 DEF LockInv, ShapeOK
<1>9. S \subseteq Artifacts
  <2>1. Steps \in Seq(SUBSET Artifacts) /\ run.step \in 1..Len(Steps)
    BY <1>1, Roles, LockAssumption DEF LockAssumption, LockInv, ShapeOK, TxnOK, WorkerOK
  <2> QED
    BY <2>1
<1>10. CASE u \in Feedbacks
  <2>1. About[u] \in Artifacts /\ Update(ArtifactRow(About[u])) \in held[u]
    BY <1>3, <1>10, LockAssumption DEF LockAssumption, Needs
  <2>2. latest'[About[u]] = latest[About[u]]
    BY <1>1, <1>6, <2>1
  <2> QED
    BY <1>1, <1>3, <1>10, <2>2 DEF Sees
<1>11. CASE u \in Planners
  <2>1. Update(ProjectRow) \in held[u]
    BY <1>3, <1>11, Roles DEF Needs
  <2> QED
    BY <1>1, <1>3, <1>7, <1>8, <1>11, <2>1, Roles DEF Sees
<1>12. CASE u \in Confirmers
  <2>1. \A a \in Artifacts : Update(ArtifactRow(a)) \in held[u]
    BY <1>3, <1>12, Roles DEF Needs
  <2>2. latest' = latest
    BY <1>6, <1>8, <1>9, <2>1
  <2> QED
    BY <1>1, <1>3, <1>12, <2>2, Roles DEF Sees
<1>13. CASE u \in Ingestions
  BY <1>13 DEF Sees
<1> QED
  BY <1>10, <1>11, <1>12, <1>13 DEF Requests

LEMMA CommitPublicationKeeps == ASSUME LockInv, CommitPublication PROVE LockInv'
<1> DEFINE how == IF run.step < Len(Steps) THEN "idle" ELSE "committed"
<1>1. /\ phase[Worker] = "open" /\ End(Worker, how) /\ UNCHANGED <<seen, plan>>
      /\ latest' = [a \in Artifacts |->
           IF a \in Steps[run.step] THEN latest[a] + 1 ELSE latest[a]]
      /\ run' = IF run.step < Len(Steps) THEN [run EXCEPT !.step = @ + 1]
                                         ELSE [run EXCEPT !.status = "completed"]
  BY DEF CommitPublication, Ready
<1>2. how \in Phases \ {"open"} /\ Worker \in Txns /\ \A p \in Planners : p # Worker /\ p \in Txns
  BY Roles DEF Phases, Txns
<1>3. \A u \in Txns \ {Worker} :
        u \in Requests /\ phase[u] = "open" /\ AfterReading(u) => Sees(u)'
  BY PublicationMovesNothingRead
<1> HIDE DEF how
<1>4. /\ (\A u \in Txns : TxnOK(u))' /\ RowsAreExclusive'
      /\ phase' \in [Txns -> Phases] /\ phase'[Worker] = how
      /\ \A u \in Txns \ {Worker} : phase'[u] = phase[u]
      /\ script' = [u \in Txns |-> script'[u]] /\ held' = [u \in Txns |-> held'[u]]
  BY <1>1, <1>2, <1>3, EndOK
<1>5. PlansAreMade'
  BY <1>1, <1>2, <1>4 DEF LockInv, PlansAreMade
<1>6. /\ run' \in [status : {"running", "completed", "stranded"}, step : Nat]
      /\ run'.status = "running" => run'.step \in 1..Len(Steps)
  <2>1. /\ run \in [status : {"running", "completed", "stranded"}, step : Nat]
        /\ run.status = "running" => run.step \in 1..Len(Steps)
    BY DEF LockInv, ShapeOK
  <2>2. CASE run.step < Len(Steps)
    <3>1. run' = [run EXCEPT !.step = @ + 1]
      BY <1>1, <2>2
    <3>2. Len(Steps) \in Nat
      BY LockAssumption DEF LockAssumption
    <3> QED
      BY <2>1, <2>2, <3>1, <3>2
  <2>3. CASE ~(run.step < Len(Steps))
    <3>1. run' = [run EXCEPT !.status = "completed"]
      BY <1>1, <2>3
    <3> QED
      BY <2>1, <3>1
  <2> QED
    BY <2>2, <2>3
<1>7. ShapeOK'
  <2>1. subject' = subject
    BY <1>1 DEF End
  <2>2. latest' = [a \in Artifacts |-> latest'[a]]
    BY <1>1
  <2> QED
    BY <1>1, <1>4, <1>6, <2>1, <2>2 DEF LockInv, ShapeOK
<1> QED
  BY <1>4, <1>5, <1>7 DEF LockInv

LEMMA AbortKeeps == ASSUME LockInv, NEW t \in Txns, Abort(t) PROVE LockInv'
<1>1. /\ InDeadlock(t) /\ End(t, "aborted") /\ UNCHANGED <<seen, latest, feedback, plan, confirmed>>
      /\ run' = IF t = Worker THEN [run EXCEPT !.status = "stranded"] ELSE run
  BY DEF Abort
<1>2. phase[t] = "open"
  <2>1. Blockers(t) # {}
    BY <1>1 DEF InDeadlock, WaitsFor
  <2> QED
    BY <2>1 DEF Blockers
<1>3. run' = run \/ (t = Worker /\ run'.status = "stranded"
                       /\ run' \in [status : {"stranded"}, step : Nat])
  <2>1. run \in [status : {"running", "completed", "stranded"}, step : Nat]
    BY DEF LockInv, ShapeOK
  <2> QED
    BY <1>1, <2>1
<1> QED
  BY <1>1, <1>2, <1>3, QuietEndKeeps

LEMMA NextLocks == LockInv /\ [Next]_vars => LockInv'
<1> SUFFICES ASSUME LockInv, [Next]_vars PROVE LockInv'
  OBVIOUS
<1>1. CASE Receive
  BY <1>1, ReceiveFeedbackKeeps, ReceiveIngestionKeeps, ReceivePlanKeeps, ReceiveConfirmKeeps, StartPublicationKeeps
     DEF Receive
<1>2. ASSUME NEW t \in Txns, Lock(t) PROVE LockInv'
  BY <1>2, LockKeeps
<1>3. ASSUME NEW t \in Txns, ReadRows(t) PROVE LockInv'
  <2>1. phase[t] = "open" /\ UNCHANGED <<latest, feedback, plan, confirmed, run>>
    BY <1>3 DEF ReadRows, NextIs
  <2>2. CASE End(t, "refused") /\ UNCHANGED seen
    BY <2>1, <2>2, QuietEndKeeps
  <2>3. CASE /\ ~Refuses(t) /\ seen' = [seen EXCEPT ![t] = latest]
             /\ script' = [script EXCEPT ![t] = Tail(@) \o
                  (IF t \in Planners THEN VersionLocks(Artifacts) ELSE <<>>)]
             /\ UNCHANGED <<phase, held, subject, loop>>
    BY <1>3, <2>1, <2>3, ReadKeeps DEF ReadRows
  <2> QED
    BY <1>3, <2>2, <2>3 DEF ReadRows, VersionLocks
<1>4. ASSUME NEW t \in Txns, CheckPlan(t) PROVE LockInv'
  <2>1. /\ phase[t] = "open" /\ script[t] # <<>> /\ Head(script[t]).do = "check"
        /\ UNCHANGED <<seen, latest, feedback, plan, confirmed, run>>
    BY <1>4 DEF CheckPlan, NextIs
  <2>2. CASE End(t, "refused")
    BY <2>1, <2>2, QuietEndKeeps
  <2>3. CASE script' = [script EXCEPT ![t] = Tail(@)] /\ UNCHANGED <<phase, held, subject, loop>>
    BY <2>1, <2>3, MoveKeeps
  <2> QED
    BY <1>4, <2>2, <2>3 DEF CheckPlan
<1>5. ASSUME NEW t \in Txns, GiveUpLoop(t) \/ TakeLoop(t) PROVE LockInv'
  BY <1>5, MoveKeeps DEF GiveUpLoop, TakeLoop, NextIs
<1>6. ASSUME NEW t \in Txns, CommitFeedback(t) \/ CommitIngestion(t) PROVE LockInv'
  BY <1>6, QuietEndKeeps DEF CommitFeedback, CommitIngestion, Ready
<1>7. ASSUME NEW t \in Txns, CommitPlan(t) PROVE LockInv'
  BY <1>7, CommitPlanKeeps
<1>8. ASSUME NEW t \in Txns, CommitConfirm(t) PROVE LockInv'
  BY <1>8, QuietEndKeeps DEF CommitConfirm, Ready
<1>9. CASE CommitPublication
  BY <1>9, CommitPublicationKeeps
<1>10. ASSUME NEW t \in Txns, Abort(t) PROVE LockInv'
  BY <1>10, AbortKeeps
<1>11. ASSUME NEW t \in Txns, CommitReservation(t) PROVE LockInv'
  BY <1>11, ReservationKeeps
<1>12. CASE UNCHANGED vars
  <2>1. UNCHANGED <<phase, script, held, seen, subject, latest, plan, run>>
    BY <1>12 DEF vars
  <2>2. \A u \in Txns : TxnOK(u)'
    BY <2>1, OtherOK
  <2>3. ShapeOK' /\ RowsAreExclusive' /\ PlansAreMade'
    BY <2>1 DEF LockInv, ShapeOK, RowsAreExclusive, PlansAreMade
  <2> QED
    BY <2>2, <2>3 DEF LockInv
<1> QED
  BY <1>1, <1>2, <1>3, <1>4, <1>5, <1>6, <1>7, <1>8, <1>9, <1>10, <1>11, <1>12
     DEF Next, Advance

(* Two-phase locking as the requests do it, for any of them: nobody shares *)
(* a row that another has, and what was read is current until the commit.  *)
THEOREM LocksProtectReads == Spec => []LockInv
<1> QED
  BY LockInit, NextLocks, PTL DEF Spec

----
(* Feedback that commits has read, and what it is about is what it named,  *)
(* although create_feedback was suspended after it had compared them.      *)
THEOREM FeedbackStaysCurrent == Spec => FeedbackIsOnTheLatest
<1>1. ASSUME LockInv, [Next]_vars, NEW q \in Feedbacks, phase[q] = "open", phase'[q] = "committed"
      PROVE  seen[q][About[q]] = latest[About[q]]
  <2>1. q \in Requests /\ q \in Txns /\ q # Worker
    BY Roles DEF Txns
  <2>2. Ready(q)
    <3>1. phase \in [Txns -> Phases]
      BY <1>1 DEF LockInv, ShapeOK
    <3>2. ASSUME NEW t \in Txns, NEW how, End(t, how), t # q \/ how # "committed" PROVE FALSE
      <4>1. phase'[q] = IF t = q THEN how ELSE phase[q]
        BY <2>1, <3>1, <3>2 DEF End
      <4> QED
        BY <1>1, <3>2, <4>1
    <3>3. ASSUME NEW t \in Txns, NEW todo, Open(t, todo) PROVE FALSE
      <4>1. phase'[q] = IF t = q THEN "open" ELSE phase[q]
        BY <2>1, <3>1, <3>3 DEF Open
      <4> QED
        BY <1>1, <4>1
    <3>4. phase' # phase
      BY <1>1
    <3>5. ASSUME NEW t \in Txns, Advance(t) \/ Abort(t) PROVE Ready(q)
      BY <2>1, <3>2, <3>4, <3>5
         DEF Advance, Abort, Lock, ReadRows, CheckPlan, GiveUpLoop, TakeLoop, CommitReservation,
             CommitIngestion, CommitFeedback, CommitPlan, CommitConfirm, CommitPublication
    <3>6. ~Receive
      BY <3>3, Roles
         DEF Receive, ReceiveFeedback, ReceiveIngestion, ReceivePlan, ReceiveConfirm, StartPublication, Txns
    <3> QED
      BY <1>1, <3>4, <3>5, <3>6 DEF Next, vars
  <2>3. AfterReading(q)
    BY <1>1, <2>1, <2>2, ReadsUnderLocks DEF Ready
  <2> QED
    BY <2>3, Roles DEF AfterReading, Sees
<1>2. LockInv /\ [Next]_vars =>
        \A q \in Feedbacks : phase[q] = "open" /\ phase'[q] = "committed" =>
          seen[q][About[q]] = latest[About[q]]
  BY <1>1
<1> QED
  BY <1>2, LocksProtectReads, PTL DEF Spec, FeedbackIsOnTheLatest

(* A planner that commits has read under the lock of its project, which a  *)
(* publication needs as well: nothing was published since.                 *)
THEOREM PlansFreezeOneCut == Spec => PlansAreOneCut
<1>1. ASSUME LockInv, [Next]_vars, NEW p \in Planners, plan'[p] # plan[p]
      PROVE  plan'[p] = latest'
  <2>1. PICK q \in Txns : CommitPlan(q)
    <3>1. plan' # plan
      BY <1>1
    <3>2. ~Receive
      BY <3>1 DEF Receive, ReceiveFeedback, ReceiveIngestion, ReceivePlan, ReceiveConfirm, StartPublication, Open
    <3> QED
      BY <1>1, <3>1, <3>2
         DEF Next, vars, Advance, Abort, Lock, ReadRows, CheckPlan, GiveUpLoop, TakeLoop,
             CommitReservation, CommitIngestion,
             CommitFeedback, CommitConfirm, CommitPublication
  <2>2. /\ q \in Planners /\ phase[q] = "open" /\ script[q] = <<>>
        /\ plan' = [plan EXCEPT ![q] = seen[q]] /\ latest' = latest
    BY <2>1 DEF CommitPlan, Ready
  <2>3. p = q /\ plan'[p] = seen[p]
    BY <1>1, <2>2 DEF LockInv, ShapeOK
  <2>4. Sees(p)
    BY <1>1, <2>2, <2>3, Roles, ReadsUnderLocks DEF AfterReading
  <2> QED
    BY <2>2, <2>3, <2>4, Roles DEF Sees
<1>2. LockInv /\ [Next]_vars => \A p \in Planners : plan'[p] # plan[p] => plan'[p] = latest'
  BY <1>1
<1> QED
  BY <1>2, LocksProtectReads, PTL DEF Spec, PlansAreOneCut

(* A confirmation that commits has every artifact under its lock since it  *)
(* compared the plan with them, and makes the only run of its project.     *)
THEOREM ConfirmsWhatIsCurrent == Spec => ConfirmationsAreCurrent
<1>1. ASSUME LockInv, [Next]_vars, confirmed' # confirmed
      PROVE  confirmed = Free /\ run.status = "completed" /\ plan[confirmed'] = latest'
  <2>1. PICK q \in Txns : CommitConfirm(q)
    <3>1. ~Receive
      BY <1>1 DEF Receive, ReceiveFeedback, ReceiveIngestion, ReceivePlan, ReceiveConfirm, StartPublication, Open
    <3> QED
      BY <1>1, <3>1
         DEF Next, vars, Advance, Abort, Lock, ReadRows, CheckPlan, GiveUpLoop, TakeLoop,
             CommitReservation, CommitIngestion,
             CommitFeedback, CommitPlan, CommitPublication
  <2>2. /\ q \in Confirmers /\ phase[q] = "open" /\ script[q] = <<>> /\ latest' = latest
        /\ run.status = "completed" /\ confirmed = Free /\ confirmed' = subject[q]
    BY <1>1, <2>1 DEF CommitConfirm, Ready
  <2>3. Sees(q)
    BY <1>1, <2>2, Roles, ReadsUnderLocks DEF AfterReading
  <2> QED
    BY <2>2, <2>3, Roles DEF Sees
<1>2. LockInv /\ [Next]_vars =>
        (confirmed' # confirmed =>
           confirmed = Free /\ run.status = "completed" /\ plan[confirmed'] = latest')
  BY <1>1
<1> QED
  BY <1>2, LocksProtectReads, PTL DEF Spec, ConfirmationsAreCurrent
====
