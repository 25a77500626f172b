---- MODULE RunEventFeedProofs ----
(***************************************************************************)
(* What a feed shows has no hole, and a feed that stops has missed nothing *)
(* - for every run, page size, number of visits and number of faults.  The *)
(* inductive invariant says what a synchronisation carries between its     *)
(* requests: its batch is an interval that ends where it continues, its    *)
(* snapshot, if terminal, is still the run, and its artifacts were asked   *)
(* for when it says so.                                                    *)
(***************************************************************************)
EXTENDS RunEventFeed, TLAPS

Caches == [events : SUBSET Nat, cursor : Nat, last : Nat]
Snapshots == [latest : Nat, terminal : BOOLEAN]
Stages == {"none", "snapshot", "run", "page", "write", "refresh", "settle"}
Syncs == [at : Stages, again : BOOLEAN, run : Snapshots, tail : Nat,
          cursor : Nat, batch : SUBSET Nat, news : SUBSET Nat]
Statuses == {"idle", "running", "paused", "stopped"}

RunOK ==
  /\ latest \in Nat \ {0} /\ terminal \in BOOLEAN /\ asked \in Nat /\ asked <= latest

PageOK ==
  /\ visit \in Nat /\ visit <= Mounts /\ open \in BOOLEAN /\ hidden \in BOOLEAN
  /\ open => visit \in Feeds

FeedsOK ==
  /\ shown \in Caches /\ cache \in [Feeds -> Caches]
  /\ sync \in [Feeds -> Syncs]
  /\ status \in [Feeds -> Statuses] /\ timer \in [Feeds -> BOOLEAN]

(* A cache is whole and holds committed events only. *)
CacheOK(c) == Whole(c) /\ c.last <= latest

CachesOK == CacheOK(shown) /\ \A f \in Feeds : CacheOK(cache[f])

(* A terminal snapshot is what the run will always be. *)
SnapshotOK(s) == s.run.terminal => terminal /\ s.run.latest = latest

(* The pages read so far end at the cursor of the next one. *)
BatchOK(s) ==
  /\ s.tail <= latest
  /\ s.at = "page" /\ s.batch # {} =>
       s.cursor < s.tail /\ \E low \in 1..s.cursor : s.batch = low..s.cursor
  /\ s.at = "write" /\ s.batch # {} =>
       \E high \in 1..latest : \E low \in 1..high : s.batch = low..high

(* The artifacts were asked for after the batch that named new versions. *)
AskedOK(s, c) == s.at = "settle" /\ s.news \cap Publishing # {} => asked >= c.last

SyncsOK == \A f \in Feeds :
  SnapshotOK(sync[f]) /\ BatchOK(sync[f]) /\ AskedOK(sync[f], cache[f])

(* A feed that stopped by itself does nothing any more, one that is not    *)
(* created yet nothing at all.                                             *)
StoppedOK == open /\ status[visit] = "stopped" => sync[visit].at = "none"
UnbornOK == \A f \in Feeds : f > visit => sync[f].at = "none" /\ ~timer[f]

FeedInv ==
  /\ RunOK /\ PageOK /\ FeedsOK /\ CachesOK /\ SyncsOK
  /\ StoppedOK /\ UnbornOK /\ StoppedMissesNothing

-----------------------------------------------------------------------------
(* The bounds of an interval. *)
LEMMA IntervalBounds ==
  ASSUME NEW a \in Nat, NEW b \in Nat, a <= b
  PROVE  MinIn(a..b) = a /\ MaxIn(a..b) = b
<1>1. a \in a..b /\ \A m \in a..b : m >= a
  OBVIOUS
<1>2. b \in a..b /\ \A m \in a..b : m <= b
  OBVIOUS
<1>3. \A n \in a..b : (\A m \in a..b : m >= n) => n = a
  BY <1>1
<1>4. \A n \in a..b : (\A m \in a..b : m <= n) => n = b
  BY <1>2
<1> QED BY <1>1, <1>2, <1>3, <1>4 DEF MinIn, MaxIn

LEMMA InitFeed == Init => FeedInv
<1> SUFFICES ASSUME Init PROVE FeedInv
  OBVIOUS
<1>1. Empty \in Caches /\ Whole(Empty)
  BY DEF Empty, Caches, Whole
<1>2. NoSync \in Syncs /\ NoSync.at = "none" /\ ~NoSync.run.terminal /\ NoSync.tail = 0
  BY DEF NoSync, Syncs, Snapshots, Stages
<1>3. RunOK /\ PageOK
  <2>1. latest = 1 /\ ~terminal /\ terminal \in BOOLEAN /\ asked = 0
    BY DEF Init
  <2>2. visit = 0 /\ ~open /\ open \in BOOLEAN /\ hidden \in BOOLEAN
    BY DEF Init
  <2>3. RunOK
    BY <2>1 DEF RunOK
  <2> QED BY <2>2, <2>3, FeedAssumption DEF PageOK
<1>4. FeedsOK
  BY <1>1, <1>2 DEF Init, FeedsOK, Statuses
<1>5. CachesOK
  BY <1>1 DEF Init, CachesOK, CacheOK, Empty
<1>6. SyncsOK
  BY <1>2 DEF Init, SyncsOK, SnapshotOK, BatchOK, AskedOK
<1>7. UnbornOK
  BY <1>2 DEF Init, UnbornOK
<1>8. StoppedOK /\ StoppedMissesNothing
  BY DEF Init, StoppedOK, StoppedMissesNothing
<1> QED BY <1>3, <1>4, <1>5, <1>6, <1>7, <1>8 DEF FeedInv

(* What a step needs of SyncNow: it starts a synchronisation with nothing  *)
(* in it, or leaves the one in flight alone.                               *)
LEMMA StartsEmpty ==
  ASSUME FeedInv, NEW f \in Feeds, NEW now \in Statuses
  PROVE  /\ SyncNow(f, now) \in [Feeds -> Syncs]
         /\ \A g \in Feeds : g # f => SyncNow(f, now)[g] = sync[g]
         /\ \/ SyncNow(f, now)[f] = sync[f]
            \/ SyncNow(f, now)[f] = [NoSync EXCEPT !.at = "snapshot"] /\ now = "running"
<1>1. [NoSync EXCEPT !.at = "snapshot"] \in Syncs
  BY DEF NoSync, Syncs, Snapshots, Stages
<1>2. sync \in [Feeds -> Syncs]
  BY DEF FeedInv, FeedsOK
<1> QED BY <1>1, <1>2 DEF SyncNow

(* A synchronisation that carries nothing satisfies every invariant.       *)
LEMMA EmptySync ==
  ASSUME NEW s, NEW c, RunOK,
         \/ s = NoSync \/ s = [NoSync EXCEPT !.at = "snapshot"]
         \/ s = [NoSync EXCEPT !.at = "snapshot", !.again = TRUE]
  PROVE  /\ s \in Syncs /\ s.at \in {"none", "snapshot"}
         /\ SnapshotOK(s) /\ BatchOK(s) /\ AskedOK(s, c)
<1> DEFINE Begun == [NoSync EXCEPT !.at = "snapshot"]
<1> DEFINE Again == [NoSync EXCEPT !.at = "snapshot", !.again = TRUE]
<1> DEFINE Blank(t) == /\ t.at \in {"none", "snapshot"} /\ t.tail = 0
                       /\ t.batch = {} /\ t.news = {}
<1>1. NoSync \in Syncs /\ Begun \in Syncs /\ Again \in Syncs
  BY DEF NoSync, Syncs, Snapshots, Stages
<1>2. Blank(NoSync) /\ Blank(Begun) /\ Blank(Again)
  BY DEF NoSync
<1>3. ~NoSync.run.terminal /\ ~Begun.run.terminal /\ ~Again.run.terminal
  BY DEF NoSync
<1> HIDE DEF Begun, Again, Blank
<1>4. s \in Syncs /\ Blank(s) /\ ~s.run.terminal
  <2>1. s = NoSync \/ s = Begun \/ s = Again
    BY DEF Begun, Again
  <2> QED BY <1>1, <1>2, <1>3, <2>1
<1>5. SnapshotOK(s) /\ AskedOK(s, c)
  BY <1>4 DEF SnapshotOK, AskedOK, Blank
<1>6. BatchOK(s)
  BY <1>4 DEF BatchOK, RunOK, Blank
<1> QED BY <1>4, <1>5, <1>6 DEF Blank

-----------------------------------------------------------------------------
(* The run and the page. *)

LEMMA AppendEventKeeps == FeedInv /\ AppendEvent => FeedInv'
<1> SUFFICES ASSUME FeedInv, AppendEvent PROVE FeedInv'
  OBVIOUS
<1>1. /\ latest' = latest + 1 /\ latest \in Nat /\ ~terminal /\ terminal' \in BOOLEAN
      /\ UNCHANGED <<shown, asked, visit, open, hidden, status, timer, cache, sync>>
  BY DEF AppendEvent, FeedInv, RunOK, page, feedVars
<1>2. RunOK' /\ PageOK' /\ FeedsOK'
  BY <1>1 DEF FeedInv, RunOK, PageOK, FeedsOK
<1>3. CachesOK'
  BY <1>1 DEF FeedInv, FeedsOK, Caches, CachesOK, CacheOK, Whole
<1>4. SyncsOK'
  <2> SUFFICES ASSUME NEW f \in Feeds
               PROVE  SnapshotOK(sync[f])' /\ BatchOK(sync[f])' /\ AskedOK(sync[f], cache[f])'
    BY DEF SyncsOK
  <2>1. SnapshotOK(sync[f]) /\ BatchOK(sync[f]) /\ AskedOK(sync[f], cache[f]) /\ sync[f] \in Syncs
    BY DEF FeedInv, SyncsOK, FeedsOK
  <2>2. SnapshotOK(sync[f])' /\ AskedOK(sync[f], cache[f])'
    BY <1>1, <2>1 DEF SnapshotOK, AskedOK
  <2>3. 1..latest \subseteq 1..(latest + 1)
    BY <1>1
  <2>4. BatchOK(sync[f])'
    BY <1>1, <2>1, <2>3 DEF BatchOK, Syncs
  <2> QED BY <2>2, <2>4
<1>5. StoppedOK' /\ UnbornOK' /\ StoppedMissesNothing'
  BY <1>1 DEF FeedInv, StoppedOK, UnbornOK, StoppedMissesNothing
<1> QED BY <1>2, <1>3, <1>4, <1>5 DEF FeedInv

(* Opening, leaving, hiding and showing the page, and a timer, only start  *)
(* an empty synchronisation, and a new feed begins with what is shown.     *)
LEMMA PageStepKeeps ==
  ASSUME FeedInv, UNCHANGED <<latest, terminal, shown, asked>>,
         PageOK', FeedsOK',
         \A g \in Feeds : cache'[g] = cache[g] \/ (cache'[g] = shown /\ sync'[g].at # "settle"),
         \A g \in Feeds : \/ sync'[g] = sync[g]
                         \/ sync'[g] = [NoSync EXCEPT !.at = "snapshot"]
  PROVE  RunOK' /\ CachesOK' /\ SyncsOK'
<1>1. RunOK'
  BY DEF FeedInv, RunOK
<1>2. CachesOK'
  BY DEF FeedInv, CachesOK, CacheOK, Whole
<1>3. SyncsOK'
  <2> SUFFICES ASSUME NEW g \in Feeds
               PROVE  SnapshotOK(sync[g])' /\ BatchOK(sync[g])' /\ AskedOK(sync[g], cache[g])'
    BY DEF SyncsOK
  <2>1. CASE sync'[g] = sync[g]
    BY <2>1 DEF FeedInv, SyncsOK, SnapshotOK, BatchOK, AskedOK
  <2>2. CASE sync'[g] = [NoSync EXCEPT !.at = "snapshot"]
    <3>1. SnapshotOK(sync'[g]) /\ BatchOK(sync'[g]) /\ AskedOK(sync'[g], cache'[g])
      BY <2>2, EmptySync DEF FeedInv
    <3> QED BY <3>1 DEF SnapshotOK, BatchOK, AskedOK
  <2> QED BY <2>1, <2>2
<1> QED BY <1>1, <1>2, <1>3

LEMMA MountKeeps == FeedInv /\ Mount => FeedInv'
<1> SUFFICES ASSUME FeedInv, Mount PROVE FeedInv'
  OBVIOUS
<1> DEFINE now == IF hidden THEN "paused" ELSE "running"
<1>1. visit' = visit + 1 /\ visit' \in Feeds /\ visit' <= Mounts
  BY FeedAssumption DEF Mount, FeedInv, PageOK, Feeds
<1>2. open' = TRUE /\ hidden' = hidden /\ timer' = timer
      /\ UNCHANGED <<latest, terminal, shown, asked>>
  BY DEF Mount
<1>3. now \in Statuses /\ now # "stopped"
  BY DEF Statuses
<1>4. /\ status' = [status EXCEPT ![visit'] = now] /\ sync' = SyncNow(visit', now)
      /\ cache' = [cache EXCEPT ![visit'] = shown]
  BY DEF Mount
<1> HIDE DEF now
<1>5. sync' \in [Feeds -> Syncs]
      /\ \A g \in Feeds : sync'[g] = sync[g] \/ sync'[g] = [NoSync EXCEPT !.at = "snapshot"]
  <2>1. \A h \in Feeds : /\ SyncNow(h, now) \in [Feeds -> Syncs]
                         /\ \A g \in Feeds : \/ SyncNow(h, now)[g] = sync[g]
                                              \/ SyncNow(h, now)[g] = [NoSync EXCEPT !.at = "snapshot"]
    BY <1>3, StartsEmpty
  <2> QED BY <1>1, <1>4, <2>1
<1>6. PageOK'
  BY <1>1, <1>2 DEF FeedInv, PageOK
<1>7. FeedsOK'
  BY <1>1, <1>2, <1>3, <1>4, <1>5 DEF FeedInv, FeedsOK
<1>8. sync'[visit'].at # "settle"
  <2>1. sync[visit'].at = "none"
    BY <1>1 DEF FeedInv, UnbornOK, PageOK
  <2>2. sync'[visit'] = sync[visit'] \/ sync'[visit'] = [NoSync EXCEPT !.at = "snapshot"]
    BY <1>1, <1>5
  <2>3. [NoSync EXCEPT !.at = "snapshot"].at = "snapshot"
    BY DEF NoSync
  <2> QED BY <2>1, <2>2, <2>3
<1>9. RunOK' /\ CachesOK' /\ SyncsOK'
  <2>1. \A g \in Feeds : cache'[g] = cache[g] \/ (cache'[g] = shown /\ sync'[g].at # "settle")
    BY <1>1, <1>4, <1>8 DEF FeedInv, FeedsOK
  <2> QED BY <1>2, <1>5, <1>6, <1>7, <2>1, PageStepKeeps
<1>10. status'[visit'] # "stopped"
  BY <1>1, <1>3, <1>4 DEF FeedInv, FeedsOK
<1>11. UnbornOK'
  <2> SUFFICES ASSUME NEW f \in Feeds, f > visit' PROVE (sync[f].at = "none" /\ ~timer[f])'
    BY DEF UnbornOK
  <2>1. f # visit' /\ f > visit
    BY <1>1 DEF FeedInv, PageOK, Feeds
  <2>2. sync'[f] = sync[f] /\ timer' = timer
    <3>1. \A h \in Feeds : \A g \in Feeds : g # h => SyncNow(h, now)[g] = sync[g]
      BY <1>3, StartsEmpty
    <3> QED BY <1>1, <1>2, <1>4, <2>1, <3>1
  <2> QED BY <2>1, <2>2 DEF FeedInv, UnbornOK
<1> QED BY <1>6, <1>7, <1>9, <1>10, <1>11 DEF FeedInv, StoppedOK, StoppedMissesNothing

LEMMA UnmountKeeps == FeedInv /\ Unmount => FeedInv'
<1> SUFFICES ASSUME FeedInv, Unmount PROVE FeedInv'
  OBVIOUS
<1>1. /\ ~open' /\ open' \in BOOLEAN /\ visit \in Feeds
      /\ status' = [status EXCEPT ![visit] = "stopped"] /\ timer' = [timer EXCEPT ![visit] = FALSE]
      /\ UNCHANGED <<latest, terminal, shown, asked, visit, hidden, cache, sync>>
  BY DEF Unmount, FeedInv, PageOK
<1>2. PageOK'
  BY <1>1 DEF FeedInv, PageOK
<1>3. FeedsOK'
  BY <1>1 DEF FeedInv, FeedsOK, Statuses
<1>4. RunOK' /\ CachesOK' /\ SyncsOK'
  BY <1>1, <1>2, <1>3, PageStepKeeps
<1>5. UnbornOK'
  BY <1>1 DEF FeedInv, UnbornOK, FeedsOK
<1> QED BY <1>1, <1>2, <1>3, <1>4, <1>5 DEF FeedInv, StoppedOK, StoppedMissesNothing

LEMMA HideKeeps == FeedInv /\ Hide => FeedInv'
<1> SUFFICES ASSUME FeedInv, Hide PROVE FeedInv'
  OBVIOUS
<1>1. /\ hidden' \in BOOLEAN
      /\ UNCHANGED <<latest, terminal, shown, asked, visit, open, cache, sync>>
  BY DEF Hide
<1>2. \/ UNCHANGED <<status, timer>>
      \/ /\ open /\ visit \in Feeds
         /\ status' = [status EXCEPT ![visit] = "paused"]
         /\ timer' = [timer EXCEPT ![visit] = FALSE]
  BY DEF Hide, FeedInv, PageOK
<1>3. PageOK'
  BY <1>1 DEF FeedInv, PageOK
<1>4. FeedsOK'
  BY <1>1, <1>2 DEF FeedInv, FeedsOK, Statuses
<1>5. RunOK' /\ CachesOK' /\ SyncsOK'
  BY <1>1, <1>3, <1>4, PageStepKeeps
<1>6. UnbornOK'
  BY <1>1, <1>2 DEF FeedInv, UnbornOK, FeedsOK
<1>7. open' /\ status'[visit'] = "stopped" => open /\ status[visit] = "stopped"
  BY <1>1, <1>2 DEF FeedInv, FeedsOK
<1>8. StoppedOK' /\ StoppedMissesNothing'
  BY <1>1, <1>7 DEF FeedInv, StoppedOK, StoppedMissesNothing
<1> QED BY <1>3, <1>4, <1>5, <1>6, <1>8 DEF FeedInv

(* Show and Poll: the feed of this visit resumes, or a feed's timer fires. *)
LEMMA ResumeKeeps ==
  ASSUME FeedInv, NEW f \in Feeds, f <= visit, NEW now \in Statuses,
         UNCHANGED <<latest, terminal, shown, asked, visit, open, cache>>,
         hidden' \in BOOLEAN,
         sync' = SyncNow(f, now), status' = [status EXCEPT ![f] = now],
         now = "stopped" => status[f] = "stopped",
         timer' \in [Feeds -> BOOLEAN], \A g \in Feeds : timer'[g] => timer[g]
  PROVE  FeedInv'
<1>1. PageOK'
  BY DEF FeedInv, PageOK
<1>2. /\ sync' \in [Feeds -> Syncs] /\ \A g \in Feeds : g # f => sync'[g] = sync[g]
      /\ sync'[f] = sync[f] \/ (sync'[f] = [NoSync EXCEPT !.at = "snapshot"] /\ now = "running")
  BY StartsEmpty
<1>3. FeedsOK'
  BY <1>2 DEF FeedInv, FeedsOK
<1>4. RunOK' /\ CachesOK' /\ SyncsOK'
  BY <1>1, <1>2, <1>3, PageStepKeeps
<1>5. UnbornOK'
  <2> SUFFICES ASSUME NEW g \in Feeds, g > visit PROVE (sync[g].at = "none" /\ ~timer[g])'
    BY DEF UnbornOK
  <2>1. g # f
    BY DEF FeedInv, PageOK, Feeds
  <2> QED BY <1>2, <2>1 DEF FeedInv, UnbornOK
<1>6. status'[f] = now /\ \A g \in Feeds : g # f => status'[g] = status[g]
  BY DEF FeedInv, FeedsOK
<1>7. status[f] = "stopped" /\ open /\ visit = f => sync[f].at = "none"
  BY DEF FeedInv, StoppedOK
<1>8. StoppedOK'
  <2> SUFFICES ASSUME open, status'[visit] = "stopped" PROVE sync'[visit].at = "none"
    BY DEF StoppedOK
  <2>1. CASE visit = f
    <3>1. now = "stopped" /\ status[visit] = "stopped"
      BY <1>6, <2>1
    <3>2. sync'[visit] = sync[visit]
      BY <1>2, <2>1, <3>1
    <3> QED BY <1>7, <2>1, <3>1, <3>2
  <2>2. CASE visit # f
    <3>1. visit \in Feeds
      BY DEF FeedInv, PageOK
    <3>2. status'[visit] = status[visit] /\ sync'[visit] = sync[visit]
      BY <1>2, <1>6, <2>2, <3>1
    <3> QED BY <3>2 DEF FeedInv, StoppedOK
  <2> QED BY <2>1, <2>2
<1>9. StoppedMissesNothing'
  <2>1. open /\ status'[visit] = "stopped" => status[visit] = "stopped"
    <3> SUFFICES ASSUME open, status'[visit] = "stopped" PROVE status[visit] = "stopped"
      OBVIOUS
    <3>1. visit \in Feeds
      BY DEF FeedInv, PageOK
    <3> QED BY <1>6, <3>1
  <2> QED BY <2>1 DEF FeedInv, StoppedMissesNothing
<1> QED BY <1>1, <1>3, <1>4, <1>5, <1>8, <1>9 DEF FeedInv

LEMMA ShowKeeps == FeedInv /\ Show => FeedInv'
<1> SUFFICES ASSUME FeedInv, Show PROVE FeedInv'
  OBVIOUS
<1>1. /\ hidden' \in BOOLEAN
      /\ UNCHANGED <<latest, terminal, shown, asked, visit, open, cache, timer>>
  BY DEF Show
<1>2. CASE open /\ status[visit] # "stopped"
  <2>1. /\ visit \in Feeds /\ visit <= visit /\ timer' \in [Feeds -> BOOLEAN]
        /\ "running" \in Statuses
    BY <1>1, <1>2 DEF FeedInv, PageOK, FeedsOK, Statuses
  <2>2. sync' = SyncNow(visit, "running") /\ status' = [status EXCEPT ![visit] = "running"]
    BY <1>2 DEF Show
  <2> QED BY <1>1, <1>2, <2>1, <2>2, ResumeKeeps
<1>3. CASE ~(open /\ status[visit] # "stopped")
  <2>1. UNCHANGED <<status, sync>>
    BY <1>3 DEF Show
  <2>2. PageOK'
    BY <1>1 DEF FeedInv, PageOK
  <2>3. FeedsOK'
    BY <1>1, <2>1 DEF FeedInv, FeedsOK
  <2>4. RunOK' /\ CachesOK' /\ SyncsOK'
    BY <1>1, <2>1, <2>2, <2>3, PageStepKeeps
  <2> QED BY <1>1, <2>1, <2>2, <2>3, <2>4 DEF FeedInv, StoppedOK, UnbornOK, StoppedMissesNothing
<1> QED BY <1>2, <1>3

LEMMA PollKeeps == FeedInv /\ (\E f \in Feeds : Poll(f)) => FeedInv'
<1> SUFFICES ASSUME FeedInv, NEW f \in Feeds, Poll(f) PROVE FeedInv'
  OBVIOUS
<1>1. /\ UNCHANGED <<latest, terminal, shown, asked, visit, open, hidden, cache, status>>
      /\ sync' = SyncNow(f, status[f]) /\ timer[f] /\ timer' = [timer EXCEPT ![f] = FALSE]
  BY DEF Poll, page
<1>2. f <= visit
  BY <1>1 DEF FeedInv, UnbornOK, PageOK, Feeds
<1>3. status[f] \in Statuses /\ status' = [status EXCEPT ![f] = status[f]]
  BY <1>1 DEF FeedInv, FeedsOK
<1>4. timer' \in [Feeds -> BOOLEAN] /\ \A g \in Feeds : timer'[g] => timer[g]
  BY <1>1 DEF FeedInv, FeedsOK
<1>5. hidden' \in BOOLEAN
  BY <1>1 DEF FeedInv, PageOK
<1> QED BY <1>1, <1>2, <1>3, <1>4, <1>5, ResumeKeeps

-----------------------------------------------------------------------------
(* One step of a synchronisation in flight. *)

(* What suffices of it: the rest of the invariant is about other feeds, or *)
(* about a feed that has stopped, which has nothing in flight.             *)
LEMMA SyncStepKeeps ==
  ASSUME FeedInv, NEW f \in Feeds, sync[f].at # "none",
         UNCHANGED <<latest, terminal, visit, open, hidden, status>>,
         asked' = asked \/ asked' = latest,
         FeedsOK', CacheOK(shown)', CacheOK(cache[f])',
         SnapshotOK(sync[f])', BatchOK(sync[f])', AskedOK(sync[f], cache[f])',
         \A g \in Feeds : g # f => /\ cache'[g] = cache[g] /\ sync'[g] = sync[g]
                                  /\ timer'[g] = timer[g]
  PROVE  FeedInv'
<1>1. RunOK' /\ PageOK' /\ asked <= asked'
  BY DEF FeedInv, RunOK, PageOK
<1>2. CachesOK'
  <2>1. \A g \in Feeds : g # f => CacheOK(cache[g])'
    BY DEF FeedInv, CachesOK, CacheOK, Whole
  <2> QED BY <2>1 DEF CachesOK
<1>3. SyncsOK'
  <2> SUFFICES ASSUME NEW g \in Feeds
               PROVE  SnapshotOK(sync[g])' /\ BatchOK(sync[g])' /\ AskedOK(sync[g], cache[g])'
    BY DEF SyncsOK
  <2>1. CASE g = f
    BY <2>1
  <2>2. CASE g # f
    <3>1. SnapshotOK(sync[g]) /\ BatchOK(sync[g]) /\ AskedOK(sync[g], cache[g])
      BY DEF FeedInv, SyncsOK
    <3>2. cache[g].last \in Nat
      BY DEF FeedInv, FeedsOK, Caches
    <3>3. AskedOK(sync[g], cache[g])'
      BY <1>1, <2>2, <3>1, <3>2 DEF AskedOK, FeedInv, RunOK
    <3> QED BY <2>2, <3>1, <3>3 DEF SnapshotOK, BatchOK
  <2> QED BY <2>1, <2>2
<1>4. UnbornOK'
  <2>1. f <= visit
    BY DEF FeedInv, UnbornOK, PageOK, Feeds
  <2> QED BY <2>1 DEF FeedInv, UnbornOK, PageOK, Feeds
<1>5. StoppedOK' /\ StoppedMissesNothing'
  <2> SUFFICES ASSUME open, status[visit] = "stopped" PROVE StoppedOK' /\ StoppedMissesNothing'
    BY DEF StoppedOK, StoppedMissesNothing
  <2>1. visit # f /\ visit \in Feeds
    BY DEF FeedInv, StoppedOK, PageOK
  <2>2. StoppedOK'
    BY <2>1 DEF FeedInv, StoppedOK
  <2>3. terminal /\ cache[visit].last = latest /\ \A e \in Publishing \cap (1..latest) : asked >= e
    BY DEF FeedInv, StoppedMissesNothing
  <2>4. \A e \in Publishing \cap (1..latest) : asked' >= e
    BY <1>1, <2>3 DEF FeedInv, RunOK
  <2> QED BY <2>1, <2>2, <2>3, <2>4 DEF StoppedMissesNothing
<1> QED BY <1>1, <1>2, <1>3, <1>4, <1>5 DEF FeedInv

LEMMA FetchRunKeeps == FeedInv /\ (\E f \in Feeds : FetchRun(f)) => FeedInv'
<1> SUFFICES ASSUME FeedInv, NEW f \in Feeds, FetchRun(f) PROVE FeedInv'
  OBVIOUS
<1>1. /\ sync[f].at = "snapshot"
      /\ sync' = [sync EXCEPT ![f].at = "run", ![f].run = Snapshot]
      /\ UNCHANGED <<latest, terminal, shown, asked, visit, open, hidden, status, timer, cache>>
  BY DEF FetchRun, page
<1>2. Snapshot \in Snapshots /\ Snapshot.terminal = terminal /\ Snapshot.latest = latest
  BY DEF FeedInv, RunOK, Snapshots, Snapshot
<1>3. sync[f] \in Syncs
  BY DEF FeedInv, FeedsOK
<1>4. /\ sync' \in [Feeds -> Syncs] /\ \A g \in Feeds : g # f => sync'[g] = sync[g]
      /\ sync'[f].at = "run" /\ sync'[f].run = Snapshot /\ sync'[f].tail = sync[f].tail
  BY <1>1, <1>2, <1>3 DEF FeedInv, FeedsOK, Syncs, Stages
<1>5. FeedsOK'
  BY <1>1, <1>4 DEF FeedInv, FeedsOK
<1>6. CacheOK(shown)' /\ CacheOK(cache[f])'
  BY <1>1 DEF FeedInv, CachesOK, CacheOK, Whole
<1>7. SnapshotOK(sync[f])'
  BY <1>1, <1>2, <1>4 DEF SnapshotOK
<1>8. BatchOK(sync[f])' /\ AskedOK(sync[f], cache[f])'
  BY <1>1, <1>4 DEF FeedInv, SyncsOK, BatchOK, AskedOK
<1> QED BY <1>1, <1>4, <1>5, <1>6, <1>7, <1>8, SyncStepKeeps

LEMMA RecoverTailKeeps == FeedInv /\ (\E f \in Feeds : RecoverTail(f)) => FeedInv'
<1> SUFFICES ASSUME FeedInv, NEW f \in Feeds, RecoverTail(f) PROVE FeedInv'
  OBVIOUS
<1>1. /\ sync[f].at = "run"
      /\ sync' = [sync EXCEPT ![f].at = "page", ![f].tail = latest,
                              ![f].cursor = cache[f].cursor, ![f].batch = {}]
      /\ UNCHANGED <<latest, terminal, shown, asked, visit, open, hidden, status, timer, cache>>
  BY DEF RecoverTail, page
<1>2. sync[f] \in Syncs /\ cache[f].cursor \in Nat /\ latest \in Nat
  BY DEF FeedInv, FeedsOK, RunOK, Caches
<1>3. /\ sync' \in [Feeds -> Syncs] /\ \A g \in Feeds : g # f => sync'[g] = sync[g]
      /\ sync'[f].at = "page" /\ sync'[f].run = sync[f].run /\ sync'[f].tail = latest
      /\ sync'[f].batch = {}
  BY <1>1, <1>2 DEF FeedInv, FeedsOK, Syncs, Stages
<1>4. FeedsOK'
  BY <1>1, <1>3 DEF FeedInv, FeedsOK
<1>5. CacheOK(shown)' /\ CacheOK(cache[f])'
  BY <1>1 DEF FeedInv, CachesOK, CacheOK, Whole
<1>6. SnapshotOK(sync[f])'
  BY <1>1, <1>3 DEF FeedInv, SyncsOK, SnapshotOK
<1>7. BatchOK(sync[f])' /\ AskedOK(sync[f], cache[f])'
  BY <1>1, <1>2, <1>3 DEF BatchOK, AskedOK
<1> QED BY <1>1, <1>3, <1>4, <1>5, <1>6, <1>7, SyncStepKeeps

(* A synchronisation that ends or starts over carries nothing.             *)
LEMMA EndKeeps ==
  ASSUME FeedInv, NEW f \in Feeds, sync[f].at # "none",
         UNCHANGED <<latest, terminal, asked, visit, open, hidden, status>>,
         CacheOK(shown)', CacheOK(cache[f])', shown' \in Caches, cache' \in [Feeds -> Caches],
         \A g \in Feeds : g # f => cache'[g] = cache[g],
         NEW s, sync' = [sync EXCEPT ![f] = s],
         s = NoSync \/ s = [NoSync EXCEPT !.at = "snapshot", !.again = TRUE],
         timer' = timer \/ timer' = [timer EXCEPT ![f] = (status[f] = "running")]
  PROVE  FeedInv'
<1>1. RunOK
  BY DEF FeedInv
<1>2. s \in Syncs /\ SnapshotOK(s) /\ BatchOK(s) /\ AskedOK(s, cache'[f])
  BY <1>1, EmptySync
<1>3. sync'[f] = s /\ sync' \in [Feeds -> Syncs] /\ \A g \in Feeds : g # f => sync'[g] = sync[g]
  BY <1>2 DEF FeedInv, FeedsOK
<1>4. timer' \in [Feeds -> BOOLEAN] /\ \A g \in Feeds : g # f => timer'[g] = timer[g]
  BY DEF FeedInv, FeedsOK
<1>5. FeedsOK'
  BY <1>3, <1>4 DEF FeedInv, FeedsOK
<1>6. SnapshotOK(sync[f])' /\ BatchOK(sync[f])' /\ AskedOK(sync[f], cache[f])'
  BY <1>2, <1>3 DEF SnapshotOK, BatchOK, AskedOK
<1> QED BY <1>3, <1>4, <1>5, <1>6, SyncStepKeeps

LEMMA EndStepsKeep ==
  FeedInv /\ (\E f \in Feeds : RequestFails(f) \/ GiveUpSync(f) \/ SettleRunning(f)) => FeedInv'
<1> SUFFICES ASSUME FeedInv, NEW f \in Feeds,
                    RequestFails(f) \/ GiveUpSync(f) \/ SettleRunning(f)
             PROVE  FeedInv'
  OBVIOUS
<1>1. /\ sync[f].at # "none" /\ Schedule(f)
      /\ shown' = shown \/ shown' = cache[f]
      /\ cache' = cache \/ cache' = [cache EXCEPT ![f] = cache[f]]
      /\ UNCHANGED <<latest, terminal, asked, visit, open, hidden, status>>
  BY DEF RequestFails, GiveUpSync, SettleRunning, WriteCache, page
<1>2. sync' = [sync EXCEPT ![f] = NoSync] /\ timer' = [timer EXCEPT ![f] = (status[f] = "running")]
  BY <1>1 DEF Schedule
<1>3. cache' = cache
  BY <1>1 DEF FeedInv, FeedsOK
<1>4. CacheOK(shown)' /\ CacheOK(cache[f])'
  BY <1>1, <1>3 DEF FeedInv, CachesOK, CacheOK, Whole
<1>5. shown' \in Caches /\ cache' \in [Feeds -> Caches]
  BY <1>1, <1>3 DEF FeedInv, FeedsOK
<1> QED BY <1>1, <1>2, <1>3, <1>4, <1>5, EndKeeps

LEMMA StartOverKeeps == FeedInv /\ (\E f \in Feeds : StartOver(f)) => FeedInv'
<1> SUFFICES ASSUME FeedInv, NEW f \in Feeds, StartOver(f) PROVE FeedInv'
  OBVIOUS
<1> DEFINE s == [NoSync EXCEPT !.at = "snapshot", !.again = TRUE]
<1>1. /\ sync[f].at # "none" /\ cache' = [cache EXCEPT ![f] = Empty] /\ shown' = Empty
      /\ sync' = [sync EXCEPT ![f] = s]
      /\ UNCHANGED <<latest, terminal, asked, visit, open, hidden, status, timer>>
  BY DEF StartOver, WriteCache, page
<1>2. Empty \in Caches /\ Whole(Empty) /\ Empty.last <= latest
  BY DEF Empty, Caches, Whole, FeedInv, RunOK
<1>3. /\ shown' \in Caches /\ cache' \in [Feeds -> Caches] /\ cache'[f] = Empty
      /\ \A g \in Feeds : g # f => cache'[g] = cache[g]
  BY <1>1, <1>2 DEF FeedInv, FeedsOK
<1>4. CacheOK(shown)' /\ CacheOK(cache[f])'
  BY <1>1, <1>2, <1>3 DEF CacheOK, Whole
<1>5. s = NoSync \/ s = [NoSync EXCEPT !.at = "snapshot", !.again = TRUE]
  OBVIOUS
<1> HIDE DEF s
<1> QED BY <1>1, <1>3, <1>4, <1>5, EndKeeps

LEMMA RefreshKeeps == FeedInv /\ (\E f \in Feeds : Refresh(f)) => FeedInv'
<1> SUFFICES ASSUME FeedInv, NEW f \in Feeds, Refresh(f) PROVE FeedInv'
  OBVIOUS
<1>1. /\ sync[f].at = "refresh" /\ sync' = [sync EXCEPT ![f].at = "settle"]
      /\ asked' = (IF sync[f].news \cap Publishing # {} THEN latest ELSE asked)
      /\ UNCHANGED <<latest, terminal, shown, visit, open, hidden, status, timer, cache>>
  BY DEF Refresh, page
<1>2. sync[f] \in Syncs
  BY DEF FeedInv, FeedsOK
<1>3. /\ sync' \in [Feeds -> Syncs] /\ \A g \in Feeds : g # f => sync'[g] = sync[g]
      /\ sync'[f].at = "settle" /\ sync'[f].run = sync[f].run /\ sync'[f].tail = sync[f].tail
      /\ sync'[f].news = sync[f].news
  BY <1>1, <1>2 DEF FeedInv, FeedsOK, Syncs, Stages
<1>4. FeedsOK'
  BY <1>1, <1>3 DEF FeedInv, FeedsOK
<1>5. CacheOK(shown)' /\ CacheOK(cache[f])'
  BY <1>1 DEF FeedInv, CachesOK, CacheOK, Whole
<1>6. SnapshotOK(sync[f])' /\ BatchOK(sync[f])'
  BY <1>1, <1>3 DEF FeedInv, SyncsOK, SnapshotOK, BatchOK
<1>7. AskedOK(sync[f], cache[f])'
  BY <1>1, <1>3 DEF AskedOK, FeedInv, CachesOK, CacheOK
<1> QED BY <1>1, <1>3, <1>4, <1>5, <1>6, <1>7, SyncStepKeeps

(* What is left of an interval after its first part. *)
LEMMA RestOfInterval ==
  ASSUME NEW low \in Nat, NEW high \in Nat, NEW last \in Nat, low <= high, high > last
  PROVE  /\ low > last => {e \in low..high : e > last} = low..high
         /\ ~(low > last) => {e \in low..high : e > last} = (last + 1)..high
<1>1. CASE low > last
  BY <1>1
<1>2. CASE ~(low > last)
  BY <1>2
<1> QED BY <1>1, <1>2

LEMMA FetchPageKeeps == FeedInv /\ (\E f \in Feeds : FetchPage(f)) => FeedInv'
<1> SUFFICES ASSUME FeedInv, NEW f \in Feeds, FetchPage(f) PROVE FeedInv'
  OBVIOUS
<1> DEFINE from == sync[f].cursor
<1> DEFINE tail == sync[f].tail
<1> DEFINE end == PageEnd(from)
<1> DEFINE next == NextCursor(tail, from)
<1> DEFINE high == IF end <= tail THEN end ELSE tail
<1> DEFINE more == HasMore(from) /\ end < tail
<1> DEFINE taken(lost) == {e \in (from + 1 + lost)..end : e <= tail}
<1>1. PICK lost \in {0, 1} :
        /\ lost = 1 => sync[f].batch = {}
        /\ sync' = [sync EXCEPT ![f].at = IF more THEN "page" ELSE "write",
                                ![f].cursor = next, ![f].batch = @ \cup taken(lost)]
  BY DEF FetchPage
<1>2. /\ sync[f].at = "page"
      /\ UNCHANGED <<latest, terminal, shown, asked, visit, open, hidden, status, timer, cache>>
  BY DEF FetchPage, page
<1>3. sync[f] \in Syncs /\ from \in Nat /\ tail \in Nat /\ latest \in Nat \ {0} /\ PageLimit \in Nat \ {0}
  BY FeedAssumption DEF FeedInv, FeedsOK, RunOK, Syncs
<1>4. /\ end = (IF latest > from + PageLimit THEN from + PageLimit ELSE latest) /\ end \in Nat
      /\ HasMore(from) <=> latest > from + PageLimit
      /\ next \in Nat
      /\ more => next = end /\ end < tail
  BY <1>3 DEF PageEnd, HasMore, NextCursor
<1>5. /\ tail <= latest
      /\ sync[f].batch # {} => from < tail /\ \E low \in 1..from : sync[f].batch = low..from
  BY <1>2 DEF FeedInv, SyncsOK, BatchOK
<1>6. high \in Nat /\ high <= latest /\ (more => high = end /\ from < end)
  BY <1>3, <1>4, <1>5
<1> HIDE DEF from, tail, end, next, high, more
<1>7. taken(lost) \subseteq Nat /\ taken(lost) = (from + 1 + lost)..high
  BY <1>3, <1>4, <1>6 DEF high
<1>8. /\ sync' \in [Feeds -> Syncs] /\ \A g \in Feeds : g # f => sync'[g] = sync[g]
      /\ sync'[f].at = (IF more THEN "page" ELSE "write") /\ sync'[f].cursor = next
      /\ sync'[f].batch = sync[f].batch \cup taken(lost)
      /\ sync'[f].run = sync[f].run /\ sync'[f].tail = tail
  <2> DEFINE stage == IF more THEN "page" ELSE "write"
  <2> DEFINE batch == sync[f].batch \cup taken(lost)
  <2>1. stage \in Stages
    BY DEF Stages
  <2>2. batch \in SUBSET Nat
    BY <1>3, <1>7 DEF Syncs
  <2> DEFINE t == [sync[f] EXCEPT !.at = stage, !.cursor = next, !.batch = batch]
  <2>3. sync' = [sync EXCEPT ![f] = t]
    BY <1>1, <1>3 DEF FeedInv, FeedsOK, Syncs
  <2> HIDE DEF stage, batch
  <2>4. /\ t \in Syncs /\ t.at = stage /\ t.cursor = next /\ t.batch = batch
        /\ t.run = sync[f].run /\ t.tail = sync[f].tail
    BY <1>3, <1>4, <2>1, <2>2 DEF Syncs
  <2> HIDE DEF t
  <2>5. /\ sync' \in [Feeds -> Syncs] /\ \A g \in Feeds : g # f => sync'[g] = sync[g]
        /\ sync'[f] = t
    BY <2>3, <2>4 DEF FeedInv, FeedsOK
  <2> QED BY <2>4, <2>5 DEF stage, batch, tail
<1> HIDE DEF taken
<1>9. ASSUME sync'[f].batch # {}
      PROVE  \E low \in 1..high : sync'[f].batch = low..high
  <2>1. CASE sync[f].batch = {}
    <3>1. sync'[f].batch = (from + 1 + lost)..high
      BY <1>7, <1>8, <2>1
    <3>2. from + 1 + lost \in 1..high
      BY <1>3, <1>6, <1>9, <3>1
    <3> QED BY <3>1, <3>2
  <2>2. CASE sync[f].batch # {}
    <3>1. PICK low \in 1..from : sync[f].batch = low..from
      BY <1>5, <2>2
    <3>2. lost = 0 /\ from <= tail /\ from <= end
      BY <1>1, <1>3, <1>4, <1>5, <2>2
    <3>3. low..from \cup (from + 1 + 0)..high = low..high /\ low \in 1..high
      BY <1>3, <1>4, <1>6, <3>1, <3>2 DEF high
    <3> QED BY <1>7, <1>8, <3>1, <3>2, <3>3
  <2> QED BY <2>1, <2>2
<1>10. FeedsOK'
  BY <1>2, <1>8 DEF FeedInv, FeedsOK
<1>11. CacheOK(shown)' /\ CacheOK(cache[f])'
  BY <1>2 DEF FeedInv, CachesOK, CacheOK, Whole
<1>12. SnapshotOK(sync[f])' /\ AskedOK(sync[f], cache[f])'
  BY <1>2, <1>8 DEF FeedInv, SyncsOK, SnapshotOK, AskedOK
<1>13. BatchOK(sync[f])'
  <2>1. ASSUME more, sync'[f].batch # {}
        PROVE  next < tail /\ \E low \in 1..next : sync'[f].batch = low..next
    <3>1. next = high /\ next < tail
      BY <1>4, <1>6, <2>1
    <3>2. \E low \in 1..high : sync'[f].batch = low..high
      BY <1>9, <2>1
    <3> QED BY <3>1, <3>2
  <2>2. ASSUME sync'[f].batch # {}
        PROVE  \E h \in 1..latest : \E low \in 1..h : sync'[f].batch = low..h
    <3>1. PICK low \in 1..high : sync'[f].batch = low..high
      BY <1>9, <2>2
    <3>2. high \in 1..latest
      BY <1>3, <1>6, <3>1
    <3> QED BY <3>1, <3>2
  <2> QED BY <1>2, <1>5, <1>8, <2>1, <2>2 DEF BatchOK
<1> QED BY <1>2, <1>8, <1>10, <1>11, <1>12, <1>13, SyncStepKeeps

LEMMA WriteEventsKeeps == FeedInv /\ (\E f \in Feeds : WriteEvents(f)) => FeedInv'
<1> SUFFICES ASSUME FeedInv, NEW f \in Feeds, WriteEvents(f) PROVE FeedInv'
  OBVIOUS
<1> DEFINE news == News(f)
<1> DEFINE last == cache[f].last
<1> DEFINE c == [events |-> cache[f].events \cup news, cursor |-> sync[f].cursor,
                 last |-> IF news = {} THEN last ELSE MaxIn(news)]
<1> DEFINE s == [NoSync EXCEPT !.at = IF news = {} THEN "settle" ELSE "refresh",
                               !.run = sync[f].run, !.news = news]
<1>1. /\ sync[f].at = "write" /\ ~Gap(f) /\ cache' = [cache EXCEPT ![f] = c] /\ shown' = c
      /\ sync' = [sync EXCEPT ![f] = s]
      /\ UNCHANGED <<latest, terminal, asked, visit, open, hidden, status, timer>>
  BY DEF WriteEvents, WriteCache, page
<1>2. /\ sync[f] \in Syncs /\ sync[f].cursor \in Nat /\ sync[f].batch \subseteq Nat
      /\ sync[f].run \in Snapshots /\ latest \in Nat
      /\ cache[f] \in Caches /\ last \in Nat /\ cache[f].events \subseteq Nat
  BY DEF FeedInv, FeedsOK, RunOK, Syncs, Caches
<1>3. news = {e \in sync[f].batch : e > last} /\ news \subseteq Nat
  BY <1>2 DEF News
<1>4. cache[f].events = 1..last /\ last <= latest
  BY DEF FeedInv, CachesOK, CacheOK, Whole
<1> HIDE DEF news, last
<1>5. c.last \in Nat /\ c.last <= latest /\ c.events = 1..c.last
  <2>1. CASE news = {}
    BY <1>2, <1>4, <2>1
  <2>2. CASE news # {}
    <3>1. PICK high \in 1..latest : \E low \in 1..high : sync[f].batch = low..high
      BY <1>1, <1>3, <2>2 DEF FeedInv, SyncsOK, BatchOK
    <3>2. PICK low \in 1..high : sync[f].batch = low..high
      BY <3>1
    <3>3. high > last /\ high \in Nat /\ low \in Nat
      BY <1>2, <1>3, <2>2, <3>2
    <3> DEFINE first == IF low > last THEN low ELSE last + 1
    <3>4. first \in Nat /\ first <= high /\ news = first..high
      <4>1. news = {e \in low..high : e > last} /\ low <= high
        BY <1>3, <3>2, <3>3
      <4>2. CASE low > last
        <5>1. news = low..high
          BY <1>2, <3>3, <4>1, <4>2, RestOfInterval
        <5> QED BY <3>3, <4>1, <4>2, <5>1
      <4>3. CASE ~(low > last)
        <5>1. news = (last + 1)..high
          BY <1>2, <3>3, <4>1, <4>3, RestOfInterval
        <5> QED BY <1>2, <3>3, <4>1, <4>3, <5>1
      <4> QED BY <4>2, <4>3
    <3> HIDE DEF first
    <3>5. MinIn(news) = first /\ MaxIn(news) = high
      BY <3>3, <3>4, IntervalBounds
    <3>6. first = last + 1
      BY <1>1, <2>2, <3>5 DEF Gap, news, last
    <3>7. c.last = high /\ c.events = (1..last) \cup ((last + 1)..high)
      BY <1>4, <2>2, <3>4, <3>5, <3>6
    <3>8. (1..last) \cup ((last + 1)..high) = 1..high /\ high <= latest
      BY <1>2, <3>1, <3>3
    <3> QED BY <3>3, <3>7, <3>8
  <2> QED BY <2>1, <2>2
<1>6. c \in Caches
  BY <1>2, <1>3, <1>5 DEF Caches
<1>7. /\ s \in Syncs /\ s.at = (IF news = {} THEN "settle" ELSE "refresh")
      /\ s.run = sync[f].run /\ s.tail = 0 /\ s.news = news
  BY <1>2, <1>3 DEF NoSync, Syncs, Stages
<1> HIDE DEF c, s
<1>8. /\ sync' \in [Feeds -> Syncs] /\ sync'[f] = s /\ cache'[f] = c
      /\ \A g \in Feeds : g # f => cache'[g] = cache[g] /\ sync'[g] = sync[g]
  BY <1>1, <1>6, <1>7 DEF FeedInv, FeedsOK
<1>9. FeedsOK'
  BY <1>1, <1>6, <1>8 DEF FeedInv, FeedsOK
<1>10. CacheOK(shown)' /\ CacheOK(cache[f])'
  BY <1>1, <1>5, <1>8 DEF CacheOK, Whole
<1>11. SnapshotOK(sync[f])'
  BY <1>1, <1>7, <1>8 DEF FeedInv, SyncsOK, SnapshotOK
<1>12. BatchOK(sync[f])'
  BY <1>1, <1>2, <1>7, <1>8 DEF BatchOK
<1>13. AskedOK(sync[f], cache[f])'
  BY <1>7, <1>8 DEF AskedOK
<1> QED BY <1>1, <1>8, <1>9, <1>10, <1>11, <1>12, <1>13, SyncStepKeeps

(* A feed stops by itself: its snapshot is the run's end, and its cache    *)
(* reaches it.                                                             *)
LEMMA SettleTerminalKeeps == FeedInv /\ (\E f \in Feeds : SettleTerminal(f)) => FeedInv'
<1> SUFFICES ASSUME FeedInv, NEW f \in Feeds, SettleTerminal(f) PROVE FeedInv'
  OBVIOUS
<1>1. /\ sync[f].at = "settle" /\ sync[f].run.terminal /\ cache[f].last >= sync[f].run.latest
      /\ asked' = (IF sync[f].news \cap Publishing # {} THEN asked ELSE latest)
      /\ status' = [status EXCEPT ![f] = "stopped"] /\ timer' = [timer EXCEPT ![f] = FALSE]
      /\ sync' = [sync EXCEPT ![f] = NoSync]
      /\ UNCHANGED <<latest, terminal, shown, visit, open, hidden, cache>>
  BY DEF SettleTerminal, TailIsComplete, page
<1>2. latest \in Nat \ {0} /\ asked \in Nat /\ asked <= latest /\ cache[f].last \in Nat
  BY DEF FeedInv, RunOK, FeedsOK, Caches
<1>3. terminal /\ cache[f].last = latest
  <2>1. terminal /\ sync[f].run.latest = latest
    BY <1>1 DEF FeedInv, SyncsOK, SnapshotOK
  <2>2. cache[f].last <= latest
    BY DEF FeedInv, CachesOK, CacheOK
  <2> QED BY <1>1, <1>2, <2>1, <2>2
<1>4. asked' = latest
  <2>1. CASE sync[f].news \cap Publishing # {}
    <3>1. asked >= cache[f].last
      BY <1>1, <2>1 DEF FeedInv, SyncsOK, AskedOK
    <3> QED BY <1>1, <1>2, <1>3, <2>1, <3>1
  <2> QED BY <1>1, <2>1
<1>5. RunOK' /\ PageOK'
  BY <1>1, <1>2, <1>4 DEF FeedInv, RunOK, PageOK
<1>6. RunOK
  BY DEF FeedInv
<1>7. /\ NoSync \in Syncs /\ NoSync.at = "none"
      /\ SnapshotOK(NoSync) /\ BatchOK(NoSync) /\ AskedOK(NoSync, cache[f])
  <2>1. NoSync.at = "none"
    BY DEF NoSync
  <2> QED BY <1>6, <2>1, EmptySync
<1>8. /\ sync' \in [Feeds -> Syncs] /\ sync'[f] = NoSync /\ status'[f] = "stopped" /\ ~timer'[f]
      /\ \A g \in Feeds : g # f => sync'[g] = sync[g] /\ status'[g] = status[g] /\ timer'[g] = timer[g]
  BY <1>1, <1>7 DEF FeedInv, FeedsOK
<1>9. FeedsOK'
  BY <1>1, <1>8 DEF FeedInv, FeedsOK, Statuses
<1>10. CachesOK'
  BY <1>1 DEF FeedInv, CachesOK, CacheOK, Whole
<1>11. SyncsOK'
  <2> SUFFICES ASSUME NEW g \in Feeds
               PROVE  SnapshotOK(sync[g])' /\ BatchOK(sync[g])' /\ AskedOK(sync[g], cache[g])'
    BY DEF SyncsOK
  <2>1. CASE g = f
    <3>1. AskedOK(sync[g], cache[g])'
      BY <1>7, <1>8, <2>1 DEF AskedOK
    <3> QED BY <1>1, <1>7, <1>8, <2>1, <3>1 DEF SnapshotOK, BatchOK
  <2>2. CASE g # f
    <3>1. cache[g].last \in Nat
      BY DEF FeedInv, FeedsOK, Caches
    <3>2. AskedOK(sync[g], cache[g])'
      BY <1>1, <1>2, <1>4, <1>8, <2>2, <3>1 DEF FeedInv, SyncsOK, AskedOK
    <3> QED BY <1>1, <1>8, <2>2, <3>2 DEF FeedInv, SyncsOK, SnapshotOK, BatchOK
  <2> QED BY <2>1, <2>2
<1>12. UnbornOK'
  BY <1>1, <1>7, <1>8 DEF FeedInv, UnbornOK
<1>13. StoppedOK'
  <2>1. open => visit \in Feeds
    BY DEF FeedInv, PageOK
  <2> QED BY <1>1, <1>7, <1>8, <2>1 DEF FeedInv, StoppedOK
<1>14. StoppedMissesNothing'
  <2> SUFFICES ASSUME open, status'[visit] = "stopped"
               PROVE  /\ terminal /\ cache[visit].last = latest
                      /\ \A e \in Publishing \cap (1..latest) : asked' >= e
    BY <1>1 DEF StoppedMissesNothing
  <2>1. \A e \in Publishing \cap (1..latest) : asked' >= e
    BY <1>2, <1>4
  <2>2. cache[visit].last = latest
    <3>1. CASE visit = f
      BY <1>3, <3>1
    <3>2. CASE visit # f
      <4>1. status[visit] = "stopped"
        BY <1>8, <3>2 DEF FeedInv, PageOK
      <4> QED BY <4>1 DEF FeedInv, StoppedMissesNothing
    <3> QED BY <3>1, <3>2
  <2> QED BY <1>3, <2>1, <2>2
<1> QED BY <1>5, <1>9, <1>10, <1>11, <1>12, <1>13, <1>14 DEF FeedInv

LEMMA NextKeepsFeeds == FeedInv /\ [Next]_vars => FeedInv'
<1> SUFFICES ASSUME FeedInv, [Next]_vars PROVE FeedInv'
  OBVIOUS
<1>1. CASE AppendEvent
  BY <1>1, AppendEventKeeps
<1>2. CASE Mount \/ Unmount \/ Hide \/ Show
  BY <1>2, MountKeeps, UnmountKeeps, HideKeeps, ShowKeeps
<1>3. CASE \E f \in Feeds : Proceed(f) \/ RequestFails(f)
  BY <1>3, PollKeeps, FetchRunKeeps, RecoverTailKeeps, FetchPageKeeps, EndStepsKeep,
     StartOverKeeps, WriteEventsKeeps, RefreshKeeps, SettleTerminalKeeps DEF Proceed
<1>4. CASE UNCHANGED vars
  <2>1. UNCHANGED <<latest, terminal, shown, asked, visit, open, hidden, status, timer, cache, sync>>
    BY <1>4 DEF vars, page, feedVars
  <2>2. RunOK' /\ PageOK' /\ FeedsOK' /\ CachesOK' /\ UnbornOK'
    BY <2>1 DEF FeedInv, RunOK, PageOK, FeedsOK, CachesOK, CacheOK, Whole, UnbornOK
  <2>3. SyncsOK'
    BY <2>1 DEF FeedInv, SyncsOK, SnapshotOK, BatchOK, AskedOK
  <2>4. StoppedOK' /\ StoppedMissesNothing'
    BY <2>1 DEF FeedInv, StoppedOK, StoppedMissesNothing
  <2> QED BY <2>2, <2>3, <2>4 DEF FeedInv
<1> QED BY <1>1, <1>2, <1>3, <1>4 DEF Next

-----------------------------------------------------------------------------
(* The inductive invariant holds in every reachable state. *)
THEOREM FeedSafety == Spec => []FeedInv
BY InitFeed, NextKeepsFeeds, PTL DEF Spec

(* Whatever is lost, rejected, paused or written late by a feed of an      *)
(* earlier visit, the page shows the events from the first on.             *)
THEOREM FeedsAreWhole == Spec => []ShownHasNoHole
<1>1. FeedInv => ShownHasNoHole
  BY DEF FeedInv, CachesOK, CacheOK, ShownHasNoHole
<1> QED BY <1>1, FeedSafety, PTL

(* A feed that stopped by itself has every event of a finished run, and    *)
(* the artifacts were asked for after the last version was published.      *)
THEOREM FeedsStopComplete == Spec => []StoppedMissesNothing
<1>1. FeedInv => StoppedMissesNothing
  BY DEF FeedInv
<1> QED BY <1>1, FeedSafety, PTL
====
