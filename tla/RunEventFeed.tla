---- MODULE RunEventFeed ----
(***************************************************************************)
(* The event feed of a run in the private workspace                        *)
(* (apps/workspace/src/application/run-event-feed.ts): while the page of a *)
(* run is open a feed polls the run and its events until the run is        *)
(* terminal and its last event is shown, and refreshes what the events say *)
(* has changed.  Opening the page creates a feed and starts it, leaving it *)
(* stops that feed; the next visit creates another one, which starts from  *)
(* what the query cache shows.                                             *)
(*                                                                         *)
(* Stopping or pausing a feed does not interrupt its synchronisation: that *)
(* is a promise which continues after each of its requests, so a feed that *)
(* was left may still write when the next one is already polling.  One     *)
(* action is one request with the code up to the next one; only the write  *)
(* of the cache is a step of its own, since the answer it holds may be old *)
(* by then.                                                                *)
(*                                                                         *)
(* An event is its sequence number; 0 is the cursor null.  Delays, the     *)
(* error beside the events, and the refresh of steps and thread are left   *)
(* out: no property depends on them.                                       *)
(***************************************************************************)
EXTENDS Integers, FiniteSets

CONSTANTS
  Mounts,         \* bound: visits of the page, each with its own feed
  MaxEvents,      \* bound: events of the run
  PageLimit,      \* EVENT_PAGE_LIMIT
  Publishing,     \* the events that name new artifact versions
  MaxFaults       \* bound: requests that fail, answers that start later than
                  \* asked for, and times the page is hidden, together

ASSUME FeedAssumption ==
  /\ Mounts \in Nat /\ MaxEvents \in Nat \ {0} /\ PageLimit \in Nat \ {0}
  /\ Publishing \subseteq 1..MaxEvents
  /\ MaxFaults \in Nat

Feeds == 1..Mounts

VARIABLES
  latest,     \* latest_event_sequence of the run: events 1..latest are committed
  terminal,   \* the run has a terminal status
  shown,      \* the entry of the query cache, which the page renders
  asked,      \* latest when the list of the run's artifacts was last asked for
  visit,      \* number of feeds created
  open,       \* feed number visit is mounted
  hidden,     \* the document is hidden
  status,     \* of each feed
  timer,      \* each feed: a poll is scheduled
  cache,      \* each feed: its own reference to the cache it wrote or began with
  sync,       \* each feed: its synchronisation in flight
  faults      \* counted against MaxFaults

page == <<visit, open, hidden>>
feedVars == <<status, timer, cache, sync>>
vars == <<latest, terminal, shown, asked, page, feedVars, faults>>

Empty == [events |-> {}, cursor |-> 0, last |-> 0]
Snapshot == [latest |-> latest, terminal |-> terminal]

NoSync == [at |-> "none", again |-> FALSE, run |-> [latest |-> 0, terminal |-> FALSE],
           tail |-> 0, cursor |-> 0, batch |-> {}, news |-> {}]

MaxIn(S) == CHOOSE n \in S : \A m \in S : m <= n
MinIn(S) == CHOOSE n \in S : \A m \in S : m >= n

(* performSync begins with the run's snapshot; a feed has one at a time.   *)
SyncNow(f, now) ==
  IF sync[f].at = "none" /\ now = "running"
  THEN [sync EXCEPT ![f] = [NoSync EXCEPT !.at = "snapshot"]]
  ELSE sync

(* A synchronisation is over: the next one is scheduled while running.     *)
Schedule(f) ==
  /\ sync' = [sync EXCEPT ![f] = NoSync]
  /\ timer' = [timer EXCEPT ![f] = (status[f] = "running")]

-----------------------------------------------------------------------------
(* The run on the server. *)

(* A transition of the run commits its event with the new status. *)
AppendEvent ==
  /\ ~terminal /\ latest < MaxEvents
  /\ latest' = latest + 1
  /\ terminal' \in BOOLEAN
  /\ UNCHANGED <<shown, asked, page, feedVars, faults>>

-----------------------------------------------------------------------------
(* The page. *)

(* The page of the run is opened: createRunEventFeed and start. *)
Mount ==
  /\ ~open /\ visit < Mounts
  /\ visit' = visit + 1
  /\ open' = TRUE
  /\ LET now == IF hidden THEN "paused" ELSE "running" IN
       /\ status' = [status EXCEPT ![visit'] = now]
       /\ sync' = SyncNow(visit', now)
  /\ cache' = [cache EXCEPT ![visit'] = shown]
  /\ UNCHANGED <<latest, terminal, shown, asked, hidden, timer, faults>>

(* The page is left: stop.  What the feed has in flight goes on. *)
Unmount ==
  /\ open
  /\ open' = FALSE
  /\ status' = [status EXCEPT ![visit] = "stopped"]
  /\ timer' = [timer EXCEPT ![visit] = FALSE]
  /\ UNCHANGED <<latest, terminal, shown, asked, visit, hidden, cache, sync,
                 faults>>

(* The document is hidden: pause. *)
Hide ==
  /\ ~hidden /\ faults < MaxFaults
  /\ hidden' = TRUE
  /\ faults' = faults + 1
  /\ IF open /\ status[visit] # "stopped"
     THEN /\ status' = [status EXCEPT ![visit] = "paused"]
          /\ timer' = [timer EXCEPT ![visit] = FALSE]
     ELSE UNCHANGED <<status, timer>>
  /\ UNCHANGED <<latest, terminal, shown, asked, visit, open, cache, sync>>

(* The document is visible again: resume, which joins a synchronisation    *)
(* that is still in flight.                                                *)
Show ==
  /\ hidden
  /\ hidden' = FALSE
  /\ IF open /\ status[visit] # "stopped"
     THEN /\ status' = [status EXCEPT ![visit] = "running"]
          /\ sync' = SyncNow(visit, "running")
     ELSE UNCHANGED <<status, sync>>
  /\ UNCHANGED <<latest, terminal, shown, asked, visit, open, timer, cache,
                 faults>>

(* The timer of a feed fires. *)
Poll(f) ==
  /\ timer[f]
  /\ timer' = [timer EXCEPT ![f] = FALSE]
  /\ sync' = SyncNow(f, status[f])
  /\ UNCHANGED <<latest, terminal, shown, asked, page, status, cache, faults>>

-----------------------------------------------------------------------------
(* performSync. *)

(* fetchQuery of the run. *)
FetchRun(f) ==
  /\ sync[f].at = "snapshot"
  /\ sync' = [sync EXCEPT ![f].at = "run", ![f].run = Snapshot]
  /\ UNCHANGED <<latest, terminal, shown, asked, page, status, timer, cache, faults>>

(* recoverEvents reads the run once more: no event after this tail is      *)
(* taken.                                                                  *)
RecoverTail(f) ==
  /\ sync[f].at = "run"
  /\ sync' = [sync EXCEPT ![f].at = "page", ![f].tail = latest,
                          ![f].cursor = cache[f].cursor, ![f].batch = {}]
  /\ UNCHANGED <<latest, terminal, shown, asked, page, status, timer, cache, faults>>

(* The server's page after a cursor (list_run_events): there is a next     *)
(* cursor only when there are more events.                                 *)
PageEnd(cursor) == IF latest > cursor + PageLimit THEN cursor + PageLimit ELSE latest
HasMore(cursor) == latest > cursor + PageLimit

(* The cursor recoverEvents continues from and gives back: the tail, once  *)
(* a page went beyond it.                                                  *)
NextCursor(tail, cursor) ==
  IF PageEnd(cursor) > tail THEN tail
  ELSE IF HasMore(cursor) THEN PageEnd(cursor) ELSE 0

(* A page of the events.  An answer that starts later than asked for is    *)
(* the gap the feed looks for: it is bounded, and only the first page can  *)
(* show one.                                                               *)
FetchPage(f) ==
  /\ sync[f].at = "page"
  /\ LET from == sync[f].cursor
         next == NextCursor(sync[f].tail, from)
     IN \E lost \in {0, 1} :
          /\ lost = 1 => /\ sync[f].batch = {} /\ faults < MaxFaults
                         /\ from < PageEnd(from)
          /\ faults' = faults + lost
          /\ sync' = [sync EXCEPT
               ![f].at = IF HasMore(from) /\ PageEnd(from) < sync[f].tail
                         THEN "page" ELSE "write",
               ![f].cursor = next,
               ![f].batch = @ \cup {e \in (from + 1 + lost)..PageEnd(from) : e <= sync[f].tail}]
  /\ UNCHANGED <<latest, terminal, shown, asked, page, status, timer, cache>>

WriteCache(f, c) ==
  /\ cache' = [cache EXCEPT ![f] = c]
  /\ shown' = c

(* A request is rejected: the feed writes the cache it has once more, with *)
(* the error, and the next synchronisation is scheduled.                   *)
RequestFails(f) ==
  /\ sync[f].at \in {"snapshot", "run", "page"}
  /\ faults < MaxFaults
  /\ faults' = faults + 1
  /\ WriteCache(f, cache[f])
  /\ Schedule(f)
  /\ UNCHANGED <<latest, terminal, asked, page, status>>

News(f) == {e \in sync[f].batch : e > cache[f].last}

(* Mutant: the first new event is taken for the next one. *)
NeverAGap(f) == FALSE

(* The first new event is not the one after the last. *)
Gap(f) == News(f) # {} /\ MinIn(News(f)) # cache[f].last + 1

(* The gap clears the cache and the run is recovered from its first event. *)
StartOver(f) ==
  /\ sync[f].at = "write" /\ Gap(f) /\ ~sync[f].again
  /\ WriteCache(f, Empty)
  /\ sync' = [sync EXCEPT ![f] = [NoSync EXCEPT !.at = "snapshot", !.again = TRUE]]
  /\ UNCHANGED <<latest, terminal, asked, page, status, timer, faults>>

(* The recovery from the first event has a gap too. *)
GiveUpSync(f) ==
  /\ sync[f].at = "write" /\ Gap(f) /\ sync[f].again
  /\ WriteCache(f, cache[f])
  /\ Schedule(f)
  /\ UNCHANGED <<latest, terminal, asked, page, status, faults>>

(* The new events are merged and written to the cache the page renders. *)
WriteEvents(f) ==
  /\ sync[f].at = "write" /\ ~Gap(f)
  /\ LET news == News(f) IN
       /\ WriteCache(f, [events |-> cache[f].events \cup news,
                         cursor |-> sync[f].cursor,
                         last |-> IF news = {} THEN cache[f].last ELSE MaxIn(news)])
       /\ sync' = [sync EXCEPT ![f] = [NoSync EXCEPT
            !.at = IF news = {} THEN "settle" ELSE "refresh",
            !.run = sync[f].run, !.news = news]]
  /\ UNCHANGED <<latest, terminal, asked, page, status, timer, faults>>

(* New events: steps, thread and, when versions were published, the list   *)
(* of artifacts are asked for again.                                       *)
Refresh(f) ==
  /\ sync[f].at = "refresh"
  /\ asked' = IF sync[f].news \cap Publishing # {} THEN latest ELSE asked
  /\ sync' = [sync EXCEPT ![f].at = "settle"]
  /\ UNCHANGED <<latest, terminal, shown, page, status, timer, cache, faults>>

(* Everything the run will ever show is in this feed's cache. *)
TailIsComplete(f) == sync[f].run.terminal /\ cache[f].last >= sync[f].run.latest

(* Mutant: only the batches with versions ask for the artifacts. *)
StopWithoutReconciling(f) ==
  /\ sync[f].at = "settle" /\ TailIsComplete(f)
  /\ status' = [status EXCEPT ![f] = "stopped"]
  /\ timer' = [timer EXCEPT ![f] = FALSE]
  /\ sync' = [sync EXCEPT ![f] = NoSync]
  /\ UNCHANGED <<latest, terminal, shown, asked, page, cache, faults>>

(* The run is terminal and complete: the artifacts are reconciled unless   *)
(* this synchronisation has just asked for them, and the feed stops.       *)
SettleTerminal(f) ==
  /\ sync[f].at = "settle" /\ TailIsComplete(f)
  /\ asked' = IF sync[f].news \cap Publishing # {} THEN asked ELSE latest
  /\ status' = [status EXCEPT ![f] = "stopped"]
  /\ timer' = [timer EXCEPT ![f] = FALSE]
  /\ sync' = [sync EXCEPT ![f] = NoSync]
  /\ UNCHANGED <<latest, terminal, shown, page, cache, faults>>

(* Mutant: an unchanged run is not polled again. *)
ScheduleAfterNews(f) ==
  /\ sync[f].at = "settle" /\ ~TailIsComplete(f)
  /\ sync' = [sync EXCEPT ![f] = NoSync]
  /\ timer' = [timer EXCEPT ![f] = (status[f] = "running" /\ sync[f].news # {})]
  /\ UNCHANGED <<latest, terminal, shown, asked, page, status, cache, faults>>

(* The run goes on, or its tail is not shown yet. *)
SettleRunning(f) ==
  /\ sync[f].at = "settle" /\ ~TailIsComplete(f)
  /\ Schedule(f)
  /\ UNCHANGED <<latest, terminal, shown, asked, page, status, cache, faults>>

-----------------------------------------------------------------------------
Init ==
  /\ latest = 1 /\ terminal = FALSE
  /\ shown = Empty /\ asked = 0
  /\ visit = 0 /\ open = FALSE /\ hidden = FALSE
  /\ status = [f \in Feeds |-> "idle"]
  /\ timer = [f \in Feeds |-> FALSE]
  /\ cache = [f \in Feeds |-> Empty]
  /\ sync = [f \in Feeds |-> NoSync]
  /\ faults = 0

Proceed(f) ==
  \/ Poll(f) \/ FetchRun(f) \/ RecoverTail(f) \/ FetchPage(f)
  \/ StartOver(f) \/ GiveUpSync(f) \/ WriteEvents(f)
  \/ Refresh(f) \/ SettleTerminal(f) \/ SettleRunning(f)

Next ==
  \/ AppendEvent \/ Mount \/ Unmount \/ Hide \/ Show
  \/ \E f \in Feeds : Proceed(f) \/ RequestFails(f)

(* A request is answered or rejected, and a timer fires. *)
Spec == Init /\ [][Next]_vars /\ (\A f \in Feeds : WF_vars(Proceed(f)))

-----------------------------------------------------------------------------
Whole(c) == c.events = 1..c.last

(* What the page shows, and what each feed builds on, is every event from  *)
(* the first to the last one shown, whatever the answers that started too  *)
(* late, the pages that ran past the tail, and the feeds of earlier visits *)
(* that still write to the same entry of the query cache.                  *)
ShownHasNoHole == Whole(shown) /\ \A f \in Feeds : Whole(cache[f])

(* A feed that stops by itself leaves nothing behind: the run is terminal, *)
(* its last event is in the feed's cache, and the artifacts were asked for *)
(* after the last version was published - also when another feed had       *)
(* written the event of that version and not yet asked.                    *)
StoppedMissesNothing ==
  open /\ status[visit] = "stopped" =>
    /\ terminal /\ cache[visit].last = latest
    /\ \A e \in Publishing \cap (1..latest) : asked >= e

(* A page of a terminal run that stays open and visible ends with every    *)
(* event in its feed, through failures, gaps, and a pause and a resume     *)
(* around a synchronisation in flight: the polling never dies.             *)
OpenPageCatchesUp ==
  \A f \in Feeds :
    <>[](terminal /\ open /\ visit = f /\ ~hidden)
      => <>(status[f] = "stopped" /\ cache[f].last = latest)
====
