------------------------------ MODULE GapRecovery ------------------------------
(***************************************************************************)
(* The two ordered layers of one ingestion pipeline: ContinuityLayer       *)
(* (ingestion/continuity.py) finds duplicates and holes in what the feed   *)
(* delivers, RecoveryLayer (ingestion/recovery.py) holds live events back  *)
(* while it fetches a hole from REST, then emits both in order.            *)
(*                                                                         *)
(* Concurrency is asyncio's: a task runs without interruption up to its    *)
(* next suspension.  The suspensions modelled are a contended _emit_lock,  *)
(* a delivery callback, the REST fetch, the retry sleep and the gather of  *)
(* a cancelled repair.  _state_lock is never contended (nothing suspends   *)
(* while holding it) and needs no variable.                                *)
(*                                                                         *)
(* Keys are the consecutive continuity keys: trade ids, or open times in   *)
(* units of the interval on a 24x7 calendar.                               *)
(***************************************************************************)
EXTENDS Integers, Sequences, FiniteSets, SequencesExt

CONSTANTS
  MaxKey,       \* bound: keys are 1..MaxKey
  Lanes,        \* kinds of pipeline: "trades", "klines", "provider"
  Reach,        \* bound: the last key that the feed of a lane delivers
  SeenSize,     \* continuity_buffer_size
  MaxBuffered,  \* ccxt_recovery_buffer_max_events
  MaxRepair,    \* ccxt_recovery_max_events
  MaxFailures,  \* failed attempts that fit in the retry deadline
  Cancellable   \* lanes where a feed switch may cancel the task that is ingesting

ASSUME GapRecoveryAssumption ==
  /\ {MaxKey, SeenSize, MaxBuffered, MaxRepair} \subseteq Nat \ {0}
  /\ MaxFailures \in Nat
  /\ Lanes \subseteq {"trades", "klines", "provider"}
  /\ Reach \in [Lanes -> 1..MaxKey]
  /\ Cancellable \subseteq Lanes

Keys == 1..MaxKey
NoKey == 0

Gap == [start : Keys, end : Keys]
NoGap == [start |-> NoKey, end |-> NoKey]
Between(g) == (g.start + 1)..(g.end - 1)

VARIABLES
  lane,      \* what the pipeline carries, never changed
  seen,      \* L5 _seen, oldest first
  cursor,    \* L5 _last_continuity_key
  gap,       \* _active_gap, its end being _target_end
  buffer,    \* _buffer
  repaired,  \* _repaired_keys, oldest first
  high,      \* _last_emitted_key
  failed,    \* _terminal_failures > 0
  feed,      \* the ingesting task: where it is suspended, and its event
  repair,    \* the repair task _task
  failures,  \* failed attempts of the active repair
  holder,    \* who holds _emit_lock
  queue,     \* tasks waiting for it, in order
  out,       \* what the holder has still to emit
  sent       \* history variable: what delivery got

vars == <<lane, seen, cursor, gap, buffer, repaired, high, failed, feed, repair,
          failures, holder, queue, out, sent>>

\* K-line keys are revisited until closed, trade keys are not; a plugin provider
\* streams K-lines and has no inline repair (RecoveryLayer._enabled).
Klines == lane # "trades"
Enabled == lane # "provider"

\* A market event; a recovered one came from REST and is always closed.
Event == [key : Keys, closed : IF Klines THEN BOOLEAN ELSE {TRUE}]
Closed(k) == [key |-> k, closed |-> TRUE]

\* idle; in the callback of a gap marker; waiting for or holding _emit_lock
\* with an event; gathering a cancelled repair; waiting for the lock to abandon
\* it; stopped by FeedControl; the whole pipeline stopped.
FeedPC == {"idle", "inGap", "waiting", "holding", "gathering", "abandoning",
           "halted", "stopped"}
RepairPC == {"none", "ready", "fetching", "waiting", "dead"}

Feed(pc, e) == [pc |-> pc, event |-> e, stopping |-> FALSE]
IdleFeed == Feed("idle", Closed(1))
NoRepair == [pc |-> "none", target |-> NoKey, ok |-> FALSE]
Alive == repair.pc \notin {"none", "dead"}

-----------------------------------------------------------------------------
(* Emission.  An item is an event or a gap marker; sent records the keys   *)
(* delivered open and closed, and those that markers declared missing      *)
(* (filled = FALSE) or repaired (filled = TRUE).                           *)

EventItem(e, rest) == [kind |-> "event", event |-> e, fromRest |-> rest]
Marker(g, ok) == [kind |-> "gap", gap |-> g, filled |-> ok]
Item == [kind : {"event"}, event : Event, fromRest : BOOLEAN]
        \cup [kind : {"gap"}, gap : Gap, filled : BOOLEAN]

\* dedup_key of an event that is not a correction.
DedupKeyed(e) == e.closed

\* Mutant: a stale replay escapes downstream.
MutReplay(e) == FALSE

\* _drop_replayed_ordered_event
Replay(e) == Enabled /\ (e.key < high \/ (e.key = high /\ ~Klines))

\* Mutant: the cache is never trimmed.
MutRemember(cache, k) == IF k \in Range(cache) THEN cache ELSE Append(cache, k)

\* An OrderedDict used as a bounded LRU: an existing key keeps its place.
Remember(cache, k) ==
  IF k \in Range(cache) THEN cache
  ELSE LET c == Append(cache, k) IN IF Len(c) > SeenSize THEN Tail(c) ELSE c

SentEvent(e) ==
  [sent EXCEPT !.closed = IF e.closed THEN @ \cup {e.key} ELSE @,
               !.open = IF e.closed THEN @ ELSE @ \cup {e.key},
               !.first = IF @ = NoKey THEN e.key ELSE @]

SentMarker(m) ==
  IF m.filled THEN [sent EXCEPT !.filled = @ \cup Between(m.gap)]
  ELSE [sent EXCEPT !.missing = @ \cup Between(m.gap)]

EmitItem(item) ==
  IF item.kind = "event"
  THEN /\ repaired' = IF item.fromRest THEN Remember(repaired, item.event.key) ELSE repaired
       /\ IF Replay(item.event) THEN UNCHANGED <<high, sent>>
          ELSE /\ high' = IF Enabled THEN item.event.key ELSE high
               /\ sent' = SentEvent(item.event)
  ELSE /\ sent' = SentMarker(item)
       /\ UNCHANGED <<repaired, high>>

\* The lock is free for a newcomer only when nobody waits for it.
LockFree == holder = "none" /\ queue = <<>>

\* A cancelled task leaves the lock's waiters.
Without(task) == RemoveFirst(queue, task)

\* A task that has _emit_lock starts emitting its items.
EmitAs(who, items) ==
  /\ EmitItem(Head(items))
  /\ out' = Tail(items)
  /\ holder' = who

\* list.sort by key is stable: an item's place is the number of items that go
\* before it.
Sorted(items) ==
  LET Before(i, j) == \/ items[i].event.key < items[j].event.key
                      \/ items[i].event.key = items[j].event.key /\ i < j
      Place(j) == Cardinality({i \in DOMAIN items : Before(i, j)}) + 1
  IN  [n \in DOMAIN items |-> items[CHOOSE j \in DOMAIN items : Place(j) = n]]

\* Recovered keys, none of them among the buffered, and the buffered events.
SortedMerge(recovered, buffered) ==
  LET fetched == SetToSeq(recovered)
  IN  Sorted([i \in DOMAIN fetched |-> EventItem(Closed(fetched[i]), TRUE)]
             \o [i \in DOMAIN buffered |-> EventItem(buffered[i], FALSE)])

\* Mutant: on failure the held events are emitted before the marker.
MutFinishItems(rows, ok) ==
  LET keys == {buffer[i].key : i \in DOMAIN buffer}
  IN  Append(SortedMerge(rows \ keys, buffer), Marker(gap, ok))

\* What _finish_repair emits while it holds the lock: the REST rows merged into
\* the held events, or the events alone behind a marker.
FinishItems(rows, ok) ==
  LET keys == {buffer[i].key : i \in DOMAIN buffer}
  IN  IF ok THEN Append(SortedMerge(rows \ keys, buffer), Marker(gap, TRUE))
      ELSE <<Marker(gap, FALSE)>> \o SortedMerge({}, buffer)

\* _finish_repair past its early returns: _take_buffered_locked, then emission.
Finish(who, rows, ok) ==
  /\ gap' = NoGap
  /\ buffer' = <<>>
  /\ failures' = 0
  /\ failed' = (failed \/ ~ok)
  /\ repair' = NoRepair
  /\ EmitAs(who, FinishItems(rows, ok))

GapUnchanged == UNCHANGED <<gap, buffer, failures, failed, repair>>
NothingEmitted == UNCHANGED <<repaired, high, sent, out>>

-----------------------------------------------------------------------------
(* What a task does once it has _emit_lock.                                *)

\* The ingesting task, with a live event or to abandon the repair; the second
\* is also RecoveryLayer.stop.
FeedHasLock(f) ==
  \/ /\ f.pc = "waiting"
     /\ EmitAs("feed", <<EventItem(f.event, FALSE)>>)
     /\ feed' = [f EXCEPT !.pc = "holding"]
     /\ GapUnchanged
  \/ /\ f.pc = "abandoning" /\ gap # NoGap
     /\ Finish("feed", {}, FALSE)
     /\ feed' = [f EXCEPT !.pc = "holding"]
  \/ /\ f.pc = "abandoning" /\ gap = NoGap
     /\ holder' = "none"
     /\ feed' = [f EXCEPT !.pc = IF f.stopping THEN "stopped" ELSE "idle"]
     /\ GapUnchanged /\ NothingEmitted

\* What an attempt fetches, and whether that still is the whole gap.
Rows(r) == (gap.start + 1)..(r.target - 1)

\* Mutant: rows fetched for an older target are taken for the whole gap.
MutTargetCurrent(r) == TRUE

TargetCurrent(r) == r.target = gap.end

\* The repair task; its gap is still active, or it would have been cancelled.
RepairHasLock(r) ==
  \/ /\ r.ok /\ ~TargetCurrent(r)
     /\ repair' = [r EXCEPT !.pc = "ready"]
     /\ holder' = "none"
     /\ UNCHANGED <<gap, buffer, failures, failed>> /\ NothingEmitted
  \/ /\ ~r.ok \/ TargetCurrent(r)
     /\ Finish("repair", IF r.ok THEN Rows(r) ELSE {}, r.ok)

FeedAsksLock(f) ==
  \/ LockFree /\ FeedHasLock(f) /\ UNCHANGED queue
  \/ /\ ~LockFree
     /\ queue' = Append(queue, "feed")
     /\ feed' = f
     /\ GapUnchanged /\ NothingEmitted /\ UNCHANGED holder

RepairAsksLock(r) ==
  \/ LockFree /\ RepairHasLock(r) /\ UNCHANGED queue
  \/ /\ ~LockFree
     /\ queue' = Append(queue, "repair")
     /\ repair' = r
     /\ UNCHANGED <<gap, buffer, failures, failed, holder>> /\ NothingEmitted

-----------------------------------------------------------------------------
(* The ingesting task: ContinuityLayer.ingest and what it calls.           *)

\* _emit of the continuity layer moves the cursor forward only.
Advanced(k) == IF cursor = NoKey \/ k >= cursor THEN k ELSE cursor

Jumps(e) == cursor # NoKey /\ e.key > cursor + 1

Repairable(e) == Enabled /\ e.key - cursor - 1 <= MaxRepair

AlreadyRepaired(e) == DedupKeyed(e) /\ e.key \in Range(repaired)

LockUnchanged == UNCHANGED <<holder, queue>>

\* ingest_event while gap g is active.
HoldBack(e, g) ==
  /\ gap' = g
  /\ buffer' = Append(buffer, e)
  /\ \/ /\ Len(buffer') <= MaxBuffered
        /\ feed' = IdleFeed
        /\ UNCHANGED <<repair, queue>>
     \/ /\ Len(buffer') > MaxBuffered
        /\ feed' = Feed("gathering", e)
        /\ repair' = [repair EXCEPT !.pc = "dead"]
        /\ queue' = Without("repair")
  /\ NothingEmitted /\ UNCHANGED <<failures, failed, holder>>

Forward(e) ==
  /\ cursor' = Advanced(e.key)
  /\ \/ /\ AlreadyRepaired(e)
        /\ feed' = IdleFeed
        /\ GapUnchanged /\ NothingEmitted /\ LockUnchanged
     \/ ~AlreadyRepaired(e) /\ gap # NoGap /\ HoldBack(e, gap)
     \/ ~AlreadyRepaired(e) /\ gap = NoGap /\ FeedAsksLock(Feed("waiting", e))

\* Mutant: the repair task is not created.
MutNewRepair == NoRepair

NewRepair == [NoRepair EXCEPT !.pc = "ready"]

\* A repairable gap opens: its end is the first event held back.
OpenGap(e) ==
  /\ gap = NoGap
  /\ gap' = [start |-> cursor, end |-> e.key]
  /\ cursor' = e.key
  /\ buffer' = <<e>>
  /\ failures' = 0
  /\ repair' = NewRepair
  /\ feed' = IdleFeed
  /\ NothingEmitted /\ LockUnchanged /\ UNCHANGED failed

ExtendGap(e) ==
  /\ gap # NoGap
  /\ cursor' = e.key
  /\ HoldBack(e, [gap EXCEPT !.end = IF e.key > @ THEN e.key ELSE @])

\* A gap the layer does not repair goes straight to delivery, without the lock.
PassGap(e) ==
  /\ sent' = SentMarker(Marker([start |-> cursor, end |-> e.key], FALSE))
  /\ feed' = Feed("inGap", e)
  /\ GapUnchanged /\ LockUnchanged
  /\ UNCHANGED <<cursor, repaired, high, out>>

Ingest(e) ==
  /\ feed.pc = "idle"
  /\ DedupKeyed(e) => e.key \notin Range(seen)
  /\ UNCHANGED lane
  /\ seen' = IF DedupKeyed(e) THEN Remember(seen, e.key) ELSE seen
  /\ \/ ~Jumps(e) /\ Forward(e)
     \/ Jumps(e) /\ Repairable(e) /\ (OpenGap(e) \/ ExtendGap(e))
     \/ Jumps(e) /\ ~Repairable(e) /\ PassGap(e)

\* The gap callback returned.
AfterGap ==
  /\ feed.pc = "inGap"
  /\ Forward(feed.event)
  /\ UNCHANGED <<lane, seen>>

\* A provider amends a bar it closed earlier (plugin lane only).
Correct(k) ==
  /\ Klines /\ ~Enabled
  /\ feed.pc = "idle"
  /\ k \in sent.closed \/ sent.first = NoKey
  /\ cursor' = Advanced(k)
  /\ FeedAsksLock(Feed("waiting", Closed(k)))
  /\ UNCHANGED <<lane, seen>>

\* The cancelled repair ended.
Gathered ==
  /\ feed.pc = "gathering"
  /\ FeedAsksLock([feed EXCEPT !.pc = "abandoning"])
  /\ UNCHANGED <<lane, seen, cursor>>

-----------------------------------------------------------------------------
(* The repair task: _run_repair.                                           *)

StartAttempt ==
  /\ repair.pc = "ready"
  /\ repair' = [pc |-> "fetching", target |-> gap.end, ok |-> FALSE]
  /\ UNCHANGED <<lane, seen, cursor, gap, buffer, failures, failed, feed>>
  /\ NothingEmitted /\ LockUnchanged

\* _fetch_range returned every key of the gap as it was when the attempt
\* began; anything less is an exception.
FetchSucceeds ==
  /\ repair.pc = "fetching"
  /\ repair.target - gap.start - 1 <= MaxRepair
  /\ RepairAsksLock([repair EXCEPT !.pc = "waiting", !.ok = TRUE])
  /\ UNCHANGED <<lane, seen, cursor, feed>>

\* Mutant: every attempt has the whole deadline before it.
MutFailuresAfter == failures

FailuresAfter == failures + 1

FetchFails ==
  /\ repair.pc = "fetching"
  /\ FailuresAfter <= MaxFailures
  /\ failures' = FailuresAfter
  /\ repair' = [repair EXCEPT !.pc = "ready"]
  /\ UNCHANGED <<lane, seen, cursor, gap, buffer, failed, feed>>
  /\ NothingEmitted /\ LockUnchanged

\* The deadline passed: it may, at any failed attempt.
FetchGivesUp ==
  /\ repair.pc = "fetching"
  /\ RepairAsksLock([repair EXCEPT !.pc = "waiting", !.ok = FALSE])
  /\ UNCHANGED <<lane, seen, cursor, feed>>

-----------------------------------------------------------------------------
(* The lock.                                                               *)

Acquire ==
  /\ holder = "none" /\ queue # <<>>
  /\ queue' = Tail(queue)
  /\ \/ Head(queue) = "feed" /\ FeedHasLock(feed)
     \/ Head(queue) = "repair" /\ RepairHasLock(repair) /\ UNCHANGED feed
  /\ UNCHANGED <<lane, seen, cursor>>

\* A delivery callback returned to the holder, which emits its next item.
EmitNext ==
  /\ holder # "none" /\ out # <<>>
  /\ EmitAs(holder, out)
  /\ GapUnchanged
  /\ UNCHANGED <<lane, seen, cursor, feed, queue>>

Release ==
  /\ holder # "none" /\ out = <<>>
  /\ holder' = "none"
  /\ feed' = IF holder = "repair" THEN feed
             ELSE [feed EXCEPT !.pc = IF feed.stopping THEN "stopped" ELSE "idle"]
  /\ GapUnchanged /\ NothingEmitted
  /\ UNCHANGED <<lane, seen, cursor, queue>>

-----------------------------------------------------------------------------
(* Cancellation of the ingesting task: FeedControl stops the poll loop or  *)
(* the session that is ingesting, to switch feeds or to stop the pipeline. *)

CancelledTo(pc) ==
  /\ feed' = [IdleFeed EXCEPT !.pc = pc]
  /\ queue' = Without("feed")
  /\ \/ holder = "feed" /\ holder' = "none" /\ out' = <<>>
     \/ holder # "feed" /\ UNCHANGED <<holder, out>>
  /\ GapUnchanged
  /\ UNCHANGED <<lane, seen, cursor, repaired, high, sent>>

SwitchFeed ==
  /\ lane \in Cancellable
  /\ feed.pc \notin {"idle", "halted", "stopped"} /\ ~feed.stopping
  /\ CancelledTo("idle")

\* StreamPipeline.stop: first the feed, then the recovery layer.
StopFeed ==
  /\ feed.pc \notin {"halted", "stopped"} /\ ~feed.stopping
  /\ CancelledTo("halted")

\* Mutant: the pending gap is dropped without being finished.
MutStopRecovery ==
  /\ feed.pc = "halted"
  /\ feed' = [feed EXCEPT !.pc = "stopped", !.stopping = TRUE]
  /\ repair' = IF Alive THEN [repair EXCEPT !.pc = "dead"] ELSE repair
  /\ queue' = Without("repair")
  /\ UNCHANGED <<lane, seen, cursor, gap, buffer, failures, failed, holder>>
  /\ NothingEmitted

StopRecovery ==
  /\ feed.pc = "halted"
  /\ feed' = [feed EXCEPT !.pc = "gathering", !.stopping = TRUE]
  /\ repair' = IF Alive THEN [repair EXCEPT !.pc = "dead"] ELSE repair
  /\ queue' = Without("repair")
  /\ UNCHANGED <<lane, seen, cursor, gap, buffer, failures, failed, holder>>
  /\ NothingEmitted

\* The pipeline is discarded: nothing more happens.
Stopped == feed.pc = "stopped" /\ UNCHANGED vars

-----------------------------------------------------------------------------
Init ==
  /\ lane \in Lanes
  /\ seen = <<>> /\ cursor = NoKey
  /\ gap = NoGap /\ buffer = <<>> /\ repaired = <<>> /\ high = NoKey
  /\ failed = FALSE /\ failures = 0
  /\ feed = IdleFeed /\ repair = NoRepair
  /\ holder = "none" /\ queue = <<>> /\ out = <<>>
  /\ sent = [open |-> {}, closed |-> {}, missing |-> {}, filled |-> {}, first |-> NoKey]

Repair == StartAttempt \/ FetchSucceeds \/ FetchFails \/ FetchGivesUp
Lock == Acquire \/ EmitNext \/ Release

Next ==
  \/ \E e \in Event : e.key <= Reach[lane] /\ Ingest(e)
  \/ \E k \in 1..Reach[lane] : Correct(k)
  \/ AfterGap
  \/ Gathered
  \/ Repair
  \/ Lock
  \/ SwitchFeed
  \/ StopFeed
  \/ StopRecovery
  \/ Stopped

Spec == Init /\ [][Next]_vars

\* asyncio runs every task that is ready; a fetch ends by its timeout and a
\* delivery callback returns.
Fairness ==
  /\ WF_vars(Repair) /\ WF_vars(Lock)
  /\ WF_vars(Gathered) /\ WF_vars(AfterGap) /\ WF_vars(StopRecovery)

FairSpec == Spec /\ Fairness

-----------------------------------------------------------------------------
(* Properties                                                              *)

TypeOK ==
  /\ lane \in Lanes
  /\ seen \in Seq(Keys) /\ Len(seen) <= SeenSize
  /\ repaired \in Seq(Keys) /\ Len(repaired) <= SeenSize
  /\ {cursor, high} \subseteq Keys \cup {NoKey}
  /\ gap \in Gap \cup {NoGap}
  /\ buffer \in Seq(Event)
  /\ failed \in BOOLEAN /\ failures \in 0..MaxFailures
  /\ feed \in [pc : FeedPC, event : Event, stopping : BOOLEAN]
  /\ repair \in [pc : RepairPC, target : Keys \cup {NoKey}, ok : BOOLEAN]
  /\ holder \in {"none", "feed", "repair"}
  /\ queue \in Seq({"feed", "repair"})
  /\ out \in Seq(Item)
  /\ sent \in [open : SUBSET Keys, closed : SUBSET Keys, missing : SUBSET Keys,
              filled : SUBSET Keys, first : Keys \cup {NoKey}]

Delivered == sent.open \cup sent.closed

\* Between the first and the newest delivered key, every key was delivered or
\* lies inside a gap marker that says it is missing: whatever was lost,
\* repaired, coalesced, overflowed or stopped, nothing disappears silently.
NoSilentHole ==
  \A k \in Keys :
    sent.first <= k /\ (\E d \in Delivered : k < d) => k \in Delivered \cup sent.missing

\* A marker that says filled is only sent once every key inside it has been
\* delivered: never for a range that was extended while its rows were fetched.
FilledIsDelivered == sent.filled \subseteq Delivered

\* Events are held back only behind an active gap, which somebody will decide:
\* a live repair, or the task that is abandoning it or stopping the pipeline.
GapHasRepair ==
  /\ gap = NoGap => buffer = <<>> /\ ~Alive
  /\ gap # NoGap /\ ~Alive => feed.pc \in {"gathering", "abandoning", "halted"}

\* After the pipeline stopped nothing is held back and nothing is emitted.
StoppedIsFinal ==
  feed.pc = "stopped" => gap = NoGap /\ buffer = <<>> /\ LockFree /\ ~Alive

\* Delivery of the enabled lane never goes back: a key below one that was
\* delivered is not delivered any more.
NeverBackwards ==
  [][\A k \in Delivered' \ Delivered : \A d \in Delivered : Enabled => d < k]_vars

\* Every gap is decided: a marker is emitted and the held events follow.
GapIsDecided == gap # NoGap ~> gap = NoGap

===============================================================================
