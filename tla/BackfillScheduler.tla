-------------------------- MODULE BackfillScheduler --------------------------
(***************************************************************************)
(* _BackfillScheduler of data_manager/backfill_coordinator.py: demands for *)
(* historical ranges are joined into parent requests, cut into chunks, and *)
(* dispatched over a few worker slots under lanes (foreground, background),*)
(* priorities, fairness between chart cells, a token bucket and the        *)
(* exchange's rate limits; a parent nobody wants any more is cancelled.    *)
(*                                                                         *)
(* Everything runs on one event loop: an action is the code between two    *)
(* awaits, the trailing _drain included.  What happens during an await is  *)
(* the stage of a task (fetching a chunk, committing the parent's result   *)
(* to the gap ledger, committing a cancellation) or a member of            *)
(* `revoking`, the cancellations their callers are committing.             *)
(*                                                                         *)
(* A slot is one chunk's worth of bars (chunk_bars), so ranges are slot    *)
(* intervals and a chunk is <<parent, slot>>.  created_at_ms is never set  *)
(* by a producer, so the heap orders by priority and queue_sequence.  Left *)
(* out: derived targets, progress snapshots and history_fetch_ranges.      *)
(***************************************************************************)
EXTENDS Integers, Sequences, FiniteSets, SequencesExt, FiniteSetsExt

CONSTANTS
  Requests,       \* request ids
  Demand,         \* what each asks: series, first, last, reason, owner, trusted, cell
  SeriesKeys, Owners, Cells,
  Concurrency,    \* the max_concurrency values of the instances
  MaxFaults       \* bound: rate-limit deferrals, drains without tokens, and chunks that
                  \* fail, stay incomplete or meet the left edge, in a behaviour

Absent == "absent"   \* no request, no owner, no cell

Reasons == {"visible_range_gap", "visible_seed_gap", "query_gap", "price_daily_open",
            "active_history_hydration", "background_gap_audit"}

DemandType == [series : SeriesKeys, first : Nat, last : Nat, reason : Reasons,
               owner : Owners \cup {Absent}, trusted : BOOLEAN, cell : Cells]

ASSUME SchedulerAssumption ==
  /\ IsFiniteSet(Requests) /\ Absent \notin Requests \cup Owners \cup Cells
  /\ Demand \in [Requests -> DemandType]
  /\ \A r \in Requests : Demand[r].first <= Demand[r].last
  /\ Concurrency \subseteq Nat \ {0}
  /\ MaxFaults \in Nat

VARIABLES
  workers,   \* max_concurrency
  phase,     \* "up", "stopping", "down"
  canonical, \* request -> the parent it was answered with, Absent before submit
  live,      \* the parents in _requests
  parent,    \* _RequestState of each
  line,      \* unfinished chunks in queue_sequence order, the running ones too
  deferred,  \* chunks whose eligible_at_monotonic has not come
  task,      \* a parent's task: its stage, its chunk, the contract it started under
  active, pending,  \* _SeriesState of each series
  revoking,  \* pending cancellations whose caller awaits finalize
  timer,     \* a _drain_timer is armed
  lastCell,  \* _last_dispatch_owner
  future,    \* the shared future of a parent: "none", "open" or its outcome
  revoked,   \* _revoked_demand_owners and superseded generations
  faults     \* counter for the bound

vars == <<workers, phase, canonical, live, parent, line, deferred, task, active, pending,
          revoking, timer, lastCell, future, revoked, faults>>
queueVars == <<active, pending, task, lastCell, timer>>

-----------------------------------------------------------------------------
(* Reasons                                                                 *)

Priority(reason) ==
  CASE reason = "visible_range_gap" -> 20
    [] reason = "visible_seed_gap" -> 25
    [] reason = "query_gap" -> 35
    [] reason = "price_daily_open" -> 70
    [] reason = "active_history_hydration" -> 90
    [] reason = "background_gap_audit" -> 160

BackgroundReasons == {"active_history_hydration", "background_gap_audit"}
NewestFirst(reasons) ==
  reasons \cap {"visible_range_gap", "visible_seed_gap", "active_history_hydration"} # {}
IsBackground(reasons) == reasons # {} /\ reasons \subseteq BackgroundReasons
IsInteractive(reasons) == reasons \cap {"visible_range_gap", "visible_seed_gap"} # {}
IsMaintenance(reasons) ==
  reasons # {} /\ reasons \subseteq BackgroundReasons \cup {"price_daily_open"}
IsHydration(reasons) == "active_history_hydration" \in reasons

-----------------------------------------------------------------------------
(* Parents and chunks                                                      *)

Outcomes == {"none", "filled", "partial", "unavailable", "failed", "cancelled"}

Idle == [stage |-> "none", slot |-> 0, trusted |-> FALSE]

NoParent ==
  [first |-> 1, last |-> 0, reasons |-> {}, priority |-> 0, trusted |-> FALSE, cell |-> Absent,
   reversed |-> FALSE, leases |-> {}, persistent |-> FALSE, cancelled |-> FALSE,
   stale |-> FALSE, failed |-> FALSE, completed |-> 0, total |-> 0, clean |-> TRUE,
   edge |-> FALSE, verdict |-> "none", fetched |-> {}, weak |-> {}, dropped |-> {}, edgeSlot |-> 0]

\* The elements of S from the first on, under the strict total order `before`.
First(S, before) == CHOOSE x \in S : \A y \in S : y = x \/ <<x, y>> \in before

InOrder(S, before) ==
  LET listed[k \in 0..Cardinality(S)] ==
        IF k = 0 THEN <<>>
        ELSE LET l == listed[k - 1] IN Append(l, First(S \ ToSet(l), before))
  IN  listed[Cardinality(S)]

\* chunk_ids of a range: oldest first, or reversed.
SlotsInOrder(slots, reversed) ==
  InOrder(slots, {x \in slots \X slots : IF reversed THEN x[1] > x[2] ELSE x[1] < x[2]})

ChunksInOrder(p, slots, reversed) ==
  [i \in 1..Cardinality(slots) |-> <<p, SlotsInOrder(slots, reversed)[i]>>]

SlotsOf(l, p) == {c[2] : c \in {x \in ToSet(l) : x[1] = p}}

\* l without the elements of gone.
Without(l, gone) ==
  LET kept[k \in 0..Len(l)] ==
        IF k = 0 THEN <<>>
        ELSE IF l[k] \in gone THEN kept[k - 1] ELSE Append(kept[k - 1], l[k])
  IN  kept[Len(l)]

HasTask(p) == task[p].stage # "none"

\* The chunk a task of the parent holds.
Held(p) == IF HasTask(p) THEN {task[p].slot} ELSE {}

\* _discard_remaining_chunks: the chunks without a task go, the parent is stale.
LineWithout(p) == Without(line, {p} \X SlotsOf(line, p))
Series(p) == Demand[p].series

\* A parent's queue_sequence order after its ready chunks were pushed again.
Repushed(p, state) ==
  LET again == SlotsOf(line, p) \ Held(p)
      \* chunk_ids, reversed for a newest-first parent
      backwards == IF NewestFirst(state.reasons) THEN ~state.reversed ELSE state.reversed
  IN  Without(line, {p} \X again) \o ChunksInOrder(p, again, backwards)

-----------------------------------------------------------------------------
(* _drain.  s is the scheduler as the handler that ends in it leaves it.    *)

Ready(s) ==
  {i \in DOMAIN s.line : s.task[s.line[i][1]].stage = "none" \/ s.task[s.line[i][1]].slot # s.line[i][2]}

\* Heap items: priority and place in the line.
HeapOrder(s) ==
  LET ready == Ready(s)
      priority(i) == s.parent[s.line[i][1]].priority
  IN  InOrder(ready, {x \in ready \X ready :
                        \/ priority(x[1]) < priority(x[2])
                        \/ priority(x[1]) = priority(x[2]) /\ x[1] < x[2]})

ReasonsNow(s, p) == s.parent[p].reasons
Lane(s, p) == <<s.parent[p].priority, IsBackground(s.parent[p].reasons)>>
Tasks(s) == {p \in Requests : s.task[p].stage # "none"}

\* _can_use_foreground_reserve: the one running chunk, not one being committed.
ReserveOpen(s, p) ==
  /\ s.workers = 1 /\ Cardinality(Tasks(s)) = 1
  /\ IsInteractive(ReasonsNow(s, p))
  /\ \A q \in Tasks(s) : s.task[q].stage = "fetching" /\ IsMaintenance(ReasonsNow(s, q))

\* Mutant: only running foreground work counts.
MutHasForegroundWork(s) == \E p \in Tasks(s) : ~IsBackground(ReasonsNow(s, p))

HasForegroundWork(s) ==
  \/ \E p \in Tasks(s) : ~IsBackground(ReasonsNow(s, p))
  \/ \E i \in Ready(s) : ~IsBackground(ReasonsNow(s, s.line[i][1]))

\* _has_fairness_alternative among the items behind the k-th of the heap.
Alternative(s, heap, k) ==
  \E j \in (k + 1)..Len(heap) :
    LET c == s.line[heap[j]] IN
      /\ c \notin s.deferred
      /\ Lane(s, c[1]) = Lane(s, s.line[heap[k]][1])
      /\ s.active[Series(c[1])] = Absent
      /\ s.parent[c[1]].cell # s.parent[s.line[heap[k]][1]].cell

\* Mutant: only the parent's own chunks keep it from a second one.
MutSeriesBusy(s, p) == s.active[Series(p)] = p

SeriesBusy(s, p) == s.active[Series(p)] # Absent

\* What keeps the k-th item of the heap, eligible by time, from a token.
Passed(s, heap, k) ==
  LET p == s.line[heap[k]][1] IN
    \/ SeriesBusy(s, p)
    \/ /\ IsBackground(ReasonsNow(s, p))
       /\ \/ \E q \in Tasks(s) : IsBackground(ReasonsNow(s, q))
          \/ HasForegroundWork(s)
    \/ s.last[Lane(s, p)] = s.parent[p].cell /\ Alternative(s, heap, k)

\* Mutant: the dispatched parent stays in the pending list.
MutDispatched(s, c) ==
  [s EXCEPT !.active[Series(c[1])] = c[1],
            !.task[c[1]] = [stage |-> "fetching", slot |-> c[2], trusted |-> s.parent[c[1]].trusted],
            !.last[Lane(s, c[1])] = s.parent[c[1]].cell,
            !.tokens = @ - 1]

Dispatched(s, c) ==
  [s EXCEPT !.active[Series(c[1])] = c[1],
            !.pending[Series(c[1])] = Without(@, {c[1]}),
            !.task[c[1]] = [stage |-> "fetching", slot |-> c[2], trusted |-> s.parent[c[1]].trusted],
            !.last[Lane(s, c[1])] = s.parent[c[1]].cell,
            !.tokens = @ - 1]

\* Mutant: a drain that skips a chunk does not ask for a timer.
MutDelayed(s) == s

Delayed(s) == [s EXCEPT !.delayed = TRUE]

\* One turn of the loop.
Considered(s, heap, k) ==
  LET c == s.line[heap[k]]
      full == Cardinality(Tasks(s)) >= s.workers
  IN  IF full /\ ~ReserveOpen(s, c[1]) THEN s
      ELSE IF c \in s.deferred THEN Delayed(s)
      ELSE IF Passed(s, heap, k) THEN s
      ELSE IF s.tokens = 0 THEN Delayed(s)
      ELSE Dispatched(s, c)

Drained(s) ==
  LET heap == HeapOrder(s)
      turn[k \in 0..Len(heap)] == IF k = 0 THEN s ELSE Considered(turn[k - 1], heap, k)
      end == turn[Len(heap)]
  IN  IF end.delayed THEN [end EXCEPT !.timer = TRUE, !.delayed = FALSE]
      ELSE IF Ready(end) = {} THEN [end EXCEPT !.timer = FALSE]
      ELSE end

AmpleTokens == 2 * Cardinality(Requests)

\* The scheduler before a drain that finds so many tokens in the bucket.
Queue(tokens) ==
  [active |-> active, pending |-> pending, task |-> task, last |-> lastCell, timer |-> timer,
   workers |-> workers, parent |-> parent', line |-> line', deferred |-> deferred',
   tokens |-> tokens, delayed |-> FALSE]

\* The handler's last step, from the queue it has made of Queue(tokens); before
\* are the faults the handler has met.
DrainAfter(before, Made(_)) ==
  \E tokens \in {0, AmpleTokens} :
    /\ faults' = before + (IF tokens = 0 THEN 1 ELSE 0)
    /\ faults' <= MaxFaults
    /\ LET s == IF phase = "up" THEN Drained(Made(Queue(tokens))) ELSE Made(Queue(tokens))
       IN  /\ active' = s.active /\ pending' = s.pending /\ task' = s.task
           /\ lastCell' = s.last /\ timer' = s.timer

Drain(Made(_)) == DrainAfter(faults, Made)

-----------------------------------------------------------------------------
(* submit                                                                  *)

Covers(state, d) == state.first <= d.first /\ d.last <= state.last
CanCoalesce(state, d) == IsHydration(state.reasons) = IsHydration({d.reason})

\* Mutant: the two contracts are swapped.
MutNeedsStrongerFinality(state, d) == state.trusted /\ ~d.trusted

NeedsStrongerFinality(state, d) == d.trusted /\ ~state.trusted

\* _should_merge: the ranges overlap or are at most three bars apart.
ShouldMerge(state, d) ==
  CanCoalesce(state, d) /\ state.first <= d.last + 1 /\ d.first <= state.last + 1

Lesser(a, b) == IF a < b THEN a ELSE b
Greater(a, b) == IF a > b THEN a ELSE b

WithInterest(state, d) ==
  [state EXCEPT !.leases = @ \cup ({d.owner} \ {Absent}),
                !.persistent = @ \/ d.owner = Absent]

\* _merge_request_interest.
Joined(state, d) ==
  [WithInterest(state, d) EXCEPT !.trusted = @ \/ d.trusted,
                                 !.reasons = @ \cup {d.reason},
                                 !.priority = Lesser(@, Priority(d.reason))]

\* merged_with and the chunks _replace_pending_chunks makes of the new range.
Widened(state, d) ==
  LET joined == Joined(state, d)
      first == Lesser(state.first, d.first)
      last == Greater(state.last, d.last)
  IN  [joined EXCEPT !.first = first, !.last = last, !.cell = d.cell,
                     !.reversed = NewestFirst(joined.reasons), !.total = last - first + 1]

Opened(d) == Widened([NoParent EXCEPT !.first = d.first, !.last = d.last, !.priority = Priority(d.reason)], d)

JoinParent(r, p) ==
  LET state == Joined(parent[p], Demand[r]) IN
    /\ canonical' = [canonical EXCEPT ![r] = p]
    /\ parent' = [parent EXCEPT ![p] = state]
    /\ line' = IF state.priority < parent[p].priority THEN Repushed(p, state) ELSE line
    /\ UNCHANGED <<live, deferred, future>>
    /\ Drain(LAMBDA s : s)

WidenParent(r, p) ==
  LET state == Widened(parent[p], Demand[r]) IN
    /\ canonical' = [canonical EXCEPT ![r] = p]
    /\ parent' = [parent EXCEPT ![p] = state]
    /\ line' = LineWithout(p) \o ChunksInOrder(p, state.first..state.last, state.reversed)
    /\ deferred' = {c \in deferred : c[1] # p}
    /\ UNCHANGED <<live, future>>
    /\ Drain(LAMBDA s : s)

OpenParent(r) ==
  LET state == Opened(Demand[r]) IN
    /\ canonical' = [canonical EXCEPT ![r] = r]
    /\ parent' = [parent EXCEPT ![r] = state]
    /\ live' = live \cup {r}
    /\ future' = [future EXCEPT ![r] = "open"]
    /\ line' = line \o ChunksInOrder(r, state.first..state.last, state.reversed)
    /\ UNCHANGED deferred
    /\ Drain(LAMBDA s : [s EXCEPT !.pending[Series(r)] = Append(@, r)])

JoinsActive(r) ==
  LET p == active[Demand[r].series] IN
    /\ p # Absent
    /\ ~parent[p].stale /\ ~parent[p].cancelled
    /\ CanCoalesce(parent[p], Demand[r])
    /\ Covers(parent[p], Demand[r])
    /\ ~NeedsStrongerFinality(parent[p], Demand[r])

\* What the loop over the pending parents does with the i-th.
JoinsPending(r, p) ==
  /\ CanCoalesce(parent[p], Demand[r]) /\ Covers(parent[p], Demand[r])
  /\ ~(NeedsStrongerFinality(parent[p], Demand[r]) /\ parent[p].completed > 0)

WidensPending(r, p) ==
  /\ ~(CanCoalesce(parent[p], Demand[r]) /\ Covers(parent[p], Demand[r]))
  /\ parent[p].completed = 0 /\ ShouldMerge(parent[p], Demand[r])

Taken(r) ==
  {i \in DOMAIN pending[Series(r)] :
     LET p == pending[Series(r)][i] IN
       p \in live /\ ~parent[p].stale /\ (JoinsPending(r, p) \/ WidensPending(r, p))}

\* _demand_rejection_reason: the demand was withdrawn before it was submitted.
RejectSubmit(r) ==
  /\ Demand[r].owner \in revoked
  /\ canonical' = [canonical EXCEPT ![r] = r]
  /\ future' = [future EXCEPT ![r] = "cancelled"]
  /\ UNCHANGED <<live, parent, line, deferred, queueVars, faults>>

Submit(r) ==
  /\ phase = "up" /\ canonical[r] = Absent
  /\ \/ RejectSubmit(r)
     \/ /\ Demand[r].owner \notin revoked
        /\ IF JoinsActive(r) THEN JoinParent(r, active[Series(r)])
           ELSE IF Taken(r) # {}
           THEN LET p == pending[Series(r)][Min(Taken(r))] IN
                  IF JoinsPending(r, p) THEN JoinParent(r, p) ELSE WidenParent(r, p)
           ELSE OpenParent(r)
  /\ UNCHANGED <<workers, phase, revoking, revoked>>

-----------------------------------------------------------------------------
(* Demand leases and cancellation                                          *)

AcquireDemand(p, o) ==
  /\ p \in live /\ ~parent[p].stale
  /\ o \notin revoked /\ o \notin parent[p].leases
  /\ parent' = [parent EXCEPT ![p].leases = @ \cup {o}]
  /\ UNCHANGED <<workers, phase, canonical, live, line, deferred, queueVars, revoking,
                 future, revoked, faults>>

\* _begin_request_cancel of the parents of C: an active parent ends with its
\* chunk, a pending one is committed by the caller.
BeginCancel(C, leases) ==
  LET begun == {p \in C : ~parent[p].cancelled}
      waiting == {p \in begun : active[Series(p)] # p}
  IN  /\ parent' = [p \in Requests |->
                      IF p \in begun THEN [parent[p] EXCEPT !.leases = leases[p],
                                                            !.cancelled = TRUE, !.stale = TRUE]
                      ELSE [parent[p] EXCEPT !.leases = leases[p]]]
      /\ line' = Without(line, {c \in ToSet(line) : c[1] \in begun /\ c[2] \notin Held(c[1])})
      /\ deferred' = {c \in deferred : c[1] \notin begun}
      /\ pending' = [s \in SeriesKeys |-> Without(pending[s], waiting)]
      /\ revoking' = revoking \cup waiting
      /\ UNCHANGED <<workers, phase, canonical, live, active, task, lastCell, timer, future, faults>>

\* Mutant: a demand without an owner is not seen.
MutUnobserved(p, leases) == leases[p] = {}

Unobserved(p, leases) == leases[p] = {} /\ ~parent[p].persistent

\* release_demand: a client that disconnected also cancels what it leaves unobserved.
ReleaseDemand(p, o, cancelIfUnobserved) ==
  LET leases == [q \in Requests |-> IF q = p THEN parent[q].leases \ {o} ELSE parent[q].leases]
      unwanted == cancelIfUnobserved /\ Unobserved(p, leases)
  IN  /\ p \in live
      /\ BeginCancel(IF unwanted THEN {p} ELSE {}, leases)
      /\ UNCHANGED revoked

\* revoke_owner, and supersede_scope for an owner of an older generation.
RevokeOwner(o) ==
  LET holders == {p \in live : o \in parent[p].leases}
      leases == [q \in Requests |-> IF q \in holders THEN parent[q].leases \ {o} ELSE parent[q].leases]
  IN  /\ o \notin revoked
      /\ revoked' = revoked \cup {o}
      /\ BeginCancel({p \in holders : Unobserved(p, leases)}, leases)

\* The parent leaves _requests; only the first outcome reaches its future.
Ended(p, outcome) ==
  /\ live' = live \ {p}
  /\ parent' = [parent EXCEPT ![p] = NoParent]
  /\ future' = [future EXCEPT ![p] = IF @ = "open" THEN outcome ELSE @]

\* _finish_pending_cancellation after finalize, however finalize ended.
FinishCancellation(p) ==
  /\ p \in revoking
  /\ revoking' = revoking \ {p}
  /\ Ended(p, "cancelled")
  /\ UNCHANGED <<workers, phase, canonical, line, deferred, revoked>>
  /\ Drain(LAMBDA s : s)

-----------------------------------------------------------------------------
(* The end of a chunk                                                      *)

Results == {"verified", "partial", "left_edge", "failed"}

\* The ledger decision _ledger_finalize_parent makes of _aggregate_outcome.
Verdict(state) ==
  CASE state.cancelled -> "cancelled"
    [] ~state.cancelled /\ state.failed -> "failed"
    [] ~state.cancelled /\ ~state.failed /\ state.clean /\ ~state.stale -> "filled"
    [] OTHER -> IF state.edge THEN "unavailable" ELSE "partial"

Counted(state, covered) ==
  [state EXCEPT !.total = @ - Cardinality(covered), !.completed = @ + 1]

\* Mutant: a cancelled parent waits for the chunks it has lost.
MutClosed(state, atEdge) == IF atEdge THEN [state EXCEPT !.completed = state.total] ELSE state

\* Nothing is left of a parent cut short.
Closed(state, atEdge) ==
  IF atEdge \/ state.cancelled THEN [state EXCEPT !.completed = state.total] ELSE state

\* _finish_chunk up to its verdict: covered are the queued chunks an archive
\* import has written as well.
AfterChunk(p, result, covered) ==
  LET slot == task[p].slot
      rest == SlotsOf(line, p) \ ({slot} \cup covered)
      atEdge == result = "left_edge" /\ NewestFirst(parent[p].reasons)
      written == IF result = "failed" THEN {} ELSE {slot} \cup covered
  IN  Closed([Counted(parent[p], covered) EXCEPT
                !.failed = result = "failed",
                !.clean = @ /\ result = "verified",
                !.edge = @ \/ result = "left_edge",
                !.stale = @ \/ result = "failed" \/ atEdge,
                !.fetched = @ \cup written,
                !.weak = IF task[p].trusted THEN @ \ written ELSE @ \cup written,
                !.dropped = IF atEdge THEN rest ELSE @,
                !.edgeSlot = IF atEdge THEN slot ELSE @], atEdge)

IsFinal(state) == state.failed \/ state.completed >= state.total

Covering(p, result) ==
  IF result = "failed" THEN {{}} ELSE SUBSET (SlotsOf(line, p) \ {task[p].slot})

FinishChunk(p, result) ==
  /\ phase = "up" /\ task[p].stage = "fetching"
  /\ \E covered \in Covering(p, result) :
       LET state == AfterChunk(p, result, covered)
           ended == {p} \X ({task[p].slot} \cup covered)
           met == faults + (IF result = "verified" THEN 0 ELSE 1)
       IN  \/ /\ ~IsFinal(state)
              /\ parent' = [parent EXCEPT ![p] = state]
              /\ line' = Without(line, ended)
              /\ deferred' = deferred \ ended
              /\ DrainAfter(met,
                   LAMBDA s : [s EXCEPT !.task[p] = Idle, !.active[Series(p)] = Absent,
                                        !.pending[Series(p)] = Append(@, p)])
           \/ /\ IsFinal(state)
              /\ parent' = [parent EXCEPT ![p] = [state EXCEPT !.verdict = Verdict(state)]]
              /\ line' = Without(line, {p} \X SlotsOf(line, p))
              /\ deferred' = {c \in deferred : c[1] # p}
              /\ task' = [task EXCEPT ![p].stage = "committing"]
              /\ faults' = met /\ met <= MaxFaults
              /\ UNCHANGED <<active, pending, lastCell, timer>>
  /\ UNCHANGED <<workers, phase, canonical, live, revoking, future, revoked>>

\* The rest of _finish_chunk, once finalize has returned or raised.
FinishCommit(p, ok) ==
  /\ phase = "up" /\ task[p].stage = "committing"
  /\ Ended(p, IF ok THEN parent[p].verdict ELSE "failed")
  /\ UNCHANGED <<workers, phase, canonical, line, deferred, revoking, revoked>>
  /\ Drain(LAMBDA s : [s EXCEPT !.task[p] = Idle, !.active[Series(p)] = Absent])

\* _defer_chunk: the exchange has no quota for this chunk.
DeferChunk(p) ==
  /\ phase = "up" /\ task[p].stage = "fetching"
  /\ faults < MaxFaults
  /\ UNCHANGED <<workers, phase, canonical, live, parent, revoking, future, revoked>>
  /\ \/ /\ parent[p].cancelled
        /\ line' = Without(line, {<<p, task[p].slot>>})
        /\ task' = [task EXCEPT ![p].stage = "withdrawing"]
        /\ active' = [active EXCEPT ![Series(p)] = Absent]
        /\ faults' = faults + 1
        /\ UNCHANGED <<deferred, pending, lastCell, timer>>
     \/ /\ ~parent[p].cancelled
        /\ deferred' = deferred \cup {<<p, task[p].slot>>}
        /\ UNCHANGED line
        /\ DrainAfter(faults + 1,
             LAMBDA s : [s EXCEPT !.task[p] = Idle, !.active[Series(p)] = Absent,
                                  !.pending[Series(p)] = Append(@, p), !.timer = TRUE])

\* The cancellation a deferred chunk committed: its own drain still counts the
\* task, the one that follows does not.
FinishWithdrawal(p) ==
  /\ phase = "up" /\ task[p].stage = "withdrawing"
  /\ Ended(p, "cancelled")
  /\ UNCHANGED <<workers, phase, canonical, line, deferred, revoking, revoked>>
  /\ Drain(LAMBDA s : [Drained(s) EXCEPT !.task[p] = Idle])

-----------------------------------------------------------------------------
(* Time and shutdown                                                       *)

\* The retry time of a deferred chunk comes; only the timer tells the scheduler.
BecomeEligible(c) ==
  /\ c \in deferred
  /\ deferred' = deferred \ {c}
  /\ UNCHANGED <<workers, phase, canonical, live, parent, line, queueVars, revoking, future,
                 revoked, faults>>

RunScheduledDrain ==
  /\ timer
  /\ UNCHANGED <<workers, phase, canonical, live, parent, line, deferred, revoking, future,
                 revoked>>
  /\ Drain(LAMBDA s : [s EXCEPT !.timer = FALSE])

Shutdown ==
  /\ phase = "up"
  /\ phase' = "stopping"
  /\ timer' = FALSE
  /\ UNCHANGED <<workers, canonical, live, parent, line, deferred, task, active, pending,
                 revoking, lastCell, future, revoked, faults>>

\* A cancelled task: a chunk fails and is not committed, a commit fails.
UnwindTask(p) ==
  /\ phase = "stopping" /\ HasTask(p)
  /\ Ended(p, IF task[p].stage = "withdrawing" THEN "cancelled" ELSE "failed")
  /\ task' = [task EXCEPT ![p] = Idle]
  /\ active' = [active EXCEPT ![Series(p)] = IF @ = p THEN Absent ELSE @]
  /\ line' = Without(line, {p} \X SlotsOf(line, p))
  /\ deferred' = {c \in deferred : c[1] # p}
  /\ UNCHANGED <<workers, phase, canonical, pending, revoking, timer, lastCell,
                 revoked, faults>>

EndShutdown ==
  /\ phase = "stopping" /\ \A p \in Requests : ~HasTask(p)
  /\ phase' = "down"
  /\ future' = [p \in Requests |-> IF p \in live /\ future[p] = "open" THEN "failed" ELSE future[p]]
  /\ live' = {}
  /\ parent' = [p \in Requests |-> NoParent]
  /\ line' = <<>>
  /\ deferred' = {}
  /\ active' = [s \in SeriesKeys |-> Absent]
  /\ pending' = [s \in SeriesKeys |-> <<>>]
  /\ UNCHANGED <<workers, canonical, task, revoking, timer, lastCell, revoked, faults>>

Init ==
  /\ workers \in Concurrency
  /\ phase = "up"
  /\ canonical = [r \in Requests |-> Absent]
  /\ live = {} /\ revoking = {} /\ revoked = {} /\ deferred = {}
  /\ parent = [p \in Requests |-> NoParent]
  /\ line = <<>>
  /\ task = [p \in Requests |-> Idle]
  /\ active = [s \in SeriesKeys |-> Absent]
  /\ pending = [s \in SeriesKeys |-> <<>>]
  /\ timer = FALSE
  /\ lastCell = [l \in {Priority(x) : x \in Reasons} \X BOOLEAN |-> Absent]
  /\ future = [p \in Requests |-> "none"]
  /\ faults = 0

TaskStep(p) ==
  \/ \E result \in Results : FinishChunk(p, result)
  \/ \E ok \in BOOLEAN : FinishCommit(p, ok)
  \/ DeferChunk(p)
  \/ FinishWithdrawal(p)
  \/ UnwindTask(p)

Next ==
  \/ \E r \in Requests : Submit(r)
  \/ \E p \in Requests, o \in Owners : AcquireDemand(p, o)
  \/ \E p \in Requests, o \in Owners, cancel \in BOOLEAN : ReleaseDemand(p, o, cancel)
  \/ \E o \in Owners : RevokeOwner(o)
  \/ \E p \in Requests : FinishCancellation(p)
  \/ \E p \in Requests : TaskStep(p)
  \/ \E c \in deferred : BecomeEligible(c)
  \/ RunScheduledDrain
  \/ Shutdown
  \/ EndShutdown

Spec == Init /\ [][Next]_vars

\* Awaited fetches and ledger writes return, time passes and timers fire.  The
\* first three conjuncts are weak fairness of TaskStep, FinishCancellation and
\* RunScheduledDrain, the only steps that end a stage, a pending cancellation
\* or a timer, with the condition under which they are enabled spelt out.
FairSpec ==
  /\ Spec
  /\ \A p \in Requests : []<>(~HasTask(p)) \/ []<><<task'[p] # task[p]>>_vars
  /\ []<>(revoking = {}) \/ []<><<revoking \ revoking' # {}>>_vars
  /\ []<>(~timer) \/ []<><<RunScheduledDrain>>_vars
  /\ WF_vars(\E c \in deferred : BecomeEligible(c))
  /\ WF_vars(EndShutdown)

-----------------------------------------------------------------------------
(* Properties                                                              *)

Parent ==
  [first : Nat, last : Nat, reasons : SUBSET Reasons, priority : Nat, trusted : BOOLEAN,
   cell : Cells \cup {Absent}, reversed : BOOLEAN, leases : SUBSET Owners, persistent : BOOLEAN,
   cancelled : BOOLEAN, stale : BOOLEAN, failed : BOOLEAN, completed : Nat, total : Nat,
   clean : BOOLEAN, edge : BOOLEAN, verdict : Outcomes, fetched : SUBSET Nat,
   weak : SUBSET Nat, dropped : SUBSET Nat, edgeSlot : Nat]

\* Completed chunks never exceed the chunks a parent still counts, whatever an
\* archive import or a left edge removes from them.
TypeOK ==
  /\ workers \in Concurrency /\ phase \in {"up", "stopping", "down"}
  /\ canonical \in [Requests -> Requests \cup {Absent}]
  /\ live \subseteq Requests /\ revoking \subseteq Requests /\ revoked \subseteq Owners
  /\ parent \in [Requests -> Parent]
  /\ \A p \in Requests : parent[p].completed <= parent[p].total
  /\ line \in Seq(Requests \X Nat) /\ deferred \subseteq ToSet(line)
  /\ task \in [Requests -> [stage : {"none", "fetching", "committing", "withdrawing"},
                            slot : Nat, trusted : BOOLEAN]]
  /\ active \in [SeriesKeys -> Requests \cup {Absent}]
  /\ pending \in [SeriesKeys -> Seq(Requests)]
  /\ timer \in BOOLEAN
  /\ lastCell \in [{Priority(x) : x \in Reasons} \X BOOLEAN -> Cells \cup {Absent}]
  /\ future \in [Requests -> Outcomes \cup {"open"}]
  /\ faults \in 0..MaxFaults

\* Every parent of _requests is on exactly one way to its answer: it waits in
\* the pending list of its series with work left and no cancellation, is that
\* series' active parent, or has its cancellation committed by the task that
\* was deferred or by the caller that withdrew the last lease.
EveryParentHasAPath ==
  /\ \A p \in live :
       Cardinality({w \in {"pending", "active", "withdrawing", "revoking"} :
         \/ w = "pending" /\ p \in ToSet(pending[Series(p)])
         \/ w = "active" /\ active[Series(p)] = p
         \/ w = "withdrawing" /\ task[p].stage = "withdrawing"
         \/ w = "revoking" /\ p \in revoking}) = 1
  /\ \A s \in SeriesKeys :
       /\ active[s] # Absent => task[active[s]].stage \in {"fetching", "committing"}
       /\ \A p \in ToSet(pending[s]) :
            p \in live /\ ~HasTask(p) /\ ~parent[p].cancelled /\ SlotsOf(line, p) # {}

\* The worker slots: max_concurrency of them, plus the one reserve beside a
\* single lane; one background task at most; one chunk of a series in flight.
LanesHold ==
  LET tasks == {p \in Requests : HasTask(p)} IN
    /\ Cardinality(tasks) <= (IF workers = 1 THEN 2 ELSE workers)
    /\ Cardinality({p \in tasks : IsBackground(parent[p].reasons)}) <= 1
    /\ \A p, q \in tasks :
         p # q /\ {task[p].stage, task[q].stage} \subseteq {"fetching", "committing"} =>
           Series(p) # Series(q)

SchedulerInv == TypeOK /\ LanesHold

\* release_demand, revoke_owner and supersede_scope withdraw a parent only from
\* callers that are all gone, and nobody joins it or leases it afterwards: a
\* shared future never ends "cancelled" for a caller that still wants it.
CancelledIsUnwanted ==
  \A p \in live : parent[p].cancelled => parent[p].leases = {} /\ ~parent[p].persistent

\* A parent committed as "filled" has fetched every range that was coalesced
\* onto it, and under the trusted-finality contract where that was asked for,
\* whatever was joined, widened, upgraded, deferred or skipped as covered.
FilledIsFetched ==
  \A r \in Requests :
    LET p == canonical[r] IN
      p # Absent /\ p \in live /\ task[p].stage = "committing" /\ parent[p].verdict = "filled" =>
        /\ Demand[r].first..Demand[r].last \subseteq parent[p].fetched
        /\ Demand[r].trusted => parent[p].weak \cap (Demand[r].first..Demand[r].last) = {}

\* README: "Admits no new background chunk while foreground work is active",
\* rate-deferred and committing foreground work included.
BackgroundYields ==
  [][\A p \in Requests :
       task'[p].stage = "fetching" /\ task[p] # task'[p] /\ IsBackground(parent'[p].reasons) =>
         /\ \A q \in Requests : HasTask(q)' => IsBackground(parent'[q].reasons)
         /\ \A c \in ToSet(line') : IsBackground(parent'[c[1]].reasons)]_vars

\* No lost wake-up: while work waits, a task or a cancellation that ends in a
\* drain is running, or the drain timer is armed.
AlwaysWoken ==
  phase = "up" /\ line # <<>> => timer \/ revoking # {} \/ \E p \in Requests : HasTask(p)

\* Every accepted demand is answered: through deferrals, empty buckets,
\* cancellations and a shutdown, no shared future stays open once the finitely
\* many requests are made.
Answered == <>[](\A p \in Requests : future[p] # "open")

\* _finish_chunk: "Newest-first requests must not continue scheduling
\* successively older chunks after the provider has confirmed the left edge":
\* what it drops is older than the chunk at the edge.
LeftEdgeDropsOlder ==
  \A p \in live : \A s \in parent[p].dropped : s < parent[p].edgeSlot
=============================================================================
