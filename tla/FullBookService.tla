--------------------------- MODULE FullBookService ---------------------------
(***************************************************************************)
(* FullOrderBookService (market_data/full_order_book_service.py) for one   *)
(* stream key: the leases that consumers take under _lifecycle_lock, the   *)
(* actor that feeds the reconstruction engine, the callbacks of the        *)
(* upstream feed, the REST snapshot, the rate-limit circuit, the record    *)
(* in the hub, and the stop of the physical feed with its late outcomes.   *)
(*                                                                         *)
(* Code between two awaits is one action.  The engine is the one of        *)
(* FullOrderBook: here it answers any of "live", "buffered" (also stale    *)
(* and duplicate) or "resync".  Deltas are numbered as the feed delivers   *)
(* them.  Left out: shutdown, the stream limit, metrics, payloads, and     *)
(* callers that merely wait for the lock.                                  *)
(***************************************************************************)
EXTENDS Integers, Sequences, SequencesExt

CONSTANTS
  Consumers,
  QueueSize,       \* upstream_queue_size
  MaxDeltas,       \* bound: deltas the feed delivers
  MaxBreaks,       \* bound: gap and health reports
  MaxFailures,     \* bound: refusals of engine, hub and REST
  MaxDenials,      \* bound: rate-limit deferrals
  MaxGenerations   \* bound: actors ever created

ASSUME FullBookServiceAssumption ==
  /\ QueueSize \in Nat \ {0}
  /\ {MaxDeltas, MaxBreaks, MaxFailures, MaxDenials, MaxGenerations} \subseteq Nat

VARIABLES
  caller,     \* who holds _lifecycle_lock, and where it is suspended
  physical,   \* _physical has an actor for the key
  gen,        \* its generation
  consumers,  \* its consumers
  accepting,  \* accepting, and stop_event not set
  handle,     \* start_market returned
  stopTask,   \* its stop_task
  stopState,  \* its stop_state
  pc,         \* where the actor task is suspended
  wake,       \* its wake event
  state, version, requested,  \* state, resync_version, resync_requested
  limited,    \* rate_limit_retry_at_ms: absent, in the future or past
  queue,      \* its queue of envelopes
  hub,        \* the hub's latest record of the key
  feed,       \* the physical feed runs
  offered,    \* deltas delivered so far
  fed,        \* the newest delta the engine got since begin_sync, or 0
  broken,     \* continuity break reported since begin_sync
  breaks, failures, denials  \* bounds

lifecycle == <<caller, physical, gen, consumers, accepting, handle, stopTask, stopState, feed>>
syncing == <<pc, wake, state, version, requested, limited, queue, hub, offered, fed, broken,
             breaks, failures, denials>>
vars == <<lifecycle, syncing>>

\* All of syncing but the actor's own position.
reading == <<state, version, requested, limited, queue, hub, offered, fed, broken,
             breaks, failures, denials>>

Free == [op |-> "none", pc |-> "none", consumer |-> "none"]
Holding(op, at, c) == [op |-> op, pc |-> at, consumer |-> c]

CallerPC == {"none", "starting", "quiescing", "stopping", "retiring", "undoing"}
StopTask == {"none", "running", "late", "ok", "failed", "cancelled"}
StopState == {"active", "stopping", "stop_failed", "stop_cancelled", "stopped"}
ActorPC == {"none", "waiting", "admission", "fetching", "bridging", "following", "backoff", "deferred"}

Envelope(n, v) == [number |-> n, version |-> v]

\* _discard_other_versions: versions only grow, so the others are oldest.
Current(q, v) == SubSeq(q, 1 + SelectLastInSeq(q, LAMBDA e : e.version # v), Len(q))
Newest(q) == IF q = <<>> THEN fed ELSE Last(q).number

-----------------------------------------------------------------------------
(* Resync requests.                                                        *)

\* Mutant: the break is not published.
MutStale(v) == hub

Stale(v) == [live |-> FALSE, gen |-> gen, version |-> v]

\* Mutant: the actor is not woken.
MutWoken == wake

Woken == TRUE

\* _request_resync with force_new_version, and _publish_stale: the queue keeps
\* only what was delivered after the break.
ForceResync(kept) ==
  /\ version' = version + 1
  /\ requested' = TRUE
  /\ queue' = kept
  /\ state' = "stale"
  /\ hub' = Stale(version + 1)
  /\ wake' = Woken

\* _request_resync on behalf of the actor, which goes on at p.
RequestResync(p, q) ==
  /\ version' = IF requested THEN version ELSE version + 1
  /\ requested' = TRUE
  /\ queue' = q
  /\ state' = "stale"
  /\ hub' = Stale(version')
  /\ pc' = p /\ wake' = Woken

Unleased == UNCHANGED lifecycle

-----------------------------------------------------------------------------
(* Callbacks of the feed; those of an actor that stopped accepting are     *)
(* counted and dropped.                                                    *)

Listening == physical /\ accepting /\ feed

\* Mutant: the queue may hold one envelope more.
MutHasRoom == Len(queue) <= QueueSize

HasRoom == Len(queue) < QueueSize

\* _offer_delta
OfferDelta ==
  /\ Listening /\ offered < MaxDeltas
  /\ offered' = offered + 1
  /\ \/ /\ limited = "future"
        /\ UNCHANGED <<wake, state, version, requested, queue, hub, broken>>
     \/ /\ limited # "future" /\ HasRoom
        /\ queue' = Append(queue, Envelope(offered', version))
        /\ wake' = TRUE
        /\ UNCHANGED <<state, version, requested, hub, broken>>
     \/ /\ limited # "future" /\ ~HasRoom
        /\ ForceResync(<<Envelope(offered', version + 1)>>)
        /\ broken' = TRUE
  /\ UNCHANGED <<pc, limited, fed, breaks, failures, denials>> /\ Unleased

\* _on_gap, _on_health (the first report of an outage), or an invalid delta.
Break ==
  /\ Listening /\ breaks < MaxBreaks
  /\ breaks' = breaks + 1
  /\ broken' = TRUE
  /\ ForceResync(<<>>)
  /\ UNCHANGED <<pc, limited, offered, fed, failures, denials>> /\ Unleased

\* retry_at_ms passes on the wall clock.
RetryTimePasses ==
  /\ limited = "future"
  /\ limited' = "past"
  /\ UNCHANGED <<pc, wake, state, version, requested, queue, hub, offered, fed, broken,
                 breaks, failures, denials>> /\ Unleased

-----------------------------------------------------------------------------
(* The actor: _run_actor and _bootstrap.                                   *)

Running == physical /\ accepting

\* The top of the loop of _run_actor, once there is a handle.
Top == IF requested' \/ state' # "live" THEN "admission" ELSE "following"

\* wake.clear(), then wait unless there is something to do.
Await(p) == pc' = p /\ wake' = (requested' \/ queue' # <<>>)

Loop == IF Top = "following" THEN Await("following") ELSE pc' = Top /\ wake' = wake

Begins ==
  /\ Running /\ pc = "waiting" /\ handle /\ wake
  /\ UNCHANGED reading /\ Unleased
  /\ Loop

\* _rate_limit_deferred: by the admission check or by the fetch.
Defer ==
  /\ denials < MaxDenials
  /\ denials' = denials + 1
  /\ limited' = "future"
  /\ RequestResync("deferred", <<>>)
  /\ UNCHANGED <<offered, fed, broken, breaks, failures>>

AdmissionDenied == Running /\ pc = "admission" /\ Defer /\ Unleased

\* From admission to the REST request: stale "upstream_recovering" after a
\* cooldown, _discard_other_versions and begin_sync.
BeginSync ==
  /\ Running /\ pc = "admission"
  /\ requested' = FALSE
  /\ state' = "resyncing"
  /\ queue' = IF limited = "none" THEN Current(queue, version) ELSE <<>>
  /\ hub' = IF limited = "none" THEN hub ELSE Stale(version)
  /\ limited' = "none"
  /\ fed' = 0 /\ broken' = FALSE
  /\ Await("fetching")
  /\ UNCHANGED <<version, offered, breaks, failures, denials>> /\ Unleased

\* Mutant: a break during the synchronisation goes unnoticed.
MutInvalidated == FALSE

\* _bootstrap_invalidated, and the check of _next_delta.
Invalidated == requested

Interrupted ==
  /\ Running /\ pc \in {"fetching", "bridging", "following"} /\ wake
  /\ Invalidated
  /\ UNCHANGED reading /\ Unleased
  /\ Loop

\* The engine, the hub or REST refuses.
Refused ==
  /\ failures < MaxFailures
  /\ failures' = failures + 1

\* _handle_engine_result on "resync_required", or a delta that raised: the next
\* synchronisation starts without a pause.
EngineRefuses(q) ==
  /\ Refused
  /\ RequestResync("admission", q)
  /\ UNCHANGED <<limited, offered, fed, broken, breaks, denials>>

\* _publish_live; the hub may reject the record.
PublishLive ==
  \/ /\ state' = "live"
     /\ hub' = [live |-> TRUE, gen |-> gen, version |-> version]
     /\ limited' = "none"
     /\ UNCHANGED <<version, requested, failures>>
     /\ Loop
  \/ /\ Refused
     /\ version' = IF requested THEN version ELSE version + 1
     /\ requested' = TRUE /\ state' = "stale" /\ hub' = Stale(version')
     /\ UNCHANGED limited
     /\ Loop

\* What a drain leaves in the queue when the engine refuses a delta.
Rests(q) == {SubSeq(q, i + 1, Len(q)) : i \in 1..Len(q)}

\* _drain_deltas_to_engine while the snapshot is on its way.
Drain ==
  /\ Running /\ pc = "fetching" /\ wake /\ ~Invalidated
  /\ \/ /\ fed' = Newest(queue) /\ queue' = <<>>
        /\ UNCHANGED <<state, version, requested, limited, hub, offered, broken,
                       breaks, failures, denials>>
        /\ Await("fetching")
     \/ \E rest \in Rests(queue) : EngineRefuses(rest)
  /\ Unleased

\* _sync_failed
SyncFails(q) ==
  /\ Refused
  /\ RequestResync("backoff", q)
  /\ UNCHANGED <<limited, offered, fed, broken, breaks, denials>>

\* The fetch ended, or timed out.  The last drain, install_snapshot and what
\* follows happen without an await.
FetchEnds ==
  /\ Running /\ pc = "fetching"
  /\ \/ Invalidated /\ UNCHANGED reading /\ Loop
     \/ ~Invalidated /\ SyncFails(<<>>)
     \/ ~Invalidated /\ Defer
     \/ ~Invalidated /\ \E rest \in Rests(queue) \cup {<<>>} : EngineRefuses(rest)
     \/ /\ ~Invalidated
        /\ fed' = Newest(queue) /\ queue' = <<>>
        /\ UNCHANGED <<offered, broken, breaks, denials>>
        /\ \/ PublishLive
           \/ /\ UNCHANGED <<state, version, requested, limited, hub, failures>>
              /\ Await("bridging")
  /\ Unleased

\* _next_delta and _apply_delta, while bridging or following.
ApplyDelta ==
  /\ Running /\ pc \in {"bridging", "following"} /\ wake /\ ~Invalidated
  /\ queue # <<>>
  /\ \/ EngineRefuses(Tail(queue))
     \/ /\ fed' = Head(queue).number /\ queue' = Tail(queue)
        /\ UNCHANGED <<offered, broken, breaks, denials>>
        /\ \/ PublishLive
           \/ /\ UNCHANGED <<state, version, requested, limited, hub, failures>>
              /\ Await(pc)
  /\ Unleased

BridgeTimeout ==
  /\ Running /\ pc = "bridging"
  /\ Invalidated \/ queue = <<>>
  /\ SyncFails(queue)
  /\ Unleased

\* The backoff or the deferral is over.
PauseEnds ==
  /\ Running /\ pc \in {"backoff", "deferred"}
  /\ UNCHANGED reading /\ Unleased
  /\ Loop

-----------------------------------------------------------------------------
(* Leases.  A caller holds _lifecycle_lock until it returns or raises.     *)

Nobody == caller = Free

\* A new actor, up to the await of start_market.
CreateActor(c) ==
  /\ gen < MaxGenerations
  /\ gen' = gen + 1
  /\ physical' = TRUE /\ consumers' = {c} /\ accepting' = TRUE /\ handle' = FALSE
  /\ stopTask' = "none" /\ stopState' = "active"
  /\ feed' = TRUE
  /\ pc' = "waiting" /\ wake' = FALSE
  /\ state' = "stale" /\ version' = 1 /\ requested' = TRUE
  /\ limited' = "none" /\ queue' = <<>> /\ fed' = 0 /\ broken' = FALSE
  /\ hub' = [live |-> FALSE, gen |-> gen', version |-> 1]
  /\ caller' = Holding("ensure", "starting", c)
  /\ UNCHANGED <<offered, breaks, failures, denials>>

\* _physical.pop and deactivate_stream
Forget ==
  /\ physical' = FALSE /\ consumers' = {}
  /\ handle' = FALSE /\ stopTask' = "none"
  /\ UNCHANGED <<gen, accepting, stopState, feed>> /\ UNCHANGED syncing

\* What _quiesce_actor does before it awaits the end of the actor task.
Quiesce ==
  /\ accepting' = FALSE
  /\ pc' = "none" /\ queue' = <<>> /\ wake' = TRUE
  /\ IF accepting THEN state' = "stale" /\ hub' = Stale(version)
     ELSE UNCHANGED <<state, hub>>
  /\ UNCHANGED <<version, requested, limited, offered, fed, broken, breaks, failures, denials>>

EnsureNew(c) == Nobody /\ ~physical /\ CreateActor(c)

EnsureShared(c) ==
  /\ Nobody /\ physical
  /\ stopTask = "none" /\ stopState = "active"
  /\ c \notin consumers
  /\ consumers' = consumers \cup {c}
  /\ UNCHANGED <<caller, physical, gen, accepting, handle, stopTask, stopState, feed>>
  /\ UNCHANGED syncing

\* Another attempt to stop what an earlier stop left behind.
EnsureAfterFailedStop(c) ==
  /\ Nobody /\ physical
  /\ stopTask = "none" /\ stopState # "active"
  /\ gen < MaxGenerations
  /\ stopTask' = "running" /\ stopState' = "stopping"
  /\ caller' = Holding("ensure", "stopping", c)
  /\ UNCHANGED <<physical, gen, consumers, accepting, handle, feed>> /\ UNCHANGED syncing

StartSucceeds ==
  /\ caller.pc = "starting"
  /\ handle' = TRUE /\ wake' = TRUE
  /\ caller' = Free
  /\ UNCHANGED <<physical, gen, consumers, accepting, stopTask, stopState, feed>>
  /\ UNCHANGED pc /\ UNCHANGED reading

\* start_market raised, or the caller was cancelled in it: _retire_actor.
StartFails ==
  /\ caller.pc = "starting"
  /\ Quiesce
  /\ feed' = FALSE
  /\ caller' = [caller EXCEPT !.pc = "undoing"]
  /\ UNCHANGED <<physical, gen, consumers, handle, stopTask, stopState>>

Leave(c) ==
  /\ Nobody /\ physical /\ c \in consumers /\ consumers # {c}
  /\ consumers' = consumers \ {c}
  /\ UNCHANGED <<caller, physical, gen, accepting, handle, stopTask, stopState, feed>>
  /\ UNCHANGED syncing

LeaveLast(c) ==
  /\ Nobody /\ physical /\ consumers = {c}
  /\ Quiesce
  /\ caller' = Holding("release", "quiescing", c)
  /\ UNCHANGED <<physical, gen, consumers, handle, stopTask, stopState, feed>>

-----------------------------------------------------------------------------
(* _stop_physical, its timeout and its late outcome.                       *)

\* Mutant: a stop that failed counts as done.
MutStopped(t) == t \in {"ok", "failed"}

StopSucceeded(t) == t = "ok"

NotStopped(t) == IF t = "cancelled" THEN "stop_cancelled" ELSE "stop_failed"

Ended == stopTask \in {"ok", "failed", "cancelled"}

\* The actor task has ended: a stop in progress is joined, one that failed
\* is repeated.
Quiesced ==
  /\ caller.pc = "quiescing"
  /\ handle /\ ~StopSucceeded(stopTask)
  /\ stopTask' = IF stopTask = "late" THEN "late" ELSE "running"
  /\ stopState' = "stopping"
  /\ caller' = [caller EXCEPT !.pc = "stopping"]
  /\ UNCHANGED <<physical, gen, consumers, accepting, handle, feed>> /\ UNCHANGED syncing

\* There is nothing to stop, or an earlier stop succeeded late.
QuiescedAlready ==
  /\ caller.pc = "quiescing"
  /\ caller' = [caller EXCEPT !.pc = "retiring"]
  /\ \/ /\ ~handle
        /\ UNCHANGED <<physical, consumers, handle, stopTask, stopState>>
     \/ /\ handle /\ StopSucceeded(stopTask)
        /\ physical' = FALSE /\ consumers' = {} /\ handle' = FALSE
        /\ stopTask' = "none" /\ stopState' = "stopped"
  /\ UNCHANGED <<gen, accepting, feed>> /\ UNCHANGED syncing

\* handle.stop() of the feed; one that was cancelled may still succeed.
StopEnds ==
  /\ stopTask \in {"running", "late"}
  /\ \/ stopTask' = "ok" /\ feed' = FALSE
     \/ stopTask' = "failed" /\ UNCHANGED feed
     \/ stopTask = "late" /\ stopTask' = "cancelled" /\ UNCHANGED feed
  /\ UNCHANGED <<caller, physical, gen, consumers, accepting, handle, stopState>>
  /\ UNCHANGED syncing

StopAwaited ==
  /\ caller.pc = "stopping"
  /\ \/ /\ StopSucceeded(stopTask)
        /\ stopTask' = "none" /\ stopState' = "stopped"
        /\ caller' = [caller EXCEPT !.pc = "retiring"]
     \/ /\ ~StopSucceeded(stopTask) /\ stopTask = "failed"
        /\ stopTask' = "none" /\ stopState' = "stop_failed"
        /\ caller' = Free
     \/ /\ stopTask = "cancelled"  \* the shielded await raises CancelledError
        /\ caller' = Free
        /\ UNCHANGED <<stopTask, stopState>>
  /\ UNCHANGED <<physical, gen, consumers, accepting, handle, feed>> /\ UNCHANGED syncing

\* The stop is cancelled and its late outcome awaited in the background.
StopTimeout ==
  /\ caller.pc = "stopping" /\ ~Ended
  /\ stopTask' = "late"
  /\ caller' = Free
  /\ UNCHANGED <<physical, gen, consumers, accepting, handle, stopState, feed>>
  /\ UNCHANGED syncing

\* _reconcile_late_stop, or the same at the beginning of ensure_stream.
LateStop ==
  /\ Nobody /\ physical /\ Ended
  /\ \/ /\ StopSucceeded(stopTask)
        /\ stopState' = "stopped"
        /\ physical' = FALSE /\ consumers' = {} /\ handle' = FALSE
     \/ /\ ~StopSucceeded(stopTask)
        /\ stopState' = NotStopped(stopTask)
        /\ UNCHANGED <<physical, consumers, handle>>
  /\ stopTask' = "none"
  /\ UNCHANGED <<caller, gen, accepting, feed>> /\ UNCHANGED syncing

\* _retire_actor after a successful stop; ensure_stream goes on with a new actor.
Retire ==
  /\ caller.pc = "retiring"
  /\ \/ /\ caller.op = "release"
        /\ Forget
        /\ caller' = Free
     \/ caller.op = "ensure" /\ CreateActor(caller.consumer)

RetireFailedStart ==
  /\ caller.pc = "undoing"
  /\ Forget
  /\ caller' = Free

\* The caller is cancelled at an await under the lock.
CallerCancelled ==
  /\ caller.pc \in {"quiescing", "stopping", "retiring", "undoing"}
  /\ caller' = Free
  /\ stopTask' = IF caller.pc = "stopping" /\ ~Ended THEN "late" ELSE stopTask
  /\ UNCHANGED <<physical, gen, consumers, accepting, handle, stopState, feed>>
  /\ UNCHANGED syncing

-----------------------------------------------------------------------------
Init ==
  /\ caller = Free /\ physical = FALSE /\ gen = 0 /\ consumers = {}
  /\ accepting = FALSE /\ handle = FALSE /\ stopTask = "none" /\ stopState = "active"
  /\ feed = FALSE
  /\ pc = "none" /\ wake = FALSE
  /\ state = "stale" /\ version = 1 /\ requested = TRUE
  /\ limited = "none" /\ queue = <<>>
  /\ hub = [live |-> FALSE, gen |-> 0, version |-> 1]
  /\ offered = 0 /\ fed = 0 /\ broken = FALSE
  /\ breaks = 0 /\ failures = 0 /\ denials = 0

Actor ==
  \/ Begins
  \/ AdmissionDenied \/ BeginSync
  \/ Interrupted
  \/ Drain \/ FetchEnds
  \/ ApplyDelta
  \/ BridgeTimeout
  \/ PauseEnds

Feed == OfferDelta \/ Break

Lease ==
  \/ \E c \in Consumers : EnsureNew(c) \/ EnsureShared(c) \/ EnsureAfterFailedStop(c)
  \/ \E c \in Consumers : Leave(c) \/ LeaveLast(c)
  \/ StartSucceeds \/ StartFails
  \/ Quiesced \/ QuiescedAlready
  \/ StopEnds \/ StopAwaited \/ StopTimeout \/ LateStop
  \/ Retire \/ RetireFailedStart
  \/ CallerCancelled

Next == Actor \/ Feed \/ RetryTimePasses \/ Lease

Spec == Init /\ [][Next]_vars

\* The actor task runs when it is ready, a fetch ends by its timeout, and
\* pauses end.
FairSpec == Spec /\ WF_vars(Actor)

-----------------------------------------------------------------------------
(* Properties                                                              *)

TypeOK ==
  /\ caller \in [op : {"none", "ensure", "release"}, pc : CallerPC, consumer : Consumers \cup {"none"}]
  /\ {physical, accepting, handle, feed, wake, requested, broken} \subseteq BOOLEAN
  /\ gen \in 0..MaxGenerations /\ consumers \subseteq Consumers
  /\ stopTask \in StopTask /\ stopState \in StopState
  /\ pc \in ActorPC /\ state \in {"stale", "resyncing", "live"}
  /\ version \in Nat \ {0} /\ limited \in {"none", "future", "past"}
  /\ queue \in Seq([number : 1..MaxDeltas, version : 1..version]) /\ Len(queue) <= QueueSize
  /\ hub \in [live : BOOLEAN, gen : 0..gen, version : Nat]
  /\ {offered, fed} \subseteq 0..MaxDeltas
  /\ breaks \in 0..MaxBreaks /\ failures \in 0..MaxFailures /\ denials \in 0..MaxDenials

\* A book that is live, or on the way there, is fed every delta since its
\* synchronisation began, in order and none twice, and no break of continuity
\* was reported since: whatever overflows, is deferred or interleaves.
BookIsUnbroken ==
  physical /\ state # "stale" =>
    /\ ~broken /\ ~requested
    /\ \A i \in DOMAIN queue : queue[i].number = offered - Len(queue) + i
    /\ fed # 0 => fed = offered - Len(queue)

\* Consumers read the hub: its record is live exactly while the actor's book
\* is, and of that actor's generation and version.
HubIsHonest ==
  /\ hub.live <=> physical /\ state = "live"
  /\ hub.live => hub.gen = gen /\ hub.version = version

\* Whatever becomes of a stop, a physical feed that may still run is not
\* forgotten: no second one is started beside it.
FeedIsOwned == feed => physical

\* A resync that is asked for begins, whenever the request comes.
ResyncBegins == Running /\ handle /\ requested ~> ~(Running /\ requested)

\* The class comment promises "one strict ordered actor" per leased identity:
\* who is granted a lease joins an actor that runs.
LeaseHasActor ==
  [][\A c \in Consumers : c \in consumers' \ consumers => accepting']_vars

=============================================================================
