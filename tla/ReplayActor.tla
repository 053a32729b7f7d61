------------------------------ MODULE ReplayActor ------------------------------
(***************************************************************************)
(* ReplaySessionActor (backend/app/replay/actor.py), the single writer of  *)
(* a replay session, with the service that starts it again from            *)
(* ReplaySQLiteStore after a crash or a shutdown.                          *)
(*                                                                         *)
(* One task takes requests from a bounded mailbox, plays source events     *)
(* when the virtual clock reaches them, and changes its memory first: the  *)
(* candidate is then written in one transaction while the task awaits it,  *)
(* published on success and rolled back on failure.  The database holds    *)
(* the session row, checkpoints, and a log of mutations; recovery restores *)
(* the newest checkpoint and replays the mutations after it.               *)
(*                                                                         *)
(* Event k of the immutable dataset happens at time 2k, so odd times lie   *)
(* between events.  The reducer is a function of the events consumed and   *)
(* the orders accepted.  Left out: speeds other than one finite one,       *)
(* REVEAL_HISTORY and the training commands (fast-forward, deferred        *)
(* terminal, summary jump), transport of frames, and older checkpoints,    *)
(* which recovery only tries when the newest one is unreadable.            *)
(***************************************************************************)
EXTENDS Integers, Sequences, FiniteSets

CONSTANTS
  Clients,
  Owner,            \* the one that holds the controller at first
  Commands,         \* command ids 1..Commands, in the order of their first use
  Shapes,           \* what a command may ask: records of type, client and arg
  Events,           \* events of the dataset
  CheckpointEvery,  \* checkpoint_event_interval
  QueueSize,        \* command_queue_size
  PauseOnLoss,      \* pause_on_controller_loss
  MaxRetries,       \* bound: how often a client sends a command again
  MaxReads,         \* bound: heartbeats and snapshot requests waiting at a time
  MaxFaults,        \* bound: failed transactions and expired leases
  MaxRestarts       \* bound: crashes and shutdowns

Nobody == "nobody"
Types == {"ACQUIRE_CONTROLLER", "RELEASE_CONTROLLER", "PLAY", "PAUSE", "SET_SPEED", "STEP",
          "ADVANCE_BY", "SEEK_TO", "PLACE_ORDER", "ADD_JOURNAL_NOTE", "END_SESSION"}
Speeds == {"finite", "MAX"}
Ids == 1..Commands
\* What else the mailbox holds, and no command.
Read == 0
Stop == Commands + 1
NoId == 0

ASSUME ReplayAssumption ==
  /\ Nobody \notin Clients /\ Owner \in Clients
  /\ Shapes \subseteq [type : Types, client : Clients, arg : Nat]
  /\ {Commands, Events, CheckpointEvery, QueueSize} \subseteq Nat \ {0}
  /\ PauseOnLoss \in BOOLEAN
  /\ {MaxRetries, MaxReads, MaxFaults, MaxRestarts} \subseteq Nat

VARIABLES
  pc,        \* of the actor's task: "loop" top, "after" a request, "waiting", "commit", "down"
  mem,       \* the actor's fields
  txn,       \* the mutation whose transaction is awaited
  queue,     \* its mailbox
  closing,   \* a shutdown was requested
  history,   \* CommandHistory: the ids this actor has decided
  degraded,  \* _degraded_reason
  lastCp,    \* _last_checkpoint_source_sequence
  row,       \* SQLite: the session row
  newest,    \* SQLite: the newest checkpoint
  tail,      \* SQLite: the mutations logged after it
  logged,    \* SQLite: the command log
  content,   \* what each id asks and the revision it expects, until it is answered
  asks,      \* how many of its sendings await an answer
  told,      \* the answers the clients got to it
  shown,     \* the newest sequence number a subscriber got
  retries, restarts, faults

actorVars == <<pc, mem, txn, queue, closing, history, degraded, lastCp>>
diskVars == <<row, newest, tail, logged>>
clientVars == <<content, asks, told, retries>>
vars == <<actorVars, diskVars, clientVars, shown, restarts, faults>>

-----------------------------------------------------------------------------
(* The session and its clock                                               *)

Terminal == 2 * Events + 1    \* _source_terminal_time_ms
Times == 0..Terminal
Time(event) == 2 * event

Session == [state : {"PAUSED", "PLAYING", "ENDED"}, rev : Nat, seq : Nat, off : Nat,
            src : 0..Events, vt : Times, speed : Speeds, ctl : Clients \cup {Nobody},
            pos : Nat, orders : SUBSET [src : 0..Events, vt : Times], notes : SUBSET Times]

\* A session that was just created.
Fresh == [state |-> "PAUSED", rev |-> 0, seq |-> 0, off |-> 0, src |-> 0, vt |-> 0,
          speed |-> "finite", ctl |-> Nobody, pos |-> 0, orders |-> {}, notes |-> {}]

\* _compute_state_hash: what is hashed.
Hash(m) == [src |-> m.src, vt |-> m.vt, pos |-> m.pos, orders |-> m.orders]

\* Mutant: the clock is not capped at the next event.
MutBoundary(m) == Terminal

\* _next_source_boundary
Boundary(m) == IF m.src < Events THEN Time(m.src + 1) ELSE m.vt

\* VirtualClock.materialize: where the clock may be by now.
Materialised(m) ==
  IF m.state = "PLAYING" /\ m.speed = "finite" THEN m.vt..Boundary(m) ELSE {m.vt}

At(m, vt) == [m EXCEPT !.vt = vt]

Due(m) == /\ m.state = "PLAYING" /\ m.src < Events
          /\ m.speed = "MAX" \/ m.vt = Time(m.src + 1)

Ended(m) == [m EXCEPT !.state = "ENDED", !.ctl = Nobody]

\* _apply_source_event_candidate for as many events as bring the cursor to src.
Consumed(m, src) ==
  IF src = Events THEN Ended([m EXCEPT !.src = src, !.vt = Terminal])
  ELSE [m EXCEPT !.src = src, !.vt = Time(src)]

LastBy(time) == IF time \div 2 <= Events THEN time \div 2 ELSE Events

-----------------------------------------------------------------------------
(* _execute_command                                                        *)

\* SEEK_TO and _preflight_seek_target
Seekable(m, target) ==
  /\ m.orders = {}
  /\ target <= Time(Events)
  /\ \A n \in m.notes : n <= target

\* The guards of _execute_command.
Allowed(m, c) ==
  /\ c.rev = m.rev
  /\ m.state = "ENDED" => c.type \in {"ACQUIRE_CONTROLLER", "ADD_JOURNAL_NOTE"}
  /\ IF c.type = "ACQUIRE_CONTROLLER" THEN m.ctl \in {Nobody, c.client} \/ c.arg = 1
     ELSE m.ctl = c.client
  /\ c.type \in {"PLAY", "STEP", "ADVANCE_BY", "SEEK_TO"} => m.state = "PAUSED"
  /\ c.type = "PAUSE" => m.state = "PLAYING"
  /\ c.type = "SEEK_TO" => Seekable(m, c.arg)

\* _advance_to and _seek_to: the events up to the target, then the target.
Moved(m, target) ==
  IF LastBy(target) = Events THEN Consumed(m, Events)
  ELSE [m EXCEPT !.src = LastBy(target), !.vt = target]

\* The pause of RELEASE_CONTROLLER and of an expired lease.
Released(m) ==
  [m EXCEPT !.ctl = Nobody, !.state = IF @ = "PLAYING" /\ PauseOnLoss THEN "PAUSED" ELSE @]

\* Each branch of _execute_command, without the revision and the frame.
Effect(m, c) ==
  CASE c.type = "ACQUIRE_CONTROLLER" -> [m EXCEPT !.ctl = c.client]
    [] c.type = "RELEASE_CONTROLLER" -> Released(m)
    [] c.type = "PLAY" -> [m EXCEPT !.state = "PLAYING"]
    [] c.type = "PAUSE" -> [m EXCEPT !.state = "PAUSED"]
    [] c.type = "SET_SPEED" -> [m EXCEPT !.speed = IF c.arg = 1 THEN "MAX" ELSE "finite"]
    [] c.type = "STEP" -> Consumed(m, m.src + 1)
    [] c.type = "ADVANCE_BY" -> Moved(m, m.vt + c.arg)
    [] c.type = "SEEK_TO" -> Moved(m, c.arg)
    [] c.type = "PLACE_ORDER" ->
         [m EXCEPT !.pos = @ + 1, !.orders = @ \cup {[src |-> m.src, vt |-> m.vt]}]
    [] c.type = "ADD_JOURNAL_NOTE" -> [m EXCEPT !.pos = @ + 1, !.notes = @ \cup {m.vt}]
    [] c.type = "END_SESSION" -> Ended([m EXCEPT !.pos = @ + 1])

Emitted(m) == [m EXCEPT !.seq = @ + 1]
Revised(m) == Emitted([m EXCEPT !.rev = @ + 1])

\* Commands that stop or re-anchor a running clock read the wall clock first.
ReadsClock == {"RELEASE_CONTROLLER", "PAUSE", "SET_SPEED", "END_SESSION"}

-----------------------------------------------------------------------------
(* Transactions                                                            *)

NoTxn == [kind |-> "none", id |-> NoId, base |-> Fresh, checkpoint |-> FALSE,
          answer |-> [verdict |-> "none", rev |-> 0], next |-> "down"]

NoCommand == [type |-> "none", client |-> Nobody, arg |-> 0, rev |-> 0]
Known == [NoCommand EXCEPT !.type = "answered"]

\* What a command asks plays no part before the actor reads it: it is chosen then,
\* and is the same when the command is sent again.
Meanings(c) ==
  IF c.type # "sent" THEN {c}
  ELSE {[type |-> s.type, client |-> s.client, arg |-> s.arg, rev |-> c.rev] : s \in Shapes}

Unlogged == NoTxn.answer
Answer(verdict, rev) == [verdict |-> verdict, rev |-> rev]

\* _capture_rollback, the candidate, and the await of _commit_mutation.
Begin(base, kind, id, candidate, checkpoint, answer, next) ==
  /\ pc' = "commit"
  /\ mem' = candidate
  /\ txn' = [kind |-> kind, id |-> id, base |-> base, checkpoint |-> checkpoint,
             answer |-> answer, next |-> next]

\* Mutant: requests are taken one after the other.
MutAfterRequest == "loop"

\* After a request found at the top of the loop one due event is played.
AfterRequest == IF pc = "loop" THEN "after" ELSE "loop"

CheckpointDue(m) == m.src - lastCp >= CheckpointEvery   \* _checkpoint_due

\* _process_source_event: it is checkpointed at the end of the data, when one is
\* due, and when a fill changes orders (_review_checkpoint_required).
PlayEvent(base) ==
  LET m == Emitted(Consumed(base, base.src + 1))
  IN  \E review \in BOOLEAN :
        /\ review => base.orders # {}
        /\ Begin(base, "source", NoId, m, review \/ m.state = "ENDED" \/ CheckpointDue(m),
                 Unlogged, "loop")

\* _run from peek on: the clock moves, and the event is played if it is due.
Play(next) ==
  /\ mem.state = "PLAYING"
  /\ \E vt \in Materialised(mem) :
       IF Due(At(mem, vt)) THEN PlayEvent(At(mem, vt))
       ELSE pc' = next /\ mem' = At(mem, vt) /\ UNCHANGED txn

Idle == UNCHANGED <<queue, closing, history, degraded, lastCp, restarts, faults, shown>>
        /\ UNCHANGED diskVars /\ UNCHANGED clientVars

\* _run without a request in the mailbox.
Loop ==
  /\ pc = "loop" /\ queue = <<>>
  /\ \/ Play("waiting")
     \/ mem.state # "PLAYING" /\ pc' = "waiting" /\ UNCHANGED <<mem, txn>>
  /\ Idle

\* _process_one_due_source_after_request
AfterOne ==
  /\ pc = "after"
  /\ \/ Play("loop")
     \/ mem.state # "PLAYING" /\ pc' = "loop" /\ UNCHANGED <<mem, txn>>
  /\ Idle

\* _wait_for_request: the event or the end of the lease is due.
Wake ==
  /\ pc = "waiting" /\ queue = <<>>
  /\ mem.state = "PLAYING" \/ mem.ctl # Nobody
  /\ pc' = "loop"
  /\ UNCHANGED <<mem, txn>> /\ Idle

\* _expire_controller_if_needed
Expire ==
  /\ pc = "loop" /\ mem.ctl # Nobody /\ faults < MaxFaults
  /\ \E vt \in IF PauseOnLoss THEN Materialised(mem) ELSE {mem.vt} :
       Begin(mem, "expired", NoId, Revised(Released(At(mem, vt))), TRUE, Unlogged, "loop")
  /\ faults' = faults + 1
  /\ UNCHANGED <<queue, closing, history, degraded, lastCp, restarts, shown>>
  /\ UNCHANGED diskVars /\ UNCHANGED clientVars

-----------------------------------------------------------------------------
(* Clients and the mailbox                                                 *)

Up == pc # "down"
HasRoom == Len(queue) < QueueSize             \* _offer_request
Accepting == Up /\ ~closing /\ HasRoom        \* _ensure_accepting

\* Mutant: the command log is not asked first.
MutStored(id) == FALSE

\* store.get_command; the answer may be older than the actor's own decisions.
Stored(id) == logged[id] # Unlogged /\ id \notin history

Told(id, answer) ==
  /\ told' = [told EXCEPT ![id] = @ \cup {answer}]
  /\ content' = [content EXCEPT ![id] = Known]
Again == retries < MaxRetries /\ retries' = retries + 1
UntouchedActor == UNCHANGED <<pc, mem, txn, closing, history, degraded, lastCp>>

\* ReplayService.command up to actor.submit.  A client that got no answer in
\* time sends the same command again.
Submit(id) ==
  /\ Accepting /\ ~degraded /\ ~Stored(id)
  /\ \/ /\ id = 1 + Cardinality({k \in Ids : content[k] # NoCommand})
        /\ content' = [content EXCEPT ![id] = [NoCommand EXCEPT !.type = "sent", !.rev = row.rev]]
        /\ UNCHANGED retries
     \/ /\ content[id] \notin {NoCommand, Known} /\ Again
        /\ UNCHANGED content
  /\ asks' = [asks EXCEPT ![id] = @ + 1]
  /\ queue' = Append(queue, id)
  /\ UntouchedActor /\ UNCHANGED diskVars /\ UNCHANGED <<told, shown, restarts, faults>>

\* _replay_stored_command
AnswerFromLog(id) ==
  /\ Up /\ Stored(id) /\ content[id] # Known /\ Again
  /\ Told(id, logged[id])
  /\ UntouchedActor /\ UNCHANGED diskVars
  /\ UNCHANGED <<queue, asks, shown, restarts, faults>>

\* snapshot, report: requests that decide nothing, behind a shutdown too.
Ask ==
  /\ Up /\ HasRoom
  /\ Cardinality({i \in DOMAIN queue : queue[i] = Read}) < MaxReads
  /\ queue' = Append(queue, Read)
  /\ UntouchedActor /\ UNCHANGED diskVars /\ UNCHANGED clientVars
  /\ UNCHANGED <<shown, restarts, faults>>

\* ReplaySessionActor.shutdown
RequestStop ==
  /\ Accepting /\ restarts < MaxRestarts
  /\ closing' = TRUE
  /\ queue' = Append(queue, Stop)
  /\ restarts' = restarts + 1
  /\ UNCHANGED <<pc, mem, txn, history, degraded, lastCp>>
  /\ UNCHANGED diskVars /\ UNCHANGED clientVars /\ UNCHANGED <<shown, faults>>

Offered(request) == pc \in {"loop", "waiting"} /\ queue # <<>> /\ Head(queue) = request
Takes(request) == Offered(request) /\ queue' = Tail(queue)

\* A snapshot materialises the clock, a heartbeat does not.
HandleRead ==
  /\ Takes(Read)
  /\ \E vt \in Materialised(mem) : mem' = At(mem, vt)
  /\ pc' = AfterRequest
  /\ UNCHANGED <<txn, closing, history, degraded, lastCp, shown, restarts, faults>>
  /\ UNCHANGED diskVars /\ UNCHANGED clientVars

\* CommandHistory.replay
HandleRepeated(id) ==
  /\ Takes(id) /\ id \in history
  /\ pc' = AfterRequest
  /\ asks' = [asks EXCEPT ![id] = @ - 1]
  /\ Told(id, logged[id])
  /\ UNCHANGED <<mem, txn, closing, history, degraded, lastCp, retries>>
  /\ UNCHANGED diskVars /\ UNCHANGED <<shown, restarts, faults>>

Logged(m) == [m EXCEPT !.off = @ + 1]

\* What is left of a rejected command.
Rejected(m) == Logged(m)

\* _handle_command_request
HandleCommand(id) ==
  \E c \in Meanings(content[id]) :
    /\ Takes(id) /\ id \notin history
    /\ content' = [content EXCEPT ![id] = c]
    /\ \/ /\ Allowed(mem, c)
          /\ \E vt \in IF c.type \in ReadsClock THEN Materialised(mem) ELSE {mem.vt} :
               LET m == Logged(Revised(Effect(At(mem, vt), c)))
               IN  Begin(mem, "accepted", id, m, TRUE, Answer("accepted", m.rev), AfterRequest)
       \/ /\ ~Allowed(mem, c)
          /\ Begin(mem, "rejected", id, Rejected(mem), FALSE, Answer("rejected", mem.rev),
                   AfterRequest)
    /\ UNCHANGED <<asks, told, retries, closing, history, degraded, lastCp, shown, restarts, faults>>
    /\ UNCHANGED diskVars

\* Mutant: the mailbox is thrown away.
MutFailPending == asks

\* _fail_pending: whoever waits gets an error.
FailPending == [id \in Ids |-> 0]

\* The task ends and its memory is gone; here it is what a restart begins with.
Exit ==
  /\ pc' = "down" /\ mem' = newest' /\ txn' = NoTxn
  /\ queue' = <<>> /\ closing' = FALSE /\ history' = {} /\ degraded' = FALSE /\ lastCp' = 0
  /\ asks' = FailPending

\* _handle_shutdown_request: an ended session is durable already.
StopEnded ==
  /\ Offered(Stop) /\ mem.state = "ENDED"
  /\ UNCHANGED diskVars /\ Exit
  /\ UNCHANGED <<content, retries, told, shown, restarts, faults>>

HandleStop ==
  /\ Takes(Stop) /\ mem.state # "ENDED"
  /\ \E vt \in Materialised(mem) :
       Begin(mem, "stop", NoId,
             IF mem.state = "PLAYING" THEN Revised([At(mem, vt) EXCEPT !.state = "PAUSED"])
             ELSE mem,
             TRUE, Unlogged, "down")
  /\ UNCHANGED <<closing, history, degraded, lastCp, shown, restarts, faults>>
  /\ UNCHANGED diskVars /\ UNCHANGED clientVars

-----------------------------------------------------------------------------
(* ReplaySQLiteStore                                                       *)

\* _durable_state
Row(m) == [state |-> m.state, rev |-> m.rev, seq |-> m.seq, off |-> m.off, hash |-> Hash(m),
           degraded |-> degraded]

\* _checkpoint_payload does not hold the controller.
Checkpoint(m) == [m EXCEPT !.ctl = Nobody]

\* Mutant: a checkpoint is filed before the mutation it was taken with.
MutTailAfter(record) == IF txn.checkpoint THEN <<record>> ELSE Append(tail, record)

\* recovery_mutations_after the newest checkpoint.
TailAfter(record) == IF txn.checkpoint THEN <<>> ELSE Append(tail, record)

\* commit_command, commit_source_event, commit_state: one transaction.  A
\* command that is in the log already is not written again.
Write ==
  IF txn.id # NoId /\ logged[txn.id] # Unlogged THEN UNCHANGED diskVars
  ELSE /\ row' = Row(mem)
       /\ newest' = IF txn.checkpoint THEN Checkpoint(mem) ELSE newest
       /\ tail' = TailAfter([kind |-> txn.kind, off |-> mem.off, hash |-> Hash(mem)])
       /\ logged' = IF txn.id = NoId THEN logged ELSE [logged EXCEPT ![txn.id] = txn.answer]

\* commit_source_event wants the next source sequence.
Conflicts == txn.kind = "source" /\ mem.src # row.hash.src + 1

\* _record_checkpoint
Recorded ==
  \/ txn.kind = "source" /\ txn.checkpoint
  \/ /\ txn.kind = "accepted"
     /\ content[txn.id].type = "SEEK_TO" \/ mem.state = "ENDED" \/ CheckpointDue(mem)

Replied ==
  asks' = IF txn.id = NoId THEN asks ELSE [asks EXCEPT ![txn.id] = @ - 1]

\* _commit_mutation returns: the frames are published and the caller answered.
CommitOk ==
  /\ pc = "commit" /\ ~Conflicts /\ txn.kind # "stop"
  /\ Write
  /\ pc' = txn.next /\ txn' = NoTxn
  /\ history' = IF txn.id = NoId THEN history ELSE history \cup {txn.id}
  /\ lastCp' = IF Recorded THEN mem.src ELSE lastCp
  /\ shown' = IF txn.kind = "rejected" THEN shown ELSE mem.seq
  /\ Replied
  /\ IF txn.id = NoId THEN UNCHANGED <<told, content>> ELSE Told(txn.id, txn.answer)
  /\ UNCHANGED <<mem, queue, closing, degraded, retries, restarts, faults>>

\* _restore_rollback with force_paused
RolledBack ==
  IF txn.base.state = "ENDED" THEN txn.base
  ELSE [txn.base EXCEPT !.state = "PAUSED", !.ctl = Nobody]

\* The transaction raises: _enter_persistence_degraded.
CommitFails ==
  /\ pc = "commit" /\ txn.kind # "stop"
  /\ Conflicts \/ faults < MaxFaults
  /\ faults' = IF Conflicts THEN faults ELSE faults + 1
  /\ mem' = RolledBack /\ degraded' = TRUE
  /\ pc' = txn.next /\ txn' = NoTxn
  /\ Replied
  /\ UNCHANGED diskVars
  /\ UNCHANGED <<queue, closing, history, lastCp, content, retries, told, shown, restarts>>

\* The shutdown's own transaction, in time or not: the task ends.
StopOk ==
  /\ pc = "commit" /\ txn.kind = "stop"
  /\ Write /\ Exit
  /\ shown' = mem.seq
  /\ UNCHANGED <<content, retries, told, restarts, faults>>

StopFails ==
  /\ pc = "commit" /\ txn.kind = "stop" /\ faults < MaxFaults
  /\ UNCHANGED diskVars /\ Exit
  /\ faults' = faults + 1
  /\ UNCHANGED <<content, retries, told, shown, restarts>>

\* The process dies; a transaction under way may have been committed.
Crash ==
  /\ Up /\ restarts < MaxRestarts
  /\ restarts' = restarts + 1
  /\ \/ UNCHANGED diskVars
     \/ pc = "commit" /\ ~Conflicts /\ Write
  /\ Exit
  /\ UNCHANGED <<content, retries, told, shown, faults>>

-----------------------------------------------------------------------------
(* ReplayService._recover_record and _recover_persisted_tail               *)

ReplayRecord(m, record) ==
  IF record.kind = "source" THEN Consumed(m, m.src + 1) ELSE Logged(m)

Replayed[i \in 0..Len(tail)] ==
  IF i = 0 THEN newest ELSE ReplayRecord(Replayed[i - 1], tail[i])

\* Every offset and hash recorded on the way must come out again.
Recoverable ==
  /\ \A i \in DOMAIN tail :
       Replayed[i].off = tail[i].off /\ Hash(Replayed[i]) = tail[i].hash
  /\ Hash(Replayed[Len(tail)]) = row.hash

\* load_recoverable_sessions, or _acquire_handle_lease for an ended session.
Recover ==
  /\ pc = "down" /\ ~row.degraded /\ Recoverable
  /\ pc' = "loop"
  /\ LET m == Replayed[Len(tail)]
     IN  mem' = [state |-> IF m.state = "ENDED" THEN "ENDED" ELSE "PAUSED", ctl |-> Nobody,
                 rev |-> row.rev, seq |-> row.seq, off |-> row.off, src |-> m.src, vt |-> m.vt,
                 speed |-> m.speed, pos |-> m.pos, orders |-> m.orders, notes |-> m.notes]
  /\ lastCp' = newest.src
  /\ UNCHANGED <<txn, queue, closing, history, degraded, shown, restarts, faults>>
  /\ UNCHANGED diskVars /\ UNCHANGED clientVars

\* ReplayService.start: mark_degraded
RecoveryFails ==
  /\ pc = "down" /\ ~row.degraded /\ ~Recoverable /\ row.state # "ENDED"
  /\ row' = [row EXCEPT !.degraded = TRUE, !.state = "PAUSED"]
  /\ UNCHANGED actorVars /\ UNCHANGED <<newest, tail, logged>> /\ UNCHANGED clientVars
  /\ UNCHANGED <<shown, restarts, faults>>

-----------------------------------------------------------------------------
\* A session before its first event, as the last accepted command left it;
\* revisions, sequence numbers and offsets count from there.
Init ==
  /\ mem \in {[Fresh EXCEPT !.ctl = Owner, !.state = state] : state \in {"PAUSED", "PLAYING"}}
  /\ pc = "loop" /\ txn = NoTxn
  /\ queue = <<>> /\ closing = FALSE /\ history = {} /\ degraded = FALSE /\ lastCp = 0
  /\ row = Row(mem) /\ newest = Checkpoint(mem) /\ tail = <<>>
  /\ logged = [id \in Ids |-> Unlogged]
  /\ content = [id \in Ids |-> NoCommand]
  /\ asks = [id \in Ids |-> 0]
  /\ told = [id \in Ids |-> {}]
  /\ shown = 0 /\ retries = 0 /\ restarts = 0 /\ faults = 0

\* The actor's task.
Run ==
  \/ Loop \/ AfterOne \/ Wake \/ Expire
  \/ HandleRead \/ StopEnded \/ HandleStop
  \/ \E id \in Ids : HandleRepeated(id) \/ HandleCommand(id)
  \/ CommitOk \/ CommitFails \/ StopOk \/ StopFails

Next ==
  \/ Run
  \/ \E id \in Ids : Submit(id) \/ AnswerFromLog(id)
  \/ Ask \/ RequestStop
  \/ Crash \/ Recover \/ RecoveryFails

Spec == Init /\ [][Next]_vars

\* The task is scheduled, and a transaction ends by its busy budget.
FairSpec == Spec /\ WF_vars(Run)

-----------------------------------------------------------------------------
(* Properties                                                              *)

TypeOK ==
  /\ pc \in {"loop", "after", "waiting", "commit", "down"}
  /\ mem \in Session /\ newest \in Session
  /\ txn.base \in Session /\ txn.checkpoint \in BOOLEAN
  /\ queue \in Seq({Read, Stop} \cup Ids)
  /\ history \subseteq Ids
  /\ {closing, degraded, row.degraded} \subseteq BOOLEAN
  /\ asks \in [Ids -> Nat]

\* No look-ahead: the virtual clock, which clients see, never passes an event
\* the session has not played, nor falls behind one it has.
NoLookAhead(m) ==
  /\ m.src > 0 => Time(m.src) <= m.vt
  /\ m.state # "ENDED" => m.src < Events /\ m.vt <= Time(m.src + 1)

\* What the actor holds when no transaction is open.
Settled == IF pc = "commit" THEN txn.base ELSE mem

\* The actor's memory is the durable session, except for the clock, which may
\* have moved on, and a pause that a restart or a failure imposes.
MemoryIsRow ==
  Up => LET m == Settled
        IN  /\ [rev |-> m.rev, seq |-> m.seq, off |-> m.off]
                 = [rev |-> row.rev, seq |-> row.seq, off |-> row.off]
            /\ m.vt >= row.hash.vt
            /\ Hash(At(m, row.hash.vt)) = row.hash
            /\ m.notes = newest.notes /\ m.speed = newest.speed
            /\ m.state = row.state \/ (m.state = "PAUSED" /\ row.state = "PLAYING")

SessionInv == TypeOK /\ NoLookAhead(mem) /\ NoLookAhead(newest) /\ MemoryIsRow

\* clock.py: "wall time affects scheduling, never hashing".  It holds as long as
\* no command is rejected after the clock has moved since the last mutation.
ClockUnmoved ==
  \A i \in DOMAIN tail :
    tail[i].kind = "rejected" =>
      tail[i].hash.vt = IF i = 1 THEN newest.vt ELSE tail[i - 1].hash.vt

\* A crash at any moment leaves a session that recovery accepts: replaying the
\* log over the newest checkpoint gives the recorded states.
RecoveryReproduces == ClockUnmoved => Recoverable

\* backend/README.md: "Restart recovery is `PAUSED` or `ENDED`": only a failed
\* transaction may leave a session that a restart gives up.
SessionSurvives == row.degraded => faults > 0

\* What a client was told of a command is what the command log says, whatever
\* was retried, failed or lost, so a command has one outcome; and subscribers
\* only saw what a restart still knows.
ToldIsDurable ==
  /\ \A id \in Ids : told[id] \subseteq {logged[id]} \ {Unlogged}
  /\ shown <= row.seq

\* Whoever waits for a command has a request in the mailbox or in the open
\* transaction, so a stop, a crash or a failure leaves nobody waiting for ever.
NobodyIsForgotten ==
  \A id \in Ids :
    asks[id] = Cardinality({i \in DOMAIN queue : queue[i] = id}) + IF txn.id = id THEN 1 ELSE 0

\* The comment of _process_one_due_source_after_request: reads and heartbeats
\* that keep the mailbox full do not starve MAX playback.
NotStarved ==
  LET Plays == Up /\ mem.state = "PLAYING" /\ mem.speed = "MAX"
  IN  Plays ~> ~Plays

===============================================================================
