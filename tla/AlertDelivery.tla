----------------------------- MODULE AlertDelivery -----------------------------
(***************************************************************************)
(* Delivery of triggered alerts (backend/app/alerts): AlertFacade records  *)
(* an event in the history file, dispatches its actions, records their     *)
(* outcomes and activates the webhook rows; AlertOutboxWorker drains those *)
(* rows from SQLite; browser actions reach connected windows through the   *)
(* notification broker, and windows post receipts back.                    *)
(*                                                                         *)
(* The history file and the outbox are durable but separate, and the       *)
(* process may die between any two writes.  Code between two awaits is one *)
(* action; a to_thread call suspends its caller until its write is done.   *)
(*                                                                         *)
(* A rule has one webhook action and one browser action, in either order.  *)
(* Left out: rule evaluation and limits (an eligible event triggers once), *)
(* timestamps (a due row is any row that waits), several outbox files.     *)
(***************************************************************************)
EXTENDS Integers, FiniteSets

CONSTANTS
  Events,        \* triggered events
  BrowserFirst,  \* events whose browser action precedes the webhook action
  MaxAttempts,   \* WebhookSettings.max_attempts
  Retain,        \* retain_delivered and retain_dead_letter
  Faulty,        \* events whose outbox writes and worker receipts may raise
  MaxRestarts    \* bound: how often the process dies or is stopped

ASSUME AlertDeliveryAssumption ==
  /\ {BrowserFirst, Faulty} \subseteq SUBSET Events
  /\ MaxAttempts \in Nat \ {0}
  /\ {Retain, MaxRestarts} \subseteq Nat

Action == {"browser", "webhook"}
Outcome == {"absent", "queued", "published", "unavailable", "shown",
            "retrying", "delivered", "error"}
NoOutcome == [a \in Action |-> "absent"]

RowStatus == {"none", "staged", "pending", "processing", "retrying",
              "delivered", "dead_letter", "pruned"}
Terminal == {"delivered", "dead_letter"}

VARIABLES
  history,   \* file: the recorded outcomes of each event
  recorded,  \* file: the events in the history
  row,       \* SQLite: the outbox row of each event
  up,        \* the process runs
  stopping,  \* _stop_requested
  emitter,   \* where emit_triggered is suspended, per event
  outcomes,  \* its outcomes so far
  soon,      \* publications scheduled with call_soon
  worker,    \* the worker task
  crashes,   \* how often the process died
  stops,     \* how often it was stopped
  received,  \* the webhook receiver: accepted POSTs per event
  shown,     \* events a browser window executed and will receipt
  unheard    \* events whose receipt found no dispatchId

disk == <<history, recorded, row>>
world == <<received, shown, unheard>>
vars == <<history, recorded, row, up, stopping, emitter, outcomes, soon,
          worker, crashes, stops, received, shown, unheard>>

\* The worker claims, sends, records the receipt, marks the row and prunes.
WorkerPC == {"down", "looking", "sending", "receipt", "marking", "pruning"}
Result == {"none", "accepted", "retryable", "rejected"}
IdleWorker(pc) == [pc |-> pc, event |-> "none", result |-> "none"]

Row(status, attempts) == [status |-> status, attempts |-> attempts]
WithStatus(S) == {e \in Events : row[e].status \in S}

-----------------------------------------------------------------------------
(* emit_triggered                                                          *)

\* BrowserOwnedAlertChannel.dispatch: without a window nothing is published.
DispatchBrowser(e, before) ==
  \/ /\ soon' = soon \cup {e}
     /\ outcomes' = [before EXCEPT ![e]["browser"] = "published"]
  \/ /\ soon' = soon
     /\ outcomes' = [before EXCEPT ![e]["browser"] = "unavailable"]

\* append_history_if_eligible, then the actions up to the await of stage.
Trigger(e) ==
  /\ up /\ e \notin recorded
  /\ recorded' = recorded \cup {e}
  /\ emitter' = [emitter EXCEPT ![e] = "staging"]
  /\ \/ e \in BrowserFirst /\ DispatchBrowser(e, outcomes)
     \/ e \notin BrowserFirst /\ UNCHANGED <<soon, outcomes>>
  /\ UNCHANGED <<history, row, up, stopping, worker, crashes, stops>> /\ UNCHANGED world

\* AlertOutboxStore.stage, in its thread.
Stage(e) ==
  /\ up /\ emitter[e] = "staging"
  /\ row' = [row EXCEPT ![e] = Row("staged", 0)]
  /\ outcomes' = [outcomes EXCEPT ![e]["webhook"] = "queued"]
  /\ emitter' = [emitter EXCEPT ![e] = "staged"]
  /\ UNCHANGED <<history, recorded, up, stopping, soon, worker, crashes, stops>>
  /\ UNCHANGED world

\* The dispatcher catches what a channel raises.
StageFails(e) ==
  /\ e \in Faulty
  /\ up /\ emitter[e] = "staging"
  /\ outcomes' = [outcomes EXCEPT ![e]["webhook"] = "error"]
  /\ emitter' = [emitter EXCEPT ![e] = "staged"]
  /\ UNCHANGED <<history, recorded, row, up, stopping, soon, worker, crashes, stops>>
  /\ UNCHANGED world

\* Mutant: only durable outcomes are recorded.
MutRecordedOutcomes(o) == [o EXCEPT !["browser"] = "absent"]

RecordedOutcomes(o) == o

\* The rest of the dispatch and update_history_dispatch, without an await.
RecordDispatch(e) ==
  /\ up /\ emitter[e] = "staged"
  /\ \/ e \notin BrowserFirst /\ DispatchBrowser(e, outcomes)
     \/ e \in BrowserFirst /\ UNCHANGED <<soon, outcomes>>
  /\ history' = [history EXCEPT ![e] = RecordedOutcomes(outcomes'[e])]
  /\ emitter' = [emitter EXCEPT ![e] = "activating"]
  /\ UNCHANGED <<recorded, row, up, stopping, worker, crashes, stops>> /\ UNCHANGED world

ActivateEvent(e) ==
  /\ up /\ emitter[e] = "activating"
  /\ row' = [row EXCEPT ![e].status = IF @ = "staged" THEN "pending" ELSE @]
  /\ emitter' = [emitter EXCEPT ![e] = "done"]
  /\ UNCHANGED <<history, recorded, up, stopping, outcomes, soon, worker, crashes, stops>>
  /\ UNCHANGED world

\* emit_triggered raises: the row stays staged until the next start.
ActivationFails(e) ==
  /\ e \in Faulty
  /\ up /\ emitter[e] = "activating"
  /\ emitter' = [emitter EXCEPT ![e] = "done"]
  /\ UNCHANGED <<up, stopping, outcomes, soon, worker, crashes, stops>>
  /\ UNCHANGED disk /\ UNCHANGED world

-----------------------------------------------------------------------------
(* Browser windows.                                                        *)

\* The loop runs broker.publish; a full client queue drops its oldest entry.
Publish(e) ==
  /\ up /\ e \in soon
  /\ soon' = soon \ {e}
  /\ shown' \in {shown, shown \cup {e}}
  /\ UNCHANGED <<up, stopping, emitter, outcomes, worker, crashes, stops, received, unheard>>
  /\ UNCHANGED disk

\* record_dispatch_receipt for a window.
BrowserReceipt(e) ==
  /\ up /\ e \in shown
  /\ shown' = shown \ {e}
  /\ \/ /\ history[e]["browser"] # "absent"
        /\ history' = [history EXCEPT ![e]["browser"] = "shown"]
        /\ UNCHANGED unheard
     \/ /\ history[e]["browser"] = "absent"
        /\ unheard' = unheard \cup {e}
        /\ UNCHANGED history
  /\ UNCHANGED <<recorded, row, up, stopping, emitter, outcomes, soon, worker, crashes, stops, received>>

-----------------------------------------------------------------------------
(* AlertOutboxWorker                                                       *)

\* Mutant: a row left in "processing" is claimed again.
MutClaimable == {"pending", "retrying", "processing"}

Claimable == {"pending", "retrying"}

WorkerOnly == UNCHANGED <<recorded, up, stopping, emitter, outcomes, soon, crashes, stops, shown, unheard>>

Claim(e) ==
  /\ worker.pc = "looking" /\ ~stopping
  /\ row[e].status \in Claimable
  /\ row' = [row EXCEPT ![e] = Row("processing", @.attempts + 1)]
  /\ worker' = [pc |-> "sending", event |-> e, result |-> "none"]
  /\ WorkerOnly /\ UNCHANGED <<history, received>>

\* WebhookSender.send: a POST may be accepted and its answer lost.
Send ==
  /\ worker.pc = "sending"
  /\ \E result \in Result \ {"none"}, accepted \in BOOLEAN :
       /\ result = "accepted" => accepted
       /\ result = "rejected" => ~accepted
       /\ received' = [received EXCEPT ![worker.event] = @ + (IF accepted THEN 1 ELSE 0)]
       /\ worker' = [worker EXCEPT !.pc = "receipt", !.result = result]
  /\ WorkerOnly /\ UNCHANGED <<history, row>>

\* Mutant: one attempt too many.
MutVerdict(result, attempts) ==
  IF result = "accepted" THEN "delivered"
  ELSE IF result = "retryable" /\ attempts <= MaxAttempts THEN "retrying"
  ELSE "dead_letter"

\* What _deliver makes of a result.
Verdict(result, attempts) ==
  IF result = "accepted" THEN "delivered"
  ELSE IF result = "retryable" /\ attempts < MaxAttempts THEN "retrying"
  ELSE "dead_letter"

Decision == Verdict(worker.result, row[worker.event].attempts)

\* What the history says of a decision.
Told(status) == IF status = "dead_letter" THEN "error" ELSE status

\* _record_receipt; a receipt whose dispatchId is not in the history is dropped.
RecordReceipt ==
  /\ worker.pc = "receipt"
  /\ history' = [history EXCEPT ![worker.event]["webhook"] =
                    IF @ = "absent" THEN @ ELSE Told(Decision)]
  /\ worker' = [worker EXCEPT !.pc = "marking"]
  /\ WorkerOnly /\ UNCHANGED <<row, received>>

\* mark_delivered, mark_retry, mark_dead_letter
MarkRow ==
  /\ worker.pc = "marking"
  /\ row' = [row EXCEPT ![worker.event].status = Decision]
  /\ worker' = IF Decision = "retrying" THEN IdleWorker("looking")
               ELSE [worker EXCEPT !.pc = "pruning"]
  /\ WorkerOnly /\ UNCHANGED <<history, received>>

\* prune_terminal keeps the Retain newest rows of each terminal status.
Prune ==
  /\ worker.pc = "pruning"
  /\ \E old \in SUBSET WithStatus(Terminal) :
       /\ \A s \in Terminal :
            LET all == WithStatus({s})
            IN  Cardinality(all \ old) = IF Cardinality(all) <= Retain
                                         THEN Cardinality(all) ELSE Retain
       /\ row' = [e \in Events |-> IF e \in old THEN [row[e] EXCEPT !.status = "pruned"]
                                   ELSE row[e]]
  /\ worker' = IdleWorker("looking")
  /\ WorkerOnly /\ UNCHANGED <<history, received>>

\* Mutant: a receipt that could not be written does not stop the marking.
MutAfterFailure ==
  IF worker.pc = "receipt" THEN [worker EXCEPT !.pc = "marking"] ELSE IdleWorker("looking")

AfterFailure == IdleWorker("looking")

\* The receipt, a mark or the pruning raises: _run logs it and goes on with other rows.
WorkerFails ==
  /\ worker.event \in Faulty
  /\ worker.pc \in {"receipt", "marking", "pruning"}
  /\ worker' = AfterFailure
  /\ WorkerOnly /\ UNCHANGED <<history, row, received>>

-----------------------------------------------------------------------------
(* The process.                                                            *)

\* Mutants: rows still staged are not recovered; a dead letter is.
MutInterruptedClaims == {"processing"}
MutInterruptedAll == {"staged", "processing", "dead_letter"}

Interrupted == {"staged", "processing"}

\* AlertFacade.start, awaited before anything is served: recover_incomplete.
Start ==
  /\ ~up
  /\ up' = TRUE
  /\ row' = [e \in Events |-> IF row[e].status \in Interrupted
                              THEN [row[e] EXCEPT !.status = "pending"] ELSE row[e]]
  /\ worker' = IdleWorker("looking")
  /\ stopping' = FALSE
  /\ UNCHANGED <<history, recorded, emitter, outcomes, soon, crashes, stops>> /\ UNCHANGED world

\* AlertFacade.stop lets the delivery in flight finish.
Stop ==
  /\ up /\ ~stopping /\ crashes + stops < MaxRestarts
  /\ stopping' = TRUE
  /\ stops' = stops + 1
  /\ UNCHANGED <<up, emitter, outcomes, soon, worker, crashes>>
  /\ UNCHANGED disk /\ UNCHANGED world

\* What the process remembers is gone.
Exit ==
  /\ up' = FALSE
  /\ stopping' = FALSE
  /\ worker' = IdleWorker("down")
  /\ emitter' = [e \in Events |-> IF emitter[e] = "idle" THEN "idle" ELSE "done"]
  /\ outcomes' = [e \in Events |-> NoOutcome]
  /\ soon' = {}

\* Emissions in progress finish before the process exits.
ExitAfterStop ==
  /\ up /\ stopping /\ worker.pc = "looking"
  /\ \A e \in Events : emitter[e] \in {"idle", "done"}
  /\ Exit
  /\ UNCHANGED <<crashes, stops>> /\ UNCHANGED disk /\ UNCHANGED world

Crash ==
  /\ up /\ crashes + stops < MaxRestarts
  /\ crashes' = crashes + 1
  /\ Exit
  /\ UNCHANGED stops /\ UNCHANGED disk /\ UNCHANGED world

-----------------------------------------------------------------------------
Init ==
  /\ history = [e \in Events |-> NoOutcome]
  /\ recorded = {}
  /\ row = [e \in Events |-> Row("none", 0)]
  /\ up = FALSE /\ stopping = FALSE
  /\ emitter = [e \in Events |-> "idle"]
  /\ outcomes = [e \in Events |-> NoOutcome]
  /\ soon = {}
  /\ worker = IdleWorker("down")
  /\ crashes = 0 /\ stops = 0
  /\ received = [e \in Events |-> 0]
  /\ shown = {} /\ unheard = {}

Emit(e) ==
  \/ Stage(e) \/ StageFails(e)
  \/ RecordDispatch(e)
  \/ ActivateEvent(e) \/ ActivationFails(e)

Work ==
  \/ \E e \in Events : Claim(e)
  \/ Send \/ RecordReceipt \/ MarkRow \/ Prune
  \/ WorkerFails

Next ==
  \/ \E e \in Events : Trigger(e)
  \/ \E e \in Events : Emit(e)
  \/ \E e \in Events : Publish(e)
  \/ \E e \in Events : BrowserReceipt(e)
  \/ Work
  \/ Start
  \/ Stop
  \/ ExitAfterStop
  \/ Crash

Spec == Init /\ [][Next]_vars

\* Tasks that are ready run; a send ends by its timeout; a process that went
\* down is started again.
FairSpec ==
  /\ Spec
  /\ WF_vars(Work) /\ WF_vars(Start) /\ WF_vars(ExitAfterStop)
  /\ \A e \in Events : WF_vars(Emit(e))

-----------------------------------------------------------------------------
(* Properties                                                              *)

TypeOK ==
  /\ history \in [Events -> [Action -> Outcome]]
  /\ recorded \subseteq Events
  /\ row \in [Events -> [status : RowStatus, attempts : Nat]]
  /\ {up, stopping} \subseteq BOOLEAN
  /\ emitter \in [Events -> {"idle", "staging", "staged", "activating", "done"}]
  /\ outcomes \in [Events -> [Action -> Outcome]]
  /\ soon \subseteq Events /\ shown \subseteq Events /\ unheard \subseteq Events
  /\ worker \in [pc : WorkerPC, event : Events \cup {"none"}, result : Result]
  /\ crashes \in 0..MaxRestarts /\ stops \in 0..MaxRestarts
  /\ received \in [Events -> Nat]

\* The bounded retry policy survives restarts: a crash in mid-delivery, or a
\* stop after a failed write, costs at most one claim more, and every POST
\* belongs to a claim of its own.
AttemptsBounded ==
  \A e \in Events :
    /\ received[e] <= row[e].attempts
    /\ row[e].attempts <= MaxAttempts + crashes + stops

\* A row, or a history entry, that says delivered means the receiver has it.
DeliveredWasReceived ==
  \A e \in Events :
    row[e].status = "delivered" \/ history[e]["webhook"] = "delivered" => received[e] > 0

\* A row that was decided stays decided, whatever restarts recover_incomplete
\* goes through, and nothing is posted for it again.
DecidedIsFinal ==
  [][\A e \in WithStatus(Terminal \cup {"pruned"}) :
       /\ row'[e].status \in {row[e].status, "pruned"}
       /\ received'[e] = received[e]]_vars

\* A row staged before a crash, a stop or a retry is decided in the end, even
\* if writes about other events keep failing.
StagedIsDecided ==
  \A e \in Events \ Faulty :
    row[e].status # "none" ~> row[e].status \in Terminal \cup {"pruned"}

\* test_terminal_outbox_state_waits_for_history_receipt: a row is only made
\* terminal once the history entry of its event says the same.  (A crash
\* between stage and update_history_dispatch ends that.)
TerminalHasReceipt == crashes = 0 =>
  \A e \in Events :
    /\ row[e].status = "delivered" => history[e]["webhook"] = "delivered"
    /\ row[e].status = "dead_letter" => history[e]["webhook"] = "error"

\* The comment in BrowserOwnedAlertChannel.dispatch: publication is deferred
\* "until AlertFacade has persisted this dispatchId", because "a client can
\* otherwise race its delivery receipt against history".  call_soon defers it
\* to the next turn of the loop only, so this does not hold of an event whose
\* browser action comes first: its publication can run while stage is awaited.
ReceiptIsHeard == unheard \subseteq BrowserFirst

-----------------------------------------------------------------------------
(* Why the safety properties hold: the inductive invariant.                *)

\* Nothing is staged or posted before its event is dispatched, and the row of
\* a dispatch in progress is still its own.
EmissionInv ==
  \A e \in Events :
    /\ e \notin recorded => emitter[e] = "idle"
    /\ emitter[e] \in {"idle", "staging"} => row[e] = Row("none", 0) /\ received[e] = 0
    /\ emitter[e] = "staged" =>
         row[e].status \in {"none", "staged"} /\ outcomes[e]["webhook"] # "absent"
    /\ row[e].status = "staged" => row[e].attempts = 0
    /\ ~up => emitter[e] \in {"idle", "done"}
    /\ outcomes[e]["webhook"] \in {"absent", "queued", "error"}

\* A claim belongs to the worker until it is marked, and is posted once.
ClaimInv ==
  /\ worker.pc # "down" => up
  /\ worker.pc \in {"sending", "receipt", "marking"} =>
       /\ worker.event \in Events
       /\ row[worker.event].status = "processing"
  /\ worker.pc = "sending" => received[worker.event] < row[worker.event].attempts
  /\ worker.pc \in {"receipt", "marking"} /\ worker.result = "accepted" =>
       received[worker.event] > 0

\* Every restart pays for the one claim it may repeat.
Limit == MaxAttempts + crashes + stops

AttemptInv ==
  \A e \in Events :
    /\ received[e] <= row[e].attempts
    /\ row[e].attempts <= Limit
    /\ ~up \/ stopping \/ row[e].status \in {"pending", "retrying"} => row[e].attempts < Limit

\* Without a crash the history knows a row before the worker can claim it.
ReceiptInv ==
  crashes = 0 =>
    /\ \A e \in Events :
         row[e].status # "none" /\ emitter[e] # "staged" => history[e]["webhook"] # "absent"
    /\ worker.pc = "marking" => history[worker.event]["webhook"] = Told(Decision)
    /\ TerminalHasReceipt

\* An event whose browser action comes last is published after its history entry.
HeardInv ==
  /\ \A e \in (soon \cup shown) \ BrowserFirst : history[e]["browser"] # "absent"
  /\ ReceiptIsHeard

\* Each part is inductive only together with the others; AttemptsBounded,
\* DeliveredWasReceived and TerminalHasReceipt follow.
DeliveryInv ==
  TypeOK /\ EmissionInv /\ ClaimInv /\ AttemptInv /\ DeliveredWasReceived /\ ReceiptInv

===============================================================================
