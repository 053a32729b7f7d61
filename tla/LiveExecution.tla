---------------------------- MODULE LiveExecution ----------------------------
(* The isolated live transaction broker (plugin_live_v2): one process that *)
(* serves one request at a time over three durable stores, the shadow      *)
(* journal (what was intended and what a query observed), the control      *)
(* ledger (arming, kill, confirmation receipts) and the execution ledger   *)
(* (what was dispatched), beside the state file that holds the policy      *)
(* epoch and the account binding.  A request is several durable writes     *)
(* around one network call: the process may die between any two of them,   *)
(* and the venue moves on while it does.                                   *)
EXTENDS Integers, FiniteSets, FiniteSetsExt

CONSTANTS
  Orders,            \* shadow orders, named by their idempotency keys
  NoOrder,           \* the subject of no request
  Notional,          \* [Orders -> Nat \ {0}]: quantity times limit price
  MaxOrderNotional, MaxNotional, MaxUnresolved,  \* the demo risk envelope
  MaxCancels,        \* MAX_CANCEL_ATTEMPTS
  MaxReconciles,     \* MAX_RECONCILE_ATTEMPTS
  MaxEpoch,          \* bound: policy advances
  MaxModeChanges,    \* bound: control generations reached by set_mode
  MaxReceipts,       \* bound: receipts issued for one order
  MaxCrashes         \* bound: process deaths

ASSUME NoOrderAssumption == NoOrder \notin Orders
ASSUME BoundsAssumption ==
  /\ Notional \in [Orders -> Nat]
  /\ {MaxOrderNotional, MaxNotional, MaxUnresolved, MaxCancels, MaxReconciles} \subseteq Nat
  /\ {MaxEpoch, MaxModeChanges, MaxReceipts, MaxCrashes} \subseteq Nat

VARIABLES
  journal,      \* [Orders -> shadow_order.state, "absent" before prepare]
  queries,      \* [Orders -> reconcile_attempt_count]
  madeIn,       \* [Orders -> created_policy_epoch]
  exec,         \* [Orders -> execution_order.state, "absent" before dispatch]
  prior,        \* [Orders -> prior_state of a cancel, "none" for NULL]
  cancels,      \* [Orders -> cancel_attempt_count]
  policyEpoch,  \* state file: the policy epoch
  bound,        \* state file: the account and its credential are active
  control,      \* control_meta: mode, generation, epoch
  receipts,     \* issued confirmation receipts
  request,      \* the request being served: its next step, order, observation
  up,           \* the broker process is running
  venue,        \* [Orders -> what the venue has of the order]
  wire,         \* submits transmitted and not yet settled by the venue
  sent,         \* history: [Orders -> mutations transmitted]
  issued,       \* history: [Orders -> receipts issued]
  crashes       \* bound counter

durable == <<journal, queries, madeIn, exec, prior, cancels, policyEpoch, bound, control, receipts>>
market == <<venue, wire>>
vars == <<journal, queries, madeIn, exec, prior, cancels, policyEpoch, bound, control, receipts,
          request, up, venue, wire, sent, issued, crashes>>

CancelSource == {"live", "partially_filled"}
Ended == {"filled", "canceled"}              \* canceled stands for mmp_canceled too
Observable == CancelSource \cup Ended        \* ORDER_QUERY_STATES
Terminal == Ended \cup {"rejected"}
Queryable == {"prepared", "unknown"} \cup CancelSource
ExecStates == Observable \cup {"absent", "submitting", "unknown", "rejected", "canceling", "cancel_unknown"}
JournalStates == Observable \cup {"absent", "prepared", "querying", "unknown"}
VenueStates == Observable \cup {"none", "refused"}
RequestSteps == {"idle", "kill", "submit", "submitting", "submitted", "cancel", "canceling", "cancelled",
                 "querying", "answered", "journaled", "unanswered"}

Idle == [step |-> "idle", order |-> NoOrder, seen |-> "none"]
Step(s, o) == [step |-> s, order |-> o, seen |-> "none"]

Init ==
  /\ journal = [o \in Orders |-> "absent"]
  /\ queries = [o \in Orders |-> 0]
  /\ madeIn = [o \in Orders |-> 0]
  /\ exec = [o \in Orders |-> "absent"]
  /\ prior = [o \in Orders |-> "none"]
  /\ cancels = [o \in Orders |-> 0]
  /\ policyEpoch = 0
  /\ bound = FALSE
  /\ control = [mode |-> "disarmed", generation |-> 0, epoch |-> 0]
  /\ receipts = {}
  /\ request = Idle
  /\ up = TRUE
  /\ venue = [o \in Orders |-> "none"]
  /\ wire = {}
  /\ sent = [o \in Orders |-> 0]
  /\ issued = [o \in Orders |-> 0]
  /\ crashes = 0

-----------------------------------------------------------------------------
(* The risk envelope.                                                      *)

Unresolved == {o \in Orders : exec[o] \notin Terminal \cup {"absent"}}
Total(S) == MapThenSumSet(LAMBDA o : Notional[o], S)

\* The fixed envelope: one order, the count and the sum of the unresolved ones.
Fits(S, o) == /\ Notional[o] <= MaxOrderNotional
              /\ Cardinality(S) < MaxUnresolved
              /\ Total(S) + Notional[o] <= MaxNotional

Serving == up /\ request = Idle

-----------------------------------------------------------------------------
(* State file and control ledger.                                          *)

\* A credential is put and its account discovered in the current epoch.
Bind == /\ Serving
        /\ ~bound
        /\ bound' = TRUE
        /\ UNCHANGED <<journal, queries, madeIn, exec, prior, cancels, policyEpoch, control, receipts,
                       request, up, market, sent, issued, crashes>>

\* The state file moves to the next epoch and drops every credential and
\* account.  A plain policy advance ends here; kill and revoke go on to the
\* control ledger, a second durable write.
AdvanceState(next) ==
  /\ Serving
  /\ policyEpoch < MaxEpoch
  /\ policyEpoch' = policyEpoch + 1
  /\ bound' = FALSE
  /\ request' = next
  /\ UNCHANGED <<journal, queries, madeIn, exec, prior, cancels, control, receipts,
                 up, market, sent, issued, crashes>>

AdvancePolicy == AdvanceState(Idle)
Kill == AdvanceState(Step("kill", NoOrder))

Killed == [mode |-> "killed", generation |-> control.generation + 1, epoch |-> policyEpoch]

ForceKilled ==
  /\ up /\ request.step = "kill"
  /\ control' = Killed
  /\ receipts' = {}
  /\ request' = Idle
  /\ UNCHANGED <<journal, queries, madeIn, exec, prior, cancels, policyEpoch, bound,
                 up, market, sent, issued, crashes>>

\* Arm (a killed control with an acknowledgement) or disarm.
SetMode(mode) ==
  /\ Serving
  /\ control.epoch = policyEpoch
  /\ control.mode # mode
  /\ control.generation < MaxModeChanges
  /\ control' = [control EXCEPT !.mode = mode, !.generation = @ + 1]
  /\ receipts' = IF mode = "disarmed" THEN {} ELSE receipts
  /\ UNCHANGED <<journal, queries, madeIn, exec, prior, cancels, policyEpoch, bound,
                 request, up, market, sent, issued, crashes>>

-----------------------------------------------------------------------------
(* Preparing and confirming.                                               *)

Prepare(o) ==
  /\ Serving /\ bound
  /\ journal[o] = "absent"
  /\ journal' = [journal EXCEPT ![o] = "prepared"]
  /\ madeIn' = [madeIn EXCEPT ![o] = policyEpoch]
  /\ UNCHANGED <<queries, exec, prior, cancels, policyEpoch, bound, control, receipts,
                 request, up, market, sent, issued, crashes>>

\* The execution row the review works with: a row that differs from what the
\* journal last observed is brought to the observation first.
Healed(o) == IF exec[o] # "absent" /\ journal[o] \in Observable THEN journal[o] ELSE exec[o]

MutReviewable(o) == control.mode = "armed" /\ bound /\ journal[o] # "absent"

\* What _confirmation_metadata asks of control, account and shadow.
Reviewable(o) ==
  /\ control.mode = "armed"
  /\ bound
  /\ journal[o] # "absent"
  /\ madeIn[o] = policyEpoch

\* A terminal row that the observation contradicts kills the broker.
Contradicted(o) == /\ exec[o] \in Terminal
                   /\ journal[o] \in Observable
                   /\ journal[o] # exec[o]

MutSubmitAvailable(o) == exec[o] = "absent" /\ journal[o] = "prepared" /\ queries[o] = 0

SubmitAvailable(o) == /\ exec[o] = "absent"
                      /\ journal[o] = "prepared"
                      /\ queries[o] = 0
                      /\ Fits(Unresolved, o)

CancelAvailable(o) == /\ exec[o] # "absent"
                      /\ Healed(o) \in CancelSource
                      /\ journal[o] = Healed(o)

\* What the confirmation digest binds.
Digest(o, action) ==
  [order |-> o, action |-> action, state |-> Healed(o),
   risk |-> IF action = "submit" THEN <<Cardinality(Unresolved), Total(Unresolved)>> ELSE <<>>,
   epoch |-> policyEpoch, generation |-> control.generation]

Available(o, action) == \/ action = "submit" /\ SubmitAvailable(o)
                        \/ action = "cancel" /\ CancelAvailable(o)

Heal(o) == /\ ~Contradicted(o)
           /\ exec' = [exec EXCEPT ![o] = Healed(o)]
           /\ prior' = [prior EXCEPT ![o] = IF Healed(o) = exec[o] THEN @ ELSE "none"]

\* A preview; it writes only when it heals.
Preview(o) ==
  /\ Serving
  /\ Reviewable(o)
  /\ Heal(o)
  /\ UNCHANGED <<journal, queries, madeIn, cancels, policyEpoch, bound, control, receipts,
                 request, up, market, sent, issued, crashes>>

\* One receipt at a time for an order, while control is of the current epoch.
Issue(o, action) ==
  /\ Serving
  /\ Reviewable(o)
  /\ Available(o, action)
  /\ control.epoch = policyEpoch
  /\ \A r \in receipts : r.order # o
  /\ issued[o] < MaxReceipts
  /\ Heal(o)
  /\ receipts' = receipts \cup {Digest(o, action)}
  /\ issued' = [issued EXCEPT ![o] = @ + 1]
  /\ UNCHANGED <<journal, queries, madeIn, cancels, policyEpoch, bound, control,
                 request, up, market, sent, crashes>>

\* Revoked by a request, or expired.
DropReceipt(r) ==
  /\ Serving
  /\ r \in receipts
  /\ receipts' = receipts \ {r}
  /\ UNCHANGED <<journal, queries, madeIn, exec, prior, cancels, policyEpoch, bound, control,
                 request, up, market, sent, issued, crashes>>

\* The receipts a dispatch may consume.
Redeemable(o, action) == {r \in receipts : r = Digest(o, action) /\ control.epoch = policyEpoch}
MutRedeem(o, action) == receipts
Redeem(o, action) == receipts \ {Digest(o, action)}

\* The first durable write of a dispatch consumes its receipt.
Confirm(o, action, next) ==
  /\ Serving
  /\ Reviewable(o)
  /\ Available(o, action)
  /\ Redeemable(o, action) # {}
  /\ Heal(o)
  /\ receipts' = Redeem(o, action)
  /\ request' = Step(next, o)
  /\ UNCHANGED <<journal, queries, madeIn, cancels, policyEpoch, bound, control,
                 up, market, sent, issued, crashes>>

ConfirmSubmit(o) == Confirm(o, "submit", "submit")
ConfirmCancel(o) == Confirm(o, "cancel", "cancel")

-----------------------------------------------------------------------------
(* Dispatch.  The ledger is written before the network call, and again     *)
(* with what the call told.                                                *)

At(step, o) == up /\ request.step = step /\ request.order = o

BeginSubmit(o) ==
  /\ At("submit", o)
  /\ exec[o] = "absent"
  /\ exec' = [exec EXCEPT ![o] = "submitting"]
  /\ request' = Step("submitting", o)
  /\ UNCHANGED <<journal, queries, madeIn, prior, cancels, policyEpoch, bound, control, receipts,
                 up, market, sent, issued, crashes>>

TransmitSubmit(o) ==
  /\ At("submitting", o)
  /\ wire' = wire \cup {o}
  /\ sent' = [sent EXCEPT ![o] = @ + 1]
  /\ request' = Step("submitted", o)
  /\ UNCHANGED <<durable, up, venue, issued, crashes>>

\* The acknowledgement names a venue order; it says nothing of its state.
CompleteSubmit(o) ==
  /\ At("submitted", o)
  /\ exec[o] = "submitting"
  /\ \/ venue[o] \in Observable /\ exec' = [exec EXCEPT ![o] = "unknown"]
     \/ venue[o] = "refused" /\ exec' = [exec EXCEPT ![o] = "rejected"]
  /\ request' = Idle
  /\ UNCHANGED <<journal, queries, madeIn, prior, cancels, policyEpoch, bound, control, receipts,
                 up, market, sent, issued, crashes>>

\* The secret could not be opened, the transport failed or timed out, or the
\* venue gave an answer that proves nothing (50004).
FailSubmit(o) ==
  /\ At("submitting", o) \/ At("submitted", o)
  /\ exec' = [exec EXCEPT ![o] = IF @ = "submitting" THEN "unknown" ELSE @]
  /\ request' = Idle
  /\ UNCHANGED <<journal, queries, madeIn, prior, cancels, policyEpoch, bound, control, receipts,
                 up, market, sent, issued, crashes>>

Cancellable(o) == exec[o] \in CancelSource /\ cancels[o] < MaxCancels

\* A receipt spent on an order whose cancel attempts are used up dispatches nothing.
BeginCancel(o) ==
  /\ At("cancel", o)
  /\ IF Cancellable(o)
       THEN /\ exec' = [exec EXCEPT ![o] = "canceling"]
            /\ prior' = [prior EXCEPT ![o] = exec[o]]
            /\ cancels' = [cancels EXCEPT ![o] = @ + 1]
            /\ request' = Step("canceling", o)
       ELSE request' = Idle /\ UNCHANGED <<exec, prior, cancels>>
  /\ UNCHANGED <<journal, queries, madeIn, policyEpoch, bound, control, receipts,
                 up, market, sent, issued, crashes>>

TransmitCancel(o) ==
  /\ At("canceling", o)
  /\ sent' = [sent EXCEPT ![o] = @ + 1]
  /\ request' = Step("cancelled", o)
  /\ UNCHANGED <<durable, up, market, issued, crashes>>

\* Accepted for processing, or refused because the order is over; a refusal
\* restores the state the cancel started from.
CompleteCancel(o) ==
  /\ At("cancelled", o)
  /\ exec[o] = "canceling"
  /\ \/ exec' = [exec EXCEPT ![o] = "cancel_unknown"] /\ UNCHANGED prior
     \/ /\ exec' = [exec EXCEPT ![o] = prior[o]]
        /\ prior' = [prior EXCEPT ![o] = "none"]
  /\ request' = Idle
  /\ UNCHANGED <<journal, queries, madeIn, cancels, policyEpoch, bound, control, receipts,
                 up, market, sent, issued, crashes>>

FailCancel(o) ==
  /\ At("canceling", o) \/ At("cancelled", o)
  /\ exec' = [exec EXCEPT ![o] = IF @ = "canceling" THEN "cancel_unknown" ELSE @]
  /\ request' = Idle
  /\ UNCHANGED <<journal, queries, madeIn, prior, cancels, policyEpoch, bound, control, receipts,
                 up, market, sent, issued, crashes>>

-----------------------------------------------------------------------------
(* Reconciliation: the journal is written, then the execution ledger.      *)

BeginReconcile(o) ==
  /\ Serving /\ bound
  /\ journal[o] \in Queryable
  /\ queries[o] < MaxReconciles
  /\ journal' = [journal EXCEPT ![o] = "querying"]
  /\ queries' = [queries EXCEPT ![o] = @ + 1]
  /\ request' = Step("querying", o)
  /\ UNCHANGED <<madeIn, exec, prior, cancels, policyEpoch, bound, control, receipts,
                 up, market, sent, issued, crashes>>

\* The venue is asked; an order it does not have is an error, not an answer.
QueryVenue(o) ==
  /\ At("querying", o)
  /\ venue[o] \in Observable
  /\ request' = [Step("answered", o) EXCEPT !.seen = venue[o]]
  /\ UNCHANGED <<durable, up, market, sent, issued, crashes>>

CompleteReconcile(o) ==
  /\ At("answered", o)
  /\ journal[o] = "querying"
  /\ journal' = [journal EXCEPT ![o] = request.seen]
  /\ request' = IF exec[o] = "absent" THEN Idle ELSE [request EXCEPT !.step = "journaled"]
  /\ UNCHANGED <<queries, madeIn, exec, prior, cancels, policyEpoch, bound, control, receipts,
                 up, market, sent, issued, crashes>>

ObserveQuery(o) ==
  /\ At("journaled", o)
  /\ IF exec[o] \in Terminal
       THEN UNCHANGED <<exec, prior>>
       ELSE /\ exec' = [exec EXCEPT ![o] = request.seen]
            /\ prior' = [prior EXCEPT ![o] = "none"]
  /\ request' = Idle
  /\ UNCHANGED <<journal, queries, madeIn, cancels, policyEpoch, bound, control, receipts,
                 up, market, sent, issued, crashes>>

FailReconcile(o) ==
  /\ At("querying", o)
  /\ journal' = [journal EXCEPT ![o] = IF @ = "querying" THEN "unknown" ELSE @]
  /\ request' = IF exec[o] = "absent" THEN Idle ELSE Step("unanswered", o)
  /\ UNCHANGED <<queries, madeIn, exec, prior, cancels, policyEpoch, bound, control, receipts,
                 up, market, sent, issued, crashes>>

MutUnanswered(o) == CASE exec[o] \in Terminal -> exec[o]
                      [] exec[o] \in {"canceling", "cancel_unknown"} -> "cancel_unknown"
                      [] OTHER -> "rejected"

\* What the execution row becomes when the venue could not be asked.
Unanswered(o) == CASE exec[o] \in Terminal -> exec[o]
                   [] exec[o] \in {"canceling", "cancel_unknown"} -> "cancel_unknown"
                   [] OTHER -> "unknown"

FailQuery(o) ==
  /\ At("unanswered", o)
  /\ exec' = [exec EXCEPT ![o] = Unanswered(o)]
  /\ prior' = [prior EXCEPT ![o] = IF Unanswered(o) = "unknown" THEN "none" ELSE @]
  /\ request' = Idle
  /\ UNCHANGED <<journal, queries, madeIn, cancels, policyEpoch, bound, control, receipts,
                 up, market, sent, issued, crashes>>

-----------------------------------------------------------------------------
(* The process dies and starts again.                                      *)

\* Killed, out of memory, or a fatal error that ends the request loop.
Crash ==
  /\ up
  /\ crashes < MaxCrashes
  /\ crashes' = crashes + 1
  /\ up' = FALSE
  /\ request' = Idle
  /\ UNCHANGED <<durable, market, sent, issued>>

MutRecoveredExec == [o \in Orders |-> CASE exec[o] = "submitting" -> "absent"
                                        [] exec[o] = "canceling" -> "cancel_unknown"
                                        [] OTHER -> exec[o]]
MutRecoveredCancel == [o \in Orders |-> CASE exec[o] = "submitting" -> "unknown"
                                          [] exec[o] = "canceling" -> "canceled"
                                          [] OTHER -> exec[o]]
MutRecoveredJournal == journal

\* Interrupted rows are resolved to what is safe to say of them.
RecoveredExec == [o \in Orders |-> CASE exec[o] = "submitting" -> "unknown"
                                     [] exec[o] = "canceling" -> "cancel_unknown"
                                     [] OTHER -> exec[o]]
RecoveredJournal == [o \in Orders |-> IF journal[o] = "querying" THEN "unknown" ELSE journal[o]]

\* Each store is opened and recovered; a control ledger behind the state file
\* is killed first.
Restart ==
  /\ ~up
  /\ up' = TRUE
  /\ journal' = RecoveredJournal
  /\ exec' = RecoveredExec
  /\ IF control.epoch # policyEpoch
       THEN control' = Killed /\ receipts' = {}
       ELSE UNCHANGED <<control, receipts>>
  /\ UNCHANGED <<queries, madeIn, prior, cancels, policyEpoch, bound, request,
                 market, sent, issued, crashes>>

-----------------------------------------------------------------------------
(* The venue.                                                              *)

\* A submit arrives, is refused, or is lost on the way.
VenueSettles(o) ==
  /\ o \in wire
  /\ wire' = wire \ {o}
  /\ \E v \in {"live", "refused", venue[o]} : venue' = [venue EXCEPT ![o] = v]
  /\ UNCHANGED <<durable, request, up, sent, issued, crashes>>

\* An order fills or is canceled, by a cancel that was accepted or by the venue.
VenueMoves(o) ==
  /\ \E move \in {<<"live", "partially_filled">>, <<"live", "filled">>, <<"live", "canceled">>,
                  <<"partially_filled", "filled">>, <<"partially_filled", "canceled">>} :
       venue[o] = move[1] /\ venue' = [venue EXCEPT ![o] = move[2]]
  /\ UNCHANGED <<durable, request, up, wire, sent, issued, crashes>>

ControlNext == \/ Bind \/ AdvancePolicy \/ Kill \/ ForceKilled
               \/ \E mode \in {"armed", "disarmed"} : SetMode(mode)
               \/ \E r \in receipts : DropReceipt(r)

OrderNext(o) ==
  \/ Prepare(o) \/ Preview(o) \/ \E action \in {"submit", "cancel"} : Issue(o, action)
  \/ ConfirmSubmit(o) \/ BeginSubmit(o) \/ TransmitSubmit(o) \/ CompleteSubmit(o) \/ FailSubmit(o)
  \/ ConfirmCancel(o) \/ BeginCancel(o) \/ TransmitCancel(o) \/ CompleteCancel(o) \/ FailCancel(o)
  \/ BeginReconcile(o) \/ QueryVenue(o) \/ CompleteReconcile(o) \/ ObserveQuery(o)
  \/ FailReconcile(o) \/ FailQuery(o)
  \/ VenueSettles(o) \/ VenueMoves(o)

Next == ControlNext \/ Crash \/ Restart \/ \E o \in Orders : OrderNext(o)

Spec == Init /\ [][Next]_vars

-----------------------------------------------------------------------------
(* Properties.                                                             *)

TypeOK ==
  /\ journal \in [Orders -> JournalStates]
  /\ queries \in [Orders -> 0..MaxReconciles]
  /\ madeIn \in [Orders -> Nat]
  /\ exec \in [Orders -> ExecStates]
  /\ prior \in [Orders -> CancelSource \cup {"none"}]
  /\ cancels \in [Orders -> 0..MaxCancels]
  /\ policyEpoch \in 0..MaxEpoch
  /\ bound \in BOOLEAN
  /\ control \in [mode : {"armed", "disarmed", "killed"}, generation : Nat, epoch : 0..MaxEpoch]
  /\ request \in [step : RequestSteps, order : Orders \cup {NoOrder}, seen : Observable \cup {"none"}]
  /\ up \in BOOLEAN
  /\ venue \in [Orders -> VenueStates]
  /\ wire \in SUBSET Orders
  /\ sent \in [Orders -> Nat]
  /\ issued \in [Orders -> Nat]
  /\ crashes \in 0..MaxCrashes

\* Whatever the venue may still fill, on its way or on the book, is counted
\* as unresolved by the execution ledger (unresolved_summary), through lost
\* acknowledgements, failed queries, stale reviews and restarts.
OpenIsCounted == \A o \in Orders : o \in wire \/ venue[o] \in CancelSource => o \in Unresolved

\* The unresolved orders stay inside the fixed envelope (execution_risk_decision).
EnvelopeHolds == /\ Cardinality(Unresolved) <= MaxUnresolved
                 /\ Total(Unresolved) <= MaxNotional

\* Every transmission, submit or cancel, was confirmed by a receipt of its own:
\* none is repeated by a crash, a retry or a stale receipt.
SentIsConfirmed == \A o \in Orders :
  sent[o] <= issued[o] - Cardinality({r \in receipts : r.order = o})

\* The execution ledger never contradicts the journal, so the fatal
\* "terminal execution state changed during query" is never raised, and an
\* order recorded as rejected is one the venue refused.
LedgersAgree == \A o \in Orders :
  /\ exec[o] \in Ended => journal[o] = exec[o] /\ venue[o] = exec[o]
  /\ exec[o] = "rejected" => venue[o] = "refused" /\ journal[o] \notin Observable

\* A row marked as in flight belongs to the request in flight: no row waits in
\* submitting, canceling or querying for an answer nobody will bring.
InFlightIsServed == up => \A o \in Orders :
  /\ exec[o] \in {"submitting", "canceling"} =>
       request.order = o /\ request.step \in {"submitting", "submitted", "canceling", "cancelled"}
  /\ journal[o] = "querying" => request.order = o /\ request.step \in {"querying", "answered"}

\* A mutation leaves the broker only under an armed control of the current
\* epoch and for an order prepared in it: none follows a kill or a revoke,
\* not even one that crashed between its two writes.
ActsInEpoch == [][\A o \in Orders : sent'[o] # sent[o] =>
                     control.mode = "armed" /\ control.epoch = policyEpoch /\ madeIn[o] = policyEpoch]_vars

\* The broker implements the abstract promise: admitted once, transmitted
\* once, inside the envelope until the venue is done.
Market(o) == CASE o \in wire -> "sent"
               [] venue[o] \in CancelSource -> "open"
               [] exec[o] = "absent" \/ sent[o] = 0 -> "none"
               [] OTHER -> "done"

Exposure == INSTANCE OrderExposure WITH
  counted <- Unresolved,
  closed <- {o \in Orders : exec[o] \in Terminal},
  market <- [o \in Orders |-> Market(o)]

ImplementsExposure == Exposure!Spec

-----------------------------------------------------------------------------
(* The inductive invariant: why the properties hold.                       *)

\* The steps of a request that has consumed a receipt and not yet transmitted.
Confirmed == {"submit", "submitting", "cancel", "canceling"}

\* What holds of the request whatever its order.
RequestInv ==
  /\ request.step = "idle" => request = Idle
  /\ request.step \notin {"idle", "kill"} => request.order \in Orders
  /\ ~up => request = Idle

\* The order a step works on.
On(o, steps) == request.order = o /\ request.step \in steps

\* Where the order is in the world, and what the ledger must then say.
Placed(o) ==
  /\ o \in wire => venue[o] = "none"
  /\ o \in wire \/ venue[o] # "none" => sent[o] # 0
  /\ sent[o] # 0 => exec[o] # "absent"

\* What the steps of a dispatch rely on.
Dispatching(o) ==
  /\ On(o, {"submit"}) => exec[o] = "absent" /\ Fits(Unresolved, o)
  /\ On(o, {"submitting"}) => exec[o] = "submitting" /\ sent[o] = 0
  /\ On(o, {"submitted"}) => exec[o] = "submitting" /\ sent[o] # 0
  /\ On(o, {"canceling", "cancelled"}) => exec[o] = "canceling"
  /\ On(o, Confirmed) => control.mode = "armed" /\ control.epoch = policyEpoch /\ madeIn[o] = policyEpoch

\* What a query has seen is still true of the venue in the one way that matters.
Queried(o) ==
  /\ On(o, {"answered", "journaled"}) =>
       /\ request.seen \in Observable
       /\ venue[o] \in Observable
       /\ request.seen \in Ended => venue[o] = request.seen
  /\ On(o, {"journaled"}) => journal[o] = request.seen /\ exec[o] # "absent"
  /\ On(o, {"unanswered"}) => exec[o] # "absent"
  /\ journal[o] \in Observable => venue[o] \in Observable
  /\ journal[o] \in Ended => venue[o] = journal[o]

\* What a row in flight, live or being canceled rests on.
RowInv(o) ==
  /\ up /\ exec[o] = "submitting" => On(o, {"submitting", "submitted"})
  /\ up /\ exec[o] = "canceling" => On(o, {"canceling", "cancelled"})
  /\ up /\ journal[o] = "querying" => On(o, {"querying", "answered"})
  /\ exec[o] = "canceling" => prior[o] \in CancelSource
  /\ exec[o] \in CancelSource \cup {"canceling", "cancel_unknown"} => venue[o] \in Observable

Agree(o) ==
  /\ exec[o] \in Ended => journal[o] = exec[o] /\ venue[o] = exec[o]
  /\ exec[o] = "rejected" => venue[o] = "refused" /\ journal[o] \notin Observable

OrderInv(o) == Placed(o) /\ Dispatching(o) /\ Queried(o) /\ RowInv(o) /\ Agree(o)

\* The ledgers, the venue and the request in flight hang together, through
\* crashes between any two durable writes.
ExecutionInv == TypeOK /\ RequestInv /\ \A o \in Orders : OrderInv(o)
=============================================================================
