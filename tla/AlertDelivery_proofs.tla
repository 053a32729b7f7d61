------------------------- MODULE AlertDelivery_proofs -------------------------
(***************************************************************************)
(* Proofs about AlertDelivery, for any events, any retry budget and any    *)
(* number of crashes and stops.  DeliveryInv is inductive: one lemma per   *)
(* action below, and the properties follow from it.                        *)
(***************************************************************************)
EXTENDS AlertDelivery, TLAPS

USE DEF DeliveryInv

-----------------------------------------------------------------------------
(* Types                                                                   *)

\* The worker between two rows, or not running, holds no event.
LEMMA IdleWorkerType ==
  \A pc \in WorkerPC :
    IdleWorker(pc) \in [pc : WorkerPC, event : Events \cup {"none"}, result : Result]
BY DEF IdleWorker, Result

\* A browser action is published or not, and says nothing of the webhook.
LEMMA DispatchBrowserFacts ==
  ASSUME TypeOK, NEW e \in Events, DispatchBrowser(e, outcomes)
  PROVE  /\ outcomes' \in [Events -> [Action -> Outcome]] /\ soon' \subseteq Events
         /\ \A f \in Events : outcomes'[f]["webhook"] = outcomes[f]["webhook"]
<1>1. PICK o \in {"published", "unavailable"} :
        outcomes' = [outcomes EXCEPT ![e] = [outcomes[e] EXCEPT !["browser"] = o]]
  BY DEF DispatchBrowser
<1>2. [outcomes[e] EXCEPT !["browser"] = o] \in [Action -> Outcome]
  BY DEF TypeOK, Outcome
<1>3. outcomes' \in [Events -> [Action -> Outcome]]
  BY <1>1, <1>2 DEF TypeOK
<1>4. soon' \subseteq Events
  BY DEF DispatchBrowser, TypeOK
<1>5. \A f \in Events : outcomes'[f]["webhook"] = outcomes[f]["webhook"]
  BY <1>1, <1>2
<1> QED BY <1>3, <1>4, <1>5

\* What a process that ended leaves in memory is well typed.
LEMMA ExitType ==
  ASSUME TypeOK, Exit
  PROVE  /\ {up', stopping'} \subseteq BOOLEAN
         /\ emitter' \in [Events -> {"idle", "staging", "staged", "activating", "done"}]
         /\ outcomes' \in [Events -> [Action -> Outcome]]
         /\ soon' \subseteq Events
         /\ worker' \in [pc : WorkerPC, event : Events \cup {"none"}, result : Result]
<1>1. {up', stopping'} \subseteq BOOLEAN /\ soon' \subseteq Events
  BY DEF Exit
<1>2. emitter' \in [Events -> {"idle", "staging", "staged", "activating", "done"}]
  BY DEF Exit
<1>3. outcomes' \in [Events -> [Action -> Outcome]]
  BY DEF Exit, NoOutcome, Outcome
<1>4. worker' \in [pc : WorkerPC, event : Events \cup {"none"}, result : Result]
  BY IdleWorkerType DEF Exit, WorkerPC
<1> QED BY <1>1, <1>2, <1>3, <1>4

-----------------------------------------------------------------------------
(* Every action preserves the invariant.                                   *)

\* An event that is recorded has no row yet.
LEMMA TriggerPreserves ==
  ASSUME DeliveryInv, NEW e \in Events, Trigger(e)
  PROVE  DeliveryInv'
<1>1. TypeOK'
  <2>1. outcomes' \in [Events -> [Action -> Outcome]] /\ soon' \subseteq Events
    BY DispatchBrowserFacts DEF Trigger, TypeOK
  <2> QED BY <2>1 DEF TypeOK, Trigger, world
<1>2. EmissionInv'
  BY DEF EmissionInv, TypeOK, Action, Trigger, DispatchBrowser, world
<1>3. ReceiptInv'
  BY DEF ReceiptInv, TerminalHasReceipt, EmissionInv, Decision, Trigger
<1>4. ClaimInv' /\ AttemptInv' /\ DeliveredWasReceived'
  BY DEF ClaimInv, AttemptInv, Limit, DeliveredWasReceived, Trigger, world
<1> QED BY <1>1, <1>2, <1>3, <1>4

\* The row was absent, nothing was posted and the worker is elsewhere.
LEMMA StagePreserves ==
  ASSUME DeliveryInv, NEW e \in Events, Stage(e)
  PROVE  DeliveryInv'
<1>1. TypeOK'
  BY DEF TypeOK, Outcome, RowStatus, Row, Stage, world
<1>2. EmissionInv'
  BY DEF EmissionInv, TypeOK, Action, Row, Stage, world
<1>3. ClaimInv' /\ AttemptInv'
  BY DEF ClaimInv, EmissionInv, AttemptInv, Limit, Row, Stage, world
<1>4. DeliveredWasReceived'
  BY DEF DeliveredWasReceived, Row, Stage, world
<1>5. ReceiptInv'
  BY DEF ReceiptInv, TerminalHasReceipt, EmissionInv, Decision, TypeOK, Row, Stage
<1> QED BY <1>1, <1>2, <1>3, <1>4, <1>5

\* A failed stage leaves an outcome and no row.
LEMMA StageFailsPreserves ==
  ASSUME DeliveryInv, NEW e \in Events, StageFails(e)
  PROVE  DeliveryInv'
<1>1. TypeOK'
  BY DEF TypeOK, Outcome, StageFails, world
<1>2. EmissionInv'
  BY DEF EmissionInv, TypeOK, Action, Row, StageFails, world
<1>3. ReceiptInv'
  BY DEF ReceiptInv, TerminalHasReceipt, Decision, StageFails
<1>4. ClaimInv' /\ AttemptInv' /\ DeliveredWasReceived'
  BY DEF ClaimInv, AttemptInv, Limit, DeliveredWasReceived, StageFails, world
<1> QED BY <1>1, <1>2, <1>3, <1>4

\* A dispatch outcome never says delivered, and overwrites an entry of a row the
\* worker cannot have claimed.
LEMMA RecordDispatchPreserves ==
  ASSUME DeliveryInv, NEW e \in Events, RecordDispatch(e)
  PROVE  DeliveryInv'
<1>1. /\ history' = [history EXCEPT ![e] = outcomes'[e]]
      /\ emitter' = [emitter EXCEPT ![e] = "activating"]
      /\ emitter[e] = "staged"
      /\ UNCHANGED <<row, worker, received, crashes>>
  BY DEF RecordDispatch, RecordedOutcomes, world
<1>2. /\ outcomes'[e]["webhook"] \in {"queued", "error"}
      /\ row[e].status \in {"none", "staged"}
  BY <1>1, DispatchBrowserFacts DEF RecordDispatch, EmissionInv
<1>3. TypeOK'
  BY <1>1, DispatchBrowserFacts DEF TypeOK, RecordDispatch, world
<1>4. EmissionInv'
  BY DEF EmissionInv, TypeOK, Action, RecordDispatch, DispatchBrowser, world
<1>5. DeliveredWasReceived'
  <2>1. \A f \in Events :
          history'[f]["webhook"] = "delivered" => history[f]["webhook"] = "delivered"
    BY <1>1, <1>2
  <2> QED BY <1>1, <2>1 DEF DeliveredWasReceived
<1>6. ReceiptInv'
  <2> SUFFICES ASSUME crashes = 0 PROVE ReceiptInv'
    BY <1>1 DEF ReceiptInv
  <2>1. /\ \A f \in Events \ {e} : history'[f] = history[f]
        /\ history'[e]["webhook"] \in {"queued", "error"}
    BY <1>1, <1>2 DEF TypeOK
  <2>2. \A f \in Events :
          row'[f].status # "none" /\ emitter'[f] # "staged" => history'[f]["webhook"] # "absent"
    BY <1>1, <2>1 DEF ReceiptInv
  <2>3. worker'.pc = "marking" => history'[worker'.event]["webhook"] = Told(Decision)'
    BY <1>1, <1>2, <2>1 DEF ReceiptInv, ClaimInv, Decision
  <2>4. TerminalHasReceipt'
    BY <1>1, <1>2, <2>1 DEF ReceiptInv, TerminalHasReceipt
  <2> QED BY <2>2, <2>3, <2>4 DEF ReceiptInv
<1>7. ClaimInv' /\ AttemptInv'
  BY DEF ClaimInv, AttemptInv, Limit, RecordDispatch, world
<1> QED BY <1>3, <1>4, <1>5, <1>6, <1>7

\* A staged row has its whole budget left.
LEMMA ActivateEventPreserves ==
  ASSUME DeliveryInv, NEW e \in Events, ActivateEvent(e)
  PROVE  DeliveryInv'
<1>1. TypeOK'
  BY DEF TypeOK, RowStatus, ActivateEvent, world
<1>2. EmissionInv' /\ ClaimInv'
  BY DEF EmissionInv, ClaimInv, ActivateEvent, world
<1>3. AttemptInv'
  <2>1. /\ row' = [row EXCEPT ![e].status = IF @ = "staged" THEN "pending" ELSE @]
        /\ UNCHANGED <<received, up, stopping, Limit>>
    BY DEF ActivateEvent, world, Limit
  <2>2. row[e].status = "staged" => row[e].attempts < Limit
    BY AlertDeliveryAssumption DEF EmissionInv, TypeOK, Limit
  <2>3. \A f \in Events :
          /\ row'[f].attempts = row[f].attempts
          /\ row'[f].status = row[f].status \/ (f = e /\ row[e].status = "staged")
    BY <2>1
  <2> SUFFICES ASSUME NEW f \in Events
               PROVE  /\ received'[f] <= row'[f].attempts
                      /\ row'[f].attempts <= Limit'
                      /\ ~up' \/ stopping' \/ row'[f].status \in {"pending", "retrying"} =>
                           row'[f].attempts < Limit'
    BY DEF AttemptInv
  <2>4. CASE row'[f].status = row[f].status
    BY <2>1, <2>3, <2>4 DEF AttemptInv
  <2>5. CASE f = e /\ row[e].status = "staged"
    BY <2>1, <2>2, <2>3, <2>5 DEF AttemptInv
  <2> QED BY <2>3, <2>4, <2>5
<1>4. DeliveredWasReceived'
  BY DEF DeliveredWasReceived, ActivateEvent, world
<1>5. ReceiptInv'
  BY DEF ReceiptInv, TerminalHasReceipt, Decision, ActivateEvent
<1> QED BY <1>1, <1>2, <1>3, <1>4, <1>5

\* A row that could not be activated stays staged.
LEMMA ActivationFailsPreserves ==
  ASSUME DeliveryInv, NEW e \in Events, ActivationFails(e)
  PROVE  DeliveryInv'
<1>1. TypeOK'
  BY DEF TypeOK, ActivationFails, disk, world
<1>2. EmissionInv'
  BY DEF EmissionInv, ActivationFails, disk, world
<1>3. ReceiptInv'
  BY DEF ReceiptInv, TerminalHasReceipt, Decision, ActivationFails, disk
<1>4. ClaimInv' /\ AttemptInv' /\ DeliveredWasReceived'
  BY DEF ClaimInv, AttemptInv, Limit, DeliveredWasReceived, ActivationFails, disk, world
<1> QED BY <1>1, <1>2, <1>3, <1>4

\* Publications concern browser windows only.
LEMMA PublishPreserves ==
  ASSUME DeliveryInv, NEW e \in Events, Publish(e)
  PROVE  DeliveryInv'
<1>1. TypeOK'
  BY DEF TypeOK, Publish, disk
<1>2. EmissionInv' /\ ClaimInv' /\ AttemptInv' /\ DeliveredWasReceived' /\ ReceiptInv'
  BY DEF EmissionInv, ClaimInv, AttemptInv, Limit, DeliveredWasReceived,
     ReceiptInv, TerminalHasReceipt, Decision, Publish, disk
<1> QED BY <1>1, <1>2

\* A browser receipt leaves the webhook entry alone.
LEMMA BrowserReceiptPreserves ==
  ASSUME DeliveryInv, NEW e \in Events, BrowserReceipt(e)
  PROVE  DeliveryInv'
<1>1. /\ history' \in [Events -> [Action -> Outcome]]
      /\ \A f \in Events : history'[f]["webhook"] = history[f]["webhook"]
  <2>1. \/ history' = history
        \/ history' = [history EXCEPT ![e] = [history[e] EXCEPT !["browser"] = "shown"]]
    BY DEF BrowserReceipt
  <2>2. [history[e] EXCEPT !["browser"] = "shown"] \in [Action -> Outcome]
    BY DEF TypeOK, Outcome
  <2>3. history' \in [Events -> [Action -> Outcome]]
    BY <2>1, <2>2 DEF TypeOK
  <2>4. \A f \in Events : history'[f]["webhook"] = history[f]["webhook"]
    BY <2>1, <2>2 DEF TypeOK, Action
  <2> QED BY <2>3, <2>4
<1>2. TypeOK'
  BY <1>1 DEF BrowserReceipt, TypeOK
<1>3. DeliveredWasReceived'
  BY <1>1 DEF BrowserReceipt, DeliveredWasReceived
<1>4. ReceiptInv'
  BY <1>1 DEF BrowserReceipt, ReceiptInv, TerminalHasReceipt, ClaimInv, Decision
<1>5. EmissionInv' /\ ClaimInv' /\ AttemptInv'
  BY DEF EmissionInv, ClaimInv, AttemptInv, Limit, BrowserReceipt
<1> QED BY <1>2, <1>3, <1>4, <1>5

\* The claim takes the one attempt that was left to the row.
LEMMA ClaimPreserves ==
  ASSUME DeliveryInv, NEW e \in Events, Claim(e)
  PROVE  DeliveryInv'
<1>1. TypeOK'
  BY DEF TypeOK, RowStatus, WorkerPC, Result, Row, Claim, WorkerOnly
<1>2. EmissionInv'
  BY DEF EmissionInv, Row, Claim, Claimable, WorkerOnly
<1>3. ClaimInv'
  BY DEF ClaimInv, AttemptInv, TypeOK, Row, Claim, WorkerOnly
<1>4. AttemptInv'
  BY AlertDeliveryAssumption DEF AttemptInv, ClaimInv, Limit, TypeOK, Row, Claim,
     Claimable, WorkerOnly
<1>5. DeliveredWasReceived'
  BY DEF DeliveredWasReceived, Row, Claim
<1>6. ReceiptInv'
  BY DEF ReceiptInv, TerminalHasReceipt, Row, Claim, Claimable, WorkerOnly
<1> QED BY <1>1, <1>2, <1>3, <1>4, <1>5, <1>6

\* The one POST of a claim uses up what ClaimInv kept for it.
LEMMA SendPreserves ==
  ASSUME DeliveryInv, Send
  PROVE  DeliveryInv'
<1>1. TypeOK'
  <2>1. received' \in [Events -> Nat]
    BY DEF Send, ClaimInv, TypeOK
  <2>2. worker' \in [pc : WorkerPC, event : Events \cup {"none"}, result : Result]
    BY DEF Send, TypeOK, WorkerPC
  <2> QED BY <2>1, <2>2 DEF TypeOK, Send, WorkerOnly
<1>2. EmissionInv'
  BY DEF EmissionInv, ClaimInv, Row, Send, WorkerOnly
<1>3. ClaimInv'
  BY DEF ClaimInv, TypeOK, Send, WorkerOnly
<1>4. AttemptInv'
  BY DEF AttemptInv, ClaimInv, Limit, TypeOK, Send, WorkerOnly
<1>5. DeliveredWasReceived'
  BY DEF DeliveredWasReceived, TypeOK, Send
<1>6. ReceiptInv'
  BY DEF ReceiptInv, TerminalHasReceipt, Send, WorkerOnly
<1> QED BY <1>1, <1>2, <1>3, <1>4, <1>5, <1>6

\* An entry says delivered only after an accepted POST.
LEMMA RecordReceiptPreserves ==
  ASSUME DeliveryInv, RecordReceipt
  PROVE  DeliveryInv'
<1>1. TypeOK'
  BY DEF TypeOK, Outcome, WorkerPC, RecordReceipt, Decision, Verdict, Told, WorkerOnly
<1>2. ClaimInv'
  BY DEF ClaimInv, RecordReceipt, WorkerOnly
<1>3. DeliveredWasReceived'
  BY DEF DeliveredWasReceived, ClaimInv, RecordReceipt, Decision, Verdict, Told
<1>4. ReceiptInv'
  BY DEF ReceiptInv, TerminalHasReceipt, EmissionInv, ClaimInv, Decision, Verdict,
     Told, TypeOK, Action, RecordReceipt, WorkerOnly
<1>5. EmissionInv' /\ AttemptInv'
  BY DEF EmissionInv, AttemptInv, Limit, RecordReceipt, WorkerOnly
<1> QED BY <1>1, <1>2, <1>3, <1>4, <1>5

\* The receipt written before says what the row is going to say.
LEMMA MarkRowPreserves ==
  ASSUME DeliveryInv, MarkRow
  PROVE  DeliveryInv'
<1>1. TypeOK'
  <2>1. Decision \in RowStatus /\ worker.event \in Events
    BY DEF Decision, Verdict, RowStatus, MarkRow, ClaimInv
  <2>2. row' \in [Events -> [status : RowStatus, attempts : Nat]]
    BY <2>1 DEF MarkRow, TypeOK
  <2>3. worker' \in [pc : WorkerPC, event : Events \cup {"none"}, result : Result]
    BY IdleWorkerType DEF MarkRow, TypeOK, WorkerPC
  <2> QED BY <2>2, <2>3 DEF TypeOK, MarkRow, WorkerOnly
<1>2. EmissionInv'
  BY DEF EmissionInv, ClaimInv, Row, MarkRow, Decision, Verdict, WorkerOnly
<1>3. ClaimInv'
  BY DEF ClaimInv, MarkRow, IdleWorker, WorkerOnly
<1>4. AttemptInv'
  BY AlertDeliveryAssumption DEF AttemptInv, Limit, TypeOK, MarkRow, Decision,
     Verdict, WorkerOnly
<1>5. DeliveredWasReceived'
  BY DEF DeliveredWasReceived, ClaimInv, MarkRow, Decision, Verdict
<1>6. ReceiptInv'
  BY DEF ReceiptInv, TerminalHasReceipt, Decision, Verdict, Told, MarkRow,
     IdleWorker, WorkerOnly
<1> QED BY <1>1, <1>2, <1>3, <1>4, <1>5, <1>6

\* Only terminal rows are pruned.
LEMMA PrunePreserves ==
  ASSUME DeliveryInv, Prune
  PROVE  DeliveryInv'
<1>1. TypeOK'
  <2>1. PICK old : row' = [e \in Events |-> IF e \in old THEN [row[e] EXCEPT !.status = "pruned"]
                                            ELSE row[e]]
    BY DEF Prune
  <2>2. \A e \in Events : [row[e] EXCEPT !.status = "pruned"] \in [status : RowStatus, attempts : Nat]
    BY DEF TypeOK, RowStatus
  <2>3. row' \in [Events -> [status : RowStatus, attempts : Nat]]
    BY <2>1, <2>2 DEF TypeOK
  <2> QED BY <2>3, IdleWorkerType DEF TypeOK, Prune, WorkerOnly, WorkerPC
<1>2. EmissionInv'
  BY DEF EmissionInv, Row, Prune, WithStatus, Terminal, WorkerOnly
<1>3. ClaimInv'
  BY DEF ClaimInv, Prune, IdleWorker, WorkerOnly
<1>4. AttemptInv'
  BY DEF AttemptInv, Limit, Prune, WorkerOnly
<1>5. DeliveredWasReceived'
  BY DEF DeliveredWasReceived, Prune
<1>6. ReceiptInv'
  BY DEF ReceiptInv, TerminalHasReceipt, Prune, IdleWorker, WithStatus, Terminal,
     WorkerOnly
<1> QED BY <1>1, <1>2, <1>3, <1>4, <1>5, <1>6

\* A row left in processing keeps its attempts.
LEMMA WorkerFailsPreserves ==
  ASSUME DeliveryInv, WorkerFails
  PROVE  DeliveryInv'
<1>1. TypeOK'
  BY DEF TypeOK, WorkerPC, Result, WorkerFails, AfterFailure, IdleWorker, WorkerOnly
<1>2. ClaimInv'
  BY DEF ClaimInv, WorkerFails, AfterFailure, IdleWorker, WorkerOnly
<1>3. ReceiptInv'
  BY DEF ReceiptInv, TerminalHasReceipt, WorkerFails, AfterFailure, IdleWorker,
     WorkerOnly
<1>4. EmissionInv' /\ AttemptInv' /\ DeliveredWasReceived'
  BY DEF EmissionInv, AttemptInv, Limit, DeliveredWasReceived, WorkerFails, WorkerOnly
<1> QED BY <1>1, <1>2, <1>3, <1>4

\* The restart was paid for when the process went down.
LEMMA StartPreserves ==
  ASSUME DeliveryInv, Start
  PROVE  DeliveryInv'
<1>1. TypeOK'
  <2>1. row' \in [Events -> [status : RowStatus, attempts : Nat]]
    BY DEF Start, TypeOK, RowStatus
  <2> QED BY <2>1, IdleWorkerType DEF TypeOK, Start, world, WorkerPC
<1>2. EmissionInv'
  BY DEF EmissionInv, Row, Start, Interrupted, world
<1>3. ClaimInv'
  BY DEF ClaimInv, Start, IdleWorker
<1>4. AttemptInv'
  BY DEF AttemptInv, Limit, Start, world
<1>5. DeliveredWasReceived'
  BY DEF DeliveredWasReceived, Start, world
<1>6. ReceiptInv'
  BY DEF ReceiptInv, TerminalHasReceipt, Start, Interrupted, IdleWorker
<1> QED BY <1>1, <1>2, <1>3, <1>4, <1>5, <1>6

\* A stop raises the limit: the worker may leave a row in processing.
LEMMA StopPreserves ==
  ASSUME DeliveryInv, Stop
  PROVE  DeliveryInv'
<1>1. TypeOK'
  BY AlertDeliveryAssumption DEF TypeOK, Stop, disk, world
<1>2. AttemptInv'
  BY AlertDeliveryAssumption DEF AttemptInv, Limit, TypeOK, Stop, disk, world
<1>3. EmissionInv' /\ ClaimInv' /\ DeliveredWasReceived' /\ ReceiptInv'
  BY DEF EmissionInv, ClaimInv, DeliveredWasReceived, ReceiptInv,
     TerminalHasReceipt, Decision, Stop, disk, world
<1> QED BY <1>1, <1>2, <1>3

\* Nobody holds a row when the process ends in order.
LEMMA ExitAfterStopPreserves ==
  ASSUME DeliveryInv, ExitAfterStop
  PROVE  DeliveryInv'
<1>1. TypeOK'
  <2>1. crashes' \in 0..MaxRestarts
    BY DEF TypeOK, ExitAfterStop
  <2> QED BY <2>1, ExitType DEF TypeOK, ExitAfterStop, disk, world
<1>2. EmissionInv'
  BY DEF EmissionInv, Action, ExitAfterStop, Exit, NoOutcome, disk, world
<1>3. ClaimInv' /\ AttemptInv'
  BY DEF ClaimInv, AttemptInv, Limit, ExitAfterStop, Exit, IdleWorker, disk, world
<1>4. ReceiptInv'
  BY DEF ReceiptInv, TerminalHasReceipt, ExitAfterStop, Exit, IdleWorker, disk
<1>5. DeliveredWasReceived'
  BY DEF DeliveredWasReceived, ExitAfterStop, disk, world
<1> QED BY <1>1, <1>2, <1>3, <1>4, <1>5

\* A crash raises the limit, and ends what ReceiptInv promises.
LEMMA CrashPreserves ==
  ASSUME DeliveryInv, Crash
  PROVE  DeliveryInv'
<1>1. TypeOK'
  <2>1. crashes' \in 0..MaxRestarts
    BY AlertDeliveryAssumption DEF TypeOK, Crash
  <2> QED BY <2>1, ExitType DEF TypeOK, Crash, disk, world
<1>2. EmissionInv'
  BY DEF EmissionInv, Action, Crash, Exit, NoOutcome, disk, world
<1>3. ClaimInv' /\ AttemptInv'
  BY AlertDeliveryAssumption DEF ClaimInv, AttemptInv, Limit, TypeOK, Crash, Exit,
     IdleWorker, disk, world
<1>4. ReceiptInv'
  BY DEF ReceiptInv, TypeOK, Crash
<1>5. DeliveredWasReceived'
  BY DEF DeliveredWasReceived, Crash, disk, world
<1> QED BY <1>1, <1>2, <1>3, <1>4, <1>5

-----------------------------------------------------------------------------
(* The theorems                                                            *)

\* Nothing has happened when the first process starts.
LEMMA InitInvariant == Init => DeliveryInv
<1> SUFFICES ASSUME Init PROVE DeliveryInv
  OBVIOUS
<1>1. TypeOK
  <2>1. NoOutcome \in [Action -> Outcome]
    BY DEF NoOutcome, Outcome
  <2>2. Row("none", 0) \in [status : RowStatus, attempts : Nat]
    BY DEF Row, RowStatus
  <2>3. crashes \in 0..MaxRestarts /\ stops \in 0..MaxRestarts
    BY AlertDeliveryAssumption DEF Init
  <2> QED BY <2>1, <2>2, <2>3, IdleWorkerType DEF Init, TypeOK, WorkerPC
<1>2. EmissionInv /\ ClaimInv
  BY DEF Init, EmissionInv, ClaimInv, NoOutcome, Action, Row, IdleWorker
<1>3. AttemptInv
  BY AlertDeliveryAssumption DEF Init, AttemptInv, Row, Limit
<1>4. DeliveredWasReceived /\ ReceiptInv
  BY DEF Init, DeliveredWasReceived, ReceiptInv, TerminalHasReceipt, NoOutcome,
     Action, Row, IdleWorker
<1> QED BY <1>1, <1>2, <1>3, <1>4

\* The invariant only depends on the variables.
LEMMA StutterInvariant ==
  ASSUME DeliveryInv, UNCHANGED vars PROVE DeliveryInv'
BY DEF vars, TypeOK, EmissionInv, ClaimInv, AttemptInv, Limit,
   DeliveredWasReceived, ReceiptInv, TerminalHasReceipt, Decision

\* The actions together.
LEMMA StepInvariant ==
  ASSUME DeliveryInv, [Next]_vars PROVE DeliveryInv'
BY StutterInvariant, TriggerPreserves, StagePreserves, StageFailsPreserves,
   RecordDispatchPreserves, ActivateEventPreserves, ActivationFailsPreserves,
   PublishPreserves, BrowserReceiptPreserves, ClaimPreserves, SendPreserves,
   RecordReceiptPreserves, MarkRowPreserves, PrunePreserves, WorkerFailsPreserves,
   StartPreserves, StopPreserves, ExitAfterStopPreserves, CrashPreserves
DEF Next, Emit, Work

\* Emissions, claims, attempts and receipts fit together in every reachable state.
THEOREM DeliveryInvariant == Spec => []DeliveryInv
BY InitInvariant, StepInvariant, PTL DEF Spec

\* Every variable keeps its type.
THEOREM TypeCorrect == Spec => []TypeOK
BY DeliveryInvariant, PTL

\* However often the process dies or is stopped, a row is claimed, and its
\* event posted, at most once per attempt allowed and once more per restart.
THEOREM AttemptsAreBounded == Spec => []AttemptsBounded
<1>1. DeliveryInv => AttemptsBounded
  BY DEF AttemptInv, AttemptsBounded, Limit
<1> QED BY <1>1, DeliveryInvariant, PTL

\* Nothing that says delivered, row or history entry, is wrong about it.
THEOREM DeliveredIsReceived == Spec => []DeliveredWasReceived
BY DeliveryInvariant, PTL

\* Until the process first dies, no row is terminal before the history says so.
\* After a crash between stage and update_history_dispatch the row is recovered
\* without a history entry, and its receipts are dropped.
THEOREM ReceiptFirst == Spec => []TerminalHasReceipt
<1>1. DeliveryInv => TerminalHasReceipt
  BY DEF ReceiptInv, TerminalHasReceipt
<1> QED BY <1>1, DeliveryInvariant, PTL

\* No step takes a decision back, or posts for a row that was decided.
THEOREM DecisionsAreFinal == Spec => DecidedIsFinal
<1> DEFINE Kept(e) == row'[e].status \in {row[e].status, "pruned"} /\ received'[e] = received[e]
<1>1. ASSUME DeliveryInv, [Next]_vars
      PROVE  \A e \in WithStatus(Terminal \cup {"pruned"}) : Kept(e)
  <2> SUFFICES ASSUME NEW e \in Events, row[e].status \in {"delivered", "dead_letter", "pruned"}
               PROVE  Kept(e)
    BY DEF WithStatus, Terminal
  <2>1. CASE UNCHANGED <<row, received>>
    BY <2>1
  <2>2. ASSUME NEW f \in Events, Stage(f) PROVE Kept(e)
    BY <1>1, <2>2 DEF Stage, EmissionInv, Row, world
  <2>3. ASSUME NEW f \in Events, ActivateEvent(f) PROVE Kept(e)
    BY <1>1, <2>3 DEF ActivateEvent, world
  <2>4. ASSUME NEW f \in Events, Claim(f) PROVE Kept(e)
    BY <1>1, <2>4 DEF Claim, Claimable
  <2>5. CASE Send
    BY <1>1, <2>5 DEF Send, ClaimInv
  <2>6. CASE MarkRow
    BY <1>1, <2>6 DEF MarkRow, ClaimInv
  <2>7. CASE Prune
    BY <1>1, <2>7 DEF Prune
  <2>8. CASE Start
    BY <1>1, <2>8 DEF Start, Interrupted, world
  <2>9. [Next]_vars => \/ UNCHANGED <<row, received>>
                       \/ \E f \in Events : Stage(f) \/ ActivateEvent(f) \/ Claim(f)
                       \/ Send \/ MarkRow \/ Prune \/ Start
    BY DEF Next, vars, Emit, Work, Trigger, StageFails, RecordDispatch,
       ActivationFails, Publish, BrowserReceipt, RecordReceipt, WorkerFails, Stop,
       ExitAfterStop, Crash, disk, world
  <2> HIDE DEF Kept
  <2> QED BY <1>1, <2>1, <2>2, <2>3, <2>4, <2>5, <2>6, <2>7, <2>8, <2>9
<1>2. DeliveryInv /\ [Next]_vars =>
        [\A e \in WithStatus(Terminal \cup {"pruned"}) :
           /\ row'[e].status \in {row[e].status, "pruned"}
           /\ received'[e] = received[e]]_vars
  BY <1>1
<1> QED BY <1>2, DeliveryInvariant, PTL DEF Spec, DecidedIsFinal

-----------------------------------------------------------------------------
(* Browser receipts                                                        *)

\* What a dispatch publishes of an event whose browser action comes last is in
\* the history by the end of the step.
LEMMA DispatchIsHeard ==
  ASSUME DeliveryInv, HeardInv, NEW e \in Events, RecordDispatch(e)
  PROVE  HeardInv'
<1>1. /\ history' = [history EXCEPT ![e] = outcomes'[e]]
      /\ history' \in [Events -> [Action -> Outcome]]
      /\ shown' = shown /\ unheard' = unheard /\ soon' \subseteq soon \cup {e}
  BY DispatchBrowserFacts DEF RecordDispatch, RecordedOutcomes, DispatchBrowser, TypeOK, world
<1>2. CASE e \in BrowserFirst
  <2>1. \A f \in Events \ BrowserFirst : history'[f] = history[f]
    BY <1>1, <1>2 DEF TypeOK
  <2>2. soon' = soon
    BY <1>2 DEF RecordDispatch
  <2> QED BY <1>1, <2>1, <2>2 DEF HeardInv, ReceiptIsHeard, TypeOK
<1>3. CASE e \notin BrowserFirst
  <2>1. outcomes'[e]["browser"] # "absent"
    BY <1>3 DEF RecordDispatch, DispatchBrowser, TypeOK, Action
  <2>2. \A f \in Events \ {e} : history'[f] = history[f]
    BY <1>1 DEF TypeOK
  <2>3. history'[e]["browser"] # "absent"
    BY <1>1, <2>1 DEF TypeOK
  <2> QED BY <1>1, <2>2, <2>3 DEF HeardInv, ReceiptIsHeard, TypeOK
<1> QED BY <1>2, <1>3

\* A window posts its receipt for an event that was published.
LEMMA ReceiptKeepsHeard ==
  ASSUME DeliveryInv, HeardInv, NEW e \in Events, BrowserReceipt(e)
  PROVE  HeardInv'
<1>1. /\ soon' = soon /\ shown' = shown \ {e} /\ e \in shown
      /\ unheard' \subseteq unheard \cup {e}
      /\ unheard' = unheard \/ history[e]["browser"] = "absent"
  BY DEF BrowserReceipt
<1>2. \A f \in Events : history[f]["browser"] # "absent" => history'[f]["browser"] # "absent"
  BY DEF BrowserReceipt, TypeOK, Action
<1> QED BY <1>1, <1>2 DEF HeardInv, ReceiptIsHeard, TypeOK

\* A receipt of a webhook leaves the browser entries alone.
LEMMA WebhookReceiptKeepsHeard ==
  ASSUME DeliveryInv, HeardInv, RecordReceipt
  PROVE  HeardInv'
<1>1. UNCHANGED <<soon, shown, unheard>>
  BY DEF RecordReceipt, WorkerOnly
<1>2. \A f \in Events : history'[f]["browser"] = history[f]["browser"]
  BY DEF RecordReceipt, ClaimInv, TypeOK, Action
<1> QED BY <1>1, <1>2 DEF HeardInv, ReceiptIsHeard, TypeOK

\* No step publishes an event whose browser action comes last before its entry.
LEMMA StepHeard ==
  ASSUME DeliveryInv, HeardInv, [Next]_vars PROVE HeardInv'
<1>1. CASE UNCHANGED <<history, shown, unheard>> /\ soon' \subseteq soon
  BY <1>1 DEF HeardInv, ReceiptIsHeard, TypeOK
<1>2. ASSUME NEW e \in Events, Trigger(e) PROVE HeardInv'
  BY <1>2 DEF Trigger, DispatchBrowser, HeardInv, ReceiptIsHeard, TypeOK, world
<1>3. ASSUME NEW e \in Events, Publish(e) PROVE HeardInv'
  BY <1>3 DEF Publish, HeardInv, ReceiptIsHeard, TypeOK, disk
<1>4. [Next]_vars => \/ UNCHANGED <<history, shown, unheard>> /\ soon' \subseteq soon
                     \/ \E e \in Events : Trigger(e) \/ Publish(e)
                     \/ \E e \in Events : RecordDispatch(e) \/ BrowserReceipt(e)
                     \/ RecordReceipt
  BY DEF Next, vars, Emit, Work, Stage, StageFails, ActivateEvent, ActivationFails,
     Claim, Send, MarkRow, Prune, WorkerFails, Start, Stop, ExitAfterStop, Crash,
     Exit, WorkerOnly, disk, world
<1> QED BY <1>1, <1>2, <1>3, <1>4, DispatchIsHeard, ReceiptKeepsHeard, WebhookReceiptKeepsHeard

\* The comment in BrowserOwnedAlertChannel.dispatch holds of every event whose
\* browser action comes last: the receipt of a window finds its dispatchId in
\* the history, over crashes and restarts too.
THEOREM ReceiptsAreHeard == Spec => []ReceiptIsHeard
<1>1. Init => HeardInv
  BY DEF Init, HeardInv, ReceiptIsHeard
<1>2. HeardInv => ReceiptIsHeard
  BY DEF HeardInv
<1> QED BY <1>1, <1>2, InitInvariant, StepInvariant, StepHeard, PTL DEF Spec

===============================================================================
