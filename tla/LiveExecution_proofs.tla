------------------------ MODULE LiveExecution_proofs ------------------------
(* Proofs about the live transaction broker, for any orders, envelope and  *)
(* bounds: the ledgers agree with the venue and with each other, whatever  *)
(* the venue may still fill is counted, mutations stay inside the epoch,   *)
(* the unresolved orders fit the envelope, and the broker implements       *)
(* OrderExposure.                                                          *)
EXTENDS LiveExecution, FiniteNaturals, FiniteSetTheorems, TLAPS

-----------------------------------------------------------------------------
(* Type correctness.                                                       *)

USE DEF CancelSource, Ended, Observable, Terminal, Queryable, ExecStates, JournalStates, VenueStates, RequestSteps
HIDE DEF Fits, Total

LEMMA HealType == ASSUME TypeOK, NEW o \in Orders, Heal(o)
                  PROVE  /\ exec' \in [Orders -> ExecStates]
                         /\ prior' \in [Orders -> CancelSource \cup {"none"}]
  BY DEF TypeOK, Heal, Healed

LEMMA BoundsAreNat ==
  /\ MaxEpoch \in Nat /\ MaxCancels \in Nat /\ MaxReconciles \in Nat /\ MaxCrashes \in Nat
  BY BoundsAssumption DEF BoundsAssumption

LEMMA CountsUp == ASSUME NEW m \in Nat, NEW n \in 0..m, n < m PROVE n + 1 \in 0..m
  OBVIOUS

LEMMA KilledType == ASSUME TypeOK
                    PROVE  Killed \in [mode : {"armed", "disarmed", "killed"}, generation : Nat, epoch : 0..MaxEpoch]
<1>1. control.generation \in Nat
  BY DEF TypeOK
<1> QED BY <1>1 DEF Killed, TypeOK

LEMMA TypeStep == ASSUME ExecutionInv, [Next]_vars PROVE TypeOK'
<1> USE BoundsAreNat DEF ExecutionInv, durable, market
<1>1. CASE UNCHANGED vars
  BY <1>1 DEF vars, TypeOK
<1>2. CASE ControlNext
  <2>1. CASE Bind
    BY <2>1 DEF Bind, TypeOK
  <2>2. CASE AdvancePolicy \/ Kill
    <3>1. policyEpoch' \in 0..MaxEpoch /\ bound' \in BOOLEAN
      <4>1. policyEpoch + 1 \in 0..MaxEpoch
        BY <2>2, CountsUp DEF AdvancePolicy, Kill, AdvanceState, TypeOK
      <4> QED BY <2>2, <4>1 DEF AdvancePolicy, Kill, AdvanceState
    <3> QED BY <2>2, <3>1 DEF AdvancePolicy, Kill, AdvanceState, Idle, Step, TypeOK
  <2>3. CASE ForceKilled
    BY <2>3, KilledType DEF ForceKilled, Idle, TypeOK
  <2>4. ASSUME NEW mode \in {"armed", "disarmed"}, SetMode(mode) PROVE TypeOK'
    <3>1. control' \in [mode : {"armed", "disarmed", "killed"}, generation : Nat, epoch : 0..MaxEpoch]
      <4>1. control.generation + 1 \in Nat
        BY DEF TypeOK
      <4> QED BY <2>4, <4>1 DEF SetMode, TypeOK
    <3> QED BY <2>4, <3>1 DEF SetMode, TypeOK
  <2>5. ASSUME NEW r \in receipts, DropReceipt(r) PROVE TypeOK'
    BY <2>5 DEF DropReceipt, TypeOK
  <2> QED BY <1>2, <2>1, <2>2, <2>3, <2>4, <2>5 DEF ControlNext
<1>3. CASE Crash \/ Restart
  <2>1. CASE Crash
    <3>1. crashes + 1 \in 0..MaxCrashes
      BY <2>1, CountsUp DEF Crash, TypeOK
    <3> QED BY <2>1, <3>1 DEF Crash, Idle, TypeOK
  <2>2. CASE Restart
    <3>1. RecoveredExec \in [Orders -> ExecStates] /\ RecoveredJournal \in [Orders -> JournalStates]
      BY DEF RecoveredExec, RecoveredJournal, TypeOK
    <3>2. control' \in [mode : {"armed", "disarmed", "killed"}, generation : Nat, epoch : 0..MaxEpoch]
      BY <2>2, KilledType DEF Restart, TypeOK
    <3> QED BY <2>2, <3>1, <3>2 DEF Restart, TypeOK
  <2> QED BY <1>3, <2>1, <2>2
<1>4. ASSUME NEW o \in Orders, OrderNext(o) PROVE TypeOK'
  <2>1. CASE Prepare(o)
    BY <2>1 DEF Prepare, TypeOK
  <2>2. CASE Preview(o)
    BY <2>2, HealType DEF Preview, TypeOK
  <2>3. ASSUME NEW action \in {"submit", "cancel"}, Issue(o, action) PROVE TypeOK'
    BY <2>3, HealType DEF Issue, TypeOK
  <2>4. CASE ConfirmSubmit(o) \/ ConfirmCancel(o)
    BY <2>4, HealType DEF ConfirmSubmit, ConfirmCancel, Confirm, Step, TypeOK
  <2>5. CASE BeginSubmit(o) \/ TransmitSubmit(o) \/ CompleteSubmit(o) \/ FailSubmit(o)
    BY <2>5 DEF BeginSubmit, TransmitSubmit, CompleteSubmit, FailSubmit, At, Step, Idle, TypeOK
  <2>6. CASE BeginCancel(o)
    <3>1. CASE Cancellable(o)
      BY <2>6, <3>1 DEF BeginCancel, Cancellable, At, Step, TypeOK
    <3>2. CASE ~Cancellable(o)
      BY <2>6, <3>2 DEF BeginCancel, Idle, TypeOK
    <3> QED BY <3>1, <3>2
  <2>7. CASE TransmitCancel(o)
    BY <2>7 DEF TransmitCancel, At, Step, TypeOK
  <2>8. CASE CompleteCancel(o)
    <3>1. prior[o] \in CancelSource
      BY <2>8 DEF CompleteCancel, OrderInv, RowInv
    <3>2. exec' \in [Orders -> ExecStates] /\ prior' \in [Orders -> CancelSource \cup {"none"}]
      BY <2>8, <3>1 DEF CompleteCancel, TypeOK
    <3> QED BY <2>8, <3>2 DEF CompleteCancel, Idle, TypeOK
  <2>9. CASE FailCancel(o)
    BY <2>9 DEF FailCancel, Idle, TypeOK
  <2>10. CASE BeginReconcile(o)
    BY <2>10 DEF BeginReconcile, Step, TypeOK
  <2>11. CASE QueryVenue(o)
    BY <2>11 DEF QueryVenue, At, Step, TypeOK
  <2>12. CASE CompleteReconcile(o) \/ ObserveQuery(o)
    <3>1. request.seen \in Observable
      BY <2>12 DEF CompleteReconcile, ObserveQuery, At, OrderInv, Queried, On
    <3>2. journal' \in [Orders -> JournalStates] /\ exec' \in [Orders -> ExecStates]
          /\ prior' \in [Orders -> CancelSource \cup {"none"}]
      BY <2>12, <3>1 DEF CompleteReconcile, ObserveQuery, TypeOK
    <3>3. request' \in [step : RequestSteps, order : Orders \cup {NoOrder}, seen : Observable \cup {"none"}]
      BY <2>12 DEF CompleteReconcile, ObserveQuery, Idle, TypeOK
    <3> QED BY <2>12, <3>2, <3>3 DEF CompleteReconcile, ObserveQuery, TypeOK
  <2>13. CASE FailReconcile(o)
    BY <2>13 DEF FailReconcile, Step, Idle, TypeOK
  <2>14. CASE FailQuery(o)
    <3>1. Unanswered(o) \in ExecStates
      BY DEF Unanswered, TypeOK
    <3> QED BY <2>14, <3>1 DEF FailQuery, Idle, TypeOK
  <2>15. CASE VenueSettles(o)
    BY <2>15 DEF VenueSettles, TypeOK
  <2>16. CASE VenueMoves(o)
    BY <2>16 DEF VenueMoves, TypeOK
  <2> QED BY <1>4, <2>1, <2>2, <2>3, <2>4, <2>5, <2>6, <2>7, <2>8, <2>9, <2>10, <2>11, <2>12,
            <2>13, <2>14, <2>15, <2>16 DEF OrderNext
<1> QED BY <1>1, <1>2, <1>3, <1>4 DEF Next

-----------------------------------------------------------------------------
(* Every action keeps what holds of every order.                           *)

LEMMA PrepareKeeps == ASSUME ExecutionInv, NEW o \in Orders, Prepare(o), NEW p \in Orders PROVE OrderInv(p)'
<1> USE DEF ExecutionInv, OrderInv, On, Prepare, durable, market, Serving, Idle
<1>1. Placed(p)'
  BY DEF TypeOK, Placed, Dispatching
<1>2. Dispatching(p)'
  BY DEF TypeOK, RequestInv, Placed, Dispatching, RowInv, Confirmed, Unresolved
<1>3. Queried(p)'
  BY DEF TypeOK, RequestInv, Queried, Agree
<1>4. RowInv(p)'
  BY DEF TypeOK, RequestInv, Queried, RowInv, Dispatching
<1>5. Agree(p)'
  BY DEF TypeOK, Queried, Agree, Placed, RowInv
<1> QED BY <1>1, <1>2, <1>3, <1>4, <1>5

LEMMA BeginSubmitKeeps == ASSUME ExecutionInv, NEW o \in Orders, BeginSubmit(o), NEW p \in Orders PROVE OrderInv(p)'
<1> USE DEF ExecutionInv, OrderInv, On, BeginSubmit, durable, market, At, Step
<1>1. Placed(p)'
  BY DEF TypeOK, Placed, Dispatching
<1>2. Dispatching(p)'
  BY DEF TypeOK, RequestInv, Placed, Dispatching, Confirmed
<1>3. Queried(p)'
  BY DEF TypeOK, RequestInv, Queried, Agree
<1>4. RowInv(p)'
  BY DEF TypeOK, RequestInv, Queried, RowInv, Dispatching
<1>5. Agree(p)'
  BY DEF TypeOK, Queried, Agree, Placed, RowInv
<1> QED BY <1>1, <1>2, <1>3, <1>4, <1>5

LEMMA TransmitSubmitKeeps == ASSUME ExecutionInv, NEW o \in Orders, TransmitSubmit(o), NEW p \in Orders PROVE OrderInv(p)'
<1> USE DEF ExecutionInv, OrderInv, On, TransmitSubmit, durable, market, At, Step
<1>1. Placed(p)'
  BY DEF TypeOK, Placed, Dispatching
<1>2. Dispatching(p)'
  BY DEF TypeOK, RequestInv, Placed, Dispatching, RowInv, Confirmed, Unresolved
<1>3. Queried(p)'
  BY DEF TypeOK, RequestInv, Queried, Agree
<1>4. RowInv(p)'
  BY DEF TypeOK, RequestInv, Queried, RowInv, Dispatching
<1>5. Agree(p)'
  BY DEF TypeOK, Queried, Agree, Placed, RowInv
<1> QED BY <1>1, <1>2, <1>3, <1>4, <1>5

LEMMA CompleteSubmitKeeps == ASSUME ExecutionInv, NEW o \in Orders, CompleteSubmit(o), NEW p \in Orders PROVE OrderInv(p)'
<1> USE DEF ExecutionInv, OrderInv, On, CompleteSubmit, durable, market, At, Idle
<1>1. Placed(p)'
  BY DEF TypeOK, Placed, Dispatching
<1>2. Dispatching(p)'
  BY DEF TypeOK, RequestInv, Placed, Dispatching, RowInv, Confirmed, Unresolved
<1>3. Queried(p)'
  BY DEF TypeOK, RequestInv, Queried, Agree
<1>4. RowInv(p)'
  BY DEF TypeOK, RequestInv, Queried, RowInv, Dispatching
<1>5. Agree(p)'
  BY DEF TypeOK, Queried, Agree, Placed, RowInv
<1> QED BY <1>1, <1>2, <1>3, <1>4, <1>5

LEMMA FailSubmitKeeps == ASSUME ExecutionInv, NEW o \in Orders, FailSubmit(o), NEW p \in Orders PROVE OrderInv(p)'
<1> USE DEF ExecutionInv, OrderInv, On, FailSubmit, durable, market, At, Idle
<1>1. Placed(p)'
  BY DEF TypeOK, Placed, Dispatching
<1>2. Dispatching(p)'
  BY DEF TypeOK, RequestInv, Placed, Dispatching, RowInv, Confirmed, Unresolved
<1>3. Queried(p)'
  BY DEF TypeOK, RequestInv, Queried, Agree
<1>4. RowInv(p)'
  BY DEF TypeOK, RequestInv, Queried, RowInv, Dispatching
<1>5. Agree(p)'
  BY DEF TypeOK, Queried, Agree, Placed, RowInv
<1> QED BY <1>1, <1>2, <1>3, <1>4, <1>5

LEMMA BeginCancelKeeps == ASSUME ExecutionInv, NEW o \in Orders, BeginCancel(o), NEW p \in Orders PROVE OrderInv(p)'
<1> USE DEF ExecutionInv, OrderInv, On, BeginCancel, durable, market, Cancellable, At, Step, Idle
<1>1. Placed(p)'
  BY DEF TypeOK, Placed, Dispatching
<1>2. Dispatching(p)'
  BY DEF TypeOK, RequestInv, Placed, Dispatching, RowInv, Confirmed, Unresolved
<1>3. Queried(p)'
  BY DEF TypeOK, RequestInv, Queried, Agree
<1>4. RowInv(p)'
  BY DEF TypeOK, RequestInv, Queried, RowInv, Dispatching
<1>5. Agree(p)'
  BY DEF TypeOK, Queried, Agree, Placed, RowInv
<1> QED BY <1>1, <1>2, <1>3, <1>4, <1>5

LEMMA TransmitCancelKeeps == ASSUME ExecutionInv, NEW o \in Orders, TransmitCancel(o), NEW p \in Orders PROVE OrderInv(p)'
<1> USE DEF ExecutionInv, OrderInv, On, TransmitCancel, durable, market, At, Step
<1>1. Placed(p)'
  BY DEF TypeOK, Placed, Dispatching
<1>2. Dispatching(p)'
  BY DEF TypeOK, RequestInv, Placed, Dispatching, RowInv, Confirmed, Unresolved
<1>3. Queried(p)'
  BY DEF TypeOK, RequestInv, Queried, Agree
<1>4. RowInv(p)'
  BY DEF TypeOK, RequestInv, Queried, RowInv, Dispatching
<1>5. Agree(p)'
  BY DEF TypeOK, Queried, Agree, Placed, RowInv
<1> QED BY <1>1, <1>2, <1>3, <1>4, <1>5

LEMMA CompleteCancelKeeps == ASSUME ExecutionInv, NEW o \in Orders, CompleteCancel(o), NEW p \in Orders PROVE OrderInv(p)'
<1> USE DEF ExecutionInv, OrderInv, On, CompleteCancel, durable, market, At, Idle
<1>1. Placed(p)'
  BY DEF TypeOK, Placed, Dispatching
<1>2. Dispatching(p)'
  BY DEF TypeOK, RequestInv, Placed, Dispatching, RowInv, Confirmed, Unresolved
<1>3. Queried(p)'
  BY DEF TypeOK, RequestInv, Queried, Agree
<1>4. RowInv(p)'
  BY DEF TypeOK, RequestInv, Queried, RowInv, Dispatching
<1>5. Agree(p)'
  BY DEF TypeOK, Queried, Agree, Placed, RowInv
<1> QED BY <1>1, <1>2, <1>3, <1>4, <1>5

LEMMA FailCancelKeeps == ASSUME ExecutionInv, NEW o \in Orders, FailCancel(o), NEW p \in Orders PROVE OrderInv(p)'
<1> USE DEF ExecutionInv, OrderInv, On, FailCancel, durable, market, At, Idle
<1>1. Placed(p)'
  BY DEF TypeOK, Placed, Dispatching
<1>2. Dispatching(p)'
  BY DEF TypeOK, RequestInv, Placed, Dispatching, RowInv, Confirmed, Unresolved
<1>3. Queried(p)'
  BY DEF TypeOK, RequestInv, Queried, Agree
<1>4. RowInv(p)'
  BY DEF TypeOK, RequestInv, Queried, RowInv, Dispatching
<1>5. Agree(p)'
  BY DEF TypeOK, Queried, Agree, Placed, RowInv
<1> QED BY <1>1, <1>2, <1>3, <1>4, <1>5

LEMMA BeginReconcileKeeps == ASSUME ExecutionInv, NEW o \in Orders, BeginReconcile(o), NEW p \in Orders PROVE OrderInv(p)'
<1> USE DEF ExecutionInv, OrderInv, On, BeginReconcile, durable, market, Serving, Idle, Step
<1>1. Placed(p)'
  BY DEF TypeOK, Placed, Dispatching
<1>2. Dispatching(p)'
  BY DEF TypeOK, RequestInv, Placed, Dispatching, RowInv, Confirmed, Unresolved
<1>3. Queried(p)'
  BY DEF TypeOK, RequestInv, Queried, Agree
<1>4. RowInv(p)'
  BY DEF TypeOK, RequestInv, Queried, RowInv, Dispatching
<1>5. Agree(p)'
  BY DEF TypeOK, Queried, Agree, Placed, RowInv
<1> QED BY <1>1, <1>2, <1>3, <1>4, <1>5

LEMMA QueryVenueKeeps == ASSUME ExecutionInv, NEW o \in Orders, QueryVenue(o), NEW p \in Orders PROVE OrderInv(p)'
<1> USE DEF ExecutionInv, OrderInv, On, QueryVenue, durable, market, At, Step
<1>1. Placed(p)'
  BY DEF TypeOK, Placed, Dispatching
<1>2. Dispatching(p)'
  BY DEF TypeOK, RequestInv, Placed, Dispatching, RowInv, Confirmed, Unresolved
<1>3. Queried(p)'
  BY DEF TypeOK, RequestInv, Queried, Agree
<1>4. RowInv(p)'
  BY DEF TypeOK, RequestInv, Queried, RowInv, Dispatching
<1>5. Agree(p)'
  BY DEF TypeOK, Queried, Agree, Placed, RowInv
<1> QED BY <1>1, <1>2, <1>3, <1>4, <1>5

LEMMA CompleteReconcileKeeps == ASSUME ExecutionInv, NEW o \in Orders, CompleteReconcile(o), NEW p \in Orders PROVE OrderInv(p)'
<1> USE DEF ExecutionInv, OrderInv, On, CompleteReconcile, durable, market, At, Idle
<1>1. Placed(p)'
  BY DEF TypeOK, Placed, Dispatching
<1>2. Dispatching(p)'
  BY DEF TypeOK, RequestInv, Placed, Dispatching, RowInv, Confirmed, Unresolved
<1>3. Queried(p)'
  BY DEF TypeOK, RequestInv, Queried, Agree
<1>4. RowInv(p)'
  BY DEF TypeOK, RequestInv, Queried, RowInv, Dispatching
<1>5. Agree(p)'
  BY DEF TypeOK, Queried, Agree, Placed, RowInv
<1> QED BY <1>1, <1>2, <1>3, <1>4, <1>5

LEMMA ObserveQueryKeeps == ASSUME ExecutionInv, NEW o \in Orders, ObserveQuery(o), NEW p \in Orders PROVE OrderInv(p)'
<1> USE DEF ExecutionInv, OrderInv, On, ObserveQuery, durable, market, At, Idle
<1>1. Placed(p)'
  BY DEF TypeOK, Placed, Dispatching
<1>2. Dispatching(p)'
  BY DEF TypeOK, RequestInv, Placed, Dispatching, RowInv, Confirmed, Unresolved
<1>3. Queried(p)'
  BY DEF TypeOK, RequestInv, Queried, Agree
<1>4. RowInv(p)'
  BY DEF TypeOK, RequestInv, Queried, RowInv, Dispatching
<1>5. Agree(p)'
  BY DEF TypeOK, Queried, Agree, Placed, RowInv
<1> QED BY <1>1, <1>2, <1>3, <1>4, <1>5

LEMMA FailReconcileKeeps == ASSUME ExecutionInv, NEW o \in Orders, FailReconcile(o), NEW p \in Orders PROVE OrderInv(p)'
<1> USE DEF ExecutionInv, OrderInv, On, FailReconcile, durable, market, At, Step, Idle
<1>1. Placed(p)'
  BY DEF TypeOK, Placed, Dispatching
<1>2. Dispatching(p)'
  BY DEF TypeOK, RequestInv, Placed, Dispatching, RowInv, Confirmed, Unresolved
<1>3. Queried(p)'
  BY DEF TypeOK, RequestInv, Queried, Agree
<1>4. RowInv(p)'
  BY DEF TypeOK, RequestInv, Queried, RowInv, Dispatching
<1>5. Agree(p)'
  BY DEF TypeOK, Queried, Agree, Placed, RowInv
<1> QED BY <1>1, <1>2, <1>3, <1>4, <1>5

LEMMA FailQueryKeeps == ASSUME ExecutionInv, NEW o \in Orders, FailQuery(o), NEW p \in Orders PROVE OrderInv(p)'
<1> USE DEF ExecutionInv, OrderInv, On, FailQuery, durable, market, At, Unanswered, Idle
<1>1. Placed(p)'
  BY DEF TypeOK, Placed, Dispatching
<1>2. Dispatching(p)'
  BY DEF TypeOK, RequestInv, Placed, Dispatching, RowInv, Confirmed, Unresolved
<1>3. Queried(p)'
  BY DEF TypeOK, RequestInv, Queried, Agree
<1>4. RowInv(p)'
  BY DEF TypeOK, RequestInv, Queried, RowInv, Dispatching
<1>5. Agree(p)'
  BY DEF TypeOK, Queried, Agree, Placed, RowInv
<1> QED BY <1>1, <1>2, <1>3, <1>4, <1>5

LEMMA VenueSettlesKeeps == ASSUME ExecutionInv, NEW o \in Orders, VenueSettles(o), NEW p \in Orders PROVE OrderInv(p)'
<1> USE DEF ExecutionInv, OrderInv, On, VenueSettles, durable, market
<1>0. PICK v \in {"live", "refused", "none"} : venue[o] = "none" /\ venue' = [venue EXCEPT ![o] = v]
  BY DEF Placed
<1>1. Placed(p)'
  BY <1>0 DEF TypeOK, Placed, Dispatching
<1>2. Dispatching(p)'
  BY <1>0 DEF TypeOK, RequestInv, Placed, Dispatching, RowInv, Confirmed, Unresolved
<1>3. Queried(p)'
  BY <1>0 DEF TypeOK, RequestInv, Queried, Agree
<1>4. RowInv(p)'
  BY <1>0 DEF TypeOK, RequestInv, Queried, RowInv, Dispatching
<1>5. Agree(p)'
  BY <1>0 DEF TypeOK, Queried, Agree, Placed, RowInv
<1> QED BY <1>1, <1>2, <1>3, <1>4, <1>5

LEMMA VenueMovesKeeps == ASSUME ExecutionInv, NEW o \in Orders, VenueMoves(o), NEW p \in Orders PROVE OrderInv(p)'
<1> USE DEF ExecutionInv, OrderInv, On, VenueMoves, durable, market
<1>1. Placed(p)'
  BY DEF TypeOK, Placed, Dispatching
<1>2. Dispatching(p)'
  BY DEF TypeOK, RequestInv, Placed, Dispatching, RowInv, Confirmed, Unresolved
<1>3. Queried(p)'
  BY DEF TypeOK, RequestInv, Queried, Agree
<1>4. RowInv(p)'
  BY DEF TypeOK, RequestInv, Queried, RowInv, Dispatching
<1>5. Agree(p)'
  BY DEF TypeOK, Queried, Agree, Placed, RowInv
<1> QED BY <1>1, <1>2, <1>3, <1>4, <1>5

LEMMA PreviewKeeps == ASSUME ExecutionInv, NEW o \in Orders, Preview(o), NEW p \in Orders PROVE OrderInv(p)'
<1> USE DEF ExecutionInv, OrderInv, On, Preview, durable, market, Serving, Idle, Heal, Healed, Contradicted
<1>1. Placed(p)'
  BY DEF TypeOK, Placed, Dispatching
<1>2. Dispatching(p)'
  BY DEF TypeOK, RequestInv, Placed, Dispatching, RowInv, Confirmed, Unresolved
<1>3. Queried(p)'
  BY DEF TypeOK, RequestInv, Queried, Agree
<1>4. RowInv(p)'
  BY DEF TypeOK, RequestInv, Queried, RowInv, Dispatching
<1>5. Agree(p)'
  BY DEF TypeOK, Queried, Agree, Placed, RowInv
<1> QED BY <1>1, <1>2, <1>3, <1>4, <1>5

LEMMA IssueKeeps == ASSUME ExecutionInv, NEW o \in Orders, NEW action \in {"submit", "cancel"}, Issue(o, action),
                           NEW p \in Orders
                    PROVE  OrderInv(p)'
<1> USE DEF ExecutionInv, OrderInv, On, Issue, Serving, Idle, Heal, Healed, Contradicted
<1>1. Placed(p)'
  BY DEF TypeOK, Placed, market
<1>2. Dispatching(p)'
  BY DEF TypeOK, RequestInv, Dispatching, Confirmed
<1>3. Queried(p)'
  BY DEF TypeOK, RequestInv, Queried, Agree, market
<1>4. RowInv(p)'
  BY DEF TypeOK, RequestInv, Queried, RowInv, market
<1>5. Agree(p)'
  BY DEF TypeOK, Queried, Agree, market
<1> QED BY <1>1, <1>2, <1>3, <1>4, <1>5

\* A confirmation enters the steps that rely on the envelope and on the epoch.
LEMMA ConfirmKeeps == ASSUME ExecutionInv, NEW o \in Orders, ConfirmSubmit(o) \/ ConfirmCancel(o), NEW p \in Orders
                      PROVE  OrderInv(p)'
<1> USE DEF ExecutionInv, OrderInv, On, ConfirmSubmit, ConfirmCancel, Confirm, Serving, Idle, Step, Heal
<1>1. Placed(p)'
  BY DEF TypeOK, Placed, Healed, market
<1>2. Dispatching(p)'
  <2>1. request' = Step("submit", o) \/ request' = Step("cancel", o)
    OBVIOUS
  <2>2. control.mode = "armed" /\ control.epoch = policyEpoch /\ madeIn[o] = policyEpoch
    BY DEF Reviewable, Redeemable
  <2>3. CASE ConfirmSubmit(o)
    <3>1. exec[o] = "absent" /\ exec' = exec /\ Fits(Unresolved, o)
      BY <2>3 DEF Available, SubmitAvailable, Healed, TypeOK
    <3>2. Fits(Unresolved, o)'
      BY <3>1 DEF Unresolved
    <3> QED BY <2>2, <2>3, <3>1, <3>2 DEF Dispatching, Confirmed
  <2>4. CASE ConfirmCancel(o)
    BY <2>2, <2>4 DEF Dispatching, Confirmed
  <2> QED BY <2>3, <2>4
<1>3. Queried(p)'
  BY DEF TypeOK, RequestInv, Queried, Agree, market
<1>4. RowInv(p)'
  BY DEF TypeOK, RequestInv, Queried, RowInv, Healed, market
<1>5. Agree(p)'
  BY DEF TypeOK, Queried, Agree, Contradicted, Healed, market
<1> QED BY <1>1, <1>2, <1>3, <1>4, <1>5

LEMMA ControlKeeps == ASSUME ExecutionInv, ControlNext, NEW p \in Orders PROVE OrderInv(p)'
<1> USE DEF ExecutionInv, Serving, Idle, Step, market
<1>1. /\ UNCHANGED <<exec, journal, prior, venue, wire, sent, madeIn, up>>
      /\ request.step \in {"idle", "kill"} /\ request'.step \in {"idle", "kill"}
  BY DEF ControlNext, Bind, AdvancePolicy, Kill, AdvanceState, ForceKilled, SetMode, DropReceipt
<1> QED BY <1>1 DEF OrderInv, Placed, Dispatching, Queried, RowInv, Agree, On, Confirmed

LEMMA CrashKeeps == ASSUME ExecutionInv, Crash, NEW p \in Orders PROVE OrderInv(p)'
  BY DEF ExecutionInv, OrderInv, Placed, Dispatching, Queried, RowInv, Agree, On, Confirmed, Crash, Idle, durable, market

\* Recovery leaves no row in flight, and says nothing the venue could contradict.
LEMMA RestartKeeps == ASSUME ExecutionInv, Restart, NEW p \in Orders PROVE OrderInv(p)'
<1> USE DEF ExecutionInv, OrderInv, Restart, market
<1>1. request = Idle /\ request' = Idle
  BY DEF RequestInv
<1>2. /\ exec'[p] = CASE exec[p] = "submitting" -> "unknown" [] exec[p] = "canceling" -> "cancel_unknown" [] OTHER -> exec[p]
      /\ journal'[p] = IF journal[p] = "querying" THEN "unknown" ELSE journal[p]
  BY DEF RecoveredExec, RecoveredJournal
<1> QED BY <1>1, <1>2 DEF Placed, Dispatching, Queried, RowInv, Agree, On, Confirmed, Idle

-----------------------------------------------------------------------------
(* The invariant.                                                          *)

LEMMA InitInv == Init => ExecutionInv
<1> SUFFICES ASSUME Init PROVE ExecutionInv
  OBVIOUS
<1>1. TypeOK
  <2>1. \A m \in Nat : 0 \in 0..m
    OBVIOUS
  <2>2. 0 \in 0..MaxEpoch /\ 0 \in 0..MaxCancels /\ 0 \in 0..MaxReconciles /\ 0 \in 0..MaxCrashes
    BY <2>1, BoundsAreNat
  <2>3. control \in [mode : {"armed", "disarmed", "killed"}, generation : Nat, epoch : 0..MaxEpoch]
    BY <2>2 DEF Init
  <2> QED BY <2>2, <2>3 DEF Init, Idle, TypeOK
<1>2. RequestInv /\ \A o \in Orders : OrderInv(o)
  BY DEF Init, Idle, RequestInv, OrderInv, Placed, Dispatching, Queried, RowInv, Agree, On, Confirmed
<1> QED BY <1>1, <1>2 DEF ExecutionInv

LEMMA RequestStep == ASSUME ExecutionInv, [Next]_vars PROVE RequestInv'
<1> USE DEF RequestInv, ExecutionInv, Idle, Step, Serving, At, durable, market
<1>1. CASE UNCHANGED vars
  BY <1>1 DEF vars
<1>2. CASE ControlNext
  BY <1>2 DEF ControlNext, Bind, AdvancePolicy, Kill, AdvanceState, ForceKilled, SetMode, DropReceipt
<1>3. CASE Crash \/ Restart
  BY <1>3 DEF Crash, Restart
<1>4. ASSUME NEW o \in Orders, OrderNext(o) PROVE RequestInv'
  <2>1. CASE Prepare(o) \/ Preview(o) \/ (\E action \in {"submit", "cancel"} : Issue(o, action))
    BY <2>1 DEF Prepare, Preview, Issue
  <2>2. CASE ConfirmSubmit(o) \/ BeginSubmit(o) \/ TransmitSubmit(o) \/ CompleteSubmit(o) \/ FailSubmit(o)
    BY <2>2 DEF ConfirmSubmit, Confirm, BeginSubmit, TransmitSubmit, CompleteSubmit, FailSubmit
  <2>3. CASE ConfirmCancel(o) \/ BeginCancel(o) \/ TransmitCancel(o) \/ CompleteCancel(o) \/ FailCancel(o)
    BY <2>3 DEF ConfirmCancel, Confirm, BeginCancel, TransmitCancel, CompleteCancel, FailCancel
  <2>4. CASE \/ BeginReconcile(o) \/ QueryVenue(o) \/ CompleteReconcile(o) \/ ObserveQuery(o)
             \/ FailReconcile(o) \/ FailQuery(o)
    BY <2>4 DEF BeginReconcile, QueryVenue, CompleteReconcile, ObserveQuery, FailReconcile, FailQuery, TypeOK
  <2>5. CASE VenueSettles(o) \/ VenueMoves(o)
    BY <2>5 DEF VenueSettles, VenueMoves
  <2> QED BY <1>4, <2>1, <2>2, <2>3, <2>4, <2>5 DEF OrderNext
<1> QED BY <1>1, <1>2, <1>3, <1>4 DEF Next

LEMMA OrderStep == ASSUME ExecutionInv, [Next]_vars, NEW p \in Orders PROVE OrderInv(p)'
<1>1. CASE UNCHANGED vars
  BY <1>1 DEF vars, ExecutionInv, OrderInv, Placed, Dispatching, Queried, RowInv, Agree, On, Unresolved
<1>2. CASE ControlNext \/ Crash \/ Restart
  BY <1>2, ControlKeeps, CrashKeeps, RestartKeeps
<1>3. ASSUME NEW o \in Orders, OrderNext(o) PROVE OrderInv(p)'
  BY <1>3, PrepareKeeps, PreviewKeeps, IssueKeeps, ConfirmKeeps, BeginSubmitKeeps, TransmitSubmitKeeps,
     CompleteSubmitKeeps, FailSubmitKeeps, BeginCancelKeeps, TransmitCancelKeeps, CompleteCancelKeeps,
     FailCancelKeeps, BeginReconcileKeeps, QueryVenueKeeps, CompleteReconcileKeeps, ObserveQueryKeeps,
     FailReconcileKeeps, FailQueryKeeps, VenueSettlesKeeps, VenueMovesKeeps DEF OrderNext
<1> QED BY <1>1, <1>2, <1>3 DEF Next

\* The ledgers, the venue and the request hang together in every reachable
\* state, through crashes between any two durable writes.
THEOREM ExecutionInvariance == Spec => []ExecutionInv
<1>1. ExecutionInv /\ [Next]_vars => ExecutionInv'
  BY TypeStep, RequestStep, OrderStep DEF ExecutionInv
<1> QED BY <1>1, InitInv, PTL DEF Spec

\* Type correctness of the broker's stores for any orders and bounds.
THEOREM TypeCorrect == Spec => []TypeOK
<1>1. ExecutionInv => TypeOK
  BY DEF ExecutionInv
<1> QED BY <1>1, ExecutionInvariance, PTL

\* unresolved_summary counts whatever the venue may still fill.
THEOREM OpenOrdersAreCounted == Spec => []OpenIsCounted
<1>1. ExecutionInv => OpenIsCounted
  BY DEF ExecutionInv, TypeOK, OrderInv, Placed, Agree, OpenIsCounted, Unresolved
<1> QED BY <1>1, ExecutionInvariance, PTL

\* A terminal execution row is one the journal has observed and the venue still
\* has: the fatal contradiction of observe_query is never raised.
THEOREM LedgersNeverContradict == Spec => []LedgersAgree
<1>1. ExecutionInv => LedgersAgree
  BY DEF ExecutionInv, OrderInv, Agree, LedgersAgree
<1> QED BY <1>1, ExecutionInvariance, PTL

\* A running broker has no row in flight but the one its request works on.
THEOREM RowsInFlightAreServed == Spec => []InFlightIsServed
<1>1. ExecutionInv => InFlightIsServed
  BY DEF ExecutionInv, OrderInv, RowInv, On, InFlightIsServed
<1> QED BY <1>1, ExecutionInvariance, PTL

\* No mutation is transmitted after a kill, a revoke or an advance of the policy.
THEOREM MutationsStayInEpoch == Spec => ActsInEpoch
<1>1. ASSUME ExecutionInv, [Next]_vars, NEW o \in Orders, sent'[o] # sent[o]
      PROVE  control.mode = "armed" /\ control.epoch = policyEpoch /\ madeIn[o] = policyEpoch
  <2>1. TransmitSubmit(o) \/ TransmitCancel(o)
    <3>1. ASSUME sent' = sent PROVE FALSE
      BY <1>1, <3>1
    <3>2. PICK p \in Orders : TransmitSubmit(p) \/ TransmitCancel(p)
      BY <1>1, <3>1 DEF Next, ControlNext, Bind, AdvancePolicy, Kill, AdvanceState, ForceKilled, SetMode, DropReceipt,
         Crash, Restart, OrderNext, Prepare, Preview, Issue, ConfirmSubmit, ConfirmCancel, Confirm, BeginSubmit,
         CompleteSubmit, FailSubmit, BeginCancel, CompleteCancel, FailCancel, BeginReconcile, QueryVenue,
         CompleteReconcile, ObserveQuery, FailReconcile, FailQuery, VenueSettles, VenueMoves, vars
    <3> QED BY <1>1, <3>2 DEF TransmitSubmit, TransmitCancel, ExecutionInv, TypeOK
  <2> QED BY <1>1, <2>1 DEF TransmitSubmit, TransmitCancel, At, ExecutionInv, OrderInv, Dispatching, On, Confirmed
<1>2. ExecutionInv /\ [Next]_vars => [\A o \in Orders : sent'[o] # sent[o] =>
         control.mode = "armed" /\ control.epoch = policyEpoch /\ madeIn[o] = policyEpoch]_vars
  BY <1>1
<1> QED BY <1>2, ExecutionInvariance, PTL DEF Spec, ActsInEpoch
-----------------------------------------------------------------------------
(* The refinement of OrderExposure.                                        *)

Closed == {o \in Orders : exec[o] \in Terminal}
Markets == [o \in Orders |-> Market(o)]

\* The part of an execution row the envelope sees.
SameClass(p) == /\ exec'[p] = "absent" <=> exec[p] = "absent"
                /\ exec'[p] \in Terminal <=> exec[p] \in Terminal

LEMMA SetsSame == ASSUME \A p \in Orders : SameClass(p)
                  PROVE  Unresolved' = Unresolved /\ Closed' = Closed
  BY DEF SameClass, Unresolved, Closed

\* An execution row may change among the unresolved states unseen.
LEMMA Unseen == ASSUME \A p \in Orders : SameClass(p), UNCHANGED <<venue, wire, sent>>
                PROVE  UNCHANGED Exposure!vars
<1>1. \A p \in Orders : Market(p)' = Market(p)
  BY DEF Market, SameClass
<1> QED BY <1>1, SetsSame DEF Exposure!vars, Closed, Markets

\* An order whose row becomes terminal is one the venue is done with.
LEMMA RowCloses == ASSUME ExecutionInv, NEW o \in Orders, NEW s \in Terminal, exec[o] \notin Terminal \cup {"absent"},
                          exec' = [exec EXCEPT ![o] = s], UNCHANGED <<venue, wire, sent>>,
                          venue[o] \in {"refused"} \cup Ended
                   PROVE  Exposure!Close(o)
<1>1. Market(o) = "done"
  BY DEF ExecutionInv, OrderInv, Placed, Market
<1>2. \A p \in Orders : Market(p)' = Market(p)
  BY DEF Market, ExecutionInv, TypeOK
<1>3. Unresolved' = Unresolved \ {o} /\ Closed' = Closed \cup {o} /\ o \in Unresolved
  BY DEF Unresolved, Closed, ExecutionInv, TypeOK
<1> QED BY <1>1, <1>2, <1>3 DEF Exposure!Close, Closed

LEMMA InitRefines == Init => Exposure!Init
  BY DEF Init, Exposure!Init, Unresolved, Market

\* A healed row keeps its class or is closed by what the journal observed.
LEMMA HealRefines == ASSUME ExecutionInv, NEW o \in Orders, Heal(o), UNCHANGED <<venue, wire, sent>>,
                            up, request = Idle
                     PROVE  Exposure!Close(o) \/ UNCHANGED Exposure!vars
<1>1. CASE exec[o] \notin Terminal \cup {"absent"} /\ Healed(o) \in Terminal
  <2>1. Healed(o) = journal[o] /\ venue[o] = journal[o] /\ journal[o] \in Ended
    BY <1>1 DEF Healed, ExecutionInv, OrderInv, Queried
  <2> QED BY <1>1, <2>1, RowCloses DEF Heal
<1>2. CASE ~(exec[o] \notin Terminal \cup {"absent"} /\ Healed(o) \in Terminal)
  <2>1. \A p \in Orders : SameClass(p)
    BY <1>2 DEF SameClass, Heal, Healed, Contradicted, ExecutionInv, TypeOK
  <2> QED BY <2>1, Unseen
<1> QED BY <1>1, <1>2

LEMMA StepRefines == ASSUME ExecutionInv, Next PROVE Exposure!Next \/ UNCHANGED Exposure!vars
<1> USE DEF ExecutionInv
<1>1. CASE ControlNext \/ Crash
  <2>1. UNCHANGED <<exec, venue, wire, sent>>
    BY <1>1 DEF ControlNext, Bind, AdvancePolicy, Kill, AdvanceState, ForceKilled, SetMode, DropReceipt, Crash, durable, market
  <2> QED BY <2>1, Unseen DEF SameClass
<1>2. CASE Restart
  <2>1. \A p \in Orders : SameClass(p)
    BY <1>2 DEF Restart, RecoveredExec, SameClass, TypeOK
  <2> QED BY <1>2, <2>1, Unseen DEF Restart, market
<1>3. ASSUME NEW o \in Orders, OrderNext(o) PROVE Exposure!Next \/ UNCHANGED Exposure!vars
  <2>1. CASE Prepare(o) \/ TransmitCancel(o) \/ BeginReconcile(o) \/ QueryVenue(o) \/ CompleteReconcile(o) \/ FailReconcile(o)
    <3>1. CASE TransmitCancel(o)
      <4>1. Markets' = Markets
        <5>1. \A p \in Orders : Market(p)' = Market(p)
          BY <3>1 DEF TransmitCancel, At, durable, market, Market, OrderInv, Dispatching, RowInv, Placed, On, TypeOK
        <5> QED BY <5>1 DEF Markets
      <4> QED BY <3>1, <4>1, SetsSame DEF TransmitCancel, durable, SameClass, Exposure!vars, Closed, Markets
    <3>2. CASE ~TransmitCancel(o)
      <4>1. UNCHANGED <<exec, venue, wire, sent>>
        BY <2>1, <3>2 DEF Prepare, BeginReconcile, QueryVenue, CompleteReconcile, FailReconcile, durable, market
      <4> QED BY <4>1, Unseen DEF SameClass
    <3> QED BY <3>1, <3>2
  <2>2. CASE Preview(o) \/ (\E action \in {"submit", "cancel"} : Issue(o, action)) \/ ConfirmSubmit(o) \/ ConfirmCancel(o)
    <3>1. Heal(o) /\ UNCHANGED <<venue, wire, sent>> /\ up /\ request = Idle
      BY <2>2 DEF Preview, Issue, ConfirmSubmit, ConfirmCancel, Confirm, Serving, market
    <3> QED BY <3>1, HealRefines DEF Exposure!Next
  <2>3. CASE BeginSubmit(o)
    <3>1. /\ exec[o] = "absent" /\ exec' = [exec EXCEPT ![o] = "submitting"]
          /\ UNCHANGED <<venue, wire, sent>> /\ Fits(Unresolved, o)
      BY <2>3 DEF BeginSubmit, At, OrderInv, Dispatching, On, market
    <3>2. sent[o] = 0 /\ o \notin wire /\ venue[o] = "none"
      BY <3>1 DEF OrderInv, Placed
    <3>3. Markets' = Markets
      <4>1. \A p \in Orders : Market(p)' = Market(p)
        BY <3>1, <3>2 DEF Market, TypeOK
      <4> QED BY <4>1 DEF Markets
    <3>4. Unresolved' = Unresolved \cup {o} /\ Closed' = Closed /\ o \notin Unresolved \cup Closed
      BY <3>1 DEF Unresolved, Closed, TypeOK
    <3>5. Exposure!Admit(o)
      BY <3>1, <3>3, <3>4 DEF Exposure!Admit, Closed, Markets
    <3> QED BY <3>5 DEF Exposure!Next
  <2>4. CASE TransmitSubmit(o)
    <3>1. /\ exec[o] = "submitting" /\ sent[o] = 0 /\ sent' = [sent EXCEPT ![o] = 1] /\ wire' = wire \cup {o}
          /\ UNCHANGED <<exec, venue>>
      <4>1. exec[o] = "submitting" /\ sent[o] = 0
        BY <2>4 DEF TransmitSubmit, At, OrderInv, Dispatching, On
      <4> QED BY <2>4, <4>1 DEF TransmitSubmit, durable
    <3>2. o \notin wire /\ venue[o] = "none"
      BY <3>1 DEF OrderInv, Placed
    <3>3. Market(o) = "none" /\ Market(o)' = "sent" /\ \A p \in Orders \ {o} : Market(p)' = Market(p)
      BY <3>1, <3>2 DEF Market, TypeOK
    <3>4. Markets' = [Markets EXCEPT ![o] = "sent"] /\ Markets[o] = "none"
      BY <3>3 DEF Markets
    <3>5. o \in Unresolved /\ Unresolved' = Unresolved /\ Closed' = Closed
      BY <3>1 DEF Unresolved, Closed
    <3>6. Exposure!Transmit(o)
      BY <3>4, <3>5 DEF Exposure!Transmit, Closed, Markets
    <3> QED BY <3>6 DEF Exposure!Next
  <2>5. CASE CompleteSubmit(o)
    <3>1. CASE venue[o] = "refused" /\ exec' = [exec EXCEPT ![o] = "rejected"]
      <4>1. Exposure!Close(o)
        BY <2>5, <3>1, RowCloses DEF CompleteSubmit, market
      <4> QED BY <4>1 DEF Exposure!Next
    <3>2. CASE exec' = [exec EXCEPT ![o] = "unknown"]
      <4>1. \A p \in Orders : SameClass(p)
        BY <2>5, <3>2 DEF CompleteSubmit, SameClass, TypeOK
      <4> QED BY <2>5, <4>1, Unseen DEF CompleteSubmit, market
    <3> QED BY <2>5, <3>1, <3>2 DEF CompleteSubmit
  <2>6. CASE FailSubmit(o) \/ FailCancel(o) \/ FailQuery(o)
    <3>1. \A p \in Orders : SameClass(p)
      BY <2>6 DEF FailSubmit, FailCancel, FailQuery, Unanswered, At, SameClass, OrderInv, Queried, On, TypeOK
    <3> QED BY <2>6, <3>1, Unseen DEF FailSubmit, FailCancel, FailQuery, market
  <2>7. CASE BeginCancel(o) \/ CompleteCancel(o)
    <3>1. \A p \in Orders : SameClass(p)
      <4>1. CASE BeginCancel(o)
        BY <4>1 DEF BeginCancel, Cancellable, SameClass, TypeOK
      <4>2. CASE CompleteCancel(o)
        BY <4>2 DEF CompleteCancel, SameClass, OrderInv, RowInv, TypeOK
      <4> QED BY <2>7, <4>1, <4>2
    <3> QED BY <2>7, <3>1, Unseen DEF BeginCancel, CompleteCancel, market
  <2>8. CASE ObserveQuery(o)
    <3>0. request.seen \in Observable /\ exec[o] # "absent" /\ (request.seen \in Ended => venue[o] = request.seen)
      BY <2>8 DEF ObserveQuery, At, OrderInv, Queried, On
    <3>1. CASE exec[o] \notin Terminal /\ request.seen \in Ended
      <4>1. Exposure!Close(o)
        BY <2>8, <3>0, <3>1, RowCloses DEF ObserveQuery, market
      <4> QED BY <4>1 DEF Exposure!Next
    <3>2. CASE ~(exec[o] \notin Terminal /\ request.seen \in Ended)
      <4>1. \A p \in Orders : SameClass(p)
        BY <2>8, <3>0, <3>2 DEF ObserveQuery, SameClass, TypeOK
      <4> QED BY <2>8, <4>1, Unseen DEF ObserveQuery, market
    <3> QED BY <3>1, <3>2
  <2>9. CASE VenueSettles(o)
    <3>1. venue[o] = "none" /\ exec[o] # "absent" /\ sent[o] # 0 /\ o \in wire
      BY <2>9 DEF VenueSettles, OrderInv, Placed
    <3>2. PICK v \in {"live", "refused", "none"} : venue' = [venue EXCEPT ![o] = v]
      BY <2>9, <3>1 DEF VenueSettles
    <3>3. /\ Market(o) = "sent" /\ Market(o)' \in {"open", "done"}
          /\ \A p \in Orders \ {o} : Market(p)' = Market(p)
      BY <2>9, <3>1, <3>2 DEF VenueSettles, durable, Market, TypeOK
    <3>4. PICK m \in {"open", "done"} : Markets' = [Markets EXCEPT ![o] = m] /\ Markets[o] = "sent"
      BY <3>3 DEF Markets
    <3>5. Unresolved' = Unresolved /\ Closed' = Closed
      BY <2>9 DEF VenueSettles, durable, Unresolved, Closed
    <3>6. Exposure!Settle(o)
      BY <3>4, <3>5 DEF Exposure!Settle, Closed, Markets
    <3> QED BY <3>6 DEF Exposure!Next
  <2>10. CASE VenueMoves(o)
    <3>1. PICK a \in CancelSource, b \in Observable \ {"live"} : venue[o] = a /\ venue' = [venue EXCEPT ![o] = b]
      <4>1. PICK move \in {<<"live", "partially_filled">>, <<"live", "filled">>, <<"live", "canceled">>,
                           <<"partially_filled", "filled">>, <<"partially_filled", "canceled">>} :
              venue[o] = move[1] /\ venue' = [venue EXCEPT ![o] = move[2]]
        BY <2>10 DEF VenueMoves
      <4>2. move[1] \in CancelSource /\ move[2] \in Observable \ {"live"}
        OBVIOUS
      <4> QED BY <4>1, <4>2
    <3>2. /\ exec[o] # "absent" /\ sent[o] # 0 /\ o \notin wire
          /\ Unresolved' = Unresolved /\ Closed' = Closed /\ UNCHANGED <<exec, wire, sent>>
      BY <2>10, <3>1 DEF VenueMoves, OrderInv, Placed, durable, Unresolved, Closed
    <3>3. /\ Market(o) = "open" /\ Market(o)' = IF b \in CancelSource THEN "open" ELSE "done"
          /\ \A p \in Orders \ {o} : Market(p)' = Market(p)
      BY <3>1, <3>2 DEF Market, TypeOK
    <3>4. \/ Markets' = Markets
          \/ Markets' = [Markets EXCEPT ![o] = "done"] /\ Markets[o] = "open"
      BY <3>3 DEF Markets
    <3>5. Exposure!Settle(o) \/ UNCHANGED Exposure!vars
      BY <3>2, <3>4 DEF Exposure!Settle, Exposure!vars, Closed, Markets
    <3> QED BY <3>5 DEF Exposure!Next
  <2> QED BY <1>3, <2>1, <2>2, <2>3, <2>4, <2>5, <2>6, <2>7, <2>8, <2>9, <2>10 DEF OrderNext
<1> QED BY <1>1, <1>2, <1>3 DEF Next

\* The broker, with its ledgers, crashes and stale reviews, keeps the promise
\* of OrderExposure: an order is admitted once while the envelope has room,
\* transmitted once, and leaves the envelope only when the venue is done.
THEOREM BrokerImplementsExposure == Spec => ImplementsExposure
<1>1. ExecutionInv /\ [Next]_vars => [Exposure!Next]_(Exposure!vars)
  <2>1. ASSUME UNCHANGED vars PROVE UNCHANGED Exposure!vars
    BY <2>1, Unseen DEF vars, SameClass
  <2> QED BY <2>1, StepRefines
<1> QED BY <1>1, InitRefines, ExecutionInvariance, PTL DEF Spec, ImplementsExposure, Exposure!Spec
-----------------------------------------------------------------------------
(* Every transmission has a receipt of its own.                            *)

Held(o) == {r \in receipts : r.order = o}
Spent(o) == IF On(o, Confirmed) THEN 1 ELSE 0    \* consumed and not yet transmitted
Open(o) == IF Held(o) = {} THEN 0 ELSE 1         \* issued and not yet consumed

\* An order has at most one open receipt, and what was transmitted, what is
\* about to be and what may still be consumed were issued one by one.
Receipted(o) == /\ \A r, s \in Held(o) : r = s
                /\ sent[o] + Spent(o) + Open(o) <= issued[o]

ReceiptInv == \A o \in Orders : Receipted(o)

LEMMA DropKeeps == ASSUME ExecutionInv, ReceiptInv, receipts' \subseteq receipts, UNCHANGED <<sent, issued>>,
                          \A p \in Orders : On(p, Confirmed)' => On(p, Confirmed)
                   PROVE  ReceiptInv'
<1> SUFFICES ASSUME NEW p \in Orders PROVE Receipted(p)'
  BY DEF ReceiptInv
<1>1. Held(p)' \subseteq Held(p)
  BY DEF Held
<1>2. Open(p)' <= Open(p) /\ Open(p)' \in Nat /\ Open(p) \in Nat
  BY <1>1 DEF Open
<1>3. Spent(p)' <= Spent(p) /\ Spent(p)' \in Nat /\ Spent(p) \in Nat
  BY DEF Spent
<1>4. sent[p] \in Nat /\ issued[p] \in Nat /\ sent[p] + Spent(p) + Open(p) <= issued[p]
  BY DEF ReceiptInv, Receipted, ExecutionInv, TypeOK
<1>5. sent'[p] + Spent(p)' + Open(p)' <= issued'[p]
  BY <1>2, <1>3, <1>4
<1> QED BY <1>1, <1>5 DEF ReceiptInv, Receipted

LEMMA TransmitSpends == ASSUME ExecutionInv, ReceiptInv, NEW o \in Orders, TransmitSubmit(o) \/ TransmitCancel(o)
                        PROVE  ReceiptInv'
<1> SUFFICES ASSUME NEW p \in Orders PROVE Receipted(p)'
  BY DEF ReceiptInv
<1>1. /\ UNCHANGED <<receipts, issued>> /\ sent' = [sent EXCEPT ![o] = @ + 1]
      /\ On(o, Confirmed) /\ \A q \in Orders : ~On(q, Confirmed)'
  BY DEF TransmitSubmit, TransmitCancel, At, Step, On, Confirmed, durable
<1>2. Held(p)' = Held(p) /\ Open(p)' = Open(p) /\ Open(p) \in Nat
  BY <1>1 DEF Held, Open
<1>3. sent[p] \in Nat /\ issued[p] \in Nat /\ sent[p] + Spent(p) + Open(p) <= issued[p]
  BY DEF ReceiptInv, Receipted, ExecutionInv, TypeOK
<1>4. Spent(p)' = 0 /\ Spent(p) \in {0, 1} /\ (p = o => Spent(p) = 1)
  BY <1>1 DEF Spent
<1>5. sent'[p] = IF p = o THEN sent[p] + 1 ELSE sent[p]
  BY <1>1 DEF ExecutionInv, TypeOK
<1>6. sent'[p] + Spent(p)' + Open(p)' <= issued'[p]
  BY <1>1, <1>2, <1>3, <1>4, <1>5
<1> QED BY <1>2, <1>6 DEF ReceiptInv, Receipted

LEMMA IssueAdds == ASSUME ExecutionInv, ReceiptInv, NEW o \in Orders, NEW action \in {"submit", "cancel"}, Issue(o, action)
                   PROVE  ReceiptInv'
<1> DEFINE d == Digest(o, action)
<1> SUFFICES ASSUME NEW p \in Orders PROVE Receipted(p)'
  BY DEF ReceiptInv
<1>1. /\ receipts' = receipts \cup {d} /\ d.order = o /\ Held(o) = {} /\ UNCHANGED <<sent, request>>
      /\ issued' = [issued EXCEPT ![o] = @ + 1]
  BY DEF Issue, Digest, Held
<1>2. Held(p)' = IF p = o THEN {d} ELSE Held(p)
  BY <1>1 DEF Held
<1>3. sent[p] \in Nat /\ issued[p] \in Nat /\ sent[p] + Spent(p) + Open(p) <= issued[p]
  BY DEF ReceiptInv, Receipted, ExecutionInv, TypeOK
<1>4. Spent(p)' = Spent(p) /\ Spent(p) \in Nat
  BY <1>1 DEF Spent, On
<1>5. Open(p)' = (IF p = o THEN 1 ELSE Open(p)) /\ (p = o => Open(p) = 0) /\ Open(p) \in Nat
  BY <1>1, <1>2 DEF Open
<1>6. issued'[p] = IF p = o THEN issued[p] + 1 ELSE issued[p]
  BY <1>1 DEF ExecutionInv, TypeOK
<1>7. sent'[p] + Spent(p)' + Open(p)' <= issued'[p]
  BY <1>1, <1>3, <1>4, <1>5, <1>6
<1> QED BY <1>2, <1>7 DEF ReceiptInv, Receipted

LEMMA ConfirmSpends == ASSUME ExecutionInv, ReceiptInv, NEW o \in Orders, NEW action \in {"submit", "cancel"},
                              NEW next \in {"submit", "cancel"}, Confirm(o, action, next)
                       PROVE  ReceiptInv'
<1> DEFINE d == Digest(o, action)
<1> SUFFICES ASSUME NEW p \in Orders PROVE Receipted(p)'
  BY DEF ReceiptInv
<1>1. /\ receipts' = receipts \ {d} /\ d \in receipts /\ d.order = o /\ UNCHANGED <<sent, issued>>
      /\ request' = Step(next, o) /\ request = Idle
  BY DEF Confirm, Redeemable, Redeem, Digest, Serving
<1>2. Held(p)' = (IF p = o THEN {} ELSE Held(p)) /\ (p = o => Held(p) # {})
  BY <1>1 DEF Held, ReceiptInv, Receipted
<1>3. sent[p] \in Nat /\ issued[p] \in Nat /\ sent[p] + Spent(p) + Open(p) <= issued[p]
  BY DEF ReceiptInv, Receipted, ExecutionInv, TypeOK
<1>4. Spent(p)' = (IF p = o THEN 1 ELSE 0) /\ Spent(p) = 0
  BY <1>1 DEF Spent, On, Confirmed, Step, Idle
<1>5. Open(p)' = (IF p = o THEN 0 ELSE Open(p)) /\ (p = o => Open(p) = 1) /\ Open(p) \in Nat
  BY <1>2 DEF Open
<1>6. sent'[p] + Spent(p)' + Open(p)' <= issued'[p]
  BY <1>1, <1>3, <1>4, <1>5
<1> QED BY <1>2, <1>6 DEF ReceiptInv, Receipted

LEMMA ReceiptStep == ASSUME ExecutionInv, ReceiptInv, [Next]_vars PROVE ReceiptInv'
<1>1. CASE UNCHANGED vars
  BY <1>1, DropKeeps DEF vars, On
<1>2. CASE ControlNext \/ Crash \/ Restart
  BY <1>2, DropKeeps DEF ControlNext, Bind, AdvancePolicy, Kill, AdvanceState, ForceKilled, SetMode, DropReceipt,
     Crash, Restart, On, Confirmed, Idle, Step, Serving, durable
<1>3. ASSUME NEW o \in Orders, OrderNext(o) PROVE ReceiptInv'
  <2>1. CASE Prepare(o) \/ Preview(o) \/ VenueSettles(o) \/ VenueMoves(o)
    BY <2>1, DropKeeps DEF Prepare, Preview, VenueSettles, VenueMoves, On, durable
  <2>2. ASSUME NEW action \in {"submit", "cancel"}, Issue(o, action) PROVE ReceiptInv'
    BY <2>2, IssueAdds
  <2>3. CASE ConfirmSubmit(o) \/ ConfirmCancel(o)
    BY <2>3, ConfirmSpends DEF ConfirmSubmit, ConfirmCancel
  <2>4. CASE TransmitSubmit(o) \/ TransmitCancel(o)
    BY <2>4, TransmitSpends
  <2>5. CASE BeginSubmit(o) \/ CompleteSubmit(o) \/ FailSubmit(o) \/ BeginCancel(o) \/ CompleteCancel(o) \/ FailCancel(o)
    BY <2>5, DropKeeps DEF BeginSubmit, CompleteSubmit, FailSubmit, BeginCancel, CompleteCancel, FailCancel,
       At, On, Confirmed, Idle, Step
  <2>6. CASE \/ BeginReconcile(o) \/ QueryVenue(o) \/ CompleteReconcile(o) \/ ObserveQuery(o)
             \/ FailReconcile(o) \/ FailQuery(o)
    <3>1. UNCHANGED <<receipts, sent, issued>>
      BY <2>6 DEF BeginReconcile, QueryVenue, CompleteReconcile, ObserveQuery, FailReconcile, FailQuery, durable
    <3>2. request'.step \notin Confirmed
      BY <2>6 DEF BeginReconcile, QueryVenue, CompleteReconcile, ObserveQuery, FailReconcile, FailQuery,
         Confirmed, Idle, Step, ExecutionInv, TypeOK
    <3> QED BY <3>1, <3>2, DropKeeps DEF On
  <2> QED BY <1>3, <2>1, <2>2, <2>3, <2>4, <2>5, <2>6 DEF OrderNext
<1> QED BY <1>1, <1>2, <1>3 DEF Next

\* Every submit and cancel transmitted was confirmed by a receipt of its own,
\* which no crash, retry or stale receipt lets a second one use.
THEOREM TransmissionsAreConfirmed == Spec => []SentIsConfirmed
<1>1. Init => ReceiptInv
  BY DEF Init, ReceiptInv, Receipted, Held, Open, Spent, On, Confirmed, Idle
<1>2. ExecutionInv /\ ReceiptInv /\ [Next]_vars => ReceiptInv'
  BY ReceiptStep
<1>3. ASSUME ExecutionInv, ReceiptInv PROVE SentIsConfirmed
  <2> SUFFICES ASSUME NEW o \in Orders PROVE sent[o] <= issued[o] - Cardinality(Held(o))
    BY DEF SentIsConfirmed, Held
  <2>1. Cardinality(Held(o)) = Open(o)
    <3>1. CASE Held(o) = {}
      BY <3>1, FS_EmptySet DEF Open
    <3>2. CASE Held(o) # {}
      <4>1. PICK r \in Held(o) : Held(o) = {r}
        BY <1>3, <3>2 DEF ReceiptInv, Receipted
      <4> QED BY <3>2, <4>1, FS_Singleton DEF Open
    <3> QED BY <3>1, <3>2
  <2>2. sent[o] \in Nat /\ issued[o] \in Nat /\ Open(o) \in {0, 1} /\ Spent(o) \in {0, 1}
    BY <1>3 DEF ExecutionInv, TypeOK, Open, Spent
  <2>3. sent[o] + Spent(o) + Open(o) <= issued[o]
    BY <1>3 DEF ReceiptInv, Receipted
  <2> QED BY <2>1, <2>2, <2>3
<1> QED BY <1>1, <1>2, <1>3, ExecutionInvariance, PTL DEF Spec

-----------------------------------------------------------------------------
(* The envelope.  Total is a fold over a set, a recursive function on the  *)
(* subsets; its laws are found by the smallest set that would break them.  *)

First(S) == CHOOSE o \in S : TRUE
Sums(f, S) == f = [s \in SUBSET S |-> IF s = {} THEN 0 ELSE Notional[First(s)] + f[s \ {First(s)}]]
Unfolds(S) == Total(S) = IF S = {} THEN 0 ELSE Notional[First(S)] + Total(S \ {First(S)})

LEMMA TotalIsFold == ASSUME NEW S PROVE Total(S) = (CHOOSE f : Sums(f, S))[S]
  BY DEF Total, MapThenSumSet, MapThenFoldSet, Sums, First

\* Every set of sets of orders has one of the least size.
LEMMA SmallestExists == ASSUME NEW S, IsFiniteSet(S), NEW F \in SUBSET (SUBSET S), F # {}
                        PROVE  \E b \in F : \A c \in F : Cardinality(b) <= Cardinality(c)
<1> DEFINE sizes == {Cardinality(s) : s \in F}
<1>1. sizes \in SUBSET Nat /\ sizes # {}
  BY FS_Subset, FS_CardinalityType
<1>2. PICK n \in sizes : \A m \in sizes : n <= m
  BY <1>1, MinExists
<1> QED BY <1>2

\* A set is larger than what is left when one element leaves.
LEMMA SmallerWithout == ASSUME NEW S, IsFiniteSet(S), NEW x \in S
                        PROVE  /\ IsFiniteSet(S \ {x})
                               /\ ~(Cardinality(S) <= Cardinality(S \ {x}))
<1>1. /\ IsFiniteSet(S \ {x}) /\ Cardinality(S) \in Nat
      /\ Cardinality(S \ {x}) = Cardinality(S) - 1
  BY FS_RemoveElement, FS_CardinalityType
<1> QED BY <1>1

LEMMA SmallerSubset == ASSUME NEW S, IsFiniteSet(S), NEW T \in SUBSET S, T # S
                       PROVE  IsFiniteSet(T) /\ ~(Cardinality(S) <= Cardinality(T))
  BY FS_Subset, FS_CardinalityType

LEMMA FirstIsIn == ASSUME NEW S, S # {} PROVE First(S) \in S
  BY DEF First

LEMMA SumsUnique == ASSUME NEW S, IsFiniteSet(S), NEW g, NEW h, Sums(g, S), Sums(h, S), NEW s \in SUBSET S
                    PROVE  g[s] = h[s]
<1> DEFINE Bad == {t \in SUBSET S : g[t] # h[t]}
<1>1. SUFFICES ASSUME Bad # {} PROVE FALSE
  OBVIOUS
<1>2. PICK b \in Bad : \A c \in Bad : Cardinality(b) <= Cardinality(c)
  BY <1>1, SmallestExists
<1>3. IsFiniteSet(b) /\ b \in SUBSET S
  BY <1>2, FS_Subset
<1>4. CASE b = {}
  BY <1>2, <1>3, <1>4 DEF Sums
<1>5. CASE b # {}
  <2>1. PICK x \in b : x = First(b)
    BY <1>5, FirstIsIn
  <2>2. b \ {x} \in SUBSET S /\ b \ {x} \notin Bad
    BY <1>2, <1>3, SmallerWithout
  <2>3. g[b \ {x}] = h[b \ {x}]
    BY <2>2
  <2>4. g[b] = Notional[x] + g[b \ {x}] /\ h[b] = Notional[x] + h[b \ {x}]
    BY <1>3, <1>5, <2>1 DEF Sums
  <2> QED BY <1>2, <2>3, <2>4
<1> QED BY <1>4, <1>5

\* The total of a set is the notional of one of its orders and the total of the rest.
LEMMA TotalUnfolds == ASSUME NEW S, IsFiniteSet(S) PROVE Unfolds(S)
<1> DEFINE Bad == {t \in SUBSET S : ~Unfolds(t)}
<1>1. SUFFICES ASSUME Bad # {} PROVE FALSE
  OBVIOUS
<1>2. PICK b \in Bad : \A c \in Bad : Cardinality(b) <= Cardinality(c)
  BY <1>1, SmallestExists
<1>3. IsFiniteSet(b) /\ b \in SUBSET S /\ ~Unfolds(b)
  BY <1>2, FS_Subset
<1>4. ASSUME NEW c \in SUBSET b, c # b PROVE Unfolds(c)
  BY <1>2, <1>3, <1>4, SmallerSubset
<1> DEFINE value(s) == IF s = {} THEN 0 ELSE Notional[First(s)] + Total(s \ {First(s)})
           h == [s \in SUBSET b |-> value(s)]
<1>5. ASSUME NEW s \in SUBSET b, s # {} PROVE h[s] = Notional[First(s)] + h[s \ {First(s)}]
  <2>1. PICK x \in s : x = First(s)
    BY <1>5, FirstIsIn
  <2>2. s \ {x} \in SUBSET b /\ s \ {x} # b
    BY <2>1
  <2>3. Total(s \ {x}) = value(s \ {x})
    BY <2>2, <1>4 DEF Unfolds
  <2>4. h[s \ {x}] = value(s \ {x}) /\ h[s] = Notional[x] + Total(s \ {x})
    BY <2>1, <2>2, <1>5
  <2> QED BY <2>1, <2>3, <2>4
<1>6. Sums(h, b)
  <2> DEFINE k == [s \in SUBSET b |-> IF s = {} THEN 0 ELSE Notional[First(s)] + h[s \ {First(s)}]]
  <2>1. h = [s \in SUBSET b |-> h[s]]
    OBVIOUS
  <2>2. \A s \in SUBSET b : h[s] = IF s = {} THEN 0 ELSE Notional[First(s)] + h[s \ {First(s)}]
    BY <1>5
  <2> HIDE DEF h
  <2> QED BY <2>1, <2>2 DEF Sums
<1> DEFINE g == CHOOSE f : Sums(f, b)
<1>7. Sums(g, b)
  BY <1>6
<1>8. h[b] = value(b) /\ Total(b) = g[b]
  BY TotalIsFold
<1> HIDE DEF g, h
<1>9. g[b] = h[b]
  BY <1>3, <1>6, <1>7, SumsUnique
<1> QED BY <1>3, <1>8, <1>9 DEF Unfolds

\* An order adds its notional, whichever order of summation the fold takes.
Adds(S) == /\ Total(S) \in Nat
           /\ \A o \in Orders \ S : Total(S \cup {o}) = Total(S) + Notional[o]

LEMMA TotalAdds == ASSUME NEW S \in SUBSET Orders, IsFiniteSet(S) PROVE Adds(S)
<1> DEFINE Bad == {t \in SUBSET S : ~Adds(t)}
<1>1. SUFFICES ASSUME Bad # {} PROVE FALSE
  OBVIOUS
<1>2. PICK b \in Bad : \A c \in Bad : Cardinality(b) <= Cardinality(c)
  BY <1>1, SmallestExists
<1>3. IsFiniteSet(b) /\ b \in SUBSET S /\ ~Adds(b)
  BY <1>2, FS_Subset
<1>4. ASSUME NEW x \in b
      PROVE  Adds(b \ {x}) /\ Total(b) = Total(b \ {x}) + Notional[x]
  <2>1. Adds(b \ {x})
    BY <1>2, <1>3, <1>4, SmallerWithout
  <2>2. (b \ {x}) \cup {x} = b /\ x \in Orders \ (b \ {x})
    BY <1>3, <1>4
  <2> QED BY <2>1, <2>2 DEF Adds
<1>5. \A o \in Orders : Notional[o] \in Nat
  BY BoundsAssumption
<1>6. Total(b) \in Nat
  <2>1. CASE b = {}
    <3>1. Unfolds(b)
      BY <1>3, TotalUnfolds
    <3> QED BY <2>1, <3>1 DEF Unfolds
  <2>2. ASSUME NEW x \in b PROVE Total(b) \in Nat
    <3>1. Total(b \ {x}) \in Nat /\ Notional[x] \in Nat
      BY <1>3, <1>4, <1>5, <2>2 DEF Adds
    <3> QED BY <1>4, <3>1
  <2> QED BY <2>1, <2>2
<1>7. ASSUME NEW o \in Orders \ b PROVE Total(b \cup {o}) = Total(b) + Notional[o]
  <2> DEFINE V == b \cup {o}
  <2>1. IsFiniteSet(V) /\ V # {}
    BY <1>3, FS_AddElement
  <2>2. PICK x \in V : x = First(V)
    BY <2>1, FirstIsIn
  <2>3. Total(V) = Notional[x] + Total(V \ {x})
    BY <2>1, <2>2, TotalUnfolds DEF Unfolds
  <2>4. CASE x = o
    <3>1. V \ {x} = b
      BY <2>4
    <3>2. Total(V) = Notional[o] + Total(b) /\ Notional[o] \in Nat
      BY <2>3, <2>4, <3>1, <1>5
    <3> HIDE DEF V
    <3>3. Total(V) = Total(b) + Notional[o]
      BY <3>2, <1>6
    <3> QED BY <3>3 DEF V
  <2>5. CASE x # o
    <3>1. x \in b /\ V \ {x} = (b \ {x}) \cup {o} /\ o \in Orders \ (b \ {x}) /\ x \in Orders
      BY <2>2, <2>5, <1>3
    <3>2. Total(V \ {x}) = Total(b \ {x}) + Notional[o] /\ Total(b \ {x}) \in Nat
      BY <3>1, <1>4 DEF Adds
    <3>3. Total(b) = Total(b \ {x}) + Notional[x]
      BY <3>1, <1>4
    <3> HIDE DEF V
    <3>4. Total(V) = Total(b) + Notional[o]
      BY <2>3, <3>1, <3>2, <3>3, <1>5
    <3> QED BY <3>4 DEF V
  <2> QED BY <2>4, <2>5
<1> QED BY <1>3, <1>6, <1>7 DEF Adds

EnvelopeInv == IsFiniteSet(Unresolved) /\ EnvelopeHolds

\* An admission stays inside the envelope, whatever leaves makes room.
LEMMA EnvelopeKept == ASSUME ExecutionInv, EnvelopeInv, [Next]_vars PROVE EnvelopeInv'
<1> DEFINE S == Unresolved
<1>1. S \in SUBSET Orders /\ IsFiniteSet(S) /\ Cardinality(S) \in Nat /\ Adds(S)
  BY TotalAdds, FS_CardinalityType DEF EnvelopeInv, Unresolved
<1>2. /\ MaxUnresolved \in Nat /\ MaxNotional \in Nat /\ \A o \in Orders : Notional[o] \in Nat
      /\ Cardinality(S) <= MaxUnresolved /\ Total(S) <= MaxNotional
  BY BoundsAssumption DEF EnvelopeInv, EnvelopeHolds
<1>3. \/ S' = S
      \/ \E o \in Orders : o \notin S /\ Fits(S, o) /\ S' = S \cup {o}
      \/ \E o \in Orders : o \in S /\ S' = S \ {o}
  <2>1. Exposure!Next \/ UNCHANGED Exposure!vars
    <3>1. ASSUME UNCHANGED vars PROVE UNCHANGED Exposure!vars
      BY <3>1, Unseen DEF vars, SameClass
    <3> QED BY <3>1, StepRefines
  <2> QED BY <2>1 DEF Exposure!Next, Exposure!vars, Exposure!Admit, Exposure!Transmit,
        Exposure!Settle, Exposure!Close
<1> HIDE DEF S
<1>4. /\ IsFiniteSet(S') /\ Cardinality(S') <= MaxUnresolved /\ Total(S') <= MaxNotional
  <2>1. CASE S' = S
    BY <2>1, <1>1, <1>2
  <2>2. ASSUME NEW o \in Orders, o \notin S, Fits(S, o), S' = S \cup {o}
        PROVE  IsFiniteSet(S') /\ Cardinality(S') <= MaxUnresolved /\ Total(S') <= MaxNotional
    <3>1. IsFiniteSet(S \cup {o}) /\ Cardinality(S \cup {o}) = Cardinality(S) + 1
      BY <1>1, <2>2, FS_AddElement
    <3>2. Total(S \cup {o}) = Total(S) + Notional[o]
      BY <1>1, <2>2 DEF Adds
    <3>3. Cardinality(S) < MaxUnresolved /\ Total(S) + Notional[o] <= MaxNotional
      BY <2>2 DEF Fits
    <3> QED BY <2>2, <3>1, <3>2, <3>3, <1>1, <1>2
  <2>3. ASSUME NEW o \in Orders, o \in S, S' = S \ {o}
        PROVE  IsFiniteSet(S') /\ Cardinality(S') <= MaxUnresolved /\ Total(S') <= MaxNotional
    <3> DEFINE R == S \ {o}
    <3>1. IsFiniteSet(R) /\ Cardinality(R) = Cardinality(S) - 1
      BY <1>1, <2>3, FS_RemoveElement
    <3>2. Adds(R) /\ R \cup {o} = S /\ o \in Orders \ R
      BY <1>1, <2>3, <3>1, TotalAdds
    <3>3. Total(S) = Total(R) + Notional[o] /\ Total(R) \in Nat
      BY <3>2 DEF Adds
    <3> HIDE DEF R
    <3>4. S' = R
      BY <2>3 DEF R
    <3> QED BY <3>1, <3>3, <3>4, <1>1, <1>2
  <2> QED BY <1>3, <2>1, <2>2, <2>3
<1>5. Total(S') = Total(S)'
  BY DEF Total, MapThenSumSet, MapThenFoldSet
<1> QED BY <1>4, <1>5 DEF S, EnvelopeInv, EnvelopeHolds

\* The unresolved orders never exceed the demo envelope, in number or in value,
\* over crashes, lost answers and stale reviews.
THEOREM EnvelopeIsKept == Spec => []EnvelopeHolds
<1>1. Init => EnvelopeInv
  <2> SUFFICES ASSUME Init PROVE EnvelopeInv
    OBVIOUS
  <2>1. Unresolved = {}
    BY DEF Init, Unresolved
  <2>2. Total({}) = 0
    BY TotalUnfolds, FS_EmptySet DEF Unfolds
  <2> QED BY <2>1, <2>2, FS_EmptySet, BoundsAssumption DEF EnvelopeInv, EnvelopeHolds
<1>2. EnvelopeInv => EnvelopeHolds
  BY DEF EnvelopeInv
<1> QED BY <1>1, <1>2, EnvelopeKept, ExecutionInvariance, PTL DEF Spec
=============================================================================
