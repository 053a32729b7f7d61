---------------------------- MODULE OrderExposure ----------------------------
(* What the live execution broker promises about money at a venue, stated  *)
(* without its ledgers: an order is admitted into the risk envelope before *)
(* it is transmitted, is transmitted at most once, and leaves the envelope *)
(* only when the venue is done with it.  The broker learns of the venue    *)
(* late, so an order may stay counted for as long as it likes.             *)
EXTENDS FiniteSets

CONSTANTS Orders,
          Fits(_, _)   \* Fits(S, o): the envelope has room for o beside S

VARIABLES counted,     \* orders that use the envelope
          closed,      \* orders that have left it
          market       \* what the world may still do with an order

vars == <<counted, closed, market>>

MarketStates == {"none", "sent", "open", "done"}

Init == /\ counted = {}
        /\ closed = {}
        /\ market = [o \in Orders |-> "none"]

\* An order is admitted once, while the envelope has room.
Admit(o) == /\ o \notin counted \cup closed
            /\ Fits(counted, o)
            /\ counted' = counted \cup {o}
            /\ UNCHANGED <<closed, market>>

\* An admitted order is transmitted, once.
Transmit(o) == /\ o \in counted
               /\ market[o] = "none"
               /\ market' = [market EXCEPT ![o] = "sent"]
               /\ UNCHANGED <<counted, closed>>

\* A transmission becomes an open order, or ends without one.
Settle(o) == /\ \/ market[o] = "sent" /\ \E m \in {"open", "done"} : market' = [market EXCEPT ![o] = m]
                \/ market[o] = "open" /\ market' = [market EXCEPT ![o] = "done"]
             /\ UNCHANGED <<counted, closed>>

\* The order leaves the envelope: the venue can no longer fill it.
Close(o) == /\ o \in counted
            /\ market[o] = "done"
            /\ counted' = counted \ {o}
            /\ closed' = closed \cup {o}
            /\ UNCHANGED market

Next == \E o \in Orders : Admit(o) \/ Transmit(o) \/ Settle(o) \/ Close(o)

Spec == Init /\ [][Next]_vars

\* Orders the venue may still fill.
Exposed == {o \in Orders : market[o] \in {"sent", "open"}}

\* Whatever the venue may still fill is inside the envelope.
ExposureIsCounted == Exposed \subseteq counted

\* An order outside the envelope that was transmitted is over.
ClosedIsOver == \A o \in closed : market[o] = "done"
=============================================================================
