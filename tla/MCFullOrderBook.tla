--------------------------- MODULE MCFullOrderBook ---------------------------
(* Small exchanges for TLC: bids on the low ticks, asks on the high ones.  *)
EXTENDS FullOrderBook

CONSTANTS BidTicks, AskTicks,  \* levels present in the initial book
          MovingBids, MovingAsks \* levels that may change

MCInitialBook ==
  [s \in Side |-> [p \in Prices |->
     IF p \in (IF s = "bid" THEN BidTicks ELSE AskTicks) THEN 1 ELSE 0]]

MCMovingLevels == ({"bid"} \X MovingBids) \cup ({"ask"} \X MovingAsks)
=============================================================================
