---------------------------- MODULE FullOrderBook ----------------------------
(***************************************************************************)
(* FullOrderBookEngine of market_data/full_order_book.py, for one physical *)
(* stream: it reconstructs an exchange's order book from one finite REST   *)
(* snapshot and the diff stream that follows it, and gives up              *)
(* ("resync_required") as soon as it cannot prove continuity.              *)
(*                                                                         *)
(* The exchange is part of the model: history[n] is its true book right    *)
(* after update n, so the local book can be compared with the truth.  A    *)
(* diff event covers a range of updates and carries, for every level they  *)
(* touched, its absolute quantity after the last of them.  The channel is  *)
(* unreliable: it may lose, repeat, reorder and re-frame diff events, and  *)
(* a REST snapshot may be of any age.                                      *)
(*                                                                         *)
(* Left out: stream identities and epochs (FullBookService models them),   *)
(* timestamps, metrics and the lazily materialised projections.            *)
(***************************************************************************)
EXTENDS Integers, Sequences, FiniteSets

CONSTANTS
  MaxPrice,            \* prices are the ticks 1..MaxPrice
  Quantities,          \* level quantities, positive integers
  Markets,             \* market types of the streams: Binance spot links diffs
                       \* by U/u, futures by pu
  SnapshotLimit,       \* rows per side a REST snapshot returns
  MaxLevels,           \* max_levels_per_side
  MaxBuffered,         \* max_buffered_deltas_per_stream
  MaxUpdatesPerDelta,  \* max_updates_per_delta
  MaxBufferedUpdates,  \* max_buffered_level_updates
  InitialBook,         \* the exchange's book at update 1
  MovingLevels,        \* the <<side, price>> the exchange changes
  MaxUpdates           \* bound: the exchange stops at this update id

Prices == 1..MaxPrice
Side == {"bid", "ask"}
NoPrice == 0
NoId == 0
Book == [Side -> [Prices -> Quantities \cup {0}]]
EmptyBook == [s \in Side |-> [p \in Prices |-> 0]]

-----------------------------------------------------------------------------
(* Order books: a level is present when its quantity is not zero.          *)

Better(s, p, q) == IF s = "bid" THEN p > q ELSE p < q

LevelsOf(b, s) == {p \in Prices : b[s][p] # 0}

TwoSided(b) == \A s \in Side : LevelsOf(b, s) # {}

Uncrossed(b) ==
  \A p \in LevelsOf(b, "bid"), q \in LevelsOf(b, "ask") : p < q

\* The n best levels of one side.
Top(b, s, n) ==
  {p \in LevelsOf(b, s) : Cardinality({q \in LevelsOf(b, s) : Better(s, q, p)}) < n}

TopOf(b, n) ==
  [s \in Side |-> [p \in Prices |-> IF p \in Top(b, s, n) THEN b[s][p] ELSE 0]]

ASSUME ConstantsAssumption ==
  /\ MaxPrice \in Nat \ {0}
  /\ Quantities \subseteq Nat \ {0}
  /\ Markets \subseteq {"spot", "futures"}
  /\ {SnapshotLimit, MaxLevels, MaxBuffered, MaxUpdatesPerDelta,
      MaxBufferedUpdates, MaxUpdates} \subseteq Nat \ {0}
  /\ InitialBook \in Book /\ TwoSided(InitialBook) /\ Uncrossed(InitialBook)
  /\ MovingLevels \subseteq Side \X Prices

-----------------------------------------------------------------------------
VARIABLES
  market,     \* market type of the physical stream, fixed for its life
  history,    \* the exchange: its book after each update id
  status,     \* FullOrderBookState
  book,       \* bids and asks
  buffered,   \* diff events waiting for a REST snapshot
  bufferedUpdates, \* level updates held in buffered
  lastId,     \* last_update_id
  lastFirst,  \* first id of the last applied delta (its signature, given lastId)
  trusted,    \* trusted_{bid,ask}_depth
  boundary,   \* trimmed_{bid,ask}_boundary
  failure,    \* FullOrderBookFailure
  seedEdge    \* history variable: worst seed price of a side, NoPrice when the
              \* seed held the whole side

exchangeVars == <<market, history>>
engineVars == <<status, book, buffered, bufferedUpdates, lastId, lastFirst,
                trusted, boundary, failure, seedEdge>>
vars == <<market, history, status, book, buffered, bufferedUpdates, lastId, lastFirst,
          trusted, boundary, failure, seedEdge>>

Status == {"inactive", "buffering", "awaiting_bridge", "live", "resync_required"}
Failure == {"none", "gap", "conflicting_duplicate", "crossed_book",
            "empty_book", "capacity"}

Spot == market = "spot"
Ids == 1..Len(history)
Truth(n) == history[n]

-----------------------------------------------------------------------------
(* Diff events.  Only the range is kept: the payload follows from it.      *)

Delta == [first : Nat \ {0}, final : Nat \ {0}]
Deltas == {d \in [first : 2..Len(history), final : 2..Len(history)] : d.first <= d.final}

Touched(d) ==
  {l \in Side \X Prices :
     \E i \in d.first..d.final : Truth(i)[l[1]][l[2]] # Truth(i - 1)[l[1]][l[2]]}

UpdateCount(d) == Cardinality(Touched(d))

\* Mutants: a delta beyond the next id is taken for a bridge; a lost delta is
\* linked over.
MutBridgesSnapshot(d, n) == n <= d.final
MutLinked(n, d) == IF Spot THEN d.first <= n + 2 ELSE d.first - 1 >= n

\* _delta_follows_snapshot, _bridges_snapshot, _link_error (pu is first - 1).
FollowsSnapshot(d, n) == IF Spot THEN d.final > n ELSE d.final >= n

BridgesSnapshot(d, n) ==
  LET target == IF Spot THEN n + 1 ELSE n
  IN  d.first <= target /\ target <= d.final

Linked(n, d) == IF Spot THEN d.first <= n + 1 ELSE d.first - 1 = n

-----------------------------------------------------------------------------
(* The two ways a diff changes the book.                                   *)

\* _mutate_side on a whole book: absolute quantities, zero deletes.
Overwrite(b, d) ==
  [s \in Side |-> [p \in Prices |->
    IF <<s, p>> \in Touched(d) THEN Truth(d.final)[s][p] ELSE b[s][p]]]

\* Mutant: a missing boundary is taken for a closed window.
MutInWindow(s, p) ==
  book[s][p] # 0 \/ (boundary[s] # NoPrice /\ Better(s, p, boundary[s]))

\* Updates at or beyond a trimmed boundary are ignored unless the level is held.
InWindow(s, p) ==
  book[s][p] # 0 \/ boundary[s] = NoPrice \/ Better(s, p, boundary[s])

WindowedOverwrite(d) ==
  [s \in Side |-> [p \in Prices |->
    IF <<s, p>> \in Touched(d) /\ InWindow(s, p)
    THEN Truth(d.final)[s][p] ELSE book[s][p]]]

\* Trimming pops the worst levels; the boundary is the best level ever popped.
TrimmedBoundary(b, s) ==
  LET popped == LevelsOf(b, s) \ Top(b, s, MaxLevels)
      known  == popped \cup ({boundary[s]} \ {NoPrice})
  IN  IF known = {} THEN NoPrice
      ELSE CHOOSE p \in known : \A q \in known : ~Better(s, q, p)

\* Verdict of _mutate_live_book and of _mutate_book on the book they leave.
BookFailure(b) ==
  IF ~TwoSided(b) THEN "empty_book" ELSE IF ~Uncrossed(b) THEN "crossed_book" ELSE "none"

LiveFailure(b) ==
  IF BookFailure(b) # "none" THEN BookFailure(b)
  ELSE IF \E s \in Side : Cardinality(LevelsOf(b, s)) < trusted[s] THEN "capacity"
  ELSE "none"

ReplayFailure(b) ==
  IF \E s \in Side : Cardinality(LevelsOf(b, s)) > MaxLevels THEN "capacity"
  ELSE BookFailure(b)

-----------------------------------------------------------------------------
(* _reset and _fail: both forget the whole reconstruction.                 *)

Forget ==
  /\ book' = EmptyBook
  /\ buffered' = <<>>
  /\ bufferedUpdates' = 0
  /\ lastId' = NoId
  /\ lastFirst' = NoId
  /\ trusted' = [s \in Side |-> 0]
  /\ boundary' = [s \in Side |-> NoPrice]
  /\ seedEdge' = [s \in Side |-> NoPrice]

Reset(newStatus) ==
  status' = newStatus /\ failure' = "none" /\ Forget

Fail(why) ==
  status' = "resync_required" /\ failure' = why /\ Forget

ActivateStream ==
  /\ status = "inactive"
  /\ Reset("buffering")
  /\ UNCHANGED exchangeVars

DeactivateStream ==
  /\ status # "inactive"
  /\ Reset("inactive")
  /\ UNCHANGED exchangeVars

BeginSync ==
  /\ status # "inactive"
  /\ Reset("buffering")
  /\ UNCHANGED exchangeVars

-----------------------------------------------------------------------------
(* apply_delta, by the state it finds.  A stale delta, an exact duplicate  *)
(* and any delta in "resync_required" change nothing but a metric.         *)

OversizedDelta(d) ==
  /\ status # "inactive"
  /\ UpdateCount(d) > MaxUpdatesPerDelta
  /\ Fail("capacity")
  /\ UNCHANGED exchangeVars

Accepts(d, state) == status = state /\ UpdateCount(d) <= MaxUpdatesPerDelta

Newest == buffered[Len(buffered)]

BufferFailure(d) ==
  IF buffered # <<>> /\ d.final = Newest.final THEN "conflicting_duplicate"
  ELSE IF buffered # <<>> /\ ~Linked(Newest.final, d) THEN "gap"
  ELSE IF \/ Len(buffered) >= MaxBuffered
          \/ bufferedUpdates + UpdateCount(d) > MaxBufferedUpdates THEN "capacity"
  ELSE "none"

BufferDelta(d) ==
  /\ Accepts(d, "buffering")
  /\ buffered # <<>> => /\ d.final >= Newest.final
                        /\ d # Newest
  /\ \/ /\ BufferFailure(d) = "none"
        /\ buffered' = Append(buffered, d)
        /\ bufferedUpdates' = bufferedUpdates + UpdateCount(d)
        /\ UNCHANGED <<status, book, lastId, lastFirst, trusted, boundary, failure, seedEdge>>
     \/ /\ BufferFailure(d) # "none"
        /\ Fail(BufferFailure(d))
  /\ UNCHANGED exchangeVars

\* _mutate_live_book and what both of its callers do with the outcome.
MutateLive(d) ==
  LET b == WindowedOverwrite(d)
      kept == TopOf(b, MaxLevels)
  IN  \/ /\ LiveFailure(kept) = "none"
         /\ status' = "live"
         /\ book' = kept
         /\ boundary' = [s \in Side |-> TrimmedBoundary(b, s)]
         /\ lastId' = d.final
         /\ lastFirst' = d.first
         /\ UNCHANGED <<buffered, bufferedUpdates, trusted, failure, seedEdge>>
      \/ /\ LiveFailure(kept) # "none"
         /\ Fail(LiveFailure(kept))

ApplyBridge(d) ==
  /\ Accepts(d, "awaiting_bridge")
  /\ FollowsSnapshot(d, lastId)
  /\ IF BridgesSnapshot(d, lastId) THEN MutateLive(d) ELSE Fail("gap")
  /\ UNCHANGED exchangeVars

ApplyLive(d) ==
  /\ Accepts(d, "live")
  /\ d.final >= lastId
  /\ ~(d.final = lastId /\ d.first = lastFirst)
  /\ \/ d.final = lastId /\ Fail("conflicting_duplicate")
     \/ d.final > lastId /\ ~Linked(lastId, d) /\ Fail("gap")
     \/ d.final > lastId /\ Linked(lastId, d) /\ MutateLive(d)
  /\ UNCHANGED exchangeVars

-----------------------------------------------------------------------------
(* install_snapshot: seed the book, then replay the buffered deltas that   *)
(* follow the snapshot.  Buffered ids increase (BufferChained below), so   *)
(* the deltas kept are a suffix of the buffer and the one kept just before *)
(* buffered[j] is buffered[j-1].                                           *)

Seed(n) == TopOf(Truth(n), SnapshotLimit)

Kept(n) == {j \in DOMAIN buffered : FollowsSnapshot(buffered[j], n)}

IsFirst(J, j) == j \in J /\ \A k \in J : j <= k
IsLast(J, j) == j \in J /\ \A k \in J : k <= j

\* The seed after the kept deltas up to buffered[j]: the last one that touches
\* a level decides its quantity.
Replayed(n, j) ==
  [s \in Side |-> [p \in Prices |->
    LET touching == {k \in Kept(n) : k <= j /\ <<s, p>> \in Touched(buffered[k])}
    IN  IF touching = {} THEN Seed(n)[s][p]
        ELSE Truth(buffered[CHOOSE k \in touching : IsLast(touching, k)].final)[s][p]]]

ReplayStepFailure(n, j) ==
  IF IF IsFirst(Kept(n), j) THEN ~BridgesSnapshot(buffered[j], n)
                            ELSE ~Linked(buffered[j - 1].final, buffered[j])
  THEN "gap" ELSE ReplayFailure(Replayed(n, j))

Failing(n) == {j \in Kept(n) : ReplayStepFailure(n, j) # "none"}

\* Worst price of a seed side, unless the seed holds all of it.
Edge(n, s) ==
  IF LevelsOf(Truth(n), s) = LevelsOf(Seed(n), s) THEN NoPrice
  ELSE CHOOSE p \in LevelsOf(Seed(n), s) : \A q \in LevelsOf(Seed(n), s) : ~Better(s, p, q)

\* What the successful exits have in common.
Seeded(n) ==
  /\ buffered' = <<>>
  /\ bufferedUpdates' = 0
  /\ trusted' = [s \in Side |-> Cardinality(LevelsOf(Seed(n), s))]
  /\ boundary' = [s \in Side |-> NoPrice]
  /\ seedEdge' = [s \in Side |-> Edge(n, s)]
  /\ failure' = "none"

InstallAndAwaitBridge(n) ==
  /\ status = "buffering" /\ SnapshotLimit <= MaxLevels
  /\ Kept(n) = {}
  /\ status' = "awaiting_bridge"
  /\ book' = Seed(n)
  /\ lastId' = n
  /\ lastFirst' = NoId
  /\ Seeded(n)
  /\ UNCHANGED exchangeVars

InstallAndGoLive(n) ==
  /\ status = "buffering" /\ SnapshotLimit <= MaxLevels
  /\ Kept(n) # {} /\ Failing(n) = {}
  /\ status' = "live"
  /\ \E j \in Kept(n) :
       /\ IsLast(Kept(n), j)
       /\ book' = Replayed(n, j)
       /\ lastId' = buffered[j].final
       /\ lastFirst' = buffered[j].first
  /\ Seeded(n)
  /\ UNCHANGED exchangeVars

InstallFails(n) ==
  /\ status = "buffering"
  /\ \/ SnapshotLimit > MaxLevels /\ Fail("capacity")
     \/ /\ SnapshotLimit <= MaxLevels
        /\ \E j \in Failing(n) :
             IsFirst(Failing(n), j) /\ Fail(ReplayStepFailure(n, j))
  /\ UNCHANGED exchangeVars

-----------------------------------------------------------------------------
\* The exchange changes one level; its own book is never crossed or one-sided.
ExchangeUpdate(l, q) ==
  LET b == [Truth(Len(history)) EXCEPT ![l[1]][l[2]] = q]
  IN  /\ Len(history) < MaxUpdates
      /\ b # Truth(Len(history)) /\ TwoSided(b) /\ Uncrossed(b)
      /\ history' = Append(history, b)
      /\ UNCHANGED <<market, engineVars>>

Init ==
  /\ market \in Markets
  /\ history = <<InitialBook>>
  /\ status = "inactive"
  /\ book = EmptyBook
  /\ buffered = <<>> /\ bufferedUpdates = 0
  /\ lastId = NoId /\ lastFirst = NoId
  /\ trusted = [s \in Side |-> 0]
  /\ boundary = [s \in Side |-> NoPrice]
  /\ seedEdge = [s \in Side |-> NoPrice]
  /\ failure = "none"

ApplyDelta(d) ==
  OversizedDelta(d) \/ BufferDelta(d) \/ ApplyBridge(d) \/ ApplyLive(d)

InstallSnapshot(n) ==
  InstallAndAwaitBridge(n) \/ InstallAndGoLive(n) \/ InstallFails(n)

Next ==
  \/ ActivateStream
  \/ DeactivateStream
  \/ BeginSync
  \/ \E d \in Deltas : ApplyDelta(d)
  \/ \E n \in Ids : InstallSnapshot(n)
  \/ \E l \in MovingLevels, q \in Quantities \cup {0} : ExchangeUpdate(l, q)

Spec == Init /\ [][Next]_vars

-----------------------------------------------------------------------------
(* Properties                                                              *)

TypeOK ==
  /\ market \in Markets
  /\ history \in Seq(Book) /\ history # <<>>
  /\ status \in Status
  /\ book \in Book
  /\ buffered \in Seq(Delta)
  /\ bufferedUpdates \in Nat
  /\ lastId \in Nat /\ lastFirst \in Nat
  /\ trusted \in [Side -> Nat]
  /\ boundary \in [Side -> Prices \cup {NoPrice}]
  /\ seedEdge \in [Side -> Prices \cup {NoPrice}]
  /\ failure \in Failure

Synced == status \in {"awaiting_bridge", "live"}

\* However diffs were lost, repeated, reordered or re-framed, and however old
\* the snapshot was, every level the engine holds while it claims to be synced
\* is a level the exchange really had, with that quantity, at last_update_id:
\* install_snapshot, _apply_bridge and _apply_live never chain over a hole.
NoFalseLevels ==
  Synced =>
    /\ lastId \in Ids
    /\ \A s \in Side, p \in Prices : book[s][p] # 0 => book[s][p] = Truth(lastId)[s][p]

\* Nothing is missing either inside the price range the REST seed covered and
\* above the boundary that trimming to max_levels_per_side has moved up.
InSeedRange(s, p) ==
  /\ seedEdge[s] = NoPrice \/ ~Better(s, seedEdge[s], p)
  /\ boundary[s] = NoPrice \/ Better(s, p, boundary[s])

SeedRangeComplete ==
  Synced => \A s \in Side, p \in Prices :
              InSeedRange(s, p) => book[s][p] = Truth(lastId)[s][p]

\* As long as the exchange's own book is not crossed, the local one is never
\* found crossed: the crossed-book exit of _mutate_live_book and _mutate_book
\* only fires on bad exchange data, not on a chaining mistake.
NeverCrossedLocally == failure # "crossed_book"

\* The buffer install_snapshot replays is one chain: ids increase, and every
\* update after the end of one delta, up to the end of a later one, is carried
\* by some delta between them.
BufferChained ==
  /\ \A j \in DOMAIN buffered : buffered[j] \in Deltas
  /\ \A j, k \in DOMAIN buffered : j < k => buffered[j].final < buffered[k].final
  /\ \A j, k \in DOMAIN buffered : \A i \in Ids :
       buffered[j].final < i /\ i <= buffered[k].final =>
         \E l \in DOMAIN buffered :
           j < l /\ l <= k /\ buffered[l].first <= i /\ i <= buffered[l].final

\* The exchange: a level no update of a range changes has the same quantity at
\* both ends of the range, and no true book is one-sided or crossed.
HistoryConsistent ==
  /\ \A n \in Ids : TwoSided(Truth(n)) /\ Uncrossed(Truth(n))
  /\ \A m, n \in Ids, s \in Side, p \in Prices :
       /\ m <= n
       /\ \A i \in (m + 1)..n : Truth(i)[s][p] = Truth(i - 1)[s][p]
       => Truth(m)[s][p] = Truth(n)[s][p]

\* Why NoFalseLevels and NeverCrossedLocally hold: the inductive invariant.
SyncInv ==
  /\ TypeOK
  /\ HistoryConsistent
  /\ BufferChained
  /\ NoFalseLevels
  /\ NeverCrossedLocally

\* The docstring of _mutate_live_book: "We retain the best known levels" and
\* "If the trusted seed-depth window itself is exhausted, the engine still
\* fails closed": a delta applied to a book whose trusted_{bid,ask}_depth best
\* levels are the exchange's leaves such a book, or fails.
TrustedDepthIsBest ==
  \A s \in Side : Top(book, s, trusted[s]) = Top(Truth(lastId), s, trusted[s])

TrustedDepthKept ==
  [][Synced /\ TrustedDepthIsBest /\ status' = "live" => TrustedDepthIsBest']_vars

=============================================================================
