------------------------- MODULE FullOrderBook_proofs -------------------------
(***************************************************************************)
(* Proofs about FullOrderBook for every value of its constants: its type   *)
(* invariant, NoFalseLevels, NeverCrossedLocally and SeedRangeComplete.    *)
(* The inductive invariant is SyncInv: NoFalseLevels alone is not          *)
(* inductive, because installing a snapshot replays the buffer, which must *)
(* be known to be a chain (BufferChained), and because applying a delta    *)
(* relies on levels it does not carry being unchanged (HistoryConsistent). *)
(* SeedRangeComplete is inductive beside it.                               *)
(***************************************************************************)
EXTENDS FullOrderBook, FiniteNaturals, FiniteSetTheorems, TLAPS

-----------------------------------------------------------------------------
(* Types of the operators.                                                 *)

LEMMA FiniteLevels ==
  ASSUME NEW b, NEW s
  PROVE  /\ IsFiniteSet(LevelsOf(b, s))
         /\ Cardinality(LevelsOf(b, s)) \in Nat
<1>1. IsFiniteSet(Prices)
  BY ConstantsAssumption, FS_Interval DEF Prices
<1>2. LevelsOf(b, s) \subseteq Prices
  BY DEF LevelsOf
<1>3. QED
  BY <1>1, <1>2, FS_Subset, FS_CardinalityType

LEMMA UpdateCountType ==
  ASSUME NEW d
  PROVE  UpdateCount(d) \in Nat
<1>1. IsFiniteSet(Prices)
  BY ConstantsAssumption, FS_Interval DEF Prices
<1>2. IsFiniteSet(Side)
  <2>1. IsFiniteSet({"bid"})
    BY FS_Singleton
  <2>2. IsFiniteSet({"bid"} \cup {"ask"})
    BY <2>1, FS_AddElement
  <2>3. Side = {"bid"} \cup {"ask"}
    BY DEF Side
  <2>4. QED
    BY <2>2, <2>3
<1>3. IsFiniteSet(Side \X Prices)
  BY <1>1, <1>2, FS_Product
<1>4. Touched(d) \subseteq Side \X Prices
  BY DEF Touched
<1>5. QED
  BY <1>3, <1>4, FS_Subset, FS_CardinalityType DEF UpdateCount

\* Keeping the best levels of a book keeps their quantities.
LEMMA TopOfFacts ==
  ASSUME NEW b \in Book, NEW n
  PROVE  /\ TopOf(b, n) \in Book
         /\ \A s \in Side, p \in Prices : TopOf(b, n)[s][p] \in {0, b[s][p]}
BY DEF TopOf, Book

LEMMA TruthType ==
  ASSUME TypeOK, NEW n \in Ids
  PROVE  Truth(n) \in Book
BY DEF TypeOK, Truth, Ids

LEMMA DeltaIds ==
  ASSUME TypeOK, NEW d \in Deltas
  PROVE  /\ d.first \in Ids /\ d.final \in Ids /\ d.first >= 2 /\ d.first <= d.final
         /\ d \in Delta
BY DEF Deltas, Delta, TypeOK, Ids

LEMMA WindowedOverwriteFacts ==
  ASSUME TypeOK, NEW d \in Deltas
  PROVE  /\ WindowedOverwrite(d) \in Book
         /\ \A s \in Side, p \in Prices :
              WindowedOverwrite(d)[s][p] =
                IF <<s, p>> \in Touched(d) /\ InWindow(s, p)
                THEN Truth(d.final)[s][p] ELSE book[s][p]
<1>1. Truth(d.final) \in Book
  BY DeltaIds, TruthType
<1>2. book \in Book
  BY DEF TypeOK
<1>3. QED
  BY <1>1, <1>2 DEF WindowedOverwrite, Book

\* A non-empty set of prices has a best and a worst one.
LEMMA BestExists ==
  ASSUME NEW s \in Side, NEW T \in SUBSET Prices, T # {}
  PROVE  /\ \E p \in T : \A q \in T : ~Better(s, q, p)
         /\ \E p \in T : \A q \in T : ~Better(s, p, q)
<1>1. T \in SUBSET Nat /\ T \in SUBSET (0..MaxPrice) /\ MaxPrice \in Nat
  BY ConstantsAssumption DEF Prices
<1>2. PICK least \in T : \A q \in T : least <= q
  BY <1>1, MinExists
<1>3. PICK greatest \in T : \A q \in T : q <= greatest
  BY <1>1, MaxExists
<1>4. CASE s = "bid"
  BY <1>1, <1>2, <1>3, <1>4 DEF Better
<1>5. CASE s = "ask"
  BY <1>1, <1>2, <1>3, <1>5 DEF Better
<1>6. QED
  BY <1>4, <1>5 DEF Side

LEMMA BoundaryType ==
  ASSUME TypeOK, NEW b, NEW s \in Side
  PROVE  TrimmedBoundary(b, s) \in Prices \cup {NoPrice}
<1> DEFINE popped == LevelsOf(b, s) \ Top(b, s, MaxLevels)
           known  == popped \cup ({boundary[s]} \ {NoPrice})
<1>1. known \in SUBSET Prices
  BY DEF TypeOK, LevelsOf
<1>2. known # {} => \E p \in known : \A q \in known : ~Better(s, q, p)
  BY <1>1, BestExists
<1>3. TrimmedBoundary(b, s) =
        IF known = {} THEN NoPrice
        ELSE CHOOSE p \in known : \A q \in known : ~Better(s, q, p)
  BY DEF TrimmedBoundary
<1>4. QED
  BY <1>1, <1>2, <1>3

LEMMA SeedFacts ==
  ASSUME TypeOK, HistoryConsistent, NEW n \in Ids
  PROVE  /\ Seed(n) \in Book
         /\ \A s \in Side, p \in Prices : Seed(n)[s][p] \in {0, Truth(n)[s][p]}
         /\ TwoSided(Seed(n))
<1>1. Truth(n) \in Book /\ TwoSided(Truth(n))
  BY TruthType DEF HistoryConsistent
<1>2. SnapshotLimit \in Nat \ {0}
  BY ConstantsAssumption
<1>3. ASSUME NEW s \in Side PROVE LevelsOf(Seed(n), s) # {}
  <2> DEFINE levels == LevelsOf(Truth(n), s)
  <2>1. levels \in SUBSET Prices /\ levels # {}
    BY <1>1 DEF LevelsOf, TwoSided
  <2>2. PICK p \in levels : \A q \in levels : ~Better(s, q, p)
    BY <2>1, BestExists
  <2>3. {q \in levels : Better(s, q, p)} = {}
    BY <2>2
  <2>4. p \in Top(Truth(n), s, SnapshotLimit)
    BY <2>3, <1>2, FS_EmptySet DEF Top
  <2>5. Seed(n)[s][p] = Truth(n)[s][p] /\ p \in Prices
    BY <2>1, <2>4 DEF Seed, TopOf
  <2>6. QED
    BY <2>5, <2>2 DEF LevelsOf
<1>4. QED
  BY <1>1, <1>3, TopOfFacts DEF Seed, TwoSided

LEMMA EdgeType ==
  ASSUME TypeOK, HistoryConsistent, NEW n \in Ids, NEW s \in Side
  PROVE  Edge(n, s) \in Prices \cup {NoPrice}
<1> DEFINE levels == LevelsOf(Seed(n), s)
<1>1. levels \in SUBSET Prices /\ levels # {}
  BY SeedFacts DEF LevelsOf, TwoSided
<1>2. \E p \in levels : \A q \in levels : ~Better(s, p, q)
  BY <1>1, BestExists
<1>3. Edge(n, s) =
        IF LevelsOf(Truth(n), s) = levels THEN NoPrice
        ELSE CHOOSE p \in levels : \A q \in levels : ~Better(s, p, q)
  BY DEF Edge
<1>4. QED
  BY <1>1, <1>2, <1>3

-----------------------------------------------------------------------------
(* Replaying the buffer on a snapshot.                                     *)

LEMMA KeptIds ==
  ASSUME TypeOK, BufferChained, NEW n \in Ids
  PROVE  /\ Kept(n) \in SUBSET Nat /\ Kept(n) \in SUBSET (0..Len(buffered))
         /\ Len(buffered) \in Nat
         /\ \A j \in Kept(n) : buffered[j] \in Deltas /\ j \in DOMAIN buffered
         /\ \A j \in Kept(n), k \in DOMAIN buffered :
              j <= k => k \in Kept(n) /\ buffered[j].final <= buffered[k].final
<1>1. buffered \in Seq(Delta) /\ Len(buffered) \in Nat /\ DOMAIN buffered = 1..Len(buffered)
  BY DEF TypeOK
<1>2. ASSUME NEW j \in Kept(n), NEW k \in DOMAIN buffered, j <= k
      PROVE  k \in Kept(n) /\ buffered[j].final <= buffered[k].final
  <2>1. j \in DOMAIN buffered /\ FollowsSnapshot(buffered[j], n)
    BY DEF Kept
  <2>2. buffered[j] \in Deltas /\ buffered[k] \in Deltas
    BY <2>1 DEF BufferChained
  <2>3. buffered[j].final <= buffered[k].final
    BY <1>1, <1>2, <2>1, <2>2, DeltaIds DEF BufferChained, Ids
  <2>4. FollowsSnapshot(buffered[k], n)
    BY <2>1, <2>2, <2>3, DeltaIds DEF FollowsSnapshot, Ids
  <2>5. QED
    BY <2>3, <2>4 DEF Kept
<1>3. QED
  BY <1>1, <1>2 DEF Kept, BufferChained

\* Both link rules and both bridge rules leave no hole before the delta.
LEMMA NoHole ==
  ASSUME TypeOK, NEW m \in Ids, NEW d \in Deltas
  PROVE  /\ Linked(m, d) => d.first <= m + 1
         /\ BridgesSnapshot(d, m) => d.first <= m + 1 /\ m <= d.final
BY DeltaIds, ConstantsAssumption DEF Linked, BridgesSnapshot, Ids, TypeOK

\* A level no delta of a range touches is the same at both ends of the range.
LEMMA Untouched ==
  ASSUME TypeOK, HistoryConsistent, NEW m \in Ids, NEW n \in Ids, m <= n,
         NEW s \in Side, NEW p \in Prices,
         \A i \in (m + 1)..n : \E d \in Deltas :
            d.first <= i /\ i <= d.final /\ <<s, p>> \notin Touched(d)
  PROVE  Truth(m)[s][p] = Truth(n)[s][p]
<1>1. ASSUME NEW i \in (m + 1)..n
      PROVE  Truth(i)[s][p] = Truth(i - 1)[s][p]
  <2>1. PICK d \in Deltas : d.first <= i /\ i <= d.final /\ <<s, p>> \notin Touched(d)
    OBVIOUS
  <2>2. i \in d.first..d.final
    BY <2>1, DeltaIds DEF Ids
  <2>3. QED
    BY <2>1, <2>2 DEF Touched
<1>2. QED
  BY <1>1 DEF HistoryConsistent

\* Replaying the kept deltas on a snapshot they bridge yields levels that are
\* true after the last delta replayed, and misses none that the seed had right.
LEMMA ReplayTrue ==
  ASSUME TypeOK, HistoryConsistent, BufferChained, NEW n \in Ids,
         NEW j \in Kept(n), NEW f, IsFirst(Kept(n), f), BridgesSnapshot(buffered[f], n)
  PROVE  /\ Replayed(n, j) \in Book
         /\ \A s \in Side, p \in Prices :
              Replayed(n, j)[s][p] # 0 \/ Seed(n)[s][p] = Truth(n)[s][p] =>
                Replayed(n, j)[s][p] = Truth(buffered[j].final)[s][p]
<1> DEFINE touching(s, p) ==
             {k \in Kept(n) : k <= j /\ <<s, p>> \in Touched(buffered[k])}
           last(s, p) == CHOOSE k \in touching(s, p) : IsLast(touching(s, p), k)
           value(s, p) == IF touching(s, p) = {} THEN Seed(n)[s][p]
                          ELSE Truth(buffered[last(s, p)].final)[s][p]
<1>1. f \in Kept(n) /\ f <= j /\ buffered[f] \in Deltas /\ buffered[j] \in Deltas
  BY KeptIds DEF IsFirst
<1>2. \A s \in Side, p \in Prices : Replayed(n, j)[s][p] = value(s, p)
  BY DEF Replayed
<1>3. ASSUME NEW s \in Side, NEW p \in Prices
      PROVE  /\ value(s, p) \in Quantities \cup {0}
             /\ value(s, p) # 0 \/ Seed(n)[s][p] = Truth(n)[s][p] =>
                  value(s, p) = Truth(buffered[j].final)[s][p]
  <2>1. CASE touching(s, p) = {}
    <3>1. Seed(n)[s][p] \in Quantities \cup {0} /\ Seed(n)[s][p] \in {0, Truth(n)[s][p]}
      BY SeedFacts DEF Book
    <3>2. n <= buffered[j].final
      <4>1. n <= buffered[f].final
        BY <1>1, NoHole
      <4>2. buffered[f].final <= buffered[j].final
        BY <1>1, KeptIds
      <4>3. QED
        BY <4>1, <4>2, <1>1, DeltaIds DEF Ids
    <3>3. ASSUME NEW i \in (n + 1)..buffered[j].final
          PROVE  \E d \in Deltas : d.first <= i /\ i <= d.final /\ <<s, p>> \notin Touched(d)
      <4>1. i \in Ids
        BY <1>1, DeltaIds DEF Ids
      <4>2. CASE i <= buffered[f].final
        <5>1. buffered[f].first <= i
          BY <1>1, NoHole, DeltaIds, <4>1 DEF Ids
        <5>2. <<s, p>> \notin Touched(buffered[f])
          BY <1>1, <2>1
        <5>3. QED
          BY <5>1, <5>2, <4>2, <1>1
      <4>3. CASE buffered[f].final < i
        <5>1. PICK l \in DOMAIN buffered :
                f < l /\ l <= j /\ buffered[l].first <= i /\ i <= buffered[l].final
          BY <1>1, <4>1, <4>3, KeptIds DEF BufferChained
        <5>2. l \in Kept(n)
          BY <5>1, <1>1, KeptIds
        <5>3. <<s, p>> \notin Touched(buffered[l]) /\ buffered[l] \in Deltas
          BY <5>1, <5>2, <2>1, KeptIds
        <5>4. QED
          BY <5>1, <5>3
      <4>4. QED
        BY <4>2, <4>3, <4>1, <1>1, DeltaIds DEF Ids
    <3>4. Truth(n)[s][p] = Truth(buffered[j].final)[s][p]
      BY <3>2, <3>3, <1>1, DeltaIds, Untouched
    <3>5. QED
      BY <2>1, <3>1, <3>4
  <2>2. CASE touching(s, p) # {}
    <3>1. PICK k \in touching(s, p) : IsLast(touching(s, p), k)
      <4>1. touching(s, p) \in SUBSET (0..Len(buffered)) /\ Len(buffered) \in Nat
        BY KeptIds
      <4>2. QED
        BY <4>1, <2>2, MaxExists DEF IsLast
    <3>2. PICK w \in touching(s, p) : w = last(s, p) /\ IsLast(touching(s, p), w)
      BY <3>1
    <3>3. w \in Kept(n) /\ w <= j /\ buffered[w] \in Deltas
      BY <3>2, KeptIds
    <3>4. buffered[w].final \in Ids /\ buffered[j].final \in Ids
      BY <3>3, <1>1, DeltaIds
    <3>5. buffered[w].final <= buffered[j].final
      BY <3>3, <1>1, KeptIds
    <3>6. ASSUME NEW i \in (buffered[w].final + 1)..buffered[j].final
          PROVE  \E d \in Deltas : d.first <= i /\ i <= d.final /\ <<s, p>> \notin Touched(d)
      <4>1. i \in Ids /\ buffered[w].final < i
        BY <3>4 DEF Ids
      <4>2. PICK l \in DOMAIN buffered :
              w < l /\ l <= j /\ buffered[l].first <= i /\ i <= buffered[l].final
        BY <4>1, <3>3, <1>1, KeptIds DEF BufferChained
      <4>3. l \in Kept(n) /\ buffered[l] \in Deltas
        BY <4>2, <3>3, KeptIds
      <4>4. l \notin touching(s, p)
        <5>1. l \in Nat /\ w \in Nat /\ ~(l <= w)
          BY <4>2, <4>3, <3>3, KeptIds
        <5>2. l \in touching(s, p) => l <= w
          BY <3>2 DEF IsLast
        <5>3. QED
          BY <5>1, <5>2
      <4>5. QED
        BY <4>2, <4>3, <4>4
    <3>7. Truth(buffered[w].final)[s][p] = Truth(buffered[j].final)[s][p]
      BY <3>4, <3>5, <3>6, Untouched
    <3>8. Truth(buffered[w].final) \in Book
      BY <3>4, TruthType
    <3>9. QED
      BY <2>2, <3>2, <3>7, <3>8 DEF Book
  <2>3. QED
    BY <2>1, <2>2
<1>4. Replayed(n, j) \in Book
  <2>1. Replayed(n, j) = [s \in Side |-> [p \in Prices |-> value(s, p)]]
    BY DEF Replayed
  <2> HIDE DEF value
  <2>2. QED
    BY <2>1, <1>3 DEF Book
<1> HIDE DEF value
<1>5. QED
  BY <1>2, <1>3, <1>4

\* Every level of a failing or finished replay is true, so it cannot be crossed.
LEMMA PartOfTruthUncrossed ==
  ASSUME NEW b \in Book, NEW t, Uncrossed(t),
         \A s \in Side, p \in Prices : b[s][p] # 0 => b[s][p] = t[s][p]
  PROVE  Uncrossed(b)
BY DEF Uncrossed, LevelsOf, Side

-----------------------------------------------------------------------------
(* The steps preserve SyncInv.                                             *)

\* A step of the engine leaves the exchange, and what can be sent of it, alone.
LEMMA SameHistory ==
  ASSUME HistoryConsistent, UNCHANGED history
  PROVE  /\ HistoryConsistent'
         /\ Ids' = Ids /\ Deltas' = Deltas
         /\ \A n : Truth(n)' = Truth(n)
BY DEF HistoryConsistent, TwoSided, Uncrossed, LevelsOf, Truth, Ids, Deltas

LEMMA ForgetPreserves ==
  ASSUME SyncInv, UNCHANGED <<market, history>>, Forget,
         status' \in Status \ {"awaiting_bridge", "live"},
         failure' \in Failure \ {"crossed_book"}
  PROVE  SyncInv'
<1>1. TypeOK'
  BY DEF SyncInv, TypeOK, Forget, EmptyBook, Book, NoId, NoPrice
<1>2. HistoryConsistent'
  BY SameHistory DEF SyncInv
<1>3. BufferChained'
  BY DEF Forget, BufferChained
<1>4. NoFalseLevels' /\ NeverCrossedLocally'
  BY DEF NoFalseLevels, Synced, NeverCrossedLocally
<1>5. QED
  BY <1>1, <1>2, <1>3, <1>4 DEF SyncInv

LEMMA ResetPreserves ==
  ASSUME SyncInv, UNCHANGED exchangeVars,
         \/ Reset("buffering") \/ Reset("inactive")
         \/ \E why \in Failure \ {"crossed_book"} : Fail(why)
  PROVE  SyncInv'
<1>1. UNCHANGED <<market, history>>
  BY DEF exchangeVars
<1>2. Forget /\ status' \in Status \ {"awaiting_bridge", "live"}
        /\ failure' \in Failure \ {"crossed_book"}
  BY DEF Reset, Fail, Status, Failure
<1>3. QED
  BY <1>1, <1>2, ForgetPreserves

\* Applying a delta that starts no later than the update after last_update_id.
LEMMA MutateLivePreserves ==
  ASSUME SyncInv, Synced, UNCHANGED exchangeVars, NEW d \in Deltas,
         d.first <= lastId + 1, lastId <= d.final, MutateLive(d)
  PROVE  SyncInv'
<1> DEFINE b == WindowedOverwrite(d)
           kept == TopOf(b, MaxLevels)
<1>1. /\ TypeOK /\ HistoryConsistent /\ BufferChained /\ NoFalseLevels
      /\ UNCHANGED <<market, history>> /\ lastId \in Ids
  BY DEF SyncInv, NoFalseLevels, exchangeVars
<1>2. /\ d.final \in Ids /\ Truth(d.final) \in Book /\ Uncrossed(Truth(d.final))
      /\ d.final \in Nat /\ d.first \in Nat
  BY <1>1, DeltaIds, TruthType DEF HistoryConsistent, Delta
<1>3. /\ b \in Book
      /\ \A s \in Side, p \in Prices :
           b[s][p] = IF <<s, p>> \in Touched(d) /\ InWindow(s, p)
                     THEN Truth(d.final)[s][p] ELSE book[s][p]
  BY <1>1, WindowedOverwriteFacts
<1>4. /\ kept \in Book
      /\ \A s \in Side, p \in Prices : kept[s][p] \in {0, b[s][p]}
  BY <1>3, TopOfFacts
<1>5. ASSUME NEW s \in Side, NEW p \in Prices, kept[s][p] # 0
      PROVE  kept[s][p] = Truth(d.final)[s][p]
  <2>1. kept[s][p] = b[s][p] /\ b[s][p] # 0
    BY <1>4, <1>5
  <2>2. CASE <<s, p>> \in Touched(d) /\ InWindow(s, p)
    BY <2>1, <2>2, <1>3
  <2>3. CASE ~(<<s, p>> \in Touched(d) /\ InWindow(s, p))
    <3>1. b[s][p] = book[s][p] /\ book[s][p] # 0
      BY <2>1, <2>3, <1>3
    <3>2. <<s, p>> \notin Touched(d)
      BY <2>3, <3>1 DEF InWindow
    <3>3. book[s][p] = Truth(lastId)[s][p]
      BY <3>1, <1>1 DEF NoFalseLevels
    <3>4. \A i \in (lastId + 1)..d.final : \E e \in Deltas :
            e.first <= i /\ i <= e.final /\ <<s, p>> \notin Touched(e)
      BY <3>2, <1>1, <1>2 DEF Ids
    <3>5. Truth(lastId)[s][p] = Truth(d.final)[s][p]
      BY <3>4, <1>1, <1>2, Untouched
    <3>6. QED
      BY <2>1, <3>1, <3>3, <3>5
  <2>4. QED
    BY <2>2, <2>3
<1>6. Uncrossed(kept)
  BY <1>2, <1>4, <1>5, PartOfTruthUncrossed
<1> HIDE DEF b, kept
<1>7. \/ /\ status' = "live" /\ book' = kept /\ lastId' = d.final /\ lastFirst' = d.first
         /\ boundary' = [s \in Side |-> TrimmedBoundary(b, s)]
         /\ UNCHANGED <<buffered, bufferedUpdates, trusted, failure, seedEdge>>
      \/ LiveFailure(kept) # "none" /\ Fail(LiveFailure(kept))
  BY DEF MutateLive, b, kept
<1>8. CASE LiveFailure(kept) # "none" /\ Fail(LiveFailure(kept))
  <2>1. LiveFailure(kept) \in Failure \ {"crossed_book"}
    BY <1>6 DEF LiveFailure, BookFailure, Failure
  <2>2. QED
    BY <2>1, <1>8, ResetPreserves
<1>9. CASE /\ status' = "live" /\ book' = kept /\ lastId' = d.final /\ lastFirst' = d.first
           /\ boundary' = [s \in Side |-> TrimmedBoundary(b, s)]
           /\ UNCHANGED <<buffered, bufferedUpdates, trusted, failure, seedEdge>>
  <2>1. TypeOK'
    <3>1. boundary' \in [Side -> Prices \cup {NoPrice}]
      BY <1>9, <1>1, BoundaryType
    <3>2. QED
      BY <3>1, <1>9, <1>1, <1>2, <1>4 DEF TypeOK, Status
  <2>2. HistoryConsistent'
    BY <1>1, SameHistory
  <2>3. BufferChained'
    BY <1>1, <1>9, SameHistory DEF BufferChained
  <2>4. NoFalseLevels'
    <3>1. lastId' \in Ids'
      BY <1>9, <1>1, <1>2 DEF Ids
    <3>2. \A s \in Side, p \in Prices : book'[s][p] # 0 => book'[s][p] = Truth(lastId)'[s][p]
      BY <1>9, <1>1, <1>5 DEF Truth
    <3>3. QED
      BY <3>1, <3>2 DEF NoFalseLevels
  <2>5. NeverCrossedLocally'
    BY <1>9 DEF SyncInv, NeverCrossedLocally
  <2>6. QED
    BY <2>1, <2>2, <2>3, <2>4, <2>5 DEF SyncInv
<1>10. QED
  BY <1>7, <1>8, <1>9

LEMMA BufferDeltaPreserves ==
  ASSUME SyncInv, NEW d \in Deltas, BufferDelta(d)
  PROVE  SyncInv'
<1>1. /\ TypeOK /\ HistoryConsistent /\ BufferChained /\ UNCHANGED <<market, history>>
      /\ UNCHANGED exchangeVars
  BY DEF SyncInv, BufferDelta, exchangeVars
<1>2. CASE BufferFailure(d) # "none" /\ Fail(BufferFailure(d))
  <2>1. BufferFailure(d) \in Failure \ {"crossed_book"}
    BY <1>2 DEF BufferFailure, Failure
  <2>2. QED
    BY <2>1, <1>1, <1>2, ResetPreserves
<1>3. CASE /\ BufferFailure(d) = "none"
           /\ buffered' = Append(buffered, d)
           /\ bufferedUpdates' = bufferedUpdates + UpdateCount(d)
           /\ UNCHANGED <<status, book, lastId, lastFirst, trusted, boundary, failure, seedEdge>>
  <2>1. d \in Delta /\ d.first \in Nat /\ d.final \in Nat /\ d.first <= d.final
    BY <1>1, DeltaIds DEF Ids
  <2>2. TypeOK'
    BY <1>1, <1>3, <2>1, UpdateCountType DEF TypeOK
  <2>3. HistoryConsistent'
    BY <1>1, SameHistory
  <2>4. NoFalseLevels' /\ NeverCrossedLocally'
    BY <1>1, <1>3 DEF SyncInv, NoFalseLevels, Synced, NeverCrossedLocally, Truth, Ids
  <2> DEFINE L == Len(buffered)
  <2>5. /\ L \in Nat /\ L = Len(buffered) /\ DOMAIN buffered = 1..L /\ DOMAIN buffered' = 1..(L + 1)
        /\ buffered'[L + 1] = d /\ \A j \in 1..L : buffered'[j] = buffered[j]
    BY <1>1, <1>3, <2>1 DEF TypeOK
  <2> HIDE DEF L
  <2>6. L # 0 => /\ buffered[L] \in Deltas
                 /\ buffered[L].final < d.final
                 /\ d.first <= buffered[L].final + 1
    <3>1. SUFFICES ASSUME L # 0
                   PROVE  /\ buffered[L] \in Deltas
                          /\ buffered[L].final < d.final
                          /\ d.first <= buffered[L].final + 1
      OBVIOUS
    <3>2. L \in DOMAIN buffered /\ buffered[L] \in Deltas
      BY <2>5, <3>1, <1>1 DEF BufferChained
    <3>3. buffered[L].final \in Ids /\ buffered[L].final \in Nat
      BY <3>2, <1>1, DeltaIds DEF Ids
    <3>4. /\ buffered # <<>> /\ d.final >= buffered[L].final
          /\ d.final # buffered[L].final /\ Linked(buffered[L].final, d)
      BY <3>1, <1>3, <2>5 DEF BufferDelta, BufferFailure, Newest
    <3>5. QED
      BY <3>2, <3>3, <3>4, <2>1, <1>1, NoHole
  <2>7. ASSUME NEW j \in 1..L PROVE buffered[j] \in Deltas /\ buffered[j].final < d.final
    <3>1. buffered[j] \in Deltas /\ buffered[L] \in Deltas /\ L \in DOMAIN buffered
      BY <2>5, <2>6, <1>1 DEF BufferChained
    <3>2. buffered[j].final <= buffered[L].final
      <4>1. j = L \/ j < L
        BY <2>5
      <4>2. buffered[j].final \in Nat /\ buffered[L].final \in Nat
        BY <3>1, <1>1, DeltaIds DEF Ids
      <4>3. j < L => buffered[j].final < buffered[L].final
        BY <2>5, <1>1 DEF BufferChained
      <4>4. QED
        BY <4>1, <4>2, <4>3
    <3>3. QED
      BY <3>1, <3>2, <2>6, <2>1, <1>1, DeltaIds DEF Ids
  <2>8. BufferChained'
    <3>1. \A j \in DOMAIN buffered' : buffered'[j] \in Deltas'
      <4>1. Deltas' = Deltas
        BY <1>1, SameHistory
      <4>2. QED
        BY <4>1, <2>5, <2>7
    <3>2. \A j, k \in DOMAIN buffered' : j < k => buffered'[j].final < buffered'[k].final
      BY <2>5, <2>7, <1>1 DEF BufferChained
    <3>3. ASSUME NEW j \in DOMAIN buffered', NEW k \in DOMAIN buffered', NEW i \in Ids',
                 buffered'[j].final < i, i <= buffered'[k].final
          PROVE  \E l \in DOMAIN buffered' :
                   j < l /\ l <= k /\ buffered'[l].first <= i /\ i <= buffered'[l].final
      <4>1. i \in Ids /\ i \in Nat
        BY <1>1 DEF Ids
      <4>2. CASE j = L + 1
        <5>1. buffered'[k].final <= d.final /\ buffered'[j] = d
          BY <4>2, <2>5, <2>7, <1>1, <2>1, DeltaIds DEF Ids
        <5>2. buffered'[k].final \in Nat
          BY <2>5, <2>7, <2>1, <1>1, DeltaIds DEF Ids
        <5>3. QED
          BY <5>1, <5>2, <3>3, <4>1, <2>1
      <4>3. CASE j \in 1..L /\ k \in 1..L
        BY <4>3, <4>1, <3>3, <2>5, <1>1 DEF BufferChained
      <4>4. CASE j \in 1..L /\ k = L + 1 /\ i <= buffered[L].final
        <5>1. L \in DOMAIN buffered /\ buffered[j].final < i
          BY <4>4, <2>5, <3>3
        <5>2. PICK l \in DOMAIN buffered :
                j < l /\ l <= L /\ buffered[l].first <= i /\ i <= buffered[l].final
          BY <5>1, <4>1, <4>4, <2>5, <1>1 DEF BufferChained
        <5>3. QED
          BY <5>2, <4>4, <2>5
      <4>5. CASE j \in 1..L /\ k = L + 1 /\ ~(i <= buffered[L].final)
        <5>1. buffered[L].final \in Nat
          BY <4>5, <2>5, <2>6, <1>1, DeltaIds DEF Ids
        <5>2. d.first <= i /\ i <= d.final
          BY <5>1, <4>5, <4>1, <2>5, <2>6, <2>1, <3>3
        <5>3. QED
          BY <5>2, <4>5, <2>5
      <4>6. QED
        BY <4>2, <4>3, <4>4, <4>5, <2>5
    <3>4. QED
      BY <3>1, <3>2, <3>3 DEF BufferChained
  <2>9. QED
    BY <2>2, <2>3, <2>4, <2>8 DEF SyncInv
<1>4. QED
  BY <1>2, <1>3 DEF BufferDelta

LEMMA ApplyDeltaPreserves ==
  ASSUME SyncInv, NEW d \in Deltas, ApplyDelta(d)
  PROVE  SyncInv'
<1>1. TypeOK /\ NoFalseLevels
  BY DEF SyncInv
<1>2. CASE OversizedDelta(d)
  BY <1>2, ResetPreserves DEF OversizedDelta, Failure
<1>3. CASE BufferDelta(d)
  BY <1>3, BufferDeltaPreserves
<1>4. CASE ApplyBridge(d)
  <2>1. CASE BridgesSnapshot(d, lastId) /\ MutateLive(d)
    <3>1. Synced /\ lastId \in Ids /\ UNCHANGED exchangeVars
      BY <1>1, <1>4 DEF ApplyBridge, Accepts, Synced, NoFalseLevels
    <3>2. d.first <= lastId + 1 /\ lastId <= d.final
      BY <1>1, <2>1, <3>1, NoHole
    <3>3. QED
      BY <2>1, <3>1, <3>2, MutateLivePreserves
  <2>2. CASE Fail("gap")
    BY <2>2, <1>4, ResetPreserves DEF ApplyBridge, Failure
  <2>3. QED
    BY <1>4, <2>1, <2>2 DEF ApplyBridge
<1>5. CASE ApplyLive(d)
  <2>1. CASE d.final > lastId /\ Linked(lastId, d) /\ MutateLive(d)
    <3>1. Synced /\ lastId \in Ids /\ UNCHANGED exchangeVars
      BY <1>1, <1>5 DEF ApplyLive, Accepts, Synced, NoFalseLevels
    <3>2. d.first <= lastId + 1 /\ lastId <= d.final
      BY <1>1, <2>1, <3>1, NoHole, DeltaIds DEF Ids
    <3>3. QED
      BY <2>1, <3>1, <3>2, MutateLivePreserves
  <2>2. CASE Fail("conflicting_duplicate") \/ Fail("gap")
    BY <2>2, <1>5, ResetPreserves DEF ApplyLive, Failure
  <2>3. QED
    BY <1>5, <2>1, <2>2 DEF ApplyLive
<1>6. QED
  BY <1>2, <1>3, <1>4, <1>5 DEF ApplyDelta

LEMMA InstallSnapshotPreserves ==
  ASSUME SyncInv, NEW n \in Ids, InstallSnapshot(n)
  PROVE  SyncInv'
<1>1. /\ TypeOK /\ HistoryConsistent /\ BufferChained /\ UNCHANGED <<market, history>>
      /\ UNCHANGED exchangeVars
  BY DEF SyncInv, InstallSnapshot, InstallAndAwaitBridge, InstallAndGoLive,
         InstallFails, exchangeVars
<1>2. /\ n \in Nat /\ Seed(n) \in Book
      /\ \A s \in Side, p \in Prices : Seed(n)[s][p] \in {0, Truth(n)[s][p]}
  BY <1>1, SeedFacts DEF Ids
<1>3. HistoryConsistent'
  BY <1>1, SameHistory
<1>4. ASSUME Seeded(n), status' \in Status, book' \in Book, lastId' \in Nat, lastFirst' \in Nat
      PROVE  TypeOK' /\ BufferChained' /\ NeverCrossedLocally'
  <2>1. trusted' \in [Side -> Nat]
    BY <1>4, FiniteLevels DEF Seeded
  <2>2. seedEdge' \in [Side -> Prices \cup {NoPrice}]
    BY <1>4, <1>1, EdgeType DEF Seeded
  <2>3. TypeOK'
    BY <1>4, <2>1, <2>2, <1>1 DEF TypeOK, Seeded, Failure
  <2>4. BufferChained' /\ NeverCrossedLocally'
    BY <1>4 DEF Seeded, BufferChained, NeverCrossedLocally
  <2>5. QED
    BY <2>3, <2>4
\* Replays behave once the first delta kept bridges the snapshot.
<1>5. ASSUME NEW j \in Kept(n), NEW f, IsFirst(Kept(n), f), BridgesSnapshot(buffered[f], n)
      PROVE  /\ Replayed(n, j) \in Book
             /\ buffered[j].final \in Ids /\ buffered[j].first \in Ids
             /\ \A s \in Side, p \in Prices :
                  Replayed(n, j)[s][p] # 0 =>
                    Replayed(n, j)[s][p] = Truth(buffered[j].final)[s][p]
  BY <1>1, <1>5, ReplayTrue, KeptIds, DeltaIds
<1>6. Kept(n) # {} => \E f \in Kept(n) : IsFirst(Kept(n), f)
  BY <1>1, KeptIds, MinExists DEF IsFirst
<1>7. CASE InstallAndAwaitBridge(n)
  <2>1. /\ Seeded(n) /\ status' = "awaiting_bridge" /\ book' = Seed(n)
        /\ lastId' = n /\ lastFirst' = NoId
    BY <1>7 DEF InstallAndAwaitBridge
  <2>2. TypeOK' /\ BufferChained' /\ NeverCrossedLocally'
    BY <2>1, <1>2, <1>4 DEF Status, NoId
  <2>3. NoFalseLevels'
    BY <2>1, <1>1, <1>2, SameHistory DEF NoFalseLevels
  <2>4. QED
    BY <1>3, <2>2, <2>3 DEF SyncInv
<1>8. CASE InstallAndGoLive(n)
  <2>1. PICK j \in Kept(n) : /\ book' = Replayed(n, j)
                             /\ lastId' = buffered[j].final
                             /\ lastFirst' = buffered[j].first
    BY <1>8 DEF InstallAndGoLive
  <2>2. PICK f \in Kept(n) : IsFirst(Kept(n), f)
    BY <1>6, <2>1
  <2>3. Failing(n) = {} /\ Seeded(n) /\ status' = "live"
    BY <1>8 DEF InstallAndGoLive
  <2>4. BridgesSnapshot(buffered[f], n)
    BY <2>2, <2>3 DEF Failing, ReplayStepFailure
  <2>5. TypeOK' /\ BufferChained' /\ NeverCrossedLocally'
    BY <2>1, <2>2, <2>3, <2>4, <1>5, <1>4 DEF Status, Ids
  <2>6. NoFalseLevels'
    BY <2>1, <2>2, <2>3, <2>4, <1>5, <1>1, SameHistory DEF NoFalseLevels
  <2>7. QED
    BY <1>3, <2>5, <2>6 DEF SyncInv
<1>9. CASE InstallFails(n)
  <2>1. CASE Fail("capacity")
    BY <2>1, <1>1, ResetPreserves DEF Failure
  <2>2. ASSUME NEW j \in Failing(n), IsFirst(Failing(n), j), Fail(ReplayStepFailure(n, j))
        PROVE  SyncInv'
    <3>1. j \in Kept(n) /\ ReplayStepFailure(n, j) # "none"
      BY DEF Failing
    <3>2. PICK f \in Kept(n) : IsFirst(Kept(n), f)
      BY <1>6, <3>1
    <3>3. ReplayStepFailure(n, j) \in Failure \ {"crossed_book"}
      <4>1. CASE BridgesSnapshot(buffered[f], n)
        <5>1. Uncrossed(Truth(buffered[j].final))
          BY <1>1, <1>5, <3>1, <3>2, <4>1 DEF HistoryConsistent
        <5>2. Uncrossed(Replayed(n, j))
          BY <5>1, <1>5, <3>1, <3>2, <4>1, PartOfTruthUncrossed
        <5>3. QED
          BY <5>2, <3>1 DEF ReplayStepFailure, ReplayFailure, BookFailure, Failure
      <4>2. CASE ~BridgesSnapshot(buffered[f], n)
        <5>1. f \in Failing(n)
          BY <3>2, <4>2 DEF Failing, ReplayStepFailure
        <5>2. j = f
          <6>1. f <= j /\ j <= f /\ f \in Nat /\ j \in Nat
            BY <5>1, <2>2, <3>1, <3>2, <1>1, KeptIds DEF IsFirst
          <6>2. QED
            BY <6>1
        <5>3. ReplayStepFailure(n, j) = "gap"
          BY <5>2, <3>2, <4>2 DEF ReplayStepFailure
        <5>4. QED
          BY <5>3 DEF Failure
      <4>3. QED
        BY <4>1, <4>2
    <3>4. QED
      BY <2>2, <3>3, <1>1, ResetPreserves
  <2>3. QED
    BY <1>9, <2>1, <2>2 DEF InstallFails
<1>10. QED
  BY <1>7, <1>8, <1>9 DEF InstallSnapshot

LEMMA ExchangeUpdatePreserves ==
  ASSUME SyncInv, NEW l \in MovingLevels, NEW q \in Quantities \cup {0},
         ExchangeUpdate(l, q)
  PROVE  SyncInv'
<1>1. TypeOK /\ HistoryConsistent /\ BufferChained
  BY DEF SyncInv
<1>0. PICK L \in Nat : L = Len(history)
  BY <1>1 DEF TypeOK
<1>10. PICK b : b = [Truth(L) EXCEPT ![l[1]][l[2]] = q]
  OBVIOUS
<1>2. /\ history' = Append(history, b) /\ TwoSided(b) /\ Uncrossed(b)
      /\ UNCHANGED <<market, status, book, buffered, bufferedUpdates, lastId, lastFirst,
                     trusted, boundary, failure, seedEdge>>
  BY <1>0, <1>10 DEF ExchangeUpdate, engineVars
<1>3. b \in Book
  <2>1. l \in Side \X Prices
    BY ConstantsAssumption
  <2>2. Truth(L) \in Book
    BY <1>1, <1>0, TruthType DEF TypeOK, Ids
  <2>3. QED
    BY <2>1, <2>2, <1>10 DEF Book
<1>4. /\ L \in Nat \ {0} /\ Ids = 1..L /\ Ids' = 1..(L + 1)
      /\ \A i \in 1..L : history'[i] = Truth(i)
      /\ history'[L + 1] = b
      /\ history' \in Seq(Book) /\ history' # <<>>
  <2>1. /\ history \in Seq(Book) /\ L # 0 /\ Len(history') = L + 1
        /\ history' \in Seq(Book) /\ history' # <<>>
        /\ history'[L + 1] = b /\ \A i \in 1..L : history'[i] = history[i]
    BY <1>0, <1>1, <1>2, <1>3 DEF TypeOK
  <2>2. QED
    BY <2>1, <1>0 DEF Ids, Truth
<1>5. TypeOK'
  BY <1>1, <1>2, <1>4 DEF TypeOK
<1>6. HistoryConsistent'
  <2>1. \A n \in Ids' : TwoSided(history'[n]) /\ Uncrossed(history'[n])
    <3>1. ASSUME NEW n \in 1..L PROVE TwoSided(history'[n]) /\ Uncrossed(history'[n])
      <4>1. n \in Ids /\ history'[n] = Truth(n)
        BY <1>4
      <4>2. TwoSided(Truth(n)) /\ Uncrossed(Truth(n))
        BY <4>1, <1>1 DEF HistoryConsistent
      <4>3. QED
        BY <4>1, <4>2
    <3>2. TwoSided(history'[L + 1]) /\ Uncrossed(history'[L + 1])
      BY <1>2, <1>4
    <3>3. QED
      BY <3>1, <3>2, <1>4
  <2>2. ASSUME NEW m \in Ids', NEW n \in Ids', NEW s \in Side, NEW p \in Prices, m <= n,
               \A i \in (m + 1)..n : history'[i][s][p] = history'[i - 1][s][p]
        PROVE  history'[m][s][p] = history'[n][s][p]
    <3>1. CASE n \in Ids
      <4>1. m \in Ids
        BY <3>1, <2>2, <1>4
      <4>2. \A i \in (m + 1)..n : Truth(i)[s][p] = Truth(i - 1)[s][p]
        <5>1. \A i \in (m + 1)..n : i \in 1..L /\ i - 1 \in 1..L
          BY <3>1, <4>1, <1>4
        <5>2. QED
          BY <5>1, <2>2, <1>4
      <4>3. Truth(m)[s][p] = Truth(n)[s][p]
        BY <3>1, <4>1, <4>2, <2>2, <1>1 DEF HistoryConsistent
      <4>4. QED
        BY <4>3, <3>1, <4>1, <1>4
    <3>2. CASE n = L + 1 /\ m = L + 1
      BY <3>2
    <3>3. CASE n = L + 1 /\ m \in Ids
      <4>1. \A i \in (m + 1)..L : Truth(i)[s][p] = Truth(i - 1)[s][p]
        <5>1. \A i \in (m + 1)..L : i \in 1..L /\ i - 1 \in 1..L /\ i \in (m + 1)..n
          BY <3>3, <1>4
        <5>2. QED
          BY <5>1, <2>2, <1>4
      <4>2. Truth(m)[s][p] = Truth(L)[s][p]
        BY <3>3, <4>1, <1>1, <1>4 DEF HistoryConsistent
      <4>3. history'[n][s][p] = history'[n - 1][s][p] /\ n - 1 = L
        <5>1. n \in (m + 1)..n /\ n - 1 = L
          BY <3>3, <1>4
        <5>2. QED
          BY <5>1, <2>2
      <4>4. history'[L] = Truth(L) /\ history'[m] = Truth(m)
        BY <3>3, <1>4
      <4>5. QED
        BY <4>2, <4>3, <4>4
    <3>4. QED
      BY <3>1, <3>2, <3>3, <1>4
  <2>3. QED
    BY <2>1, <2>2, <1>4 DEF HistoryConsistent, TwoSided, Uncrossed, LevelsOf, Truth
<1>7. BufferChained'
  <2>1. Len(history') = L + 1 /\ Len(history) = L
    BY <1>0, <1>1, <1>2 DEF TypeOK
  <2>2. Deltas \subseteq Deltas'
    BY <2>1, <1>4 DEF Deltas
  <2>3. \A j \in DOMAIN buffered : buffered[j] \in Deltas /\ buffered[j].final \in Ids
    BY <1>1, DeltaIds DEF BufferChained
  <2>4. ASSUME NEW j \in DOMAIN buffered, NEW k \in DOMAIN buffered, NEW i \in Ids',
               buffered[j].final < i, i <= buffered[k].final
        PROVE  \E c \in DOMAIN buffered :
                 j < c /\ c <= k /\ buffered[c].first <= i /\ i <= buffered[c].final
    <3>1. i \in Ids
      BY <2>3, <2>4, <1>4
    <3>2. QED
      BY <3>1, <2>4, <1>1 DEF BufferChained
  <2>5. QED
    BY <2>2, <2>3, <2>4, <1>1, <1>2 DEF BufferChained
<1>8. NoFalseLevels' /\ NeverCrossedLocally'
  <2>1. NeverCrossedLocally'
    BY <1>2 DEF SyncInv, NeverCrossedLocally
  <2>2. Synced' => Synced /\ lastId \in Ids /\ lastId' = lastId /\ book' = book
    BY <1>2 DEF SyncInv, NoFalseLevels, Synced
  <2>3. \A i \in Ids : i \in Ids' /\ history'[i] = Truth(i)
    BY <1>4
  <2>4. Synced => \A s \in Side, p \in Prices :
                    book[s][p] # 0 => book[s][p] = Truth(lastId)[s][p]
    BY DEF SyncInv, NoFalseLevels
  <2>5. NoFalseLevels'
    BY <2>2, <2>3, <2>4 DEF NoFalseLevels, Truth
  <2>6. QED
    BY <2>1, <2>5
<1>9. QED
  BY <1>5, <1>6, <1>7, <1>8 DEF SyncInv

-----------------------------------------------------------------------------
(* The theorems.                                                           *)

LEMMA SyncInvInit == Init => SyncInv
<1> SUFFICES ASSUME Init PROVE SyncInv
  OBVIOUS
<1>1. /\ history = <<InitialBook>> /\ Len(history) = 1 /\ Ids = {1} /\ Truth(1) = InitialBook
      /\ InitialBook \in Book
  BY ConstantsAssumption DEF Init, Ids, Truth
<1>2. TypeOK
  BY <1>1 DEF Init, TypeOK, Status, Failure, EmptyBook, Book, NoId, NoPrice
<1>3. HistoryConsistent
  BY <1>1, ConstantsAssumption DEF HistoryConsistent
<1>4. BufferChained /\ NoFalseLevels /\ NeverCrossedLocally
  BY DEF Init, BufferChained, NoFalseLevels, Synced, NeverCrossedLocally
<1>5. QED
  BY <1>2, <1>3, <1>4 DEF SyncInv

LEMMA SyncInvNext == SyncInv /\ [Next]_vars => SyncInv'
<1> SUFFICES ASSUME SyncInv, [Next]_vars PROVE SyncInv'
  OBVIOUS
<1>1. CASE ActivateStream \/ DeactivateStream \/ BeginSync
  BY <1>1, ResetPreserves DEF ActivateStream, DeactivateStream, BeginSync
<1>2. CASE \E d \in Deltas : ApplyDelta(d)
  BY <1>2, ApplyDeltaPreserves
<1>3. CASE \E n \in Ids : InstallSnapshot(n)
  BY <1>3, InstallSnapshotPreserves
<1>4. CASE \E l \in MovingLevels, q \in Quantities \cup {0} : ExchangeUpdate(l, q)
  BY <1>4, ExchangeUpdatePreserves
<1>5. CASE UNCHANGED vars
  <2>1. UNCHANGED history /\ TypeOK /\ HistoryConsistent /\ BufferChained
    BY <1>5 DEF vars, SyncInv
  <2>2. HistoryConsistent' /\ Deltas' = Deltas /\ Ids' = Ids
    BY <2>1, SameHistory
  <2>3. TypeOK' /\ BufferChained' /\ NoFalseLevels' /\ NeverCrossedLocally'
    BY <1>5, <2>1, <2>2 DEF vars, SyncInv, TypeOK, BufferChained, NoFalseLevels, Synced,
                           NeverCrossedLocally, Truth
  <2>4. QED
    BY <2>2, <2>3 DEF SyncInv
<1>6. QED
  BY <1>1, <1>2, <1>3, <1>4, <1>5 DEF Next

\* Every reachable state of the engine and its exchange satisfies SyncInv,
\* whatever the channel does to diffs and snapshots.
THEOREM SyncInvariance == Spec => []SyncInv
BY SyncInvInit, SyncInvNext, PTL DEF Spec

\* FullOrderBookEngine's fields always have their types.
THEOREM TypeCorrect == Spec => []TypeOK
<1>1. SyncInv => TypeOK
  BY DEF SyncInv
<1>2. QED
  BY <1>1, SyncInvariance, PTL

\* A synced book holds only levels the exchange really had at last_update_id:
\* install_snapshot, _apply_bridge and _apply_live never chain over a hole.
THEOREM LevelsAreTrue == Spec => []NoFalseLevels
<1>1. SyncInv => NoFalseLevels
  BY DEF SyncInv
<1>2. QED
  BY <1>1, SyncInvariance, PTL

\* The crossed-book exits of _mutate_live_book and _mutate_book are never taken
\* while the exchange's own book is uncrossed.
THEOREM LocalBookNeverCrossed == Spec => []NeverCrossedLocally
<1>1. SyncInv => NeverCrossedLocally
  BY DEF SyncInv
<1>2. QED
  BY <1>1, SyncInvariance, PTL

-----------------------------------------------------------------------------
(* Nothing is missing in the seeded range.                                 *)

\* The n best levels of a side that holds a worse one end at the worst of them.
LEMMA TopIsPrefix ==
  ASSUME NEW b, NEW s \in Side, NEW n \in Nat, NEW q \in Top(b, s, n),
         NEW p \in LevelsOf(b, s), ~Better(s, q, p)
  PROVE  p \in Top(b, s, n)
<1> DEFINE Above(x) == {y \in LevelsOf(b, s) : Better(s, y, x)}
<1>1. /\ p \in Nat /\ q \in Nat /\ LevelsOf(b, s) \subseteq Nat
      /\ q \in LevelsOf(b, s) /\ Cardinality(Above(q)) < n
  BY ConstantsAssumption DEF Top, LevelsOf, Prices
<1>2. Above(p) \subseteq Above(q)
  BY <1>1 DEF Better
<1>3. IsFiniteSet(Above(q))
  BY FiniteLevels, FS_Subset
<1>4. /\ Cardinality(Above(p)) <= Cardinality(Above(q))
      /\ Cardinality(Above(p)) \in Nat /\ Cardinality(Above(q)) \in Nat
  BY <1>2, <1>3, FS_Subset, FS_CardinalityType
<1>5. Cardinality(Above(p)) < n
  BY <1>1, <1>4
<1>6. QED
  BY <1>5 DEF Top

\* A REST seed holds every level down to its worst one.
LEMMA SeedComplete ==
  ASSUME TypeOK, HistoryConsistent, NEW n \in Ids, NEW s \in Side, NEW p \in Prices,
         Edge(n, s) = NoPrice \/ ~Better(s, Edge(n, s), p)
  PROVE  Seed(n)[s][p] = Truth(n)[s][p]
<1> DEFINE levels == LevelsOf(Seed(n), s)
<1>1. Truth(n) \in Book /\ Seed(n)[s][p] \in {0, Truth(n)[s][p]}
  BY TruthType, SeedFacts
<1>2. CASE Truth(n)[s][p] = 0
  BY <1>1, <1>2
<1>3. CASE p \in LevelsOf(Truth(n), s) /\ LevelsOf(Truth(n), s) = levels
  BY <1>1, <1>3 DEF LevelsOf
<1>4. CASE p \in LevelsOf(Truth(n), s) /\ LevelsOf(Truth(n), s) # levels
  <2>1. levels \in SUBSET Prices /\ levels # {}
    BY SeedFacts DEF LevelsOf, TwoSided
  <2>2. \E w \in levels : \A q \in levels : ~Better(s, w, q)
    BY <2>1, BestExists
  <2>3. Edge(n, s) = CHOOSE w \in levels : \A q \in levels : ~Better(s, w, q)
    BY <1>4 DEF Edge
  <2>4. PICK w \in levels : w = Edge(n, s)
    BY <2>2, <2>3
  <2>5. w # NoPrice
    BY <2>1, <2>4, ConstantsAssumption DEF Prices, NoPrice
  <2>6. w \in Top(Truth(n), s, SnapshotLimit)
    BY <2>4, <2>1 DEF LevelsOf, Seed, TopOf
  <2>7. SnapshotLimit \in Nat
    BY ConstantsAssumption
  <2>8. p \in Top(Truth(n), s, SnapshotLimit)
    BY <1>4, <2>4, <2>5, <2>6, <2>7, TopIsPrefix
  <2>9. QED
    BY <2>8 DEF Seed, TopOf
<1>5. QED
  BY <1>2, <1>3, <1>4 DEF LevelsOf

\* Trimming: what is better than the boundary that it leaves was better than
\* the boundary before, and is not among the levels it pops.
LEMMA BoundaryOnlyRises ==
  ASSUME TypeOK, NEW b, NEW s \in Side, NEW p \in Prices,
         TrimmedBoundary(b, s) = NoPrice \/ Better(s, p, TrimmedBoundary(b, s))
  PROVE  /\ boundary[s] = NoPrice \/ Better(s, p, boundary[s])
         /\ p \in LevelsOf(b, s) => p \in Top(b, s, MaxLevels)
<1> DEFINE popped == LevelsOf(b, s) \ Top(b, s, MaxLevels)
           known  == popped \cup ({boundary[s]} \ {NoPrice})
<1>1. known \in SUBSET Prices /\ Prices \subseteq Nat \ {NoPrice}
  BY ConstantsAssumption DEF TypeOK, LevelsOf, Prices, NoPrice
<1>2. known # {} => \E q \in known : \A r \in known : ~Better(s, r, q)
  BY <1>1, BestExists
<1>3. TrimmedBoundary(b, s) =
        IF known = {} THEN NoPrice
        ELSE CHOOSE q \in known : \A r \in known : ~Better(s, r, q)
  BY DEF TrimmedBoundary
<1>4. CASE known = {}
  BY <1>4
<1>5. CASE known # {}
  <2>1. PICK q \in known : q = TrimmedBoundary(b, s) /\ \A r \in known : ~Better(s, r, q)
    BY <1>2, <1>3, <1>5
  <2>2. q \in Nat /\ q # NoPrice /\ Better(s, p, q) /\ p \in Nat
    BY <1>1, <2>1
  <2>3. p \notin known
    BY <2>1, <2>2
  <2>4. \A r \in known : Better(s, p, r)
    BY <1>1, <2>1, <2>2 DEF Better
  <2>5. QED
    BY <2>3, <2>4
<1>6. QED
  BY <1>4, <1>5

\* Applying a delta keeps the seeded range complete, above the new boundary.
LEMMA MutateLiveComplete ==
  ASSUME SyncInv, SeedRangeComplete, Synced, UNCHANGED exchangeVars, NEW d \in Deltas,
         d.first <= lastId + 1, lastId <= d.final, MutateLive(d)
  PROVE  SeedRangeComplete'
<1> DEFINE b == WindowedOverwrite(d)
           kept == TopOf(b, MaxLevels)
<1>1. TypeOK /\ HistoryConsistent /\ lastId \in Ids /\ UNCHANGED history
  BY DEF SyncInv, NoFalseLevels, exchangeVars
<1>2. d.final \in Ids /\ d.final \in Nat /\ d.first \in Nat
  BY <1>1, DeltaIds DEF Delta
<1>3. /\ b \in Book
      /\ \A s \in Side, p \in Prices :
           b[s][p] = IF <<s, p>> \in Touched(d) /\ InWindow(s, p)
                     THEN Truth(d.final)[s][p] ELSE book[s][p]
  BY <1>1, WindowedOverwriteFacts
<1>4. ASSUME NEW s \in Side, NEW p \in Prices,
             seedEdge[s] = NoPrice \/ ~Better(s, seedEdge[s], p),
             TrimmedBoundary(b, s) = NoPrice \/ Better(s, p, TrimmedBoundary(b, s))
      PROVE  kept[s][p] = Truth(d.final)[s][p]
  <2>1. /\ boundary[s] = NoPrice \/ Better(s, p, boundary[s])
        /\ p \in LevelsOf(b, s) => p \in Top(b, s, MaxLevels)
    BY <1>1, <1>4, BoundaryOnlyRises
  <2>2. InWindow(s, p) /\ book[s][p] = Truth(lastId)[s][p]
    BY <2>1, <1>4 DEF InWindow, SeedRangeComplete, InSeedRange
  <2>3. b[s][p] = Truth(d.final)[s][p]
    <3>1. CASE <<s, p>> \in Touched(d)
      BY <3>1, <2>2, <1>3
    <3>2. CASE <<s, p>> \notin Touched(d)
      <4>1. \A i \in (lastId + 1)..d.final : \E e \in Deltas :
              e.first <= i /\ i <= e.final /\ <<s, p>> \notin Touched(e)
        BY <3>2, <1>1, <1>2 DEF Ids
      <4>2. Truth(lastId)[s][p] = Truth(d.final)[s][p]
        BY <4>1, <1>1, <1>2, Untouched
      <4>3. QED
        BY <4>2, <3>2, <2>2, <1>3
    <3>3. QED
      BY <3>1, <3>2
  <2>4. kept[s][p] = b[s][p]
    BY <2>1 DEF TopOf, LevelsOf
  <2>5. QED
    BY <2>3, <2>4
<1> HIDE DEF b, kept
<1>5. \/ /\ book' = kept /\ lastId' = d.final /\ seedEdge' = seedEdge
         /\ boundary' = [s \in Side |-> TrimmedBoundary(b, s)]
      \/ status' = "resync_required"
  BY DEF MutateLive, Fail, b, kept
<1>6. QED
  BY <1>1, <1>4, <1>5 DEF SeedRangeComplete, InSeedRange, Synced, Truth

\* Installing a snapshot seeds the range; the replay of the buffer keeps it.
LEMMA InstallSnapshotComplete ==
  ASSUME SyncInv, NEW n \in Ids, InstallSnapshot(n)
  PROVE  SeedRangeComplete'
<1>1. /\ TypeOK /\ HistoryConsistent /\ BufferChained /\ UNCHANGED history
  BY DEF SyncInv, InstallSnapshot, InstallAndAwaitBridge, InstallAndGoLive,
         InstallFails, exchangeVars
<1>2. ASSUME Seeded(n), NEW s \in Side, NEW p \in Prices, InSeedRange(s, p)'
      PROVE  Seed(n)[s][p] = Truth(n)[s][p]
  BY <1>1, <1>2, SeedComplete DEF Seeded, InSeedRange
<1>3. CASE InstallAndAwaitBridge(n)
  <2>1. Seeded(n) /\ book' = Seed(n) /\ lastId' = n
    BY <1>3 DEF InstallAndAwaitBridge
  <2>2. QED
    BY <2>1, <1>1, <1>2 DEF SeedRangeComplete, Truth
<1>4. CASE InstallAndGoLive(n)
  <2>1. PICK j \in Kept(n) : book' = Replayed(n, j) /\ lastId' = buffered[j].final
    BY <1>4 DEF InstallAndGoLive
  <2>2. PICK f \in Kept(n) : IsFirst(Kept(n), f)
    BY <2>1, <1>1, KeptIds, MinExists DEF IsFirst
  <2>3. Failing(n) = {} /\ Seeded(n)
    BY <1>4 DEF InstallAndGoLive
  <2>4. BridgesSnapshot(buffered[f], n)
    BY <2>2, <2>3 DEF Failing, ReplayStepFailure
  <2>5. \A s \in Side, p \in Prices : InSeedRange(s, p)' =>
          Replayed(n, j)[s][p] = Truth(buffered[j].final)[s][p]
    BY <2>2, <2>3, <2>4, <1>1, <1>2, ReplayTrue
  <2>6. QED
    BY <2>1, <2>5, <1>1 DEF SeedRangeComplete, Truth
<1>5. CASE InstallFails(n)
  BY <1>5 DEF InstallFails, Fail, SeedRangeComplete, Synced
<1>6. QED
  BY <1>3, <1>4, <1>5 DEF InstallSnapshot

LEMMA ApplyDeltaComplete ==
  ASSUME SyncInv, SeedRangeComplete, NEW d \in Deltas, ApplyDelta(d)
  PROVE  SeedRangeComplete'
<1>1. TypeOK /\ NoFalseLevels
  BY DEF SyncInv
<1>2. CASE /\ Synced /\ MutateLive(d) /\ UNCHANGED exchangeVars
           /\ BridgesSnapshot(d, lastId) \/ (Linked(lastId, d) /\ d.final > lastId)
  <2>1. lastId \in Ids /\ lastId \in Nat /\ d.final \in Nat
    BY <1>1, <1>2, DeltaIds DEF NoFalseLevels, Ids
  <2>2. d.first <= lastId + 1 /\ lastId <= d.final
    BY <1>1, <1>2, <2>1, NoHole
  <2>3. QED
    BY <1>2, <2>2, MutateLiveComplete
<1>3. CASE status' \in {"resync_required", "buffering"}
  BY <1>3 DEF SeedRangeComplete, Synced
<1>4. QED
  BY <1>2, <1>3 DEF ApplyDelta, OversizedDelta, BufferDelta, ApplyBridge, ApplyLive, Accepts,
     Fail, Synced

\* Inside the price range of the REST seed, above the boundary that trimming
\* has moved, a synced book misses no level of the exchange.
THEOREM RangeIsComplete == Spec => []SeedRangeComplete
<1>1. Init => SeedRangeComplete
  BY DEF Init, SeedRangeComplete, Synced
<1>2. ASSUME SyncInv, SeedRangeComplete, [Next]_vars PROVE SeedRangeComplete'
  <2>1. CASE ActivateStream \/ DeactivateStream \/ BeginSync
    BY <2>1 DEF ActivateStream, DeactivateStream, BeginSync, Reset, SeedRangeComplete, Synced
  <2>2. CASE \E d \in Deltas : ApplyDelta(d)
    BY <1>2, <2>2, ApplyDeltaComplete
  <2>3. CASE \E n \in Ids : InstallSnapshot(n)
    BY <1>2, <2>3, InstallSnapshotComplete
  <2>4. CASE UNCHANGED engineVars /\ (lastId \in Ids => Truth(lastId)' = Truth(lastId))
    BY <1>2, <2>4 DEF SyncInv, NoFalseLevels, SeedRangeComplete, InSeedRange, Synced, engineVars
  <2>5. ASSUME NEW l \in MovingLevels, NEW q \in Quantities \cup {0}, ExchangeUpdate(l, q)
        PROVE  UNCHANGED engineVars /\ (lastId \in Ids => Truth(lastId)' = Truth(lastId))
    <3>1. history \in Seq(Book) /\ \E b : history' = Append(history, b)
      BY <1>2, <2>5 DEF SyncInv, TypeOK, ExchangeUpdate
    <3>2. UNCHANGED engineVars
      BY <2>5 DEF ExchangeUpdate
    <3>3. QED
      BY <3>1, <3>2 DEF Ids, Truth, engineVars
  <2>6. UNCHANGED vars => UNCHANGED engineVars /\ Truth(lastId)' = Truth(lastId)
    BY DEF vars, engineVars, Truth
  <2>7. QED
    BY <1>2, <2>1, <2>2, <2>3, <2>4, <2>5, <2>6 DEF Next
<1>3. QED
  BY <1>1, <1>2, SyncInvariance, PTL DEF Spec

=============================================================================
