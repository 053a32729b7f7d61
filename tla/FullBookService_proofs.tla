------------------------ MODULE FullBookService_proofs ------------------------
(***************************************************************************)
(* A synchronised book misses no delta, the hub's record is honest, and a  *)
(* physical feed is never forgotten: for any consumers, queue size and     *)
(* number of deltas, breaks, refusals, deferrals and actors.               *)
(*                                                                         *)
(* BookIsUnbroken is not inductive: what begin_sync leaves in the queue is *)
(* contiguous only because the envelopes of the current version already    *)
(* were, while the book was stale; and that rests on the rate-limit        *)
(* circuit, which drops deltas, clearing the queue when it closes.         *)
(***************************************************************************)
EXTENDS FullBookService, TLAPS, FiniteNaturals, SequenceTheorems

Ending == {"quiescing", "stopping", "retiring", "undoing"}

\* Who holds the lock and where, and what that says of the actor and the feed.
LeaseInv ==
  /\ caller \in [op : {"none", "ensure", "release"}, pc : CallerPC, consumer : Consumers \cup {"none"}]
  /\ caller.op # "none" => caller.consumer \in Consumers
  /\ caller.pc # "none" => caller.op # "none"
  /\ physical \in BOOLEAN /\ accepting \in BOOLEAN /\ handle \in BOOLEAN /\ feed \in BOOLEAN
  /\ gen \in 0..MaxGenerations /\ consumers \subseteq Consumers
  /\ stopTask \in StopTask /\ stopState \in StopState
  /\ accepting => /\ physical
                  /\ caller.pc \notin Ending /\ stopTask = "none" /\ stopState = "active"
  /\ feed => /\ physical
             /\ handle \/ caller.pc = "starting"
             /\ stopTask # "ok" /\ caller.pc \notin {"retiring", "undoing"}

SyncTyped ==
  /\ wake \in BOOLEAN /\ requested \in BOOLEAN /\ broken \in BOOLEAN
  /\ pc \in ActorPC /\ state \in {"stale", "resyncing", "live"}
  /\ version \in Nat \ {0} /\ limited \in {"none", "future", "past"}
  /\ hub \in [live : BOOLEAN, gen : 0..gen, version : Nat]
  /\ offered \in 0..MaxDeltas /\ fed \in 0..MaxDeltas
  /\ breaks \in 0..MaxBreaks /\ failures \in 0..MaxFailures /\ denials \in 0..MaxDenials

\* A resync that is asked for is pending until the synchronisation begins.
StateInv ==
  /\ state # "stale" <=> accepting /\ ~requested
  /\ ~requested => limited = "none"
  /\ accepting /\ pc \in {"waiting", "admission", "backoff", "deferred"} => requested

\* A queue of envelopes while the version is v and n deltas were delivered.
Ordered(q, v, n) ==
  /\ q \in Seq([number : 1..n, version : 1..v]) /\ Len(q) <= QueueSize
  /\ \A i, j \in 1..Len(q) : i <= j => q[i].version <= q[j].version

\* Those of the current version are the last ones delivered.
Contiguous(q, v, n) ==
  \A i \in 1..Len(q) : q[i].version = v => q[i].number = n - Len(q) + i

AllCurrent(q, v) == \A i \in 1..Len(q) : q[i].version = v

QueueInv ==
  /\ Ordered(queue, version, offered)
  /\ limited = "none" => Contiguous(queue, version, offered)
  /\ ~accepting => queue = <<>>
  /\ state # "stale" => AllCurrent(queue, version)

BookInv == state # "stale" => ~broken /\ (fed # 0 => fed = offered - Len(queue))

HubInv ==
  /\ hub.live <=> state = "live"
  /\ hub.live => hub.gen = gen /\ hub.version = version

SyncInv == SyncTyped /\ StateInv /\ QueueInv /\ BookInv /\ HubInv

ServiceInv == LeaseInv /\ SyncInv

-----------------------------------------------------------------------------
(* Queues.                                                                 *)

LEMMA EmptyOrdered ==
  ASSUME NEW v, NEW n
  PROVE  Ordered(<<>>, v, n) /\ Contiguous(<<>>, v, n) /\ AllCurrent(<<>>, v)
BY FullBookServiceAssumption DEF Ordered, Contiguous, AllCurrent, FullBookServiceAssumption

(* A queue stays ordered when the version is raised or deltas go by.       *)
LEMMA LaterOrdered ==
  ASSUME NEW v \in Nat, NEW w \in Nat, v <= w, NEW n \in Nat, NEW m \in Nat, n <= m,
         NEW q, Ordered(q, v, n)
  PROVE  Ordered(q, w, m)
<1>1. [number : 1..n, version : 1..v] \subseteq [number : 1..m, version : 1..w]
  OBVIOUS
<1>2. q \in Seq([number : 1..m, version : 1..w])
  BY <1>1, SeqMonotonic, Zenon DEF Ordered
<1>3. QED BY <1>2 DEF Ordered

(* Nothing queued is of a version that was only raised now.                *)
LEMMA RaisedContiguous ==
  ASSUME NEW v \in Nat, NEW n \in Nat, NEW m \in Nat, NEW q, Ordered(q, v, n)
  PROVE  Contiguous(q, v + 1, m)
<1>1. SUFFICES ASSUME NEW i \in 1..Len(q) PROVE q[i].version # v + 1
  BY DEF Contiguous
<1>2. q[i] \in [number : 1..n, version : 1..v]
  BY ElementOfSeq DEF Ordered
<1>3. QED BY <1>2

(* What is left when a number of envelopes was taken from the head.        *)
LEMMA RestOrdered ==
  ASSUME NEW v \in Nat, NEW n \in Nat, NEW q, Ordered(q, v, n), NEW k \in 0..Len(q)
  PROVE  LET r == SubSeq(q, k + 1, Len(q)) IN
         /\ Ordered(r, v, n) /\ Len(r) = Len(q) - k
         /\ \A i \in 1..Len(r) : r[i] = q[k + i]
         /\ Contiguous(q, v, n) => Contiguous(r, v, n)
         /\ AllCurrent(q, v) => AllCurrent(r, v)
<1> DEFINE E == [number : 1..n, version : 1..v]
           r == SubSeq(q, k + 1, Len(q))
<1>1. q \in Seq(E) /\ Len(q) \in Nat /\ k \in Nat /\ k <= Len(q)
  BY DEF Ordered
<1>2. \A i \in (k + 1)..Len(q) : q[i] \in E
  <2>1. \A i \in 1..Len(q) : q[i] \in E
    BY <1>1, ElementOfSeq, Zenon
  <2>2. ASSUME NEW i \in (k + 1)..Len(q) PROVE i \in 1..Len(q)
    BY <1>1
  <2>3. QED BY <2>1, <2>2
<1>3. /\ r \in Seq(E)
      /\ Len(r) = IF k + 1 <= Len(q) THEN Len(q) - (k + 1) + 1 ELSE 0
      /\ \A i \in 1..(Len(q) - (k + 1) + 1) : r[i] = q[(k + 1) + i - 1]
  <2>1. k + 1 \in Int /\ Len(q) \in Int
    BY <1>1
  <2> HIDE DEF E
  <2>2. QED BY <2>1, <1>2, SubSeqProperties
<1>4. Len(r) = Len(q) - k
  BY <1>1, <1>3
<1>5. \A i \in 1..Len(r) : r[i] = q[k + i]
  <2>1. ASSUME NEW i \in 1..Len(r)
        PROVE  i \in 1..(Len(q) - (k + 1) + 1) /\ (k + 1) + i - 1 = k + i
    BY <1>1, <1>4
  <2>2. QED BY <2>1, <1>3
<1> HIDE DEF r, E
<1>6. Ordered(r, v, n)
  <2> HIDE DEF r
  <2>1. ASSUME NEW i \in 1..Len(r), NEW j \in 1..Len(r), i <= j
        PROVE  r[i].version <= r[j].version
    <3>1. k + i \in 1..Len(q) /\ k + j \in 1..Len(q) /\ k + i <= k + j
      BY <2>1, <1>1, <1>4
    <3>2. QED BY <3>1, <1>5 DEF Ordered
  <2>2. Len(r) <= QueueSize
    <3>1. Len(q) <= QueueSize /\ QueueSize \in Nat
      BY FullBookServiceAssumption DEF Ordered, FullBookServiceAssumption
    <3>2. QED BY <3>1, <1>1, <1>4
  <2>3. QED BY <1>3, <2>1, <2>2 DEF Ordered, E
<1>7. ASSUME Contiguous(q, v, n) PROVE Contiguous(r, v, n)
  <2>1. ASSUME NEW i \in 1..Len(r), r[i].version = v
        PROVE  r[i].number = n - Len(r) + i
    <3>1. k + i \in 1..Len(q) /\ r[i] = q[k + i]
      BY <1>1, <1>4, <1>5
    <3>2. q[k + i].number = n - Len(q) + (k + i)
      BY <3>1, <2>1, <1>7 DEF Contiguous
    <3>3. QED BY <3>1, <3>2, <1>1, <1>4
  <2>2. QED BY <2>1 DEF Contiguous
<1>8. ASSUME AllCurrent(q, v) PROVE AllCurrent(r, v)
  <2>1. ASSUME NEW i \in 1..Len(r) PROVE r[i].version = v
    <3>1. k + i \in 1..Len(q) /\ r[i] = q[k + i]
      BY <1>1, <1>4, <1>5
    <3>2. QED BY <3>1, <1>8 DEF AllCurrent
  <2>2. QED BY <2>1 DEF AllCurrent
<1>9. QED BY <1>4, <1>5, <1>6, <1>7, <1>8 DEF r

LEMMA TailOrdered ==
  ASSUME NEW v \in Nat, NEW n \in Nat, NEW q, Ordered(q, v, n), q # <<>>
  PROVE  /\ Ordered(Tail(q), v, n) /\ Len(Tail(q)) = Len(q) - 1
         /\ Contiguous(q, v, n) => Contiguous(Tail(q), v, n)
         /\ AllCurrent(q, v) => AllCurrent(Tail(q), v)
<1>1. q \in Seq([number : 1..n, version : 1..v])
  BY DEF Ordered
<1>2. Len(q) \in Nat \ {0}
  BY <1>1, EmptySeq
<1>3. Tail(q) = SubSeq(q, 1 + 1, Len(q))
  BY <1>1, TailIsSubSeq
<1>4. 1 \in 0..Len(q)
  BY <1>2
<1> DEFINE r == SubSeq(q, 1 + 1, Len(q))
<1>5. /\ Ordered(r, v, n) /\ Len(r) = Len(q) - 1
      /\ Contiguous(q, v, n) => Contiguous(r, v, n)
      /\ AllCurrent(q, v) => AllCurrent(r, v)
  <2>1. Len(q) \in Nat
    BY <1>2
  <2>2. LET s == SubSeq(q, 1 + 1, Len(q)) IN
        /\ Ordered(s, v, n) /\ Len(s) = Len(q) - 1
        /\ \A i \in 1..Len(s) : s[i] = q[1 + i]
        /\ Contiguous(q, v, n) => Contiguous(s, v, n)
        /\ AllCurrent(q, v) => AllCurrent(s, v)
    BY <1>4, RestOrdered, Zenon
  <2>3. QED BY <2>2
<1>6. QED BY <1>3, <1>5

LEMMA RestsOrdered ==
  ASSUME NEW v \in Nat, NEW n \in Nat, NEW q, Ordered(q, v, n), NEW r \in Rests(q)
  PROVE  /\ Ordered(r, v, n)
         /\ Contiguous(q, v, n) => Contiguous(r, v, n)
<1>1. PICK k \in 1..Len(q) : r = SubSeq(q, k + 1, Len(q))
  BY DEF Rests
<1>2. Len(q) \in Nat
  BY LenProperties DEF Ordered
<1>3. k \in 0..Len(q)
  BY <1>2
<1>4. QED BY <1>1, <1>3, RestOrdered, Zenon

(* The next delta is the newest.                                           *)
LEMMA AppendOrdered ==
  ASSUME NEW v \in Nat \ {0}, NEW n \in Nat, NEW q, Ordered(q, v, n), Len(q) < QueueSize
  PROVE  LET r == Append(q, Envelope(n + 1, v)) IN
         /\ Ordered(r, v, n + 1) /\ Len(r) = Len(q) + 1
         /\ Contiguous(q, v, n) => Contiguous(r, v, n + 1)
         /\ AllCurrent(q, v) => AllCurrent(r, v)
<1> DEFINE e == Envelope(n + 1, v)
           r == Append(q, e)
           E == [number : 1..(n + 1), version : 1..v]
<1>1. e \in E /\ e.version = v /\ e.number = n + 1
  BY DEF Envelope
<1>2. Ordered(q, v, n + 1)
  BY LaterOrdered
<1>3. q \in Seq(E) /\ Len(q) \in Nat
  BY <1>2 DEF Ordered
<1>4. /\ r \in Seq(E) /\ Len(r) = Len(q) + 1
      /\ \A i \in 1..Len(q) : r[i] = q[i]
      /\ r[Len(q) + 1] = e
  <2> HIDE DEF E, e
  <2>1. QED BY <1>1, <1>3, AppendProperties
<1>5. \A i \in 1..Len(q) : q[i] \in E
  BY <1>3, ElementOfSeq
<1>6. ASSUME NEW i \in 1..Len(r), NEW j \in 1..Len(r), i <= j
      PROVE  r[i].version <= r[j].version
  <2>1. CASE j = Len(q) + 1
    BY <2>1, <1>1, <1>3, <1>4, <1>5, <1>6
  <2>2. CASE j # Len(q) + 1
    BY <2>2, <1>2, <1>3, <1>4, <1>6 DEF Ordered
  <2>3. QED BY <2>1, <2>2
<1>7. Len(r) <= QueueSize
  BY <1>3, <1>4, FullBookServiceAssumption DEF FullBookServiceAssumption
<1>8. Ordered(r, v, n + 1)
  BY <1>4, <1>6, <1>7 DEF Ordered
<1>9. ASSUME Contiguous(q, v, n), NEW i \in 1..Len(r), r[i].version = v
      PROVE  r[i].number = (n + 1) - Len(r) + i
  <2>1. CASE i = Len(q) + 1
    BY <2>1, <1>1, <1>3, <1>4
  <2>2. CASE i # Len(q) + 1
    <3>1. i \in 1..Len(q) /\ r[i] = q[i]
      BY <2>2, <1>3, <1>4
    <3>2. q[i].number = n - Len(q) + i
      BY <3>1, <1>9 DEF Contiguous
    <3>3. QED BY <3>1, <3>2, <1>3, <1>4
  <2>3. QED BY <2>1, <2>2
<1>10. AllCurrent(q, v) => AllCurrent(r, v)
  BY <1>1, <1>3, <1>4 DEF AllCurrent
<1>11. QED BY <1>4, <1>8, <1>9, <1>10 DEF Contiguous

LEMMA LoneOrdered ==
  ASSUME NEW v \in Nat \ {0}, NEW n \in Nat \ {0}
  PROVE  /\ Ordered(<<Envelope(n, v)>>, v, n)
         /\ Contiguous(<<Envelope(n, v)>>, v, n)
BY FullBookServiceAssumption DEF Ordered, Contiguous, Envelope, FullBookServiceAssumption

(* _discard_other_versions keeps what is of the version, all of it and     *)
(* nothing else, because the versions of the queue only grow.              *)
LEMMA CurrentKept ==
  ASSUME NEW v \in Nat, NEW n \in Nat, NEW q, Ordered(q, v, n)
  PROVE  /\ Ordered(Current(q, v), v, n)
         /\ Contiguous(q, v, n) => Contiguous(Current(q, v), v, n)
         /\ AllCurrent(Current(q, v), v)
         /\ \A i \in 1..Len(q) : q[i].version = v =>
              \E j \in 1..Len(Current(q, v)) : Current(q, v)[j] = q[i]
<1> DEFINE I == {i \in 1..Len(q) : q[i].version # v}
           k == SelectLastInSeq(q, LAMBDA e : e.version # v)
<1>1. Len(q) \in Nat /\ q \in Seq([number : 1..n, version : 1..v])
  BY DEF Ordered
<1>2. k = IF I # {} THEN Max(I) ELSE 0
  BY DEF SelectLastInSeq
<1>3. k \in 0..Len(q) /\ \A i \in 1..Len(q) : q[i].version = v <=> i > k
  <2>1. CASE I = {}
    <3>1. k = 0 /\ \A i \in 1..Len(q) : q[i].version = v
      BY <2>1, <1>2
    <3> HIDE DEF k
    <3>2. QED BY <3>1, <1>1
  <2>2. CASE I # {}
    <3>1. \E x \in I : \A y \in I : y <= x
      <4>1. I \in SUBSET (0..Len(q))
        BY <1>1
      <4>2. QED BY <4>1, <2>2, <1>1, MaxExists, Zenon
    <3>2. \E x \in I : \A y \in I : x >= y
      BY <3>1, <1>1
    <3>3. k \in I /\ \A y \in I : k >= y
      BY <3>2, <2>2, <1>2 DEF Max
    <3>4. ASSUME NEW i \in 1..Len(q), i <= k PROVE q[i].version # v
      <4>1. q[i].version <= q[k].version
        BY <3>3, <3>4 DEF Ordered
      <4>2. q[i] \in [number : 1..n, version : 1..v] /\ q[k] \in [number : 1..n, version : 1..v]
        BY <1>1, <3>3, ElementOfSeq
      <4>3. q[k].version # v
        BY <3>3
      <4> HIDE DEF k
      <4>4. QED BY <4>1, <4>2, <4>3
    <3>5. ASSUME NEW i \in 1..Len(q), i > k PROVE q[i].version = v
      <4>1. ~(k >= i)
        BY <3>5, <3>3, <1>1
      <4>2. i \notin I
        BY <4>1, <3>3
      <4>3. QED BY <4>2
    <3>6. k \in 1..Len(q)
      BY <3>3
    <3> HIDE DEF k
    <3>7. ASSUME NEW i \in 1..Len(q) PROVE q[i].version = v <=> i > k
      <4>1. i <= k \/ i > k
        BY <3>6, <1>1
      <4>2. CASE i <= k
        BY <4>2, <3>4, <3>6, <1>1
      <4>3. CASE i > k
        BY <4>3, <3>5
      <4>4. QED BY <4>1, <4>2, <4>3
    <3>8. QED BY <3>6, <3>7, <1>1
  <2>3. QED BY <2>1, <2>2
<1>4. Current(q, v) = SubSeq(q, k + 1, Len(q))
  <2>1. Current(q, v) = SubSeq(q, 1 + k, Len(q))
    BY DEF Current
  <2>2. 1 + k = k + 1
    BY <1>1, <1>3
  <2>3. QED BY <2>1, <2>2
<1> HIDE DEF k
<1>5. /\ Ordered(Current(q, v), v, n) /\ Len(Current(q, v)) = Len(q) - k
      /\ \A i \in 1..Len(Current(q, v)) : Current(q, v)[i] = q[k + i]
      /\ Contiguous(q, v, n) => Contiguous(Current(q, v), v, n)
  BY <1>3, <1>4, RestOrdered
<1>6. AllCurrent(Current(q, v), v)
  <2>1. ASSUME NEW i \in 1..Len(Current(q, v)) PROVE Current(q, v)[i].version = v
    <3>1. k + i \in 1..Len(q) /\ k + i > k
      BY <1>1, <1>3, <1>5
    <3>2. QED BY <3>1, <1>3, <1>5
  <2>2. QED BY <2>1 DEF AllCurrent
<1>7. ASSUME NEW i \in 1..Len(q), q[i].version = v
      PROVE  \E j \in 1..Len(Current(q, v)) : Current(q, v)[j] = q[i]
  <2>1. i - k \in 1..Len(Current(q, v)) /\ k + (i - k) = i
    BY <1>1, <1>3, <1>5, <1>7
  <2>2. QED BY <2>1, <1>5
<1>8. QED BY <1>5, <1>6, <1>7

-----------------------------------------------------------------------------
(* The lease, the feed and its stop.                                       *)

LEMMA BoundsAreNatural ==
  /\ QueueSize \in Nat \ {0}
  /\ MaxDeltas \in Nat /\ MaxBreaks \in Nat /\ MaxFailures \in Nat /\ MaxDenials \in Nat
  /\ MaxGenerations \in Nat
BY FullBookServiceAssumption DEF FullBookServiceAssumption

(* Whoever takes the lock is a consumer.                                   *)
LEMMA HoldingTyped ==
  ASSUME NEW op \in {"ensure", "release"}, NEW at \in CallerPC, NEW c \in Consumers
  PROVE  /\ Holding(op, at, c) \in [op : {"none", "ensure", "release"}, pc : CallerPC, consumer : Consumers \cup {"none"}]
         /\ Holding(op, at, c).op = op /\ Holding(op, at, c).pc = at /\ Holding(op, at, c).consumer = c
BY DEF Holding

LEMMA FreeTyped ==
  /\ Free \in [op : {"none", "ensure", "release"}, pc : CallerPC, consumer : Consumers \cup {"none"}]
  /\ Free.op = "none" /\ Free.pc = "none"
BY DEF Free, CallerPC

LEMMA InitLease == Init => LeaseInv
<1>1. SUFFICES ASSUME Init PROVE LeaseInv
  OBVIOUS
<1>2. gen \in 0..MaxGenerations
  BY <1>1, BoundsAreNatural DEF Init
<1>3. QED BY <1>1, <1>2, FreeTyped DEF Init, LeaseInv, StopTask, StopState, Ending

(* A new actor accepts, and its feed runs.                                 *)
LEMMA CreateLease ==
  ASSUME LeaseInv, NEW c \in Consumers, CreateActor(c)
  PROVE  LeaseInv'
<1>1. gen' \in 0..MaxGenerations
  BY BoundsAreNatural DEF LeaseInv, CreateActor
<1>2. /\ caller' \in [op : {"none", "ensure", "release"}, pc : CallerPC, consumer : Consumers \cup {"none"}]
      /\ caller'.pc = "starting" /\ caller'.op = "ensure" /\ caller'.consumer = c
  BY HoldingTyped DEF CreateActor, CallerPC
<1>3. QED BY <1>1, <1>2 DEF LeaseInv, CreateActor, StopTask, StopState, Ending

LEMMA EnsureSharedLease ==
  ASSUME LeaseInv, NEW c \in Consumers, EnsureShared(c)
  PROVE  LeaseInv'
BY DEF LeaseInv, EnsureShared, Ending, CallerPC, StopTask, StopState

LEMMA EnsureAfterFailedStopLease ==
  ASSUME LeaseInv, NEW c \in Consumers, EnsureAfterFailedStop(c)
  PROVE  LeaseInv'
<1>1. /\ caller' \in [op : {"none", "ensure", "release"}, pc : CallerPC, consumer : Consumers \cup {"none"}]
      /\ caller'.pc = "stopping" /\ caller'.op = "ensure" /\ caller'.consumer = c
  BY HoldingTyped DEF EnsureAfterFailedStop, CallerPC
<1>2. /\ physical' = physical /\ gen' = gen /\ consumers' = consumers /\ accepting' = FALSE
      /\ handle' = handle /\ feed' = feed /\ stopTask' = "running" /\ stopState' = "stopping"
  BY DEF LeaseInv, EnsureAfterFailedStop
<1>3. feed' => physical' /\ (handle' \/ caller'.pc = "starting")
  BY <1>2, FreeTyped DEF LeaseInv, EnsureAfterFailedStop, Nobody
<1>4. QED BY <1>1, <1>2, <1>3 DEF LeaseInv, Ending, StopTask, StopState

LEMMA LeaveLease ==
  ASSUME LeaseInv, NEW c \in Consumers, Leave(c)
  PROVE  LeaseInv'
BY DEF LeaseInv, Leave, Ending, CallerPC, StopTask, StopState

LEMMA LeaveLastLease ==
  ASSUME LeaseInv, NEW c \in Consumers, LeaveLast(c)
  PROVE  LeaseInv'
<1>1. /\ caller' \in [op : {"none", "ensure", "release"}, pc : CallerPC, consumer : Consumers \cup {"none"}]
      /\ caller'.pc = "quiescing" /\ caller'.op = "release" /\ caller'.consumer = c
  BY HoldingTyped DEF LeaveLast, CallerPC
<1>2. /\ physical' = physical /\ gen' = gen /\ consumers' = consumers /\ accepting' = FALSE
      /\ handle' = handle /\ feed' = feed /\ stopTask' = stopTask /\ stopState' = stopState
  BY DEF LeaveLast, Quiesce
<1>3. feed' => physical' /\ (handle' \/ caller'.pc = "starting")
  BY <1>2, FreeTyped DEF LeaseInv, LeaveLast, Nobody
<1>4. QED BY <1>1, <1>2, <1>3 DEF LeaseInv

LEMMA StartSucceedsLease ==
  ASSUME LeaseInv, StartSucceeds
  PROVE  LeaseInv'
BY DEF LeaseInv, StartSucceeds, Free, Ending, CallerPC, StopTask, StopState

LEMMA StartFailsLease ==
  ASSUME LeaseInv, StartFails
  PROVE  LeaseInv'
BY DEF LeaseInv, StartFails, Quiesce, Ending, CallerPC, StopTask, StopState

LEMMA QuiescedLease ==
  ASSUME LeaseInv, Quiesced
  PROVE  LeaseInv'
BY DEF LeaseInv, Quiesced, StopSucceeded, Ending, CallerPC, StopTask, StopState

LEMMA QuiescedAlreadyLease ==
  ASSUME LeaseInv, QuiescedAlready
  PROVE  LeaseInv'
BY DEF LeaseInv, QuiescedAlready, StopSucceeded, Ending, CallerPC, StopTask, StopState

LEMMA StopEndsLease ==
  ASSUME LeaseInv, StopEnds
  PROVE  LeaseInv'
<1>1. ~accepting /\ stopTask' \in StopTask
  BY DEF LeaseInv, StopEnds, StopTask
<1>2. CASE stopTask' = "ok" /\ feed' = FALSE
  BY <1>1, <1>2 DEF LeaseInv, StopEnds
<1>3. CASE stopTask' # "ok" /\ feed' = feed
  BY <1>1, <1>3 DEF LeaseInv, StopEnds
<1>4. QED BY <1>2, <1>3 DEF StopEnds

LEMMA StopAwaitedLease ==
  ASSUME LeaseInv, StopAwaited
  PROVE  LeaseInv'
BY DEF LeaseInv, StopAwaited, StopSucceeded, Free, Ending, CallerPC, StopTask, StopState

LEMMA StopTimeoutLease ==
  ASSUME LeaseInv, StopTimeout
  PROVE  LeaseInv'
BY DEF LeaseInv, StopTimeout, Ended, Free, Ending, CallerPC, StopTask, StopState

LEMMA LateStopLease ==
  ASSUME LeaseInv, LateStop
  PROVE  LeaseInv'
<1>1. ~accepting /\ caller.pc = "none"
  BY FreeTyped DEF LeaseInv, LateStop, Ended, Nobody
<1>2. CASE stopTask = "ok"
  BY <1>1, <1>2 DEF LeaseInv, LateStop, StopSucceeded, StopTask, StopState
<1>3. CASE stopTask # "ok"
  <2>1. NotStopped(stopTask) \in StopState
    BY DEF NotStopped, StopState
  <2>2. /\ physical' = physical /\ gen' = gen /\ consumers' = consumers /\ accepting' = FALSE
        /\ handle' = handle /\ feed' = feed /\ caller' = caller
        /\ stopTask' = "none" /\ stopState' = NotStopped(stopTask)
    BY <1>1, <1>3 DEF LeaseInv, LateStop, StopSucceeded
  <2>3. QED BY <2>1, <2>2 DEF LeaseInv, StopTask
<1>4. QED BY <1>2, <1>3

LEMMA RetireFailedStartLease ==
  ASSUME LeaseInv, RetireFailedStart
  PROVE  LeaseInv'
BY DEF LeaseInv, RetireFailedStart, Forget, Free, Ending, CallerPC, StopTask, StopState

LEMMA CallerCancelledLease ==
  ASSUME LeaseInv, CallerCancelled
  PROVE  LeaseInv'
BY DEF LeaseInv, CallerCancelled, Ended, Free, Ending, CallerPC, StopTask, StopState

LEMMA RetireLease ==
  ASSUME LeaseInv, Retire
  PROVE  LeaseInv'
<1>1. CASE caller.op = "release" /\ Forget /\ caller' = Free
  BY <1>1, FreeTyped DEF LeaseInv, Retire, Forget, Ending, StopTask
<1>2. CASE caller.op = "ensure" /\ CreateActor(caller.consumer)
  <2>1. caller.consumer \in Consumers
    BY <1>2 DEF LeaseInv
  <2>2. QED BY <1>2, <2>1, CreateLease
<1>3. QED BY <1>1, <1>2 DEF Retire

LEMMA UnleasedKeeps ==
  ASSUME LeaseInv, Unleased
  PROVE  LeaseInv'
BY DEF LeaseInv, Unleased, lifecycle

LEMMA SharedIsUnleased ==
  ASSUME Actor \/ Feed \/ RetryTimePasses
  PROVE  Unleased
BY DEF Actor, Feed, Begins, AdmissionDenied, BeginSync, Interrupted, Drain, FetchEnds,
       ApplyDelta, BridgeTimeout, PauseEnds, OfferDelta, Break, RetryTimePasses

LEMMA LeaseKept == LeaseInv /\ [Next]_vars => LeaseInv'
<1> SUFFICES ASSUME LeaseInv, [Next]_vars PROVE LeaseInv'
  OBVIOUS
<1>1. CASE Actor \/ Feed \/ RetryTimePasses
  BY <1>1, SharedIsUnleased, UnleasedKeeps
<1>2. CASE Lease
  <2>1. ASSUME NEW c \in Consumers, EnsureNew(c) PROVE LeaseInv'
    BY <2>1, CreateLease DEF EnsureNew
  <2>2. ASSUME NEW c \in Consumers, EnsureShared(c) PROVE LeaseInv'
    BY <2>2, EnsureSharedLease
  <2>3. ASSUME NEW c \in Consumers, EnsureAfterFailedStop(c) PROVE LeaseInv'
    BY <2>3, EnsureAfterFailedStopLease
  <2>4. ASSUME NEW c \in Consumers, Leave(c) PROVE LeaseInv'
    BY <2>4, LeaveLease
  <2>5. ASSUME NEW c \in Consumers, LeaveLast(c) PROVE LeaseInv'
    BY <2>5, LeaveLastLease
  <2>6. ASSUME StartSucceeds \/ StartFails \/ Quiesced \/ QuiescedAlready PROVE LeaseInv'
    BY <2>6, StartSucceedsLease, StartFailsLease, QuiescedLease, QuiescedAlreadyLease
  <2>7. ASSUME StopEnds \/ StopAwaited \/ StopTimeout \/ LateStop PROVE LeaseInv'
    BY <2>7, StopEndsLease, StopAwaitedLease, StopTimeoutLease, LateStopLease
  <2>8. ASSUME Retire \/ RetireFailedStart \/ CallerCancelled PROVE LeaseInv'
    BY <2>8, RetireLease, RetireFailedStartLease, CallerCancelledLease
  <2>9. QED
    BY <1>2, <2>1, <2>2, <2>3, <2>4, <2>5, <2>6, <2>7, <2>8 DEF Lease
<1>3. CASE UNCHANGED vars
  BY <1>3, UnleasedKeeps DEF vars, Unleased
<1>4. QED BY <1>1, <1>2, <1>3 DEF Next

-----------------------------------------------------------------------------
(* Synchronisation.                                                        *)

LEMMA InitSync == Init => SyncInv
<1>1. SUFFICES ASSUME Init PROVE SyncInv
  OBVIOUS
<1>2. SyncTyped
  <2>1. hub \in [live : BOOLEAN, gen : 0..gen, version : Nat]
    BY <1>1 DEF Init
  <2>2. /\ 0 \in 0..MaxDeltas /\ 0 \in 0..MaxBreaks
        /\ 0 \in 0..MaxFailures /\ 0 \in 0..MaxDenials
    BY BoundsAreNatural
  <2>3. wake \in BOOLEAN /\ requested \in BOOLEAN /\ broken \in BOOLEAN
    BY <1>1 DEF Init
  <2>4. /\ offered \in 0..MaxDeltas /\ fed \in 0..MaxDeltas /\ breaks \in 0..MaxBreaks
        /\ failures \in 0..MaxFailures /\ denials \in 0..MaxDenials
    BY <1>1, <2>2 DEF Init
  <2>5. /\ pc \in ActorPC /\ state \in {"stale", "resyncing", "live"}
        /\ version \in Nat \ {0} /\ limited \in {"none", "future", "past"}
    BY <1>1 DEF Init, ActorPC
  <2>6. QED BY <2>1, <2>3, <2>4, <2>5 DEF SyncTyped
<1>3. QueueInv
  BY <1>1, EmptyOrdered DEF Init, QueueInv
<1>4. StateInv /\ BookInv /\ HubInv
  BY <1>1 DEF Init, StateInv, BookInv, HubInv
<1>5. QED BY <1>2, <1>3, <1>4 DEF SyncInv

LEMMA StaleTyped ==
  ASSUME SyncInv, LeaseInv, NEW v \in Nat
  PROVE  /\ Stale(v) \in [live : BOOLEAN, gen : 0..gen, version : Nat]
         /\ Stale(v).live = FALSE
BY DEF Stale, LeaseInv

(* What a step leaves of the counters, the feed's number and the actor.    *)
Counts ==
  /\ offered' \in 0..MaxDeltas /\ offered <= offered'
  /\ breaks' \in 0..MaxBreaks /\ failures' \in 0..MaxFailures /\ denials' \in 0..MaxDenials

\* What _request_resync leaves is that of a stale book.
LEMMA StaleKept ==
  ASSUME LeaseInv, SyncInv, Counts, gen' = gen, accepting' = accepting,
         state' = "stale", requested' = TRUE, version' \in Nat \ {0},
         hub' = Stale(version'), wake' \in BOOLEAN, broken' \in BOOLEAN,
         pc' \in ActorPC, fed' \in 0..MaxDeltas, limited' \in {"none", "future", "past"},
         Ordered(queue', version', offered'),
         limited' = "none" => Contiguous(queue', version', offered'),
         ~accepting => queue' = <<>>
  PROVE  SyncInv'
<1>1. hub' \in [live : BOOLEAN, gen : 0..gen, version : Nat] /\ hub'.live = FALSE
  BY StaleTyped
<1>2. SyncTyped'
  BY <1>1 DEF SyncTyped, Counts
<1>3. StateInv' /\ BookInv' /\ HubInv'
  BY <1>1 DEF StateInv, BookInv, HubInv
<1>4. QueueInv'
  BY DEF QueueInv
<1>5. QED BY <1>2, <1>3, <1>4 DEF SyncInv

LEMMA SameCounts ==
  ASSUME SyncInv
  PROVE  /\ offered \in Nat /\ version \in Nat \ {0} /\ version + 1 \in Nat \ {0} /\ MaxDeltas \in Nat
         /\ Ordered(queue, version, offered)
         /\ Ordered(queue, version + 1, offered)
BY BoundsAreNatural, LaterOrdered DEF SyncInv, SyncTyped, QueueInv

(* _request_resync with force_new_version.                                 *)
LEMMA ForceResyncSync ==
  ASSUME LeaseInv, SyncInv, Counts, gen' = gen, accepting' = accepting, accepting,
         NEW kept, ForceResync(kept), broken' = TRUE, pc' = pc, limited' = limited, fed' = fed,
         Ordered(kept, version + 1, offered'), Contiguous(kept, version + 1, offered')
  PROVE  SyncInv'
<1>1. version' = version + 1 /\ version' \in Nat \ {0}
  BY SameCounts DEF ForceResync
<1>2. /\ pc' \in ActorPC /\ fed' \in 0..MaxDeltas /\ limited' \in {"none", "future", "past"}
  BY DEF SyncInv, SyncTyped
<1>3. state' = "stale" /\ requested' = TRUE /\ hub' = Stale(version') /\ wake' \in BOOLEAN /\ queue' = kept
  BY <1>1 DEF ForceResync, Woken
<1>4. QED BY <1>1, <1>2, <1>3, StaleKept

(* _request_resync on behalf of the actor.                                 *)
LEMMA RequestResyncSync ==
  ASSUME LeaseInv, SyncInv, Counts, gen' = gen, accepting' = accepting, accepting,
         NEW p \in ActorPC, NEW q, RequestResync(p, q),
         broken' = broken, fed' = fed, offered' = offered,
         limited' = limited \/ limited' = "future",
         Ordered(q, version, offered),
         limited = "none" => Contiguous(q, version, offered)
  PROVE  SyncInv'
<1>1. version' = version \/ version' = version + 1
  BY DEF RequestResync
<1>2. version' \in Nat \ {0} /\ offered \in Nat
  BY <1>1, SameCounts
<1>3. /\ state' = "stale" /\ requested' = TRUE /\ hub' = Stale(version') /\ wake' \in BOOLEAN
      /\ queue' = q /\ pc' \in ActorPC
  BY DEF RequestResync, Woken
<1>4. broken' \in BOOLEAN /\ fed' \in 0..MaxDeltas /\ limited' \in {"none", "future", "past"}
  BY DEF SyncInv, SyncTyped
<1>5. Ordered(queue', version', offered')
  <2>1. version \in Nat /\ version <= version'
    BY <1>1, SameCounts
  <2>2. QED BY <2>1, <1>2, <1>3, LaterOrdered
<1>6. limited' = "none" => Contiguous(queue', version', offered')
  <2>1. CASE version' = version
    BY <2>1, <1>3
  <2>2. CASE version' = version + 1
    BY <2>2, <1>2, <1>3, SameCounts, RaisedContiguous
  <2>3. QED BY <1>1, <2>1, <2>2
<1>7. QED BY <1>2, <1>3, <1>4, <1>5, <1>6, StaleKept

LEMMA LoopGoesOn ==
  ASSUME Loop, wake \in BOOLEAN, requested' \in BOOLEAN
  PROVE  /\ pc' \in {"admission", "following"} /\ wake' \in BOOLEAN
         /\ requested' => pc' = "admission"
         /\ ~requested' /\ state' = "live" => pc' = "following"
BY DEF Loop, Top, Await

LEMMA AwaitGoesOn ==
  ASSUME NEW p, Await(p), requested' \in BOOLEAN
  PROVE  pc' = p /\ wake' \in BOOLEAN
BY DEF Await

(* The actor goes on with the same book.                                   *)
LEMMA ReadingKept ==
  ASSUME LeaseInv, SyncInv, UNCHANGED reading, gen' = gen, accepting' = accepting,
         pc' \in ActorPC, wake' \in BOOLEAN,
         accepting /\ pc' \in {"waiting", "admission", "backoff", "deferred"} => requested
  PROVE  SyncInv'
<1>1. /\ state' = state /\ version' = version /\ requested' = requested /\ limited' = limited
      /\ queue' = queue /\ hub' = hub /\ offered' = offered /\ fed' = fed /\ broken' = broken
      /\ breaks' = breaks /\ failures' = failures /\ denials' = denials
  BY DEF reading
<1>2. SyncTyped' /\ StateInv'
  BY <1>1 DEF SyncInv, SyncTyped, StateInv
<1>3. QueueInv' /\ BookInv' /\ HubInv'
  BY <1>1 DEF SyncInv, QueueInv, BookInv, HubInv
<1>4. QED BY <1>2, <1>3 DEF SyncInv

LEMMA RequestedLoop ==
  ASSUME LeaseInv, SyncInv, UNCHANGED reading, gen' = gen, accepting' = accepting,
         requested, Loop
  PROVE  SyncInv'
<1>1. requested' = requested /\ requested \in BOOLEAN /\ wake \in BOOLEAN
  BY DEF reading, SyncInv, SyncTyped
<1>2. pc' = "admission" /\ wake' \in BOOLEAN
  BY <1>1, LoopGoesOn
<1>3. pc' \in ActorPC
  BY <1>2 DEF ActorPC
<1>4. QED BY <1>2, <1>3, ReadingKept

(* A book that is being synchronised and goes on, fed.                     *)
FedFrom ==
  /\ Ordered(queue', version, offered) /\ Contiguous(queue', version, offered)
  /\ AllCurrent(queue', version)
  /\ fed' \in 0..MaxDeltas /\ (fed' # 0 => fed' = offered - Len(queue'))

LEMMA FedKept ==
  ASSUME LeaseInv, SyncInv, gen' = gen, accepting' = accepting,
         accepting, ~requested, FedFrom,
         state' = state, version' = version, requested' = requested, limited' = limited,
         hub' = hub, offered' = offered, broken' = broken,
         breaks' = breaks, failures' = failures, denials' = denials,
         pc' \in {"fetching", "bridging", "following"}, wake' \in BOOLEAN
  PROVE  SyncInv'
<1>1. SyncTyped'
  BY DEF SyncInv, SyncTyped, FedFrom, ActorPC
<1>2. StateInv' /\ HubInv'
  BY DEF SyncInv, StateInv, HubInv
<1>3. BookInv'
  BY DEF SyncInv, StateInv, BookInv, FedFrom
<1>4. QueueInv'
  BY DEF SyncInv, QueueInv, FedFrom
<1>5. QED BY <1>1, <1>2, <1>3, <1>4 DEF SyncInv

LEMMA PublishLiveSync ==
  ASSUME LeaseInv, SyncInv, gen' = gen, accepting' = accepting,
         accepting, ~requested, FedFrom, PublishLive,
         offered' = offered, broken' = broken, breaks' = breaks, denials' = denials
  PROVE  SyncInv'
<1> USE DEF SyncInv
<1>1. wake \in BOOLEAN /\ requested \in BOOLEAN /\ gen \in 0..gen /\ broken = FALSE
  BY BoundsAreNatural DEF SyncTyped, LeaseInv, StateInv, BookInv
<1>2. CASE /\ state' = "live" /\ hub' = [live |-> TRUE, gen |-> gen, version |-> version]
           /\ limited' = "none" /\ version' = version /\ requested' = requested
           /\ failures' = failures /\ Loop
  <2>1. pc' = "following" /\ wake' \in BOOLEAN
    BY <1>1, <1>2, LoopGoesOn
  <2>2. hub' \in [live : BOOLEAN, gen : 0..gen', version : Nat]
    BY <1>1, <1>2 DEF SyncTyped
  <2>3. SyncTyped'
    BY <1>2, <2>1, <2>2 DEF SyncTyped, FedFrom, ActorPC
  <2>4. StateInv' /\ HubInv'
    BY <1>2, <2>1 DEF StateInv, HubInv
  <2>5. BookInv'
    BY <1>1 DEF BookInv, FedFrom
  <2>6. QueueInv'
    BY <1>2 DEF QueueInv, FedFrom
  <2>7. QED BY <2>3, <2>4, <2>5, <2>6
<1>3. CASE /\ Refused /\ version' = IF requested THEN version ELSE version + 1
           /\ requested' = TRUE /\ state' = "stale" /\ hub' = Stale(version')
           /\ limited' = limited /\ Loop
  <2>1. version' = version + 1 /\ version' \in Nat \ {0} /\ offered \in Nat
    BY <1>3, SameCounts
  <2>2. pc' \in ActorPC /\ wake' \in BOOLEAN
    BY <1>1, <1>3, LoopGoesOn DEF ActorPC
  <2>3. Counts
    <3>1. failures' \in 0..MaxFailures
      BY <1>3, BoundsAreNatural DEF Refused, SyncTyped
    <3>2. QED BY <3>1, SameCounts DEF SyncTyped, Counts
  <2>4. Ordered(queue', version', offered')
    <3>1. version \in Nat /\ version <= version'
      BY <2>1, SameCounts
    <3>2. QED BY <3>1, <2>1, LaterOrdered DEF FedFrom
  <2>5. Contiguous(queue', version', offered')
    BY <2>1, SameCounts, RaisedContiguous DEF FedFrom
  <2>6. limited' \in {"none", "future", "past"} /\ broken' \in BOOLEAN /\ fed' \in 0..MaxDeltas
    BY <1>3 DEF SyncTyped, FedFrom
  <2>7. state' = "stale" /\ requested' = TRUE /\ hub' = Stale(version')
    BY <1>3
  <2>8. QED BY <2>1, <2>2, <2>3, <2>4, <2>5, <2>6, <2>7, StaleKept
<1>4. QED BY <1>2, <1>3 DEF PublishLive

(* The last envelope of a synchronised queue is the newest delta, the head *)
(* the one after those fed.                                                *)
LEMMA DrainedIsFed ==
  ASSUME SyncInv, state # "stale", fed' = Newest(queue), queue' = <<>>
  PROVE  FedFrom
<1>1. Ordered(queue', version, offered) /\ Contiguous(queue', version, offered) /\ AllCurrent(queue', version)
  BY EmptyOrdered
<1>2. Len(queue') = 0 /\ offered \in Nat /\ offered <= MaxDeltas /\ fed \in 0..MaxDeltas
  BY DEF SyncInv, SyncTyped
<1>3. CASE queue = <<>>
  BY <1>1, <1>2, <1>3 DEF FedFrom, Newest, SyncInv, BookInv
<1>4. CASE queue # <<>>
  <2>1. Len(queue) \in 1..Len(queue)
    <3>1. Len(queue) \in Nat \ {0}
      BY <1>4, EmptySeq DEF SyncInv, QueueInv, Ordered
    <3>2. QED BY <3>1
  <2>2. queue[Len(queue)].version = version
    BY <2>1 DEF SyncInv, QueueInv, AllCurrent
  <2>3. queue[Len(queue)].number = offered - Len(queue) + Len(queue)
    BY <2>1, <2>2 DEF SyncInv, StateInv, QueueInv, Contiguous
  <2>4. Newest(queue) = offered
    BY <1>2, <1>4, <2>1, <2>3 DEF Newest, Last
  <2>5. QED BY <1>1, <1>2, <2>4 DEF FedFrom
<1>5. QED BY <1>3, <1>4

LEMMA HeadIsNext ==
  ASSUME SyncInv, state # "stale", queue # <<>>, fed' = Head(queue).number, queue' = Tail(queue)
  PROVE  FedFrom
<1>1. /\ Ordered(queue', version, offered) /\ Contiguous(queue', version, offered) /\ AllCurrent(queue', version)
      /\ Len(queue') = Len(queue) - 1
  <2>1. /\ Ordered(queue, version, offered) /\ Contiguous(queue, version, offered) /\ AllCurrent(queue, version)
        /\ version \in Nat /\ offered \in Nat
    BY SameCounts DEF SyncInv, StateInv, QueueInv
  <2>2. QED BY <2>1, TailOrdered
<1>2. Len(queue) \in Nat \ {0} /\ offered \in Nat /\ offered <= MaxDeltas
  <2>1. Len(queue) \in Nat \ {0}
    BY EmptySeq DEF SyncInv, QueueInv, Ordered
  <2>2. QED BY <2>1 DEF SyncInv, SyncTyped
<1>3. 1 \in 1..Len(queue) /\ queue[1] \in [number : 1..offered, version : 1..version]
  <2>1. 1 \in 1..Len(queue)
    BY <1>2
  <2>2. QED BY <2>1, ElementOfSeq DEF SyncInv, QueueInv, Ordered
<1>4. queue[1].number = offered - Len(queue) + 1
  BY <1>3 DEF SyncInv, StateInv, QueueInv, Contiguous, AllCurrent
<1>5. fed' = queue[1].number
  BY DEF SyncInv, QueueInv, Ordered
<1>6. QED BY <1>1, <1>2, <1>3, <1>4, <1>5, BoundsAreNatural DEF FedFrom

-----------------------------------------------------------------------------
(* The feed, the clock and the actor keep it.                              *)

LEMMA OfferDeltaSync ==
  ASSUME LeaseInv, SyncInv, OfferDelta
  PROVE  SyncInv'
<1>1. /\ accepting /\ accepting' = accepting /\ gen' = gen
      /\ offered' = offered + 1 /\ offered < MaxDeltas
      /\ pc' = pc /\ limited' = limited /\ fed' = fed
      /\ breaks' = breaks /\ failures' = failures /\ denials' = denials
  BY DEF OfferDelta, Listening, Unleased, lifecycle
<1>2. /\ Counts /\ offered' \in Nat \ {0} /\ offered \in Nat /\ version \in Nat \ {0}
      /\ Ordered(queue, version, offered) /\ version + 1 \in Nat \ {0}
  BY <1>1, SameCounts DEF Counts, SyncInv, SyncTyped
<1>3. CASE /\ limited = "future"
           /\ UNCHANGED <<wake, state, version, requested, queue, hub, broken>>
  <2>1. Ordered(queue, version, offered')
    BY <1>1, <1>2, LaterOrdered
  <2>2. state = "stale"
    BY <1>3 DEF SyncInv, StateInv
  <2>3. SyncTyped'
    BY <1>1, <1>2, <1>3 DEF SyncInv, SyncTyped, Counts
  <2>4. StateInv' /\ BookInv' /\ HubInv'
    BY <1>1, <1>3, <2>2 DEF SyncInv, StateInv, BookInv, HubInv
  <2>5. QueueInv'
    BY <1>1, <1>3, <2>1, <2>2 DEF SyncInv, QueueInv
  <2>6. QED BY <2>3, <2>4, <2>5 DEF SyncInv
<1>4. CASE /\ limited # "future" /\ HasRoom
           /\ queue' = Append(queue, Envelope(offered', version))
           /\ wake' = TRUE
           /\ UNCHANGED <<state, version, requested, hub, broken>>
  <2>1. /\ Ordered(queue', version, offered') /\ Len(queue') = Len(queue) + 1
        /\ Contiguous(queue, version, offered) => Contiguous(queue', version, offered')
        /\ AllCurrent(queue, version) => AllCurrent(queue', version)
    BY <1>1, <1>2, <1>4, AppendOrdered DEF HasRoom
  <2>2. SyncTyped'
    BY <1>1, <1>2, <1>4 DEF SyncInv, SyncTyped, Counts
  <2>3. StateInv' /\ HubInv'
    BY <1>1, <1>4 DEF SyncInv, StateInv, HubInv
  <2>4. BookInv'
    <3>1. Len(queue) \in Nat
      BY <1>2 DEF Ordered
    <3>2. offered' - Len(queue') = offered - Len(queue)
      BY <3>1, <1>1, <1>2, <2>1
    <3>3. QED BY <3>2, <1>1, <1>4 DEF SyncInv, BookInv
  <2>5. QueueInv'
    BY <1>1, <1>4, <2>1 DEF SyncInv, QueueInv
  <2>6. QED BY <2>2, <2>3, <2>4, <2>5 DEF SyncInv
<1>5. CASE /\ limited # "future" /\ ~HasRoom
           /\ ForceResync(<<Envelope(offered', version + 1)>>)
           /\ broken' = TRUE
  <2>1. /\ Ordered(<<Envelope(offered', version + 1)>>, version + 1, offered')
        /\ Contiguous(<<Envelope(offered', version + 1)>>, version + 1, offered')
    BY <1>2, LoneOrdered
  <2>2. QED BY <1>1, <1>2, <1>5, <2>1, ForceResyncSync
<1>6. QED BY <1>3, <1>4, <1>5 DEF OfferDelta

LEMMA BreakSync ==
  ASSUME LeaseInv, SyncInv, Break
  PROVE  SyncInv'
<1>1. /\ accepting /\ accepting' = accepting /\ gen' = gen /\ breaks' = breaks + 1 /\ breaks < MaxBreaks
      /\ pc' = pc /\ limited' = limited /\ fed' = fed /\ offered' = offered
      /\ failures' = failures /\ denials' = denials /\ broken' = TRUE /\ ForceResync(<<>>)
  BY DEF Break, Listening, Unleased, lifecycle
<1>2. Counts
  BY <1>1, SameCounts, BoundsAreNatural DEF Counts, SyncInv, SyncTyped
<1>3. QED BY <1>1, <1>2, EmptyOrdered, ForceResyncSync

LEMMA RetryTimePassesSync ==
  ASSUME LeaseInv, SyncInv, RetryTimePasses
  PROVE  SyncInv'
<1>1. /\ accepting' = accepting /\ gen' = gen /\ limited = "future" /\ limited' = "past"
      /\ pc' = pc /\ fed' = fed /\ offered' = offered /\ wake' = wake /\ state' = state
      /\ version' = version /\ requested' = requested /\ queue' = queue /\ hub' = hub
      /\ broken' = broken /\ breaks' = breaks /\ failures' = failures /\ denials' = denials
  BY DEF RetryTimePasses, Unleased, lifecycle
<1>2. SyncTyped' /\ StateInv'
  BY <1>1 DEF SyncInv, SyncTyped, StateInv
<1>3. BookInv' /\ HubInv'
  BY <1>1 DEF SyncInv, BookInv, HubInv
<1>4. QueueInv'
  BY <1>1 DEF SyncInv, QueueInv
<1>5. QED BY <1>2, <1>3, <1>4 DEF SyncInv

(* A pause, or an interruption, ends with a resync still asked for.        *)
LEMMA ContinuesSync ==
  ASSUME LeaseInv, SyncInv, Begins \/ Interrupted \/ PauseEnds
  PROVE  SyncInv'
<1>1. /\ UNCHANGED reading /\ gen' = gen /\ accepting' = accepting /\ Loop
      /\ requested \/ (accepting /\ pc \in {"waiting", "backoff", "deferred"})
  BY DEF Begins, Interrupted, PauseEnds, Running, Invalidated, Unleased, lifecycle
<1>2. requested
  BY <1>1 DEF SyncInv, StateInv
<1>3. QED BY <1>1, <1>2, RequestedLoop

LEMMA DeferSync ==
  ASSUME LeaseInv, SyncInv, accepting, gen' = gen, accepting' = accepting, Defer
  PROVE  SyncInv'
<1>1. /\ RequestResync("deferred", <<>>) /\ limited' = "future"
      /\ offered' = offered /\ fed' = fed /\ broken' = broken
      /\ breaks' = breaks /\ failures' = failures /\ denials < MaxDenials /\ denials' = denials + 1
  BY DEF Defer
<1>2. Counts
  BY <1>1, SameCounts, BoundsAreNatural DEF Counts, SyncInv, SyncTyped
<1>3. "deferred" \in ActorPC
  BY DEF ActorPC
<1>4. QED BY <1>1, <1>2, <1>3, EmptyOrdered, RequestResyncSync

(* A refusal leaves some of the newest envelopes.                          *)
LEMMA RefusalSync ==
  ASSUME LeaseInv, SyncInv, accepting, gen' = gen, accepting' = accepting,
         NEW q, Ordered(q, version, offered), limited = "none" => Contiguous(q, version, offered),
         EngineRefuses(q) \/ SyncFails(q)
  PROVE  SyncInv'
<1>1. PICK p \in {"admission", "backoff"} : RequestResync(p, q)
  BY DEF EngineRefuses, SyncFails
<1>2. /\ limited' = limited /\ offered' = offered /\ fed' = fed /\ broken' = broken
      /\ breaks' = breaks /\ denials' = denials /\ failures < MaxFailures /\ failures' = failures + 1
  BY DEF EngineRefuses, SyncFails, Refused
<1>3. Counts
  BY <1>2, SameCounts, BoundsAreNatural DEF Counts, SyncInv, SyncTyped
<1>4. p \in ActorPC
  BY DEF ActorPC
<1>5. QED BY <1>1, <1>2, <1>3, <1>4, RequestResyncSync

LEMMA RestsRefused ==
  ASSUME LeaseInv, SyncInv, accepting, gen' = gen, accepting' = accepting,
         NEW rest \in Rests(queue) \cup {<<>>}, EngineRefuses(rest)
  PROVE  SyncInv'
<1>1. /\ Ordered(queue, version, offered) /\ version \in Nat /\ offered \in Nat
      /\ limited = "none" => Contiguous(queue, version, offered)
  BY SameCounts DEF SyncInv, QueueInv
<1>2. Ordered(rest, version, offered) /\ (limited = "none" => Contiguous(rest, version, offered))
  BY <1>1, RestsOrdered, EmptyOrdered
<1>3. QED BY <1>2, RefusalSync

LEMMA BeginSyncSync ==
  ASSUME LeaseInv, SyncInv, BeginSync
  PROVE  SyncInv'
<1>1. /\ accepting /\ accepting' = accepting /\ gen' = gen /\ pc = "admission"
      /\ requested' = FALSE /\ state' = "resyncing" /\ limited' = "none" /\ fed' = 0 /\ broken' = FALSE
      /\ Await("fetching") /\ version' = version /\ offered' = offered
      /\ breaks' = breaks /\ failures' = failures /\ denials' = denials
      /\ queue' = IF limited = "none" THEN Current(queue, version) ELSE <<>>
      /\ hub' = IF limited = "none" THEN hub ELSE Stale(version)
  BY DEF BeginSync, Running, Unleased, lifecycle
<1>2. requested /\ state = "stale" /\ hub.live = FALSE
  BY <1>1 DEF SyncInv, StateInv, HubInv, SyncTyped
<1>3. pc' = "fetching" /\ wake' \in BOOLEAN
  BY <1>1, AwaitGoesOn
<1>4. hub' \in [live : BOOLEAN, gen : 0..gen', version : Nat] /\ hub'.live = FALSE
  BY <1>1, <1>2, SameCounts, StaleTyped DEF SyncInv, SyncTyped
<1>5. 0 \in 0..MaxDeltas
  BY BoundsAreNatural
<1>6. SyncTyped'
  BY <1>1, <1>3, <1>4, <1>5 DEF SyncInv, SyncTyped, ActorPC
<1>7. StateInv' /\ BookInv' /\ HubInv'
  BY <1>1, <1>3, <1>4 DEF StateInv, BookInv, HubInv
<1>8. /\ Ordered(queue', version, offered) /\ Contiguous(queue', version, offered)
      /\ AllCurrent(queue', version)
  <2>1. CASE limited = "none"
    <3>1. /\ Ordered(queue, version, offered) /\ version \in Nat /\ offered \in Nat
          /\ Contiguous(queue, version, offered)
      BY <2>1, SameCounts DEF SyncInv, QueueInv
    <3>2. QED BY <3>1, <2>1, <1>1, CurrentKept
  <2>2. CASE limited # "none"
    BY <2>2, <1>1, EmptyOrdered
  <2>3. QED BY <2>1, <2>2
<1>9. QueueInv'
  BY <1>1, <1>8 DEF QueueInv
<1>10. QED BY <1>6, <1>7, <1>9 DEF SyncInv

LEMMA DrainSync ==
  ASSUME LeaseInv, SyncInv, Drain
  PROVE  SyncInv'
<1>1. accepting /\ accepting' = accepting /\ gen' = gen /\ ~requested
  BY DEF Drain, Running, Invalidated, Unleased, lifecycle
<1>2. state # "stale"
  BY <1>1 DEF SyncInv, StateInv
<1>3. CASE /\ fed' = Newest(queue) /\ queue' = <<>>
           /\ UNCHANGED <<state, version, requested, limited, hub, offered, broken, breaks, failures, denials>>
           /\ Await("fetching")
  <2>1. FedFrom
    BY <1>2, <1>3, DrainedIsFed
  <2>2. pc' = "fetching" /\ wake' \in BOOLEAN
    BY <1>3, AwaitGoesOn DEF SyncInv, SyncTyped
  <2>3. QED BY <1>1, <1>3, <2>1, <2>2, FedKept
<1>4. CASE \E rest \in Rests(queue) : EngineRefuses(rest)
  BY <1>1, <1>4, RestsRefused
<1>5. QED BY <1>3, <1>4 DEF Drain

LEMMA FetchEndsSync ==
  ASSUME LeaseInv, SyncInv, FetchEnds
  PROVE  SyncInv'
<1>1. accepting /\ accepting' = accepting /\ gen' = gen
  BY DEF FetchEnds, Running, Unleased, lifecycle
<1>2. CASE Invalidated /\ UNCHANGED reading /\ Loop
  BY <1>1, <1>2, RequestedLoop DEF Invalidated
<1>3. CASE SyncFails(<<>>)
  BY <1>1, <1>3, EmptyOrdered, RefusalSync
<1>4. CASE Defer
  BY <1>1, <1>4, DeferSync
<1>5. CASE \E rest \in Rests(queue) \cup {<<>>} : EngineRefuses(rest)
  BY <1>1, <1>5, RestsRefused
<1>6. CASE /\ ~Invalidated
           /\ fed' = Newest(queue) /\ queue' = <<>>
           /\ UNCHANGED <<offered, broken, breaks, denials>>
           /\ \/ PublishLive
              \/ /\ UNCHANGED <<state, version, requested, limited, hub, failures>>
                 /\ Await("bridging")
  <2>1. ~requested
    BY <1>6 DEF Invalidated
  <2>2. FedFrom
    BY <1>1, <1>6, <2>1, DrainedIsFed DEF SyncInv, StateInv
  <2>3. CASE PublishLive
    BY <1>1, <1>6, <2>1, <2>2, <2>3, PublishLiveSync
  <2>4. CASE /\ UNCHANGED <<state, version, requested, limited, hub, failures>>
             /\ Await("bridging")
    <3>1. pc' = "bridging" /\ wake' \in BOOLEAN
      BY <2>4, AwaitGoesOn DEF SyncInv, SyncTyped
    <3>2. QED BY <1>1, <1>6, <2>1, <2>2, <2>4, <3>1, FedKept
  <2>5. QED BY <1>6, <2>3, <2>4
<1>7. QED BY <1>2, <1>3, <1>4, <1>5, <1>6 DEF FetchEnds

LEMMA ApplyDeltaSync ==
  ASSUME LeaseInv, SyncInv, ApplyDelta
  PROVE  SyncInv'
<1>1. /\ accepting /\ accepting' = accepting /\ gen' = gen /\ ~requested
      /\ queue # <<>> /\ pc \in {"bridging", "following"}
  BY DEF ApplyDelta, Running, Invalidated, Unleased, lifecycle
<1>2. state # "stale"
  BY <1>1 DEF SyncInv, StateInv
<1>3. CASE EngineRefuses(Tail(queue))
  <2>1. /\ Ordered(queue, version, offered) /\ version \in Nat /\ offered \in Nat
        /\ limited = "none" => Contiguous(queue, version, offered)
    BY SameCounts DEF SyncInv, QueueInv
  <2>2. /\ Ordered(Tail(queue), version, offered)
        /\ limited = "none" => Contiguous(Tail(queue), version, offered)
    BY <1>1, <2>1, TailOrdered
  <2>3. QED BY <1>1, <1>3, <2>2, RefusalSync
<1>4. CASE /\ fed' = Head(queue).number /\ queue' = Tail(queue)
           /\ UNCHANGED <<offered, broken, breaks, denials>>
           /\ \/ PublishLive
              \/ /\ UNCHANGED <<state, version, requested, limited, hub, failures>>
                 /\ Await(pc)
  <2>1. FedFrom
    BY <1>1, <1>2, <1>4, HeadIsNext
  <2>2. CASE PublishLive
    BY <1>1, <1>4, <2>1, <2>2, PublishLiveSync
  <2>3. CASE /\ UNCHANGED <<state, version, requested, limited, hub, failures>>
             /\ Await(pc)
    <3>1. pc' = pc /\ wake' \in BOOLEAN
      BY <2>3, AwaitGoesOn DEF SyncInv, SyncTyped
    <3>2. QED BY <1>1, <1>4, <2>1, <2>3, <3>1, FedKept
  <2>4. QED BY <1>4, <2>2, <2>3
<1>5. QED BY <1>3, <1>4 DEF ApplyDelta

LEMMA ActorSync ==
  ASSUME LeaseInv, SyncInv, Actor
  PROVE  SyncInv'
<1>1. ASSUME AdmissionDenied PROVE SyncInv'
  BY <1>1, DeferSync DEF AdmissionDenied, Running, Unleased, lifecycle
<1>2. ASSUME BridgeTimeout PROVE SyncInv'
  <2>1. accepting /\ accepting' = accepting /\ gen' = gen /\ SyncFails(queue)
    BY <1>2 DEF BridgeTimeout, Running, Unleased, lifecycle
  <2>2. Ordered(queue, version, offered) /\ (limited = "none" => Contiguous(queue, version, offered))
    BY DEF SyncInv, QueueInv
  <2>3. QED BY <2>1, <2>2, RefusalSync
<1>3. QED
  BY <1>1, <1>2, ContinuesSync, BeginSyncSync, DrainSync, FetchEndsSync, ApplyDeltaSync DEF Actor

-----------------------------------------------------------------------------
(* The lease keeps it.                                                     *)

(* The accepting actor stays the same and its synchronisation is untouched. *)
LEMMA SyncingKept ==
  ASSUME SyncInv, UNCHANGED syncing, gen' = gen, accepting' = accepting
  PROVE  SyncInv'
<1>1. /\ pc' = pc /\ wake' = wake
      /\ state' = state /\ version' = version /\ requested' = requested /\ limited' = limited
      /\ queue' = queue /\ hub' = hub /\ offered' = offered /\ fed' = fed /\ broken' = broken
      /\ breaks' = breaks /\ failures' = failures /\ denials' = denials
  BY DEF syncing
<1>2. SyncTyped' /\ StateInv'
  BY <1>1 DEF SyncInv, SyncTyped, StateInv
<1>3. QueueInv' /\ BookInv' /\ HubInv'
  BY <1>1 DEF SyncInv, QueueInv, BookInv, HubInv
<1>4. QED BY <1>2, <1>3 DEF SyncInv

LEMMA CreateSync ==
  ASSUME LeaseInv, SyncInv, NEW c \in Consumers, CreateActor(c)
  PROVE  SyncInv'
<1>1. /\ accepting' = TRUE /\ pc' = "waiting" /\ wake' = FALSE /\ gen' \in 0..MaxGenerations
      /\ state' = "stale" /\ version' = 1 /\ requested' = TRUE
      /\ limited' = "none" /\ queue' = <<>> /\ fed' = 0 /\ broken' = FALSE
      /\ hub' = [live |-> FALSE, gen |-> gen', version |-> 1]
      /\ offered' = offered /\ breaks' = breaks /\ failures' = failures /\ denials' = denials
  BY BoundsAreNatural DEF CreateActor, LeaseInv
<1>2. hub' \in [live : BOOLEAN, gen : 0..gen', version : Nat] /\ hub'.live = FALSE
  <2>1. gen' \in 0..gen'
    BY <1>1
  <2>2. QED BY <1>1, <2>1
<1>3. SyncTyped'
  <2>1. 0 \in 0..MaxDeltas
    BY BoundsAreNatural
  <2>2. wake' \in BOOLEAN /\ requested' \in BOOLEAN /\ broken' \in BOOLEAN
    BY <1>1
  <2>3. QED BY <1>1, <1>2, <2>1, <2>2 DEF SyncInv, SyncTyped, ActorPC
<1>4. StateInv' /\ BookInv' /\ HubInv'
  BY <1>1, <1>2 DEF StateInv, BookInv, HubInv
<1>5. QueueInv'
  BY <1>1, EmptyOrdered DEF QueueInv
<1>6. QED BY <1>3, <1>4, <1>5 DEF SyncInv

LEMMA QuiesceSync ==
  ASSUME LeaseInv, SyncInv, gen' = gen, Quiesce
  PROVE  SyncInv'
<1>1. /\ accepting' = FALSE /\ pc' = "none" /\ queue' = <<>> /\ wake' = TRUE
      /\ version' = version /\ requested' = requested /\ limited' = limited /\ offered' = offered
      /\ fed' = fed /\ broken' = broken
      /\ breaks' = breaks /\ failures' = failures /\ denials' = denials
  BY DEF Quiesce
<1>2. state' = "stale" /\ hub' \in [live : BOOLEAN, gen : 0..gen, version : Nat] /\ hub'.live = FALSE
  <2>1. CASE accepting
    BY <2>1, StaleTyped, SameCounts DEF Quiesce
  <2>2. CASE ~accepting
    <3>1. state' = state /\ hub' = hub
      BY <2>2 DEF Quiesce
    <3>2. state = "stale"
      BY <2>2 DEF SyncInv, StateInv
    <3>3. QED BY <3>1, <3>2 DEF SyncInv, SyncTyped, HubInv
  <2>3. QED BY <2>1, <2>2
<1>3. SyncTyped'
  BY <1>1, <1>2 DEF SyncInv, SyncTyped, ActorPC
<1>4. StateInv' /\ BookInv' /\ HubInv'
  BY <1>1, <1>2 DEF SyncInv, StateInv, BookInv, HubInv
<1>5. QueueInv'
  BY <1>1, <1>2, EmptyOrdered DEF QueueInv
<1>6. QED BY <1>3, <1>4, <1>5 DEF SyncInv

LEMMA StartSucceedsSync ==
  ASSUME LeaseInv, SyncInv, StartSucceeds
  PROVE  SyncInv'
<1>1. /\ UNCHANGED reading /\ gen' = gen /\ accepting' = accepting /\ pc' = pc /\ wake' = TRUE
  BY DEF StartSucceeds
<1>2. QED BY <1>1, ReadingKept DEF SyncInv, SyncTyped, StateInv

LEMMA LeaseSync ==
  ASSUME LeaseInv, SyncInv, Lease
  PROVE  SyncInv'
<1>1. ASSUME NEW c \in Consumers, EnsureNew(c) PROVE SyncInv'
  BY <1>1, CreateSync DEF EnsureNew
<1>2. ASSUME NEW c \in Consumers, LeaveLast(c) PROVE SyncInv'
  BY <1>2, QuiesceSync DEF LeaveLast
<1>3. ASSUME NEW c \in Consumers, EnsureShared(c) \/ EnsureAfterFailedStop(c) \/ Leave(c) PROVE SyncInv'
  BY <1>3, SyncingKept DEF EnsureShared, EnsureAfterFailedStop, Leave
<1>4. ASSUME StartFails PROVE SyncInv'
  BY <1>4, QuiesceSync DEF StartFails
<1>5. ASSUME Quiesced \/ QuiescedAlready \/ StopEnds \/ StopAwaited \/ StopTimeout \/ LateStop
             \/ RetireFailedStart \/ CallerCancelled
      PROVE  SyncInv'
  BY <1>5, SyncingKept
  DEF Quiesced, QuiescedAlready, StopEnds, StopAwaited, StopTimeout, LateStop,
      RetireFailedStart, CallerCancelled, Forget
<1>6. ASSUME Retire PROVE SyncInv'
  <2>1. CASE Forget
    BY <2>1, SyncingKept DEF Forget
  <2>2. CASE caller.op = "ensure" /\ CreateActor(caller.consumer)
    <3>1. caller.consumer \in Consumers
      BY <2>2 DEF LeaseInv
    <3>2. QED BY <2>2, <3>1, CreateSync
  <2>3. QED BY <1>6, <2>1, <2>2 DEF Retire
<1>7. QED BY <1>1, <1>2, <1>3, <1>4, <1>5, <1>6, StartSucceedsSync DEF Lease

LEMMA SyncKept == LeaseInv /\ SyncInv /\ [Next]_vars => SyncInv'
<1> SUFFICES ASSUME LeaseInv, SyncInv, [Next]_vars PROVE SyncInv'
  OBVIOUS
<1>1. CASE UNCHANGED vars
  BY <1>1, SyncingKept DEF vars, lifecycle
<1>2. CASE Next
  BY <1>2, ActorSync, OfferDeltaSync, BreakSync, RetryTimePassesSync, LeaseSync DEF Next, Feed
<1>3. QED BY <1>1, <1>2

-----------------------------------------------------------------------------
(* What the invariant says of the service, for every value of the          *)
(* constants.                                                              *)

(* ServiceInv is inductive: whoever holds _lifecycle_lock, the actor, the  *)
(* callbacks of the feed and a late stop leave it true in any order.       *)
THEOREM ServiceIsConsistent == Spec => []ServiceInv
<1>1. Init => ServiceInv
  BY InitLease, InitSync DEF ServiceInv
<1>2. ServiceInv /\ [Next]_vars => ServiceInv'
  BY LeaseKept, SyncKept DEF ServiceInv
<1>3. QED BY <1>1, <1>2, PTL DEF Spec

LEMMA ServiceIsTyped == ServiceInv => TypeOK
<1>1. SUFFICES ASSUME ServiceInv PROVE TypeOK
  OBVIOUS
<1>2. {physical, accepting, handle, feed, wake, requested, broken} \subseteq BOOLEAN
  BY <1>1 DEF ServiceInv, LeaseInv, SyncInv, SyncTyped
<1>3. queue \in Seq([number : 1..MaxDeltas, version : 1..version]) /\ Len(queue) <= QueueSize
  <2>1. /\ offered \in Nat /\ offered <= MaxDeltas /\ MaxDeltas \in Nat /\ version \in Nat
        /\ Ordered(queue, version, offered)
    BY <1>1, BoundsAreNatural DEF ServiceInv, SyncInv, SyncTyped, QueueInv
  <2>2. Ordered(queue, version, MaxDeltas)
    BY <2>1, LaterOrdered
  <2>3. QED BY <2>2 DEF Ordered
<1>4. {offered, fed} \subseteq 0..MaxDeltas
  BY <1>1 DEF ServiceInv, SyncInv, SyncTyped
<1>5. QED BY <1>1, <1>2, <1>3, <1>4 DEF ServiceInv, LeaseInv, SyncInv, SyncTyped, TypeOK

(* Every variable keeps its type, the queue its limit.                     *)
THEOREM ServiceTypes == Spec => []TypeOK
BY ServiceIsConsistent, ServiceIsTyped, PTL

(* A live or synchronising book was fed every delta since begin_sync, in   *)
(* order, and no break was reported since: through overflows, deferrals,   *)
(* refusals and whatever consumers do meanwhile.                           *)
THEOREM BookMissesNothing == Spec => []BookIsUnbroken
<1>1. ServiceInv => BookIsUnbroken
  <2>1. SUFFICES ASSUME ServiceInv, state # "stale" PROVE
          /\ ~broken /\ ~requested
          /\ \A i \in DOMAIN queue : queue[i].number = offered - Len(queue) + i
          /\ fed # 0 => fed = offered - Len(queue)
    BY DEF BookIsUnbroken
  <2>2. ~requested /\ ~broken /\ (fed # 0 => fed = offered - Len(queue))
    BY <2>1 DEF ServiceInv, SyncInv, StateInv, BookInv
  <2>3. Contiguous(queue, version, offered) /\ AllCurrent(queue, version)
    BY <2>1 DEF ServiceInv, SyncInv, StateInv, QueueInv
  <2>4. DOMAIN queue = 1..Len(queue)
    BY <2>1, LenProperties DEF ServiceInv, SyncInv, QueueInv, Ordered
  <2>5. QED BY <2>2, <2>3, <2>4 DEF Contiguous, AllCurrent
<1>2. QED BY <1>1, ServiceIsConsistent, PTL

(* The hub's record is live exactly while the actor's book is, of its      *)
(* generation and version.                                                 *)
THEOREM HubNeverLies == Spec => []HubIsHonest
<1>1. ServiceInv => HubIsHonest
  BY DEF ServiceInv, LeaseInv, SyncInv, StateInv, HubInv, HubIsHonest
<1>2. QED BY <1>1, ServiceIsConsistent, PTL

(* A physical feed that may still run is never forgotten, whatever becomes *)
(* of its stop.                                                            *)
THEOREM FeedIsNeverForgotten == Spec => []FeedIsOwned
<1>1. ServiceInv => FeedIsOwned
  BY DEF ServiceInv, LeaseInv, FeedIsOwned
<1>2. QED BY <1>1, ServiceIsConsistent, PTL

(* What is asked for is not lost: only begin_sync answers a request, and   *)
(* it starts from an engine that was fed nothing and a queue that holds    *)
(* envelopes of the requested version only, up to the newest delta.        *)
THEOREM RequestsEndInSync ==
  Spec => [][requested /\ ~requested' =>
               /\ pc = "admission" /\ state' = "resyncing" /\ fed' = 0 /\ ~broken'
               /\ AllCurrent(queue', version) /\ Contiguous(queue', version, offered)]_vars
<1>1. ASSUME ServiceInv, Next, requested, ~requested' PROVE BeginSync
  <2>1. CASE Actor
    <3>1. ASSUME Begins \/ Interrupted \/ PauseEnds PROVE requested' = requested
      BY <3>1 DEF Begins, Interrupted, PauseEnds, reading
    <3>2. ASSUME AdmissionDenied \/ BridgeTimeout PROVE requested' = TRUE
      BY <3>2 DEF AdmissionDenied, BridgeTimeout, Defer, RequestResync, SyncFails
    <3>3. ASSUME Drain \/ FetchEnds \/ ApplyDelta PROVE requested'
      BY <3>3, <1>1 DEF Drain, FetchEnds, ApplyDelta, Invalidated, Defer, RequestResync,
         EngineRefuses, SyncFails, PublishLive, reading
    <3>4. QED BY <1>1, <2>1, <3>1, <3>2, <3>3 DEF Actor
  <2>2. CASE Feed \/ RetryTimePasses
    BY <1>1, <2>2 DEF Feed, OfferDelta, Break, RetryTimePasses, ForceResync
  <2>3. CASE Lease
    BY <1>1, <2>3 DEF Lease, EnsureNew, EnsureShared, EnsureAfterFailedStop, Leave, LeaveLast,
       StartSucceeds, StartFails, Quiesced, QuiescedAlready, StopEnds, StopAwaited, StopTimeout, LateStop,
       Retire, RetireFailedStart, CallerCancelled, CreateActor, Forget, Quiesce, syncing, reading
  <2>4. QED BY <1>1, <2>1, <2>2, <2>3 DEF Next
<1>2. ASSUME ServiceInv, BeginSync
      PROVE  /\ pc = "admission" /\ state' = "resyncing" /\ fed' = 0 /\ ~broken'
             /\ AllCurrent(queue', version) /\ Contiguous(queue', version, offered)
  <2>1. SyncInv'
    BY <1>2, BeginSyncSync DEF ServiceInv
  <2>2. /\ pc = "admission" /\ state' = "resyncing" /\ fed' = 0 /\ ~broken'
        /\ limited' = "none" /\ version' = version /\ offered' = offered
    BY <1>2 DEF BeginSync
  <2>3. AllCurrent(queue', version) /\ Contiguous(queue', version, offered)
    BY <2>1, <2>2 DEF SyncInv, QueueInv
  <2>4. QED BY <2>2, <2>3
<1>3. ASSUME ServiceInv, [Next]_vars
      PROVE  [requested /\ ~requested' =>
               /\ pc = "admission" /\ state' = "resyncing" /\ fed' = 0 /\ ~broken'
               /\ AllCurrent(queue', version) /\ Contiguous(queue', version, offered)]_vars
  BY <1>1, <1>2, <1>3
<1>4. QED BY <1>3, ServiceIsConsistent, PTL DEF Spec
=============================================================================
