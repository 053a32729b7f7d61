-------------------------- MODULE GapRecovery_proofs --------------------------
(***************************************************************************)
(* Nothing is lost silently between the feed and delivery, a marker that   *)
(* says filled is true, and delivery never goes back: for any lane, any    *)
(* number of keys, and caches, buffers and retry budgets of any size.      *)
(*                                                                         *)
(* NoSilentHole alone is not inductive: what is emitted next must have     *)
(* everything before it delivered, declared missing or emitted earlier,    *)
(* and that is known only because it was known of the cursor when the      *)
(* event was held back or the gap was opened.                              *)
(***************************************************************************)
EXTENDS GapRecovery, TLAPS, FiniteNaturals, SequenceTheorems

-----------------------------------------------------------------------------
(* Why the safety properties hold: the inductive invariants.               *)

Distinct(q) == \A i, j \in DOMAIN q : q[i] = q[j] => i = j

\* Who waits for the lock, who holds it, and what that says of the gap.
LockInv ==
  /\ Distinct(queue)
  /\ "feed" \in Range(queue) <=> feed.pc \in {"waiting", "abandoning"}
  /\ "repair" \in Range(queue) <=> repair.pc = "waiting"
  /\ holder = "feed" <=> feed.pc = "holding"
  /\ out # <<>> => holder # "none"

GapInv ==
  /\ gap # NoGap => Enabled /\ gap.start < gap.end /\ gap.end <= cursor
  /\ gap = NoGap => buffer = <<>> /\ repair.pc = "none"
  /\ feed.pc \in {"waiting", "holding"} => gap = NoGap
  /\ feed.pc \in {"gathering", "abandoning"} => ~Alive
  /\ ~Enabled => holder # "repair" /\ feed.pc # "waiting" /\ out = <<>>

StopInv ==
  /\ feed.stopping => ~Alive /\ feed.pc \in {"gathering", "abandoning", "holding", "stopped"}
  /\ feed.pc = "stopped" => feed.stopping
  /\ StoppedIsFinal

ControlInv == TypeOK /\ LockInv /\ GapInv /\ StopInv

\* A cursor that is not set means that nothing was ever passed on.
FreshInv ==
  /\ cursor = NoKey => /\ sent.first = NoKey /\ high = NoKey /\ repaired = <<>>
                       /\ gap = NoGap /\ LockFree
  /\ feed.pc = "inGap" => cursor # NoKey

\* The high-water mark is the newest delivered key.
HighInv ==
  Enabled => /\ high # NoKey => high \in Delivered
             /\ \A d \in Delivered : d <= high

\* Keys that nobody needs to ask for any more: delivered, declared missing, or
\* before the first one.
Accounted(s) == s.open \cup s.closed \cup s.missing \cup {k \in Keys : k < s.first}

\* The keys that an item accounts for.
ItemKeys(item) ==
  IF item.kind = "event" THEN {item.event.key}
  ELSE IF item.filled THEN {} ELSE Between(item.gap)

KeysOf(items) == UNION {ItemKeys(items[i]) : i \in DOMAIN items}

\* By the time the event of item i is emitted, every key before it is accounted for.
InOrder(s, items) ==
  \A i \in DOMAIN items, k \in Keys :
    items[i].kind = "event" /\ k < items[i].event.key =>
      k \in Accounted(s) \/ \E j \in 1..(i - 1) : k \in ItemKeys(items[j])

Pending == Accounted(sent) \cup KeysOf(out)
Held == Pending \cup Between(gap) \cup {buffer[i].key : i \in DOMAIN buffer}

\* Nobody stops the pipeline.
Going == feed.pc \notin {"halted", "stopped"} /\ ~feed.stopping

\* Nothing that the feed brought is lost on its way: what lies before the
\* cursor is emitted, about to be emitted or held back, and everything that is
\* going to be emitted has what comes before it on the way too.
HoleInv ==
  /\ NoSilentHole
  /\ InOrder(sent, out)
  /\ Range(repaired) \subseteq Accounted(sent)
  /\ \A k \in Keys :
       /\ feed.pc = "waiting" /\ k < feed.event.key => k \in Pending
       /\ feed.pc = "inGap" /\ cursor < k /\ k < feed.event.key => k \in sent.missing
       /\ gap # NoGap /\ k <= gap.start => k \in Pending
       /\ \A i \in DOMAIN buffer : k < buffer[i].key => k \in Held
       /\ Going /\ k <= cursor =>
            k \in Held \/ (feed.pc = "waiting" /\ k = feed.event.key)

\* Live events and rows go out by their keys.
ByKey(items) ==
  \A i, j \in DOMAIN items :
    items[i].kind = "event" /\ items[j].kind = "event" /\ i < j =>
      items[i].event.key <= items[j].event.key

\* By the time a marker that says filled is emitted, every key inside it has been
\* delivered: none of its rows is behind the high-water mark h.
Fills(s, h, items) ==
  \A j \in DOMAIN items, k \in Keys :
    items[j].kind = "gap" /\ items[j].filled /\ k \in Between(items[j].gap) =>
      /\ \A i \in DOMAIN items :
           items[i].kind = "event" /\ items[i].event.key = k => h <= k
      /\ \/ k \in s.open \cup s.closed
         \/ \E i \in 1..(j - 1) : items[i].kind = "event" /\ items[i].event.key = k

\* No event among the items lies after k.
EventsUpTo(items, k) ==
  \A i \in DOMAIN items : items[i].kind = "event" => items[i].event.key <= k

\* What is emitted while a gap is open lies before it.
FillInv ==
  /\ FilledIsDelivered
  /\ ByKey(out) /\ Fills(sent, high, out)
  /\ Enabled =>
       /\ high <= cursor /\ EventsUpTo(out, cursor)
       /\ feed.pc = "waiting" => feed.event.key <= cursor
       /\ \A i \in DOMAIN buffer : buffer[i].key <= cursor
  /\ gap # NoGap => high <= gap.start /\ EventsUpTo(out, gap.start)

-----------------------------------------------------------------------------
(* Sequences                                                               *)

\* A task that leaves the waiters leaves the others in place.
LEMMA WithoutFacts ==
  ASSUME NEW S, queue \in Seq(S), NEW t, Distinct(queue)
  PROVE  /\ Without(t) \in Seq(S) /\ Distinct(Without(t))
         /\ Range(Without(t)) = Range(queue) \ {t}
<1>1. DOMAIN queue = 1..Len(queue) /\ Len(queue) \in Nat
  BY LenProperties
<1>2. CASE \A i \in 1..Len(queue) : queue[i] # t
  BY <1>1, <1>2 DEF Without, RemoveFirst, Range
<1>3. ASSUME NEW p \in 1..Len(queue), queue[p] = t
      PROVE  /\ Without(t) \in Seq(S) /\ Distinct(Without(t))
             /\ Range(Without(t)) = Range(queue) \ {t}
  <2> DEFINE a == SubSeq(queue, 1, p - 1)
             b == SubSeq(queue, p + 1, Len(queue))
  <2>1. {i \in 1..Len(queue) : queue[i] = t} = {p}
    BY <1>1, <1>3 DEF Distinct
  <2>2. Min({p}) = p
    BY <1>1 DEF Min
  <2>3. Without(t) = a \o b
    BY <1>3, <2>1, <2>2 DEF Without, RemoveFirst, RemoveAt, SelectInSeq
  <2>4. \A i \in 1..Len(queue) : queue[i] \in S
    BY ElementOfSeq
  <2>5. /\ a \in Seq(S) /\ Len(a) = p - 1
        /\ \A i \in 1..(p - 1) : a[i] = queue[i]
    <3>1. /\ 1 \in Int /\ p - 1 \in Int
          /\ \A i \in 1..(p - 1) : queue[i] \in S
      BY <2>4, <1>1
    <3>2. /\ a \in Seq(S)
          /\ Len(a) = IF 1 <= p - 1 THEN (p - 1) - 1 + 1 ELSE 0
          /\ \A i \in 1..((p - 1) - 1 + 1) : a[i] = queue[1 + i - 1]
      BY <3>1, SubSeqProperties
    <3> HIDE DEF a
    <3> QED BY <3>2, <1>1
  <2>6. /\ b \in Seq(S) /\ Len(b) = Len(queue) - p
        /\ \A i \in 1..(Len(queue) - p) : b[i] = queue[p + i]
    <3>1. /\ p + 1 \in Int /\ Len(queue) \in Int
          /\ \A i \in (p + 1)..Len(queue) : queue[i] \in S
      BY <2>4, <1>1
    <3>2. /\ b \in Seq(S)
          /\ Len(b) = IF p + 1 <= Len(queue) THEN Len(queue) - (p + 1) + 1 ELSE 0
          /\ \A i \in 1..(Len(queue) - (p + 1) + 1) : b[i] = queue[(p + 1) + i - 1]
      BY <3>1, SubSeqProperties
    <3> HIDE DEF b
    <3>3. ASSUME NEW i \in 1..(Len(queue) - p) PROVE b[i] = queue[p + i]
      <4>1. (p + 1) + i - 1 = p + i /\ i \in 1..(Len(queue) - (p + 1) + 1)
        BY <1>1
      <4>2. b[i] = queue[(p + 1) + i - 1]
        BY <4>1, <3>2, Zenon
      <4> QED BY <4>1, <4>2
    <3>4. Len(b) = Len(queue) - p
      <4>1. Len(b) = IF p + 1 <= Len(queue) THEN Len(queue) - (p + 1) + 1 ELSE 0
        BY <3>2
      <4>2. p \in Nat /\ Len(queue) \in Nat /\ p <= Len(queue)
        BY <1>1
      <4>3. CASE p + 1 <= Len(queue)
        BY <4>1, <4>2, <4>3
      <4>4. CASE ~(p + 1 <= Len(queue))
        BY <4>1, <4>2, <4>4
      <4> QED BY <4>3, <4>4
    <3> QED BY <3>2, <3>3, <3>4, Zenon
  <2> HIDE DEF a, b
  <2>7. /\ a \o b \in Seq(S) /\ Len(a \o b) = Len(queue) - 1
        /\ \A i \in 1..(Len(queue) - 1) :
             (a \o b)[i] = IF i < p THEN queue[i] ELSE queue[i + 1]
    <3>1. /\ a \o b \in Seq(S) /\ Len(a \o b) = Len(a) + Len(b)
          /\ \A i \in 1..(Len(a) + Len(b)) :
               (a \o b)[i] = IF i <= Len(a) THEN a[i] ELSE b[i - Len(a)]
      BY <2>5, <2>6, ConcatProperties
    <3> QED BY <3>1, <2>5, <2>6, <1>1
  <2> DEFINE w == a \o b
  <2>8. w \in Seq(S) /\ DOMAIN w = 1..(Len(queue) - 1)
    BY <2>7, LenProperties
  <2>9. \A i \in 1..(Len(queue) - 1) : w[i] = IF i < p THEN queue[i] ELSE queue[i + 1]
    BY <2>7
  <2>10. Without(t) = w
    BY <2>3
  <2> HIDE DEF w
  <2>11. Distinct(w)
    <3> DEFINE at(i) == IF i < p THEN i ELSE i + 1
    <3>1. \A i \in 1..(Len(queue) - 1) : at(i) \in DOMAIN queue /\ w[i] = queue[at(i)]
      BY <1>1, <2>9
    <3>2. \A i, j \in 1..(Len(queue) - 1) : at(i) = at(j) => i = j
      BY <1>1
    <3> HIDE DEF at
    <3> QED BY <2>8, <3>1, <3>2 DEF Distinct
  <2>12. Range(w) = Range(queue) \ {t}
    <3>1. ASSUME NEW i \in DOMAIN w PROVE w[i] \in Range(queue) \ {t}
      <4> DEFINE at == IF i < p THEN i ELSE i + 1
      <4>1. at \in DOMAIN queue /\ w[i] = queue[at] /\ at # p /\ p \in DOMAIN queue
        BY <1>1, <1>3, <2>8, <2>9
      <4> HIDE DEF at
      <4> QED BY <1>3, <4>1 DEF Range, Distinct
    <3>2. ASSUME NEW i \in 1..Len(queue), queue[i] # t PROVE queue[i] \in Range(w)
      <4>1. CASE i < p
        <5>1. i \in DOMAIN w /\ w[i] = queue[i]
          BY <1>1, <4>1, <2>8, <2>9
        <5> QED BY <5>1 DEF Range
      <4>2. CASE i > p
        <5>1. i - 1 \in DOMAIN w /\ w[i - 1] = queue[i]
          BY <1>1, <4>2, <2>8, <2>9
        <5> QED BY <5>1 DEF Range
      <4> QED BY <1>1, <1>3, <3>2, <4>1, <4>2
    <3> QED BY <1>1, <3>1, <3>2 DEF Range
  <2> QED BY <2>8, <2>10, <2>11, <2>12
<1> QED BY <1>2, <1>3

\* A task that gets the lock was the first to wait, one that asks is the last.
LEMMA QueueFacts ==
  ASSUME NEW S, NEW q \in Seq(S), Distinct(q)
  PROVE  /\ q # <<>> => /\ Tail(q) \in Seq(S) /\ Distinct(Tail(q)) /\ Head(q) \in Range(q)
                        /\ Range(Tail(q)) = Range(q) \ {Head(q)}
         /\ \A t \in S \ Range(q) : /\ Append(q, t) \in Seq(S) /\ Distinct(Append(q, t))
                                   /\ Range(Append(q, t)) = Range(q) \cup {t}
         /\ q = <<>> <=> Range(q) = {}
<1>1. Len(q) \in Nat /\ DOMAIN q = 1..Len(q) /\ (q # <<>> => Len(q) # 0)
  BY LenProperties, EmptySeq
<1>2. ASSUME q # <<>>
      PROVE  /\ Tail(q) \in Seq(S) /\ Distinct(Tail(q)) /\ Head(q) \in Range(q)
             /\ Range(Tail(q)) = Range(q) \ {Head(q)}
  <2> DEFINE r == Tail(q)
  <2>1. /\ r \in Seq(S) /\ Len(r) = Len(q) - 1
        /\ \A i \in 1..(Len(q) - 1) : r[i] = q[i + 1]
    BY <1>1, <1>2, HeadTailProperties
  <2>2. DOMAIN r = 1..(Len(q) - 1)
    BY <2>1, LenProperties
  <2>3. Head(q) = q[1] /\ 1 \in DOMAIN q
    BY <1>1, <1>2
  <2> HIDE DEF r
  <2>4. Distinct(r)
    <3> SUFFICES ASSUME NEW i \in 1..(Len(q) - 1), NEW j \in 1..(Len(q) - 1), r[i] = r[j]
                 PROVE  i = j
      BY <2>2 DEF Distinct
    <3>1. i + 1 \in DOMAIN q /\ j + 1 \in DOMAIN q /\ q[i + 1] = q[j + 1]
      BY <1>1, <2>1
    <3>2. i + 1 = j + 1
      BY <3>1 DEF Distinct
    <3> QED BY <3>2
  <2>5. Range(r) = Range(q) \ {Head(q)}
    <3>1. ASSUME NEW i \in 1..(Len(q) - 1) PROVE r[i] \in Range(q) /\ r[i] # q[1]
      <4>1. i + 1 \in DOMAIN q /\ r[i] = q[i + 1] /\ i + 1 # 1
        BY <1>1, <2>1
      <4> QED BY <2>3, <4>1 DEF Range, Distinct
    <3>2. ASSUME NEW i \in DOMAIN q, i # 1 PROVE q[i] \in Range(r)
      <4>1. i - 1 \in 1..(Len(q) - 1) /\ (i - 1) + 1 = i
        BY <1>1, <3>2
      <4>2. r[i - 1] = q[(i - 1) + 1]
        BY <2>1, <4>1, Zenon
      <4> QED BY <2>2, <4>1, <4>2 DEF Range
    <3> QED BY <2>2, <2>3, <3>1, <3>2 DEF Range
  <2> QED BY <2>1, <2>3, <2>4, <2>5 DEF r, Range
<1>3. ASSUME NEW t \in S \ Range(q)
      PROVE  /\ Append(q, t) \in Seq(S) /\ Distinct(Append(q, t))
             /\ Range(Append(q, t)) = Range(q) \cup {t}
  <2> DEFINE r == Append(q, t)
  <2>1. /\ r \in Seq(S) /\ Len(r) = Len(q) + 1
        /\ \A i \in 1..Len(q) : r[i] = q[i]
        /\ r[Len(q) + 1] = t
    BY AppendProperties
  <2>2. DOMAIN r = 1..(Len(q) + 1)
    BY <2>1, LenProperties
  <2> HIDE DEF r
  <2>3. \A i \in DOMAIN r : (i \in DOMAIN q /\ r[i] = q[i]) \/ (i = Len(q) + 1 /\ r[i] = t)
    BY <1>1, <2>1, <2>2
  <2>4. Distinct(r)
    BY <2>3 DEF Distinct, Range
  <2>5. \A i \in DOMAIN q : i \in DOMAIN r /\ r[i] = q[i]
    BY <1>1, <2>1, <2>2
  <2>6. Range(r) = Range(q) \cup {t}
    <3>1. Len(q) + 1 \in DOMAIN r
      BY <1>1, <2>2
    <3> QED BY <2>1, <2>3, <2>5, <3>1 DEF Range
  <2> QED BY <2>1, <2>4, <2>6 DEF r
<1>4. q = <<>> <=> Range(q) = {}
  <2>1. ASSUME q # <<>> PROVE q[1] \in Range(q)
    BY <1>1, <2>1 DEF Range
  <2> QED BY <2>1 DEF Range
<1> QED BY <1>2, <1>3, <1>4

\* A cache stays within its size and gets the key at most.
LEMMA RememberFacts ==
  ASSUME NEW c \in Seq(Keys), Len(c) <= SeenSize, NEW k \in Keys
  PROVE  /\ Remember(c, k) \in Seq(Keys) /\ Len(Remember(c, k)) <= SeenSize
         /\ Range(Remember(c, k)) \subseteq Range(c) \cup {k}
<1>1. SeenSize \in Nat \ {0} /\ Len(c) \in Nat /\ DOMAIN c = 1..Len(c)
  BY GapRecoveryAssumption, LenProperties
<1> DEFINE d == Append(c, k)
<1>2. /\ d \in Seq(Keys) /\ d # <<>> /\ Len(d) = Len(c) + 1
      /\ \A i \in 1..Len(c) : d[i] = c[i]
      /\ d[Len(c) + 1] = k
  BY AppendProperties, <1>1
<1>3. DOMAIN d = 1..(Len(c) + 1)
  BY <1>2, LenProperties
<1> HIDE DEF d
<1>4. Range(d) \subseteq Range(c) \cup {k}
  <2>1. ASSUME NEW i \in 1..(Len(c) + 1) PROVE d[i] \in Range(c) \cup {k}
    BY <1>1, <1>2 DEF Range
  <2> QED BY <2>1, <1>3 DEF Range
<1>5. /\ Tail(d) \in Seq(Keys) /\ Len(Tail(d)) = Len(c)
      /\ \A i \in 1..Len(c) : Tail(d)[i] = d[i + 1]
  BY <1>1, <1>2, HeadTailProperties
<1>6. Range(Tail(d)) \subseteq Range(d)
  <2>1. DOMAIN Tail(d) = 1..Len(c)
    BY <1>5, LenProperties
  <2>2. ASSUME NEW i \in 1..Len(c) PROVE Tail(d)[i] \in Range(d)
    BY <1>1, <1>3, <1>5 DEF Range
  <2> QED BY <2>1, <2>2 DEF Range
<1>7. Remember(c, k) = IF k \in Range(c) THEN c ELSE IF Len(d) > SeenSize THEN Tail(d) ELSE d
  BY DEF Remember, d
<1> QED BY <1>1, <1>2, <1>4, <1>5, <1>6, <1>7

-----------------------------------------------------------------------------
(* Sorting                                                                 *)

\* The places are a permutation, so a sorted sequence has the items it is made
\* of, by their keys.
LEMMA SortedFacts ==
  ASSUME NEW T, NEW items \in Seq(T), \A i \in DOMAIN items : items[i].event.key \in Int
  PROVE  /\ Sorted(items) \in Seq(T) /\ Range(Sorted(items)) = Range(items)
         /\ \A i, j \in DOMAIN Sorted(items) :
              i < j => Sorted(items)[i].event.key <= Sorted(items)[j].event.key
<1> DEFINE N == Len(items)
           Before(i, j) == \/ items[i].event.key < items[j].event.key
                           \/ items[i].event.key = items[j].event.key /\ i < j
           Prec(j) == {i \in DOMAIN items : Before(i, j)}
           place == [j \in 1..N |-> Cardinality(Prec(j)) + 1]
           at(n) == CHOOSE j \in DOMAIN items : Cardinality(Prec(j)) + 1 = n
<1>1. N \in Nat /\ DOMAIN items = 1..N /\ \A i \in 1..N : items[i] \in T
  BY LenProperties, ElementOfSeq
<1>2. \A i, j \in 1..N : i # j <=> Before(i, j) \/ Before(j, i)
  BY <1>1
<1>3. \A i, j \in 1..N : ~(Before(i, j) /\ Before(j, i))
  BY <1>1
<1>4. \A h, i, j \in 1..N : Before(h, i) /\ Before(i, j) => Before(h, j)
  BY <1>1
<1>5. \A i, j \in 1..N : Before(i, j) => items[i].event.key <= items[j].event.key
  BY <1>1
<1>6. IsFiniteSet(1..N) /\ Cardinality(1..N) = N
  BY <1>1, FS_Interval
<1> HIDE DEF N, Before
<1>7. ASSUME NEW j \in 1..N
      PROVE  IsFiniteSet(Prec(j)) /\ Cardinality(Prec(j)) \in Nat /\ Cardinality(Prec(j)) < N
  <2>1. IsFiniteSet(Prec(j)) /\ Cardinality(Prec(j)) \in Nat
    BY <1>1, <1>6, FS_Subset, FS_CardinalityType
  <2>2. Prec(j) \subseteq (1..N) \ {j}
    BY <1>1, <1>2
  <2>3. IsFiniteSet((1..N) \ {j}) /\ Cardinality((1..N) \ {j}) = N - 1
    BY <1>6, FS_RemoveElement
  <2>4. Cardinality(Prec(j)) <= N - 1
    BY <2>2, <2>3, FS_Subset
  <2> QED BY <1>1, <2>1, <2>4
<1>8. ASSUME NEW i \in 1..N, NEW j \in 1..N, Before(i, j) PROVE place[i] < place[j]
  <2>1. Prec(i) \cup {i} \subseteq Prec(j) /\ i \notin Prec(i)
    BY <1>1, <1>2, <1>3, <1>4, <1>8
  <2>2. Cardinality(Prec(i) \cup {i}) = Cardinality(Prec(i)) + 1
    BY <1>7, <2>1, FS_AddElement
  <2>3. Cardinality(Prec(i) \cup {i}) <= Cardinality(Prec(j))
    BY <1>7, <2>1, FS_Subset
  <2> HIDE DEF Prec
  <2> QED BY <1>7, <2>2, <2>3
<1>9. place \in Injection(1..N, 1..N)
  <2>1. place \in [1..N -> 1..N]
    <3> HIDE DEF Prec
    <3>1. \A j \in 1..N : Cardinality(Prec(j)) + 1 \in 1..N
      BY <1>1, <1>7
    <3> QED BY <3>1
  <2>2. \A i \in 1..N : place[i] \in Int
    BY <2>1, <1>1
  <2> HIDE DEF place
  <2>3. \A i, j \in 1..N : place[i] = place[j] => i = j
    BY <1>2, <1>8, <2>2
  <2> QED BY <2>1, <2>3 DEF Injection, IsInjective
<1>10. place \in Surjection(1..N, 1..N)
  BY <1>6, <1>9, FS_Injection
<1>11. /\ \A n \in 1..N : at(n) \in 1..N /\ place[at(n)] = n
       /\ \A i, j \in 1..N : place[i] = place[j] => i = j
       /\ \A i \in 1..N : place[i] \in 1..N
  <2>1. \A n \in 1..N : \E j \in DOMAIN items : Cardinality(Prec(j)) + 1 = n
    <3>1. \A n \in 1..N : \E j \in 1..N : place[j] = n
      <4> HIDE DEF place
      <4> QED BY <1>10 DEF Surjection, Range
    <3> HIDE DEF Prec
    <3> QED BY <1>1, <3>1
  <2>3. \A n \in 1..N : at(n) \in DOMAIN items /\ Cardinality(Prec(at(n))) + 1 = n
    BY <2>1
  <2>4. \A n \in 1..N : at(n) \in 1..N /\ place[at(n)] = n
    <3> HIDE DEF Prec, at
    <3> QED BY <1>1, <2>3
  <2> HIDE DEF place, at
  <2>2. /\ place \in [1..N -> 1..N]
        /\ \A i, j \in 1..N : place[i] = place[j] => i = j
    BY <1>9 DEF Injection, IsInjective
  <2> QED BY <2>2, <2>4
<1> HIDE DEF place
<1>12. Sorted(items) = [n \in DOMAIN items |-> items[at(n)]]
  BY Zenon DEF Sorted, Before
<1> DEFINE s == Sorted(items)
<1> HIDE DEF at
<1>13. s \in [1..N -> T] /\ DOMAIN s = 1..N /\ \A n \in 1..N : s[n] = items[at(n)]
  BY <1>1, <1>11, <1>12
<1> HIDE DEF s
<1>14. s \in Seq(T)
  BY <1>1, <1>13, SeqDef
<1>15. Range(s) = Range(items)
  <2>1. ASSUME NEW n \in 1..N PROVE s[n] \in Range(items)
    <3>1. at(n) \in DOMAIN items
      BY <1>1, <1>11
    <3>2. s[n] = items[at(n)]
      BY <1>13
    <3> QED BY <3>1, <3>2 DEF Range
  <2>2. ASSUME NEW i \in 1..N PROVE items[i] \in Range(s)
    <3>1. place[i] \in 1..N /\ at(place[i]) = i
      BY <1>11
    <3>2. s[place[i]] = items[i]
      BY <1>13, <3>1
    <3> QED BY <1>13, <3>1, <3>2 DEF Range
  <2> QED BY <1>1, <1>13, <2>1, <2>2 DEF Range
<1>16. ASSUME NEW i \in 1..N, NEW j \in 1..N, i < j
       PROVE  s[i].event.key <= s[j].event.key
  <2>1. at(i) \in 1..N /\ at(j) \in 1..N /\ place[at(i)] = i /\ place[at(j)] = j
    BY <1>11
  <2>2. at(i) # at(j) /\ ~(place[at(j)] < place[at(i)])
    BY <2>1, <1>1, <1>16
  <2>3. Before(at(i), at(j))
    BY <2>1, <2>2, <1>2, <1>8
  <2> QED BY <2>1, <2>3, <1>5, <1>13
<1> QED BY <1>13, <1>14, <1>15, <1>16 DEF s

\* Every element of a finite set has a place in its sequence.
LEMMA SetToSeqFacts ==
  ASSUME NEW S, IsFiniteSet(S)
  PROVE  SetToSeq(S) \in Seq(S) /\ Range(SetToSeq(S)) = S
<1> DEFINE n == Cardinality(S)
           f == SetToSeq(S)
<1>1. n \in Nat /\ IsFiniteSet(1..n) /\ Cardinality(1..n) = n
  BY FS_CardinalityType, FS_Interval
<1>2. \E g \in [1..n -> S] : IsInjective(g)
  BY FS_CardinalityType DEF ExistsBijection, Bijection, Injection
<1>3. f \in [1..n -> S] /\ IsInjective(f)
  BY <1>2 DEF SetToSeq
<1> HIDE DEF f
<1>4. f \in Injection(1..n, S)
  BY <1>3 DEF Injection
<1>5. f \in Surjection(1..n, S)
  BY <1>1, <1>4, FS_Injection
<1>6. f \in Seq(S)
  BY <1>1, <1>3, SeqDef
<1> QED BY <1>3, <1>5, <1>6 DEF f, Surjection, Range

\* A merge holds the rows and the held events, by their keys.
LEMMA MergeFacts ==
  ASSUME NEW rows \in SUBSET Keys, NEW b \in Seq(Event)
  PROVE  LET m == SortedMerge(rows, b) IN
         /\ m \in Seq(Item) /\ \A i \in DOMAIN m : m[i].kind = "event"
         /\ ByKey(m)
         /\ {m[i].event.key : i \in DOMAIN m} = rows \cup {b[i].key : i \in DOMAIN b}
<1> DEFINE fetched == SetToSeq(rows)
           r == [i \in DOMAIN fetched |-> EventItem(Closed(fetched[i]), TRUE)]
           h == [i \in DOMAIN b |-> EventItem(b[i], FALSE)]
           E == [kind : {"event"}, event : Event, fromRest : BOOLEAN]
           m == SortedMerge(rows, b)
<1>1. fetched \in Seq(rows) /\ Range(fetched) = rows
  <2>1. IsFiniteSet(rows)
    <3>1. IsFiniteSet(1..MaxKey)
      BY FS_Interval, GapRecoveryAssumption
    <3> QED BY <3>1, FS_Subset DEF Keys
  <2> QED BY <2>1, SetToSeqFacts
<1> HIDE DEF fetched
<1>2. r \in Seq(E) /\ {r[i].event.key : i \in DOMAIN r} = rows
  <2>1. Len(fetched) \in Nat /\ DOMAIN fetched = 1..Len(fetched)
        /\ \A i \in DOMAIN fetched : fetched[i] \in Keys
    BY <1>1, LenProperties, ElementOfSeq
  <2>2. \A k \in Keys : EventItem(Closed(k), TRUE) \in E /\ EventItem(Closed(k), TRUE).event.key = k
    BY DEF EventItem, Closed, Event
  <2>3. r \in [1..Len(fetched) -> E]
    BY <2>1, <2>2
  <2>4. \A i \in DOMAIN fetched : r[i].event.key = fetched[i]
    BY <2>1, <2>2
  <2>5. DOMAIN r = DOMAIN fetched
    OBVIOUS
  <2>6. r \in Seq(E)
    <3> HIDE DEF r, E
    <3> QED BY <2>1, <2>3, SeqDef
  <2> HIDE DEF r, E
  <2>7. {r[i].event.key : i \in DOMAIN r} = {fetched[i] : i \in DOMAIN fetched}
    BY <2>4, <2>5
  <2> QED BY <2>6, <2>7, <1>1 DEF Range
<1>3. h \in Seq(E) /\ {h[i].event.key : i \in DOMAIN h} = {b[i].key : i \in DOMAIN b}
  <2>1. Len(b) \in Nat /\ DOMAIN b = 1..Len(b) /\ \A i \in DOMAIN b : b[i] \in Event
    BY LenProperties, ElementOfSeq
  <2>2. \A e \in Event : EventItem(e, FALSE) \in E /\ EventItem(e, FALSE).event = e
    BY DEF EventItem
  <2>3. h \in [1..Len(b) -> E]
    BY <2>1, <2>2
  <2>4. \A i \in DOMAIN b : h[i].event.key = b[i].key
    BY <2>1, <2>2
  <2>5. DOMAIN h = DOMAIN b
    OBVIOUS
  <2>6. h \in Seq(E)
    <3> HIDE DEF h, E
    <3> QED BY <2>1, <2>3, SeqDef
  <2> HIDE DEF h, E
  <2> QED BY <2>4, <2>5, <2>6
<1>4. m = Sorted(r \o h)
  BY DEF SortedMerge, fetched
<1> HIDE DEF r, h, m
<1>5. r \o h \in Seq(E) /\ Range(r \o h) = Range(r) \cup Range(h)
  BY <1>2, <1>3, ConcatProperties, RangeConcatenation
<1>6. \A x \in E : x \in Item /\ x.kind = "event" /\ x.event.key \in Int
  <2>1. \A e \in Event : e.key \in Int
    BY DEF Event, Keys
  <2>2. \A x \in E : x.kind = "event" /\ x.event \in Event
    OBVIOUS
  <2>3. E \subseteq Item
    BY DEF Item
  <2> HIDE DEF E
  <2> QED BY <2>1, <2>2, <2>3
<1>7. \A i \in DOMAIN (r \o h) : (r \o h)[i].event.key \in Int
  <2>1. \A i \in DOMAIN (r \o h) : (r \o h)[i] \in E
    BY <1>5, LenProperties, ElementOfSeq
  <2> QED BY <2>1, <1>6
<1>8. /\ m \in Seq(E) /\ Range(m) = Range(r \o h)
      /\ \A i, j \in DOMAIN m : i < j => m[i].event.key <= m[j].event.key
  BY <1>4, <1>5, <1>7, SortedFacts
<1>9. \A i \in DOMAIN m : m[i] \in E
  BY <1>8, LenProperties, ElementOfSeq
<1>10. m \in Seq(Item) /\ \A i \in DOMAIN m : m[i].kind = "event"
  <2>1. E \subseteq Item
    BY <1>6
  <2> HIDE DEF E
  <2>2. m \in Seq(Item)
    BY <2>1, <1>8, SeqMonotonic
  <2> QED BY <2>2, <1>6, <1>9
<1>11. ByKey(m)
  BY <1>8 DEF ByKey
<1>12. {m[i].event.key : i \in DOMAIN m} = rows \cup {b[i].key : i \in DOMAIN b}
  <2>1. {m[i].event.key : i \in DOMAIN m} = {x.event.key : x \in Range(m)}
    BY DEF Range
  <2>2. {r[i].event.key : i \in DOMAIN r} = {x.event.key : x \in Range(r)}
    BY DEF Range
  <2>3. {h[i].event.key : i \in DOMAIN h} = {x.event.key : x \in Range(h)}
    BY DEF Range
  <2> QED BY <2>1, <2>2, <2>3, <1>2, <1>3, <1>5, <1>8
<1> QED BY <1>10, <1>11, <1>12 DEF m

-----------------------------------------------------------------------------
(* Emission                                                                *)

SentType == [open : SUBSET Keys, closed : SUBSET Keys, missing : SUBSET Keys,
             filled : SUBSET Keys, first : Keys \cup {NoKey}]

\* A key is a positive number, an event has one, and so has an event item.
LEMMA ItemFacts ==
  /\ NoKey = 0 /\ \A k \in Keys : k \in Nat /\ k > 0
  /\ \A e \in Event : e.key \in Keys /\ e.closed \in BOOLEAN
  /\ \A x \in Item : x.kind = "event" => x.event \in Event /\ x.fromRest \in BOOLEAN
  /\ \A x \in Item : x.kind # "event" => x.kind = "gap" /\ x.gap \in Gap /\ x.filled \in BOOLEAN
  /\ \A g \in Gap : Between(g) \subseteq Keys /\ g.start \in Keys /\ g.end \in Keys
<1>1. MaxKey \in Nat
  BY GapRecoveryAssumption
<1>2. NoKey = 0 /\ \A k \in Keys : k \in Nat /\ k > 0
  BY <1>1 DEF Keys, NoKey
<1>3. \A e \in Event : e.key \in Keys /\ e.closed \in BOOLEAN
  BY DEF Event
<1>4. \A x \in Item : x.kind = "event" => x.event \in Event /\ x.fromRest \in BOOLEAN
  BY DEF Item
<1>5. \A x \in Item : x.kind # "event" => x.kind = "gap" /\ x.gap \in Gap /\ x.filled \in BOOLEAN
  BY DEF Item
<1>6. \A g \in Gap : Between(g) \subseteq Keys /\ g.start \in Keys /\ g.end \in Keys
  BY <1>1 DEF Gap, Keys, Between
<1> QED BY <1>2, <1>3, <1>4, <1>5, <1>6

\* Marks and cursors are numbers.
LEMMA MarkFacts ==
  ASSUME TypeOK
  PROVE  /\ sent.first \in Nat /\ high \in Nat /\ cursor \in Nat
         /\ Delivered \subseteq Keys /\ \A d \in Delivered : d \in Keys /\ d \in Nat
<1>1. /\ sent.first \in Keys \cup {NoKey} /\ high \in Keys \cup {NoKey}
      /\ cursor \in Keys \cup {NoKey} /\ Delivered \subseteq Keys
  BY DEF TypeOK, Delivered
<1> QED BY <1>1, ItemFacts

\* An event is dropped as a replay, or delivered and the newest from then on.
LEMMA EmitEvent ==
  ASSUME TypeOK, NEW item \in Item, item.kind = "event", EmitItem(item)
  PROVE  /\ sent' \in SentType /\ high' \in Keys \cup {NoKey}
         /\ repaired' \in Seq(Keys) /\ Len(repaired') <= SeenSize
         /\ Range(repaired') \subseteq Range(repaired) \cup {item.event.key}
         /\ sent'.missing = sent.missing /\ sent'.filled = sent.filled
         /\ \/ Replay(item.event) /\ sent' = sent /\ high' = high
            \/ /\ ~Replay(item.event)
               /\ Delivered' = Delivered \cup {item.event.key}
               /\ high' = IF Enabled THEN item.event.key ELSE high
               /\ sent'.first = IF sent.first = NoKey THEN item.event.key ELSE sent.first
<1> DEFINE e == item.event
<1>1. e \in Event /\ e.key \in Keys /\ e.closed \in BOOLEAN
  BY ItemFacts
<1>2. repaired' = (IF item.fromRest THEN Remember(repaired, e.key) ELSE repaired)
  BY DEF EmitItem
<1>3. /\ repaired' \in Seq(Keys) /\ Len(repaired') <= SeenSize
      /\ Range(repaired') \subseteq Range(repaired) \cup {e.key}
  BY <1>1, <1>2, RememberFacts DEF TypeOK
<1>4. sent \in SentType
  BY DEF TypeOK, SentType
<1>5. CASE Replay(e)
  <2>1. sent' = sent /\ high' = high
    BY <1>5 DEF EmitItem
  <2> QED BY <1>3, <1>4, <1>5, <2>1 DEF TypeOK
<1>6. CASE ~Replay(e)
  <2>1. sent' = SentEvent(e) /\ high' = IF Enabled THEN e.key ELSE high
    BY <1>6 DEF EmitItem
  <2>2. /\ sent' \in SentType /\ sent'.missing = sent.missing /\ sent'.filled = sent.filled
        /\ sent'.first = IF sent.first = NoKey THEN e.key ELSE sent.first
        /\ sent'.open = IF e.closed THEN sent.open ELSE sent.open \cup {e.key}
        /\ sent'.closed = IF e.closed THEN sent.closed \cup {e.key} ELSE sent.closed
    BY <1>1, <1>4, <2>1 DEF SentEvent, SentType
  <2>3. Delivered' = Delivered \cup {e.key}
    BY <2>2 DEF Delivered
  <2>4. high' \in Keys \cup {NoKey}
    BY <1>1, <2>1 DEF TypeOK
  <2> QED BY <1>3, <1>6, <2>1, <2>2, <2>3, <2>4
<1> QED BY <1>5, <1>6

\* A marker delivers nothing.
LEMMA EmitMarker ==
  ASSUME TypeOK, NEW item \in Item, item.kind # "event", EmitItem(item)
  PROVE  /\ sent' \in SentType /\ high' = high /\ repaired' = repaired
         /\ Delivered' = Delivered /\ sent'.first = sent.first
         /\ sent'.missing = sent.missing \cup (IF item.filled THEN {} ELSE Between(item.gap))
         /\ sent'.filled = sent.filled \cup (IF item.filled THEN Between(item.gap) ELSE {})
<1>1. sent' = SentMarker(item) /\ high' = high /\ repaired' = repaired
  BY DEF EmitItem
<1>2. Between(item.gap) \subseteq Keys /\ item.filled \in BOOLEAN
  BY ItemFacts
<1>3. sent \in SentType
  BY DEF TypeOK, SentType
<1>4. /\ sent' \in SentType /\ sent'.first = sent.first
      /\ sent'.open = sent.open /\ sent'.closed = sent.closed
      /\ sent'.missing = sent.missing \cup (IF item.filled THEN {} ELSE Between(item.gap))
      /\ sent'.filled = sent.filled \cup (IF item.filled THEN Between(item.gap) ELSE {})
  BY <1>1, <1>2, <1>3 DEF SentMarker, SentType
<1>5. Delivered' = Delivered
  BY <1>4 DEF Delivered
<1> QED BY <1>1, <1>4, <1>5

\* What was accounted for stays so, and the item is now.
LEMMA EmitAccounts ==
  ASSUME TypeOK, HighInv, NoSilentHole, NEW item \in Item, EmitItem(item)
  PROVE  /\ Accounted(sent) \cup ItemKeys(item) \subseteq Accounted(sent')
         /\ Delivered \subseteq Delivered'
<1>1. /\ NoKey = 0 /\ \A k \in Keys : k \in Nat /\ k > 0
      /\ sent.first \in Nat /\ high \in Nat /\ Delivered \subseteq Keys
  BY ItemFacts, MarkFacts
<1>2. CASE item.kind = "event"
  <2> DEFINE k == item.event.key
  <2>1. k \in Keys
    BY <1>2, ItemFacts
  <2>2. ItemKeys(item) = {k}
    BY <1>2 DEF ItemKeys
  <2>3. CASE Replay(item.event) /\ sent' = sent
    <3>1. Enabled /\ k <= high
      BY <2>1, <2>3, <1>1 DEF Replay
    <3>2. high \in Delivered
      BY <1>1, <2>1, <3>1 DEF HighInv
    <3>3. k \in Accounted(sent)
      <4>1. CASE k = high
        BY <3>2, <4>1 DEF Accounted, Delivered
      <4>2. CASE k < sent.first
        BY <2>1, <4>2 DEF Accounted
      <4>3. CASE k # high /\ ~(k < sent.first)
        <5>1. k < high /\ sent.first <= k
          <6> HIDE DEF k
          <6> QED BY <1>1, <2>1, <3>1, <4>3
        <5> QED BY <2>1, <3>2, <5>1 DEF NoSilentHole, Accounted, Delivered
      <4> QED BY <4>1, <4>2, <4>3
    <3> QED BY <2>2, <2>3, <3>3 DEF Delivered
  <2>4. CASE /\ Delivered' = Delivered \cup {k} /\ sent'.missing = sent.missing
             /\ sent'.first = IF sent.first = NoKey THEN k ELSE sent.first
    <3>1. {j \in Keys : j < sent.first} \subseteq {j \in Keys : j < sent'.first}
      <4>1. ~(\E j \in Keys : j < NoKey)
        BY <1>1
      <4>2. sent'.first = sent.first \/ sent.first = NoKey
        BY <2>4
      <4> QED BY <4>1, <4>2
    <3> QED BY <2>2, <2>4, <3>1 DEF Accounted, Delivered
  <2> QED BY <1>2, <2>3, <2>4, EmitEvent
<1>3. CASE item.kind # "event"
  <2>1. /\ Delivered' = Delivered /\ sent'.first = sent.first
        /\ sent'.missing = sent.missing \cup (IF item.filled THEN {} ELSE Between(item.gap))
    BY <1>3, EmitMarker
  <2>2. ItemKeys(item) = IF item.filled THEN {} ELSE Between(item.gap)
    BY <1>3 DEF ItemKeys
  <2> QED BY <2>1, <2>2 DEF Accounted, Delivered
<1> QED BY <1>2, <1>3

\* An item whose predecessors are accounted for opens no hole.
LEMMA EmitKeeps ==
  ASSUME TypeOK, HighInv, NoSilentHole, Range(repaired) \subseteq Accounted(sent),
         NEW item \in Item, EmitItem(item), lane' = lane,
         \A k \in Keys : item.kind = "event" /\ k < item.event.key =>
                           k \in Accounted(sent) \/ sent.first = NoKey
  PROVE  /\ HighInv' /\ NoSilentHole' /\ Range(repaired') \subseteq Accounted(sent')
         /\ \A k \in Keys : item.kind = "event" /\ k < item.event.key => k \in Accounted(sent')
<1>1. Accounted(sent) \cup ItemKeys(item) \subseteq Accounted(sent')
  BY EmitAccounts
<1>2. /\ NoKey = 0 /\ \A k \in Keys : k \in Nat /\ k > 0
      /\ sent.first \in Nat /\ high \in Nat
      /\ Delivered \subseteq Keys /\ \A d \in Delivered : d \in Nat
      /\ sent' \in SentType /\ sent'.first \in Nat
  <2>1. sent' \in SentType
    BY EmitEvent, EmitMarker
  <2>2. sent'.first \in Keys \cup {NoKey}
    BY <2>1 DEF SentType
  <2> QED BY <2>1, <2>2, ItemFacts, MarkFacts
<1>3. CASE item.kind # "event"
  <2>1. high' = high /\ repaired' = repaired /\ Delivered' = Delivered /\ sent'.first = sent.first
    BY <1>3, EmitMarker
  <2>2. HighInv'
    BY <2>1 DEF HighInv, Enabled
  <2>3. NoSilentHole'
    <3>1. \A k \in Keys : sent.first <= k /\ (\E d \in Delivered : k < d) => k \in Accounted(sent)
      BY DEF NoSilentHole, Accounted, Delivered
    <3>2. \A k \in Keys : sent.first <= k /\ k \in Accounted(sent') => k \in Delivered' \cup sent'.missing
      BY <1>2, <2>1 DEF Accounted, Delivered
    <3> QED BY <1>1, <2>1, <3>1, <3>2 DEF NoSilentHole
  <2> QED BY <1>1, <1>3, <2>1, <2>2, <2>3
<1>4. CASE item.kind = "event"
  <2> DEFINE j == item.event.key
  <2>1. j \in Keys /\ j \in ItemKeys(item)
    BY <1>4, ItemFacts DEF ItemKeys
  <2>2. Range(repaired') \subseteq Accounted(sent')
    BY <1>1, <1>4, <2>1, EmitEvent
  <2>3. CASE Replay(item.event) /\ sent' = sent /\ high' = high
    <3>1. \A k \in Keys : k < j => k \in Accounted(sent)
      <4> SUFFICES ASSUME NEW k \in Keys, k < j PROVE k \in Accounted(sent)
        OBVIOUS
      <4>1. high \in Delivered /\ k < high
        BY <1>2, <2>1, <2>3 DEF Replay, HighInv
      <4>2. CASE sent.first <= k
        BY <4>1, <4>2 DEF NoSilentHole, Accounted, Delivered
      <4>3. CASE ~(sent.first <= k)
        BY <1>2, <4>3 DEF Accounted
      <4> QED BY <4>2, <4>3
    <3>2. HighInv' /\ NoSilentHole'
      BY <2>3 DEF HighInv, NoSilentHole, Enabled, Delivered
    <3> QED BY <2>2, <2>3, <3>1, <3>2
  <2>4. CASE /\ ~Replay(item.event) /\ Delivered' = Delivered \cup {j}
             /\ high' = (IF Enabled THEN j ELSE high)
             /\ sent'.first = (IF sent.first = NoKey THEN j ELSE sent.first)
    <3>1. HighInv'
      <4> SUFFICES ASSUME Enabled PROVE (high' # NoKey => high' \in Delivered') /\ \A d \in Delivered' : d <= high'
        BY DEF HighInv, Enabled
      <4>1. high' = j /\ high <= j
        BY <1>2, <2>1, <2>4 DEF Replay
      <4>2. \A d \in Delivered : d <= high
        BY DEF HighInv
      <4> QED BY <1>2, <2>1, <2>4, <4>1, <4>2
    <3>2. \A k \in Keys : k < j => k \in Accounted(sent')
      <4>1. sent.first = NoKey => \A k \in Keys : k < j => k \in Accounted(sent')
        BY <2>4 DEF Accounted
      <4> QED BY <1>1, <1>4, <4>1
    <3>3. NoSilentHole'
      <4> SUFFICES ASSUME NEW k \in Keys, sent'.first <= k, NEW d \in Delivered', k < d
                   PROVE  k \in Delivered' \cup sent'.missing
        BY DEF NoSilentHole
      <4>1. k \in Accounted(sent')
        <5>1. CASE d = j
          BY <3>2, <5>1
        <5>2. CASE d \in Delivered
          <6>1. sent.first <= k
            BY <1>2, <2>1, <2>4
          <6>2. k \in Accounted(sent)
            BY <5>2, <6>1 DEF NoSilentHole, Accounted, Delivered
          <6> QED BY <1>1, <6>2
        <5> QED BY <2>4, <5>1, <5>2
      <4>2. ~(k < sent'.first)
        BY <1>2, <2>1, <2>4
      <4> QED BY <4>1, <4>2 DEF Accounted, Delivered
    <3> QED BY <2>2, <3>1, <3>2, <3>3
  <2> QED BY <1>4, <2>3, <2>4, EmitEvent
<1> QED BY <1>3, <1>4

-----------------------------------------------------------------------------
(* Items emitted one after the other                                       *)

\* Indices of the rest of a list of items.
LEMMA TailFacts ==
  ASSUME NEW items \in Seq(Item), items # <<>>
  PROVE  /\ Head(items) = items[1] /\ 1 \in DOMAIN items
         /\ \A i \in DOMAIN items : items[i] \in Item /\ i \in Nat /\ i > 0
         /\ Tail(items) \in Seq(Item)
         /\ \A i \in DOMAIN Tail(items) :
              i \in Nat /\ i > 0 /\ i + 1 \in DOMAIN items /\ Tail(items)[i] = items[i + 1]
         /\ \A i \in DOMAIN items : i # 1 => i - 1 \in DOMAIN Tail(items) /\ Tail(items)[i - 1] = items[i]
<1>1. Len(items) \in Nat \ {0} /\ DOMAIN items = 1..Len(items)
  BY LenProperties, EmptySeq
<1>2. \A i \in 1..Len(items) : items[i] \in Item
  BY ElementOfSeq
<1>3. /\ Tail(items) \in Seq(Item) /\ Len(Tail(items)) = Len(items) - 1
      /\ \A i \in 1..Len(Tail(items)) : Tail(items)[i] = items[i + 1]
  BY HeadTailProperties
<1>4. DOMAIN Tail(items) = 1..(Len(items) - 1)
  BY <1>3, LenProperties
<1>5. Head(items) = items[1]
  BY <1>1
<1>6. \A i \in 1..(Len(items) - 1) : Tail(items)[i] = items[i + 1]
  BY <1>3
<1>7. ASSUME NEW i \in 1..Len(items), i # 1
      PROVE  i - 1 \in DOMAIN Tail(items) /\ Tail(items)[i - 1] = items[i]
  <2>1. i - 1 \in 1..(Len(items) - 1) /\ (i - 1) + 1 = i
    BY <1>1, <1>7
  <2>2. Tail(items)[i - 1] = items[(i - 1) + 1]
    BY <1>6, <2>1, Zenon
  <2> QED BY <1>4, <2>1, <2>2
<1>8. ASSUME NEW i \in 1..(Len(items) - 1)
      PROVE  i \in Nat /\ i > 0 /\ i + 1 \in DOMAIN items /\ Tail(items)[i] = items[i + 1]
  BY <1>1, <1>6
<1>9. 1 \in DOMAIN items /\ \A i \in DOMAIN items : i \in Nat /\ i > 0
  BY <1>1
<1> QED BY <1>1, <1>2, <1>3, <1>4, <1>5, <1>7, <1>8, <1>9, Zenon

\* The head of a list that is in order is emitted, the rest is still in order.
LEMMA EmitHead ==
  ASSUME TypeOK, HighInv, NoSilentHole, Range(repaired) \subseteq Accounted(sent),
         NEW items \in Seq(Item), items # <<>>, InOrder(sent, items),
         EmitItem(Head(items)), lane' = lane
  PROVE  /\ HighInv' /\ NoSilentHole' /\ Range(repaired') \subseteq Accounted(sent')
         /\ InOrder(sent', Tail(items))
         /\ Accounted(sent) \cup KeysOf(items) \subseteq Accounted(sent') \cup KeysOf(Tail(items))
<1> DEFINE item == items[1]
           rest == Tail(items)
<1>1. item \in Item /\ EmitItem(item) /\ 1 \in DOMAIN items
  BY TailFacts
<1>2. \A i \in DOMAIN rest : i \in Nat /\ i > 0 /\ i + 1 \in DOMAIN items /\ rest[i] = items[i + 1]
  BY TailFacts, Zenon
<1>3. \A i \in DOMAIN items : i # 1 => i - 1 \in DOMAIN rest /\ rest[i - 1] = items[i]
  BY TailFacts, Zenon
<1> HIDE DEF item, rest
<1>4. \A k \in Keys : item.kind = "event" /\ k < item.event.key => k \in Accounted(sent)
  BY <1>1 DEF InOrder, item
<1>5. /\ HighInv' /\ NoSilentHole' /\ Range(repaired') \subseteq Accounted(sent')
  BY <1>1, <1>4, EmitKeeps
<1>6. Accounted(sent) \cup ItemKeys(item) \subseteq Accounted(sent')
  BY <1>1, EmitAccounts
<1>7. InOrder(sent', rest)
  <2> SUFFICES ASSUME NEW i \in DOMAIN rest, NEW k \in Keys,
                      rest[i].kind = "event", k < rest[i].event.key
               PROVE  k \in Accounted(sent') \/ \E j \in 1..(i - 1) : k \in ItemKeys(rest[j])
    BY DEF InOrder
  <2>1. i + 1 \in DOMAIN items /\ rest[i] = items[i + 1] /\ i \in Nat
    BY <1>2
  <2>2. k \in Accounted(sent) \/ \E j \in 1..((i + 1) - 1) : k \in ItemKeys(items[j])
    BY <2>1 DEF InOrder
  <2>3. CASE k \in Accounted(sent)
    BY <1>6, <2>3
  <2>4. ASSUME NEW j \in 1..((i + 1) - 1), k \in ItemKeys(items[j])
        PROVE  k \in Accounted(sent') \/ \E h \in 1..(i - 1) : k \in ItemKeys(rest[h])
    <3>1. CASE j = 1
      BY <1>6, <2>4, <3>1 DEF item
    <3>2. CASE j # 1
      <4>1. j - 1 \in 1..(i - 1) /\ (j - 1) + 1 = j
        BY <2>1, <3>2
      <4>2. j \in DOMAIN items
        <5>1. DOMAIN items = 1..Len(items) /\ Len(items) \in Nat
          BY LenProperties
        <5> QED BY <2>1, <5>1
      <4>3. rest[j - 1] = items[j]
        BY <1>3, <4>2, <3>2
      <4> QED BY <2>4, <4>1, <4>3
    <3> QED BY <3>1, <3>2
  <2> QED BY <2>2, <2>3, <2>4
<1>8. KeysOf(items) \subseteq Accounted(sent') \cup KeysOf(rest)
  <2> SUFFICES ASSUME NEW i \in DOMAIN items, NEW k \in ItemKeys(items[i])
               PROVE  k \in Accounted(sent') \cup KeysOf(rest)
    BY DEF KeysOf
  <2>1. CASE i = 1
    BY <1>6, <2>1 DEF item
  <2>2. CASE i # 1
    BY <1>3, <2>2 DEF KeysOf
  <2> QED BY <2>1, <2>2
<1> QED BY <1>5, <1>6, <1>7, <1>8 DEF rest

\* Rows that are emitted by their keys are all delivered when their marker is next.
LEMMA EmitFills ==
  ASSUME TypeOK, HighInv, FilledIsDelivered, NEW items \in Seq(Item), items # <<>>,
         ByKey(items), Fills(sent, high, items), EmitItem(Head(items)), lane' = lane
  PROVE  /\ FilledIsDelivered' /\ ByKey(Tail(items)) /\ Fills(sent', high', Tail(items))
         /\ \A c \in Nat : high <= c /\ EventsUpTo(items, c) =>
                             high' <= c /\ EventsUpTo(Tail(items), c)
<1> DEFINE item == items[1]
           rest == Tail(items)
           key == item.event.key
<1>1. item \in Item /\ EmitItem(item) /\ 1 \in DOMAIN items
  BY TailFacts
<1>2. \A i \in DOMAIN rest : i \in Nat /\ i > 0 /\ i + 1 \in DOMAIN items /\ rest[i] = items[i + 1]
  BY TailFacts, Zenon
<1>3. \A i \in DOMAIN items : i # 1 => i - 1 \in DOMAIN rest /\ rest[i - 1] = items[i]
  BY TailFacts, Zenon
<1>4. Delivered \subseteq Delivered'
  <2>1. CASE item.kind = "event"
    <3>1. sent' = sent => Delivered' = Delivered
      BY DEF Delivered
    <3> QED BY <1>1, <2>1, <3>1, EmitEvent
  <2> QED BY <1>1, <2>1, EmitMarker
<1>5. \/ high' = high
      \/ item.kind = "event" /\ high' = key
  BY <1>1, EmitEvent, EmitMarker
<1>6. /\ NoKey = 0 /\ high \in Nat /\ \A k \in Keys : k \in Nat /\ k > 0
      /\ \A x \in Item : x.kind = "event" => x.event.key \in Keys
      /\ \A x \in Item : x.kind # "event" => x.kind = "gap" /\ Between(x.gap) \subseteq Keys
  BY ItemFacts, MarkFacts
<1> HIDE DEF rest
<1>7. FilledIsDelivered'
  <2>1. CASE item.kind = "event"
    BY <1>1, <1>4, <2>1, EmitEvent DEF FilledIsDelivered
  <2>2. CASE item.kind # "event"
    <3>1. sent'.filled = sent.filled \cup (IF item.filled THEN Between(item.gap) ELSE {})
      BY <1>1, <2>2, EmitMarker
    <3>2. item.filled => Between(item.gap) \subseteq Delivered
      <4> SUFFICES ASSUME item.filled, NEW k \in Between(item.gap) PROVE k \in Delivered
        OBVIOUS
      <4>1. k \in Keys /\ item.kind = "gap"
        BY <1>1, <1>6, <2>2
      <4>2. ~(\E i \in 1..(1 - 1) : items[i].kind = "event" /\ items[i].event.key = k)
        OBVIOUS
      <4>3. k \in sent.open \cup sent.closed
        BY <1>1, <4>1, <4>2 DEF Fills
      <4> QED BY <4>3 DEF Delivered
    <3> QED BY <1>4, <3>1, <3>2 DEF FilledIsDelivered
  <2> QED BY <2>1, <2>2
<1>8. ByKey(rest)
  <2> SUFFICES ASSUME NEW i \in DOMAIN rest, NEW j \in DOMAIN rest,
                      rest[i].kind = "event", rest[j].kind = "event", i < j
               PROVE  rest[i].event.key <= rest[j].event.key
    BY DEF ByKey
  <2>1. i + 1 \in DOMAIN items /\ j + 1 \in DOMAIN items /\ i + 1 < j + 1
    BY <1>2
  <2>2. rest[i] = items[i + 1] /\ rest[j] = items[j + 1]
    BY <1>2
  <2> QED BY <2>1, <2>2 DEF ByKey
<1>9. Fills(sent', high', rest)
  <2> SUFFICES ASSUME NEW j \in DOMAIN rest, NEW k \in Keys,
                      rest[j].kind = "gap", rest[j].filled, k \in Between(rest[j].gap)
               PROVE  /\ \A i \in DOMAIN rest :
                           rest[i].kind = "event" /\ rest[i].event.key = k => high' <= k
                      /\ \/ k \in sent'.open \cup sent'.closed
                         \/ \E i \in 1..(j - 1) : rest[i].kind = "event" /\ rest[i].event.key = k
    BY DEF Fills
  <2>1. j + 1 \in DOMAIN items /\ rest[j] = items[j + 1] /\ j \in Nat
    BY <1>2
  <2>2. /\ \A i \in DOMAIN items : items[i].kind = "event" /\ items[i].event.key = k => high <= k
        /\ \/ k \in sent.open \cup sent.closed
           \/ \E i \in 1..((j + 1) - 1) : items[i].kind = "event" /\ items[i].event.key = k
    BY <2>1 DEF Fills
  <2>3. ASSUME NEW i \in DOMAIN rest, rest[i].kind = "event", rest[i].event.key = k
        PROVE  high' <= k
    <3>1. i + 1 \in DOMAIN items /\ rest[i] = items[i + 1] /\ 1 < i + 1
      BY <1>2
    <3>2. high <= k
      BY <2>2, <2>3, <3>1
    <3>3. item.kind = "event" => key <= k
      BY <1>1, <2>3, <3>1 DEF ByKey
    <3> HIDE DEF item, key
    <3> QED BY <1>5, <3>2, <3>3
  <2>4. \/ k \in sent'.open \cup sent'.closed
        \/ \E i \in 1..(j - 1) : rest[i].kind = "event" /\ rest[i].event.key = k
    <3>1. CASE k \in sent.open \cup sent.closed
      BY <1>4, <3>1 DEF Delivered
    <3>2. ASSUME NEW i \in 1..((j + 1) - 1), items[i].kind = "event", items[i].event.key = k
          PROVE  \/ k \in sent'.open \cup sent'.closed
                 \/ \E h \in 1..(j - 1) : rest[h].kind = "event" /\ rest[h].event.key = k
      <4>1. CASE i = 1
        <5>1. item.kind = "event" /\ key = k /\ high <= k
          BY <1>1, <2>2, <3>2, <4>1
        <5>2. CASE Replay(item.event) /\ sent' = sent
          <6>1. k <= high /\ Enabled
            BY <5>1, <5>2, <1>6 DEF Replay
          <6>2. k = high /\ high # NoKey
            BY <5>1, <6>1, <1>6
          <6> QED BY <6>1, <6>2, <5>2 DEF HighInv, Delivered
        <5>3. CASE Delivered' = Delivered \cup {key}
          BY <5>1, <5>3 DEF Delivered
        <5> QED BY <1>1, <5>1, <5>2, <5>3, EmitEvent
      <4>2. CASE i # 1
        <5>1. i - 1 \in 1..(j - 1)
          BY <2>1, <4>2
        <5>2. i \in DOMAIN items
          <6>1. DOMAIN items = 1..Len(items) /\ Len(items) \in Nat
            BY LenProperties
          <6> QED BY <2>1, <6>1
        <5>3. rest[i - 1] = items[i]
          BY <1>3, <5>2, <4>2
        <5> QED BY <3>2, <5>1, <5>3
      <4> QED BY <4>1, <4>2
    <3> QED BY <2>2, <3>1, <3>2
  <2> QED BY <2>3, <2>4
<1>10. ASSUME NEW c \in Nat, high <= c, EventsUpTo(items, c)
       PROVE  high' <= c /\ EventsUpTo(rest, c)
  <2>1. item.kind = "event" => key <= c
    BY <1>1, <1>10 DEF EventsUpTo
  <2>2. EventsUpTo(rest, c)
    BY <1>2, <1>10 DEF EventsUpTo
  <2> QED BY <1>5, <1>10, <2>1, <2>2
<1> QED BY <1>7, <1>8, <1>9, <1>10 DEF rest

-----------------------------------------------------------------------------
(* What a repair emits when it is finished                                 *)

BufferKeys == {buffer[i].key : i \in DOMAIN buffer}

\* In a merge, a smaller key comes before.
LEMMA MergeOrder ==
  ASSUME NEW m \in Seq(Item), ByKey(m), \A i \in DOMAIN m : m[i].kind = "event",
         NEW i \in DOMAIN m, NEW k \in {m[j].event.key : j \in DOMAIN m}, k < m[i].event.key
  PROVE  \E j \in 1..(i - 1) : m[j].event.key = k
<1>1. PICK j \in DOMAIN m : m[j].event.key = k
  OBVIOUS
<1>2. Len(m) \in Nat /\ DOMAIN m = 1..Len(m) /\ \A h \in 1..Len(m) : m[h] \in Item
  BY LenProperties, ElementOfSeq
<1>3. m[i].event.key \in Nat /\ k \in Nat
  BY <1>1, <1>2, ItemFacts
<1>4. ~(i <= j)
  <2>1. i # j
    BY <1>1, <1>3
  <2>2. ~(i < j)
    BY <1>1, <1>3 DEF ByKey
  <2> QED BY <1>2, <2>1, <2>2
<1>5. j \in 1..(i - 1)
  BY <1>2, <1>4
<1> QED BY <1>1, <1>5

\* The rows and the held events go out in order, then the marker.
LEMMA FilledItems ==
  ASSUME TypeOK, gap \in Gap
  PROVE  LET items == FinishItems(Between(gap), TRUE) IN
         /\ items \in Seq(Item) /\ items # <<>> /\ ByKey(items)
         /\ Between(gap) \cup BufferKeys \subseteq KeysOf(items)
         /\ \A s : /\ \A k \in Keys : k <= gap.start => k \in Accounted(s)
                   /\ \A k \in Keys : \A i \in DOMAIN buffer : k < buffer[i].key =>
                                        k \in Accounted(s) \cup Between(gap) \cup BufferKeys
                   => InOrder(s, items)
         /\ \A s : high <= gap.start => Fills(s, high, items)
         /\ \A c \in Nat : gap.end <= c /\ (\A i \in DOMAIN buffer : buffer[i].key <= c) =>
                             EventsUpTo(items, c)
<1> DEFINE m == SortedMerge(Between(gap) \ BufferKeys, buffer)
           g == Marker(gap, TRUE)
           items == Append(m, g)
<1>1. FinishItems(Between(gap), TRUE) = items
  BY DEF FinishItems, BufferKeys
<1>2. /\ m \in Seq(Item) /\ ByKey(m) /\ \A i \in DOMAIN m : m[i].kind = "event"
      /\ {m[i].event.key : i \in DOMAIN m} = Between(gap) \cup BufferKeys
  <2> DEFINE rows == Between(gap) \ BufferKeys
  <2>1. rows \in SUBSET Keys /\ buffer \in Seq(Event)
    BY ItemFacts DEF TypeOK
  <2> HIDE DEF rows
  <2>2. /\ m \in Seq(Item) /\ ByKey(m) /\ \A i \in DOMAIN m : m[i].kind = "event"
        /\ {m[i].event.key : i \in DOMAIN m} = rows \cup {buffer[i].key : i \in DOMAIN buffer}
    BY <2>1, MergeFacts DEF rows
  <2> QED BY <2>2 DEF rows, BufferKeys
<1> HIDE DEF m
<1>3. /\ g \in Item /\ g.kind = "gap" /\ g.filled /\ g.gap = gap
  BY DEF Marker, Item
<1> HIDE DEF g
<1>4. Len(m) \in Nat /\ DOMAIN m = 1..Len(m)
  BY <1>2, LenProperties
<1>5. /\ items \in Seq(Item) /\ items # <<>> /\ Len(items) = Len(m) + 1
      /\ \A i \in 1..Len(m) : items[i] = m[i]
      /\ items[Len(m) + 1] = g
  BY <1>2, <1>3, AppendProperties
<1>6. DOMAIN items = 1..(Len(m) + 1)
  BY <1>5, LenProperties
<1> HIDE DEF items
<1>7. \A i \in DOMAIN items : /\ items[i].kind = "event" => i \in DOMAIN m /\ items[i] = m[i]
                              /\ i \in DOMAIN m \/ (i = Len(m) + 1 /\ items[i] = g)
  BY <1>3, <1>4, <1>5, <1>6
<1>8. \A i \in DOMAIN m : i \in DOMAIN items /\ items[i] = m[i]
  BY <1>4, <1>5, <1>6
<1>9. ByKey(items)
  BY <1>2, <1>7 DEF ByKey
<1>10. Between(gap) \cup BufferKeys \subseteq KeysOf(items)
  <2> SUFFICES ASSUME NEW i \in DOMAIN m PROVE m[i].event.key \in KeysOf(items)
    BY <1>2
  <2> QED BY <1>2, <1>8 DEF KeysOf, ItemKeys
<1>11. \A k \in Between(gap) : k \in Keys /\ k \in Nat /\ gap.start < k /\ k < gap.end
  <2>1. \A k \in Between(gap) : k \in Keys
    BY ItemFacts
  <2>2. gap.start \in Nat /\ gap.end \in Nat /\ \A k \in Keys : k \in Nat
    BY ItemFacts
  <2> QED BY <2>1, <2>2 DEF Between
<1>12. ASSUME NEW s, \A k \in Keys : k <= gap.start => k \in Accounted(s),
              \A k \in Keys : \A i \in DOMAIN buffer : k < buffer[i].key =>
                k \in Accounted(s) \cup Between(gap) \cup BufferKeys
       PROVE  InOrder(s, items)
  <2> SUFFICES ASSUME NEW i \in DOMAIN items, NEW k \in Keys,
                      items[i].kind = "event", k < items[i].event.key, k \notin Accounted(s)
               PROVE  \E j \in 1..(i - 1) : k \in ItemKeys(items[j])
    BY DEF InOrder
  <2>1. i \in DOMAIN m /\ items[i] = m[i] /\ m[i].event.key \in Between(gap) \cup BufferKeys
    BY <1>2, <1>7
  <2>2. k \in Between(gap) \cup BufferKeys
    <3>1. CASE m[i].event.key \in BufferKeys
      BY <1>12, <2>1, <3>1 DEF BufferKeys
    <3>2. CASE m[i].event.key \in Between(gap)
      <4>1. ~(k <= gap.start)
        BY <1>12
      <4>2. k < gap.end
        BY <1>11, <2>1, <3>2, ItemFacts
      <4>3. k \in Nat /\ gap.start \in Nat /\ gap.end \in Nat
        BY ItemFacts
      <4> QED BY <4>1, <4>2, <4>3 DEF Between
    <3> QED BY <2>1, <3>1, <3>2
  <2>3. PICK j \in 1..(i - 1) : m[j].event.key = k
    BY <1>2, <2>1, <2>2, MergeOrder
  <2>4. j \in DOMAIN m
    BY <1>4, <2>1
  <2> QED BY <1>2, <1>8, <2>3, <2>4 DEF ItemKeys
<1>13. ASSUME NEW s, high <= gap.start PROVE Fills(s, high, items)
  <2> SUFFICES ASSUME NEW j \in DOMAIN items, NEW k \in Keys,
                      items[j].kind = "gap", k \in Between(items[j].gap)
               PROVE  /\ high <= k
                      /\ \E i \in 1..(j - 1) : items[i].kind = "event" /\ items[i].event.key = k
    BY DEF Fills
  <2>1. j = Len(m) + 1 /\ k \in Between(gap)
    BY <1>2, <1>3, <1>7, <1>8
  <2>2. high <= k
    BY <1>11, <1>13, <2>1, ItemFacts, MarkFacts
  <2>3. PICK i \in DOMAIN m : m[i].event.key = k
    BY <1>2, <2>1
  <2>4. i \in 1..(j - 1)
    BY <1>4, <2>1
  <2> QED BY <1>2, <1>8, <2>2, <2>3, <2>4
<1>14. ASSUME NEW c \in Nat, gap.end <= c, \A i \in DOMAIN buffer : buffer[i].key <= c
       PROVE  EventsUpTo(items, c)
  <2> SUFFICES ASSUME NEW i \in DOMAIN items, items[i].kind = "event"
               PROVE  items[i].event.key <= c
    BY DEF EventsUpTo
  <2>1. items[i].event.key \in Between(gap) \cup BufferKeys
    BY <1>2, <1>7
  <2>2. \A k \in BufferKeys : k <= c
    BY <1>14 DEF BufferKeys
  <2>3. \A k \in Between(gap) : k <= c
    <3>1. gap.end \in Nat
      BY ItemFacts
    <3> QED BY <1>11, <1>14, <3>1
  <2> QED BY <2>1, <2>2, <2>3
<1>15. QED
  BY <1>1, <1>5, <1>9, <1>10, <1>12, <1>13, <1>14

\* A marker that says missing, then the held events in order.
LEMMA MissingItems ==
  ASSUME TypeOK, gap \in Gap
  PROVE  LET items == FinishItems({}, FALSE) IN
         /\ items \in Seq(Item) /\ items # <<>> /\ ByKey(items)
         /\ Between(gap) \cup BufferKeys \subseteq KeysOf(items)
         /\ \A s : /\ \A k \in Keys : \A i \in DOMAIN buffer : k < buffer[i].key =>
                                        k \in Accounted(s) \cup Between(gap) \cup BufferKeys
                   => InOrder(s, items)
         /\ \A s : Fills(s, high, items)
         /\ \A c \in Nat : (\A i \in DOMAIN buffer : buffer[i].key <= c) => EventsUpTo(items, c)
<1> DEFINE m == SortedMerge({}, buffer)
           g == Marker(gap, FALSE)
           items == <<g>> \o m
<1>1. FinishItems({}, FALSE) = items
  BY DEF FinishItems
<1>2. /\ m \in Seq(Item) /\ ByKey(m) /\ \A i \in DOMAIN m : m[i].kind = "event"
      /\ {m[i].event.key : i \in DOMAIN m} = BufferKeys
  <2>1. {} \in SUBSET Keys /\ buffer \in Seq(Event)
    BY DEF TypeOK
  <2>2. /\ m \in Seq(Item) /\ ByKey(m) /\ \A i \in DOMAIN m : m[i].kind = "event"
        /\ {m[i].event.key : i \in DOMAIN m} = {} \cup {buffer[i].key : i \in DOMAIN buffer}
    BY <2>1, MergeFacts
  <2> QED BY <2>2 DEF BufferKeys
<1> HIDE DEF m
<1>3. g \in Item /\ g.kind = "gap" /\ ~g.filled /\ g.gap = gap
  BY DEF Marker, Item
<1> HIDE DEF g
<1>4. Len(m) \in Nat /\ DOMAIN m = 1..Len(m)
  BY <1>2, LenProperties
<1>5. <<g>> \in Seq(Item) /\ Len(<<g>>) = 1 /\ <<g>>[1] = g
  BY <1>3
<1>6. /\ items \in Seq(Item) /\ Len(items) = Len(m) + 1
      /\ items[1] = g
      /\ \A i \in 2..(Len(m) + 1) : items[i] = m[i - 1]
  <2>1. /\ items \in Seq(Item) /\ Len(items) = Len(<<g>>) + Len(m)
        /\ \A i \in 1..(Len(<<g>>) + Len(m)) :
             items[i] = IF i <= Len(<<g>>) THEN <<g>>[i] ELSE m[i - Len(<<g>>)]
    BY <1>2, <1>5, ConcatProperties
  <2> HIDE DEF items
  <2>2. /\ items \in Seq(Item) /\ Len(items) = 1 + Len(m)
        /\ \A i \in 1..(1 + Len(m)) : items[i] = IF i <= 1 THEN <<g>>[i] ELSE m[i - 1]
    BY <1>5, <2>1
  <2> QED BY <1>4, <1>5, <2>2
<1>7. DOMAIN items = 1..(Len(m) + 1)
  BY <1>6, LenProperties
<1> HIDE DEF items
<1>8. \A i \in DOMAIN items :
        \/ i = 1 /\ items[i] = g
        \/ i - 1 \in DOMAIN m /\ items[i] = m[i - 1] /\ i \in Nat
  <2> SUFFICES ASSUME NEW i \in 1..(Len(m) + 1), i # 1
               PROVE  i - 1 \in DOMAIN m /\ items[i] = m[i - 1] /\ i \in Nat
    BY <1>6, <1>7
  <2>1. i - 1 \in 1..Len(m) /\ i \in 2..(Len(m) + 1)
    BY <1>4
  <2> QED BY <1>4, <1>6, <2>1
<1>9. \A i \in DOMAIN m : i + 1 \in DOMAIN items /\ items[i + 1] = m[i]
  <2> SUFFICES ASSUME NEW i \in 1..Len(m) PROVE i + 1 \in DOMAIN items /\ items[i + 1] = m[i]
    BY <1>4
  <2>1. i + 1 \in 2..(Len(m) + 1) /\ (i + 1) - 1 = i
    BY <1>4
  <2> QED BY <1>6, <1>7, <2>1
<1>10. 1 \in DOMAIN items /\ items[1] = g /\ items # <<>>
  BY <1>4, <1>6, <1>7
<1>11. ByKey(items)
  <2> SUFFICES ASSUME NEW i \in DOMAIN items, NEW j \in DOMAIN items,
                      items[i].kind = "event", items[j].kind = "event", i < j
               PROVE  items[i].event.key <= items[j].event.key
    BY DEF ByKey
  <2>1. /\ i - 1 \in DOMAIN m /\ items[i] = m[i - 1] /\ i \in Nat
        /\ j - 1 \in DOMAIN m /\ items[j] = m[j - 1] /\ j \in Nat
    BY <1>3, <1>8
  <2>2. i - 1 < j - 1
    BY <2>1
  <2> QED BY <1>2, <2>1, <2>2 DEF ByKey
<1>12. Between(gap) \cup BufferKeys \subseteq KeysOf(items)
  <2>1. Between(gap) \subseteq KeysOf(items)
    BY <1>3, <1>10 DEF KeysOf, ItemKeys
  <2>2. ASSUME NEW i \in DOMAIN m PROVE m[i].event.key \in KeysOf(items)
    <3>1. i + 1 \in DOMAIN items /\ items[i + 1] = m[i] /\ m[i].kind = "event"
      BY <1>2, <1>9
    <3> QED BY <3>1 DEF KeysOf, ItemKeys
  <2> QED BY <1>2, <2>1, <2>2
<1>13. ASSUME NEW s, \A k \in Keys : \A i \in DOMAIN buffer : k < buffer[i].key =>
                       k \in Accounted(s) \cup Between(gap) \cup BufferKeys
       PROVE  InOrder(s, items)
  <2> SUFFICES ASSUME NEW i \in DOMAIN items, NEW k \in Keys,
                      items[i].kind = "event", k < items[i].event.key, k \notin Accounted(s)
               PROVE  \E j \in 1..(i - 1) : k \in ItemKeys(items[j])
    BY DEF InOrder
  <2>1. i - 1 \in DOMAIN m /\ items[i] = m[i - 1] /\ i \in Nat
    BY <1>3, <1>8
  <2>2. k \in Between(gap) \cup BufferKeys
    <3>1. m[i - 1].event.key \in BufferKeys
      BY <1>2, <2>1
    <3> QED BY <1>13, <2>1, <3>1 DEF BufferKeys
  <2>3. CASE k \in Between(gap)
    <3>1. 1 \in 1..(i - 1)
      BY <1>4, <2>1
    <3> QED BY <1>3, <1>10, <2>3, <3>1 DEF ItemKeys
  <2>4. CASE k \in BufferKeys
    <3>1. PICK j \in 1..((i - 1) - 1) : m[j].event.key = k
      BY <1>2, <2>1, <2>4, MergeOrder
    <3>2. j \in DOMAIN m /\ j + 1 \in 1..(i - 1)
      BY <1>4, <2>1
    <3>3. items[j + 1] = m[j] /\ m[j].kind = "event"
      BY <1>2, <1>9, <3>2
    <3> QED BY <3>1, <3>2, <3>3 DEF ItemKeys
  <2> QED BY <2>2, <2>3, <2>4
<1>14. ASSUME NEW s PROVE Fills(s, high, items)
  <2>1. \A j \in DOMAIN items : ~(items[j].kind = "gap" /\ items[j].filled)
    BY <1>2, <1>3, <1>8
  <2> QED BY <2>1 DEF Fills
<1>15. ASSUME NEW c \in Nat, \A i \in DOMAIN buffer : buffer[i].key <= c
       PROVE  EventsUpTo(items, c)
  <2> SUFFICES ASSUME NEW i \in DOMAIN items, items[i].kind = "event"
               PROVE  items[i].event.key <= c
    BY DEF EventsUpTo
  <2>1. items[i].event.key \in BufferKeys
    BY <1>2, <1>3, <1>8
  <2> QED BY <1>15, <2>1 DEF BufferKeys
<1>16. QED
  BY <1>1, <1>6, <1>10, <1>11, <1>12, <1>13, <1>14, <1>15

-----------------------------------------------------------------------------
(* Control: types, the lock, the gap and the end of the pipeline.          *)

\* What an action may do to the continuity layer.
Onward ==
  /\ lane' = lane
  /\ seen' \in Seq(Keys) /\ Len(seen') <= SeenSize
  /\ cursor' \in Keys \cup {NoKey} /\ cursor <= cursor'

FeedType == [pc : FeedPC, event : Event, stopping : BOOLEAN]
RepairType == [pc : RepairPC, target : Keys \cup {NoKey}, ok : BOOLEAN]

\* TypeOK in two parts: what emission does not touch, and what it does.
FlowType ==
  /\ gap \in Gap \cup {NoGap} /\ buffer \in Seq(Event)
  /\ failed \in BOOLEAN /\ failures \in 0..MaxFailures
  /\ feed \in FeedType /\ repair \in RepairType
  /\ holder \in {"none", "feed", "repair"} /\ queue \in Seq({"feed", "repair"})

EmissionType ==
  /\ repaired \in Seq(Keys) /\ Len(repaired) <= SeenSize
  /\ high \in Keys \cup {NoKey} /\ out \in Seq(Item) /\ sent \in SentType

\* The lane decides which events there are, and it never changes.
LEMMA LaneFacts ==
  ASSUME lane' = lane
  PROVE  /\ Enabled' = Enabled /\ Klines' = Klines
         /\ Event' = Event /\ Item' = Item /\ FeedType' = FeedType
<1>1. Enabled' = Enabled /\ Klines' = Klines
  BY DEF Enabled, Klines
<1>2. Event' = Event
  BY <1>1 DEF Event
<1> QED BY <1>1, <1>2 DEF Item, FeedType

LEMMA TypeParts ==
  ASSUME TypeOK
  PROVE  /\ FlowType /\ EmissionType /\ lane \in Lanes
         /\ cursor \in Keys \cup {NoKey} /\ cursor \in Nat
<1>1. FlowType /\ EmissionType /\ lane \in Lanes /\ cursor \in Keys \cup {NoKey}
  BY DEF TypeOK, FlowType, EmissionType, SentType, FeedType, RepairType
<1> QED BY <1>1, MarkFacts

LEMMA TypesNext ==
  ASSUME TypeOK, Onward, FlowType', EmissionType'
  PROVE  TypeOK'
BY DEF TypeOK, Onward, FlowType, EmissionType, SentType, FeedType, RepairType

LEMMA SilentTypes ==
  ASSUME TypeOK, lane' = lane, NothingEmitted
  PROVE  EmissionType'
<1>1. EmissionType /\ Item' = Item
  BY TypeParts, LaneFacts
<1> QED BY <1>1 DEF EmissionType, NothingEmitted, SentType

LEMMA EmitTypes ==
  ASSUME TypeOK, lane' = lane, NEW items \in Seq(Item), items # <<>>, NEW who,
         EmitAs(who, items)
  PROVE  EmissionType' /\ holder' = who /\ out' = Tail(items)
<1>1. Head(items) \in Item /\ Tail(items) \in Seq(Item)
  BY TailFacts
<1>2. EmissionType /\ Item' = Item
  BY TypeParts, LaneFacts
<1>3. EmitItem(Head(items)) /\ holder' = who /\ out' = Tail(items)
  BY DEF EmitAs
<1>4. CASE Head(items).kind = "event"
  <2>1. /\ sent' \in SentType /\ high' \in Keys \cup {NoKey}
        /\ repaired' \in Seq(Keys) /\ Len(repaired') <= SeenSize
    BY <1>1, <1>3, <1>4, EmitEvent
  <2> QED BY <1>1, <1>2, <1>3, <2>1 DEF EmissionType, SentType
<1>5. CASE Head(items).kind # "event"
  <2>1. sent' \in SentType /\ high' = high /\ repaired' = repaired
    BY <1>1, <1>3, <1>5, EmitMarker
  <2> QED BY <1>1, <1>2, <1>3, <2>1 DEF EmissionType, SentType
<1> QED BY <1>3, <1>4, <1>5

\* What _finish_repair is called with: the whole gap, or nothing.
LEMMA FinishTypes ==
  ASSUME TypeOK, lane' = lane, gap \in Gap, NEW ok \in BOOLEAN, NEW rows,
         rows = IF ok THEN Between(gap) ELSE {}, NEW who, Finish(who, rows, ok)
  PROVE  EmissionType' /\ holder' = who
<1>1. FinishItems(rows, ok) \in Seq(Item) /\ FinishItems(rows, ok) # <<>>
  <2>1. CASE ok
    BY <2>1, FilledItems
  <2>2. CASE ~ok
    BY <2>2, MissingItems
  <2> QED BY <2>1, <2>2
<1>2. EmitAs(who, FinishItems(rows, ok))
  BY DEF Finish
<1> QED BY <1>1, <1>2, EmitTypes, Zenon

\* A single live event, delivered by the ingesting task.
LEMMA LiveTypes ==
  ASSUME TypeOK, lane' = lane, NEW e \in Event, NEW who, EmitAs(who, <<EventItem(e, FALSE)>>)
  PROVE  EmissionType' /\ holder' = who /\ out' = <<>>
<1> DEFINE items == <<EventItem(e, FALSE)>>
<1>1. items \in Seq(Item) /\ items # <<>> /\ Tail(items) = <<>>
  BY DEF EventItem, Item
<1> QED BY <1>1, EmitTypes

\* What the waiters of the lock are once a task left them or not.
WaitersAre(q, inFeed, inRepair) ==
  /\ q \in Seq({"feed", "repair"}) /\ Distinct(q)
  /\ "feed" \in Range(q) <=> inFeed
  /\ "repair" \in Range(q) <=> inRepair

\* The ingesting task gets the lock.
LEMMA FeedHasLockControl ==
  ASSUME ControlInv, Onward, NEW f \in FeedType, f.pc \in {"waiting", "abandoning"},
         f.pc = "waiting" => gap = NoGap /\ ~f.stopping,
         f.pc = "abandoning" => ~Alive,
         holder = "none", WaitersAre(queue', FALSE, repair.pc = "waiting"),
         FeedHasLock(f)
  PROVE  ControlInv'
<1> USE DEF ControlInv
<1>1. TypeOK /\ FlowType /\ lane' = lane /\ FeedType' = FeedType /\ Event' = Event
      /\ Enabled' = Enabled /\ out = <<>>
  BY TypeParts, LaneFacts DEF Onward, LockInv
<1>2. queue' \in Seq({"feed", "repair"}) /\ Distinct(queue') /\ "feed" \notin Range(queue')
      /\ ("repair" \in Range(queue') <=> repair.pc = "waiting")
  BY DEF WaitersAre
<1>3. repair.pc # "waiting" => queue' = <<>>
  <2>1. \A t \in Range(queue') : t \in {"feed", "repair"}
    BY <1>2, ElementOfSeq, LenProperties DEF Range
  <2>2. queue' = <<>> <=> Range(queue') = {}
    BY <1>2, QueueFacts
  <2> QED BY <1>2, <2>1, <2>2
<1>4. CASE /\ f.pc = "waiting"
           /\ EmitAs("feed", <<EventItem(f.event, FALSE)>>)
           /\ feed' = [f EXCEPT !.pc = "holding"]
           /\ GapUnchanged
  <2>1. EmissionType' /\ holder' = "feed" /\ out' = <<>>
    BY <1>1, <1>4, LiveTypes DEF FeedType
  <2>2. feed' \in FeedType /\ feed'.pc = "holding" /\ ~feed'.stopping
    BY <1>4 DEF FeedType, FeedPC
  <2>3. FlowType'
    BY <1>1, <1>2, <1>4, <2>1, <2>2 DEF FlowType, GapUnchanged
  <2>4. TypeOK'
    BY <1>1, <2>1, <2>3, TypesNext
  <2>5. LockInv'
    BY <1>2, <1>4, <2>1, <2>2 DEF LockInv, GapUnchanged
  <2>6. GapInv'
    BY <1>1, <1>4, <2>1, <2>2 DEF GapInv, GapUnchanged, NoGap, NoKey
  <2>7. StopInv'
    BY <2>2 DEF StopInv, StoppedIsFinal
  <2> QED BY <2>4, <2>5, <2>6, <2>7
<1>5. CASE /\ f.pc = "abandoning" /\ gap # NoGap
           /\ Finish("feed", {}, FALSE)
           /\ feed' = [f EXCEPT !.pc = "holding"]
  <2>0. gap \in Gap /\ Enabled
    BY <1>1, <1>5 DEF FlowType, GapInv
  <2>1. EmissionType' /\ holder' = "feed"
    BY <1>1, <1>5, <2>0, FinishTypes, Zenon
  <2>2. feed' \in FeedType /\ feed'.pc = "holding" /\ feed'.stopping = f.stopping
    BY <1>5 DEF FeedType, FeedPC
  <2>3. /\ gap' = NoGap /\ buffer' = <<>> /\ failures' = 0 /\ failed' = TRUE
        /\ repair' = NoRepair /\ repair'.pc = "none"
    BY <1>1, <1>5 DEF Finish, FlowType, NoRepair
  <2>4. repair.pc # "waiting"
    BY <1>5 DEF Alive
  <2>5. FlowType'
    <3>1. repair' \in RepairType /\ 0 \in 0..MaxFailures
      BY <2>3, GapRecoveryAssumption DEF NoRepair, RepairType, RepairPC
    <3> QED BY <1>1, <1>2, <2>1, <2>2, <2>3, <3>1 DEF FlowType
  <2>6. TypeOK'
    BY <1>1, <2>1, <2>5, TypesNext
  <2>7. LockInv'
    BY <1>2, <2>1, <2>2, <2>3, <2>4 DEF LockInv
  <2>8. GapInv'
    BY <1>1, <2>0, <2>1, <2>2, <2>3 DEF GapInv
  <2>9. StopInv'
    BY <2>2, <2>3 DEF StopInv, StoppedIsFinal, Alive
  <2> QED BY <2>6, <2>7, <2>8, <2>9
<1>6. CASE /\ f.pc = "abandoning" /\ gap = NoGap
           /\ holder' = "none"
           /\ feed' = [f EXCEPT !.pc = IF f.stopping THEN "stopped" ELSE "idle"]
           /\ GapUnchanged /\ NothingEmitted
  <2>1. EmissionType'
    BY <1>1, <1>6, SilentTypes
  <2>2. /\ feed' \in FeedType /\ feed'.stopping = f.stopping
        /\ feed'.pc = IF f.stopping THEN "stopped" ELSE "idle"
    BY <1>6 DEF FeedType, FeedPC
  <2>3. /\ gap' = NoGap /\ buffer' = <<>> /\ repair' = repair /\ repair.pc = "none" /\ out' = <<>>
    BY <1>1, <1>6 DEF GapUnchanged, NothingEmitted, GapInv
  <2>4. FlowType'
    BY <1>1, <1>2, <1>6, <2>2 DEF FlowType, GapUnchanged
  <2>5. TypeOK'
    BY <1>1, <2>1, <2>4, TypesNext
  <2>6. LockInv'
    BY <1>2, <1>6, <2>2, <2>3 DEF LockInv
  <2>7. GapInv'
    BY <1>1, <1>6, <2>2, <2>3 DEF GapInv
  <2>8. StopInv'
    BY <1>3, <1>6, <2>2, <2>3 DEF StopInv, StoppedIsFinal, Alive, LockFree
  <2> QED BY <2>5, <2>6, <2>7, <2>8
<1> QED BY <1>4, <1>5, <1>6 DEF FeedHasLock

\* The repair task gets the lock.
LEMMA RepairHasLockControl ==
  ASSUME ControlInv, Onward, NEW r \in RepairType, r.pc = "waiting", Alive,
         holder = "none", feed' = feed,
         WaitersAre(queue', feed.pc \in {"waiting", "abandoning"}, FALSE),
         RepairHasLock(r)
  PROVE  ControlInv'
<1> USE DEF ControlInv
<1>1. TypeOK /\ FlowType /\ lane' = lane /\ FeedType' = FeedType /\ Event' = Event
      /\ Enabled' = Enabled /\ out = <<>>
  BY TypeParts, LaneFacts DEF Onward, LockInv
<1>2. queue' \in Seq({"feed", "repair"}) /\ Distinct(queue') /\ "repair" \notin Range(queue')
      /\ ("feed" \in Range(queue') <=> feed.pc \in {"waiting", "abandoning"})
  BY DEF WaitersAre
<1>3. gap # NoGap /\ gap \in Gap /\ Enabled
  BY <1>1 DEF GapInv, FlowType, Alive
<1>4. feed.pc \notin {"waiting", "holding", "gathering", "abandoning", "stopped"}
      /\ ~feed.stopping
  BY <1>3 DEF GapInv, StopInv
<1>5. CASE /\ r.ok /\ ~TargetCurrent(r)
           /\ repair' = [r EXCEPT !.pc = "ready"]
           /\ holder' = "none"
           /\ UNCHANGED <<gap, buffer, failures, failed>> /\ NothingEmitted
  <2>1. EmissionType' /\ out' = <<>>
    BY <1>1, <1>5, SilentTypes DEF NothingEmitted
  <2>2. repair' \in RepairType /\ repair'.pc = "ready"
    BY <1>5 DEF RepairType, RepairPC
  <2>3. FlowType'
    BY <1>1, <1>2, <1>5, <2>2 DEF FlowType
  <2>4. TypeOK'
    BY <1>1, <2>1, <2>3, TypesNext
  <2>5. LockInv'
    BY <1>2, <1>4, <1>5, <2>1, <2>2 DEF LockInv
  <2>6. GapInv'
    <3>1. gap.start < gap.end /\ gap.end <= cursor'
      <4>1. gap.end \in Nat /\ cursor \in Nat /\ cursor' \in Nat /\ cursor <= cursor' /\ gap.end <= cursor
        BY <1>1, <1>3, TypeParts DEF GapInv, Gap, Keys, Onward, NoKey
      <4> QED BY <1>3, <4>1 DEF GapInv
    <3> QED BY <1>1, <1>3, <1>4, <1>5, <2>1, <2>2, <3>1 DEF GapInv
  <2>7. StopInv'
    BY <1>4 DEF StopInv, StoppedIsFinal
  <2> QED BY <2>4, <2>5, <2>6, <2>7
<1>6. CASE /\ ~r.ok \/ TargetCurrent(r)
           /\ Finish("repair", IF r.ok THEN Rows(r) ELSE {}, r.ok)
  <2>1. EmissionType' /\ holder' = "repair"
    <3>1. (IF r.ok THEN Rows(r) ELSE {}) = (IF r.ok THEN Between(gap) ELSE {})
      BY <1>6 DEF TargetCurrent, Rows, Between
    <3>2. r.ok \in BOOLEAN
      BY DEF RepairType
    <3> QED BY <1>1, <1>3, <1>6, <3>1, <3>2, FinishTypes, Zenon
  <2>2. /\ gap' = NoGap /\ buffer' = <<>> /\ failures' = 0 /\ failed' \in BOOLEAN
        /\ repair' = NoRepair /\ repair'.pc = "none"
    BY <1>6 DEF Finish, NoRepair
  <2>3. FlowType'
    <3>1. repair' \in RepairType /\ 0 \in 0..MaxFailures
      BY <2>2, GapRecoveryAssumption DEF NoRepair, RepairType, RepairPC
    <3> QED BY <1>1, <1>2, <2>1, <2>2, <3>1 DEF FlowType
  <2>4. TypeOK'
    BY <1>1, <2>1, <2>3, TypesNext
  <2>5. LockInv'
    BY <1>2, <1>4, <2>1, <2>2 DEF LockInv
  <2>6. GapInv'
    BY <1>1, <1>3, <1>4, <2>1, <2>2 DEF GapInv
  <2>7. StopInv'
    BY <1>4 DEF StopInv, StoppedIsFinal
  <2> QED BY <2>4, <2>5, <2>6, <2>7
<1> QED BY <1>5, <1>6 DEF RepairHasLock

LEMMA NobodyWaits ==
  ASSUME NEW q \in Seq({"feed", "repair"}), Distinct(q), "feed" \notin Range(q), "repair" \notin Range(q)
  PROVE  q = <<>>
<1>1. \A t \in Range(q) : t \in {"feed", "repair"}
  BY ElementOfSeq, LenProperties DEF Range
<1>2. q = <<>> <=> Range(q) = {}
  BY QueueFacts
<1> QED BY <1>1, <1>2

\* The state in which an event comes in or a callback returns.
LEMMA BusyFacts ==
  ASSUME ControlInv
  PROVE  /\ TypeOK /\ FlowType
         /\ gap # NoGap => gap \in Gap /\ Enabled
         /\ feed.pc \in {"idle", "inGap"} => "feed" \notin Range(queue) /\ holder # "feed" /\ ~feed.stopping
         /\ ~Enabled /\ feed.pc \notin {"waiting", "abandoning", "holding"} => LockFree
         /\ Alive => gap # NoGap /\ ~feed.stopping
                     /\ feed.pc \notin {"waiting", "holding", "gathering", "abandoning", "stopped"}
         /\ queue \in Seq({"feed", "repair"}) /\ Distinct(queue)
<1> USE DEF ControlInv
<1>1. TypeOK /\ FlowType
  BY TypeParts
<1>2. gap # NoGap => gap \in Gap /\ Enabled
  BY <1>1 DEF FlowType, GapInv
<1>3. feed.pc \in {"idle", "inGap"} => "feed" \notin Range(queue) /\ holder # "feed" /\ ~feed.stopping
  BY DEF LockInv, StopInv
<1>4. queue \in Seq({"feed", "repair"}) /\ Distinct(queue)
  BY <1>1 DEF FlowType, LockInv
<1>5. ~Enabled /\ feed.pc \notin {"waiting", "abandoning", "holding"} => LockFree
  <2> SUFFICES ASSUME ~Enabled, feed.pc \notin {"waiting", "abandoning", "holding"} PROVE LockFree
    OBVIOUS
  <2>1. repair.pc = "none" /\ holder = "none"
    BY <1>1, <1>2 DEF GapInv, LockInv, FlowType
  <2>2. queue = <<>>
    <3>1. "feed" \notin Range(queue) /\ "repair" \notin Range(queue)
      BY <2>1 DEF LockInv
    <3> QED BY <1>4, <3>1, NobodyWaits
  <2> QED BY <2>1, <2>2 DEF LockFree
<1>6. Alive => gap # NoGap /\ ~feed.stopping
               /\ feed.pc \notin {"waiting", "holding", "gathering", "abandoning", "stopped"}
  <2> SUFFICES ASSUME Alive PROVE gap # NoGap /\ ~feed.stopping
               /\ feed.pc \notin {"waiting", "holding", "gathering", "abandoning", "stopped"}
    OBVIOUS
  <2>1. gap # NoGap /\ ~feed.stopping
    BY DEF GapInv, StopInv, Alive
  <2> QED BY <2>1 DEF GapInv, StopInv
<1> QED BY <1>1, <1>2, <1>3, <1>4, <1>5, <1>6

LEMMA FeedAsksLockControl ==
  ASSUME ControlInv, Onward, NEW f \in FeedType, f.pc \in {"waiting", "abandoning"},
         f.pc = "waiting" => gap = NoGap /\ ~f.stopping,
         f.pc = "abandoning" => ~Alive,
         feed.pc \notin {"waiting", "abandoning", "holding"},
         FeedAsksLock(f)
  PROVE  ControlInv'
<1>1. TypeOK /\ FlowType /\ (~Enabled => LockFree) /\ holder # "feed"
  BY BusyFacts DEF ControlInv, LockInv
<1>4. /\ queue \in Seq({"feed", "repair"}) /\ Distinct(queue)
      /\ "feed" \notin Range(queue)
      /\ ("repair" \in Range(queue) <=> repair.pc = "waiting")
  BY <1>1 DEF ControlInv, LockInv, FlowType
<1>5. WaitersAre(queue, FALSE, repair.pc = "waiting")
  BY <1>4, Zenon DEF WaitersAre
<1>2. CASE LockFree /\ FeedHasLock(f) /\ UNCHANGED queue
  <2>1. holder = "none" /\ WaitersAre(queue', FALSE, repair.pc = "waiting")
    BY <1>5, <1>2 DEF LockFree
  <2> QED BY <1>2, <2>1, FeedHasLockControl
<1>3. CASE /\ ~LockFree
           /\ queue' = Append(queue, "feed")
           /\ feed' = f
           /\ GapUnchanged /\ NothingEmitted /\ UNCHANGED holder
  <2>1. lane' = lane /\ FeedType' = FeedType /\ Event' = Event /\ Enabled' = Enabled
    BY LaneFacts DEF Onward
  <2>2. /\ queue' \in Seq({"feed", "repair"}) /\ Distinct(queue')
        /\ Range(queue') = Range(queue) \cup {"feed"}
    BY <1>3, <1>4, QueueFacts
  <2>3. EmissionType' /\ out' = out
    BY <1>1, <1>3, <2>1, SilentTypes DEF NothingEmitted
  <2>4. TypeOK'
    <3>1. FlowType'
      BY <1>1, <1>3, <2>1, <2>2 DEF FlowType, GapUnchanged
    <3> QED BY <1>1, <2>3, <3>1, TypesNext
  <2>5. LockInv'
    BY <1>1, <1>3, <1>4, <2>2, <2>3 DEF ControlInv, LockInv, GapUnchanged
  <2>6. GapInv'
    <3>1. gap # NoGap => gap.end <= cursor'
      <4>1. gap # NoGap => gap.end \in Nat /\ cursor \in Nat /\ cursor' \in Nat /\ cursor <= cursor' /\ gap.end <= cursor
        BY <1>1, TypeParts DEF ControlInv, GapInv, FlowType, Gap, Keys, Onward, NoKey
      <4> QED BY <4>1
    <3> QED BY <1>1, <1>3, <2>1, <2>3, <3>1 DEF ControlInv, GapInv, GapUnchanged, Alive
  <2>7. StopInv'
    BY <1>3 DEF StopInv, StoppedIsFinal, GapUnchanged, Alive
  <2> QED BY <2>4, <2>5, <2>6, <2>7 DEF ControlInv
<1> QED BY <1>2, <1>3 DEF FeedAsksLock

LEMMA RepairAsksLockControl ==
  ASSUME ControlInv, Onward, repair.pc = "fetching", feed' = feed,
         NEW r \in RepairType, r.pc = "waiting", RepairAsksLock(r)
  PROVE  ControlInv'
<1>1. Alive
  BY DEF Alive
<1>2. /\ TypeOK /\ FlowType /\ gap # NoGap /\ Enabled /\ ~feed.stopping
      /\ feed.pc \notin {"waiting", "holding", "gathering", "abandoning", "stopped"}
  BY <1>1, BusyFacts
<1>5. /\ queue \in Seq({"feed", "repair"}) /\ Distinct(queue)
      /\ "repair" \notin Range(queue)
      /\ ("feed" \in Range(queue) <=> feed.pc \in {"waiting", "abandoning"})
  BY <1>2 DEF ControlInv, LockInv, FlowType
<1>6. WaitersAre(queue, feed.pc \in {"waiting", "abandoning"}, FALSE)
  BY <1>5, Zenon DEF WaitersAre
<1>3. CASE LockFree /\ RepairHasLock(r) /\ UNCHANGED queue
  <2>1. holder = "none" /\ WaitersAre(queue', feed.pc \in {"waiting", "abandoning"}, FALSE)
    BY <1>6, <1>3 DEF LockFree
  <2> QED BY <1>1, <1>3, <2>1, RepairHasLockControl
<1>4. CASE /\ ~LockFree
           /\ queue' = Append(queue, "repair")
           /\ repair' = r
           /\ UNCHANGED <<gap, buffer, failures, failed, holder>> /\ NothingEmitted
  <2>1. lane' = lane /\ FeedType' = FeedType /\ Event' = Event /\ Enabled' = Enabled
    BY LaneFacts DEF Onward
  <2>2. /\ queue' \in Seq({"feed", "repair"}) /\ Distinct(queue')
        /\ Range(queue') = Range(queue) \cup {"repair"}
    BY <1>4, <1>5, QueueFacts
  <2>3. EmissionType' /\ out' = out
    BY <1>2, <1>4, <2>1, SilentTypes DEF NothingEmitted
  <2>4. TypeOK'
    <3>1. FlowType'
      BY <1>2, <1>4, <2>1, <2>2 DEF FlowType
    <3> QED BY <1>2, <2>3, <3>1, TypesNext
  <2>5. LockInv'
    BY <1>2, <1>4, <1>5, <2>2, <2>3 DEF ControlInv, LockInv
  <2>6. GapInv'
    <3>1. gap.end <= cursor'
      <4>1. gap.end \in Nat /\ cursor \in Nat /\ cursor' \in Nat /\ cursor <= cursor' /\ gap.end <= cursor
        BY <1>2, TypeParts DEF ControlInv, GapInv, FlowType, Gap, Keys, Onward, NoKey
      <4> QED BY <4>1
    <3> QED BY <1>2, <1>4, <2>1, <2>3, <3>1 DEF ControlInv, GapInv
  <2>7. StopInv'
    BY <1>2 DEF StopInv, StoppedIsFinal
  <2> QED BY <2>4, <2>5, <2>6, <2>7 DEF ControlInv
<1> QED BY <1>3, <1>4 DEF RepairAsksLock

LEMMA IdleFeedFacts ==
  IdleFeed \in FeedType /\ IdleFeed.pc = "idle" /\ IdleFeed.stopping = FALSE
<1>1. 1 \in Keys
  BY GapRecoveryAssumption DEF Keys
<1>2. Closed(1) \in Event
  BY <1>1 DEF Closed, Event
<1> QED BY <1>2 DEF IdleFeed, Feed, FeedType, FeedPC

\* An event is held back behind an active gap, or overflows the buffer.
LEMMA HoldBackControl ==
  ASSUME ControlInv, Onward, NEW e \in Event, gap # NoGap,
         NEW g \in Gap, g.start < g.end, g.end <= cursor',
         feed.pc \in {"idle", "inGap"}, HoldBack(e, g)
  PROVE  ControlInv'
<1>1. /\ TypeOK /\ FlowType /\ Enabled /\ holder # "feed" /\ ~feed.stopping
  BY BusyFacts
<1>7. /\ queue \in Seq({"feed", "repair"}) /\ Distinct(queue)
      /\ "feed" \notin Range(queue)
      /\ ("repair" \in Range(queue) <=> repair.pc = "waiting")
  BY <1>1 DEF ControlInv, LockInv, FlowType
<1>2. lane' = lane /\ FeedType' = FeedType /\ Event' = Event /\ Enabled' = Enabled
  BY LaneFacts DEF Onward
<1>3. /\ gap' = g /\ g # NoGap /\ buffer' \in Seq(Event)
      /\ UNCHANGED <<failures, failed, holder>>
  BY <1>1, AppendProperties DEF HoldBack, FlowType, Gap, Keys, NoGap, NoKey
<1>4. EmissionType' /\ out' = out
  BY <1>1, <1>2, SilentTypes DEF NothingEmitted, HoldBack
<1>5. CASE feed' = IdleFeed /\ UNCHANGED <<repair, queue>>
  <2>1. feed' \in FeedType /\ feed'.pc = "idle" /\ feed'.stopping = FALSE
    BY <1>5, IdleFeedFacts
  <2>2. TypeOK'
    <3>1. FlowType'
      BY <1>1, <1>2, <1>3, <1>5, <2>1 DEF FlowType
    <3> QED BY <1>1, <1>4, <3>1, TypesNext
  <2>3. LockInv'
    BY <1>1, <1>3, <1>4, <1>5, <1>7, <2>1 DEF ControlInv, LockInv
  <2>4. GapInv'
    BY <1>1, <1>2, <1>3, <2>1 DEF GapInv
  <2>5. StopInv'
    BY <2>1 DEF StopInv, StoppedIsFinal
  <2> QED BY <2>2, <2>3, <2>4, <2>5 DEF ControlInv
<1>6. CASE /\ feed' = Feed("gathering", e)
           /\ repair' = [repair EXCEPT !.pc = "dead"]
           /\ queue' = Without("repair")
  <2>1. feed' \in FeedType /\ feed'.pc = "gathering" /\ feed'.stopping = FALSE
    BY <1>6 DEF Feed, FeedType, FeedPC
  <2>2. repair' \in RepairType /\ repair'.pc = "dead" /\ ~Alive'
    BY <1>1, <1>6 DEF FlowType, RepairType, RepairPC, Alive
  <2>3. /\ queue' \in Seq({"feed", "repair"}) /\ Distinct(queue')
        /\ Range(queue') = Range(queue) \ {"repair"}
    BY <1>7, <1>6, WithoutFacts
  <2>4. TypeOK'
    <3>1. FlowType'
      BY <1>1, <1>2, <1>3, <2>1, <2>2, <2>3 DEF FlowType
    <3> QED BY <1>1, <1>4, <3>1, TypesNext
  <2>5. LockInv'
    BY <1>1, <1>3, <1>4, <1>7, <2>1, <2>2, <2>3 DEF ControlInv, LockInv
  <2>6. GapInv'
    BY <1>1, <1>2, <1>3, <2>1, <2>2 DEF GapInv
  <2>7. StopInv'
    BY <2>1 DEF StopInv, StoppedIsFinal
  <2> QED BY <2>4, <2>5, <2>6, <2>7 DEF ControlInv
<1> QED BY <1>5, <1>6 DEF HoldBack

\* What an event passes on to the layers below.
LEMMA AdvancedFacts ==
  ASSUME TypeOK, NEW k \in Keys
  PROVE  /\ Advanced(k) \in Keys /\ cursor <= Advanced(k) /\ k <= Advanced(k)
         /\ Advanced(k) = k \/ Advanced(k) = cursor
<1>1. cursor \in Keys \cup {NoKey} /\ cursor \in Nat /\ k \in Nat /\ NoKey = 0
  BY TypeParts DEF Keys, NoKey
<1>2. CASE cursor = NoKey \/ k >= cursor
  BY <1>1, <1>2 DEF Advanced
<1>3. CASE ~(cursor = NoKey \/ k >= cursor)
  BY <1>1, <1>3 DEF Advanced
<1> QED BY <1>2, <1>3

LEMMA ForwardControl ==
  ASSUME ControlInv, lane' = lane, seen' \in Seq(Keys), Len(seen') <= SeenSize,
         NEW e \in Event, feed.pc \in {"idle", "inGap"}, Forward(e)
  PROVE  ControlInv' /\ Onward
<1>1. TypeOK /\ e.key \in Keys /\ feed.pc \notin {"waiting", "abandoning", "holding"}
      /\ (gap # NoGap => gap \in Gap)
  BY BusyFacts DEF Event
<1>2. Onward
  BY <1>1, AdvancedFacts DEF Forward, Onward
<1>3. CASE /\ AlreadyRepaired(e)
           /\ feed' = IdleFeed
           /\ GapUnchanged /\ NothingEmitted /\ LockUnchanged
  <2>1. feed' \in FeedType /\ feed'.pc = "idle" /\ feed'.stopping = FALSE
    BY <1>3, IdleFeedFacts
  <2>2. lane' = lane /\ FeedType' = FeedType /\ Event' = Event /\ Enabled' = Enabled
    BY LaneFacts
  <2>3. EmissionType' /\ out' = out
    BY <1>1, <1>3, SilentTypes DEF NothingEmitted
  <2>4. TypeOK'
    <3>1. FlowType'
      BY <1>1, <1>3, <2>1, <2>2, BusyFacts DEF FlowType, GapUnchanged, LockUnchanged
    <3> QED BY <1>1, <1>2, <2>3, <3>1, TypesNext
  <2>5. LockInv'
    BY <1>1, <1>3, <2>1, <2>3 DEF ControlInv, LockInv, GapUnchanged, LockUnchanged
  <2>6. GapInv'
    <3>1. gap # NoGap => gap.end <= cursor'
      <4>1. gap # NoGap => gap.end \in Nat /\ cursor \in Nat /\ cursor' \in Nat /\ cursor <= cursor' /\ gap.end <= cursor
        BY <1>1, <1>2, TypeParts DEF ControlInv, GapInv, Gap, Keys, Onward, NoKey
      <4> QED BY <4>1
    <3> QED BY <1>1, <1>3, <2>1, <2>2, <2>3, <3>1
          DEF ControlInv, GapInv, GapUnchanged, LockUnchanged
  <2>7. StopInv'
    BY <2>1 DEF StopInv, StoppedIsFinal
  <2> QED BY <1>2, <2>4, <2>5, <2>6, <2>7 DEF ControlInv
<1>4. CASE ~AlreadyRepaired(e) /\ gap # NoGap /\ HoldBack(e, gap)
  <2>1. gap.start < gap.end /\ gap.end <= cursor'
    <3>1. gap.end \in Nat /\ cursor \in Nat /\ cursor' \in Nat /\ cursor <= cursor'
          /\ gap.end <= cursor /\ gap.start < gap.end
      BY <1>1, <1>2, <1>4, TypeParts DEF ControlInv, GapInv, Gap, Keys, Onward, NoKey
    <3> QED BY <3>1
  <2> QED BY <1>1, <1>2, <1>4, <2>1, HoldBackControl
<1>5. CASE ~AlreadyRepaired(e) /\ gap = NoGap /\ FeedAsksLock(Feed("waiting", e))
  <2> DEFINE f == Feed("waiting", e)
  <2>1. f \in FeedType /\ f.pc = "waiting" /\ ~f.stopping
    BY DEF Feed, FeedType, FeedPC
  <2>2. FeedAsksLock(f)
    BY <1>5
  <2> HIDE DEF f
  <2> QED BY <1>1, <1>2, <1>5, <2>1, <2>2, FeedAsksLockControl
<1> QED BY <1>3, <1>4, <1>5 DEF Forward

LEMMA OpenGapControl ==
  ASSUME ControlInv, lane' = lane, seen' \in Seq(Keys), Len(seen') <= SeenSize,
         NEW e \in Event, feed.pc = "idle", Jumps(e), Enabled, OpenGap(e)
  PROVE  ControlInv' /\ Onward
<1>1. TypeOK /\ FlowType /\ e.key \in Keys /\ holder # "feed" /\ repair.pc = "none"
      /\ "feed" \notin Range(queue)
  BY BusyFacts DEF Event, OpenGap, ControlInv, GapInv
<1>2. /\ cursor \in Keys /\ cursor < e.key /\ cursor' = e.key
      /\ gap' = [start |-> cursor, end |-> e.key]
  <2>1. cursor \in Keys \cup {NoKey} /\ cursor \in Nat /\ e.key \in Nat /\ cursor # NoKey /\ e.key > cursor + 1
    BY <1>1, TypeParts DEF Jumps, Keys
  <2> QED BY <2>1 DEF OpenGap
<1>3. Onward
  BY <1>1, <1>2 DEF Onward, Keys
<1>4. /\ feed' \in FeedType /\ feed'.pc = "idle" /\ feed'.stopping = FALSE
      /\ repair' \in RepairType /\ repair'.pc = "ready"
  BY IdleFeedFacts DEF OpenGap, NewRepair, NoRepair, RepairType, RepairPC
<1>5. lane' = lane /\ FeedType' = FeedType /\ Event' = Event /\ Enabled' = Enabled
  BY LaneFacts
<1>6. EmissionType' /\ out' = out
  BY <1>1, SilentTypes DEF NothingEmitted, OpenGap
<1>7. gap' \in Gap /\ gap' # NoGap /\ gap'.start < gap'.end /\ gap'.end = cursor'
  BY <1>1, <1>2 DEF Gap, NoGap, NoKey, Keys
<1>8. TypeOK'
  <2>1. buffer' \in Seq(Event) /\ failures' \in 0..MaxFailures
    BY GapRecoveryAssumption DEF OpenGap
  <2>2. FlowType'
    BY <1>1, <1>4, <1>5, <1>7, <2>1 DEF FlowType, OpenGap, LockUnchanged
  <2> QED BY <1>1, <1>3, <1>6, <2>2, TypesNext
<1>9. LockInv'
  BY <1>1, <1>4, <1>6 DEF ControlInv, LockInv, OpenGap, LockUnchanged
<1>10. GapInv'
  <2>1. gap'.end <= cursor'
    BY <1>7, <1>1, <1>2 DEF Keys
  <2> QED BY <1>4, <1>5, <1>7, <2>1 DEF GapInv
<1>11. StopInv'
  BY <1>4 DEF StopInv, StoppedIsFinal
<1> QED BY <1>3, <1>8, <1>9, <1>10, <1>11 DEF ControlInv

LEMMA ExtendGapControl ==
  ASSUME ControlInv, lane' = lane, seen' \in Seq(Keys), Len(seen') <= SeenSize,
         NEW e \in Event, feed.pc = "idle", Jumps(e), ExtendGap(e)
  PROVE  ControlInv' /\ Onward
<1>1. TypeOK /\ e.key \in Keys /\ gap # NoGap /\ gap \in Gap /\ cursor' = e.key
  BY BusyFacts DEF Event, ExtendGap
<1>2. /\ cursor \in Nat /\ e.key \in Nat /\ e.key > cursor + 1
      /\ gap.start < gap.end /\ gap.end <= cursor /\ gap.start \in Keys /\ gap.end \in Keys
  BY <1>1, TypeParts DEF Jumps, Keys, ControlInv, GapInv, Gap
<1>3. Onward
  BY <1>1, <1>2 DEF Onward
<1> DEFINE g == [gap EXCEPT !.end = IF e.key > @ THEN e.key ELSE @]
<1>4. g.start = gap.start /\ g.end = e.key /\ g \in Gap
  <2>1. gap.end \in Nat /\ e.key > gap.end
    BY <1>2 DEF Keys
  <2> QED BY <1>1, <2>1 DEF Gap
<1>5. HoldBack(e, g)
  BY DEF ExtendGap
<1> HIDE DEF g
<1>6. g.start < g.end /\ g.end <= cursor'
  BY <1>1, <1>2, <1>4 DEF Keys
<1> QED BY <1>1, <1>3, <1>4, <1>5, <1>6, HoldBackControl

LEMMA PassGapControl ==
  ASSUME ControlInv, lane' = lane, seen' \in Seq(Keys), Len(seen') <= SeenSize,
         NEW e \in Event, feed.pc = "idle", Jumps(e), PassGap(e)
  PROVE  ControlInv' /\ Onward
<1>1. TypeOK /\ FlowType /\ e.key \in Keys /\ holder # "feed" /\ "feed" \notin Range(queue)
  BY BusyFacts DEF Event
<1>2. Onward
  BY <1>1, TypeParts DEF Onward, PassGap
<1>3. feed' \in FeedType /\ feed'.pc = "inGap" /\ feed'.stopping = FALSE
  BY DEF PassGap, Feed, FeedType, FeedPC
<1>4. lane' = lane /\ FeedType' = FeedType /\ Event' = Event /\ Item' = Item /\ Enabled' = Enabled
  BY LaneFacts
<1>5. EmissionType' /\ out' = out
  <2> DEFINE m == Marker([start |-> cursor, end |-> e.key], FALSE)
  <2>1. cursor \in Keys
    BY <1>1, TypeParts DEF Jumps
  <2>2. m \in Item /\ m.kind = "gap"
    BY <1>1, <2>1 DEF Marker, Item, Gap
  <2>3. EmitItem(m)
    BY <2>2 DEF PassGap, EmitItem
  <2> HIDE DEF m
  <2>4. sent' \in SentType /\ high' = high /\ repaired' = repaired
    BY <1>1, <2>2, <2>3, EmitMarker
  <2> QED BY <1>1, <1>4, <2>4, TypeParts DEF EmissionType, PassGap, SentType
<1>6. TypeOK'
  <2>1. FlowType'
    BY <1>1, <1>3, <1>4 DEF FlowType, PassGap, GapUnchanged, LockUnchanged
  <2> QED BY <1>1, <1>2, <1>5, <2>1, TypesNext
<1>7. LockInv'
  BY <1>1, <1>3, <1>5 DEF ControlInv, LockInv, PassGap, GapUnchanged, LockUnchanged
<1>8. GapInv'
  BY <1>3, <1>4, <1>5 DEF ControlInv, GapInv, PassGap, GapUnchanged, LockUnchanged
<1>9. StopInv'
  BY <1>3 DEF StopInv, StoppedIsFinal
<1> QED BY <1>2, <1>6, <1>7, <1>8, <1>9 DEF ControlInv

LEMMA IngestControl ==
  ASSUME ControlInv, NEW e \in Event, Ingest(e)
  PROVE  ControlInv' /\ Onward
<1>1. TypeOK /\ lane' = lane /\ feed.pc = "idle"
  BY DEF ControlInv, Ingest
<1>2. seen' \in Seq(Keys) /\ Len(seen') <= SeenSize
  <2>1. seen \in Seq(Keys) /\ Len(seen) <= SeenSize /\ e.key \in Keys
    BY <1>1 DEF TypeOK, Event
  <2>2. seen' = seen \/ seen' = Remember(seen, e.key)
    BY DEF Ingest
  <2> QED BY <2>1, <2>2, RememberFacts
<1>3. CASE ~Jumps(e) /\ Forward(e)
  BY <1>1, <1>2, <1>3, ForwardControl
<1>4. CASE Jumps(e) /\ Repairable(e) /\ OpenGap(e)
  BY <1>1, <1>2, <1>4, OpenGapControl DEF Repairable
<1>5. CASE Jumps(e) /\ Repairable(e) /\ ExtendGap(e)
  BY <1>1, <1>2, <1>5, ExtendGapControl
<1>6. CASE Jumps(e) /\ ~Repairable(e) /\ PassGap(e)
  BY <1>1, <1>2, <1>6, PassGapControl
<1> QED BY <1>3, <1>4, <1>5, <1>6 DEF Ingest

LEMMA AfterGapControl ==
  ASSUME ControlInv, AfterGap
  PROVE  ControlInv' /\ Onward
<1>1. TypeOK /\ lane' = lane /\ seen' = seen /\ feed.pc = "inGap" /\ Forward(feed.event)
  BY DEF ControlInv, AfterGap
<1>2. seen \in Seq(Keys) /\ Len(seen) <= SeenSize /\ feed.event \in Event
  BY <1>1 DEF TypeOK
<1> QED BY <1>1, <1>2, ForwardControl

LEMMA CorrectControl ==
  ASSUME ControlInv, NEW k \in Keys, Correct(k)
  PROVE  ControlInv' /\ Onward
<1>1. TypeOK /\ lane' = lane /\ seen' = seen /\ feed.pc = "idle" /\ cursor' = Advanced(k) /\ ~Enabled
  BY DEF ControlInv, Correct
<1>2. seen \in Seq(Keys) /\ Len(seen) <= SeenSize
  BY <1>1 DEF TypeOK
<1>3. Onward
  BY <1>1, <1>2, AdvancedFacts DEF Onward
<1> DEFINE f == Feed("waiting", Closed(k))
<1>4. f \in FeedType /\ f.pc = "waiting" /\ ~f.stopping
  BY DEF Feed, FeedType, FeedPC, Event, Closed
<1>5. FeedAsksLock(f) /\ gap = NoGap
  BY <1>1, BusyFacts DEF Correct
<1> HIDE DEF f
<1> QED BY <1>1, <1>3, <1>4, <1>5, FeedAsksLockControl

LEMMA GatheredControl ==
  ASSUME ControlInv, Gathered
  PROVE  ControlInv' /\ Onward
<1>1. TypeOK /\ FlowType /\ UNCHANGED <<lane, seen, cursor>> /\ feed.pc = "gathering" /\ ~Alive
  BY BusyFacts DEF ControlInv, GapInv, Gathered
<1>2. Onward
  BY <1>1, TypeParts DEF Onward, TypeOK
<1> DEFINE f == [feed EXCEPT !.pc = "abandoning"]
<1>3. f \in FeedType /\ f.pc = "abandoning"
  BY <1>1 DEF FlowType, FeedType, FeedPC
<1>4. FeedAsksLock(f)
  BY DEF Gathered
<1> HIDE DEF f
<1> QED BY <1>1, <1>2, <1>3, <1>4, FeedAsksLockControl

\* Actions that leave the continuity layer alone.
Aside == lane' = lane /\ seen' = seen /\ cursor' = cursor

LEMMA AsideFacts ==
  ASSUME TypeOK, Aside
  PROVE  /\ Onward /\ Enabled' = Enabled /\ FeedType' = FeedType /\ Event' = Event
         /\ NothingEmitted => EmissionType' /\ out' = out
<1>1. Onward
  BY TypeParts DEF Aside, Onward, TypeOK
<1> QED BY <1>1, LaneFacts, SilentTypes DEF Aside, NothingEmitted

LEMMA StartAttemptControl ==
  ASSUME ControlInv, StartAttempt
  PROVE  ControlInv'
<1>1. TypeOK /\ FlowType /\ Aside /\ repair.pc = "ready" /\ Alive
  BY BusyFacts DEF StartAttempt, Aside, Alive
<1>2. gap # NoGap /\ gap \in Gap /\ ~feed.stopping
      /\ feed.pc \notin {"waiting", "holding", "gathering", "abandoning", "stopped"}
  BY <1>1, BusyFacts
<1>3. /\ Onward /\ Enabled' = Enabled /\ FeedType' = FeedType /\ Event' = Event
      /\ EmissionType' /\ out' = out
  BY <1>1, AsideFacts DEF StartAttempt
<1>4. repair' \in RepairType /\ repair'.pc = "fetching"
  BY <1>2 DEF StartAttempt, RepairType, RepairPC, Gap
<1>5. UNCHANGED <<gap, buffer, failures, failed, feed, holder, queue, cursor>>
  BY DEF StartAttempt, LockUnchanged
<1>6. TypeOK'
  <2>1. FlowType'
    BY <1>1, <1>3, <1>4, <1>5 DEF FlowType
  <2> QED BY <1>1, <1>3, <2>1, TypesNext
<1>7. LockInv'
  BY <1>1, <1>3, <1>4, <1>5 DEF ControlInv, LockInv
<1>8. GapInv'
  BY <1>2, <1>3, <1>4, <1>5 DEF ControlInv, GapInv
<1>9. StopInv'
  BY <1>2, <1>5 DEF StopInv, StoppedIsFinal
<1> QED BY <1>6, <1>7, <1>8, <1>9 DEF ControlInv

LEMMA FetchFailsControl ==
  ASSUME ControlInv, FetchFails
  PROVE  ControlInv'
<1>1. TypeOK /\ FlowType /\ Aside /\ repair.pc = "fetching" /\ Alive
  BY BusyFacts DEF FetchFails, Aside, Alive
<1>2. gap # NoGap /\ gap \in Gap /\ ~feed.stopping
      /\ feed.pc \notin {"waiting", "holding", "gathering", "abandoning", "stopped"}
  BY <1>1, BusyFacts
<1>3. /\ Onward /\ Enabled' = Enabled /\ FeedType' = FeedType /\ Event' = Event
      /\ EmissionType' /\ out' = out
  BY <1>1, AsideFacts DEF FetchFails
<1>4. repair' \in RepairType /\ repair'.pc = "ready" /\ failures' \in 0..MaxFailures
  <2>1. repair' \in RepairType /\ repair'.pc = "ready"
    BY <1>1 DEF FetchFails, RepairType, RepairPC, FlowType
  <2>2. failures' \in 0..MaxFailures
    BY <1>1, GapRecoveryAssumption DEF FetchFails, FailuresAfter, FlowType
  <2> QED BY <2>1, <2>2
<1>5. UNCHANGED <<gap, buffer, failed, feed, holder, queue, cursor>>
  BY DEF FetchFails, LockUnchanged
<1>6. TypeOK'
  <2>1. FlowType'
    BY <1>1, <1>3, <1>4, <1>5 DEF FlowType
  <2> QED BY <1>1, <1>3, <2>1, TypesNext
<1>7. LockInv'
  BY <1>1, <1>3, <1>4, <1>5 DEF ControlInv, LockInv
<1>8. GapInv'
  BY <1>2, <1>3, <1>4, <1>5 DEF ControlInv, GapInv
<1>9. StopInv'
  BY <1>2, <1>5 DEF StopInv, StoppedIsFinal
<1> QED BY <1>6, <1>7, <1>8, <1>9 DEF ControlInv

\* The attempt of a repair ends, with all of its rows or without any.
LEMMA FetchEndsControl ==
  ASSUME ControlInv, FetchSucceeds \/ FetchGivesUp
  PROVE  ControlInv'
<1>1. TypeOK /\ FlowType /\ Aside /\ feed' = feed /\ repair.pc = "fetching"
  BY BusyFacts DEF FetchSucceeds, FetchGivesUp, Aside
<1>2. PICK ok \in BOOLEAN : RepairAsksLock([repair EXCEPT !.pc = "waiting", !.ok = ok])
  BY DEF FetchSucceeds, FetchGivesUp
<1> DEFINE r == [repair EXCEPT !.pc = "waiting", !.ok = ok]
<1>3. r \in RepairType /\ r.pc = "waiting"
  BY <1>1 DEF FlowType, RepairType, RepairPC
<1>4. RepairAsksLock(r) /\ Onward
  BY <1>1, <1>2, AsideFacts
<1> HIDE DEF r
<1> QED BY <1>1, <1>3, <1>4, RepairAsksLockControl

LEMMA AcquireControl ==
  ASSUME ControlInv, Acquire
  PROVE  ControlInv'
<1>1. /\ TypeOK /\ FlowType /\ Aside /\ queue \in Seq({"feed", "repair"}) /\ Distinct(queue)
      /\ holder = "none" /\ queue # <<>> /\ queue' = Tail(queue)
  BY BusyFacts DEF Acquire, Aside
<1>2. Onward
  BY <1>1, AsideFacts
<1>3. /\ queue' \in Seq({"feed", "repair"}) /\ Distinct(queue') /\ Head(queue) \in Range(queue)
      /\ Range(queue') = Range(queue) \ {Head(queue)}
  BY <1>1, QueueFacts
<1>4. /\ "feed" \in Range(queue) <=> feed.pc \in {"waiting", "abandoning"}
      /\ "repair" \in Range(queue) <=> repair.pc = "waiting"
  BY DEF ControlInv, LockInv
<1>5. CASE Head(queue) = "feed" /\ FeedHasLock(feed)
  <2>1. feed \in FeedType /\ feed.pc \in {"waiting", "abandoning"}
    BY <1>1, <1>3, <1>4, <1>5 DEF FlowType
  <2>2. WaitersAre(queue', FALSE, repair.pc = "waiting")
    <3>1. "feed" \notin Range(queue') /\ ("repair" \in Range(queue') <=> repair.pc = "waiting")
      BY <1>3, <1>4, <1>5
    <3> QED BY <1>3, <3>1, Zenon DEF WaitersAre
  <2>3. /\ feed.pc = "waiting" => gap = NoGap /\ ~feed.stopping
        /\ feed.pc = "abandoning" => ~Alive
    BY DEF ControlInv, GapInv, StopInv
  <2> QED BY <1>1, <1>2, <1>5, <2>1, <2>2, <2>3, FeedHasLockControl
<1>6. CASE Head(queue) = "repair" /\ RepairHasLock(repair) /\ UNCHANGED feed
  <2>1. repair \in RepairType /\ repair.pc = "waiting" /\ Alive
    BY <1>1, <1>3, <1>4, <1>6 DEF FlowType, Alive
  <2>2. WaitersAre(queue', feed.pc \in {"waiting", "abandoning"}, FALSE)
    <3>1. "repair" \notin Range(queue') /\ ("feed" \in Range(queue') <=> feed.pc \in {"waiting", "abandoning"})
      BY <1>3, <1>4, <1>6
    <3> QED BY <1>3, <3>1, Zenon DEF WaitersAre
  <2> QED BY <1>1, <1>2, <1>6, <2>1, <2>2, RepairHasLockControl
<1> QED BY <1>5, <1>6 DEF Acquire

LEMMA EmitNextControl ==
  ASSUME ControlInv, EmitNext
  PROVE  ControlInv'
<1>1. /\ TypeOK /\ FlowType /\ Aside /\ out \in Seq(Item) /\ out # <<>> /\ holder # "none"
      /\ EmitAs(holder, out) /\ UNCHANGED <<gap, buffer, failures, failed, repair, feed, queue>>
  BY BusyFacts DEF EmitNext, Aside, GapUnchanged, TypeOK
<1>2. Onward /\ Enabled' = Enabled /\ FeedType' = FeedType /\ Event' = Event
  BY <1>1, AsideFacts
<1>3. EmissionType' /\ holder' = holder
  BY <1>1, EmitTypes DEF Aside
<1>4. TypeOK'
  <2>1. FlowType'
    BY <1>1, <1>2, <1>3 DEF FlowType
  <2> QED BY <1>1, <1>2, <1>3, <2>1, TypesNext
<1>5. LockInv'
  BY <1>1, <1>3 DEF ControlInv, LockInv
<1>6. GapInv'
  BY <1>1, <1>2, <1>3 DEF ControlInv, GapInv, Alive, Aside
<1>7. StopInv'
  BY <1>1, <1>3 DEF ControlInv, StopInv, StoppedIsFinal, LockFree, Alive
<1> QED BY <1>4, <1>5, <1>6, <1>7 DEF ControlInv

LEMMA ReleaseControl ==
  ASSUME ControlInv, Release
  PROVE  ControlInv'
<1>1. /\ TypeOK /\ FlowType /\ Aside /\ holder # "none" /\ out = <<>> /\ holder' = "none"
      /\ UNCHANGED <<gap, buffer, failures, failed, repair, queue>> /\ NothingEmitted
      /\ queue \in Seq({"feed", "repair"}) /\ Distinct(queue)
  BY BusyFacts DEF Release, Aside, GapUnchanged
<1>2. /\ Onward /\ Enabled' = Enabled /\ FeedType' = FeedType /\ Event' = Event
      /\ EmissionType' /\ out' = out
  BY <1>1, AsideFacts
<1>3. CASE holder = "repair" /\ feed' = feed
  <2>1. TypeOK'
    <3>1. FlowType'
      BY <1>1, <1>2, <1>3 DEF FlowType
    <3> QED BY <1>1, <1>2, <3>1, TypesNext
  <2>2. LockInv'
    BY <1>1, <1>2, <1>3 DEF ControlInv, LockInv
  <2>3. GapInv'
    BY <1>1, <1>2, <1>3 DEF ControlInv, GapInv, Alive, Aside
  <2>4. StopInv'
    BY <1>1, <1>2, <1>3 DEF ControlInv, StopInv, StoppedIsFinal, LockFree, Alive
  <2> QED BY <2>1, <2>2, <2>3, <2>4 DEF ControlInv
<1>4. CASE /\ holder = "feed"
           /\ feed' = [feed EXCEPT !.pc = IF feed.stopping THEN "stopped" ELSE "idle"]
  <2>1. /\ feed.pc = "holding" /\ gap = NoGap /\ buffer = <<>> /\ repair.pc = "none"
        /\ "feed" \notin Range(queue) /\ "repair" \notin Range(queue)
    BY <1>4 DEF ControlInv, LockInv, GapInv
  <2>2. queue = <<>>
    BY <1>1, <2>1, NobodyWaits
  <2>3. /\ feed' \in FeedType /\ feed'.stopping = feed.stopping
        /\ feed'.pc = IF feed.stopping THEN "stopped" ELSE "idle"
    BY <1>1, <1>4 DEF FlowType, FeedType, FeedPC
  <2>4. TypeOK'
    <3>1. FlowType'
      BY <1>1, <1>2, <2>3 DEF FlowType
    <3> QED BY <1>1, <1>2, <3>1, TypesNext
  <2>5. LockInv'
    BY <1>1, <1>2, <2>1, <2>3 DEF ControlInv, LockInv
  <2>6. GapInv'
    BY <1>1, <1>2, <2>1, <2>3 DEF ControlInv, GapInv
  <2>7. StopInv'
    BY <1>1, <2>1, <2>2, <2>3 DEF StopInv, StoppedIsFinal, LockFree, Alive
  <2> QED BY <2>4, <2>5, <2>6, <2>7 DEF ControlInv
<1> QED BY <1>1, <1>3, <1>4 DEF Release, FlowType

\* The ingesting task is cancelled.
LEMMA CancelledControl ==
  ASSUME ControlInv, NEW pc \in {"idle", "halted"}, ~feed.stopping, CancelledTo(pc)
  PROVE  ControlInv'
<1>1. /\ TypeOK /\ FlowType /\ Aside /\ queue' = Without("feed")
      /\ UNCHANGED <<gap, buffer, failures, failed, repair, repaired, high, sent>>
      /\ queue \in Seq({"feed", "repair"}) /\ Distinct(queue)
  BY BusyFacts DEF CancelledTo, Aside, GapUnchanged
<1>2. Onward /\ Enabled' = Enabled /\ FeedType' = FeedType /\ Event' = Event
  BY <1>1, AsideFacts
<1>3. /\ queue' \in Seq({"feed", "repair"}) /\ Distinct(queue')
      /\ Range(queue') = Range(queue) \ {"feed"}
  BY <1>1, WithoutFacts
<1>4. feed' \in FeedType /\ feed'.pc = pc /\ feed'.stopping = FALSE
  BY IdleFeedFacts DEF CancelledTo, FeedType, FeedPC
<1>5. /\ holder' \in {"none", "feed", "repair"} /\ holder' # "feed"
      /\ out' = <<>> \/ (out' = out /\ holder' = holder)
      /\ holder' = "repair" => holder = "repair"
  BY <1>1 DEF CancelledTo, FlowType
<1>6. EmissionType'
  <2>1. out' \in Seq(Item) /\ Item' = Item
    <3>1. Item' = Item
      BY <1>1, LaneFacts DEF Aside
    <3>2. out \in Seq(Item) /\ <<>> \in Seq(Item)
      BY <1>1, EmptySeq DEF TypeOK
    <3>3. out' = <<>> \/ out' = out
      BY <1>5
    <3> QED BY <3>1, <3>2, <3>3
  <2> QED BY <1>1, <2>1, TypeParts DEF EmissionType, SentType
<1>7. TypeOK'
  <2>1. FlowType'
    BY <1>1, <1>2, <1>3, <1>4, <1>5 DEF FlowType
  <2> QED BY <1>1, <1>2, <1>6, <2>1, TypesNext
<1>8. LockInv'
  BY <1>1, <1>3, <1>4, <1>5 DEF ControlInv, LockInv
<1>9. GapInv'
  BY <1>1, <1>2, <1>4, <1>5 DEF ControlInv, GapInv, Alive, Aside
<1>10. StopInv'
  BY <1>4 DEF StopInv, StoppedIsFinal
<1> QED BY <1>7, <1>8, <1>9, <1>10 DEF ControlInv

LEMMA StopRecoveryControl ==
  ASSUME ControlInv, StopRecovery
  PROVE  ControlInv'
<1>1. /\ TypeOK /\ FlowType /\ Aside /\ queue' = Without("repair") /\ feed.pc = "halted"
      /\ UNCHANGED <<gap, buffer, failures, failed, holder>> /\ NothingEmitted
      /\ queue \in Seq({"feed", "repair"}) /\ Distinct(queue)
  BY BusyFacts DEF StopRecovery, Aside
<1>2. /\ Onward /\ Enabled' = Enabled /\ FeedType' = FeedType /\ Event' = Event
      /\ EmissionType' /\ out' = out
  BY <1>1, AsideFacts
<1>3. /\ queue' \in Seq({"feed", "repair"}) /\ Distinct(queue')
      /\ Range(queue') = Range(queue) \ {"repair"}
  BY <1>1, WithoutFacts
<1>4. feed' \in FeedType /\ feed'.pc = "gathering" /\ feed'.stopping = TRUE
  BY <1>1 DEF StopRecovery, FlowType, FeedType, FeedPC
<1>5. /\ repair' \in RepairType /\ ~Alive' /\ repair'.pc # "waiting"
      /\ repair.pc = "none" => repair'.pc = "none"
  <2>1. CASE Alive
    BY <1>1, <2>1 DEF StopRecovery, FlowType, RepairType, RepairPC, Alive
  <2>2. CASE ~Alive
    BY <1>1, <2>2 DEF StopRecovery, FlowType, RepairType, RepairPC, Alive
  <2> QED BY <2>1, <2>2
<1>6. TypeOK'
  <2>1. FlowType'
    BY <1>1, <1>2, <1>3, <1>4, <1>5 DEF FlowType
  <2> QED BY <1>1, <1>2, <2>1, TypesNext
<1>7. LockInv'
  BY <1>1, <1>2, <1>3, <1>4, <1>5 DEF ControlInv, LockInv
<1>8. GapInv'
  BY <1>1, <1>2, <1>4, <1>5 DEF ControlInv, GapInv, Aside
<1>9. StopInv'
  BY <1>4, <1>5 DEF StopInv, StoppedIsFinal
<1> QED BY <1>6, <1>7, <1>8, <1>9 DEF ControlInv

LEMMA InitControl ==
  ASSUME Init
  PROVE  ControlInv
<1>1. TypeOK
  <2>1. IdleFeed \in FeedType /\ NoRepair \in RepairType
    BY IdleFeedFacts DEF NoRepair, RepairType, RepairPC
  <2>2. Len(<<>>) = 0 /\ 0 <= SeenSize /\ 0 \in 0..MaxFailures
    <3>1. SeenSize \in Nat /\ MaxFailures \in Nat
      BY GapRecoveryAssumption
    <3> QED BY <3>1
  <2>3. feed \in [pc : FeedPC, event : Event, stopping : BOOLEAN]
        /\ repair \in [pc : RepairPC, target : Keys \cup {NoKey}, ok : BOOLEAN]
    BY <2>1 DEF Init, FeedType, RepairType
  <2>4. /\ {cursor, high} \subseteq Keys \cup {NoKey} /\ gap \in Gap \cup {NoGap}
        /\ failed \in BOOLEAN /\ failures \in 0..MaxFailures /\ lane \in Lanes
        /\ holder \in {"none", "feed", "repair"}
    BY <2>2 DEF Init
  <2>5. /\ seen \in Seq(Keys) /\ Len(seen) <= SeenSize
        /\ repaired \in Seq(Keys) /\ Len(repaired) <= SeenSize
        /\ buffer \in Seq(Event) /\ queue \in Seq({"feed", "repair"}) /\ out \in Seq(Item)
    BY <2>2, EmptySeq DEF Init
  <2>6. sent \in [open : SUBSET Keys, closed : SUBSET Keys, missing : SUBSET Keys,
                  filled : SUBSET Keys, first : Keys \cup {NoKey}]
    BY DEF Init
  <2> QED BY <2>3, <2>4, <2>5, <2>6 DEF TypeOK
<1>2. LockInv
  BY IdleFeedFacts DEF Init, LockInv, Distinct, Range, NoRepair
<1>3. GapInv /\ StopInv
  BY IdleFeedFacts DEF Init, GapInv, StopInv, StoppedIsFinal, NoRepair, Alive
<1> QED BY <1>1, <1>2, <1>3 DEF ControlInv

LEMMA StepControl ==
  ASSUME ControlInv, [Next]_vars
  PROVE  ControlInv'
<1>1. ASSUME NEW e \in Event, Ingest(e) PROVE ControlInv'
  BY <1>1, IngestControl
<1>2. ASSUME NEW k \in 1..Reach[lane], Correct(k) PROVE ControlInv'
  <2>1. lane \in Lanes /\ Reach[lane] \in 1..MaxKey
    BY GapRecoveryAssumption DEF ControlInv, TypeOK
  <2>2. k \in Keys
    BY <2>1, GapRecoveryAssumption DEF Keys
  <2> QED BY <1>2, <2>2, CorrectControl
<1>3. CASE AfterGap
  BY <1>3, AfterGapControl
<1>4. CASE Gathered
  BY <1>4, GatheredControl
<1>5. CASE Repair
  BY <1>5, StartAttemptControl, FetchFailsControl, FetchEndsControl DEF Repair
<1>6. CASE Lock
  BY <1>6, AcquireControl, EmitNextControl, ReleaseControl DEF Lock
<1>7. CASE SwitchFeed \/ StopFeed
  BY <1>7, CancelledControl DEF SwitchFeed, StopFeed
<1>8. CASE StopRecovery
  BY <1>8, StopRecoveryControl
<1>9. CASE UNCHANGED vars
  <2>1. Aside /\ NothingEmitted /\ TypeOK
    BY <1>9 DEF vars, Aside, NothingEmitted, ControlInv
  <2>2. Enabled' = Enabled /\ FeedType' = FeedType /\ Event' = Event /\ Item' = Item
    BY <2>1, LaneFacts DEF Aside
  <2>3. TypeOK'
    <3>1. FlowType'
      BY <1>9, <2>1, <2>2, TypeParts DEF vars, FlowType
    <3> QED BY <2>1, <3>1, AsideFacts, TypesNext
  <2>4. LockInv' /\ GapInv' /\ StopInv'
    BY <1>9, <2>2 DEF vars, ControlInv, LockInv, GapInv, StopInv, StoppedIsFinal, LockFree, Alive
  <2> QED BY <2>3, <2>4 DEF ControlInv
<1> QED BY <1>1, <1>2, <1>3, <1>4, <1>5, <1>6, <1>7, <1>8, <1>9 DEF Next, Stopped

\* The lock, the gap and the tasks always agree: a repair works only while a gap
\* is open, and the end of the ingesting task never leaves the lock taken.
THEOREM PipelineTypes == Spec => []TypeOK
<1>1. Init => ControlInv
  BY InitControl
<1>2. ControlInv /\ [Next]_vars => ControlInv'
  BY StepControl
<1>3. ControlInv => TypeOK
  BY DEF ControlInv
<1> QED BY <1>1, <1>2, <1>3, PTL DEF Spec

\* After StreamPipeline.stop went through nothing is held back, nobody waits and
\* no repair is left.
THEOREM StopEndsEverything == Spec => []StoppedIsFinal
<1>1. Init => ControlInv
  BY InitControl
<1>2. ControlInv /\ [Next]_vars => ControlInv'
  BY StepControl
<1>3. ControlInv => StoppedIsFinal
  BY DEF ControlInv, StopInv
<1> QED BY <1>1, <1>2, <1>3, PTL DEF Spec

-----------------------------------------------------------------------------
(* What a step does to the data: the shapes that the proofs below go by.   *)

\* No feed switch cancels a task that is ingesting into an ordered layer.
Steady == Cancellable \subseteq {"provider"}

Quiet == UNCHANGED <<repaired, high, sent>>
Kept == UNCHANGED <<gap, buffer>>
Delivers(items) == EmitItem(Head(items)) /\ out' = Tail(items)

\* An event comes in that leaves no hole behind the cursor, or whose hole was
\* declared missing, or that corrects what was delivered.
Arriving(e) ==
  /\ cursor' = Advanced(e.key)
  /\ \/ feed.pc = "idle" /\ ~Jumps(e)
     \/ feed.pc = "inGap" /\ e = feed.event
     \/ ~Enabled /\ feed.pc = "idle" /\ (e.key \in sent.closed \/ sent.first = NoKey)

\* Tasks move on, without an event; only a cancellation drops what its task
\* had still to emit.
Still ==
  /\ Quiet /\ Kept /\ cursor' = cursor /\ (Going' => Going)
  /\ feed'.pc \in {"waiting", "inGap"} => feed' = feed
  /\ out' \in {out, <<>>}
  /\ Steady => /\ Going' /\ feed.pc = "waiting" => feed' = feed
               /\ out' = out \/ (gap = NoGap /\ buffer = <<>> /\ ~Going')

Emitting == out # <<>> /\ Delivers(out) /\ Kept /\ cursor' = cursor /\ feed' = feed

\* A live event is delivered at once.
Live(e) ==
  /\ out = <<>> /\ gap = NoGap /\ Kept /\ Delivers(<<EventItem(e, FALSE)>>)
  /\ feed'.pc = "holding"
  /\ Arriving(e) \/ (feed.pc = "waiting" /\ e = feed.event /\ cursor' = cursor)

\* It waits for the lock.
Awaits(e) ==
  /\ Quiet /\ out' = out /\ gap = NoGap /\ Kept
  /\ Arriving(e) /\ feed' = Feed("waiting", e) /\ ~LockFree

\* A repair brought it before.
Known(e) ==
  /\ Quiet /\ out' = out /\ Kept
  /\ Arriving(e) /\ (feed.pc = "inGap" \/ ~Jumps(e))
  /\ feed' = IdleFeed /\ e.key \in Range(repaired)

\* It is held back behind the gap, which it may extend.
HeldBack(e) ==
  /\ Quiet /\ out' = out
  /\ gap # NoGap /\ gap' # NoGap /\ gap'.start = gap.start /\ gap.end <= gap'.end
  /\ buffer' = Append(buffer, e) /\ feed'.pc \in {"idle", "gathering"}
  /\ \/ Arriving(e) /\ gap' = gap
     \/ feed.pc = "idle" /\ cursor < e.key /\ gap'.end = e.key /\ cursor' = e.key

\* It opens a gap.
Opened(e) ==
  /\ Quiet /\ out' = out /\ Enabled
  /\ gap = NoGap /\ gap' = [start |-> cursor, end |-> e.key] /\ buffer' = <<e>>
  /\ cursor \in Keys /\ cursor < e.key /\ cursor' = e.key
  /\ feed.pc = "idle" /\ feed' = IdleFeed

\* It stands behind a hole that nobody fetches.
Passed(e) ==
  /\ cursor \in Keys /\ cursor < e.key /\ cursor' = cursor /\ out' = out /\ Kept
  /\ EmitItem(Marker([start |-> cursor, end |-> e.key], FALSE))
  /\ feed.pc = "idle" /\ feed' = Feed("inGap", e)

\* A gap is decided.
Finished(ok) ==
  /\ out = <<>> /\ gap # NoGap /\ gap' = NoGap /\ buffer' = <<>> /\ cursor' = cursor
  /\ Delivers(FinishItems(IF ok THEN Between(gap) ELSE {}, ok))
  /\ feed' = feed \/ feed'.pc = "holding"
  /\ feed.pc # "waiting" /\ (Going' => Going)

Shape ==
  \/ Still \/ Emitting \/ \E ok \in BOOLEAN : Finished(ok)
  \/ \E e \in Event : Live(e) \/ Awaits(e) \/ Known(e) \/ HeldBack(e) \/ Opened(e) \/ Passed(e)

LEMMA FeedHasLockShape ==
  ASSUME ControlInv, out = <<>>, NEW f \in FeedType, f.pc \in {"waiting", "abandoning"},
         f.pc = "waiting" =>
           /\ gap = NoGap
           /\ Arriving(f.event) \/ (feed.pc = "waiting" /\ f.event = feed.event /\ cursor' = cursor),
         f.pc = "abandoning" =>
           /\ cursor' = cursor /\ f.stopping = feed.stopping
           /\ feed.pc \in {"gathering", "abandoning"},
         FeedHasLock(f)
  PROVE  Shape
<1>1. f.event \in Event
  BY DEF FeedType
<1>2. CASE /\ f.pc = "waiting"
           /\ EmitAs("feed", <<EventItem(f.event, FALSE)>>)
           /\ feed' = [f EXCEPT !.pc = "holding"]
           /\ GapUnchanged
  <2>1. feed'.pc = "holding"
    BY <1>2 DEF FeedType
  <2>2. Live(f.event)
    BY <1>2, <2>1 DEF Live, Kept, GapUnchanged, Delivers, EmitAs
  <2> QED BY <1>1, <2>2 DEF Shape
<1>3. CASE /\ f.pc = "abandoning" /\ gap # NoGap
           /\ Finish("feed", {}, FALSE)
           /\ feed' = [f EXCEPT !.pc = "holding"]
  <2>1. feed'.pc = "holding" /\ feed'.stopping = f.stopping
    BY <1>3 DEF FeedType
  <2>2. Going' => Going
    BY <1>3, <2>1 DEF Going
  <2>3. Delivers(FinishItems(IF FALSE THEN Between(gap) ELSE {}, FALSE))
    BY <1>3 DEF Finish, Delivers, EmitAs
  <2>4. Finished(FALSE)
    BY <1>3, <2>1, <2>2, <2>3 DEF Finished, Finish
  <2> QED BY <2>4 DEF Shape
<1>4. CASE /\ f.pc = "abandoning" /\ gap = NoGap
           /\ holder' = "none"
           /\ feed' = [f EXCEPT !.pc = IF f.stopping THEN "stopped" ELSE "idle"]
           /\ GapUnchanged /\ NothingEmitted
  <2>1. feed'.stopping = f.stopping /\ feed'.pc = IF f.stopping THEN "stopped" ELSE "idle"
    BY <1>4 DEF FeedType
  <2>2. Going' => Going
    BY <1>4, <2>1 DEF Going
  <2>3. Still
    BY <1>4, <2>1, <2>2 DEF Still, Quiet, Kept, GapUnchanged, NothingEmitted
  <2> QED BY <2>3 DEF Shape
<1> QED BY <1>2, <1>3, <1>4 DEF FeedHasLock

LEMMA FeedAsksLockShape ==
  ASSUME ControlInv, NEW f \in FeedType, f.pc \in {"waiting", "abandoning"},
         f.pc = "waiting" => gap = NoGap /\ Arriving(f.event) /\ ~f.stopping,
         f.pc = "abandoning" =>
           cursor' = cursor /\ f.stopping = feed.stopping /\ feed.pc = "gathering",
         FeedAsksLock(f)
  PROVE  Shape
<1>1. CASE LockFree /\ FeedHasLock(f) /\ UNCHANGED queue
  <2>1. out = <<>>
    BY <1>1 DEF LockFree, ControlInv, LockInv
  <2> QED BY <1>1, <2>1, FeedHasLockShape
<1>2. CASE /\ ~LockFree
           /\ queue' = Append(queue, "feed")
           /\ feed' = f
           /\ GapUnchanged /\ NothingEmitted /\ UNCHANGED holder
  <2>1. Quiet /\ Kept /\ out' = out
    BY <1>2 DEF Quiet, Kept, GapUnchanged, NothingEmitted
  <2>2. CASE f.pc = "waiting"
    <3>1. f = Feed("waiting", f.event) /\ f.event \in Event
      BY <2>2 DEF FeedType, Feed
    <3>2. Awaits(f.event)
      BY <1>2, <2>1, <2>2, <3>1 DEF Awaits
    <3> QED BY <3>1, <3>2 DEF Shape
  <2>3. CASE f.pc = "abandoning"
    <3>1. Still
      BY <1>2, <2>1, <2>3 DEF Still, Going
    <3> QED BY <3>1 DEF Shape
  <2> QED BY <2>2, <2>3
<1> QED BY <1>1, <1>2 DEF FeedAsksLock

LEMMA RepairHasLockShape ==
  ASSUME ControlInv, Aside, out = <<>>, feed' = feed, Alive, NEW r \in RepairType,
         RepairHasLock(r)
  PROVE  Shape
<1>1. gap # NoGap /\ feed.pc # "waiting"
  BY BusyFacts
<1>2. CASE /\ r.ok /\ ~TargetCurrent(r)
           /\ repair' = [r EXCEPT !.pc = "ready"]
           /\ holder' = "none"
           /\ UNCHANGED <<gap, buffer, failures, failed>> /\ NothingEmitted
  <2>1. Still
    BY <1>2 DEF Still, Quiet, Kept, NothingEmitted, Aside, Going
  <2> QED BY <2>1 DEF Shape
<1>3. CASE /\ ~r.ok \/ TargetCurrent(r)
           /\ Finish("repair", IF r.ok THEN Rows(r) ELSE {}, r.ok)
  <2>1. (IF r.ok THEN Rows(r) ELSE {}) = (IF r.ok THEN Between(gap) ELSE {})
    BY <1>3 DEF TargetCurrent, Rows, Between
  <2>2. r.ok \in BOOLEAN
    BY DEF RepairType
  <2>3. Delivers(FinishItems(IF r.ok THEN Between(gap) ELSE {}, r.ok))
    <3>1. Finish("repair", IF r.ok THEN Between(gap) ELSE {}, r.ok)
      BY <1>3, <2>1, Zenon
    <3> QED BY <3>1 DEF Finish, Delivers, EmitAs
  <2>4. gap' = NoGap /\ buffer' = <<>> /\ cursor' = cursor /\ (Going' => Going)
    BY <1>3 DEF Finish, Aside, Going
  <2>5. Finished(r.ok)
    BY <1>1, <2>3, <2>4, Zenon DEF Finished
  <2> QED BY <2>2, <2>5, Zenon DEF Shape
<1> QED BY <1>2, <1>3 DEF RepairHasLock

LEMMA RepairAsksLockShape ==
  ASSUME ControlInv, Aside, feed' = feed, Alive, NEW r \in RepairType, RepairAsksLock(r)
  PROVE  Shape
<1>1. CASE LockFree /\ RepairHasLock(r) /\ UNCHANGED queue
  <2>1. out = <<>>
    BY <1>1 DEF LockFree, ControlInv, LockInv
  <2> QED BY <1>1, <2>1, RepairHasLockShape
<1>2. CASE /\ ~LockFree
           /\ queue' = Append(queue, "repair")
           /\ repair' = r
           /\ UNCHANGED <<gap, buffer, failures, failed, holder>> /\ NothingEmitted
  <2>1. Still
    BY <1>2 DEF Still, Quiet, Kept, NothingEmitted, Aside, Going
  <2> QED BY <2>1 DEF Shape
<1> QED BY <1>1, <1>2 DEF RepairAsksLock

LEMMA ForwardShape ==
  ASSUME ControlInv, NEW e \in Event,
         (feed.pc = "idle" /\ ~Jumps(e)) \/ (feed.pc = "inGap" /\ e = feed.event),
         Forward(e)
  PROVE  Shape
<1>1. Arriving(e) /\ cursor' = Advanced(e.key) /\ e.key \in Keys
  BY DEF Forward, Event, Arriving
<1>2. CASE /\ AlreadyRepaired(e)
           /\ feed' = IdleFeed
           /\ GapUnchanged /\ NothingEmitted /\ LockUnchanged
  <2>1. Known(e)
    BY <1>1, <1>2 DEF Known, Quiet, Kept, GapUnchanged, NothingEmitted, AlreadyRepaired
  <2> QED BY <2>1 DEF Shape
<1>3. CASE ~AlreadyRepaired(e) /\ gap # NoGap /\ HoldBack(e, gap)
  <2>1. feed'.pc \in {"idle", "gathering"}
    BY <1>3, IdleFeedFacts DEF HoldBack, Feed
  <2>2. gap' = gap /\ gap.end <= gap'.end
    <3>1. gap.end \in Keys
      BY <1>3, BusyFacts DEF Gap
    <3> QED BY <1>3, <3>1 DEF HoldBack, Keys
  <2>3. HeldBack(e)
    BY <1>1, <1>3, <2>1, <2>2 DEF HeldBack, HoldBack, Quiet, NothingEmitted
  <2> QED BY <2>3 DEF Shape
<1>4. CASE ~AlreadyRepaired(e) /\ gap = NoGap /\ FeedAsksLock(Feed("waiting", e))
  <2> DEFINE f == Feed("waiting", e)
  <2>1. f \in FeedType /\ f.pc = "waiting" /\ ~f.stopping /\ f.event = e
    BY DEF Feed, FeedType, FeedPC
  <2>2. FeedAsksLock(f)
    BY <1>4
  <2> HIDE DEF f
  <2> QED BY <1>1, <1>4, <2>1, <2>2, FeedAsksLockShape
<1> QED BY <1>2, <1>3, <1>4 DEF Forward

LEMMA IngestShape ==
  ASSUME ControlInv, NEW e \in Event, Ingest(e)
  PROVE  Shape
<1>1. TypeOK /\ feed.pc = "idle" /\ e.key \in Keys /\ cursor \in Nat /\ e.key \in Nat
  BY TypeParts DEF ControlInv, Ingest, Event, Keys
<1>2. CASE ~Jumps(e) /\ Forward(e)
  BY <1>1, <1>2, ForwardShape
<1>3. ASSUME Jumps(e) PROVE cursor \in Keys /\ cursor < e.key
  BY <1>1, <1>3, TypeParts DEF Jumps
<1>4. CASE Jumps(e) /\ Repairable(e) /\ OpenGap(e)
  <2>1. Opened(e)
    BY <1>1, <1>3, <1>4 DEF Opened, OpenGap, Repairable, Quiet, NothingEmitted
  <2> QED BY <2>1 DEF Shape
<1>5. CASE Jumps(e) /\ Repairable(e) /\ ExtendGap(e)
  <2> DEFINE g == [gap EXCEPT !.end = IF e.key > @ THEN e.key ELSE @]
  <2>1. gap # NoGap /\ gap \in Gap /\ gap.end <= cursor /\ gap.end \in Nat /\ HoldBack(e, g) /\ cursor' = e.key
    BY <1>1, <1>5, BusyFacts DEF ControlInv, GapInv, ExtendGap, Gap, Keys
  <2>2. g.start = gap.start /\ g.end = e.key /\ g # NoGap
    BY <1>1, <1>3, <1>5, <2>1 DEF Gap, Keys, NoGap, NoKey
  <2>3. gap' = g /\ buffer' = Append(buffer, e) /\ Quiet /\ out' = out
    BY <2>1 DEF HoldBack, Quiet, NothingEmitted
  <2>4. feed'.pc \in {"idle", "gathering"}
    BY <2>1, IdleFeedFacts DEF HoldBack, Feed
  <2> HIDE DEF g
  <2>5. HeldBack(e)
    <3>1. gap.end <= e.key /\ cursor < e.key
      BY <1>1, <1>3, <1>5, <2>1
    <3> QED BY <1>1, <2>1, <2>2, <2>3, <2>4, <3>1 DEF HeldBack
  <2> QED BY <2>5 DEF Shape
<1>6. CASE Jumps(e) /\ ~Repairable(e) /\ PassGap(e)
  <2>1. EmitItem(Marker([start |-> cursor, end |-> e.key], FALSE))
    BY <1>6 DEF PassGap, EmitItem, Marker
  <2>2. Passed(e)
    BY <1>1, <1>3, <1>6, <2>1 DEF Passed, PassGap, Kept, GapUnchanged
  <2> QED BY <2>2 DEF Shape
<1> QED BY <1>2, <1>4, <1>5, <1>6 DEF Ingest

LEMMA CorrectShape ==
  ASSUME ControlInv, NEW k \in Keys, Correct(k)
  PROVE  Shape
<1> DEFINE f == Feed("waiting", Closed(k))
<1>1. f \in FeedType /\ f.pc = "waiting" /\ ~f.stopping /\ f.event.key = k /\ f.event = Closed(k)
  BY DEF Feed, FeedType, FeedPC, Event, Closed
<1>2. gap = NoGap /\ FeedAsksLock(f) /\ feed.pc = "idle" /\ cursor' = Advanced(k) /\ ~Enabled
  BY BusyFacts DEF Correct
<1>3. Arriving(f.event)
  BY <1>1, <1>2 DEF Correct, Arriving
<1> HIDE DEF f
<1> QED BY <1>1, <1>2, <1>3, FeedAsksLockShape

LEMMA GatheredShape ==
  ASSUME ControlInv, Gathered
  PROVE  Shape
<1> DEFINE f == [feed EXCEPT !.pc = "abandoning"]
<1>1. FlowType /\ feed.pc = "gathering" /\ cursor' = cursor /\ FeedAsksLock(f)
  BY BusyFacts DEF Gathered
<1>2. f \in FeedType /\ f.pc = "abandoning" /\ f.stopping = feed.stopping
  BY <1>1 DEF FlowType, FeedType, FeedPC
<1> HIDE DEF f
<1> QED BY <1>1, <1>2, FeedAsksLockShape

LEMMA RepairShape ==
  ASSUME ControlInv, Repair
  PROVE  Shape
<1>1. CASE StartAttempt \/ FetchFails
  <2>1. Still
    BY <1>1 DEF StartAttempt, FetchFails, Still, Quiet, Kept, NothingEmitted, Going
  <2> QED BY <2>1 DEF Shape
<1>2. CASE FetchSucceeds \/ FetchGivesUp
  <2>1. FlowType /\ Aside /\ feed' = feed /\ Alive
    BY <1>2, BusyFacts DEF FetchSucceeds, FetchGivesUp, Aside, Alive
  <2>2. PICK ok \in BOOLEAN : RepairAsksLock([repair EXCEPT !.pc = "waiting", !.ok = ok])
    BY <1>2 DEF FetchSucceeds, FetchGivesUp
  <2>3. [repair EXCEPT !.pc = "waiting", !.ok = ok] \in RepairType
    BY <2>1 DEF FlowType, RepairType, RepairPC
  <2> QED BY <2>1, <2>2, <2>3, RepairAsksLockShape
<1> QED BY <1>1, <1>2 DEF Repair

LEMMA LockShape ==
  ASSUME ControlInv, Lock
  PROVE  Shape
<1>1. CASE Acquire
  <2>1. /\ FlowType /\ Aside /\ out = <<>> /\ Head(queue) \in Range(queue)
        /\ queue \in Seq({"feed", "repair"}) /\ Distinct(queue)
    BY <1>1, BusyFacts, QueueFacts DEF Acquire, Aside, ControlInv, LockInv
  <2>2. CASE Head(queue) = "feed" /\ FeedHasLock(feed)
    <3>1. feed.pc \in {"waiting", "abandoning"} /\ feed \in FeedType
      BY <2>1, <2>2 DEF ControlInv, LockInv, FlowType
    <3>2. feed.pc = "waiting" => gap = NoGap
      BY DEF ControlInv, GapInv
    <3> QED BY <2>1, <2>2, <3>1, <3>2, FeedHasLockShape DEF Aside
  <2>3. CASE Head(queue) = "repair" /\ RepairHasLock(repair) /\ UNCHANGED feed
    <3>1. Alive /\ repair \in RepairType
      BY <2>1, <2>3 DEF ControlInv, LockInv, FlowType, Alive
    <3> QED BY <2>1, <2>3, <3>1, RepairHasLockShape
  <2> QED BY <1>1, <2>2, <2>3 DEF Acquire
<1>2. CASE EmitNext
  <2>1. Emitting
    BY <1>2 DEF EmitNext, Emitting, EmitAs, Delivers, Kept, GapUnchanged
  <2> QED BY <2>1 DEF Shape
<1>3. CASE Release
  <2>1. FlowType /\ (holder # "repair" => feed.pc = "holding")
    BY <1>3, BusyFacts DEF Release, ControlInv, LockInv, FlowType
  <2>2. /\ feed'.pc \in {"waiting", "inGap"} => feed' = feed
        /\ Going' => Going
        /\ feed.pc = "waiting" => feed' = feed
    <3>1. CASE holder = "repair"
      BY <1>3, <3>1 DEF Release, Going
    <3>2. CASE holder # "repair"
      <4>1. feed' = [feed EXCEPT !.pc = IF feed.stopping THEN "stopped" ELSE "idle"]
        BY <1>3, <3>2 DEF Release
      <4>2. feed'.stopping = feed.stopping /\ feed'.pc = IF feed.stopping THEN "stopped" ELSE "idle"
        BY <2>1, <4>1 DEF FlowType, FeedType
      <4> QED BY <2>1, <3>2, <4>2 DEF Going
    <3> QED BY <3>1, <3>2
  <2>3. Still
    BY <1>3, <2>2 DEF Release, Still, Quiet, Kept, GapUnchanged, NothingEmitted
  <2> QED BY <2>3 DEF Shape
<1> QED BY <1>1, <1>2, <1>3 DEF Lock

LEMMA CancelShape ==
  ASSUME ControlInv, SwitchFeed \/ StopFeed
  PROVE  Shape
<1>1. PICK pc \in {"idle", "halted"} :
        CancelledTo(pc) /\ (pc = "idle" => lane \in Cancellable) /\ ~feed.stopping
        /\ feed.pc \notin {"halted", "stopped"}
  BY DEF SwitchFeed, StopFeed
<1>2. feed'.pc = pc /\ feed'.stopping = FALSE
  BY <1>1, IdleFeedFacts DEF CancelledTo, FeedType, FeedPC
<1>3. /\ Quiet /\ Kept /\ cursor' = cursor
      /\ out' = out \/ (out' = <<>> /\ holder = "feed")
  BY <1>1 DEF CancelledTo, Quiet, Kept, GapUnchanged
<1>4. Going
  BY <1>1 DEF Going
<1>5. Steady => /\ Going' /\ feed.pc = "waiting" => feed' = feed
                /\ out' = out \/ (gap = NoGap /\ buffer = <<>> /\ ~Going')
  <2>1. CASE pc = "idle"
    <3>1. Steady => ~Enabled
      BY <1>1, <2>1 DEF Steady, Enabled
    <3>2. ~Enabled => feed.pc # "waiting" /\ out = <<>>
      BY DEF ControlInv, GapInv
    <3> QED BY <1>3, <3>1, <3>2
  <2>2. CASE pc = "halted"
    <3>1. ~Going'
      BY <1>2, <2>2 DEF Going
    <3>2. holder = "feed" => gap = NoGap /\ buffer = <<>>
      BY DEF ControlInv, LockInv, GapInv
    <3> QED BY <1>3, <3>1, <3>2
  <2> QED BY <2>1, <2>2
<1>6. Still
  BY <1>2, <1>3, <1>4, <1>5 DEF Still
<1> QED BY <1>6 DEF Shape

LEMMA StepShape ==
  ASSUME ControlInv, [Next]_vars
  PROVE  Onward /\ Shape
<1>1. TypeOK
  BY DEF ControlInv
<1>2. ASSUME NEW e \in Event, Ingest(e) PROVE Onward /\ Shape
  BY <1>2, IngestControl, IngestShape
<1>3. ASSUME NEW k \in 1..Reach[lane], Correct(k) PROVE Onward /\ Shape
  <2>1. lane \in Lanes /\ Reach[lane] \in 1..MaxKey
    BY GapRecoveryAssumption DEF ControlInv, TypeOK
  <2>2. k \in Keys
    BY <2>1, GapRecoveryAssumption DEF Keys
  <2> QED BY <1>3, <2>2, CorrectControl, CorrectShape
<1>4. CASE AfterGap
  <2>1. feed.event \in Event /\ feed.pc = "inGap" /\ Forward(feed.event)
    BY <1>1, <1>4 DEF AfterGap, TypeOK
  <2>2. Shape
    BY <2>1, ForwardShape
  <2> QED BY <1>4, <2>2, AfterGapControl
<1>5. CASE Gathered
  BY <1>5, GatheredControl, GatheredShape
<1>6. CASE Repair
  <2>1. Aside
    BY <1>6 DEF Repair, StartAttempt, FetchSucceeds, FetchFails, FetchGivesUp, Aside
  <2> QED BY <1>1, <1>6, <2>1, AsideFacts, RepairShape
<1>7. CASE Lock
  <2>1. Aside
    BY <1>7 DEF Lock, Acquire, EmitNext, Release, Aside
  <2> QED BY <1>1, <1>7, <2>1, AsideFacts, LockShape
<1>8. CASE SwitchFeed \/ StopFeed
  <2>1. Aside
    BY <1>8 DEF SwitchFeed, StopFeed, CancelledTo, Aside
  <2> QED BY <1>1, <1>8, <2>1, AsideFacts, CancelShape
<1>9. CASE StopRecovery
  <2>1. Aside
    BY <1>9 DEF StopRecovery, Aside
  <2>2. feed'.stopping = TRUE /\ feed'.pc = "gathering" /\ feed.pc = "halted"
    BY <1>1, <1>9, TypeParts DEF StopRecovery, FlowType, FeedType
  <2>3. Still
    BY <1>9, <2>2 DEF StopRecovery, Still, Quiet, Kept, NothingEmitted, Going
  <2>4. Shape
    BY <2>3 DEF Shape
  <2> QED BY <1>1, <2>1, <2>4, AsideFacts
<1>10. CASE UNCHANGED vars
  <2>1. Aside /\ Still
    BY <1>10 DEF vars, Aside, Still, Quiet, Kept, Going
  <2>2. Shape
    BY <2>1 DEF Shape
  <2> QED BY <1>1, <2>1, <2>2, AsideFacts
<1> QED BY <1>2, <1>3, <1>4, <1>5, <1>6, <1>7, <1>8, <1>9, <1>10 DEF Next, Stopped

-----------------------------------------------------------------------------
(* The first event.                                                        *)

LEMMA NothingWaits ==
  ASSUME ControlInv, LockFree, NEW t
  PROVE  /\ Without(t) = <<>>
         /\ holder = "none" /\ queue = <<>> /\ out = <<>>
         /\ feed.pc \notin {"waiting", "abandoning", "holding"} /\ repair.pc # "waiting"
<1>1. holder = "none" /\ queue = <<>> /\ out = <<>> /\ Range(queue) = {}
  BY DEF LockFree, ControlInv, LockInv, Range
<1>2. feed.pc \notin {"waiting", "abandoning", "holding"} /\ repair.pc # "waiting"
  BY <1>1 DEF ControlInv, LockInv
<1>3. Without(t) = <<>>
  BY <1>1 DEF Without, RemoveFirst
<1> QED BY <1>1, <1>2, <1>3

LEMMA FreshShape ==
  ASSUME ControlInv, FreshInv, Onward, Shape
  PROVE  /\ cursor' = NoKey => cursor = NoKey /\ Still
         /\ feed'.pc = "inGap" => cursor' # NoKey
<1>1. /\ cursor \in Keys \cup {NoKey} /\ cursor' \in Keys \cup {NoKey} /\ cursor <= cursor'
      /\ NoKey = 0 /\ \A k \in Keys : k \in Nat /\ k > 0
  BY TypeParts, ItemFacts DEF Onward, ControlInv
<1>2. cursor' = NoKey => cursor = NoKey
  BY <1>1
<1>3. \A e \in Event : Advanced(e.key) # NoKey
  BY <1>1, AdvancedFacts DEF ControlInv, Event
<1>4. cursor = NoKey => gap = NoGap /\ LockFree /\ out = <<>> /\ feed.pc # "waiting"
  BY NothingWaits DEF FreshInv
<1>5. CASE Still
  BY <1>2, <1>5 DEF Still, FreshInv
<1>6. CASE Emitting
  BY <1>2, <1>4, <1>6 DEF Emitting, FreshInv
<1>7. ASSUME NEW ok \in BOOLEAN, Finished(ok)
      PROVE  cursor' # NoKey /\ (feed'.pc = "inGap" => cursor' # NoKey)
  BY <1>2, <1>4, <1>7 DEF Finished
<1>8. ASSUME NEW e \in Event, Live(e) PROVE cursor' # NoKey
  BY <1>2, <1>3, <1>4, <1>8 DEF Live, Arriving
<1>9. ASSUME NEW e \in Event, Awaits(e) \/ Known(e) PROVE cursor' # NoKey
  BY <1>3, <1>9 DEF Awaits, Known, Arriving
<1>10. ASSUME NEW e \in Event, HeldBack(e) \/ Opened(e) \/ Passed(e) PROVE cursor' # NoKey
  <2>1. NoKey \notin Keys
    BY <1>1
  <2> QED BY <1>2, <1>4, <1>10, <2>1 DEF HeldBack, Opened, Passed
<1> QED BY <1>5, <1>6, <1>7, <1>8, <1>9, <1>10 DEF Shape

LEMMA StepFresh ==
  ASSUME ControlInv, FreshInv, [Next]_vars
  PROVE  FreshInv'
<1>1. Onward /\ Shape
  BY StepShape
<1>2. /\ cursor' = NoKey => cursor = NoKey /\ Still
      /\ feed'.pc = "inGap" => cursor' # NoKey
  BY <1>1, FreshShape
<1> SUFFICES ASSUME cursor' = NoKey
             PROVE  LockFree' /\ sent'.first = NoKey /\ high' = NoKey /\ repaired' = <<>> /\ gap' = NoGap
  BY <1>2 DEF FreshInv
<1>3. cursor = NoKey /\ Still
  BY <1>2
<1>4. sent'.first = NoKey /\ high' = NoKey /\ repaired' = <<>> /\ gap' = NoGap /\ gap = NoGap
  BY <1>3 DEF Still, Quiet, Kept, FreshInv
<1>5. LockFree /\ repair.pc = "none"
  BY <1>3, <1>4 DEF FreshInv, ControlInv, GapInv
<1>6. /\ holder = "none" /\ queue = <<>> /\ out = <<>>
      /\ \A t : Without(t) = <<>>
  BY <1>5, NothingWaits
<1>7. \A k \in Keys : cursor' # Advanced(k)
  <2>1. \A k \in Keys : k # NoKey
    BY ItemFacts
  <2> QED BY <1>3, <2>1 DEF Advanced
<1>8. LockFree'
  <2>1. ASSUME NEW e \in Event, Ingest(e) PROVE FALSE
    <3>1. e.key \in Keys
      BY DEF Event
    <3> QED BY <1>3, <1>7, <2>1, <3>1 DEF Ingest, Forward, Jumps
  <2>2. ASSUME NEW k \in 1..Reach[lane], Correct(k) PROVE FALSE
    <3>1. lane \in Lanes /\ Reach[lane] \in 1..MaxKey
      BY GapRecoveryAssumption DEF ControlInv, TypeOK
    <3>2. k \in Keys
      BY <3>1, GapRecoveryAssumption DEF Keys
    <3> QED BY <1>7, <2>2, <3>2 DEF Correct
  <2>3. CASE AfterGap
    <3>1. feed.event.key \in Keys
      BY DEF ControlInv, TypeOK, Event
    <3> QED BY <1>7, <2>3, <3>1 DEF AfterGap, Forward
  <2>4. CASE Gathered
    <3> DEFINE f == [feed EXCEPT !.pc = "abandoning"]
    <3>1. f.pc = "abandoning"
      BY TypeParts DEF ControlInv, FlowType, FeedType
    <3>2. FeedHasLock(f) /\ UNCHANGED queue
      BY <1>5, <2>4 DEF Gathered, FeedAsksLock
    <3> HIDE DEF f
    <3> QED BY <1>4, <1>6, <3>1, <3>2 DEF FeedHasLock, LockFree
  <2>5. CASE Repair \/ Lock
    BY <1>5, <1>6, <2>5
       DEF Repair, StartAttempt, FetchSucceeds, FetchFails, FetchGivesUp, Lock, Acquire, EmitNext, Release
  <2>6. CASE SwitchFeed \/ StopFeed
    BY <1>6, <2>6 DEF SwitchFeed, StopFeed, CancelledTo, LockFree
  <2>7. CASE StopRecovery
    BY <1>6, <2>7 DEF StopRecovery, LockFree
  <2>8. CASE UNCHANGED vars
    BY <1>5, <2>8 DEF vars, LockFree
  <2> QED BY <2>1, <2>2, <2>3, <2>4, <2>5, <2>6, <2>7, <2>8 DEF Next, Stopped
<1> QED BY <1>4, <1>8

-----------------------------------------------------------------------------
(* Delivery goes forward.                                                  *)

\* An emitted item leaves the high-water mark on the newest delivered key.
LEMMA EmitHigh ==
  ASSUME TypeOK, HighInv, NEW item \in Item, EmitItem(item), lane' = lane
  PROVE  /\ HighInv' /\ Delivered \subseteq Delivered'
         /\ \A k \in Delivered' \ Delivered : \A d \in Delivered : Enabled => d < k
<1>1. /\ NoKey = 0 /\ \A k \in Keys : k \in Nat /\ k > 0
      /\ high \in Nat /\ \A d \in Delivered : d \in Nat
      /\ Enabled' = Enabled /\ Klines' = Klines
  BY ItemFacts, MarkFacts, LaneFacts
<1>2. CASE item.kind # "event"
  <2>1. high' = high /\ Delivered' = Delivered
    BY <1>2, EmitMarker
  <2> QED BY <1>1, <2>1 DEF HighInv
<1>3. CASE item.kind = "event"
  <2> DEFINE j == item.event.key
  <2>1. j \in Keys
    BY <1>3, ItemFacts
  <2>2. CASE Replay(item.event) /\ sent' = sent /\ high' = high
    <3>1. Delivered' = Delivered
      BY <2>2 DEF Delivered
    <3> QED BY <1>1, <2>2, <3>1 DEF HighInv
  <2>3. CASE /\ ~Replay(item.event) /\ Delivered' = Delivered \cup {j}
             /\ high' = (IF Enabled THEN j ELSE high)
    <3> SUFFICES ASSUME Enabled
                 PROVE  /\ high' # NoKey => high' \in Delivered'
                        /\ \A d \in Delivered' : d <= high'
                        /\ \A k \in Delivered' \ Delivered : \A d \in Delivered : d < k
      BY <1>1, <2>3 DEF HighInv
    <3>1. high' = j /\ high <= j
      BY <1>1, <2>1, <2>3 DEF Replay
    <3>2. \A d \in Delivered : d <= high
      BY DEF HighInv
    <3>3. ASSUME NEW k \in Delivered' \ Delivered, NEW d \in Delivered PROVE d < k
      <4>1. k = j /\ d # j /\ d <= high /\ d \in Nat /\ j \in Nat
        BY <1>1, <2>1, <2>3, <3>2, <3>3
      <4> HIDE DEF j
      <4> QED BY <1>1, <3>1, <4>1
    <3> QED BY <1>1, <2>1, <2>3, <3>1, <3>2, <3>3
  <2> QED BY <1>3, <2>2, <2>3, EmitEvent
<1> QED BY <1>2, <1>3

\* The items that FinishItems makes of the whole gap or of nothing.
LEMMA FinishedItems ==
  ASSUME TypeOK, gap \in Gap, NEW ok \in BOOLEAN
  PROVE  LET items == FinishItems(IF ok THEN Between(gap) ELSE {}, ok)
         IN  items \in Seq(Item) /\ items # <<>>
<1>1. CASE ok
  BY <1>1, FilledItems
<1>2. CASE ~ok
  BY <1>2, MissingItems
<1> QED BY <1>1, <1>2

LEMMA ShapeEmits ==
  ASSUME ControlInv, Shape
  PROVE  Quiet \/ \E item \in Item : EmitItem(item)
<1>1. TypeOK /\ (gap # NoGap => gap \in Gap)
  BY BusyFacts
<1>2. \A items \in Seq(Item) : items # <<>> => Head(items) \in Item
  BY TailFacts
<1>3. CASE Still
  BY <1>3 DEF Still
<1>4. CASE Emitting
  <2>1. out \in Seq(Item)
    BY <1>1 DEF TypeOK
  <2> QED BY <1>2, <1>4, <2>1 DEF Emitting, Delivers
<1>5. ASSUME NEW ok \in BOOLEAN, Finished(ok) PROVE \E item \in Item : EmitItem(item)
  <2> DEFINE items == FinishItems(IF ok THEN Between(gap) ELSE {}, ok)
  <2>1. items \in Seq(Item) /\ items # <<>>
    <3>1. gap \in Gap
      BY <1>1, <1>5 DEF Finished
    <3> QED BY <1>1, <3>1, FinishedItems
  <2>2. EmitItem(Head(items))
    BY <1>5 DEF Finished, Delivers
  <2> QED BY <1>2, <2>1, <2>2
<1>6. ASSUME NEW e \in Event, Live(e) PROVE \E item \in Item : EmitItem(item)
  <2> DEFINE items == <<EventItem(e, FALSE)>>
  <2>1. items \in Seq(Item) /\ items # <<>>
    BY DEF EventItem, Item
  <2>2. EmitItem(Head(items))
    BY <1>6 DEF Live, Delivers
  <2> QED BY <1>2, <2>1, <2>2
<1>7. ASSUME NEW e \in Event, Passed(e) PROVE \E item \in Item : EmitItem(item)
  <2>1. Marker([start |-> cursor, end |-> e.key], FALSE) \in Item
    BY <1>7 DEF Passed, Marker, Item, Gap, Event
  <2> QED BY <1>7, <2>1 DEF Passed
<1>8. ASSUME NEW e \in Event, Awaits(e) \/ Known(e) \/ HeldBack(e) \/ Opened(e) PROVE Quiet
  BY <1>8 DEF Awaits, Known, HeldBack, Opened
<1> QED BY <1>3, <1>4, <1>5, <1>6, <1>7, <1>8 DEF Shape

LEMMA StepHigh ==
  ASSUME ControlInv, HighInv, [Next]_vars
  PROVE  /\ HighInv'
         /\ \A k \in Delivered' \ Delivered : \A d \in Delivered : Enabled => d < k
<1>1. lane' = lane /\ Shape /\ TypeOK
  BY StepShape DEF Onward, ControlInv
<1>2. CASE Quiet
  BY <1>1, <1>2 DEF Quiet, HighInv, Delivered, Enabled
<1>3. ASSUME NEW item \in Item, EmitItem(item)
      PROVE  /\ HighInv'
             /\ \A k \in Delivered' \ Delivered : \A d \in Delivered : Enabled => d < k
  BY <1>1, <1>3, EmitHigh
<1> QED BY <1>1, <1>2, <1>3, ShapeEmits

LEMMA InitHigh ==
  ASSUME Init
  PROVE  FreshInv /\ HighInv
BY IdleFeedFacts DEF Init, FreshInv, HighInv, Delivered, LockFree, NoKey

\* What an enabled lane delivers is newer than all it delivered before: rows
\* that REST brings late, replays of the stream and merged buffers included.
THEOREM DeliveryGoesForward == Spec => NeverBackwards
<1>1. Init => ControlInv /\ HighInv
  BY InitControl, InitHigh
<1>2. ControlInv /\ HighInv /\ [Next]_vars => (ControlInv /\ HighInv)'
  BY StepControl, StepHigh
<1>3. ControlInv /\ HighInv /\ [Next]_vars =>
        [\A k \in Delivered' \ Delivered : \A d \in Delivered : Enabled => d < k]_vars
  BY StepHigh
<1> QED BY <1>1, <1>2, <1>3, PTL DEF Spec, NeverBackwards

-----------------------------------------------------------------------------
(* A marker that says filled is true.                                      *)

LEMMA EventsUpToGrows ==
  ASSUME NEW items \in Seq(Item), NEW c \in Nat, NEW d \in Nat, c <= d, EventsUpTo(items, c)
  PROVE  EventsUpTo(items, d)
<1> SUFFICES ASSUME NEW i \in DOMAIN items, items[i].kind = "event" PROVE items[i].event.key <= d
  BY DEF EventsUpTo
<1>1. items[i] \in Item
  BY ElementOfSeq, LenProperties
<1>2. items[i].event.key \in Nat /\ items[i].event.key <= c
  BY <1>1, ItemFacts DEF EventsUpTo
<1> QED BY <1>2

LEMMA NumberFacts ==
  ASSUME ControlInv, Onward
  PROVE  /\ TypeOK /\ cursor \in Nat /\ cursor' \in Nat /\ cursor <= cursor' /\ high \in Nat
         /\ lane' = lane /\ Enabled' = Enabled /\ out \in Seq(Item) /\ buffer \in Seq(Event)
         /\ gap # NoGap => /\ gap \in Gap /\ Enabled /\ gap.start \in Nat /\ gap.end \in Nat
                           /\ gap.start < gap.end /\ gap.end <= cursor
         /\ \A i \in DOMAIN buffer : buffer[i] \in Event /\ buffer[i].key \in Nat
<1>1. TypeOK /\ \A k \in Keys : k \in Nat
  BY ItemFacts DEF ControlInv
<1>2. buffer \in Seq(Event) /\ \A i \in DOMAIN buffer : buffer[i] \in Event
  BY <1>1, ElementOfSeq, LenProperties DEF TypeOK
<1>3. gap # NoGap => /\ gap \in Gap /\ Enabled /\ gap.start < gap.end /\ gap.end <= cursor
  BY BusyFacts DEF ControlInv, GapInv
<1>4. cursor \in Nat /\ cursor' \in Nat /\ high \in Nat
  BY <1>1, MarkFacts, ItemFacts DEF Onward
<1> QED BY <1>1, <1>2, <1>3, <1>4, LaneFacts DEF Onward, TypeOK, Gap, Event

\* FillInv of the next state, from what a step did.
LEMMA QuietFill ==
  ASSUME ControlInv, Onward, FillInv, Quiet, out' = out \/ out' = <<>>
  PROVE  /\ FilledIsDelivered' /\ ByKey(out') /\ Fills(sent', high', out')
         /\ Enabled => high' <= cursor' /\ EventsUpTo(out', cursor')
         /\ gap # NoGap => high' <= gap.start /\ EventsUpTo(out', gap.start)
<1>1. /\ TypeOK /\ cursor \in Nat /\ cursor' \in Nat /\ cursor <= cursor' /\ high \in Nat
      /\ out \in Seq(Item)
  BY NumberFacts
<1>2. FilledIsDelivered' /\ sent' = sent /\ high' = high
  BY DEF Quiet, FillInv, FilledIsDelivered, Delivered
<1>3. CASE out' = out
  <2>1. Enabled => high' <= cursor'
    BY <1>1, <1>2 DEF FillInv
  <2>2. Enabled => EventsUpTo(out', cursor')
    BY <1>1, <1>3, EventsUpToGrows DEF FillInv
  <2>3. gap # NoGap => high' <= gap.start /\ EventsUpTo(out', gap.start)
    BY <1>2, <1>3 DEF FillInv
  <2> QED BY <1>2, <1>3, <2>1, <2>2, <2>3 DEF FillInv
<1>4. CASE out' = <<>>
  <2>1. ByKey(out') /\ Fills(sent', high', out') /\ \A c \in Nat : EventsUpTo(out', c)
    BY <1>4 DEF ByKey, Fills, EventsUpTo
  <2>2. gap # NoGap => gap.start \in Nat
    BY NumberFacts
  <2> QED BY <1>1, <1>2, <2>1, <2>2 DEF FillInv
<1> QED BY <1>3, <1>4

LEMMA DeliverFill ==
  ASSUME ControlInv, HighInv, Onward, FillInv, NEW items \in Seq(Item), items # <<>>,
         ByKey(items), Fills(sent, high, items), Delivers(items)
  PROVE  /\ FilledIsDelivered' /\ ByKey(out') /\ Fills(sent', high', out')
         /\ \A c \in Nat : high <= c /\ EventsUpTo(items, c) => high' <= c /\ EventsUpTo(out', c)
<1>1. TypeOK /\ lane' = lane /\ FilledIsDelivered /\ EmitItem(Head(items)) /\ out' = Tail(items)
  BY NumberFacts DEF Delivers, FillInv
<1> QED BY <1>1, EmitFills

LEMMA ArrivingFacts ==
  ASSUME ControlInv, NEW e \in Event, Arriving(e)
  PROVE  e.key \in Keys /\ e.key <= cursor'
BY AdvancedFacts DEF Arriving, Event, ControlInv

\* Events that wait behind the cursor stay behind it.
LEMMA KeptFill ==
  ASSUME ControlInv, Onward, FillInv, Enabled, NEW i \in DOMAIN buffer
  PROVE  buffer[i].key <= cursor'
<1>1. buffer[i].key \in Nat /\ cursor \in Nat /\ cursor' \in Nat /\ cursor <= cursor'
  BY NumberFacts
<1> QED BY <1>1 DEF FillInv

LEMMA StillFill ==
  ASSUME ControlInv, Onward, FillInv, Still
  PROVE  FillInv'
<1>1. /\ FilledIsDelivered' /\ ByKey(out') /\ Fills(sent', high', out')
      /\ Enabled => high' <= cursor' /\ EventsUpTo(out', cursor')
      /\ gap # NoGap => high' <= gap.start /\ EventsUpTo(out', gap.start)
  BY QuietFill DEF Still
<1>2. gap' = gap /\ buffer' = buffer /\ cursor' = cursor /\ Enabled' = Enabled
  BY NumberFacts DEF Still, Kept
<1>3. Enabled /\ feed'.pc = "waiting" => feed'.event.key <= cursor'
  BY <1>2 DEF Still, FillInv
<1>4. \A i \in DOMAIN buffer : Enabled => buffer[i].key <= cursor'
  BY KeptFill
<1> QED BY <1>1, <1>2, <1>3, <1>4 DEF FillInv

LEMMA EmittingFill ==
  ASSUME ControlInv, HighInv, Onward, FillInv, Emitting
  PROVE  FillInv'
<1>1. /\ cursor \in Nat /\ Enabled' = Enabled /\ out \in Seq(Item)
      /\ gap # NoGap => gap.start \in Nat
  BY NumberFacts
<1>2. /\ FilledIsDelivered' /\ ByKey(out') /\ Fills(sent', high', out')
      /\ \A c \in Nat : high <= c /\ EventsUpTo(out, c) => high' <= c /\ EventsUpTo(out', c)
  <2>1. ByKey(out) /\ Fills(sent, high, out) /\ Delivers(out) /\ out # <<>>
    BY DEF FillInv, Emitting
  <2> QED BY <1>1, <2>1, DeliverFill
<1>3. gap' = gap /\ buffer' = buffer /\ cursor' = cursor /\ feed' = feed
  BY DEF Emitting, Kept
<1>4. Enabled => high' <= cursor' /\ EventsUpTo(out', cursor')
  BY <1>1, <1>2, <1>3 DEF FillInv
<1>5. gap # NoGap => high' <= gap.start /\ EventsUpTo(out', gap.start)
  BY <1>1, <1>2 DEF FillInv
<1> QED BY <1>1, <1>2, <1>3, <1>4, <1>5 DEF FillInv

LEMMA LiveFill ==
  ASSUME ControlInv, HighInv, Onward, FillInv, NEW e \in Event, Live(e)
  PROVE  FillInv'
<1> DEFINE items == <<EventItem(e, FALSE)>>
<1>1. /\ cursor \in Nat /\ cursor' \in Nat /\ cursor <= cursor' /\ high \in Nat /\ Enabled' = Enabled
  BY NumberFacts
<1>2. items \in Seq(Item) /\ items # <<>> /\ DOMAIN items = {1} /\ items[1].kind = "event"
      /\ items[1].event = e
  BY DEF EventItem, Item
<1>3. Delivers(items)
  BY DEF Live
<1> HIDE DEF items
<1>4. ByKey(items) /\ Fills(sent, high, items)
  BY <1>2 DEF ByKey, Fills
<1>5. /\ FilledIsDelivered' /\ ByKey(out') /\ Fills(sent', high', out')
      /\ \A c \in Nat : high <= c /\ EventsUpTo(items, c) => high' <= c /\ EventsUpTo(out', c)
  BY <1>2, <1>3, <1>4, DeliverFill
<1>6. Enabled => e.key <= cursor'
  <2>1. CASE Arriving(e)
    BY <2>1, ArrivingFacts
  <2>2. CASE feed.pc = "waiting" /\ e = feed.event /\ cursor' = cursor
    BY <2>2 DEF FillInv
  <2> QED BY <2>1, <2>2 DEF Live
<1>7. Enabled => high' <= cursor' /\ EventsUpTo(out', cursor')
  <2> SUFFICES ASSUME Enabled PROVE high' <= cursor' /\ EventsUpTo(out', cursor')
    OBVIOUS
  <2>1. EventsUpTo(items, cursor')
    BY <1>2, <1>6 DEF EventsUpTo
  <2>2. high <= cursor'
    BY <1>1 DEF FillInv
  <2> QED BY <1>1, <1>5, <2>1, <2>2
<1>8. gap' = NoGap /\ buffer' = buffer /\ feed'.pc = "holding"
  BY DEF Live, Kept
<1>9. \A i \in DOMAIN buffer : Enabled => buffer[i].key <= cursor'
  BY KeptFill
<1> QED BY <1>1, <1>5, <1>7, <1>8, <1>9 DEF FillInv

LEMMA ArrivesFill ==
  ASSUME ControlInv, Onward, FillInv, NEW e \in Event, Awaits(e) \/ Known(e)
  PROVE  FillInv'
<1>1. /\ FilledIsDelivered' /\ ByKey(out') /\ Fills(sent', high', out')
      /\ Enabled => high' <= cursor' /\ EventsUpTo(out', cursor')
      /\ gap # NoGap => high' <= gap.start /\ EventsUpTo(out', gap.start)
  BY QuietFill DEF Awaits, Known
<1>2. gap' = gap /\ buffer' = buffer /\ Enabled' = Enabled /\ e.key <= cursor'
  BY NumberFacts, ArrivingFacts DEF Awaits, Known, Kept
<1>3. feed'.pc = "waiting" => feed'.event = e
  BY IdleFeedFacts DEF Awaits, Known, Feed
<1>4. \A i \in DOMAIN buffer : Enabled => buffer[i].key <= cursor'
  BY KeptFill
<1> QED BY <1>1, <1>2, <1>3, <1>4 DEF FillInv

LEMMA HeldBackFill ==
  ASSUME ControlInv, Onward, FillInv, NEW e \in Event, HeldBack(e)
  PROVE  FillInv'
<1>1. /\ FilledIsDelivered' /\ ByKey(out') /\ Fills(sent', high', out')
      /\ Enabled => high' <= cursor' /\ EventsUpTo(out', cursor')
      /\ gap # NoGap => high' <= gap.start /\ EventsUpTo(out', gap.start)
  BY QuietFill DEF HeldBack
<1>2. gap # NoGap /\ gap'.start = gap.start /\ feed'.pc # "waiting" /\ Enabled' = Enabled
  BY NumberFacts DEF HeldBack
<1>3. e.key <= cursor'
  <2>1. e.key \in Nat
    BY ItemFacts DEF Event
  <2> QED BY <2>1, ArrivingFacts DEF HeldBack
<1>4. \A i \in DOMAIN buffer' : Enabled => buffer'[i].key <= cursor'
  <2>1. buffer \in Seq(Event) /\ buffer' = Append(buffer, e) /\ DOMAIN buffer = 1..Len(buffer)
    BY NumberFacts, LenProperties DEF HeldBack
  <2>2. \A i \in DOMAIN buffer' : (i \in DOMAIN buffer /\ buffer'[i] = buffer[i]) \/ buffer'[i] = e
    <3>1. /\ buffer' \in Seq(Event) /\ Len(buffer') = Len(buffer) + 1 /\ Len(buffer) \in Nat
          /\ \A i \in 1..Len(buffer) : buffer'[i] = buffer[i]
          /\ buffer'[Len(buffer) + 1] = e
      BY <2>1, AppendProperties, LenProperties
    <3>2. DOMAIN buffer' = 1..(Len(buffer) + 1)
      BY <3>1, LenProperties
    <3> QED BY <2>1, <3>1, <3>2
  <2>3. \A i \in DOMAIN buffer : Enabled => buffer[i].key <= cursor'
    BY KeptFill
  <2> QED BY <1>3, <2>2, <2>3
<1> QED BY <1>1, <1>2, <1>4 DEF FillInv

LEMMA OpenedFill ==
  ASSUME ControlInv, Onward, FillInv, NEW e \in Event, Opened(e)
  PROVE  FillInv'
<1>1. /\ FilledIsDelivered' /\ ByKey(out') /\ Fills(sent', high', out')
      /\ Enabled => high' <= cursor' /\ EventsUpTo(out', cursor')
  BY QuietFill DEF Opened
<1>2. /\ gap'.start = cursor /\ buffer' = <<e>> /\ cursor' = e.key /\ e.key \in Nat
      /\ feed'.pc = "idle" /\ Enabled /\ Enabled' /\ high' = high /\ out' = out
  BY NumberFacts, IdleFeedFacts, ItemFacts DEF Opened, Event, Quiet
<1>3. high' <= gap'.start /\ EventsUpTo(out', gap'.start)
  BY <1>2 DEF FillInv
<1>4. \A i \in DOMAIN buffer' : buffer'[i].key <= cursor'
  BY <1>2
<1> QED BY <1>1, <1>2, <1>3, <1>4 DEF FillInv

LEMMA PassedFill ==
  ASSUME ControlInv, Onward, FillInv, NEW e \in Event, Passed(e)
  PROVE  FillInv'
<1> DEFINE m == Marker([start |-> cursor, end |-> e.key], FALSE)
<1>1. m \in Item /\ m.kind = "gap" /\ m.filled = FALSE
  BY DEF Passed, Marker, Item, Gap, Event
<1>2. EmitItem(m) /\ out' = out /\ gap' = gap /\ buffer' = buffer /\ cursor' = cursor
      /\ feed'.pc = "inGap" /\ Enabled' = Enabled /\ TypeOK
  BY NumberFacts DEF Passed, Kept, Feed
<1> HIDE DEF m
<1>3. high' = high /\ Delivered' = Delivered /\ sent'.filled = sent.filled
  <2>1. sent'.filled = sent.filled \cup (IF m.filled THEN Between(m.gap) ELSE {})
    BY <1>1, <1>2, EmitMarker
  <2> QED BY <1>1, <1>2, <2>1, EmitMarker
<1>4. Fills(sent', high', out')
  BY <1>2, <1>3 DEF FillInv, Fills, Delivered
<1> QED BY <1>2, <1>3, <1>4 DEF FillInv, FilledIsDelivered

LEMMA FinishedFill ==
  ASSUME ControlInv, HighInv, Onward, FillInv, NEW ok \in BOOLEAN, Finished(ok)
  PROVE  FillInv'
<1> DEFINE items == FinishItems(IF ok THEN Between(gap) ELSE {}, ok)
<1>1. /\ TypeOK /\ gap \in Gap /\ Enabled /\ Enabled' = Enabled /\ cursor \in Nat /\ cursor' = cursor
      /\ gap.end <= cursor /\ high <= gap.start /\ high <= cursor
      /\ \A i \in DOMAIN buffer : buffer[i].key <= cursor
  BY NumberFacts DEF Finished, FillInv
<1>2. /\ items \in Seq(Item) /\ items # <<>> /\ ByKey(items) /\ Fills(sent, high, items)
      /\ EventsUpTo(items, cursor)
  <2>1. CASE ok
    BY <1>1, <2>1, FilledItems
  <2>2. CASE ~ok
    BY <1>1, <2>2, MissingItems
  <2> QED BY <2>1, <2>2
<1>3. Delivers(items)
  BY DEF Finished
<1> HIDE DEF items
<1>4. /\ FilledIsDelivered' /\ ByKey(out') /\ Fills(sent', high', out')
      /\ \A c \in Nat : high <= c /\ EventsUpTo(items, c) => high' <= c /\ EventsUpTo(out', c)
  BY <1>2, <1>3, DeliverFill
<1>5. high' <= cursor' /\ EventsUpTo(out', cursor')
  BY <1>1, <1>2, <1>4
<1>6. gap' = NoGap /\ buffer' = <<>> /\ feed'.pc # "waiting"
  BY DEF Finished
<1> QED BY <1>1, <1>4, <1>5, <1>6 DEF FillInv

LEMMA StepFill ==
  ASSUME ControlInv, HighInv, FillInv, [Next]_vars
  PROVE  FillInv'
<1>1. Onward /\ Shape
  BY StepShape
<1> QED BY <1>1, StillFill, EmittingFill, LiveFill, ArrivesFill, HeldBackFill, OpenedFill,
           PassedFill, FinishedFill DEF Shape

LEMMA InitFill ==
  ASSUME Init
  PROVE  FillInv
BY IdleFeedFacts DEF Init, FillInv, FilledIsDelivered, ByKey, Fills, EventsUpTo, NoKey

\* No range is declared repaired before every key in it was delivered: not one
\* that grew while its rows were fetched, nor one whose rows a replay overtook.
THEOREM FilledMarkersAreTrue == Spec => []FilledIsDelivered
<1>1. Init => ControlInv /\ HighInv /\ FillInv
  BY InitControl, InitHigh, InitFill
<1>2. ControlInv /\ HighInv /\ FillInv /\ [Next]_vars => (ControlInv /\ HighInv /\ FillInv)'
  BY StepControl, StepHigh, StepFill
<1>3. FillInv => FilledIsDelivered
  BY DEF FillInv
<1> QED BY <1>1, <1>2, <1>3, PTL DEF Spec

-----------------------------------------------------------------------------
(* Nothing disappears silently.                                            *)

\* Keys that stay on the way: a step that emits nothing, and one that does.
LEMMA QuietPending ==
  ASSUME Quiet, out' = out
  PROVE  Pending' = Pending /\ sent' = sent
BY DEF Quiet, Pending

LEMMA EmptyPending ==
  ASSUME out = <<>>
  PROVE  Pending = Accounted(sent)
BY DEF Pending, KeysOf

LEMMA NoGapHeld ==
  ASSUME ControlInv, gap = NoGap
  PROVE  Held = Pending /\ buffer = <<>>
<1>1. buffer = <<>>
  BY DEF ControlInv, GapInv
<1>2. Between(gap) = {}
  BY DEF Between, NoGap, NoKey
<1> QED BY <1>1, <1>2 DEF Held

LEMMA EmitMissing ==
  ASSUME TypeOK, NEW item \in Item, EmitItem(item)
  PROVE  sent.missing \subseteq sent'.missing
BY EmitEvent, EmitMarker

LEMMA InOrderGrows ==
  ASSUME NEW s, NEW t, NEW items, InOrder(s, items), Accounted(s) \subseteq Accounted(t)
  PROVE  InOrder(t, items)
BY DEF InOrder

\* What lies before an event that comes in is on its way already, unless the
\* event is the first.
LEMMA BeforeArriving ==
  ASSUME ControlInv, FreshInv, HoleInv, NEW e \in Event, Arriving(e), NEW k \in Keys, k < e.key
  PROVE  \/ k \in Held
         \/ sent.first = NoKey /\ cursor = NoKey /\ ~Jumps(e)
         \/ sent.first = NoKey /\ ~Enabled /\ feed.pc = "idle"
<1>1. k \in Nat /\ cursor \in Nat /\ e.key \in Keys /\ e.key \in Nat
  BY ItemFacts, TypeParts DEF ControlInv, Event
<1>2. CASE feed.pc = "idle" /\ ~Jumps(e)
  <2>1. CASE cursor = NoKey
    BY <1>2, <2>1 DEF FreshInv
  <2>2. CASE cursor # NoKey
    <3>1. k <= cursor
      BY <1>1, <1>2, <2>2 DEF Jumps
    <3>2. Going
      BY <1>2, BusyFacts DEF Going
    <3> QED BY <1>2, <3>1, <3>2 DEF HoleInv
  <2> QED BY <2>1, <2>2
<1>3. CASE feed.pc = "inGap" /\ e = feed.event
  <2>1. CASE k <= cursor
    <3>1. Going
      BY <1>3, BusyFacts DEF Going
    <3> QED BY <1>3, <2>1, <3>1 DEF HoleInv
  <2>2. CASE cursor < k
    <3>1. k \in sent.missing
      BY <1>3, <2>2 DEF HoleInv
    <3> QED BY <3>1 DEF Held, Pending, Accounted
  <2> QED BY <1>1, <2>1, <2>2
<1>4. CASE ~Enabled /\ feed.pc = "idle" /\ e.key \in sent.closed
  <2>1. e.key \in Delivered
    BY <1>4 DEF Delivered
  <2>2. k \in Accounted(sent)
    <3>1. sent.first \in Nat
      BY MarkFacts DEF ControlInv
    <3>2. CASE sent.first <= k
      BY <2>1, <3>2 DEF HoleInv, NoSilentHole, Accounted, Delivered
    <3>3. CASE k < sent.first
      BY <3>3 DEF Accounted
    <3> QED BY <1>1, <3>1, <3>2, <3>3
  <2> QED BY <2>2 DEF Held, Pending
<1> QED BY <1>2, <1>3, <1>4 DEF Arriving

\* While somebody holds back or waits, the cursor is set.
LEMMA BeforeLater ==
  ASSUME ControlInv, FreshInv, HoleInv, NEW e \in Event, Arriving(e), NEW k \in Keys, k < e.key,
         ~LockFree \/ gap # NoGap
  PROVE  k \in Held
<1>1. cursor # NoKey
  BY DEF FreshInv
<1>2. feed.pc = "idle" => Enabled
  BY BusyFacts
<1> QED BY <1>1, <1>2, BeforeArriving

\* The cursor after an event: the old one, or the event.
LEMMA CursorMoves ==
  ASSUME ControlInv, HoleInv, NEW e \in Event, Arriving(e), NEW k \in Keys, k <= cursor'
  PROVE  k \in Held \/ k < e.key \/ k = e.key
<1>1. k \in Nat /\ cursor \in Nat /\ e.key \in Keys /\ e.key \in Nat
      /\ (cursor' = e.key \/ cursor' = cursor)
  BY ItemFacts, TypeParts, AdvancedFacts DEF ControlInv, Event, Arriving
<1>2. Going /\ feed.pc # "waiting"
  BY BusyFacts DEF Arriving, Going
<1>3. CASE cursor' = e.key
  BY <1>1, <1>3
<1>4. CASE cursor' = cursor
  BY <1>2, <1>4 DEF HoleInv
<1> QED BY <1>1, <1>3, <1>4

\* The conjuncts of HoleInv that speak of what is held, from what a step kept.
LEMMA HoleFrom ==
  ASSUME NoSilentHole', InOrder(sent', out'), Range(repaired') \subseteq Accounted(sent'),
         \A k \in Keys :
           /\ feed'.pc = "waiting" /\ k < feed'.event.key => k \in Pending'
           /\ feed'.pc = "inGap" /\ cursor' < k /\ k < feed'.event.key => k \in sent'.missing
           /\ gap' # NoGap /\ k <= gap'.start => k \in Pending'
           /\ \A i \in DOMAIN buffer' : k < buffer'[i].key => k \in Held'
           /\ Going' /\ k <= cursor' => k \in Held' \/ (feed'.pc = "waiting" /\ k = feed'.event.key)
  PROVE  HoleInv'
BY DEF HoleInv

LEMMA StillHole ==
  ASSUME Steady, ControlInv, HoleInv, Still
  PROVE  HoleInv'
<1>1. sent' = sent /\ Accounted(sent') = Accounted(sent) /\ repaired' = repaired
      /\ gap' = gap /\ buffer' = buffer /\ cursor' = cursor
  BY DEF Still, Quiet, Kept
<1>2. NoSilentHole' /\ Range(repaired') \subseteq Accounted(sent')
  BY <1>1 DEF HoleInv, NoSilentHole, Delivered
<1>3. \A k \in Keys : feed'.pc = "inGap" /\ cursor' < k /\ k < feed'.event.key => k \in sent'.missing
  BY <1>1 DEF Still, HoleInv
<1>4. CASE out' = out
  <2>1. Pending' = Pending
    BY <1>4, QuietPending DEF Still
  <2>2. Held' = Held
    BY <1>1, <2>1 DEF Held
  <2>3. InOrder(sent', out')
    BY <1>1, <1>4 DEF HoleInv
  <2>4. ASSUME NEW k \in Keys
        PROVE  /\ feed'.pc = "waiting" /\ k < feed'.event.key => k \in Pending'
               /\ gap' # NoGap /\ k <= gap'.start => k \in Pending'
               /\ \A i \in DOMAIN buffer' : k < buffer'[i].key => k \in Held'
               /\ Going' /\ k <= cursor' => k \in Held' \/ (feed'.pc = "waiting" /\ k = feed'.event.key)
    <3>1. feed'.pc = "waiting" /\ k < feed'.event.key => k \in Pending'
      BY <2>1 DEF Still, HoleInv
    <3>2. gap' # NoGap /\ k <= gap'.start => k \in Pending'
      BY <1>1, <2>1 DEF HoleInv
    <3>3. \A i \in DOMAIN buffer' : k < buffer'[i].key => k \in Held'
      BY <1>1, <2>2 DEF HoleInv
    <3>4. Going' /\ k <= cursor' => k \in Held' \/ (feed'.pc = "waiting" /\ k = feed'.event.key)
      BY <1>1, <2>2 DEF Still, HoleInv
    <3> QED BY <3>1, <3>2, <3>3, <3>4
  <2> QED BY <1>2, <1>3, <2>3, <2>4, HoleFrom
<1>5. CASE out' = <<>> /\ gap = NoGap /\ buffer = <<>> /\ ~Going'
  <2>1. InOrder(sent', out')
    BY <1>5 DEF InOrder
  <2>2. feed'.pc # "waiting"
    <3>1. feed.pc = "waiting" => Going
      BY DEF Going, ControlInv, StopInv
    <3> QED BY <1>5, <3>1 DEF Still, Going
  <2>3. \A k \in Keys :
          /\ feed'.pc = "waiting" /\ k < feed'.event.key => k \in Pending'
          /\ gap' # NoGap /\ k <= gap'.start => k \in Pending'
          /\ \A i \in DOMAIN buffer' : k < buffer'[i].key => k \in Held'
          /\ Going' /\ k <= cursor' => k \in Held' \/ (feed'.pc = "waiting" /\ k = feed'.event.key)
    BY <1>1, <1>5, <2>2
  <2> QED BY <1>2, <1>3, <2>1, <2>3, HoleFrom
<1> QED BY <1>4, <1>5 DEF Still

\* A list of items in order starts to go out, or goes on.
LEMMA DeliverHole ==
  ASSUME ControlInv, HighInv, HoleInv, lane' = lane,
         NEW items \in Seq(Item), items # <<>>, InOrder(sent, items), Delivers(items)
  PROVE  /\ NoSilentHole' /\ InOrder(sent', out') /\ Range(repaired') \subseteq Accounted(sent')
         /\ Accounted(sent) \cup KeysOf(items) \subseteq Pending'
         /\ sent.missing \subseteq sent'.missing
<1>1. /\ TypeOK /\ NoSilentHole /\ Range(repaired) \subseteq Accounted(sent)
      /\ EmitItem(Head(items)) /\ out' = Tail(items) /\ Head(items) \in Item
  BY TailFacts DEF ControlInv, HoleInv, Delivers
<1>2. /\ NoSilentHole' /\ Range(repaired') \subseteq Accounted(sent') /\ InOrder(sent', Tail(items))
      /\ Accounted(sent) \cup KeysOf(items) \subseteq Accounted(sent') \cup KeysOf(Tail(items))
  BY <1>1, EmitHead
<1> QED BY <1>1, <1>2, EmitMissing DEF Pending

LEMMA EmittingHole ==
  ASSUME ControlInv, HighInv, HoleInv, lane' = lane, Emitting
  PROVE  HoleInv'
<1>1. out \in Seq(Item) /\ out # <<>> /\ InOrder(sent, out) /\ Delivers(out)
  BY DEF ControlInv, TypeOK, HoleInv, Emitting
<1>2. /\ NoSilentHole' /\ InOrder(sent', out') /\ Range(repaired') \subseteq Accounted(sent')
      /\ Pending \subseteq Pending' /\ sent.missing \subseteq sent'.missing
  BY <1>1, DeliverHole DEF Pending
<1>3. gap' = gap /\ buffer' = buffer /\ cursor' = cursor /\ feed' = feed
  BY DEF Emitting, Kept
<1>4. Held \subseteq Held' /\ (Going' => Going)
  BY <1>2, <1>3 DEF Held, Going
<1>5. ASSUME NEW k \in Keys
      PROVE  /\ feed'.pc = "waiting" /\ k < feed'.event.key => k \in Pending'
             /\ feed'.pc = "inGap" /\ cursor' < k /\ k < feed'.event.key => k \in sent'.missing
             /\ gap' # NoGap /\ k <= gap'.start => k \in Pending'
             /\ \A i \in DOMAIN buffer' : k < buffer'[i].key => k \in Held'
             /\ Going' /\ k <= cursor' => k \in Held' \/ (feed'.pc = "waiting" /\ k = feed'.event.key)
  BY <1>2, <1>3, <1>4 DEF HoleInv
<1> QED BY <1>2, <1>5, HoleFrom

LEMMA LiveHole ==
  ASSUME ControlInv, HighInv, FreshInv, HoleInv, Onward, NEW e \in Event, Live(e)
  PROVE  HoleInv'
<1> DEFINE item == EventItem(e, FALSE)
           items == <<item>>
<1>1. /\ TypeOK /\ lane' = lane /\ NoSilentHole /\ Range(repaired) \subseteq Accounted(sent)
      /\ out = <<>> /\ gap = NoGap /\ gap' = NoGap /\ feed'.pc = "holding" /\ e.key \in Keys
  BY DEF ControlInv, Onward, HoleInv, Live, Kept, Event
<1>2. Held = Accounted(sent) /\ buffer = <<>> /\ buffer' = <<>>
  <2>1. Held = Pending /\ buffer = <<>>
    BY <1>1, NoGapHeld
  <2> QED BY <1>1, <2>1, EmptyPending DEF Live, Kept
<1>3. item \in Item /\ item.kind = "event" /\ item.event = e /\ Head(items) = item /\ Tail(items) = <<>>
  BY DEF EventItem, Item
<1>4. EmitItem(item) /\ out' = <<>>
  BY <1>3 DEF Live, Delivers
<1> HIDE DEF item
<1>5. \A k \in Keys : item.kind = "event" /\ k < item.event.key => k \in Accounted(sent) \/ sent.first = NoKey
  <2> SUFFICES ASSUME NEW k \in Keys, k < e.key PROVE k \in Accounted(sent) \/ sent.first = NoKey
    BY <1>3
  <2>1. CASE Arriving(e)
    BY <1>2, <2>1, BeforeArriving
  <2>2. CASE feed.pc = "waiting" /\ e = feed.event
    <3>1. k \in Pending
      BY <2>2 DEF HoleInv
    <3> QED BY <1>1, <3>1, EmptyPending
  <2> QED BY <2>1, <2>2 DEF Live
<1>6. /\ NoSilentHole' /\ Range(repaired') \subseteq Accounted(sent')
      /\ \A k \in Keys : k < e.key => k \in Accounted(sent')
  BY <1>1, <1>3, <1>4, <1>5, EmitKeeps
<1>7. Accounted(sent) \cup {e.key} \subseteq Accounted(sent')
  <2>1. ItemKeys(item) = {e.key}
    BY <1>3 DEF ItemKeys
  <2> QED BY <1>1, <1>3, <1>4, <2>1, EmitAccounts
<1>8. InOrder(sent', out')
  BY <1>4 DEF InOrder
<1>9. ASSUME NEW k \in Keys, k <= cursor' PROVE k \in Held'
  <2>1. k \in Accounted(sent')
    <3>1. CASE Arriving(e)
      BY <1>2, <1>6, <1>7, <1>9, <3>1, CursorMoves
    <3>2. CASE feed.pc = "waiting" /\ e = feed.event /\ cursor' = cursor
      <4>1. Going
        BY <3>2 DEF Going, ControlInv, StopInv
      <4> QED BY <1>2, <1>7, <1>9, <3>2, <4>1 DEF HoleInv
    <3> QED BY <3>1, <3>2 DEF Live
  <2> QED BY <2>1 DEF Held, Pending
<1>10. ASSUME NEW k \in Keys
       PROVE  /\ feed'.pc = "waiting" /\ k < feed'.event.key => k \in Pending'
              /\ feed'.pc = "inGap" /\ cursor' < k /\ k < feed'.event.key => k \in sent'.missing
              /\ gap' # NoGap /\ k <= gap'.start => k \in Pending'
              /\ \A i \in DOMAIN buffer' : k < buffer'[i].key => k \in Held'
              /\ Going' /\ k <= cursor' => k \in Held' \/ (feed'.pc = "waiting" /\ k = feed'.event.key)
  BY <1>1, <1>2, <1>9
<1> QED BY <1>6, <1>8, <1>10, HoleFrom

LEMMA QuietHole ==
  ASSUME HoleInv, Quiet, out' = out
  PROVE  /\ NoSilentHole' /\ InOrder(sent', out') /\ Range(repaired') \subseteq Accounted(sent')
         /\ Pending' = Pending /\ sent' = sent
BY QuietPending DEF Quiet, HoleInv, NoSilentHole, Delivered

LEMMA AwaitsHole ==
  ASSUME ControlInv, FreshInv, HoleInv, NEW e \in Event, Awaits(e)
  PROVE  HoleInv'
<1>1. /\ NoSilentHole' /\ InOrder(sent', out') /\ Range(repaired') \subseteq Accounted(sent')
      /\ Pending' = Pending
  BY QuietHole DEF Awaits
<1>2. /\ gap = NoGap /\ gap' = NoGap /\ buffer' = <<>> /\ Held = Pending
      /\ feed'.pc = "waiting" /\ feed'.event = e /\ Arriving(e) /\ ~LockFree
  BY NoGapHeld DEF Awaits, Kept, Feed
<1>3. \A k \in Keys : k < e.key => k \in Pending'
  BY <1>1, <1>2, BeforeLater
<1>4. \A k \in Keys : k <= cursor' => k \in Held' \/ k = e.key
  <2>1. Pending' \subseteq Held'
    BY DEF Held
  <2> QED BY <1>1, <1>2, <1>3, <2>1, CursorMoves
<1>5. ASSUME NEW k \in Keys
      PROVE  /\ feed'.pc = "waiting" /\ k < feed'.event.key => k \in Pending'
             /\ feed'.pc = "inGap" /\ cursor' < k /\ k < feed'.event.key => k \in sent'.missing
             /\ gap' # NoGap /\ k <= gap'.start => k \in Pending'
             /\ \A i \in DOMAIN buffer' : k < buffer'[i].key => k \in Held'
             /\ Going' /\ k <= cursor' => k \in Held' \/ (feed'.pc = "waiting" /\ k = feed'.event.key)
  BY <1>2, <1>3, <1>4
<1> QED BY <1>1, <1>5, HoleFrom

LEMMA KnownHole ==
  ASSUME ControlInv, FreshInv, HoleInv, NEW e \in Event, Known(e)
  PROVE  HoleInv'
<1>1. /\ NoSilentHole' /\ InOrder(sent', out') /\ Range(repaired') \subseteq Accounted(sent')
      /\ Pending' = Pending
  BY QuietHole DEF Known
<1>2. /\ gap' = gap /\ buffer' = buffer /\ Held' = Held /\ feed'.pc = "idle" /\ Arriving(e)
      /\ (feed.pc = "inGap" \/ ~Jumps(e)) /\ e.key \in Range(repaired)
  BY <1>1, IdleFeedFacts DEF Known, Kept, Held
<1>3. e.key \in Held
  BY <1>2 DEF HoleInv, Held, Pending
<1>4. \A k \in Keys : k < e.key => k \in Held
  <2> SUFFICES ASSUME NEW k \in Keys, k < e.key PROVE k \in Held
    OBVIOUS
  <2>1. cursor # NoKey
    BY <1>2 DEF FreshInv, Range
  <2>2. CASE feed.pc = "idle" /\ ~Jumps(e)
    <3>1. k \in Nat /\ cursor \in Nat /\ e.key \in Nat
      BY ItemFacts, TypeParts DEF ControlInv, Event
    <3>2. k <= cursor
      BY <2>1, <2>2, <3>1 DEF Jumps
    <3>3. Going
      BY <2>2, BusyFacts DEF Going
    <3> QED BY <2>2, <3>2, <3>3 DEF HoleInv
  <2>3. CASE feed.pc = "inGap"
    BY <1>2, <2>1, <2>3, BeforeArriving
  <2> QED BY <1>2, <2>2, <2>3 DEF Arriving
<1>5. \A k \in Keys : k <= cursor' => k \in Held'
  BY <1>2, <1>3, <1>4, CursorMoves
<1>6. ASSUME NEW k \in Keys
      PROVE  /\ feed'.pc = "waiting" /\ k < feed'.event.key => k \in Pending'
             /\ feed'.pc = "inGap" /\ cursor' < k /\ k < feed'.event.key => k \in sent'.missing
             /\ gap' # NoGap /\ k <= gap'.start => k \in Pending'
             /\ \A i \in DOMAIN buffer' : k < buffer'[i].key => k \in Held'
             /\ Going' /\ k <= cursor' => k \in Held' \/ (feed'.pc = "waiting" /\ k = feed'.event.key)
  BY <1>1, <1>2, <1>5 DEF HoleInv
<1> QED BY <1>1, <1>6, HoleFrom

LEMMA HeldBackHole ==
  ASSUME ControlInv, FreshInv, HoleInv, Onward, NEW e \in Event, HeldBack(e)
  PROVE  HoleInv'
<1>1. /\ NoSilentHole' /\ InOrder(sent', out') /\ Range(repaired') \subseteq Accounted(sent')
      /\ Pending' = Pending
  BY QuietHole DEF HeldBack
<1>2. /\ gap # NoGap /\ gap' # NoGap /\ gap'.start = gap.start /\ gap.end <= gap'.end
      /\ feed'.pc \in {"idle", "gathering"}
  BY DEF HeldBack
<1>3. /\ gap.start \in Nat /\ gap.end \in Nat /\ gap.start < gap.end /\ gap.end <= cursor
      /\ cursor \in Nat /\ e.key \in Nat /\ e.key \in Keys
      /\ \A k \in Keys : k \in Nat
      /\ gap' = gap \/ gap'.end = e.key
  BY <1>2, NumberFacts, ItemFacts DEF Event, HeldBack
<1>4. \A i \in DOMAIN buffer' : (i \in DOMAIN buffer /\ buffer'[i] = buffer[i]) \/ buffer'[i] = e
  <2>1. buffer \in Seq(Event) /\ buffer' = Append(buffer, e) /\ DOMAIN buffer = 1..Len(buffer)
    BY NumberFacts, LenProperties DEF HeldBack
  <2>2. /\ Len(buffer') = Len(buffer) + 1 /\ Len(buffer) \in Nat /\ buffer' \in Seq(Event)
        /\ \A i \in 1..Len(buffer) : buffer'[i] = buffer[i]
        /\ buffer'[Len(buffer) + 1] = e
    BY <2>1, AppendProperties, LenProperties
  <2>3. DOMAIN buffer' = 1..(Len(buffer) + 1)
    BY <2>2, LenProperties
  <2> QED BY <2>1, <2>2, <2>3
<1>5. Held \cup {e.key} \subseteq Held'
  <2>1. buffer \in Seq(Event) /\ buffer' = Append(buffer, e) /\ DOMAIN buffer = 1..Len(buffer)
    BY NumberFacts, LenProperties DEF HeldBack
  <2>2. /\ Len(buffer') = Len(buffer) + 1 /\ Len(buffer) \in Nat /\ buffer' \in Seq(Event)
        /\ \A i \in 1..Len(buffer) : buffer'[i] = buffer[i]
        /\ buffer'[Len(buffer) + 1] = e
    BY <2>1, AppendProperties, LenProperties
  <2>3. DOMAIN buffer' = 1..(Len(buffer) + 1)
    BY <2>2, LenProperties
  <2>4. \A i \in DOMAIN buffer : i \in DOMAIN buffer' /\ buffer'[i] = buffer[i]
    BY <2>1, <2>2, <2>3
  <2>5. {buffer[i].key : i \in DOMAIN buffer} \cup {e.key} \subseteq {buffer'[i].key : i \in DOMAIN buffer'}
    <3>1. Len(buffer) + 1 \in DOMAIN buffer'
      BY <2>2, <2>3
    <3> QED BY <2>2, <2>4, <3>1
  <2>6. Between(gap) \subseteq Between(gap')
    <3>1. gap' = gap \/ (gap'.end = e.key /\ gap'.start = gap.start)
      BY <1>2, <1>3
    <3> QED BY <1>2, <1>3, <3>1 DEF Between
  <2> QED BY <1>1, <2>5, <2>6 DEF Held
<1>6. (\A k \in Keys : k < e.key => k \in Held') /\ (\A k \in Keys : k <= cursor' => k \in Held')
  <2>1. CASE Arriving(e) /\ gap' = gap
    <3>1. \A k \in Keys : k < e.key => k \in Held
      BY <1>2, <2>1, BeforeLater
    <3> QED BY <1>5, <2>1, <3>1, CursorMoves
  <2>2. CASE feed.pc = "idle" /\ cursor < e.key /\ gap'.end = e.key /\ cursor' = e.key
    <3>1. Going
      BY <2>2, BusyFacts DEF Going
    <3>2. ASSUME NEW k \in Keys, k < e.key PROVE k \in Held'
      <4>1. CASE k <= cursor
        BY <1>5, <2>2, <3>1, <4>1 DEF HoleInv
      <4>2. CASE cursor < k
        <5>1. k \in Between(gap')
          BY <1>2, <1>3, <2>2, <3>2, <4>2 DEF Between
        <5> QED BY <5>1 DEF Held
      <4> QED BY <1>3, <4>1, <4>2
    <3>3. \A k \in Keys : k <= e.key => k < e.key \/ k = e.key
      BY <1>3
    <3> QED BY <1>5, <2>2, <3>2, <3>3
  <2> QED BY <2>1, <2>2 DEF HeldBack
<1>7. ASSUME NEW k \in Keys
      PROVE  /\ feed'.pc = "waiting" /\ k < feed'.event.key => k \in Pending'
             /\ feed'.pc = "inGap" /\ cursor' < k /\ k < feed'.event.key => k \in sent'.missing
             /\ gap' # NoGap /\ k <= gap'.start => k \in Pending'
             /\ \A i \in DOMAIN buffer' : k < buffer'[i].key => k \in Held'
             /\ Going' /\ k <= cursor' => k \in Held' \/ (feed'.pc = "waiting" /\ k = feed'.event.key)
  <2>1. feed'.pc # "waiting" /\ feed'.pc # "inGap"
    BY <1>2
  <2>2. gap' # NoGap /\ k <= gap'.start => k \in Pending'
    BY <1>1, <1>2 DEF HoleInv
  <2>3. \A i \in DOMAIN buffer' : k < buffer'[i].key => k \in Held'
    <3>1. \A i \in DOMAIN buffer : k < buffer[i].key => k \in Held
      BY DEF HoleInv
    <3> QED BY <1>4, <1>5, <1>6, <3>1
  <2> QED BY <1>6, <2>1, <2>2, <2>3
<1> QED BY <1>1, <1>7, HoleFrom

LEMMA OpenedHole ==
  ASSUME ControlInv, HoleInv, NEW e \in Event, Opened(e)
  PROVE  HoleInv'
<1>1. /\ NoSilentHole' /\ InOrder(sent', out') /\ Range(repaired') \subseteq Accounted(sent')
      /\ Pending' = Pending
  BY QuietHole DEF Opened
<1>2. /\ Held = Pending /\ buffer' = <<e>> /\ gap'.start = cursor /\ gap'.end = e.key
      /\ cursor' = e.key /\ cursor < e.key /\ feed.pc = "idle" /\ feed'.pc = "idle"
  BY NoGapHeld, IdleFeedFacts DEF Opened
<1>3. cursor \in Nat /\ e.key \in Nat /\ e.key \in Keys /\ (\A k \in Keys : k \in Nat) /\ Going
  BY <1>2, TypeParts, ItemFacts, BusyFacts DEF ControlInv, Event, Going
<1>4. \A k \in Keys : k <= cursor => k \in Pending'
  BY <1>1, <1>2, <1>3 DEF HoleInv
<1>5. \A k \in Keys : k < e.key => k \in Held'
  <2> SUFFICES ASSUME NEW k \in Keys, k < e.key PROVE k \in Held'
    OBVIOUS
  <2>1. CASE k <= cursor
    BY <1>4, <2>1 DEF Held
  <2>2. CASE cursor < k
    <3>1. k \in Between(gap')
      BY <1>2, <1>3, <2>2 DEF Between
    <3> QED BY <3>1 DEF Held
  <2> QED BY <1>3, <2>1, <2>2
<1>6. e.key \in Held'
  <2>1. 1 \in DOMAIN buffer' /\ buffer'[1] = e
    BY <1>2
  <2> QED BY <2>1 DEF Held
<1>7. \A k \in Keys : k <= cursor' => k \in Held'
  BY <1>2, <1>3, <1>5, <1>6
<1>8. ASSUME NEW k \in Keys
      PROVE  /\ feed'.pc = "waiting" /\ k < feed'.event.key => k \in Pending'
             /\ feed'.pc = "inGap" /\ cursor' < k /\ k < feed'.event.key => k \in sent'.missing
             /\ gap' # NoGap /\ k <= gap'.start => k \in Pending'
             /\ \A i \in DOMAIN buffer' : k < buffer'[i].key => k \in Held'
             /\ Going' /\ k <= cursor' => k \in Held' \/ (feed'.pc = "waiting" /\ k = feed'.event.key)
  <2>1. \A i \in DOMAIN buffer' : buffer'[i] = e
    BY <1>2
  <2> QED BY <1>2, <1>4, <1>5, <1>7, <2>1
<1> QED BY <1>1, <1>8, HoleFrom

LEMMA PassedHole ==
  ASSUME ControlInv, HighInv, HoleInv, Onward, NEW e \in Event, Passed(e)
  PROVE  HoleInv'
<1> DEFINE m == Marker([start |-> cursor, end |-> e.key], FALSE)
<1>1. m \in Item /\ m.kind = "gap" /\ m.filled = FALSE /\ m.gap.start = cursor /\ m.gap.end = e.key
  BY DEF Passed, Marker, Item, Gap, Event
<1>2. /\ EmitItem(m) /\ out' = out /\ gap' = gap /\ buffer' = buffer /\ cursor' = cursor
      /\ feed'.pc = "inGap" /\ feed'.event = e /\ feed.pc = "idle" /\ TypeOK /\ lane' = lane
      /\ NoSilentHole /\ Range(repaired) \subseteq Accounted(sent)
  BY DEF Passed, Kept, Feed, ControlInv, HoleInv, Onward
<1> HIDE DEF m
<1>3. NoSilentHole' /\ Range(repaired') \subseteq Accounted(sent') /\ Accounted(sent) \subseteq Accounted(sent')
  <2>1. \A k \in Keys : m.kind = "event" /\ k < m.event.key => k \in Accounted(sent) \/ sent.first = NoKey
    BY <1>1
  <2> QED BY <1>1, <1>2, <2>1, EmitKeeps, EmitAccounts
<1>4. \A k \in Keys : cursor < k /\ k < e.key => k \in sent'.missing
  <2>1. Between(m.gap) \subseteq sent'.missing
    BY <1>1, <1>2, EmitMarker
  <2>2. cursor \in Nat /\ e.key \in Nat /\ \A k \in Keys : k \in Nat
    BY <1>2, TypeParts, ItemFacts DEF Event
  <2> QED BY <1>1, <2>1, <2>2 DEF Between
<1>5. Pending \subseteq Pending' /\ Held \subseteq Held' /\ InOrder(sent', out')
  BY <1>2, <1>3, InOrderGrows DEF Pending, Held, HoleInv
<1>6. Going
  BY <1>2, BusyFacts DEF Going
<1>7. ASSUME NEW k \in Keys
      PROVE  /\ feed'.pc = "waiting" /\ k < feed'.event.key => k \in Pending'
             /\ feed'.pc = "inGap" /\ cursor' < k /\ k < feed'.event.key => k \in sent'.missing
             /\ gap' # NoGap /\ k <= gap'.start => k \in Pending'
             /\ \A i \in DOMAIN buffer' : k < buffer'[i].key => k \in Held'
             /\ Going' /\ k <= cursor' => k \in Held' \/ (feed'.pc = "waiting" /\ k = feed'.event.key)
  BY <1>2, <1>4, <1>5, <1>6 DEF HoleInv
<1> QED BY <1>3, <1>5, <1>7, HoleFrom

LEMMA FinishedHole ==
  ASSUME ControlInv, HighInv, HoleInv, Onward, NEW ok \in BOOLEAN, Finished(ok)
  PROVE  HoleInv'
<1> DEFINE items == FinishItems(IF ok THEN Between(gap) ELSE {}, ok)
<1>1. /\ TypeOK /\ gap \in Gap /\ gap # NoGap /\ lane' = lane /\ Pending = Accounted(sent)
      /\ gap' = NoGap /\ buffer' = <<>> /\ cursor' = cursor
  BY NumberFacts, EmptyPending DEF Finished
<1>2. Held = Accounted(sent) \cup Between(gap) \cup BufferKeys
  BY <1>1 DEF Held, BufferKeys
<1>3. /\ \A k \in Keys : k <= gap.start => k \in Accounted(sent)
      /\ \A k \in Keys : \A i \in DOMAIN buffer : k < buffer[i].key =>
                           k \in Accounted(sent) \cup Between(gap) \cup BufferKeys
  BY <1>1, <1>2 DEF HoleInv
<1>4. /\ items \in Seq(Item) /\ items # <<>> /\ InOrder(sent, items)
      /\ Between(gap) \cup BufferKeys \subseteq KeysOf(items)
  <2>1. CASE ok
    BY <1>1, <1>3, <2>1, FilledItems
  <2>2. CASE ~ok
    BY <1>1, <1>3, <2>2, MissingItems
  <2> QED BY <2>1, <2>2
<1>5. Delivers(items)
  BY DEF Finished
<1> HIDE DEF items
<1>6. /\ NoSilentHole' /\ InOrder(sent', out') /\ Range(repaired') \subseteq Accounted(sent')
      /\ Accounted(sent) \cup KeysOf(items) \subseteq Pending'
      /\ sent.missing \subseteq sent'.missing
  BY <1>1, <1>4, <1>5, DeliverHole
<1>7. Held \subseteq Held'
  <2>1. Held \subseteq Pending'
    BY <1>2, <1>4, <1>6
  <2> QED BY <2>1 DEF Held
<1>8. feed'.pc # "waiting" /\ feed.pc # "waiting" /\ (Going' => Going) /\ (feed'.pc = "inGap" => feed' = feed)
  BY DEF Finished
<1>9. ASSUME NEW k \in Keys
      PROVE  /\ feed'.pc = "waiting" /\ k < feed'.event.key => k \in Pending'
             /\ feed'.pc = "inGap" /\ cursor' < k /\ k < feed'.event.key => k \in sent'.missing
             /\ gap' # NoGap /\ k <= gap'.start => k \in Pending'
             /\ \A i \in DOMAIN buffer' : k < buffer'[i].key => k \in Held'
             /\ Going' /\ k <= cursor' => k \in Held' \/ (feed'.pc = "waiting" /\ k = feed'.event.key)
  BY <1>1, <1>6, <1>7, <1>8 DEF HoleInv
<1> QED BY <1>6, <1>9, HoleFrom

LEMMA StepHole ==
  ASSUME Steady, ControlInv, HighInv, FreshInv, HoleInv, [Next]_vars
  PROVE  HoleInv'
<1>1. Onward /\ Shape /\ lane' = lane
  BY StepShape DEF Onward
<1> QED BY <1>1, StillHole, EmittingHole, LiveHole, AwaitsHole, KnownHole, HeldBackHole,
           OpenedHole, PassedHole, FinishedHole DEF Shape

LEMMA InitHole ==
  ASSUME Init
  PROVE  HoleInv
<1>1. feed.pc = "idle" /\ gap = NoGap /\ out = <<>> /\ buffer = <<>> /\ cursor = NoKey /\ repaired = <<>>
      /\ Delivered = {}
  BY IdleFeedFacts DEF Init, Delivered
<1>2. \A k \in Keys : ~(k <= cursor)
  BY <1>1, ItemFacts
<1> QED BY <1>1, <1>2 DEF HoleInv, NoSilentHole, InOrder, Range

\* Whatever was lost, repaired, coalesced, overflowed or stopped, every key
\* between the first and the newest delivered one was delivered or lies inside
\* a marker that says it is missing, unless a feed switch cancels a task that is
\* ingesting into an ordered layer.
THEOREM NothingDisappears == Steady => (Spec => []NoSilentHole)
<1> SUFFICES ASSUME Steady PROVE Spec => []NoSilentHole
  OBVIOUS
<1>1. Init => ControlInv /\ HighInv /\ FreshInv /\ HoleInv
  BY InitControl, InitHigh, InitHole
<1>2. ControlInv /\ HighInv /\ FreshInv /\ HoleInv /\ [Next]_vars
      => (ControlInv /\ HighInv /\ FreshInv /\ HoleInv)'
  BY StepControl, StepHigh, StepFresh, StepHole
<1>3. HoleInv => NoSilentHole
  BY DEF HoleInv
<1> QED BY <1>1, <1>2, <1>3, PTL DEF Spec

-----------------------------------------------------------------------------
(* Every gap has somebody who decides it.                                  *)

\* The half of GapHasRepair that is not part of GapInv.
GapWatched == gap # NoGap /\ ~Alive => feed.pc \in {"gathering", "abandoning", "halted"}

LEMMA FeedHasLockWatched ==
  ASSUME NEW f, f.pc \in {"waiting", "abandoning"}, f.pc = "waiting" => gap = NoGap, FeedHasLock(f)
  PROVE  gap' = NoGap
BY DEF FeedHasLock, GapUnchanged, Finish

LEMMA FeedAsksLockWatched ==
  ASSUME NEW f, f.pc \in {"waiting", "abandoning"}, f.pc = "waiting" => gap = NoGap, FeedAsksLock(f)
  PROVE  GapWatched'
<1>1. CASE FeedHasLock(f)
  BY <1>1, FeedHasLockWatched DEF GapWatched
<1>2. CASE feed' = f /\ GapUnchanged
  BY <1>2 DEF GapWatched, GapUnchanged
<1> QED BY <1>1, <1>2 DEF FeedAsksLock

LEMMA RepairHasLockWatched ==
  ASSUME NEW r \in RepairType, RepairHasLock(r)
  PROVE  GapWatched'
<1>1. CASE repair' = [r EXCEPT !.pc = "ready"]
  <2>1. repair'.pc = "ready"
    BY <1>1 DEF RepairType
  <2> QED BY <2>1 DEF GapWatched, Alive
<1>2. CASE gap' = NoGap
  BY <1>2 DEF GapWatched
<1> QED BY <1>1, <1>2 DEF RepairHasLock, Finish

LEMMA RepairAsksLockWatched ==
  ASSUME NEW r \in RepairType, r.pc = "waiting", RepairAsksLock(r)
  PROVE  GapWatched'
<1>1. CASE RepairHasLock(r)
  BY <1>1, RepairHasLockWatched
<1>2. CASE repair' = r
  BY <1>2 DEF GapWatched, Alive
<1> QED BY <1>1, <1>2 DEF RepairAsksLock

\* An event that is held back leaves the repair at work, or the task that
\* brought it is going to abandon the repair.
LEMMA HoldBackWatched ==
  ASSUME GapWatched, feed.pc \in {"idle", "inGap"}, gap # NoGap, NEW e, NEW g, HoldBack(e, g)
  PROVE  GapWatched'
<1>1. Alive
  BY DEF GapWatched
<1>2. CASE UNCHANGED <<repair, queue>>
  BY <1>1, <1>2 DEF GapWatched, Alive
<1>3. CASE feed' = Feed("gathering", e)
  BY <1>3 DEF GapWatched, Feed
<1> QED BY <1>2, <1>3 DEF HoldBack

LEMMA ForwardWatched ==
  ASSUME GapWatched, feed.pc \in {"idle", "inGap"}, NEW e, Forward(e)
  PROVE  GapWatched'
<1>1. CASE GapUnchanged
  BY <1>1 DEF GapWatched, GapUnchanged, Alive
<1>2. CASE gap # NoGap /\ HoldBack(e, gap)
  BY <1>2, HoldBackWatched
<1>3. CASE gap = NoGap /\ FeedAsksLock(Feed("waiting", e))
  <2>1. Feed("waiting", e).pc = "waiting"
    BY DEF Feed
  <2> QED BY <1>3, <2>1, FeedAsksLockWatched
<1> QED BY <1>1, <1>2, <1>3 DEF Forward

LEMMA StepWatched ==
  ASSUME Steady, ControlInv, GapWatched, [Next]_vars
  PROVE  GapWatched'
<1>1. FlowType /\ feed \in FeedType /\ repair \in RepairType
  BY TypeParts DEF ControlInv, FlowType
<1>2. ASSUME NEW e \in Event, Ingest(e) PROVE GapWatched'
  <2>1. CASE Forward(e) \/ PassGap(e)
    BY <1>2, <2>1, ForwardWatched DEF Ingest, PassGap, GapUnchanged, GapWatched, Alive
  <2>2. CASE OpenGap(e)
    BY <2>2 DEF OpenGap, NewRepair, NoRepair, GapWatched, Alive
  <2>3. CASE ExtendGap(e)
    BY <1>2, <2>3, HoldBackWatched DEF Ingest, ExtendGap
  <2> QED BY <1>2, <2>1, <2>2, <2>3 DEF Ingest
<1>3. ASSUME NEW k, Correct(k) PROVE GapWatched'
  <2>1. Feed("waiting", Closed(k)).pc = "waiting" /\ gap = NoGap
    BY <1>3, BusyFacts DEF Feed, Correct
  <2> QED BY <1>3, <2>1, FeedAsksLockWatched DEF Correct
<1>4. CASE AfterGap
  BY <1>4, ForwardWatched DEF AfterGap
<1>5. CASE Gathered
  <2> DEFINE f == [feed EXCEPT !.pc = "abandoning"]
  <2>1. f.pc = "abandoning"
    BY <1>1 DEF FeedType
  <2>2. FeedAsksLock(f)
    BY <1>5 DEF Gathered
  <2> HIDE DEF f
  <2> QED BY <2>1, <2>2, FeedAsksLockWatched
<1>6. CASE StartAttempt
  BY <1>6 DEF StartAttempt, GapWatched, Alive
<1>7. CASE FetchFails
  <2>1. repair'.pc = "ready"
    BY <1>1, <1>7 DEF FetchFails, RepairType
  <2> QED BY <2>1 DEF GapWatched, Alive
<1>8. CASE FetchSucceeds \/ FetchGivesUp
  <2>1. PICK ok \in BOOLEAN : RepairAsksLock([repair EXCEPT !.pc = "waiting", !.ok = ok])
    BY <1>8 DEF FetchSucceeds, FetchGivesUp
  <2> DEFINE r == [repair EXCEPT !.pc = "waiting", !.ok = ok]
  <2>2. r \in RepairType /\ r.pc = "waiting"
    BY <1>1 DEF RepairType, RepairPC
  <2>3. RepairAsksLock(r)
    BY <2>1
  <2> HIDE DEF r
  <2> QED BY <2>2, <2>3, RepairAsksLockWatched
<1>9. CASE Acquire
  <2>1. CASE Head(queue) = "feed" /\ FeedHasLock(feed)
    <3>1. Head(queue) \in Range(queue)
      BY <1>9, BusyFacts, QueueFacts DEF Acquire
    <3>2. feed.pc \in {"waiting", "abandoning"} /\ (feed.pc = "waiting" => gap = NoGap)
      BY <2>1, <3>1 DEF ControlInv, LockInv, GapInv
    <3> QED BY <2>1, <3>2, FeedHasLockWatched DEF GapWatched
  <2>2. CASE RepairHasLock(repair)
    BY <1>1, <2>2, RepairHasLockWatched
  <2> QED BY <1>9, <2>1, <2>2 DEF Acquire
<1>10. CASE EmitNext
  BY <1>10 DEF EmitNext, GapUnchanged, GapWatched, Alive
<1>11. CASE Release
  <2>1. holder # "repair" => gap = NoGap
    BY <1>1, <1>11 DEF ControlInv, LockInv, GapInv, FlowType, Release
  <2>2. gap' = gap /\ repair' = repair /\ (holder = "repair" => feed' = feed)
    BY <1>11 DEF Release, GapUnchanged
  <2> QED BY <2>1, <2>2 DEF GapWatched, Alive
<1>12. CASE SwitchFeed
  <2>1. gap = NoGap
    BY <1>12, BusyFacts DEF SwitchFeed, Steady, Enabled
  <2> QED BY <1>12, <2>1 DEF SwitchFeed, CancelledTo, GapUnchanged, GapWatched
<1>13. CASE StopFeed
  <2>1. feed'.pc = "halted"
    BY <1>13, IdleFeedFacts DEF StopFeed, CancelledTo, FeedType
  <2> QED BY <2>1 DEF GapWatched
<1>14. CASE StopRecovery
  <2>1. feed'.pc = "gathering"
    BY <1>1, <1>14 DEF StopRecovery, FeedType
  <2> QED BY <2>1 DEF GapWatched
<1>15. CASE UNCHANGED vars
  BY <1>15 DEF vars, GapWatched, Alive
<1> QED BY <1>2, <1>3, <1>4, <1>5, <1>6, <1>7, <1>8, <1>9, <1>10, <1>11, <1>12, <1>13, <1>14, <1>15
        DEF Next, Stopped, Repair, Lock

\* No event is held back for good: behind an open gap a repair is at work, or a
\* task is abandoning it, unless a feed switch cancels that task.
THEOREM NoGapIsOrphaned == Steady => (Spec => []GapHasRepair)
<1> SUFFICES ASSUME Steady PROVE Spec => []GapHasRepair
  OBVIOUS
<1>1. Init => ControlInv /\ GapWatched
  BY InitControl DEF Init, GapWatched
<1>2. ControlInv /\ GapWatched /\ [Next]_vars => (ControlInv /\ GapWatched)'
  BY StepControl, StepWatched
<1>3. ControlInv /\ GapWatched => GapHasRepair
  BY DEF ControlInv, GapInv, GapWatched, GapHasRepair, Alive
<1> QED BY <1>1, <1>2, <1>3, PTL DEF Spec

===============================================================================
