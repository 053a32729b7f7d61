---------------------- MODULE BackfillScheduler_proofs ----------------------
(***************************************************************************)
(* Proofs about BackfillScheduler.  The inductive invariant IInv has five  *)
(* parts: the queue that _drain reads (QueueOK: active and pending lists,  *)
(* tasks, waiting chunks, lanes), what every parent counts (ParentsOK),    *)
(* whom each demand was answered with (AnswerOK), the bookkeeping (RestOK) *)
(* and AlwaysWoken.                                                        *)
(*                                                                         *)
(* A handler changes what the queue says of one parent (OneParent) and     *)
(* ends in a drain; the drain of any queue in order leaves it in order,    *)
(* wakes somebody while chunks wait and lets foreground work go first      *)
(* (DrainedKeeps), whatever the order of the heap.  DrainLands puts the    *)
(* two together.                                                           *)
(***************************************************************************)
EXTENDS BackfillScheduler, FiniteNaturals, TLAPS

-----------------------------------------------------------------------------
(* The invariant                                                           *)

\* The priorities of the reasons.
Priorities == {Priority(x) : x \in Reasons}

\* A parent's task.
TaskType == [stage : {"none", "fetching", "committing", "withdrawing"}, slot : Nat,
             trusted : BOOLEAN]

\* The records that the handlers and the drain pass on.
QueueType ==
  [active : [SeriesKeys -> Requests \cup {Absent}], pending : [SeriesKeys -> Seq(Requests)],
   task : [Requests -> TaskType], last : [Priorities \X BOOLEAN -> Cells \cup {Absent}],
   timer : BOOLEAN, workers : Concurrency, parent : [Requests -> Parent],
   line : Seq(Requests \X Nat), deferred : SUBSET (Requests \X Nat), tokens : Nat,
   delayed : BOOLEAN]

\* The scheduler as the queue of a handler that has done nothing yet.
Now ==
  [active |-> active, pending |-> pending, task |-> task, last |-> lastCell, timer |-> timer,
   workers |-> workers, parent |-> parent, line |-> line, deferred |-> deferred,
   tokens |-> 0, delayed |-> FALSE]

\* A parent that fetches or commits is the active parent of its series.
ActiveOK(s) ==
  /\ \A p \in Requests :
       s.task[p].stage \in {"fetching", "committing"} <=> s.active[Series(p)] = p
  /\ \A x \in SeriesKeys : s.active[x] # Absent => Series(s.active[x]) = x

\* The pending parents of a series have work left and nothing else holds them.
PendingOK(s, L, R) ==
  \A x \in SeriesKeys : \A p \in ToSet(s.pending[x]) :
    /\ Series(p) = x /\ p \in L \ R
    /\ s.task[p].stage = "none" /\ ~s.parent[p].cancelled
    /\ SlotsOf(s.line, p) # {}

\* No parent is lost, and only a parent that is asked for has a task.
TasksOK(s, L, R) ==
  /\ \A p \in L : p \in ToSet(s.pending[Series(p)]) \/ s.task[p].stage # "none" \/ p \in R
  /\ \A p \in Requests : s.task[p].stage # "none" => p \in L \ R
  /\ \A p \in Requests : s.task[p].stage = "fetching" =>
       s.task[p].slot \in SlotsOf(s.line, p) /\ s.task[p].trusted = s.parent[p].trusted

\* Chunks wait for a parent that is pending or fetches, and that has a lane.
ChunksOK(s) ==
  \A p \in Requests : SlotsOf(s.line, p) # {} =>
    /\ s.task[p].stage = "fetching" \/ p \in ToSet(s.pending[Series(p)])
    /\ s.parent[p].priority \in Priorities /\ s.parent[p].reasons # {}
    /\ s.parent[p].cell \in Cells

\* The worker slots and the reserve.
Limit(s) == IF s.workers = 1 THEN 2 ELSE s.workers

\* The tasks fit the slots, and one of them at most is background work.
LanesOK(s) ==
  /\ Cardinality(Tasks(s)) <= Limit(s)
  /\ \A p, q \in Tasks(s) :
       IsBackground(ReasonsNow(s, p)) /\ IsBackground(ReasonsNow(s, q)) => p = q

\* The queue in order, where L are the live parents and R those whose cancellation
\* a caller commits.
QueueOK(s, L, R) ==
  /\ s \in QueueType
  /\ ActiveOK(s) /\ PendingOK(s, L, R) /\ TasksOK(s, L, R) /\ ChunksOK(s) /\ LanesOK(s)

\* A parent's range, and the chunk of a task.
Whole(st) == st.first..st.last
HeldBy(tk) == IF tk.stage # "none" THEN {tk.slot} ELSE {}

\* A withdrawn parent: nobody holds it, and only the chunk of its task is left.
\* tk is its task, slots its chunks, waits whether its caller commits the end.
CancelOK(st, tk, slots, waits) ==
  /\ st.cancelled => /\ st.stale /\ st.leases = {} /\ ~st.persistent
                     /\ slots \subseteq HeldBy(tk)
  /\ tk.stage = "withdrawing" \/ waits => st.cancelled

\* What a parent has fetched and what it still waits for add up to its range.
CountOK(st, tk, slots) ==
  /\ slots \subseteq Whole(st)
  /\ ~st.cancelled /\ tk.stage # "committing" =>
       /\ Whole(st) \subseteq st.fetched \cup slots
       /\ st.completed + Cardinality(slots) = st.total
  /\ tk.stage # "committing" /\ st.completed = 0 => st.fetched = {}
  /\ tk.stage = "committing" /\ st.verdict = "filled" => Whole(st) \subseteq st.fetched
  /\ st.weak \subseteq st.fetched
  /\ st.trusted => st.weak = {}
  /\ st.completed <= st.total

\* A live parent in order.
ParentOK(st, tk, slots, waits) ==
  /\ st.reasons # {} /\ st.priority \in Priorities /\ st.cell \in Cells
  /\ CancelOK(st, tk, slots, waits) /\ CountOK(st, tk, slots)

\* Live parents are in order, and nothing is left of the others.
ParentsOK ==
  \A p \in Requests :
    IF p \in live THEN ParentOK(parent[p], task[p], SlotsOf(line, p), p \in revoking)
    ELSE parent[p] = NoParent

\* Whom a demand was joined to, and what that parent owes it.
AnswerOK(r) ==
  /\ r \in live => canonical[r] = r
  /\ canonical[r] # Absent =>
       /\ canonical[canonical[r]] = canonical[r]
       /\ canonical[r] \in live =>
            /\ Demand[r].first..Demand[r].last \subseteq Whole(parent[canonical[r]])
            /\ Demand[r].trusted => parent[canonical[r]].trusted

\* The rest of the state.
RestOK ==
  /\ workers \in Concurrency /\ phase \in {"up", "stopping", "down"}
  /\ canonical \in [Requests -> Requests \cup {Absent}]
  /\ live \subseteq Requests /\ revoking \subseteq Requests /\ revoked \subseteq Owners
  /\ deferred \subseteq ToSet(line) /\ \A c \in deferred : ~parent[c[1]].cancelled
  /\ future \in [Requests -> Outcomes \cup {"open"}]
  /\ faults \in 0..MaxFaults
  /\ IF phase = "down" THEN live = {} ELSE revoking \subseteq live

\* The inductive invariant.
IInv ==
  /\ RestOK
  /\ QueueOK(Now, live, revoking)
  /\ ParentsOK
  /\ \A r \in Requests : AnswerOK(r)
  /\ AlwaysWoken

\* What Append and \o do to the elements.
LEMMA AppendAdds == ASSUME NEW S, NEW l \in Seq(S), NEW x \in S
                    PROVE  Append(l, x) \in Seq(S) /\ ToSet(Append(l, x)) = ToSet(l) \cup {x}
<1>1. Append(l, x) \in Seq(S) /\ Len(Append(l, x)) = Len(l) + 1
  OBVIOUS
<1>2. \A i \in 1..Len(l) : Append(l, x)[i] = l[i]
  OBVIOUS
<1>3. Append(l, x)[Len(l) + 1] = x
  OBVIOUS
<1>4. 1..(Len(l) + 1) = (1..Len(l)) \cup {Len(l) + 1}
  OBVIOUS
<1>5. DOMAIN l = 1..Len(l) /\ DOMAIN Append(l, x) = 1..(Len(l) + 1)
  BY <1>1
<1> QED BY <1>1, <1>2, <1>3, <1>4, <1>5 DEF ToSet

\* The elements of two sequences put together.
LEMMA JoinAdds == ASSUME NEW S, NEW l \in Seq(S), NEW m \in Seq(S)
                  PROVE  l \o m \in Seq(S) /\ ToSet(l \o m) = ToSet(l) \cup ToSet(m)
<1>1. l \o m \in Seq(S) /\ Len(l \o m) = Len(l) + Len(m)
  OBVIOUS
<1>2. \A i \in 1..(Len(l) + Len(m)) : (l \o m)[i] = IF i <= Len(l) THEN l[i] ELSE m[i - Len(l)]
  OBVIOUS
<1>3. ASSUME NEW y \in ToSet(l \o m) PROVE y \in ToSet(l) \cup ToSet(m)
  <2>1. PICK i \in 1..(Len(l) + Len(m)) : y = (l \o m)[i]
    BY <1>1, <1>3 DEF ToSet
  <2>2. CASE i <= Len(l)
    <3>1. i \in DOMAIN l /\ y = l[i]
      BY <1>2, <2>1, <2>2
    <3> QED BY <3>1 DEF ToSet
  <2>3. CASE ~(i <= Len(l))
    <3>1. i - Len(l) \in DOMAIN m /\ y = m[i - Len(l)]
      BY <1>2, <2>1, <2>3
    <3> QED BY <3>1 DEF ToSet
  <2> QED BY <2>2, <2>3
<1>4. ASSUME NEW y \in ToSet(l) PROVE y \in ToSet(l \o m)
  <2>1. PICK i \in 1..Len(l) : y = l[i]
    BY <1>4 DEF ToSet
  <2>2. i \in DOMAIN (l \o m) /\ y = (l \o m)[i]
    BY <1>1, <1>2, <2>1
  <2> QED BY <2>2 DEF ToSet
<1>5. ASSUME NEW y \in ToSet(m) PROVE y \in ToSet(l \o m)
  <2>1. PICK i \in 1..Len(m) : y = m[i]
    BY <1>5 DEF ToSet
  <2>2. i + Len(l) \in DOMAIN (l \o m) /\ y = (l \o m)[i + Len(l)]
    BY <1>1, <1>2, <2>1
  <2> QED BY <2>2 DEF ToSet
<1> QED BY <1>1, <1>3, <1>4, <1>5

-----------------------------------------------------------------------------
(* Recursion and sequences                                                 *)

\* Induction up to n, on the set of numbers a statement is true of.
LEMMA UpTo ==
  ASSUME NEW n \in Nat, NEW T \in SUBSET (0..n), 0 \in T, \A k \in 1..n : k - 1 \in T => k \in T
  PROVE  T = 0..n
<1> SUFFICES ASSUME (0..n) \ T # {} PROVE FALSE
  OBVIOUS
<1>1. PICK m \in (0..n) \ T : \A k \in (0..n) \ T : m <= k
  <2>1. (0..n) \ T \in SUBSET Nat
    OBVIOUS
  <2> QED BY <2>1, MinExists
<1>2. m \in 1..n /\ m - 1 \in 0..n
  BY <1>1
<1> QED BY <1>1, <1>2

\* f is what the steps g make of d.
Runs(f, d, n, g) == f[0] = d /\ \A k \in 1..n : f[k] = g[<<f[k - 1], k>>]

\* What is defined step by step from a start has every step.
LEMMA StepsExist ==
  ASSUME NEW D, NEW d \in D, NEW n \in Nat, NEW g \in [D \X (1..n) -> D]
  PROVE  \E f \in [0..n -> D] : Runs(f, d, n, g)
<1> DEFINE Upto(f, m) == f \in [0..m -> D] /\ f[0] = d /\ \A k \in 1..m : f[k] = g[<<f[k - 1], k>>]
           T == {m \in 0..n : \E f : Upto(f, m)}
<1>1. 0 \in T
  <2> DEFINE h == [k \in 0..0 |-> d]
  <2>1. Upto(h, 0)
    OBVIOUS
  <2> HIDE DEF h, Upto
  <2>2. \E f : Upto(f, 0)
    BY <2>1
  <2> QED BY <2>2
<1>2. ASSUME NEW m \in 1..n, m - 1 \in T PROVE m \in T
  <2>1. PICK f : Upto(f, m - 1)
    BY <1>2
  <2> DEFINE h == [k \in 0..m |-> IF k = m THEN g[<<f[m - 1], m>>] ELSE f[k]]
  <2>2. f[m - 1] \in D /\ g[<<f[m - 1], m>>] \in D
    BY <2>1
  <2>3. h \in [0..m -> D]
    BY <2>1, <2>2
  <2>4. h[0] = d
    BY <2>1
  <2>5. ASSUME NEW k \in 1..m PROVE h[k] = g[<<h[k - 1], k>>]
    <3>1. k - 1 \in 0..m /\ k - 1 # m /\ k \in 0..m
      OBVIOUS
    <3>2. h[k - 1] = f[k - 1]
      BY <3>1
    <3>3. CASE k = m
      BY <3>1, <3>2, <3>3
    <3>4. CASE k # m
      <4>1. k \in 1..(m - 1)
        BY <3>4
      <4> QED BY <3>1, <3>2, <3>4, <4>1, <2>1
    <3> QED BY <3>3, <3>4
  <2> HIDE DEF h
  <2>6. Upto(h, m)
    BY <2>3, <2>4, <2>5
  <2> HIDE DEF Upto
  <2>7. \E e : Upto(e, m)
    BY <2>6
  <2> QED BY <2>7
<1>3. n \in T
  <2> HIDE DEF T
  <2>1. T \in SUBSET (0..n)
    BY DEF T
  <2>2. T = 0..n
    BY <1>1, <1>2, <2>1, UpTo
  <2> QED BY <2>2
<1> QED BY <1>3 DEF Runs

\* f is the recursive function of Without.
Kept(f, l, gone) ==
  f = [k \in 0..Len(l) |-> IF k = 0 THEN <<>>
                           ELSE IF l[k] \in gone THEN f[k - 1] ELSE Append(f[k - 1], l[k])]

\* Without is the last value of its recursive function.
LEMMA WithoutIsKept == ASSUME NEW l, NEW gone
                       PROVE Without(l, gone) = (CHOOSE f : Kept(f, l, gone))[Len(l)]
  BY DEF Without, Kept

\* Without keeps what is not gone.
LEMMA WithoutKeeps ==
  ASSUME NEW S, NEW l \in Seq(S), NEW gone
  PROVE  Without(l, gone) \in Seq(S) /\ ToSet(Without(l, gone)) = ToSet(l) \ gone
<1> DEFINE n == Len(l)
           g == [x \in Seq(S) \X (1..n) |-> IF l[x[2]] \in gone THEN x[1] ELSE Append(x[1], l[x[2]])]
<1>1. n \in Nat /\ \A k \in 1..n : l[k] \in S
  OBVIOUS
<1>2. \E f : Kept(f, l, gone)
  <2>1. g \in [Seq(S) \X (1..n) -> Seq(S)]
    OBVIOUS
  <2>2. <<>> \in Seq(S)
    OBVIOUS
  <2>3. PICK f \in [0..n -> Seq(S)] : f[0] = <<>> /\ \A k \in 1..n : f[k] = g[<<f[k - 1], k>>]
    <3> DEFINE D == Seq(S)
               d == <<>>
    <3>1. n \in Nat /\ d \in D /\ g \in [D \X (1..n) -> D]
      BY <1>1, <2>1, <2>2
    <3> HIDE DEF g, n, d, D
    <3>2. \E f \in [0..n -> D] : Runs(f, d, n, g)
      BY <3>1, StepsExist
    <3> QED BY <3>2 DEF D, d, Runs
  <2>4. ASSUME NEW k \in 0..n
        PROVE  f[k] = IF k = 0 THEN <<>> ELSE IF l[k] \in gone THEN f[k - 1] ELSE Append(f[k - 1], l[k])
    <3>1. CASE k # 0
      <4>1. k \in 1..n /\ k - 1 \in 0..n
        BY <3>1
      <4>2. f[k - 1] \in Seq(S)
        BY <4>1
      <4> QED BY <3>1, <4>1, <4>2, <2>3
    <3> QED BY <2>3, <3>1
  <2>5. f = [k \in 0..n |-> f[k]]
    OBVIOUS
  <2> QED BY <2>4, <2>5 DEF Kept
<1> DEFINE f == CHOOSE f : Kept(f, l, gone)
<1>3. Kept(f, l, gone)
  BY <1>2
<1> HIDE DEF f
<1>4. \A k \in 0..n : f[k] = IF k = 0 THEN <<>> ELSE IF l[k] \in gone THEN f[k - 1] ELSE Append(f[k - 1], l[k])
  BY <1>3 DEF Kept
<1> DEFINE T == {k \in 0..n : f[k] \in Seq(S) /\ ToSet(f[k]) = {l[i] : i \in 1..k} \ gone}
<1>5. 0 \in T
  <2>1. f[0] = <<>>
    BY <1>1, <1>4
  <2>2. ToSet(<<>>) = {}
    BY DEF ToSet
  <2>3. {l[i] : i \in 1..0} = {}
    OBVIOUS
  <2>4. 0 \in 0..n /\ <<>> \in Seq(S)
    BY <1>1
  <2> QED BY <2>1, <2>2, <2>3, <2>4
<1>6. ASSUME NEW k \in 1..n, k - 1 \in T PROVE k \in T
  <2>1. f[k - 1] \in Seq(S) /\ ToSet(f[k - 1]) = {l[i] : i \in 1..(k - 1)} \ gone
    BY <1>6
  <2>2. f[k] = IF l[k] \in gone THEN f[k - 1] ELSE Append(f[k - 1], l[k])
    BY <1>4
  <2>3. {l[i] : i \in 1..k} = {l[i] : i \in 1..(k - 1)} \cup {l[k]}
    <3>1. 1..k = (1..(k - 1)) \cup {k}
      OBVIOUS
    <3> QED BY <3>1
  <2>4. CASE l[k] \in gone
    BY <2>1, <2>2, <2>3, <2>4
  <2>5. CASE l[k] \notin gone
    <3>1. f[k] = Append(f[k - 1], l[k]) /\ l[k] \in S
      BY <1>1, <2>2, <2>5
    <3>2. ToSet(f[k]) = ToSet(f[k - 1]) \cup {l[k]} /\ f[k] \in Seq(S)
      BY <2>1, <3>1, AppendAdds
    <3> QED BY <2>1, <2>3, <2>5, <3>2
  <2> QED BY <2>4, <2>5
<1>7. n \in T
  <2> HIDE DEF T, n
  <2>1. T \in SUBSET (0..n)
    BY DEF T
  <2>2. T = 0..n
    BY <1>1, <1>5, <1>6, <2>1, UpTo
  <2> QED BY <1>1, <2>2
<1>8. ToSet(l) = {l[i] : i \in 1..n}
  BY DEF ToSet
<1>9. Without(l, gone) = f[n]
  BY WithoutIsKept DEF f
<1> QED BY <1>7, <1>8, <1>9

\* before is a strict total order of S.
StrictOrder(S, before) ==
  /\ \A x \in S : <<x, x>> \notin before
  /\ \A x, y, z \in S : <<x, y>> \in before /\ <<y, z>> \in before => <<x, z>> \in before
  /\ \A x, y \in S : x = y \/ <<x, y>> \in before \/ <<y, x>> \in before

\* A finite ordered set has a first element: the one with the fewest before it.
LEMMA FirstExists ==
  ASSUME NEW S, IsFiniteSet(S), S # {}, NEW before, StrictOrder(S, before)
  PROVE  First(S, before) \in S
<1> DEFINE Below(x) == {y \in S : <<y, x>> \in before}
           sizes == {Cardinality(Below(x)) : x \in S}
<1>1. \A x \in S : IsFiniteSet(Below(x)) /\ Cardinality(Below(x)) \in Nat
  BY FS_Subset, FS_CardinalityType
<1>2. PICK n \in sizes : \A m \in sizes : n <= m
  <2>1. sizes \in SUBSET Nat /\ sizes # {}
    BY <1>1
  <2> HIDE DEF sizes
  <2> QED BY <2>1, MinExists
<1>3. PICK x \in S : n = Cardinality(Below(x))
  BY <1>2
<1>4. ASSUME NEW y \in S PROVE y = x \/ <<x, y>> \in before
  <2> SUFFICES ASSUME <<y, x>> \in before PROVE FALSE
    BY DEF StrictOrder
  <2>1. Below(y) \in SUBSET Below(x)
    BY DEF StrictOrder
  <2>2. y \in Below(x) /\ y \notin Below(y)
    BY DEF StrictOrder
  <2>3. Below(x) # Below(y)
    BY <2>2
  <2>4. n <= Cardinality(Below(y))
    BY <1>2
  <2>5. IsFiniteSet(Below(x))
    BY <1>1
  <2>6. Cardinality(Below(x)) \in Nat /\ Cardinality(Below(y)) \in Nat
    BY <1>1
  <2> HIDE DEF Below
  <2>7. Cardinality(Below(y)) <= Cardinality(Below(x)) /\ Cardinality(Below(x)) # Cardinality(Below(y))
    BY <2>1, <2>3, <2>5, FS_Subset
  <2> QED BY <1>3, <2>4, <2>6, <2>7
<1>5. \E z \in S : \A y \in S : y = z \/ <<z, y>> \in before
  BY <1>4
<1> QED BY <1>5 DEF First

\* f is the recursive function of InOrder.
Listed(f, S, before) ==
  f = [k \in 0..Cardinality(S) |->
         IF k = 0 THEN <<>> ELSE Append(f[k - 1], First(S \ ToSet(f[k - 1]), before))]

\* InOrder is the last value of its recursive function.
LEMMA InOrderIsListed == ASSUME NEW S, NEW before
                         PROVE InOrder(S, before) = (CHOOSE f : Listed(f, S, before))[Cardinality(S)]
  BY DEF InOrder, Listed

\* InOrder lists every element of a finite ordered set once.
LEMMA InOrderLists ==
  ASSUME NEW S, IsFiniteSet(S), NEW before, StrictOrder(S, before)
  PROVE  /\ InOrder(S, before) \in Seq(S)
         /\ Len(InOrder(S, before)) = Cardinality(S)
         /\ ToSet(InOrder(S, before)) = S
<1> DEFINE n == Cardinality(S)
           A == S \cup {First({}, before)}
           g == [x \in Seq(A) \X (1..n) |-> Append(x[1], First(S \ ToSet(x[1]), before))]
<1>1. n \in Nat
  BY FS_CardinalityType
<1>2. ASSUME NEW T \in SUBSET S PROVE First(T, before) \in A /\ (T # {} => First(T, before) \in T)
  <2>1. CASE T = {}
    BY <2>1
  <2>2. CASE T # {}
    <3>1. IsFiniteSet(T) /\ StrictOrder(T, before)
      BY FS_Subset DEF StrictOrder
    <3> QED BY <2>2, <3>1, FirstExists
  <2> QED BY <2>1, <2>2
<1>3. \E f : Listed(f, S, before)
  <2>1. ASSUME NEW l \in Seq(A), NEW k \in 1..n
        PROVE  Append(l, First(S \ ToSet(l), before)) \in Seq(A)
    <3>1. First(S \ ToSet(l), before) \in A
      BY <1>2
    <3> HIDE DEF A
    <3> QED BY <3>1
  <2>2. PICK f \in [0..n -> Seq(A)] : Runs(f, <<>>, n, g)
    <3> DEFINE D == Seq(A)
               d == <<>>
    <3>1. g \in [D \X (1..n) -> D]
      BY <2>1
    <3>2. n \in Nat /\ d \in D
      BY <1>1
    <3> HIDE DEF g, n, d, D
    <3>3. \E f \in [0..n -> D] : Runs(f, d, n, g)
      BY <3>1, <3>2, StepsExist
    <3> QED BY <3>3 DEF D, d
  <2>3. ASSUME NEW k \in 0..n
        PROVE  f[k] = IF k = 0 THEN <<>> ELSE Append(f[k - 1], First(S \ ToSet(f[k - 1]), before))
    <3>1. CASE k # 0
      <4>1. k \in 1..n /\ k - 1 \in 0..n
        BY <1>1, <3>1
      <4>2. f[k - 1] \in Seq(A)
        BY <4>1
      <4>3. f[k] = g[<<f[k - 1], k>>]
        BY <2>2, <4>1 DEF Runs
      <4>4. <<f[k - 1], k>> \in Seq(A) \X (1..n)
        BY <4>1, <4>2
      <4>5. f[k] = Append(f[k - 1], First(S \ ToSet(f[k - 1]), before))
        BY <4>3, <4>4
      <4> QED BY <3>1, <4>5
    <3> QED BY <2>2, <3>1 DEF Runs
  <2>4. f = [k \in 0..n |-> f[k]]
    OBVIOUS
  <2>5. f = [k \in 0..n |-> IF k = 0 THEN <<>>
                            ELSE Append(f[k - 1], First(S \ ToSet(f[k - 1]), before))]
    BY <2>3, <2>4
  <2> QED BY <2>5 DEF Listed
<1> DEFINE f == CHOOSE f : Listed(f, S, before)
<1>4. Listed(f, S, before)
  BY <1>3
<1> HIDE DEF f
<1>5. \A k \in 0..n : f[k] = IF k = 0 THEN <<>> ELSE Append(f[k - 1], First(S \ ToSet(f[k - 1]), before))
  BY <1>4 DEF Listed
<1> DEFINE T == {k \in 0..n : /\ f[k] \in Seq(S) /\ Len(f[k]) = k
                              /\ IsFiniteSet(ToSet(f[k])) /\ Cardinality(ToSet(f[k])) = k}
<1>6. 0 \in T
  <2>0. 0 \in 0..n
    BY <1>1
  <2>1. f[0] = <<>>
    BY <1>5, <2>0
  <2>2. ToSet(<<>>) = {} /\ <<>> \in Seq(S) /\ Len(<<>>) = 0
    BY DEF ToSet
  <2> QED BY <2>0, <2>1, <2>2, FS_EmptySet
<1>7. ASSUME NEW k \in 1..n, k - 1 \in T PROVE k \in T
  <2> DEFINE l == f[k - 1]
             x == First(S \ ToSet(l), before)
  <2>1. /\ l \in Seq(S) /\ Len(l) = k - 1
        /\ IsFiniteSet(ToSet(l)) /\ Cardinality(ToSet(l)) = k - 1
    BY <1>7
  <2>0. k \in 0..n /\ k # 0 /\ k - 1 # n /\ k - 1 + 1 = k
    BY <1>1
  <2>2. f[k] = Append(l, x)
    BY <1>5, <2>0
  <2>3. ToSet(l) \in SUBSET S
    BY <2>1 DEF ToSet
  <2>4. S \ ToSet(l) # {}
    <3> SUFFICES ASSUME S \ ToSet(l) = {} PROVE FALSE
      OBVIOUS
    <3>1. ToSet(l) = S
      BY <2>3
    <3>2. Cardinality(ToSet(l)) = n
      BY <3>1
    <3> HIDE DEF l, n
    <3> QED BY <2>0, <2>1, <3>2
  <2>5. x \in S /\ x \notin ToSet(l)
    BY <1>2, <2>4
  <2> HIDE DEF x, l
  <2>6. /\ f[k] \in Seq(S) /\ Len(f[k]) = k /\ ToSet(f[k]) = ToSet(l) \cup {x}
    <3>1. Len(Append(l, x)) = Len(l) + 1
      BY <2>1, <2>5
    <3> QED BY <2>1, <2>2, <2>5, <3>1, AppendAdds
  <2>7. IsFiniteSet(ToSet(l) \cup {x}) /\ Cardinality(ToSet(l) \cup {x}) = k - 1 + 1
    BY <2>1, <2>5, FS_AddElement
  <2> QED BY <2>0, <2>6, <2>7
<1>8. n \in T
  <2> HIDE DEF T, n
  <2>1. T \in SUBSET (0..n)
    BY DEF T
  <2>2. T = 0..n
    BY <1>1, <1>6, <1>7, <2>1, UpTo
  <2> QED BY <1>1, <2>2
<1>9. InOrder(S, before) = f[n]
  BY InOrderIsListed DEF f
<1>10. ToSet(f[n]) \in SUBSET S
  BY <1>8 DEF ToSet
<1>11. ToSet(f[n]) = S
  BY <1>8, <1>10, FS_Subset
<1> QED BY <1>8, <1>9, <1>11

\* The chunks of a set of slots, whichever way round.
LEMMA ChunksOfSlots ==
  ASSUME NEW p \in Requests, NEW slots \in SUBSET Nat, IsFiniteSet(slots), NEW reversed
  PROVE  /\ ChunksInOrder(p, slots, reversed) \in Seq(Requests \X Nat)
         /\ ToSet(ChunksInOrder(p, slots, reversed)) = {p} \X slots
<1> DEFINE before == {x \in slots \X slots : IF reversed THEN x[1] > x[2] ELSE x[1] < x[2]}
           l == SlotsInOrder(slots, reversed)
           n == Cardinality(slots)
           m == ChunksInOrder(p, slots, reversed)
<1>1. StrictOrder(slots, before)
  <2>1. \A x \in slots : <<x, x>> \notin before
    OBVIOUS
  <2>2. \A x, y \in slots : <<x, y>> \in before <=> IF reversed THEN x > y ELSE x < y
    OBVIOUS
  <2>3. \A x, y, z \in slots : <<x, y>> \in before /\ <<y, z>> \in before => <<x, z>> \in before
    BY <2>2
  <2>4. ASSUME NEW x \in slots, NEW y \in slots
        PROVE  x = y \/ <<x, y>> \in before \/ <<y, x>> \in before
    <3>1. x \in Nat /\ y \in Nat
      OBVIOUS
    <3>2. x = y \/ x < y \/ y < x
      BY <3>1
    <3>3. x > y <=> y < x
      BY <3>1
    <3>4. y > x <=> x < y
      BY <3>1
    <3> HIDE DEF before
    <3> QED BY <2>2, <3>2, <3>3, <3>4
  <2> QED BY <2>1, <2>3, <2>4 DEF StrictOrder
<1>2. l = InOrder(slots, before)
  BY DEF SlotsInOrder
<1>3. l \in Seq(slots) /\ Len(l) = n /\ ToSet(l) = slots /\ n \in Nat
  <2> HIDE DEF before, l
  <2> QED BY <1>1, <1>2, InOrderLists, FS_CardinalityType
<1>4. m = [i \in 1..n |-> <<p, l[i]>>]
  BY DEF ChunksInOrder
<1> HIDE DEF m, l, n
<1>5. \A i \in 1..n : l[i] \in slots
  BY <1>3
<1>6. m \in Seq(Requests \X Nat) /\ DOMAIN m = 1..n
  <2>1. \A i \in 1..n : <<p, l[i]>> \in Requests \X Nat
    BY <1>5
  <2>2. m \in [1..n -> Requests \X Nat]
    BY <1>4, <2>1
  <2> QED BY <1>3, <2>2
<1>7. ToSet(m) = {<<p, l[i]>> : i \in 1..n}
  BY <1>4, <1>6 DEF ToSet
<1>8. slots = {l[i] : i \in 1..n}
  BY <1>3 DEF ToSet
<1>9. ToSet(m) = {p} \X slots
  BY <1>7, <1>8
<1> QED BY <1>6, <1>9 DEF m

-----------------------------------------------------------------------------
(* The drain                                                               *)

\* Every request asks for a series.
LEMMA DemandSeries == \A r \in Requests : Demand[r] \in DemandType /\ Series(r) \in SeriesKeys /\ r # Absent
  BY SchedulerAssumption DEF DemandType, Series

\* What SlotsOf lists.
LEMMA SlotsAre ==
  ASSUME NEW l, ToSet(l) \in SUBSET (Requests \X Nat), NEW p
  PROVE  /\ SlotsOf(l, p) \in SUBSET Nat
         /\ \A n : n \in SlotsOf(l, p) <=> <<p, n>> \in ToSet(l)
  BY DEF SlotsOf

\* What a line holds.
LEMMA LineTyped == ASSUME NEW l \in Seq(Requests \X Nat) PROVE ToSet(l) \in SUBSET (Requests \X Nat)
  BY DEF ToSet

\* The heap holds every ready chunk.
LEMMA HeapCovers ==
  ASSUME NEW s, s.line \in Seq(Requests \X Nat), s.parent \in [Requests -> Parent]
  PROVE  /\ HeapOrder(s) \in Seq(Ready(s)) /\ ToSet(HeapOrder(s)) = Ready(s)
         /\ Ready(s) \in SUBSET (DOMAIN s.line)
<1> DEFINE ready == Ready(s)
           priority(i) == s.parent[s.line[i][1]].priority
           before == {x \in ready \X ready : \/ priority(x[1]) < priority(x[2])
                                             \/ priority(x[1]) = priority(x[2]) /\ x[1] < x[2]}
<1>1. ready \in SUBSET (1..Len(s.line)) /\ DOMAIN s.line = 1..Len(s.line) /\ Len(s.line) \in Nat
  BY DEF Ready
<1>2. IsFiniteSet(ready)
  <2>1. IsFiniteSet(1..Len(s.line))
    BY <1>1, FS_Interval
  <2> HIDE DEF ready
  <2> QED BY <1>1, <2>1, FS_Subset
<1>3. \A i \in ready : i \in Nat /\ priority(i) \in Nat
  <2>1. ASSUME NEW i \in ready PROVE s.line[i] \in Requests \X Nat
    BY <1>1
  <2>2. ASSUME NEW i \in ready PROVE s.parent[s.line[i][1]] \in Parent
    BY <2>1
  <2>3. \A x \in Parent : x.priority \in Nat
    BY DEF Parent
  <2> QED BY <1>1, <2>2, <2>3
<1> HIDE DEF priority
<1>4. StrictOrder(ready, before)
  <2>1. \A x, y \in ready : <<x, y>> \in before <=>
          \/ priority(x) < priority(y)
          \/ priority(x) = priority(y) /\ x < y
    OBVIOUS
  <2> HIDE DEF before, ready
  <2>2. ASSUME NEW x \in ready PROVE <<x, x>> \notin before
    <3>1. x \in Nat /\ priority(x) \in Nat
      BY <1>3
    <3>2. ~(priority(x) < priority(x)) /\ ~(x < x)
      BY <3>1
    <3> QED BY <2>1, <3>2
  <2>3. ASSUME NEW x \in ready, NEW y \in ready, NEW z \in ready,
               <<x, y>> \in before, <<y, z>> \in before
        PROVE  <<x, z>> \in before
    <3>1. x \in Nat /\ priority(x) \in Nat /\ y \in Nat /\ priority(y) \in Nat
          /\ z \in Nat /\ priority(z) \in Nat
      BY <1>3
    <3>2. /\ priority(x) < priority(y) \/ (priority(x) = priority(y) /\ x < y)
          /\ priority(y) < priority(z) \/ (priority(y) = priority(z) /\ y < z)
      BY <2>1, <2>3
    <3>3. priority(x) < priority(z) \/ (priority(x) = priority(z) /\ x < z)
      BY <3>1, <3>2
    <3> QED BY <2>1, <3>3
  <2>4. ASSUME NEW x \in ready, NEW y \in ready
        PROVE  x = y \/ <<x, y>> \in before \/ <<y, x>> \in before
    <3>1. x \in Nat /\ priority(x) \in Nat /\ y \in Nat /\ priority(y) \in Nat
      BY <1>3
    <3>2. \/ x = y
          \/ priority(x) < priority(y) \/ (priority(x) = priority(y) /\ x < y)
          \/ priority(y) < priority(x) \/ (priority(y) = priority(x) /\ y < x)
      BY <3>1
    <3> QED BY <2>1, <3>2
  <2> QED BY <2>2, <2>3, <2>4 DEF StrictOrder
<1>5. HeapOrder(s) = InOrder(ready, before)
  BY DEF HeapOrder, priority
<1> HIDE DEF ready, before
<1>6. HeapOrder(s) \in Seq(ready) /\ ToSet(HeapOrder(s)) = ready
  BY <1>2, <1>4, <1>5, InOrderLists
<1> QED BY <1>1, <1>6 DEF ready

\* A queue with other tasks is a queue.
LEMMA QueueRebuilt ==
  ASSUME NEW s \in QueueType, NEW act \in [SeriesKeys -> Requests \cup {Absent}],
         NEW pen \in [SeriesKeys -> Seq(Requests)], NEW tsk \in [Requests -> TaskType],
         NEW lst \in [Priorities \X BOOLEAN -> Cells \cup {Absent}], NEW tok \in Nat
  PROVE  [s EXCEPT !.active = act, !.pending = pen, !.task = tsk, !.last = lst, !.tokens = tok]
           \in QueueType
  BY DEF QueueType

\* Starting a chunk whose series is free keeps the queue in order.
LEMMA DispatchKeeps ==
  ASSUME NEW s, NEW L \in SUBSET Requests, NEW R, QueueOK(s, L, R),
         NEW p \in Requests, NEW n \in SlotsOf(s.line, p),
         ~SeriesBusy(s, p), s.tokens # 0,
         Cardinality(Tasks(s)) < s.workers \/ ReserveOpen(s, p),
         IsBackground(ReasonsNow(s, p)) => \A q \in Tasks(s) : ~IsBackground(ReasonsNow(s, q))
  PROVE  s.task[p].stage = "none" /\ QueueOK(Dispatched(s, <<p, n>>), L, R)
<1> DEFINE e == Dispatched(s, <<p, n>>)
           x == Series(p)
<1>1. s \in QueueType /\ ActiveOK(s) /\ PendingOK(s, L, R) /\ TasksOK(s, L, R) /\ ChunksOK(s) /\ LanesOK(s)
  BY DEF QueueOK
<1>2. x \in SeriesKeys /\ p # Absent /\ n \in Nat
  BY <1>1, DemandSeries, SlotsAre, LineTyped DEF QueueType
<1>3. s.active[x] = Absent
  BY DEF SeriesBusy
<1>4. s.task[p].stage \notin {"fetching", "committing"}
  BY <1>1, <1>2, <1>3 DEF ActiveOK
<1>5. p \in ToSet(s.pending[x]) /\ s.task[p].stage = "none" /\ p \in L \ R
  <2>1. p \in ToSet(s.pending[x])
    BY <1>1, <1>4 DEF ChunksOK
  <2> QED BY <1>1, <1>2, <2>1 DEF PendingOK
<1>6. s.parent[p].priority \in Priorities /\ s.parent[p].cell \in Cells /\ s.parent[p] \in Parent
  <2>1. s.parent[p].priority \in Priorities /\ s.parent[p].cell \in Cells
    BY <1>1 DEF ChunksOK
  <2> QED BY <1>1, <2>1 DEF QueueType
<1>7. Lane(s, p) \in Priorities \X BOOLEAN
  BY <1>6 DEF Lane, IsBackground
<1> DEFINE t == [stage |-> "fetching", slot |-> n, trusted |-> s.parent[p].trusted]
<1>8. /\ e.active = [s.active EXCEPT ![x] = p]
      /\ e.pending = [s.pending EXCEPT ![x] = Without(s.pending[x], {p})]
      /\ e.task = [s.task EXCEPT ![p] = t]
      /\ e.last = [s.last EXCEPT ![Lane(s, p)] = s.parent[p].cell]
      /\ e.tokens = s.tokens - 1
      /\ e.timer = s.timer /\ e.workers = s.workers /\ e.parent = s.parent /\ e.line = s.line
      /\ e.deferred = s.deferred /\ e.delayed = s.delayed
  BY <1>1 DEF Dispatched, QueueType
<1>9. t \in TaskType
  BY <1>2, <1>6 DEF TaskType, Parent
<1>10. Without(s.pending[x], {p}) \in Seq(Requests) /\ ToSet(Without(s.pending[x], {p})) = ToSet(s.pending[x]) \ {p}
  <2>1. s.pending[x] \in Seq(Requests)
    BY <1>1, <1>2 DEF QueueType
  <2> QED BY <2>1, WithoutKeeps
<1>11. e \in QueueType
  <2> DEFINE act == [s.active EXCEPT ![x] = p]
             pen == [s.pending EXCEPT ![x] = Without(s.pending[x], {p})]
             tsk == [s.task EXCEPT ![p] = t]
             lst == [s.last EXCEPT ![Lane(s, p)] = s.parent[p].cell]
  <2>1. act \in [SeriesKeys -> Requests \cup {Absent}]
    BY <1>1 DEF QueueType
  <2>2. pen \in [SeriesKeys -> Seq(Requests)]
    BY <1>1, <1>10 DEF QueueType
  <2>3. tsk \in [Requests -> TaskType]
    BY <1>1, <1>9 DEF QueueType
  <2>4. lst \in [Priorities \X BOOLEAN -> Cells \cup {Absent}]
    BY <1>1, <1>6, <1>7 DEF QueueType
  <2>5. s.tokens - 1 \in Nat
    <3>1. s.tokens \in Nat
      BY <1>1 DEF QueueType
    <3> QED BY <3>1
  <2>6. e = [s EXCEPT !.active = act, !.pending = pen, !.task = tsk, !.last = lst, !.tokens = s.tokens - 1]
    BY DEF Dispatched
  <2> HIDE DEF e, act, pen, tsk, lst
  <2> QED BY <1>1, <2>1, <2>2, <2>3, <2>4, <2>5, <2>6, QueueRebuilt
<1> HIDE DEF e
<1>12. /\ e.active \in [SeriesKeys -> Requests \cup {Absent}] /\ e.active[x] = p
       /\ \A y \in SeriesKeys \ {x} : e.active[y] = s.active[y]
  BY <1>1, <1>2, <1>8 DEF QueueType
<1>13. /\ e.task[p] = t /\ \A q \in Requests \ {p} : e.task[q] = s.task[q]
  BY <1>1, <1>8 DEF QueueType
<1>14. \A y \in SeriesKeys : ToSet(e.pending[y]) = ToSet(s.pending[y]) \ {p}
  <2>1. ASSUME NEW y \in SeriesKeys PROVE ToSet(e.pending[y]) = ToSet(s.pending[y]) \ {p}
    <3>1. CASE y = x
      BY <1>1, <1>2, <1>8, <1>10, <3>1 DEF QueueType
    <3>2. CASE y # x
      <4>1. e.pending[y] = s.pending[y]
        BY <1>1, <1>8, <3>2 DEF QueueType
      <4>2. p \notin ToSet(s.pending[y])
        BY <1>1, <3>2 DEF PendingOK
      <4> QED BY <4>1, <4>2
    <3> QED BY <3>1, <3>2
  <2> QED BY <2>1
<1>15. ActiveOK(e)
  <2>1. ASSUME NEW q \in Requests
        PROVE  e.task[q].stage \in {"fetching", "committing"} <=> e.active[Series(q)] = q
    <3>1. Series(q) \in SeriesKeys /\ q # Absent
      BY DemandSeries
    <3>2. s.task[q].stage \in {"fetching", "committing"} <=> s.active[Series(q)] = q
      BY <1>1 DEF ActiveOK
    <3>3. CASE q = p
      BY <1>12, <1>13, <3>3
    <3>4. CASE q # p
      BY <1>3, <1>12, <1>13, <3>1, <3>2, <3>4
    <3> QED BY <3>3, <3>4
  <2>2. ASSUME NEW y \in SeriesKeys, e.active[y] # Absent PROVE Series(e.active[y]) = y
    BY <1>1, <1>12, <2>2 DEF ActiveOK
  <2> QED BY <2>1, <2>2 DEF ActiveOK
<1>16. PendingOK(e, L, R)
  <2> SUFFICES ASSUME NEW y \in SeriesKeys, NEW q \in ToSet(e.pending[y])
               PROVE  /\ Series(q) = y /\ q \in L \ R
                      /\ e.task[q].stage = "none" /\ ~e.parent[q].cancelled
                      /\ SlotsOf(e.line, q) # {}
    BY DEF PendingOK
  <2>1. q \in ToSet(s.pending[y]) /\ q # p
    BY <1>14
  <2>2. q \in Requests
    <3>1. s.pending[y] \in Seq(Requests)
      BY <1>1 DEF QueueType
    <3> QED BY <2>1, <3>1 DEF ToSet
  <2> QED BY <1>1, <1>8, <1>13, <2>1, <2>2 DEF PendingOK
<1>17. TasksOK(e, L, R)
  <2>1. ASSUME NEW q \in L PROVE q \in ToSet(e.pending[Series(q)]) \/ e.task[q].stage # "none" \/ q \in R
    <3>1. CASE q = p
      BY <1>13, <3>1
    <3>2. CASE q # p
      <4>1. Series(q) \in SeriesKeys
        BY DemandSeries
      <4> QED BY <1>1, <1>13, <1>14, <3>2, <4>1 DEF TasksOK
    <3> QED BY <3>1, <3>2
  <2>2. ASSUME NEW q \in Requests, e.task[q].stage # "none" PROVE q \in L \ R
    BY <1>1, <1>5, <1>13, <2>2 DEF TasksOK
  <2>3. ASSUME NEW q \in Requests, e.task[q].stage = "fetching"
        PROVE  e.task[q].slot \in SlotsOf(e.line, q) /\ e.task[q].trusted = e.parent[q].trusted
    <3>1. CASE q = p
      BY <1>8, <1>13, <3>1
    <3>2. CASE q # p
      BY <1>1, <1>8, <1>13, <2>3, <3>2 DEF TasksOK
    <3> QED BY <3>1, <3>2
  <2> QED BY <2>1, <2>2, <2>3 DEF TasksOK
<1>18. ChunksOK(e)
  <2> SUFFICES ASSUME NEW q \in Requests, SlotsOf(e.line, q) # {}
               PROVE  /\ e.task[q].stage = "fetching" \/ q \in ToSet(e.pending[Series(q)])
                      /\ e.parent[q].priority \in Priorities /\ e.parent[q].reasons # {}
                      /\ e.parent[q].cell \in Cells
    BY DEF ChunksOK
  <2>1. Series(q) \in SeriesKeys
    BY DemandSeries
  <2>2. CASE q = p
    BY <1>1, <1>8, <1>13, <2>2 DEF ChunksOK
  <2>3. CASE q # p
    BY <1>1, <1>8, <1>13, <1>14, <2>1, <2>3 DEF ChunksOK
  <2> QED BY <2>2, <2>3
<1>19. Tasks(e) = Tasks(s) \cup {p} /\ p \notin Tasks(s) /\ Tasks(s) \in SUBSET Requests
  BY <1>5, <1>13 DEF Tasks
<1>20. LanesOK(e)
  <2>1. IsFiniteSet(Tasks(s)) /\ Cardinality(Tasks(s)) \in Nat
    BY <1>19, SchedulerAssumption, FS_Subset, FS_CardinalityType
  <2>2. Cardinality(Tasks(e)) = Cardinality(Tasks(s)) + 1
    BY <1>19, <2>1, FS_AddElement
  <2>3. s.workers \in Nat /\ s.workers # 0
    BY <1>1, SchedulerAssumption DEF QueueType
  <2>4. Cardinality(Tasks(e)) <= Limit(e)
    <3>1. CASE Cardinality(Tasks(s)) < s.workers
      BY <1>8, <2>1, <2>2, <2>3, <3>1 DEF Limit
    <3>2. CASE ReserveOpen(s, p)
      BY <1>8, <2>1, <2>2, <3>2 DEF Limit, ReserveOpen
    <3> QED BY <3>1, <3>2
  <2>5. \A q \in Requests : ReasonsNow(e, q) = ReasonsNow(s, q)
    BY <1>8 DEF ReasonsNow
  <2>6. ASSUME NEW q \in Tasks(e), NEW r \in Tasks(e),
               IsBackground(ReasonsNow(e, q)), IsBackground(ReasonsNow(e, r))
        PROVE  q = r
    <3>1. IsBackground(ReasonsNow(s, q)) /\ IsBackground(ReasonsNow(s, r))
      BY <1>19, <2>5, <2>6
    <3> QED BY <1>1, <1>19, <3>1 DEF LanesOK
  <2> QED BY <2>4, <2>6 DEF LanesOK
<1> QED BY <1>5, <1>11, <1>15, <1>16, <1>17, <1>18, <1>20 DEF QueueOK, e

\* A background chunk starts, whatever the tasks were before the handler, only
\* among background work.
Yields(e, before) ==
  \A p \in Requests :
    e.task[p].stage = "fetching" /\ e.task[p] # before[p] /\ IsBackground(ReasonsNow(e, p)) =>
      /\ \A q \in Tasks(e) : IsBackground(ReasonsNow(e, q))
      /\ \A c \in ToSet(e.line) : IsBackground(ReasonsNow(e, c[1]))

\* A drain starts tasks and leaves the others alone.
Starts(t, u) == u = t \/ (t.stage = "none" /\ u.stage = "fetching")

\* What every turn of a drain of s keeps.
Drains(e, s, L, R, before) ==
  /\ e.workers = s.workers /\ e.parent = s.parent /\ e.line = s.line /\ e.deferred = s.deferred
  /\ \A p \in Requests : Starts(s.task[p], e.task[p])
  /\ QueueOK(e, L, R) /\ Yields(e, before)

\* Somebody will drain again: a timer or the end of a task.
Awake(e) == e.delayed \/ Tasks(e) # {}

\* The order of the queue does not depend on the timer or the tokens.
LEMMA SameQueue ==
  ASSUME NEW d, NEW e, d \in QueueType,
         d.active = e.active, d.pending = e.pending, d.task = e.task, d.parent = e.parent,
         d.line = e.line, d.deferred = e.deferred, d.workers = e.workers
  PROVE  /\ \A L, R : QueueOK(e, L, R) => QueueOK(d, L, R)
         /\ \A before : Yields(e, before) => Yields(d, before)
         /\ \A s, L, R, before : Drains(e, s, L, R, before) => Drains(d, s, L, R, before)
<1>1. Tasks(d) = Tasks(e) /\ \A p : ReasonsNow(d, p) = ReasonsNow(e, p)
  BY DEF Tasks, ReasonsNow
<1>2. ActiveOK(e) => ActiveOK(d)
  BY DEF ActiveOK
<1>3. \A L, R : PendingOK(e, L, R) => PendingOK(d, L, R)
  BY DEF PendingOK
<1>4. \A L, R : TasksOK(e, L, R) => TasksOK(d, L, R)
  BY DEF TasksOK
<1>5. ChunksOK(e) => ChunksOK(d)
  BY DEF ChunksOK
<1>6. LanesOK(e) => LanesOK(d)
  BY <1>1 DEF LanesOK, Limit
<1>7. \A L, R : QueueOK(e, L, R) => QueueOK(d, L, R)
  BY <1>2, <1>3, <1>4, <1>5, <1>6 DEF QueueOK
<1>8. \A before : Yields(e, before) => Yields(d, before)
  BY <1>1 DEF Yields
<1> QED BY <1>7, <1>8 DEF Drains

\* What becomes of the chunk at the k-th place of the heap.
LEMMA ConsideredKeeps ==
  ASSUME NEW s, NEW L \in SUBSET Requests, NEW R, NEW before,
         NEW e, Drains(e, s, L, R, before), NEW heap, NEW k, heap[k] \in DOMAIN s.line
  PROVE  /\ Drains(Considered(e, heap, k), s, L, R, before)
         /\ Awake(e) => Awake(Considered(e, heap, k))
         /\ \/ Awake(Considered(e, heap, k))
            \/ /\ Considered(e, heap, k) = e
               /\ e.line[heap[k]] \notin e.deferred /\ Passed(e, heap, k)
<1> DEFINE c == e.line[heap[k]]
           p == c[1]
           d == Considered(e, heap, k)
           full == Cardinality(Tasks(e)) >= e.workers
<1>1. /\ e \in QueueType /\ QueueOK(e, L, R) /\ e.line = s.line
      /\ ActiveOK(e) /\ PendingOK(e, L, R) /\ TasksOK(e, L, R) /\ ChunksOK(e) /\ LanesOK(e)
  BY DEF Drains, QueueOK
<1>2. e.line \in Seq(Requests \X Nat) /\ c \in ToSet(e.line) /\ c \in Requests \X Nat
  <2>1. e.line \in Seq(Requests \X Nat) /\ heap[k] \in DOMAIN e.line
    BY <1>1 DEF QueueType
  <2>2. c \in ToSet(e.line)
    BY <2>1 DEF ToSet
  <2> QED BY <2>1, <2>2, LineTyped
<1>3. p \in Requests /\ c = <<p, c[2]>> /\ c[2] \in SlotsOf(e.line, p)
  <2>1. p \in Requests /\ c = <<p, c[2]>>
    BY <1>2
  <2> QED BY <1>2, <2>1, SlotsAre, LineTyped
<1>4. Tasks(e) \in SUBSET Requests /\ IsFiniteSet(Tasks(e)) /\ Cardinality(Tasks(e)) \in Nat
  <2>1. Tasks(e) \in SUBSET Requests
    BY DEF Tasks
  <2> QED BY <2>1, SchedulerAssumption, FS_Subset, FS_CardinalityType
<1>5. e.workers \in Nat /\ e.workers # 0
  BY <1>1, SchedulerAssumption DEF QueueType
<1>6. CASE full /\ ~ReserveOpen(e, p)
  <2>1. d = e
    BY <1>6 DEF Considered
  <2>2. Tasks(e) # {}
    <3> SUFFICES ASSUME Tasks(e) = {} PROVE FALSE
      OBVIOUS
    <3>1. Cardinality(Tasks(e)) = 0
      BY FS_EmptySet
    <3> QED BY <1>5, <1>6, <3>1
  <2> QED BY <2>1, <2>2 DEF Awake
<1>7. CASE ~(full /\ ~ReserveOpen(e, p)) /\ (c \in e.deferred \/ (~Passed(e, heap, k) /\ e.tokens = 0))
  <2>1. d = Delayed(e)
    BY <1>7 DEF Considered
  <2>2. d = [e EXCEPT !.delayed = TRUE]
    BY <2>1 DEF Delayed
  <2> HIDE DEF d
  <2>3. /\ d.active = e.active /\ d.pending = e.pending /\ d.task = e.task /\ d.last = e.last
        /\ d.workers = e.workers /\ d.parent = e.parent /\ d.line = e.line
        /\ d.deferred = e.deferred /\ d.delayed = TRUE /\ d \in QueueType
    BY <1>1, <2>2 DEF QueueType
  <2>8. Drains(d, s, L, R, before)
    BY <2>3, SameQueue
  <2> QED BY <2>3, <2>8 DEF Awake, d
<1>8. CASE ~(full /\ ~ReserveOpen(e, p)) /\ c \notin e.deferred /\ Passed(e, heap, k)
  <2>1. d = e
    BY <1>8 DEF Considered
  <2> QED BY <1>8, <2>1
<1>9. CASE ~(full /\ ~ReserveOpen(e, p)) /\ c \notin e.deferred /\ ~Passed(e, heap, k) /\ e.tokens # 0
  <2>1. d = Dispatched(e, <<p, c[2]>>)
    BY <1>3, <1>9 DEF Considered
  <2> DEFINE n == c[2]
  <2>2. ~SeriesBusy(e, p)
    BY <1>9 DEF Passed
  <2>3. IsBackground(ReasonsNow(e, p)) =>
          /\ \A q \in Tasks(e) : ~IsBackground(ReasonsNow(e, q))
          /\ ~HasForegroundWork(e)
    BY <1>9 DEF Passed
  <2>4. Cardinality(Tasks(e)) < e.workers \/ ReserveOpen(e, p)
    BY <1>4, <1>5, <1>9
  <2>5. p \in Requests /\ n \in SlotsOf(e.line, p)
    BY <1>3
  <2> HIDE DEF c, d
  <2>6. e.task[p].stage = "none" /\ QueueOK(d, L, R)
    <3>1. e.tokens # 0
      BY <1>9
    <3> HIDE DEF n, p
    <3> QED BY <1>1, <2>1, <2>2, <2>3, <2>4, <2>5, <3>1, DispatchKeeps DEF n
  <2>7. /\ d.workers = e.workers /\ d.parent = e.parent /\ d.line = e.line /\ d.deferred = e.deferred
        /\ d.task = [e.task EXCEPT ![p] = [stage |-> "fetching", slot |-> n, trusted |-> e.parent[p].trusted]]
        /\ e.task \in [Requests -> TaskType]
    BY <1>1, <2>1 DEF Dispatched, QueueType
  <2> HIDE DEF n
  <2>8. d.task[p].stage = "fetching" /\ \A q \in Requests \ {p} : d.task[q] = e.task[q]
    BY <2>5, <2>7
  <2>9. Tasks(d) = Tasks(e) \cup {p}
    BY <2>5, <2>8 DEF Tasks
  <2>10. \A q \in Requests : ReasonsNow(d, q) = ReasonsNow(e, q)
    BY <2>7 DEF ReasonsNow
  <2>11. Yields(e, before)
    BY DEF Drains
  <2>12. <<p, n>> \in ToSet(e.line) /\ ToSet(e.line) \in SUBSET (Requests \X Nat)
    BY <1>2, <2>5, SlotsAre, LineTyped
  <2>13. Yields(d, before)
    <3> SUFFICES ASSUME NEW q \in Requests, d.task[q].stage = "fetching", d.task[q] # before[q],
                        IsBackground(ReasonsNow(e, q))
                 PROVE  /\ \A r \in Tasks(d) : IsBackground(ReasonsNow(e, r))
                        /\ \A x \in ToSet(e.line) : IsBackground(ReasonsNow(e, x[1]))
      <4>1. \A x \in ToSet(e.line) : x[1] \in Requests
        BY <2>12
      <4>2. Tasks(d) \in SUBSET Requests
        BY DEF Tasks
      <4> QED BY <2>7, <2>10, <4>1, <4>2 DEF Yields
    <3>1. CASE q = p
      <4>1. ~HasForegroundWork(e) /\ \A r \in Tasks(e) : ~IsBackground(ReasonsNow(e, r))
        BY <2>3, <3>1
      <4>2. Tasks(e) = {}
        BY <4>1 DEF HasForegroundWork
      <4>3. \A i \in DOMAIN e.line : i \in Ready(e)
        <5>1. ASSUME NEW i \in DOMAIN e.line PROVE e.task[e.line[i][1]].stage = "none"
          <6>1. e.line[i][1] \in Requests
            BY <1>2
          <6> QED BY <4>2, <6>1 DEF Tasks
        <5> QED BY <5>1 DEF Ready
      <4>4. ASSUME NEW x \in ToSet(e.line) PROVE IsBackground(ReasonsNow(e, x[1]))
        <5>1. PICK i \in DOMAIN e.line : x = e.line[i]
          BY DEF ToSet
        <5> QED BY <4>1, <4>3, <5>1 DEF HasForegroundWork
      <4> QED BY <2>9, <3>1, <4>2, <4>4
    <3>2. CASE q # p
      <4>1. e.task[q].stage = "fetching" /\ e.task[q] # before[q]
        BY <2>8, <3>2
      <4>2. /\ \A r \in Tasks(e) : IsBackground(ReasonsNow(e, r))
            /\ \A x \in ToSet(e.line) : IsBackground(ReasonsNow(e, x[1]))
        BY <2>11, <4>1 DEF Yields
      <4>3. IsBackground(ReasonsNow(e, p))
        BY <2>12, <4>2
      <4> QED BY <2>9, <4>2, <4>3
    <3> QED BY <3>1, <3>2
  <2>14. Drains(d, s, L, R, before)
    <3>1. e.workers = s.workers /\ e.parent = s.parent /\ e.line = s.line /\ e.deferred = s.deferred
      BY DEF Drains
    <3>2. \A q \in Requests : Starts(s.task[q], e.task[q])
      BY DEF Drains
    <3>3. \A q \in Requests : Starts(s.task[q], d.task[q])
      BY <2>6, <2>8, <3>2 DEF Starts
    <3> QED BY <2>6, <2>7, <2>13, <3>1, <3>3 DEF Drains
  <2>15. Awake(d)
    BY <2>9 DEF Awake
  <2> QED BY <2>14, <2>15 DEF d
<1> QED BY <1>6, <1>7, <1>8, <1>9

\* f is the recursive function of Drained.
Turned(f, s, heap) ==
  f = [k \in 0..Len(heap) |-> IF k = 0 THEN s ELSE Considered(f[k - 1], heap, k)]

\* The scheduler after the last turn of a drain.
LastTurn(s) == (CHOOSE f : Turned(f, s, HeapOrder(s)))[Len(HeapOrder(s))]

\* Drained is its last turn, with the timer it asks for.
LEMMA DrainedIsLastTurn ==
  ASSUME NEW s
  PROVE  Drained(s) = IF LastTurn(s).delayed
                      THEN [LastTurn(s) EXCEPT !.timer = TRUE, !.delayed = FALSE]
                      ELSE IF Ready(LastTurn(s)) = {} THEN [LastTurn(s) EXCEPT !.timer = FALSE]
                      ELSE LastTurn(s)
  BY DEF Drained, LastTurn, Turned

\* The turns of a drain, each of them in order.
LEMMA TurnsKeep ==
  ASSUME NEW s, NEW L \in SUBSET Requests, NEW R, NEW before,
         QueueOK(s, L, R), Yields(s, before), NEW heap, heap = HeapOrder(s)
  PROVE  \E f : /\ Turned(f, s, heap) /\ LastTurn(s) = f[Len(heap)]
                /\ \A k \in 0..Len(heap) : Drains(f[k], s, L, R, before)
<1> DEFINE n == Len(heap)
           D == {e \in QueueType : Drains(e, s, L, R, before)}
           g == [x \in D \X (1..n) |-> Considered(x[1], heap, x[2])]
<1>1. s \in D
  BY DEF Drains, QueueOK, Starts
<1>2. heap \in Seq(Ready(s)) /\ Ready(s) \in SUBSET (DOMAIN s.line) /\ n \in Nat
  <2>1. s.line \in Seq(Requests \X Nat) /\ s.parent \in [Requests -> Parent]
    BY DEF QueueOK, QueueType
  <2> QED BY <2>1, HeapCovers
<1>3. ASSUME NEW e \in D, NEW k \in 1..n PROVE Considered(e, heap, k) \in D
  <2>1. heap[k] \in DOMAIN s.line
    BY <1>2
  <2>2. Drains(e, s, L, R, before)
    OBVIOUS
  <2>3. Drains(Considered(e, heap, k), s, L, R, before)
    BY <2>1, <2>2, ConsideredKeeps
  <2> QED BY <2>3 DEF Drains, QueueOK
<1>4. g \in [D \X (1..n) -> D]
  BY <1>3
<1>5. PICK h \in [0..n -> D] : Runs(h, s, n, g)
  <2> HIDE DEF g, n, D
  <2> QED BY <1>1, <1>2, <1>4, StepsExist
<1>6. Turned(h, s, heap)
  <2>1. ASSUME NEW k \in 0..n PROVE h[k] = IF k = 0 THEN s ELSE Considered(h[k - 1], heap, k)
    <3>1. CASE k # 0
      <4>1. k \in 1..n /\ k - 1 \in 0..n
        BY <1>2, <3>1
      <4>2. h[k - 1] \in D /\ h[k] = g[<<h[k - 1], k>>]
        BY <1>5, <4>1 DEF Runs
      <4>3. <<h[k - 1], k>> \in D \X (1..n)
        BY <4>1, <4>2
      <4>4. h[k] = Considered(h[k - 1], heap, k)
        BY <4>2, <4>3
      <4> QED BY <3>1, <4>4
    <3> QED BY <1>5, <3>1 DEF Runs
  <2>2. h = [k \in 0..n |-> h[k]]
    OBVIOUS
  <2>3. h = [k \in 0..n |-> IF k = 0 THEN s ELSE Considered(h[k - 1], heap, k)]
    BY <2>1, <2>2
  <2> QED BY <2>3 DEF Turned
<1> DEFINE f == CHOOSE f : Turned(f, s, heap)
<1>7. Turned(f, s, heap)
  BY <1>6
<1>8. LastTurn(s) = f[n]
  BY DEF LastTurn
<1> HIDE DEF f
<1>9. \A k \in 0..n : f[k] = IF k = 0 THEN s ELSE Considered(f[k - 1], heap, k)
  BY <1>7 DEF Turned
<1> DEFINE T == {k \in 0..n : f[k] \in D}
<1>10. 0 \in T
  BY <1>1, <1>2, <1>9
<1>11. ASSUME NEW k \in 1..n, k - 1 \in T PROVE k \in T
  <2>1. k \in 0..n /\ k # 0 /\ f[k - 1] \in D
    BY <1>2, <1>11
  <2>2. f[k] = Considered(f[k - 1], heap, k)
    BY <1>9, <2>1
  <2> HIDE DEF D
  <2>3. f[k] \in D
    BY <1>3, <2>1, <2>2
  <2> QED BY <2>1, <2>3
<1>12. T = 0..n
  <2> HIDE DEF T, n
  <2>1. T \in SUBSET (0..n)
    BY DEF T
  <2> QED BY <1>2, <1>10, <1>11, <2>1, UpTo
<1>13. \A k \in 0..n : Drains(f[k], s, L, R, before)
  <2>1. \A k \in 0..n : f[k] \in D
    BY <1>12
  <2> QED BY <2>1
<1>14. /\ Turned(f, s, heap) /\ LastTurn(s) = f[Len(heap)]
       /\ \A k \in 0..Len(heap) : Drains(f[k], s, L, R, before)
  BY <1>7, <1>8, <1>13
<1> QED BY <1>14

\* With no task there is no reason to pass over every ready chunk: the last
\* foreground chunk of the heap, or the last one, has no alternative behind it.
LEMMA SomebodyGoes ==
  ASSUME NEW s, NEW L, NEW R, QueueOK(s, L, R), Tasks(s) = {},
         NEW heap, heap = HeapOrder(s), \A k \in 1..Len(heap) : Passed(s, heap, k)
  PROVE  Ready(s) = {}
<1> DEFINE n == Len(heap)
           P(k) == s.line[heap[k]][1]
           Back(k) == IsBackground(ReasonsNow(s, P(k)))
           K == {k \in 1..n : ~Back(k)}
<1>1. /\ s \in QueueType /\ s.line \in Seq(Requests \X Nat) /\ s.parent \in [Requests -> Parent]
      /\ ActiveOK(s)
  BY DEF QueueOK, QueueType
<1>2. heap \in Seq(Ready(s)) /\ ToSet(heap) = Ready(s) /\ Ready(s) \in SUBSET (DOMAIN s.line) /\ n \in Nat
  BY <1>1, HeapCovers
<1>3. \A k \in 1..n : heap[k] \in DOMAIN s.line /\ P(k) \in Requests
  <2>1. \A i \in DOMAIN s.line : s.line[i][1] \in Requests
    BY <1>1
  <2> QED BY <1>2, <2>1
<1>4. ASSUME NEW p \in Requests PROVE ~SeriesBusy(s, p)
  <2> SUFFICES ASSUME s.active[Series(p)] # Absent PROVE FALSE
    BY DEF SeriesBusy
  <2>1. Series(p) \in SeriesKeys
    BY DemandSeries
  <2> DEFINE q == s.active[Series(p)]
  <2>2. q \in Requests /\ Series(q) = Series(p)
    BY <1>1, <2>1 DEF QueueType, ActiveOK
  <2>3. s.task[q].stage \in {"fetching", "committing"}
    BY <1>1, <2>2 DEF ActiveOK
  <2> QED BY <2>2, <2>3 DEF Tasks
<1>5. CASE K # {}
  <2>1. PICK k \in K : \A j \in K : j <= k
    <3>1. K \in SUBSET (0..n)
      BY <1>2
    <3> HIDE DEF K
    <3> QED BY <1>2, <1>5, <3>1, MaxExists
  <2>2. Passed(s, heap, k) /\ ~SeriesBusy(s, P(k)) /\ ~Back(k)
    BY <1>3, <1>4, <2>1
  <2>3. Alternative(s, heap, k)
    BY <2>2 DEF Passed
  <2>4. PICK j \in (k + 1)..n : Lane(s, P(j)) = Lane(s, P(k))
    BY <2>3 DEF Alternative
  <2>5. Back(j) = Back(k)
    BY <2>4 DEF Lane, ReasonsNow
  <2>6. j \in 1..n /\ ~(j <= k)
    BY <1>2, <2>4
  <2>7. j \in K
    BY <2>2, <2>5, <2>6
  <2> QED BY <2>1, <2>6, <2>7
<1>6. CASE K = {}
  <2>1. ~HasForegroundWork(s)
    <3> SUFFICES ASSUME NEW i \in Ready(s), ~IsBackground(ReasonsNow(s, s.line[i][1])) PROVE FALSE
      BY DEF HasForegroundWork
    <3>1. PICK k \in 1..n : heap[k] = i
      BY <1>2 DEF ToSet
    <3> QED BY <1>6, <3>1
  <2>2. ASSUME n # 0 PROVE FALSE
    <3>1. n \in 1..n /\ (n + 1)..n = {}
      BY <1>2, <2>2
    <3>2. Passed(s, heap, n) /\ ~SeriesBusy(s, P(n))
      BY <1>3, <1>4, <3>1
    <3>3. Alternative(s, heap, n)
      BY <2>1, <3>2 DEF Passed
    <3> QED BY <3>1, <3>3 DEF Alternative
  <2>3. ToSet(heap) = {}
    BY <1>2, <2>2 DEF ToSet
  <2> QED BY <1>2, <2>3
<1> QED BY <1>5, <1>6

\* A drain keeps the queue in order, and leaves waiting work only beside a task
\* or a timer.
LEMMA DrainedKeeps ==
  ASSUME NEW s, NEW L \in SUBSET Requests, NEW R, NEW before,
         QueueOK(s, L, R), Yields(s, before), s.delayed = FALSE
  PROVE  /\ Drains(Drained(s), s, L, R, before) /\ Drained(s).delayed = FALSE
         /\ s.line # <<>> => Drained(s).timer \/ Tasks(Drained(s)) # {}
<1> DEFINE heap == HeapOrder(s)
           n == Len(heap)
           end == LastTurn(s)
           d == Drained(s)
<1>1. PICK f : /\ Turned(f, s, heap) /\ end = f[n]
               /\ \A k \in 0..n : Drains(f[k], s, L, R, before)
  BY TurnsKeep, Zenon
<1>2. /\ s.line \in Seq(Requests \X Nat) /\ s.parent \in [Requests -> Parent] /\ ActiveOK(s)
      /\ TasksOK(s, L, R) /\ s \in QueueType
  BY DEF QueueOK, QueueType
<1>3. /\ heap \in Seq(Ready(s)) /\ Ready(s) \in SUBSET (DOMAIN s.line) /\ n \in Nat
  BY <1>2, HeapCovers
<1> HIDE DEF heap, n, end, d
<1>4. Drains(end, s, L, R, before)
  BY <1>1, <1>3
<1>5. \A k \in 1..n : f[k] = Considered(f[k - 1], heap, k)
  BY <1>1, <1>3 DEF Turned, n
<1>6. f[0] = s
  BY <1>1, <1>3 DEF Turned, n
<1>7. ASSUME ~Awake(end) PROVE Ready(end) = {}
  <2> DEFINE T == {k \in 0..n : ~Awake(f[n - k])}
             U == {k \in 0..n : f[k] = s}
             Went(k) == f[k] = f[k - 1] /\ Passed(f[k - 1], heap, k)
  <2>1. ASSUME NEW k \in 1..n
        PROVE  /\ Awake(f[k - 1]) => Awake(f[k])
               /\ Awake(f[k]) \/ Went(k)
    <3>1. heap[k] \in DOMAIN s.line /\ k - 1 \in 0..n
      BY <1>3 DEF n
    <3>2. Drains(f[k - 1], s, L, R, before)
      BY <1>1, <3>1
    <3> DEFINE e == f[k - 1]
    <3> HIDE DEF e
    <3>3. /\ Awake(e) => Awake(Considered(e, heap, k))
          /\ \/ Awake(Considered(e, heap, k))
             \/ Considered(e, heap, k) = e /\ Passed(e, heap, k)
      BY <3>1, <3>2, ConsideredKeeps DEF e
    <3>4. f[k] = Considered(e, heap, k)
      BY <1>5 DEF e
    <3> QED BY <3>3, <3>4 DEF e
  <2>2. T = 0..n
    <3>1. 0 \in T
      BY <1>1, <1>3, <1>7
    <3>2. ASSUME NEW k \in 1..n, k - 1 \in T PROVE k \in T
      <4>1. n - (k - 1) \in 1..n /\ n - (k - 1) - 1 = n - k /\ k \in 0..n
        BY <1>3
      <4>2. ~Awake(f[n - (k - 1)])
        BY <3>2
      <4>3. ~Awake(f[n - (k - 1) - 1])
        BY <2>1, <4>1, <4>2
      <4> QED BY <4>1, <4>3
    <3>3. T \in SUBSET (0..n)
      OBVIOUS
    <3> HIDE DEF T
    <3> QED BY <1>3, <3>1, <3>2, <3>3, UpTo
  <2>3. \A k \in 0..n : ~Awake(f[k])
    <3>1. ASSUME NEW k \in 0..n PROVE ~Awake(f[k])
      <4>1. n - k \in 0..n /\ n - (n - k) = k
        BY <1>3
      <4>2. n - k \in T
        BY <2>2, <4>1
      <4> QED BY <4>1, <4>2
    <3> QED BY <3>1
  <2>4. \A k \in 1..n : Went(k)
    BY <1>3, <2>1, <2>3
  <2>5. U = 0..n
    <3>1. 0 \in U
      BY <1>3, <1>6
    <3>2. ASSUME NEW k \in 1..n, k - 1 \in U PROVE k \in U
      BY <1>3, <2>4, <3>2
    <3>3. U \in SUBSET (0..n)
      OBVIOUS
    <3> HIDE DEF U
    <3> QED BY <1>3, <3>1, <3>2, <3>3, UpTo
  <2>6. \A k \in 1..n : Passed(s, heap, k)
    <3>1. ASSUME NEW k \in 1..n PROVE Passed(s, heap, k)
      <4>1. k - 1 \in U
        BY <1>3, <2>5
      <4> QED BY <2>4, <4>1
    <3> QED BY <3>1
  <2>7. ~Awake(s)
    BY <1>3, <1>6, <2>3
  <2>8. Ready(s) = {}
    BY <2>6, <2>7, SomebodyGoes DEF Awake, heap, n
  <2>9. end = s
    BY <1>1, <1>3, <2>5
  <2> QED BY <2>8, <2>9
<1>8. d = IF end.delayed THEN [end EXCEPT !.timer = TRUE, !.delayed = FALSE]
          ELSE IF Ready(end) = {} THEN [end EXCEPT !.timer = FALSE] ELSE end
  BY DrainedIsLastTurn DEF d, end
<1>9. end \in QueueType /\ QueueOK(end, L, R) /\ end.line = s.line
  BY <1>4 DEF Drains, QueueOK
<1>10. /\ d \in QueueType /\ d.active = end.active /\ d.pending = end.pending /\ d.task = end.task
       /\ d.last = end.last /\ d.workers = end.workers /\ d.parent = end.parent
       /\ d.line = end.line /\ d.deferred = end.deferred /\ d.delayed = FALSE
       /\ end.delayed => d.timer = TRUE
  BY <1>8, <1>9 DEF QueueType
<1>11. Drains(d, s, L, R, before)
  BY <1>4, <1>10, SameQueue
<1>12. ASSUME s.line # <<>> PROVE d.timer \/ Tasks(d) # {}
  <2> SUFFICES ASSUME ~d.timer, Tasks(d) = {} PROVE FALSE
    OBVIOUS
  <2>1. Tasks(end) = {} /\ ~end.delayed
    BY <1>10 DEF Tasks
  <2>2. Ready(end) = {}
    BY <1>7, <2>1 DEF Awake
  <2>3. ASSUME NEW i \in DOMAIN s.line PROVE FALSE
    <3>1. s.line[i][1] \in Requests
      BY <1>2
    <3>2. end.task[s.line[i][1]].stage = "none"
      BY <2>1, <3>1 DEF Tasks
    <3> QED BY <1>9, <2>2, <3>2 DEF Ready
  <2>4. Len(s.line) = 0
    <3> SUFFICES ASSUME Len(s.line) # 0 PROVE FALSE
      OBVIOUS
    <3>1. 1 \in DOMAIN s.line
      BY <1>2
    <3> QED BY <2>3, <3>1
  <2> QED BY <1>2, <1>12, <2>4
<1> QED BY <1>10, <1>11, <1>12 DEF d

-----------------------------------------------------------------------------
(* Handlers                                                                *)

\* What the queue says of one parent.
OwnOK(s, L, R, p) ==
  /\ s.task[p].stage \in {"fetching", "committing"} <=> s.active[Series(p)] = p
  /\ p \in ToSet(s.pending[Series(p)]) =>
       /\ p \in L \ R /\ s.task[p].stage = "none" /\ ~s.parent[p].cancelled
       /\ SlotsOf(s.line, p) # {}
  /\ p \in L => p \in ToSet(s.pending[Series(p)]) \/ s.task[p].stage # "none" \/ p \in R
  /\ s.task[p].stage # "none" => p \in L \ R
  /\ s.task[p].stage = "fetching" =>
       s.task[p].slot \in SlotsOf(s.line, p) /\ s.task[p].trusted = s.parent[p].trusted
  /\ SlotsOf(s.line, p) # {} =>
       /\ s.task[p].stage = "fetching" \/ p \in ToSet(s.pending[Series(p)])
       /\ s.parent[p].priority \in Priorities /\ s.parent[p].reasons # {}
       /\ s.parent[p].cell \in Cells

\* Active and pending parents belong to the series that lists them.
SeriesOK(s) ==
  \A x \in SeriesKeys :
    /\ s.active[x] # Absent => Series(s.active[x]) = x
    /\ \A p \in ToSet(s.pending[x]) : p \in Requests /\ Series(p) = x

\* A pending list holds requests.
LEMMA PendingTyped ==
  ASSUME NEW s \in QueueType, NEW x \in SeriesKeys
  PROVE  ToSet(s.pending[x]) \in SUBSET Requests
  BY DEF QueueType, ToSet

\* The order of the queue, parent by parent.
LEMMA QueueByParent ==
  ASSUME NEW s \in QueueType, NEW L \in SUBSET Requests, NEW R
  PROVE  QueueOK(s, L, R) <=> (\A p \in Requests : OwnOK(s, L, R, p)) /\ SeriesOK(s) /\ LanesOK(s)
<1>1. ASSUME QueueOK(s, L, R) PROVE (\A p \in Requests : OwnOK(s, L, R, p)) /\ SeriesOK(s) /\ LanesOK(s)
  <2>1. ActiveOK(s) /\ PendingOK(s, L, R) /\ TasksOK(s, L, R) /\ ChunksOK(s) /\ LanesOK(s)
    BY <1>1 DEF QueueOK
  <2>2. ASSUME NEW p \in Requests PROVE OwnOK(s, L, R, p)
    <3>1. Series(p) \in SeriesKeys
      BY DemandSeries
    <3>2. s.task[p].stage \in {"fetching", "committing"} <=> s.active[Series(p)] = p
      BY <2>1 DEF ActiveOK
    <3>3. p \in ToSet(s.pending[Series(p)]) =>
            /\ p \in L \ R /\ s.task[p].stage = "none" /\ ~s.parent[p].cancelled
            /\ SlotsOf(s.line, p) # {}
      BY <2>1, <3>1 DEF PendingOK
    <3>4. p \in L => p \in ToSet(s.pending[Series(p)]) \/ s.task[p].stage # "none" \/ p \in R
      BY <2>1 DEF TasksOK
    <3>5. /\ s.task[p].stage # "none" => p \in L \ R
          /\ s.task[p].stage = "fetching" =>
               s.task[p].slot \in SlotsOf(s.line, p) /\ s.task[p].trusted = s.parent[p].trusted
      BY <2>1 DEF TasksOK
    <3>6. SlotsOf(s.line, p) # {} =>
            /\ s.task[p].stage = "fetching" \/ p \in ToSet(s.pending[Series(p)])
            /\ s.parent[p].priority \in Priorities /\ s.parent[p].reasons # {}
            /\ s.parent[p].cell \in Cells
      BY <2>1 DEF ChunksOK
    <3> QED BY <3>2, <3>3, <3>4, <3>5, <3>6 DEF OwnOK
  <2>3. SeriesOK(s)
    BY <2>1, PendingTyped DEF SeriesOK, ActiveOK, PendingOK
  <2> QED BY <2>1, <2>2, <2>3
<1>2. ASSUME \A p \in Requests : OwnOK(s, L, R, p), SeriesOK(s), LanesOK(s) PROVE QueueOK(s, L, R)
  <2>1. ActiveOK(s)
    BY <1>2 DEF ActiveOK, OwnOK, SeriesOK
  <2>2. PendingOK(s, L, R)
    <3> SUFFICES ASSUME NEW x \in SeriesKeys, NEW p \in ToSet(s.pending[x])
                 PROVE  /\ Series(p) = x /\ p \in L \ R
                        /\ s.task[p].stage = "none" /\ ~s.parent[p].cancelled
                        /\ SlotsOf(s.line, p) # {}
      BY DEF PendingOK
    <3>1. p \in Requests /\ Series(p) = x
      BY <1>2 DEF SeriesOK
    <3> QED BY <1>2, <3>1 DEF OwnOK
  <2>3. TasksOK(s, L, R)
    BY <1>2 DEF TasksOK, OwnOK
  <2>4. ChunksOK(s)
    BY <1>2 DEF ChunksOK, OwnOK
  <2> QED BY <1>2, <2>1, <2>2, <2>3, <2>4 DEF QueueOK
<1> QED BY <1>1, <1>2

\* m is s but for what it says of p.
Elsewhere(s, m, p) ==
  /\ m.workers = s.workers
  /\ \A q \in Requests \ {p} :
       /\ m.task[q] = s.task[q] /\ m.parent[q] = s.parent[q]
       /\ SlotsOf(m.line, q) = SlotsOf(s.line, q)
  /\ \A x \in SeriesKeys : \A q \in Requests \ {p} :
       /\ q \in ToSet(m.pending[x]) <=> q \in ToSet(s.pending[x])
       /\ m.active[x] = q <=> s.active[x] = q
  /\ \A x \in SeriesKeys \ {Series(p)} : m.active[x] # p /\ p \notin ToSet(m.pending[x])
  /\ m.task[p].stage # "none" =>
       /\ s.task[p].stage # "none"
       /\ IsBackground(m.parent[p].reasons) => IsBackground(s.parent[p].reasons)

\* A handler that changes one parent answers for that parent only.
LEMMA OneParent ==
  ASSUME NEW s, NEW L \in SUBSET Requests, NEW R, QueueOK(s, L, R),
         NEW m \in QueueType, NEW p \in Requests, Elsewhere(s, m, p),
         NEW L2 \in SUBSET Requests, NEW R2,
         \A q \in Requests \ {p} : (q \in L2 <=> q \in L) /\ (q \in R2 <=> q \in R),
         OwnOK(m, L2, R2, p)
  PROVE  QueueOK(m, L2, R2)
<1>1. s \in QueueType /\ (\A q \in Requests : OwnOK(s, L, R, q)) /\ SeriesOK(s) /\ LanesOK(s)
  <2>1. s \in QueueType
    BY DEF QueueOK
  <2> QED BY <2>1, QueueByParent
<1>2. Series(p) \in SeriesKeys /\ p # Absent
  BY DemandSeries
<1>3. ASSUME NEW q \in Requests PROVE OwnOK(m, L2, R2, q)
  <2>1. CASE q = p
    BY <2>1
  <2>2. CASE q # p
    <3>1. OwnOK(s, L, R, q) /\ Series(q) \in SeriesKeys
      BY <1>1, DemandSeries
    <3>2. /\ m.task[q] = s.task[q] /\ m.parent[q] = s.parent[q]
          /\ SlotsOf(m.line, q) = SlotsOf(s.line, q)
          /\ q \in ToSet(m.pending[Series(q)]) <=> q \in ToSet(s.pending[Series(q)])
          /\ m.active[Series(q)] = q <=> s.active[Series(q)] = q
          /\ (q \in L2 <=> q \in L) /\ (q \in R2 <=> q \in R)
      BY <2>2, <3>1 DEF Elsewhere
    <3> QED BY <3>1, <3>2 DEF OwnOK
  <2> QED BY <2>1, <2>2
<1>4. SeriesOK(m)
  <2> SUFFICES ASSUME NEW x \in SeriesKeys
               PROVE  /\ m.active[x] # Absent => Series(m.active[x]) = x
                      /\ \A q \in ToSet(m.pending[x]) : q \in Requests /\ Series(q) = x
    BY DEF SeriesOK
  <2>1. ASSUME m.active[x] # Absent PROVE Series(m.active[x]) = x
    <3>1. m.active[x] \in Requests
      BY <2>1 DEF QueueType
    <3>2. CASE m.active[x] = p
      BY <3>2 DEF Elsewhere
    <3>3. CASE m.active[x] # p
      <4>1. s.active[x] = m.active[x]
        BY <3>1, <3>3 DEF Elsewhere
      <4> QED BY <1>1, <2>1, <4>1 DEF SeriesOK
    <3> QED BY <3>2, <3>3
  <2>2. ASSUME NEW q \in ToSet(m.pending[x]) PROVE q \in Requests /\ Series(q) = x
    <3>1. q \in Requests
      BY PendingTyped
    <3>2. CASE q = p
      BY <3>2 DEF Elsewhere
    <3>3. CASE q # p
      <4>1. q \in ToSet(s.pending[x])
        BY <3>1, <3>3 DEF Elsewhere
      <4> QED BY <1>1, <4>1 DEF SeriesOK
    <3> QED BY <3>1, <3>2, <3>3
  <2> QED BY <2>1, <2>2
<1>5. LanesOK(m)
  <2>1. Tasks(m) \in SUBSET Tasks(s)
    BY DEF Tasks, Elsewhere
  <2>2. Tasks(s) \in SUBSET Requests
    BY DEF Tasks
  <2>3. IsFiniteSet(Tasks(s))
    BY <2>2, SchedulerAssumption, FS_Subset
  <2>4. /\ Cardinality(Tasks(m)) <= Cardinality(Tasks(s))
        /\ Cardinality(Tasks(m)) \in Nat /\ Cardinality(Tasks(s)) \in Nat
    BY <2>1, <2>3, FS_Subset, FS_CardinalityType
  <2>5. Limit(m) = Limit(s) /\ Limit(s) \in Nat
    <3>1. s.workers \in Nat /\ m.workers = s.workers
      BY <1>1, SchedulerAssumption DEF Elsewhere, QueueType
    <3> QED BY <3>1 DEF Limit
  <2>6. Cardinality(Tasks(m)) <= Limit(m)
    <3>1. Cardinality(Tasks(s)) <= Limit(s)
      BY <1>1 DEF LanesOK
    <3> QED BY <2>4, <2>5, <3>1
  <2>7. ASSUME NEW q \in Tasks(m) PROVE IsBackground(ReasonsNow(m, q)) => IsBackground(ReasonsNow(s, q))
    <3>1. q \in Requests /\ m.task[q].stage # "none"
      BY DEF Tasks
    <3> QED BY <3>1 DEF Elsewhere, ReasonsNow
  <2>8. ASSUME NEW q \in Tasks(m), NEW r \in Tasks(m),
               IsBackground(ReasonsNow(m, q)), IsBackground(ReasonsNow(m, r))
        PROVE  q = r
    BY <1>1, <2>1, <2>7, <2>8 DEF LanesOK
  <2> QED BY <2>6, <2>8 DEF LanesOK
<1> QED BY <1>3, <1>4, <1>5, QueueByParent

\* A parent whose chunk a drain starts is as it was.
LEMMA StartKeepsParent ==
  ASSUME NEW st, NEW tk, NEW uk, NEW slots, NEW waits, ParentOK(st, tk, slots, waits),
         Starts(tk, uk), uk.stage = "fetching" => uk.slot \in slots
  PROVE  ParentOK(st, uk, slots, waits)
<1>1. CASE uk = tk
  BY <1>1
<1>2. CASE tk.stage = "none" /\ uk.stage = "fetching"
  <2>1. CancelOK(st, tk, slots, waits) /\ CountOK(st, tk, slots)
    BY DEF ParentOK
  <2>2. ~st.cancelled
    BY <1>2, <2>1 DEF CancelOK, HeldBy
  <2>3. CancelOK(st, uk, slots, waits)
    BY <1>2, <2>1, <2>2 DEF CancelOK
  <2>4. CountOK(st, uk, slots)
    BY <1>2, <2>1 DEF CountOK
  <2> QED BY <2>3, <2>4 DEF ParentOK
<1> QED BY <1>1, <1>2 DEF Starts

\* BackgroundYields of one step.
YieldStep ==
  \A p \in Requests :
    task'[p].stage = "fetching" /\ task[p] # task'[p] /\ IsBackground(parent'[p].reasons) =>
      /\ \A q \in Requests : HasTask(q)' => IsBackground(parent'[q].reasons)
      /\ \A c \in ToSet(line') : IsBackground(parent'[c[1]].reasons)

\* The fields of Now.
LEMMA NowFields ==
  /\ Now.active = active /\ Now.pending = pending /\ Now.task = task /\ Now.last = lastCell
  /\ Now.timer = timer /\ Now.workers = workers /\ Now.parent = parent /\ Now.line = line
  /\ Now.deferred = deferred /\ Now.tokens = 0 /\ Now.delayed = FALSE
BY DEF Now

\* The fields of Now in the next state.
LEMMA NowFieldsNext ==
  /\ Now'.active = active' /\ Now'.pending = pending' /\ Now'.task = task' /\ Now'.last = lastCell'
  /\ Now'.timer = timer' /\ Now'.workers = workers' /\ Now'.parent = parent' /\ Now'.line = line'
  /\ Now'.deferred = deferred' /\ Now'.tokens = 0 /\ Now'.delayed = FALSE
BY DEF Now

\* A handler that ends in a drain, from the queue m it has made.
LEMMA DrainLands ==
  ASSUME NEW m, live' \in SUBSET Requests, QueueOK(m, live', revoking'), Yields(m, task),
         m.delayed = FALSE, m.parent = parent', m.line = line', m.deferred = deferred',
         m.workers = workers', phase' = phase,
         NEW e, e = IF phase = "up" THEN Drained(m) ELSE m,
         active' = e.active, pending' = e.pending, task' = e.task, lastCell' = e.last,
         timer' = e.timer,
         \A p \in Requests :
           IF p \in live' THEN ParentOK(parent'[p], m.task[p], SlotsOf(line', p), p \in revoking')
           ELSE parent'[p] = NoParent
  PROVE  QueueOK(Now', live', revoking') /\ ParentsOK' /\ AlwaysWoken' /\ YieldStep
<1>1. /\ Drains(e, m, live', revoking', task)
      /\ phase = "up" /\ m.line # <<>> => e.timer \/ Tasks(e) # {}
  <2>1. CASE phase = "up"
    BY <2>1, DrainedKeeps
  <2>2. CASE phase # "up"
    BY <2>2 DEF Drains, Starts
  <2> QED BY <2>1, <2>2
<1>2. /\ QueueOK(e, live', revoking') /\ Yields(e, task) /\ e \in QueueType
      /\ e.parent = parent' /\ e.line = line' /\ e.deferred = deferred' /\ e.workers = workers'
      /\ \A p \in Requests : Starts(m.task[p], e.task[p])
  BY <1>1 DEF Drains, QueueOK
<1>3. Now' \in QueueType
  BY <1>2 DEF Now, QueueType
<1>4. QueueOK(Now', live', revoking')
  BY <1>2, <1>3, NowFieldsNext, SameQueue
<1>5. ASSUME NEW p \in Requests
      PROVE  IF p \in live' THEN ParentOK(parent'[p], task'[p], SlotsOf(line', p), p \in revoking')
             ELSE parent'[p] = NoParent
  <2>1. Starts(m.task[p], task'[p])
    BY <1>2
  <2>2. task'[p].stage = "fetching" => task'[p].slot \in SlotsOf(line', p)
    BY <1>2 DEF QueueOK, TasksOK
  <2> QED BY <2>1, <2>2, StartKeepsParent
<1>6. ParentsOK'
  BY <1>5 DEF ParentsOK
<1>7. Tasks(e) = {p \in Requests : HasTask(p)'}
  BY DEF Tasks, HasTask
<1>8. AlwaysWoken'
  BY <1>1, <1>2, <1>7 DEF AlwaysWoken
<1>9. YieldStep
  <2>1. \A p : ReasonsNow(e, p) = parent'[p].reasons
    BY <1>2 DEF ReasonsNow
  <2>2. Yields(e, task)
    BY <1>2
  <2> QED BY <1>2, <1>7, <2>1, <2>2 DEF Yields, YieldStep
<1> QED BY <1>4, <1>6, <1>8, <1>9

\* A task that a handler keeps or ends starts nothing.
LEMMA NothingStarts ==
  ASSUME NEW m, NEW before, \A p \in Requests : m.task[p] = before[p] \/ m.task[p].stage # "fetching"
  PROVE  Yields(m, before)
  BY DEF Yields

\* The queue a handler finds.
LEMMA QueueFields ==
  ASSUME NEW tokens \in Nat, Now \in QueueType, workers' = workers,
         parent' \in [Requests -> Parent], line' \in Seq(Requests \X Nat),
         deferred' \in SUBSET (Requests \X Nat)
  PROVE  LET q == Queue(tokens) IN
           /\ q \in QueueType
           /\ q.active = active /\ q.pending = pending /\ q.task = task /\ q.last = lastCell
           /\ q.timer = timer /\ q.workers = workers /\ q.parent = parent' /\ q.line = line'
           /\ q.deferred = deferred' /\ q.tokens = tokens /\ q.delayed = FALSE
<1>1. /\ active \in [SeriesKeys -> Requests \cup {Absent}] /\ pending \in [SeriesKeys -> Seq(Requests)]
      /\ task \in [Requests -> TaskType] /\ lastCell \in [Priorities \X BOOLEAN -> Cells \cup {Absent}]
      /\ timer \in BOOLEAN /\ workers \in Concurrency
  BY NowFields DEF QueueType
<1> QED BY <1>1 DEF Queue, QueueType

\* A full bucket is a number of tokens.
LEMMA Ample == AmpleTokens \in Nat
  BY SchedulerAssumption, FS_CardinalityType DEF AmpleTokens

\* What the invariant says of the parts a handler reads.
LEMMA Facts ==
  ASSUME IInv
  PROVE  /\ Now \in QueueType /\ QueueOK(Now, live, revoking) /\ live \in SUBSET Requests
         /\ revoking \in SUBSET Requests /\ line \in Seq(Requests \X Nat)
         /\ parent \in [Requests -> Parent] /\ task \in [Requests -> TaskType]
         /\ ToSet(line) \in SUBSET (Requests \X Nat) /\ deferred \in SUBSET (Requests \X Nat)
         /\ active \in [SeriesKeys -> Requests \cup {Absent}]
         /\ pending \in [SeriesKeys -> Seq(Requests)]
         /\ \A p \in Requests : OwnOK(Now, live, revoking, p)
         /\ \A p \in live : ParentOK(parent[p], task[p], SlotsOf(line, p), p \in revoking)
         /\ \A p \in Requests \ live : parent[p] = NoParent
         /\ RestOK
         /\ \A p \in Requests : \A x \in SeriesKeys \ {Series(p)} :
              active[x] # p /\ p \notin ToSet(pending[x])
<1>1. Now \in QueueType /\ QueueOK(Now, live, revoking) /\ RestOK /\ ParentsOK
  BY DEF IInv, QueueOK
<1>2. live \in SUBSET Requests /\ revoking \in SUBSET Requests /\ deferred \subseteq ToSet(line)
  BY <1>1 DEF RestOK
<1>3. \A p \in Requests : OwnOK(Now, live, revoking, p)
  BY <1>1, <1>2, QueueByParent
<1>4. line \in Seq(Requests \X Nat)
  BY <1>1, NowFields DEF QueueType
<1>5. parent \in [Requests -> Parent] /\ task \in [Requests -> TaskType]
      /\ active \in [SeriesKeys -> Requests \cup {Absent}] /\ pending \in [SeriesKeys -> Seq(Requests)]
  BY <1>1, NowFields DEF QueueType
<1>6. ToSet(line) \in SUBSET (Requests \X Nat)
  BY <1>4, LineTyped
<1>7. /\ \A p \in live : ParentOK(parent[p], task[p], SlotsOf(line, p), p \in revoking)
      /\ \A p \in Requests \ live : parent[p] = NoParent
  BY <1>1, <1>2 DEF ParentsOK
<1>8. SeriesOK(Now)
  BY <1>1, <1>2, QueueByParent
<1>9. \A p \in Requests : \A x \in SeriesKeys \ {Series(p)} :
        active[x] # p /\ p \notin ToSet(pending[x])
  BY <1>8, NowFields, DemandSeries DEF SeriesOK
<1> QED BY <1>1, <1>2, <1>3, <1>4, <1>5, <1>6, <1>7, <1>9

\* The parts of the invariant that the drain does not touch.
LEMMA InvByParts ==
  ASSUME RestOK', QueueOK(Now', live', revoking'), ParentsOK', \A r \in Requests : AnswerOK(r)',
         AlwaysWoken'
  PROVE  IInv'
BY DEF IInv

\* _run_scheduled_drain: the timer fires.
LEMMA RunScheduledDrainKeeps ==
  ASSUME IInv, RunScheduledDrain
  PROVE  IInv' /\ YieldStep
<1>1. PICK tokens \in {0, AmpleTokens} :
        /\ faults' = faults + (IF tokens = 0 THEN 1 ELSE 0) /\ faults' <= MaxFaults
        /\ LET m == [Queue(tokens) EXCEPT !.timer = FALSE]
               e == IF phase = "up" THEN Drained(m) ELSE m
           IN  /\ active' = e.active /\ pending' = e.pending /\ task' = e.task
               /\ lastCell' = e.last /\ timer' = e.timer
  BY DEF RunScheduledDrain, Drain, DrainAfter
<1>2. UNCHANGED <<workers, phase, canonical, live, parent, line, deferred, revoking, future, revoked>>
  BY DEF RunScheduledDrain
<1> DEFINE q == Queue(tokens)
           m == [q EXCEPT !.timer = FALSE]
           e == IF phase = "up" THEN Drained(m) ELSE m
<1>3. tokens \in Nat
  BY <1>1, Ample
<1>4. /\ q \in QueueType
      /\ q.active = active /\ q.pending = pending /\ q.task = task /\ q.last = lastCell
      /\ q.timer = timer /\ q.workers = workers /\ q.parent = parent' /\ q.line = line'
      /\ q.deferred = deferred' /\ q.tokens = tokens /\ q.delayed = FALSE
  BY <1>2, <1>3, Facts, QueueFields
<1> HIDE DEF q
<1>5. /\ m \in QueueType
      /\ m.active = active /\ m.pending = pending /\ m.task = task
      /\ m.workers = workers /\ m.parent = parent' /\ m.line = line'
      /\ m.deferred = deferred' /\ m.delayed = FALSE
  BY <1>4 DEF QueueType
<1> HIDE DEF m
<1>6. active' = e.active /\ pending' = e.pending /\ task' = e.task /\ lastCell' = e.last /\ timer' = e.timer
  BY <1>1 DEF m, q
<1> HIDE DEF e
<1>7. QueueOK(m, live, revoking)
  BY <1>2, <1>5, Facts, NowFields, SameQueue
<1>8. Yields(m, task)
  BY <1>5, NothingStarts
<1>9. QueueOK(Now', live', revoking') /\ ParentsOK' /\ AlwaysWoken' /\ YieldStep
  BY <1>2, <1>5, <1>6, <1>7, <1>8, Facts, DrainLands DEF e
<1>10. RestOK'
  BY <1>1, <1>2, <1>3, Facts DEF RestOK
<1>11. \A r \in Requests : AnswerOK(r)'
  BY <1>2 DEF IInv, AnswerOK
<1> QED BY <1>9, <1>10, <1>11, InvByParts

\* A queue in which a task has ended.
LEMMA TaskEnds ==
  ASSUME NEW q \in QueueType, NEW p \in Requests
  PROVE  LET m == [q EXCEPT !.task[p] = Idle, !.active[Series(p)] = Absent] IN
           /\ m \in QueueType
           /\ m.active = [q.active EXCEPT ![Series(p)] = Absent]
           /\ m.task = [q.task EXCEPT ![p] = Idle]
           /\ m.pending = q.pending /\ m.workers = q.workers /\ m.parent = q.parent
           /\ m.line = q.line /\ m.deferred = q.deferred /\ m.delayed = q.delayed
           /\ m.timer = q.timer /\ m.tokens = q.tokens
<1>1. Idle \in TaskType
  BY DEF Idle, TaskType
<1>2. [q.task EXCEPT ![p] = Idle] \in [Requests -> TaskType]
  BY <1>1 DEF QueueType
<1>3. [q.active EXCEPT ![Series(p)] = Absent] \in [SeriesKeys -> Requests \cup {Absent}]
  BY DEF QueueType
<1> QED BY <1>2, <1>3 DEF QueueType

\* The empty parent has the type of one.
LEMMA NoParentTyped == NoParent \in Parent
  BY DEF NoParent, Parent, Outcomes

\* The end of a parent leaves the answers of the others alone.
LEMMA EndedKeeps ==
  ASSUME IInv, NEW p \in Requests, NEW outcome \in Outcomes, Ended(p, outcome),
         canonical' = canonical
  PROVE  /\ \A r \in Requests : AnswerOK(r)'
         /\ live' = live \ {p} /\ live' \in SUBSET Requests
         /\ parent' \in [Requests -> Parent] /\ parent'[p] = NoParent
         /\ \A q \in Requests \ {p} : parent'[q] = parent[q]
         /\ future' \in [Requests -> Outcomes \cup {"open"}]
         /\ \A c \in deferred : ~parent'[c[1]].cancelled
<1>1. /\ parent \in [Requests -> Parent] /\ live \in SUBSET Requests
      /\ future \in [Requests -> Outcomes \cup {"open"}]
      /\ canonical \in [Requests -> Requests \cup {Absent}]
  BY Facts DEF RestOK
<1>2. /\ live' = live \ {p} /\ live' \in SUBSET Requests
      /\ parent' \in [Requests -> Parent] /\ parent'[p] = NoParent
      /\ \A q \in Requests \ {p} : parent'[q] = parent[q]
  BY <1>1, NoParentTyped DEF Ended
<1>3. future' \in [Requests -> Outcomes \cup {"open"}]
  BY <1>1 DEF Ended
<1>4. ASSUME NEW r \in Requests PROVE AnswerOK(r)'
  <2>1. AnswerOK(r) /\ canonical[r] \in Requests \cup {Absent}
    BY <1>1 DEF IInv
  <2>2. canonical[r] \in live' => canonical[r] \in live /\ parent'[canonical[r]] = parent[canonical[r]]
    BY <1>1, <1>2
  <2> QED BY <1>2, <2>1, <2>2 DEF AnswerOK
<1>5. ASSUME NEW c \in deferred PROVE ~parent'[c[1]].cancelled
  <2>1. c[1] \in Requests /\ ~parent[c[1]].cancelled
    BY Facts DEF RestOK
  <2>2. ~NoParent.cancelled
    BY DEF NoParent
  <2> QED BY <1>2, <2>1, <2>2
<1> QED BY <1>2, <1>3, <1>4, <1>5

\* The caller that withdrew a pending parent has committed its end.
LEMMA FinishCancellationKeeps ==
  ASSUME IInv, NEW p \in Requests, FinishCancellation(p)
  PROVE  IInv' /\ YieldStep
<1>1. PICK tokens \in {0, AmpleTokens} :
        /\ faults' = faults + (IF tokens = 0 THEN 1 ELSE 0) /\ faults' <= MaxFaults
        /\ LET m == Queue(tokens)
               e == IF phase = "up" THEN Drained(m) ELSE m
           IN  /\ active' = e.active /\ pending' = e.pending /\ task' = e.task
               /\ lastCell' = e.last /\ timer' = e.timer
  BY DEF FinishCancellation, Drain, DrainAfter
<1>2. /\ UNCHANGED <<workers, phase, canonical, line, deferred, revoked>>
      /\ p \in revoking /\ revoking' = revoking \ {p} /\ Ended(p, "cancelled")
  BY DEF FinishCancellation
<1> DEFINE m == Queue(tokens)
           e == IF phase = "up" THEN Drained(m) ELSE m
<1>3. /\ \A r \in Requests : AnswerOK(r)'
      /\ live' = live \ {p} /\ live' \in SUBSET Requests
      /\ parent' \in [Requests -> Parent] /\ parent'[p] = NoParent
      /\ \A q \in Requests \ {p} : parent'[q] = parent[q]
      /\ future' \in [Requests -> Outcomes \cup {"open"}]
      /\ \A c \in deferred : ~parent'[c[1]].cancelled
  BY <1>2, EndedKeeps DEF Outcomes
<1>4. tokens \in Nat
  BY <1>1, Ample
<1>5. /\ m \in QueueType
      /\ m.active = active /\ m.pending = pending /\ m.task = task /\ m.last = lastCell
      /\ m.timer = timer /\ m.workers = workers /\ m.parent = parent' /\ m.line = line'
      /\ m.deferred = deferred' /\ m.delayed = FALSE
  BY <1>2, <1>3, <1>4, Facts, QueueFields
<1>6. active' = e.active /\ pending' = e.pending /\ task' = e.task /\ lastCell' = e.last /\ timer' = e.timer
  BY <1>1
<1> HIDE DEF m, e
<1>7. OwnOK(Now, live, revoking, p) /\ p \in Requests
  BY Facts
<1>8. /\ task[p].stage = "none" /\ active[Series(p)] # p /\ p \notin ToSet(pending[Series(p)])
      /\ SlotsOf(line, p) = {}
  BY <1>2, <1>7, NowFields DEF OwnOK
<1>9. QueueOK(m, live', revoking')
  <2>1. Elsewhere(Now, m, p)
    BY <1>2, <1>3, <1>5, <1>8, Facts, NowFields DEF Elsewhere
  <2>2. OwnOK(m, live', revoking', p)
    BY <1>2, <1>3, <1>5, <1>8 DEF OwnOK
  <2>3. \A q \in Requests \ {p} : (q \in live' <=> q \in live) /\ (q \in revoking' <=> q \in revoking)
    BY <1>2, <1>3
  <2>4. QueueOK(Now, live, revoking) /\ live \in SUBSET Requests
    BY Facts
  <2>5. m \in QueueType /\ live' \in SUBSET Requests
    BY <1>3, <1>5
  <2> QED BY <2>1, <2>2, <2>3, <2>4, <2>5, OneParent
<1>10. Yields(m, task)
  BY <1>5, NothingStarts
<1>11. ASSUME NEW q \in Requests
       PROVE  IF q \in live' THEN ParentOK(parent'[q], m.task[q], SlotsOf(line', q), q \in revoking')
              ELSE parent'[q] = NoParent
  BY <1>2, <1>3, <1>5, Facts
<1>12. QueueOK(Now', live', revoking') /\ ParentsOK' /\ AlwaysWoken' /\ YieldStep
  BY <1>2, <1>3, <1>5, <1>6, <1>9, <1>10, <1>11, DrainLands DEF e
<1>13. RestOK'
  BY <1>1, <1>2, <1>3, <1>4, Facts DEF RestOK
<1> QED BY <1>3, <1>12, <1>13, InvByParts

\* The ledger has answered for a parent, or failed to.
LEMMA FinishCommitKeeps ==
  ASSUME IInv, NEW p \in Requests, NEW ok \in BOOLEAN, FinishCommit(p, ok)
  PROVE  IInv' /\ YieldStep
<1>1. PICK tokens \in {0, AmpleTokens} :
        /\ faults' = faults + (IF tokens = 0 THEN 1 ELSE 0) /\ faults' <= MaxFaults
        /\ LET m == [Queue(tokens) EXCEPT !.task[p] = Idle, !.active[Series(p)] = Absent]
               e == IF phase = "up" THEN Drained(m) ELSE m
           IN  /\ active' = e.active /\ pending' = e.pending /\ task' = e.task
               /\ lastCell' = e.last /\ timer' = e.timer
  BY DEF FinishCommit, Drain, DrainAfter
<1> DEFINE outcome == IF ok THEN parent[p].verdict ELSE "failed"
<1>2. /\ UNCHANGED <<workers, phase, canonical, line, deferred, revoking, revoked>>
      /\ phase = "up" /\ task[p].stage = "committing" /\ Ended(p, outcome)
  BY DEF FinishCommit
<1> DEFINE q0 == Queue(tokens)
           m == [q0 EXCEPT !.task[p] = Idle, !.active[Series(p)] = Absent]
           e == IF phase = "up" THEN Drained(m) ELSE m
<1>3. /\ \A r \in Requests : AnswerOK(r)'
      /\ live' = live \ {p} /\ live' \in SUBSET Requests
      /\ parent' \in [Requests -> Parent] /\ parent'[p] = NoParent
      /\ \A q \in Requests \ {p} : parent'[q] = parent[q]
      /\ future' \in [Requests -> Outcomes \cup {"open"}]
      /\ \A c \in deferred : ~parent'[c[1]].cancelled
  <2>1. parent[p] \in Parent
    BY Facts
  <2>2. outcome \in Outcomes
    BY <2>1 DEF Parent, Outcomes
  <2> HIDE DEF outcome
  <2> QED BY <1>2, <2>2, EndedKeeps
<1>4. tokens \in Nat
  BY <1>1, Ample
<1>5. /\ q0 \in QueueType
      /\ q0.active = active /\ q0.pending = pending /\ q0.task = task /\ q0.last = lastCell
      /\ q0.timer = timer /\ q0.workers = workers /\ q0.parent = parent' /\ q0.line = line'
      /\ q0.deferred = deferred' /\ q0.delayed = FALSE
  BY <1>2, <1>3, <1>4, Facts, QueueFields
<1> HIDE DEF q0
<1>6. Series(p) \in SeriesKeys /\ p # Absent
  BY DemandSeries
<1>7. /\ m \in QueueType
      /\ m.active = [active EXCEPT ![Series(p)] = Absent] /\ m.pending = pending
      /\ m.task = [task EXCEPT ![p] = Idle]
      /\ m.workers = workers /\ m.parent = parent' /\ m.line = line'
      /\ m.deferred = deferred' /\ m.delayed = FALSE
  BY <1>5, TaskEnds
<1> HIDE DEF m
<1>8. active' = e.active /\ pending' = e.pending /\ task' = e.task /\ lastCell' = e.last /\ timer' = e.timer
  BY <1>1 DEF m, q0
<1> HIDE DEF e
<1>9. OwnOK(Now, live, revoking, p)
  BY Facts
<1>10. /\ active[Series(p)] = p /\ p \notin ToSet(pending[Series(p)]) /\ SlotsOf(line, p) = {}
  BY <1>2, <1>9, NowFields DEF OwnOK
<1>11. /\ m.task[p] = Idle /\ \A q \in Requests \ {p} : m.task[q] = task[q]
       /\ m.active[Series(p)] = Absent /\ \A x \in SeriesKeys \ {Series(p)} : m.active[x] = active[x]
  BY <1>6, <1>7, Facts
<1>12. QueueOK(m, live', revoking')
  <2>1. Elsewhere(Now, m, p)
    <3>1. \A x \in SeriesKeys : \A q \in Requests \ {p} : m.active[x] = q <=> active[x] = q
      BY <1>10, <1>11, DemandSeries
    <3> QED BY <1>2, <1>3, <1>7, <1>11, <3>1, Facts, NowFields DEF Elsewhere, Idle
  <2>2. OwnOK(m, live', revoking', p)
    BY <1>2, <1>3, <1>6, <1>7, <1>10, <1>11 DEF OwnOK, Idle
  <2>3. \A q \in Requests \ {p} : (q \in live' <=> q \in live) /\ (q \in revoking' <=> q \in revoking)
    BY <1>2, <1>3
  <2> QED BY <1>3, <1>7, <2>1, <2>2, <2>3, Facts, OneParent
<1>13. Yields(m, task)
  BY <1>11, NothingStarts DEF Idle
<1>14. ASSUME NEW q \in Requests
       PROVE  IF q \in live' THEN ParentOK(parent'[q], m.task[q], SlotsOf(line', q), q \in revoking')
              ELSE parent'[q] = NoParent
  BY <1>2, <1>3, <1>11, Facts
<1>15. QueueOK(Now', live', revoking') /\ ParentsOK' /\ AlwaysWoken' /\ YieldStep
  BY <1>2, <1>3, <1>7, <1>8, <1>12, <1>13, <1>14, DrainLands DEF e
<1>16. p \notin revoking
  BY <1>2, <1>9, NowFields DEF OwnOK
<1>17. RestOK'
  BY <1>1, <1>2, <1>3, <1>4, <1>16, Facts DEF RestOK
<1> QED BY <1>3, <1>15, <1>17, InvByParts

\* What the queue of the next state is made of.
LEMMA NowTyped ==
  ASSUME active' \in [SeriesKeys -> Requests \cup {Absent}],
         pending' \in [SeriesKeys -> Seq(Requests)], task' \in [Requests -> TaskType],
         lastCell' \in [Priorities \X BOOLEAN -> Cells \cup {Absent}], timer' \in BOOLEAN,
         workers' \in Concurrency, parent' \in [Requests -> Parent],
         line' \in Seq(Requests \X Nat), deferred' \in SUBSET (Requests \X Nat)
  PROVE  Now' \in QueueType
BY DEF Now, QueueType

\* The types that only the queue states.
LEMMA NowParts ==
  ASSUME IInv
  PROVE  /\ lastCell \in [Priorities \X BOOLEAN -> Cells \cup {Absent}] /\ timer \in BOOLEAN
         /\ workers \in Concurrency
BY Facts, NowFields DEF QueueType

\* A handler that starts no task.
LEMMA YieldsStill ==
  ASSUME \A p \in Requests : task'[p] = task[p] \/ task'[p].stage # "fetching"
  PROVE  YieldStep
BY DEF YieldStep

\* shutdown, up to its await.
LEMMA ShutdownKeeps == ASSUME IInv, Shutdown PROVE IInv' /\ YieldStep
<1>1. /\ UNCHANGED <<workers, canonical, live, parent, line, deferred, task, active, pending,
                     revoking, lastCell, future, revoked, faults>>
      /\ phase = "up" /\ phase' = "stopping" /\ timer' = FALSE
  BY DEF Shutdown
<1>2. Now' \in QueueType
  BY <1>1, Facts, NowParts, NowTyped
<1>3. QueueOK(Now', live', revoking')
  BY <1>1, <1>2, Facts, NowFields, NowFieldsNext, SameQueue
<1>4. RestOK' /\ AlwaysWoken'
  BY <1>1, Facts DEF RestOK, AlwaysWoken
<1>5. ParentsOK' /\ \A r \in Requests : AnswerOK(r)'
  BY <1>1 DEF IInv, ParentsOK, AnswerOK
<1>6. YieldStep
  BY <1>1, YieldsStill
<1> QED BY <1>3, <1>4, <1>5, <1>6, InvByParts

\* The retry time of a deferred chunk comes.
LEMMA BecomeEligibleKeeps ==
  ASSUME IInv, NEW c \in deferred, BecomeEligible(c) PROVE IInv' /\ YieldStep
<1>1. /\ UNCHANGED <<workers, phase, canonical, live, parent, line, queueVars, revoking, future,
                     revoked, faults>>
      /\ deferred' = deferred \ {c}
  BY DEF BecomeEligible
<1>2. /\ UNCHANGED <<workers, phase, canonical, live, parent, line, active, pending, task, lastCell,
                     timer, revoking, future, revoked, faults>>
  BY <1>1 DEF queueVars
<1>3. Now' \in QueueType
  BY <1>1, <1>2, Facts, NowParts, NowTyped
<1>4. QueueOK(Now', live', revoking')
  <2>1. /\ \A p \in Requests : OwnOK(Now, live, revoking, p)
        /\ SeriesOK(Now) /\ LanesOK(Now) /\ live \in SUBSET Requests
    BY Facts, QueueByParent
  <2>2. \A p \in Requests : OwnOK(Now', live', revoking', p)
    BY <1>2, <2>1, NowFields, NowFieldsNext DEF OwnOK
  <2>3. SeriesOK(Now') /\ LanesOK(Now')
    BY <1>2, <2>1, NowFields, NowFieldsNext DEF SeriesOK, LanesOK, Tasks, ReasonsNow, Limit
  <2> QED BY <1>2, <1>3, <2>1, <2>2, <2>3, QueueByParent
<1>5. RestOK' /\ AlwaysWoken'
  <2>1. AlwaysWoken /\ RestOK
    BY Facts DEF IInv
  <2> QED BY <1>1, <1>2, <2>1 DEF RestOK, AlwaysWoken, HasTask
<1>6. ParentsOK' /\ \A r \in Requests : AnswerOK(r)'
  BY <1>2 DEF IInv, ParentsOK, AnswerOK
<1>7. YieldStep
  BY <1>2, YieldsStill
<1> QED BY <1>4, <1>5, <1>6, <1>7, InvByParts

\* A demand withdrawn before it was submitted.
LEMMA RejectSubmitKeeps ==
  ASSUME IInv, NEW r \in Requests, canonical[r] = Absent, RejectSubmit(r),
         UNCHANGED <<workers, phase, revoking, revoked>>
  PROVE IInv' /\ YieldStep
<1>1. /\ UNCHANGED <<workers, phase, live, parent, line, deferred, active, pending, task, lastCell,
                     timer, revoking, revoked, faults>>
      /\ canonical' = [canonical EXCEPT ![r] = r] /\ future' = [future EXCEPT ![r] = "cancelled"]
  BY DEF RejectSubmit, queueVars
<1>2. Now' \in QueueType
  BY <1>1, Facts, NowParts, NowTyped
<1>3. QueueOK(Now', live', revoking')
  <2>1. QueueOK(Now, live, revoking)
    BY Facts
  <2>2. /\ Now'.active = Now.active /\ Now'.pending = Now.pending /\ Now'.task = Now.task
        /\ Now'.parent = Now.parent /\ Now'.line = Now.line /\ Now'.deferred = Now.deferred
        /\ Now'.workers = Now.workers
    BY <1>1, NowFields, NowFieldsNext
  <2>3. QueueOK(Now', live, revoking)
    BY <1>2, <2>1, <2>2, SameQueue
  <2> QED BY <1>1, <2>3
<1>4. /\ canonical \in [Requests -> Requests \cup {Absent}]
      /\ \A q \in Requests : AnswerOK(q)
      /\ r # Absent
  BY Facts, DemandSeries DEF RestOK, IInv
<1>5. RestOK' /\ AlwaysWoken'
  <2>1. AlwaysWoken /\ RestOK
    BY Facts DEF IInv
  <2> QED BY <1>1, <2>1 DEF RestOK, AlwaysWoken, HasTask, Outcomes
<1>6. ASSUME NEW q \in Requests PROVE AnswerOK(q)'
  <2>1. r \notin live /\ canonical[q] # r
    BY <1>4 DEF AnswerOK
  <2>2. CASE q = r
    BY <1>1, <1>4, <2>1, <2>2 DEF AnswerOK
  <2>3. CASE q # r
    BY <1>1, <1>4, <2>1, <2>3 DEF AnswerOK
  <2> QED BY <2>2, <2>3
<1>7. ParentsOK'
  BY <1>1 DEF IInv, ParentsOK
<1>8. YieldStep
  BY <1>1, YieldsStill
<1> QED BY <1>3, <1>5, <1>6, <1>7, <1>8, InvByParts

\* acquire_demand adds a lease.
LEMMA AcquireDemandKeeps ==
  ASSUME IInv, NEW p \in Requests, NEW o \in Owners, AcquireDemand(p, o)
  PROVE  IInv' /\ YieldStep
<1>1. /\ UNCHANGED <<workers, phase, canonical, live, line, deferred, active, pending, task, lastCell,
                     timer, revoking, future, revoked, faults>>
      /\ p \in live /\ ~parent[p].stale
      /\ parent' = [parent EXCEPT ![p].leases = @ \cup {o}]
  BY DEF AcquireDemand, queueVars
<1>2. parent \in [Requests -> Parent]
  BY Facts
<1>3. /\ parent' \in [Requests -> Parent] /\ \A q \in Requests \ {p} : parent'[q] = parent[q]
      /\ parent'[p] = [parent[p] EXCEPT !.leases = @ \cup {o}]
  <2>1. [parent[p] EXCEPT !.leases = @ \cup {o}] \in Parent
    BY <1>2 DEF Parent
  <2> QED BY <1>1, <1>2, <2>1
<1>4. /\ parent'[p].reasons = parent[p].reasons /\ parent'[p].priority = parent[p].priority
      /\ parent'[p].cell = parent[p].cell /\ parent'[p].trusted = parent[p].trusted
      /\ parent'[p].cancelled = parent[p].cancelled /\ parent'[p].stale = parent[p].stale
      /\ parent'[p].completed = parent[p].completed /\ parent'[p].total = parent[p].total
      /\ parent'[p].first = parent[p].first /\ parent'[p].last = parent[p].last
      /\ parent'[p].fetched = parent[p].fetched /\ parent'[p].weak = parent[p].weak
      /\ parent'[p].verdict = parent[p].verdict
  <2>1. parent[p] \in Parent
    BY <1>2
  <2> QED BY <1>3, <2>1 DEF Parent
<1>5. Now' \in QueueType
  BY <1>1, <1>3, Facts, NowParts, NowTyped
<1>6. QueueOK(Now', live', revoking')
  <2>1. Elsewhere(Now, Now', p)
    BY <1>1, <1>3, <1>4, Facts, NowFields, NowFieldsNext DEF Elsewhere
  <2>2. OwnOK(Now, live, revoking, p)
    BY Facts
  <2>3. OwnOK(Now', live', revoking', p)
    BY <1>1, <1>4, <2>2, NowFields, NowFieldsNext DEF OwnOK
  <2>4. QueueOK(Now, live, revoking) /\ live \in SUBSET Requests
    BY Facts
  <2>5. /\ live' \in SUBSET Requests
        /\ \A q \in Requests \ {p} : (q \in live' <=> q \in live) /\ (q \in revoking' <=> q \in revoking)
    BY <1>1, <2>4
  <2> QED BY <1>5, <2>1, <2>3, <2>4, <2>5, OneParent
<1>7. RestOK' /\ AlwaysWoken'
  <2>1. AlwaysWoken /\ RestOK
    BY Facts DEF IInv
  <2> QED BY <1>1, <2>1 DEF RestOK, AlwaysWoken, HasTask
<1>8. ASSUME NEW q \in Requests PROVE AnswerOK(q)'
  <2>1. /\ AnswerOK(q) /\ canonical[q] \in Requests \cup {Absent}
    BY Facts DEF RestOK, IInv
  <2>2. canonical[q] # Absent => /\ Whole(parent'[canonical[q]]) = Whole(parent[canonical[q]])
                                 /\ parent'[canonical[q]].trusted = parent[canonical[q]].trusted
    BY <1>3, <1>4, <2>1 DEF Whole
  <2> QED BY <1>1, <2>1, <2>2 DEF AnswerOK
<1>9. ParentOK(parent'[p], task[p], SlotsOf(line, p), p \in revoking)
  <2>1. ParentOK(parent[p], task[p], SlotsOf(line, p), p \in revoking)
    BY <1>1, Facts
  <2>2. ~parent[p].cancelled
    BY <1>1, <2>1 DEF ParentOK, CancelOK
  <2>3. CancelOK(parent'[p], task[p], SlotsOf(line, p), p \in revoking)
    BY <1>4, <2>1, <2>2 DEF ParentOK, CancelOK
  <2>4. CountOK(parent'[p], task[p], SlotsOf(line, p))
    BY <1>4, <2>1 DEF ParentOK, CountOK, Whole
  <2> QED BY <1>4, <2>1, <2>3, <2>4 DEF ParentOK
<1>10. ParentsOK'
  <2>1. ASSUME NEW q \in Requests
        PROVE  IF q \in live' THEN ParentOK(parent'[q], task'[q], SlotsOf(line', q), q \in revoking')
               ELSE parent'[q] = NoParent
    BY <1>1, <1>3, <1>9, Facts
  <2> QED BY <2>1 DEF ParentsOK
<1>11. YieldStep
  BY <1>1, YieldsStill
<1> QED BY <1>6, <1>7, <1>8, <1>10, <1>11, InvByParts

\* The end of a parent's chunks.
LEMMA LineCleared ==
  ASSUME NEW l \in Seq(Requests \X Nat), NEW p \in Requests
  PROVE  LET m == Without(l, {p} \X SlotsOf(l, p)) IN
           /\ m \in Seq(Requests \X Nat) /\ ToSet(m) = {c \in ToSet(l) : c[1] # p}
           /\ SlotsOf(m, p) = {} /\ \A q \in Requests \ {p} : SlotsOf(m, q) = SlotsOf(l, q)
<1> DEFINE m == Without(l, {p} \X SlotsOf(l, p))
<1>1. m \in Seq(Requests \X Nat) /\ ToSet(m) = ToSet(l) \ ({p} \X SlotsOf(l, p))
  BY WithoutKeeps
<1>2. ToSet(l) \in SUBSET (Requests \X Nat)
  BY LineTyped
<1> HIDE DEF m
<1>3. ToSet(m) = {c \in ToSet(l) : c[1] # p}
  <2>1. ASSUME NEW c \in ToSet(l) PROVE c \in {p} \X SlotsOf(l, p) <=> c[1] = p
    <3>1. c = <<c[1], c[2]>>
      BY <1>2
    <3> QED BY <3>1 DEF SlotsOf
  <2> QED BY <1>1, <2>1
<1>4. SlotsOf(m, p) = {} /\ \A q \in Requests \ {p} : SlotsOf(m, q) = SlotsOf(l, q)
  BY <1>3 DEF SlotsOf
<1> QED BY <1>1, <1>3, <1>4 DEF m

\* A task cancelled by the shutdown ends.
LEMMA UnwindTaskKeeps ==
  ASSUME IInv, NEW p \in Requests, UnwindTask(p) PROVE IInv' /\ YieldStep
<1> DEFINE outcome == IF task[p].stage = "withdrawing" THEN "cancelled" ELSE "failed"
<1>1. /\ UNCHANGED <<workers, phase, canonical, pending, revoking, timer, lastCell, revoked, faults>>
      /\ phase = "stopping" /\ task[p].stage # "none" /\ Ended(p, outcome)
      /\ task' = [task EXCEPT ![p] = Idle]
      /\ active' = [active EXCEPT ![Series(p)] = IF @ = p THEN Absent ELSE @]
      /\ line' = Without(line, {p} \X SlotsOf(line, p))
      /\ deferred' = {c \in deferred : c[1] # p}
  BY DEF UnwindTask, HasTask
<1>2. /\ \A r \in Requests : AnswerOK(r)'
      /\ live' = live \ {p} /\ live' \in SUBSET Requests
      /\ parent' \in [Requests -> Parent] /\ parent'[p] = NoParent
      /\ \A q \in Requests \ {p} : parent'[q] = parent[q]
      /\ future' \in [Requests -> Outcomes \cup {"open"}]
  <2>1. outcome \in Outcomes
    BY DEF Outcomes
  <2> HIDE DEF outcome
  <2> QED BY <1>1, <2>1, EndedKeeps
<1>3. /\ line' \in Seq(Requests \X Nat) /\ ToSet(line') = {c \in ToSet(line) : c[1] # p}
      /\ SlotsOf(line', p) = {} /\ \A q \in Requests \ {p} : SlotsOf(line', q) = SlotsOf(line, q)
  <2> DEFINE l == Without(line, {p} \X SlotsOf(line, p))
  <2>1. line \in Seq(Requests \X Nat)
    BY Facts
  <2>2. /\ l \in Seq(Requests \X Nat) /\ ToSet(l) = {c \in ToSet(line) : c[1] # p}
        /\ SlotsOf(l, p) = {} /\ \A q \in Requests \ {p} : SlotsOf(l, q) = SlotsOf(line, q)
    BY <2>1, LineCleared, Zenon
  <2>3. line' = l
    BY <1>1
  <2> QED BY <2>2, <2>3
<1>4. /\ active \in [SeriesKeys -> Requests \cup {Absent}] /\ task \in [Requests -> TaskType]
      /\ Series(p) \in SeriesKeys /\ p # Absent /\ deferred \in SUBSET (Requests \X Nat)
  BY Facts, DemandSeries
<1>5. /\ task' \in [Requests -> TaskType] /\ task'[p] = Idle
      /\ \A q \in Requests \ {p} : task'[q] = task[q]
  BY <1>1, <1>4 DEF Idle, TaskType
<1>6. /\ active' \in [SeriesKeys -> Requests \cup {Absent}] /\ active'[Series(p)] # p
      /\ \A x \in SeriesKeys \ {Series(p)} : active'[x] = active[x]
      /\ \A x \in SeriesKeys : \A q \in Requests \ {p} : active'[x] = q <=> active[x] = q
  BY <1>1, <1>4, DemandSeries
<1>7. Now' \in QueueType
  BY <1>1, <1>2, <1>3, <1>4, <1>5, <1>6, Facts, NowParts, NowTyped
<1>8. OwnOK(Now, live, revoking, p)
  BY Facts
<1>9. p \notin revoking /\ p \notin ToSet(pending[Series(p)])
  BY <1>1, <1>8, NowFields DEF OwnOK
<1>10. QueueOK(Now', live', revoking')
  <2>1. Elsewhere(Now, Now', p)
    <3>1. \A q \in Requests \ {p} : /\ task'[q] = task[q] /\ parent'[q] = parent[q]
                                   /\ SlotsOf(line', q) = SlotsOf(line, q)
      BY <1>2, <1>3, <1>5
    <3>2. \A x \in SeriesKeys \ {Series(p)} : active'[x] # p /\ p \notin ToSet(pending'[x])
      BY <1>1, <1>6, Facts
    <3>3. task'[p].stage = "none"
      BY <1>5 DEF Idle
    <3>4. workers' = workers /\ pending' = pending
      BY <1>1
    <3>5. \A x \in SeriesKeys : \A q \in Requests \ {p} :
            /\ q \in ToSet(pending'[x]) <=> q \in ToSet(pending[x])
            /\ active'[x] = q <=> active[x] = q
      BY <1>6, <3>4
    <3> QED BY <3>1, <3>2, <3>3, <3>4, <3>5, NowFields, NowFieldsNext DEF Elsewhere
  <2>2. OwnOK(Now', live', revoking', p)
    <3>1. /\ task'[p].stage = "none" /\ active'[Series(p)] # p /\ p \notin live'
          /\ p \notin ToSet(pending'[Series(p)]) /\ SlotsOf(line', p) = {}
      BY <1>1, <1>2, <1>3, <1>5, <1>6, <1>9 DEF Idle
    <3> QED BY <3>1, NowFieldsNext DEF OwnOK
  <2>3. QueueOK(Now, live, revoking) /\ live \in SUBSET Requests
    BY Facts
  <2>4. \A q \in Requests \ {p} : (q \in live' <=> q \in live) /\ (q \in revoking' <=> q \in revoking)
    BY <1>1, <1>2
  <2>5. live' \in SUBSET Requests
    BY <1>2
  <2> QED BY <1>7, <2>1, <2>2, <2>3, <2>4, <2>5, OneParent
<1>11. RestOK' /\ AlwaysWoken'
  BY <1>1, <1>2, <1>3, <1>9, Facts DEF RestOK, AlwaysWoken
<1>12. ParentsOK'
  <2>1. ASSUME NEW q \in Requests
        PROVE  IF q \in live' THEN ParentOK(parent'[q], task'[q], SlotsOf(line', q), q \in revoking')
               ELSE parent'[q] = NoParent
    BY <1>1, <1>2, <1>3, <1>5, Facts
  <2> QED BY <2>1 DEF ParentsOK
<1>13. YieldStep
  BY <1>5, YieldsStill DEF Idle
<1> QED BY <1>2, <1>10, <1>11, <1>12, <1>13, InvByParts

\* The end of shutdown clears the scheduler.
LEMMA EndShutdownKeeps == ASSUME IInv, EndShutdown PROVE IInv' /\ YieldStep
<1>1. /\ UNCHANGED <<workers, canonical, task, revoking, timer, lastCell, revoked, faults>>
      /\ \A p \in Requests : task[p].stage = "none"
      /\ phase' = "down" /\ live' = {} /\ parent' = [p \in Requests |-> NoParent]
      /\ line' = <<>> /\ deferred' = {}
      /\ active' = [s \in SeriesKeys |-> Absent] /\ pending' = [s \in SeriesKeys |-> <<>>]
      /\ future' = [p \in Requests |-> IF p \in live /\ future[p] = "open" THEN "failed" ELSE future[p]]
  BY DEF EndShutdown, HasTask
<1>2. ToSet(<<>>) = {} /\ \A p : SlotsOf(<<>>, p) = {}
  BY DEF SlotsOf, ToSet
<1>3. Now' \in QueueType
  <2>1. parent' \in [Requests -> Parent] /\ line' \in Seq(Requests \X Nat)
    BY <1>1, NoParentTyped
  <2>2. pending' \in [SeriesKeys -> Seq(Requests)]
    BY <1>1
  <2>3. active' \in [SeriesKeys -> Requests \cup {Absent}]
    BY <1>1
  <2> QED BY <1>1, <2>1, <2>2, <2>3, Facts, NowParts, NowTyped
<1>4. QueueOK(Now', live', revoking')
  <2>1. ASSUME NEW p \in Requests PROVE OwnOK(Now', live', revoking', p)
    <3>1. Series(p) \in SeriesKeys /\ p # Absent
      BY DemandSeries
    <3> QED BY <1>1, <1>2, <3>1, NowFieldsNext DEF OwnOK
  <2>2. SeriesOK(Now')
    BY <1>1, <1>2, NowFieldsNext DEF SeriesOK
  <2>3. LanesOK(Now')
    <3>1. Tasks(Now') = {}
      BY <1>1, NowFieldsNext DEF Tasks
    <3>2. Cardinality({}) = 0
      BY FS_EmptySet
    <3>3. Limit(Now') \in Nat
      BY <1>1, NowFieldsNext, NowParts, SchedulerAssumption DEF Limit
    <3> QED BY <3>1, <3>2, <3>3 DEF LanesOK
  <2>4. live' \in SUBSET Requests
    BY <1>1
  <2> QED BY <1>3, <2>1, <2>2, <2>3, <2>4, QueueByParent
<1>5. RestOK' /\ AlwaysWoken'
  BY <1>1, <1>2, Facts DEF RestOK, AlwaysWoken, Outcomes
<1>6. ParentsOK' /\ \A r \in Requests : AnswerOK(r)'
  BY <1>1, Facts DEF IInv, ParentsOK, AnswerOK
<1>7. YieldStep
  BY <1>1, YieldsStill
<1> QED BY <1>4, <1>5, <1>6, <1>7, InvByParts

\* A queue to which the parent of an ended task returns.
LEMMA TaskRequeued ==
  ASSUME NEW q \in QueueType, NEW p \in Requests
  PROVE  LET m == [q EXCEPT !.task[p] = Idle, !.active[Series(p)] = Absent,
                            !.pending[Series(p)] = Append(@, p)] IN
           /\ m \in QueueType
           /\ m.workers = q.workers /\ m.parent = q.parent
           /\ m.line = q.line /\ m.deferred = q.deferred /\ m.delayed = q.delayed
           /\ m.task[p] = Idle /\ \A r \in Requests \ {p} : m.task[r] = q.task[r]
           /\ m.active[Series(p)] = Absent
           /\ \A x \in SeriesKeys \ {Series(p)} : m.active[x] = q.active[x] /\ m.pending[x] = q.pending[x]
           /\ ToSet(m.pending[Series(p)]) = ToSet(q.pending[Series(p)]) \cup {p}
<1> DEFINE m == [q EXCEPT !.task[p] = Idle, !.active[Series(p)] = Absent,
                          !.pending[Series(p)] = Append(@, p)]
           tsk == [q.task EXCEPT ![p] = Idle]
           act == [q.active EXCEPT ![Series(p)] = Absent]
           l == Append(q.pending[Series(p)], p)
           pen == [q.pending EXCEPT ![Series(p)] = l]
<1>1. Idle \in TaskType /\ Series(p) \in SeriesKeys
  BY DemandSeries DEF Idle, TaskType
<1>2. q.pending[Series(p)] \in Seq(Requests) /\ q.pending \in [SeriesKeys -> Seq(Requests)]
  BY <1>1 DEF QueueType
<1>3. l \in Seq(Requests) /\ ToSet(l) = ToSet(q.pending[Series(p)]) \cup {p}
  BY <1>2, AppendAdds
<1> HIDE DEF l
<1>4. /\ tsk \in [Requests -> TaskType] /\ act \in [SeriesKeys -> Requests \cup {Absent}]
      /\ pen \in [SeriesKeys -> Seq(Requests)]
  BY <1>1, <1>2, <1>3 DEF QueueType
<1>5. /\ tsk[p] = Idle /\ \A r \in Requests \ {p} : tsk[r] = q.task[r]
      /\ act[Series(p)] = Absent
      /\ \A x \in SeriesKeys \ {Series(p)} : act[x] = q.active[x] /\ pen[x] = q.pending[x]
      /\ pen[Series(p)] = l
  BY <1>1, <1>2 DEF QueueType
<1>6. /\ m.task = tsk /\ m.active = act /\ m.pending = pen
      /\ m.workers = q.workers /\ m.parent = q.parent /\ m.line = q.line /\ m.deferred = q.deferred
      /\ m.delayed = q.delayed
  BY DEF QueueType, l
<1>7. m = [q EXCEPT !.task = tsk, !.active = act, !.pending = pen]
  BY DEF l
<1> HIDE DEF tsk, act, pen
<1>8. m \in QueueType
  BY <1>4, <1>7 DEF QueueType
<1> QED BY <1>3, <1>5, <1>6, <1>8

\* The same, with the timer armed.
LEMMA TaskDeferred ==
  ASSUME NEW q \in QueueType, NEW p \in Requests
  PROVE  LET m == [q EXCEPT !.task[p] = Idle, !.active[Series(p)] = Absent,
                            !.pending[Series(p)] = Append(@, p), !.timer = TRUE] IN
           /\ m \in QueueType
           /\ m.workers = q.workers /\ m.parent = q.parent
           /\ m.line = q.line /\ m.deferred = q.deferred /\ m.delayed = q.delayed
           /\ m.task[p] = Idle /\ \A r \in Requests \ {p} : m.task[r] = q.task[r]
           /\ m.active[Series(p)] = Absent
           /\ \A x \in SeriesKeys \ {Series(p)} : m.active[x] = q.active[x] /\ m.pending[x] = q.pending[x]
           /\ ToSet(m.pending[Series(p)]) = ToSet(q.pending[Series(p)]) \cup {p}
<1> DEFINE m == [q EXCEPT !.task[p] = Idle, !.active[Series(p)] = Absent,
                          !.pending[Series(p)] = Append(@, p), !.timer = TRUE]
           tsk == [q.task EXCEPT ![p] = Idle]
           act == [q.active EXCEPT ![Series(p)] = Absent]
           l == Append(q.pending[Series(p)], p)
           pen == [q.pending EXCEPT ![Series(p)] = l]
<1>1. Idle \in TaskType /\ Series(p) \in SeriesKeys
  BY DemandSeries DEF Idle, TaskType
<1>2. q.pending[Series(p)] \in Seq(Requests) /\ q.pending \in [SeriesKeys -> Seq(Requests)]
  BY <1>1 DEF QueueType
<1>3. l \in Seq(Requests) /\ ToSet(l) = ToSet(q.pending[Series(p)]) \cup {p}
  BY <1>2, AppendAdds
<1> HIDE DEF l
<1>4. /\ tsk \in [Requests -> TaskType] /\ act \in [SeriesKeys -> Requests \cup {Absent}]
      /\ pen \in [SeriesKeys -> Seq(Requests)]
  BY <1>1, <1>2, <1>3 DEF QueueType
<1>5. /\ tsk[p] = Idle /\ \A r \in Requests \ {p} : tsk[r] = q.task[r]
      /\ act[Series(p)] = Absent
      /\ \A x \in SeriesKeys \ {Series(p)} : act[x] = q.active[x] /\ pen[x] = q.pending[x]
      /\ pen[Series(p)] = l
  BY <1>1, <1>2 DEF QueueType
<1>6. /\ m.task = tsk /\ m.active = act /\ m.pending = pen
      /\ m.workers = q.workers /\ m.parent = q.parent /\ m.line = q.line /\ m.deferred = q.deferred
      /\ m.delayed = q.delayed
  BY DEF QueueType, l
<1>7. m = [q EXCEPT !.task = tsk, !.active = act, !.pending = pen, !.timer = TRUE]
  BY DEF l
<1> HIDE DEF tsk, act, pen
<1>8. m \in QueueType
  BY <1>4, <1>7 DEF QueueType
<1> QED BY <1>3, <1>5, <1>6, <1>8

\* A handler without a drain that changes what the queue says of one parent.
LEMMA ElsewhereNow ==
  ASSUME NEW p \in Requests, workers' = workers,
         \A q \in Requests \ {p} : /\ task'[q] = task[q] /\ parent'[q] = parent[q]
                                  /\ SlotsOf(line', q) = SlotsOf(line, q),
         \A x \in SeriesKeys : \A q \in Requests \ {p} :
           /\ q \in ToSet(pending'[x]) <=> q \in ToSet(pending[x])
           /\ active'[x] = q <=> active[x] = q,
         \A x \in SeriesKeys \ {Series(p)} : active'[x] # p /\ p \notin ToSet(pending'[x]),
         task'[p].stage # "none" => task[p].stage # "none" /\ parent'[p].reasons = parent[p].reasons
  PROVE  Elsewhere(Now, Now', p)
BY NowFields, NowFieldsNext DEF Elsewhere

\* A handler with a drain that changes what the queue says of one parent.
LEMMA ElsewhereQueue ==
  ASSUME NEW m, NEW p \in Requests, m.workers = workers,
         \A q \in Requests \ {p} : /\ m.task[q] = task[q] /\ m.parent[q] = parent[q]
                                  /\ SlotsOf(m.line, q) = SlotsOf(line, q),
         \A x \in SeriesKeys : \A q \in Requests \ {p} :
           /\ q \in ToSet(m.pending[x]) <=> q \in ToSet(pending[x])
           /\ m.active[x] = q <=> active[x] = q,
         \A x \in SeriesKeys \ {Series(p)} : m.active[x] # p /\ p \notin ToSet(m.pending[x]),
         m.task[p].stage # "none" => task[p].stage # "none" /\ m.parent[p].reasons = parent[p].reasons
  PROVE  Elsewhere(Now, m, p)
BY NowFields DEF Elsewhere

\* A deferred chunk of a withdrawn parent: the chunk goes, the task commits the
\* cancellation, and the series is free.
LEMMA DeferWithdrawnKeeps ==
  ASSUME IInv, NEW p \in Requests, task[p].stage = "fetching", parent[p].cancelled,
         phase = "up", faults < MaxFaults, faults' = faults + 1,
         UNCHANGED <<workers, phase, canonical, live, parent, revoking, future, revoked,
                     deferred, pending, lastCell, timer>>,
         line' = Without(line, {<<p, task[p].slot>>}),
         task' = [task EXCEPT ![p].stage = "withdrawing"],
         active' = [active EXCEPT ![Series(p)] = Absent]
  PROVE  IInv' /\ YieldStep
<1> DEFINE slot == task[p].slot
<1>0. /\ workers' = workers /\ phase' = phase /\ canonical' = canonical /\ live' = live
      /\ parent' = parent /\ revoking' = revoking /\ future' = future /\ revoked' = revoked
      /\ deferred' = deferred /\ pending' = pending /\ lastCell' = lastCell /\ timer' = timer
  OBVIOUS
<1>1. /\ line \in Seq(Requests \X Nat) /\ ToSet(line) \in SUBSET (Requests \X Nat)
      /\ task \in [Requests -> TaskType] /\ active \in [SeriesKeys -> Requests \cup {Absent}]
      /\ OwnOK(Now, live, revoking, p)
      /\ Series(p) \in SeriesKeys /\ p # Absent
  BY Facts, DemandSeries
<1>2. /\ active[Series(p)] = p /\ p \notin ToSet(pending[Series(p)]) /\ p \in live /\ p \notin revoking
      /\ slot \in SlotsOf(line, p)
  BY <1>1, NowFields DEF OwnOK
<1>3. ParentOK(parent[p], task[p], SlotsOf(line, p), p \in revoking)
  BY <1>2, Facts
<1>4. SlotsOf(line, p) \subseteq {slot} /\ parent[p].stale /\ parent[p].leases = {} /\ ~parent[p].persistent
  BY <1>3 DEF ParentOK, CancelOK, HeldBy
<1>5. line' \in Seq(Requests \X Nat) /\ ToSet(line') = ToSet(line) \ {<<p, slot>>}
  BY <1>1, WithoutKeeps
<1>6. SlotsOf(line', p) = {} /\ \A q \in Requests \ {p} : SlotsOf(line', q) = SlotsOf(line, q)
  <2>1. \A c \in ToSet(line) : c = <<c[1], c[2]>>
    BY <1>1
  <2>2. \A c \in ToSet(line) : c[1] = p => c[2] \in SlotsOf(line, p)
    BY DEF SlotsOf
  <2>3. ASSUME NEW c \in ToSet(line') PROVE c[1] # p
    <3>1. c \in ToSet(line) /\ c # <<p, slot>> /\ c = <<c[1], c[2]>>
      BY <1>5, <2>1
    <3>2. c[1] = p => c[2] = slot
      BY <1>4, <2>2, <3>1
    <3> QED BY <3>1, <3>2
  <2>4. SlotsOf(line', p) = {}
    BY <2>3 DEF SlotsOf
  <2>5. ASSUME NEW q \in Requests \ {p} PROVE SlotsOf(line', q) = SlotsOf(line, q)
    <3>1. \A c : c \in ToSet(line') /\ c[1] = q <=> c \in ToSet(line) /\ c[1] = q
      <4>1. <<p, slot>>[1] = p
        OBVIOUS
      <4> QED BY <1>5, <4>1
    <3> QED BY <3>1 DEF SlotsOf
  <2> QED BY <2>4, <2>5
<1>7. /\ task' \in [Requests -> TaskType] /\ task'[p].stage = "withdrawing"
      /\ \A q \in Requests \ {p} : task'[q] = task[q]
  BY <1>1 DEF TaskType
<1>8. /\ active' \in [SeriesKeys -> Requests \cup {Absent}] /\ active'[Series(p)] = Absent
      /\ \A x \in SeriesKeys \ {Series(p)} : active'[x] = active[x]
  BY <1>1
<1>9. Now' \in QueueType
  BY <1>5, <1>7, <1>8, Facts, NowParts, NowTyped
<1>10. QueueOK(Now', live', revoking')
  <2>1. Elsewhere(Now, Now', p)
    <3>1. \A q \in Requests \ {p} : /\ task'[q] = task[q] /\ parent'[q] = parent[q]
                                   /\ SlotsOf(line', q) = SlotsOf(line, q)
      BY <1>6, <1>7
    <3>2. \A x \in SeriesKeys \ {Series(p)} : active'[x] # p /\ p \notin ToSet(pending'[x])
      BY <1>8, Facts
    <3>3. task[p].stage # "none" /\ parent'[p].reasons = parent[p].reasons
      BY <1>0
    <3>4. \A x \in SeriesKeys : \A q \in Requests \ {p} :
            /\ q \in ToSet(pending'[x]) <=> q \in ToSet(pending[x])
            /\ active'[x] = q <=> active[x] = q
      BY <1>0, <1>2, <1>8, DemandSeries
    <3> QED BY <1>0, <3>1, <3>2, <3>3, <3>4, ElsewhereNow
  <2>2. OwnOK(Now', live', revoking', p)
    <3>1. /\ task'[p].stage = "withdrawing" /\ active'[Series(p)] # p
          /\ p \notin ToSet(pending'[Series(p)]) /\ p \in live' \ revoking' /\ SlotsOf(line', p) = {}
      BY <1>0, <1>1, <1>2, <1>6, <1>7, <1>8
    <3> QED BY <3>1, NowFieldsNext DEF OwnOK
  <2>3. QueueOK(Now, live, revoking) /\ live \in SUBSET Requests
    BY Facts
  <2>4. /\ \A q \in Requests \ {p} : (q \in live' <=> q \in live) /\ (q \in revoking' <=> q \in revoking)
        /\ live' \in SUBSET Requests
    BY <2>3
  <2> QED BY <1>9, <2>1, <2>2, <2>3, <2>4, OneParent
<1>11. RestOK'
  <2>1. deferred' \subseteq ToSet(line') /\ \A c \in deferred' : ~parent'[c[1]].cancelled
    <3>1. RestOK /\ deferred \in SUBSET (Requests \X Nat)
      BY Facts
    <3>2. deferred \subseteq ToSet(line) /\ \A c \in deferred : ~parent[c[1]].cancelled
      BY <3>1 DEF RestOK
    <3>3. \A c \in deferred : c # <<p, slot>>
      BY <3>2
    <3> QED BY <1>0, <1>5, <3>2, <3>3
  <2>2. faults' \in 0..MaxFaults
    BY SchedulerAssumption, Facts DEF RestOK
  <2> QED BY <2>1, <2>2, Facts DEF RestOK
<1>12. AlwaysWoken'
  BY <1>7 DEF AlwaysWoken, HasTask
<1>13. ParentOK(parent[p], task'[p], {}, p \in revoking)
  <2>1. CancelOK(parent[p], task'[p], {}, p \in revoking)
    BY <1>4, <1>7 DEF CancelOK
  <2>2. CountOK(parent[p], task'[p], {})
    BY <1>3, <1>7 DEF ParentOK, CountOK
  <2> QED BY <1>3, <2>1, <2>2 DEF ParentOK
<1>14. ParentsOK'
  <2>1. ASSUME NEW q \in Requests
        PROVE  IF q \in live' THEN ParentOK(parent'[q], task'[q], SlotsOf(line', q), q \in revoking')
               ELSE parent'[q] = NoParent
    <3>1. CASE q = p
      BY <1>0, <1>2, <1>6, <1>13, <3>1
    <3>2. CASE q # p
      BY <1>6, <1>7, <3>2, Facts
    <3> QED BY <3>1, <3>2
  <2> QED BY <2>1 DEF ParentsOK
<1>15. \A r \in Requests : AnswerOK(r)'
  BY DEF IInv, AnswerOK
<1>16. YieldStep
  BY <1>7, YieldsStill
<1> QED BY <1>10, <1>11, <1>12, <1>14, <1>15, <1>16, InvByParts

\* The drain that ends a handler, from the queue m.
Lands(m) ==
  LET e == IF phase = "up" THEN Drained(m) ELSE m IN
    /\ active' = e.active /\ pending' = e.pending /\ task' = e.task
    /\ lastCell' = e.last /\ timer' = e.timer

\* m has the parent of an ended task back in the pending list.
Returned(p, m) ==
  /\ m \in QueueType /\ m.workers = workers /\ m.parent = parent' /\ m.line = line'
  /\ m.deferred = deferred' /\ m.delayed = FALSE /\ m.task[p] = Idle
  /\ \A q \in Requests \ {p} : m.task[q] = task[q]
  /\ m.active[Series(p)] = Absent
  /\ \A x \in SeriesKeys \ {Series(p)} : m.active[x] = active[x] /\ m.pending[x] = pending[x]
  /\ ToSet(m.pending[Series(p)]) = ToSet(pending[Series(p)]) \cup {p}

\* A task ends and its parent waits again, with the chunks that are left.
Requeues(p, m) ==
  /\ task[p].stage = "fetching"
  /\ workers' = workers /\ phase' = phase /\ canonical' = canonical /\ live' = live
  /\ revoking' = revoking /\ future' = future /\ revoked' = revoked
  /\ parent' \in [Requests -> Parent] /\ \A q \in Requests \ {p} : parent'[q] = parent[q]
  /\ ~parent'[p].cancelled /\ parent'[p].first = parent[p].first
  /\ parent'[p].last = parent[p].last /\ parent'[p].trusted = parent[p].trusted
  /\ SlotsOf(line', p) # {}
  /\ \A q \in Requests \ {p} : SlotsOf(line', q) = SlotsOf(line, q)
  /\ ParentOK(parent'[p], Idle, SlotsOf(line', p), p \in revoking)
  /\ deferred' \subseteq ToSet(line') /\ \A c \in deferred' : ~parent'[c[1]].cancelled
  /\ faults' \in 0..MaxFaults
  /\ Returned(p, m)

\* A handler that puts a parent back into the pending list.
LEMMA RequeueKeeps ==
  ASSUME IInv, NEW p \in Requests, NEW m, Requeues(p, m), Lands(m)
  PROVE  IInv' /\ YieldStep
<1>0. /\ task[p].stage = "fetching"
      /\ workers' = workers /\ phase' = phase /\ canonical' = canonical /\ live' = live
      /\ revoking' = revoking /\ future' = future /\ revoked' = revoked
      /\ parent' \in [Requests -> Parent] /\ \A q \in Requests \ {p} : parent'[q] = parent[q]
      /\ ~parent'[p].cancelled /\ parent'[p].first = parent[p].first
      /\ parent'[p].last = parent[p].last /\ parent'[p].trusted = parent[p].trusted
      /\ SlotsOf(line', p) # {}
      /\ \A q \in Requests \ {p} : SlotsOf(line', q) = SlotsOf(line, q)
      /\ ParentOK(parent'[p], Idle, SlotsOf(line', p), p \in revoking)
      /\ deferred' \subseteq ToSet(line') /\ \A c \in deferred' : ~parent'[c[1]].cancelled
      /\ faults' \in 0..MaxFaults
  BY DEF Requeues
<1>01. /\ m \in QueueType /\ m.workers = workers /\ m.parent = parent' /\ m.line = line'
       /\ m.deferred = deferred' /\ m.delayed = FALSE /\ m.task[p] = Idle
       /\ \A q \in Requests \ {p} : m.task[q] = task[q]
       /\ m.active[Series(p)] = Absent
       /\ \A x \in SeriesKeys \ {Series(p)} : m.active[x] = active[x] /\ m.pending[x] = pending[x]
       /\ ToSet(m.pending[Series(p)]) = ToSet(pending[Series(p)]) \cup {p}
  BY DEF Requeues, Returned
<1>1. /\ OwnOK(Now, live, revoking, p) /\ QueueOK(Now, live, revoking) /\ live \in SUBSET Requests
      /\ Series(p) \in SeriesKeys /\ p # Absent
  BY Facts, DemandSeries
<1>2. active[Series(p)] = p /\ p \in live /\ p \notin revoking
  BY <1>0, <1>1, NowFields DEF OwnOK
<1>3. m.task[p].stage = "none"
  BY <1>01 DEF Idle
<1>4. QueueOK(m, live', revoking')
  <2>1. Elsewhere(Now, m, p)
    <3>1. \A x \in SeriesKeys : \A q \in Requests \ {p} :
            /\ q \in ToSet(m.pending[x]) <=> q \in ToSet(pending[x])
            /\ m.active[x] = q <=> active[x] = q
      BY <1>01, <1>2, DemandSeries
    <3>2. \A x \in SeriesKeys \ {Series(p)} : m.active[x] # p /\ p \notin ToSet(m.pending[x])
      BY <1>01, Facts
    <3>3. \A q \in Requests \ {p} : /\ m.task[q] = task[q] /\ m.parent[q] = parent[q]
                                   /\ SlotsOf(m.line, q) = SlotsOf(line, q)
      BY <1>0, <1>01
    <3> QED BY <1>01, <1>3, <3>1, <3>2, <3>3, ElsewhereQueue
  <2>2. OwnOK(m, live', revoking', p)
    BY <1>0, <1>01, <1>1, <1>2, <1>3 DEF OwnOK, ParentOK
  <2>3. \A q \in Requests \ {p} : (q \in live' <=> q \in live) /\ (q \in revoking' <=> q \in revoking)
    BY <1>0
  <2>4. live' \in SUBSET Requests
    BY <1>0, <1>1
  <2> QED BY <1>01, <1>1, <2>1, <2>2, <2>3, <2>4, OneParent
<1>5. Yields(m, task)
  <2>1. ASSUME NEW q \in Requests PROVE m.task[q] = task[q] \/ m.task[q].stage # "fetching"
    BY <1>01, <1>3
  <2> QED BY <2>1, NothingStarts
<1>6. ASSUME NEW q \in Requests
      PROVE  IF q \in live' THEN ParentOK(parent'[q], m.task[q], SlotsOf(line', q), q \in revoking')
             ELSE parent'[q] = NoParent
  <2>1. CASE q = p
    BY <1>0, <1>01, <1>2, <2>1
  <2>2. CASE q # p
    BY <1>0, <1>01, <2>2, Facts
  <2> QED BY <2>1, <2>2
<1>7. QueueOK(Now', live', revoking') /\ ParentsOK' /\ AlwaysWoken' /\ YieldStep
  <2>1. /\ live' \in SUBSET Requests /\ m.workers = workers' /\ m.delayed = FALSE
        /\ m.parent = parent' /\ m.line = line' /\ m.deferred = deferred' /\ phase' = phase
    BY <1>0, <1>01, <1>1
  <2> QED BY <1>4, <1>5, <1>6, <2>1, DrainLands DEF Lands
<1>8. RestOK'
  BY <1>0, Facts DEF RestOK
<1>9. ASSUME NEW r \in Requests PROVE AnswerOK(r)'
  <2>1. AnswerOK(r) /\ canonical[r] \in Requests \cup {Absent}
    BY Facts DEF RestOK, IInv
  <2>2. canonical[r] # Absent => /\ Whole(parent'[canonical[r]]) = Whole(parent[canonical[r]])
                                 /\ parent'[canonical[r]].trusted = parent[canonical[r]].trusted
    BY <1>0, <2>1 DEF Whole
  <2> QED BY <1>0, <2>1, <2>2 DEF AnswerOK
<1> QED BY <1>7, <1>8, <1>9, InvByParts

\* _defer_chunk, for a parent that is wanted and for one that is not.
LEMMA DeferChunkKeeps ==
  ASSUME IInv, NEW p \in Requests, DeferChunk(p) PROVE IInv' /\ YieldStep
<1>1. /\ phase = "up" /\ task[p].stage = "fetching" /\ faults < MaxFaults
      /\ UNCHANGED <<workers, phase, canonical, live, parent, revoking, future, revoked>>
  BY DEF DeferChunk
<1>2. CASE parent[p].cancelled
  <2>1. /\ line' = Without(line, {<<p, task[p].slot>>})
        /\ task' = [task EXCEPT ![p].stage = "withdrawing"]
        /\ active' = [active EXCEPT ![Series(p)] = Absent]
        /\ faults' = faults + 1
        /\ UNCHANGED <<deferred, pending, lastCell, timer>>
    BY <1>2 DEF DeferChunk
  <2> QED BY <1>1, <1>2, <2>1, DeferWithdrawnKeeps
<1>3. CASE ~parent[p].cancelled
  <2>1. PICK tokens \in {0, AmpleTokens} :
          /\ faults' = faults + 1 + (IF tokens = 0 THEN 1 ELSE 0) /\ faults' <= MaxFaults
          /\ Lands([Queue(tokens) EXCEPT !.task[p] = Idle, !.active[Series(p)] = Absent,
                                         !.pending[Series(p)] = Append(@, p), !.timer = TRUE])
    BY <1>3 DEF DeferChunk, DrainAfter, Lands
  <2>2. deferred' = deferred \cup {<<p, task[p].slot>>} /\ line' = line
    BY <1>3 DEF DeferChunk
  <2> DEFINE q0 == Queue(tokens)
             m == [q0 EXCEPT !.task[p] = Idle, !.active[Series(p)] = Absent,
                             !.pending[Series(p)] = Append(@, p), !.timer = TRUE]
  <2>3. /\ line \in Seq(Requests \X Nat) /\ ToSet(line) \in SUBSET (Requests \X Nat)
        /\ deferred \in SUBSET (Requests \X Nat) /\ parent \in [Requests -> Parent]
        /\ OwnOK(Now, live, revoking, p) /\ Now \in QueueType
    BY Facts
  <2>4. p \in live /\ task[p].slot \in SlotsOf(line, p)
    BY <1>1, <2>3, NowFields DEF OwnOK
  <2>5. <<p, task[p].slot>> \in ToSet(line)
    BY <2>3, <2>4, SlotsAre
  <2>6. /\ q0 \in QueueType
        /\ q0.active = active /\ q0.pending = pending /\ q0.task = task /\ q0.last = lastCell
        /\ q0.timer = timer /\ q0.workers = workers /\ q0.parent = parent' /\ q0.line = line'
        /\ q0.deferred = deferred' /\ q0.tokens = tokens /\ q0.delayed = FALSE
    <3>1. tokens \in Nat /\ deferred' \in SUBSET (Requests \X Nat)
      BY <2>2, <2>3, <2>5, Ample
    <3> QED BY <1>1, <2>2, <2>3, <3>1, QueueFields
  <2> HIDE DEF q0
  <2>7. /\ m \in QueueType
        /\ m.workers = q0.workers /\ m.parent = q0.parent
        /\ m.line = q0.line /\ m.deferred = q0.deferred /\ m.delayed = q0.delayed
        /\ m.task[p] = Idle /\ \A r \in Requests \ {p} : m.task[r] = q0.task[r]
        /\ m.active[Series(p)] = Absent
        /\ \A x \in SeriesKeys \ {Series(p)} : m.active[x] = q0.active[x] /\ m.pending[x] = q0.pending[x]
        /\ ToSet(m.pending[Series(p)]) = ToSet(q0.pending[Series(p)]) \cup {p}
    BY <2>6, TaskDeferred, Zenon
  <2>8. Lands(m)
    BY <2>1 DEF q0
  <2> HIDE DEF m
  <2>9. Returned(p, m)
    BY <1>1, <2>2, <2>6, <2>7 DEF Returned
  <2>10. ParentOK(parent'[p], Idle, SlotsOf(line', p), p \in revoking)
    <3>1. ParentOK(parent[p], task[p], SlotsOf(line, p), p \in revoking)
      BY <2>4, Facts
    <3>2. parent' = parent /\ line' = line /\ task[p].stage = "fetching" /\ Idle.stage = "none"
      BY <1>1, <2>2 DEF Idle
    <3>3. CancelOK(parent[p], Idle, SlotsOf(line, p), p \in revoking)
      BY <1>3, <3>1, <3>2 DEF ParentOK, CancelOK
    <3>4. CountOK(parent[p], Idle, SlotsOf(line, p))
      BY <3>1, <3>2 DEF ParentOK, CountOK
    <3> QED BY <3>1, <3>2, <3>3, <3>4 DEF ParentOK
  <2>11. /\ deferred' \subseteq ToSet(line') /\ \A c \in deferred' : ~parent'[c[1]].cancelled
         /\ faults' \in 0..MaxFaults
    <3>1. /\ deferred \subseteq ToSet(line) /\ \A c \in deferred : ~parent[c[1]].cancelled
          /\ faults \in Nat
      BY Facts DEF RestOK
    <3>2. <<p, task[p].slot>>[1] = p
      OBVIOUS
    <3> QED BY <1>1, <1>3, <2>1, <2>2, <2>5, <3>1, <3>2, SchedulerAssumption
  <2>12. Requeues(p, m)
    BY <1>1, <1>3, <2>2, <2>3, <2>4, <2>9, <2>10, <2>11 DEF Requeues
  <2> QED BY <2>8, <2>12, RequeueKeeps
<1> QED BY <1>2, <1>3

-----------------------------------------------------------------------------
(* The end of a chunk                                                      *)

\* The chunks that a parent still counts.
LEMMA SlotsLeft ==
  ASSUME NEW slots, IsFiniteSet(slots), NEW slot \in slots, NEW covered \in SUBSET (slots \ {slot})
  PROVE  LET rest == slots \ ({slot} \cup covered) IN
           /\ Cardinality(covered) \in Nat /\ Cardinality(rest) \in Nat /\ Cardinality(slots) \in Nat
           /\ Cardinality(slots) = Cardinality(rest) + Cardinality(covered) + 1
           /\ Cardinality(rest) = 0 <=> rest = {}
<1> DEFINE others == slots \ {slot}
           rest == slots \ ({slot} \cup covered)
<1>1. IsFiniteSet(others) /\ Cardinality(others) = Cardinality(slots) - 1
  BY FS_RemoveElement
<1>2. IsFiniteSet(covered) /\ IsFiniteSet(rest)
  BY <1>1, FS_Subset
<1>3. Cardinality(others \ covered) = Cardinality(others) - Cardinality(others \cap covered)
  BY <1>1, FS_Difference
<1>4. others \ covered = rest /\ others \cap covered = covered
  OBVIOUS
<1>5. /\ Cardinality(covered) \in Nat /\ Cardinality(rest) \in Nat /\ Cardinality(slots) \in Nat
  BY <1>2, FS_CardinalityType
<1>6. Cardinality(rest) = 0 <=> rest = {}
  BY <1>2, FS_EmptySet
<1>7. Cardinality(slots) = Cardinality(rest) + Cardinality(covered) + 1
  <2>1. Cardinality(rest) = Cardinality(others) - Cardinality(covered)
    BY <1>3, <1>4
  <2> HIDE DEF rest, others
  <2> QED BY <1>1, <1>5, <2>1
<1> HIDE DEF rest
<1>8. /\ Cardinality(covered) \in Nat /\ Cardinality(rest) \in Nat /\ Cardinality(slots) \in Nat
      /\ Cardinality(slots) = Cardinality(rest) + Cardinality(covered) + 1
      /\ Cardinality(rest) = 0 <=> rest = {}
  BY <1>5, <1>6, <1>7
<1> QED BY <1>8 DEF rest

\* What the end of a chunk makes of its parent, field by field.
AfterIs(p, result, covered, n) ==
  LET st == parent[p]
      s == AfterChunk(p, result, covered)
      atEdge == result = "left_edge" /\ NewestFirst(st.reasons)
      written == IF result = "failed" THEN {} ELSE {task[p].slot} \cup covered
  IN  /\ s \in Parent
      /\ s.first = st.first /\ s.last = st.last /\ s.reasons = st.reasons
      /\ s.priority = st.priority /\ s.trusted = st.trusted /\ s.cell = st.cell
      /\ s.leases = st.leases /\ s.persistent = st.persistent /\ s.cancelled = st.cancelled
      /\ (s.stale <=> st.stale \/ result = "failed" \/ atEdge)
      /\ (s.failed <=> result = "failed")
      /\ s.total = n /\ s.fetched = st.fetched \cup written
      /\ s.weak = IF task[p].trusted THEN st.weak \ written ELSE st.weak \cup written
      /\ s.completed = IF atEdge \/ st.cancelled THEN n ELSE st.completed + 1

\* AfterChunk, field by field.
LEMMA AfterChunkIs ==
  ASSUME NEW p \in Requests, NEW result \in Results, NEW covered \in SUBSET Nat, parent[p] \in Parent,
         task[p].slot \in Nat, SlotsOf(line, p) \in SUBSET Nat,
         NEW n \in Nat, n = parent[p].total - Cardinality(covered)
  PROVE  AfterIs(p, result, covered, n)
<1> DEFINE st == parent[p]
           slot == task[p].slot
           atEdge == result = "left_edge" /\ NewestFirst(st.reasons)
           written == IF result = "failed" THEN {} ELSE {slot} \cup covered
           rest == SlotsOf(line, p) \ ({slot} \cup covered)
           c == Counted(st, covered)
           b == [c EXCEPT !.failed = result = "failed",
                          !.clean = @ /\ result = "verified",
                          !.edge = @ \/ result = "left_edge",
                          !.stale = @ \/ result = "failed" \/ atEdge,
                          !.fetched = @ \cup written,
                          !.weak = IF task[p].trusted THEN @ \ written ELSE @ \cup written,
                          !.dropped = IF atEdge THEN rest ELSE @,
                          !.edgeSlot = IF atEdge THEN slot ELSE @]
           s == AfterChunk(p, result, covered)
<1>1. s = IF atEdge \/ b.cancelled THEN [b EXCEPT !.completed = b.total] ELSE b
  BY DEF AfterChunk, Closed
<1> HIDE DEF s
<1>2. c = [st EXCEPT !.total = n, !.completed = st.completed + 1]
  BY DEF Counted, Parent
<1>20. st \in Parent
  OBVIOUS
<1> HIDE DEF c, st
<1>31. c \in Parent
  <2>1. st.completed + 1 \in Nat
    BY <1>20 DEF Parent
  <2> QED BY <1>2, <1>20, <2>1 DEF Parent
<1>3. /\ c.total = n /\ c.completed = st.completed + 1
      /\ c.first = st.first /\ c.last = st.last /\ c.reasons = st.reasons
      /\ c.priority = st.priority /\ c.trusted = st.trusted /\ c.cell = st.cell
      /\ c.leases = st.leases /\ c.persistent = st.persistent /\ c.cancelled = st.cancelled
      /\ c.stale = st.stale /\ c.fetched = st.fetched /\ c.weak = st.weak
  BY <1>2, <1>20 DEF Parent
<1>4. written \in SUBSET Nat /\ rest \in SUBSET Nat
  OBVIOUS
<1>41. b = [c EXCEPT !.failed = result = "failed",
                     !.clean = @ /\ result = "verified",
                     !.edge = @ \/ result = "left_edge",
                     !.stale = @ \/ result = "failed" \/ atEdge,
                     !.fetched = @ \cup written,
                     !.weak = IF task[p].trusted THEN @ \ written ELSE @ \cup written,
                     !.dropped = IF atEdge THEN rest ELSE @,
                     !.edgeSlot = IF atEdge THEN slot ELSE @]
  OBVIOUS
<1> HIDE DEF written, rest, b, atEdge
<1>42. slot \in Nat
  OBVIOUS
<1> HIDE DEF slot
<1>51. b \in Parent
  <2>1. /\ c.fetched \cup written \in SUBSET Nat
        /\ (IF task[p].trusted THEN c.weak \ written ELSE c.weak \cup written) \in SUBSET Nat
        /\ (IF atEdge THEN rest ELSE c.dropped) \in SUBSET Nat
        /\ (IF atEdge THEN slot ELSE c.edgeSlot) \in Nat
    BY <1>31, <1>4, <1>42 DEF Parent
  <2>2. /\ (result = "failed") \in BOOLEAN
        /\ (c.clean /\ result = "verified") \in BOOLEAN
        /\ (c.edge \/ result = "left_edge") \in BOOLEAN
        /\ (c.stale \/ result = "failed" \/ atEdge) \in BOOLEAN
    BY <1>31 DEF Parent
  <2> DEFINE b1 == result = "failed"
             b2 == c.clean /\ result = "verified"
             b3 == c.edge \/ result = "left_edge"
             b4 == c.stale \/ result = "failed" \/ atEdge
             f == c.fetched \cup written
             w == IF task[p].trusted THEN c.weak \ written ELSE c.weak \cup written
             d == IF atEdge THEN rest ELSE c.dropped
             e == IF atEdge THEN slot ELSE c.edgeSlot
  <2>3. b = [c EXCEPT !.failed = b1, !.clean = b2, !.edge = b3, !.stale = b4, !.fetched = f,
                      !.weak = w, !.dropped = d, !.edgeSlot = e]
    BY <1>41
  <2>4. /\ b1 \in BOOLEAN /\ b2 \in BOOLEAN /\ b3 \in BOOLEAN /\ b4 \in BOOLEAN
        /\ f \in SUBSET Nat /\ w \in SUBSET Nat /\ d \in SUBSET Nat /\ e \in Nat
    BY <2>1, <2>2
  <2> HIDE DEF b1, b2, b3, b4, f, w, d, e
  <2>5. [c EXCEPT !.failed = b1, !.clean = b2, !.edge = b3, !.stale = b4, !.fetched = f,
                  !.weak = w, !.dropped = d, !.edgeSlot = e] \in Parent
    BY ONLY <1>31, <2>4 DEF Parent
  <2> QED BY <2>3, <2>5
<1>5. /\ b.total = n /\ b.completed = st.completed + 1
      /\ b.first = st.first /\ b.last = st.last /\ b.reasons = st.reasons
      /\ b.priority = st.priority /\ b.trusted = st.trusted /\ b.cell = st.cell
      /\ b.leases = st.leases /\ b.persistent = st.persistent /\ b.cancelled = st.cancelled
      /\ (b.stale <=> st.stale \/ result = "failed" \/ atEdge)
      /\ (b.failed <=> result = "failed")
      /\ b.fetched = st.fetched \cup written
      /\ b.weak = IF task[p].trusted THEN st.weak \ written ELSE st.weak \cup written
  BY <1>3, <1>31, <1>41 DEF Parent
<1>61. s \in Parent
  <2>1. b.total \in Nat
    BY <1>51 DEF Parent
  <2> QED BY <1>1, <1>51, <2>1 DEF Parent
<1>6. /\ s.total = n
      /\ s.first = st.first /\ s.last = st.last /\ s.reasons = st.reasons
      /\ s.priority = st.priority /\ s.trusted = st.trusted /\ s.cell = st.cell
      /\ s.leases = st.leases /\ s.persistent = st.persistent /\ s.cancelled = st.cancelled
      /\ s.stale = b.stale /\ s.failed = b.failed /\ s.fetched = b.fetched /\ s.weak = b.weak
      /\ s.completed = IF atEdge \/ st.cancelled THEN n ELSE st.completed + 1
  BY <1>1, <1>5, <1>51 DEF Parent
<1> QED BY <1>5, <1>6, <1>61 DEF atEdge, written, st, slot, s, AfterIs

\* The parent of a chunk that ends keeps count.
ChunkEnds(p, s, rest) ==
  /\ p \in live /\ p \notin revoking /\ s \in Parent
  /\ s.first = parent[p].first /\ s.last = parent[p].last /\ s.reasons = parent[p].reasons
  /\ s.priority = parent[p].priority /\ s.trusted = parent[p].trusted /\ s.cell = parent[p].cell
  /\ s.leases = parent[p].leases /\ s.persistent = parent[p].persistent
  /\ s.cancelled = parent[p].cancelled /\ (parent[p].stale => s.stale)
  /\ s.completed <= s.total /\ s.weak \subseteq s.fetched /\ (s.trusted => s.weak = {})
  /\ rest \in SUBSET Nat
  /\ ~IsFinal(s) => /\ ~s.cancelled /\ rest # {} /\ s.completed # 0
                    /\ Whole(s) \subseteq s.fetched \cup rest
                    /\ s.completed + Cardinality(rest) = s.total
  /\ IsFinal(s) /\ Verdict(s) = "filled" => Whole(s) \subseteq s.fetched

\* _finish_chunk leaves the parent in order, whatever the result and the archive.
LEMMA ChunkFacts ==
  ASSUME IInv, NEW p \in Requests, task[p].stage = "fetching", NEW result \in Results,
         NEW covered \in Covering(p, result)
  PROVE  /\ task[p].slot \in SlotsOf(line, p) /\ covered \in SUBSET (SlotsOf(line, p) \ {task[p].slot})
         /\ ChunkEnds(p, AfterChunk(p, result, covered), SlotsOf(line, p) \ ({task[p].slot} \cup covered))
<1> DEFINE st == parent[p]
           slot == task[p].slot
           slots == SlotsOf(line, p)
           rest == slots \ ({slot} \cup covered)
           s == AfterChunk(p, result, covered)
           n == st.total - Cardinality(covered)
           atEdge == result = "left_edge" /\ NewestFirst(st.reasons)
           written == IF result = "failed" THEN {} ELSE {slot} \cup covered
<1>1. /\ OwnOK(Now, live, revoking, p) /\ st \in Parent /\ ToSet(line) \in SUBSET (Requests \X Nat)
  BY Facts
<1>2. /\ p \in live /\ p \notin revoking /\ slot \in slots /\ task[p].trusted = st.trusted
  BY <1>1, NowFields DEF OwnOK
<1>3. slots \in SUBSET Nat
  BY <1>1, SlotsAre
<1>4. ParentOK(st, task[p], slots, p \in revoking)
  BY <1>2, Facts
<1>5. CancelOK(st, task[p], slots, p \in revoking) /\ CountOK(st, task[p], slots)
  BY <1>4 DEF ParentOK
<1>6. covered \in SUBSET (slots \ {slot}) /\ covered \in SUBSET Nat /\ (result = "failed" => covered = {})
  BY <1>3 DEF Covering
<1>7. IsFiniteSet(slots)
  <2>1. slots \subseteq st.first..st.last /\ st.first \in Int /\ st.last \in Int
    BY <1>1, <1>5 DEF CountOK, Whole, Parent
  <2> QED BY <2>1, FS_Interval, FS_Subset
<1> HIDE DEF slots
<1>8. /\ Cardinality(covered) \in Nat /\ Cardinality(rest) \in Nat /\ Cardinality(slots) \in Nat
      /\ Cardinality(slots) = Cardinality(rest) + Cardinality(covered) + 1
      /\ Cardinality(rest) = 0 <=> rest = {}
  <2>1. covered \in SUBSET (slots \ {slot}) /\ slot \in slots /\ IsFiniteSet(slots)
    BY <1>2, <1>6, <1>7
  <2> HIDE DEF slot
  <2> QED BY ONLY <2>1, SlotsLeft
<1>9. st.total \in Nat /\ st.completed \in Nat
  BY <1>1 DEF Parent
<1>10. st.cancelled => covered = {}
  BY <1>2, <1>5, <1>6 DEF CancelOK, HeldBy
<1>11. ~st.cancelled => /\ Whole(st) \subseteq st.fetched \cup slots
                        /\ st.completed + Cardinality(slots) = st.total
  BY <1>5 DEF CountOK
<1>12. n \in Nat /\ (~st.cancelled => n = st.completed + 1 + Cardinality(rest))
  <2>1. Cardinality({}) = 0
    BY FS_EmptySet
  <2>2. CASE st.cancelled
    BY <1>9, <1>10, <2>1, <2>2
  <2>3. CASE ~st.cancelled
    <3> HIDE DEF rest
    <3> QED BY <1>8, <1>9, <1>11, <2>3
  <2> QED BY <2>2, <2>3
<1>13. /\ s \in Parent
       /\ s.first = st.first /\ s.last = st.last /\ s.reasons = st.reasons
       /\ s.priority = st.priority /\ s.trusted = st.trusted /\ s.cell = st.cell
       /\ s.leases = st.leases /\ s.persistent = st.persistent /\ s.cancelled = st.cancelled
       /\ (s.stale <=> st.stale \/ result = "failed" \/ atEdge)
       /\ (s.failed <=> result = "failed")
       /\ s.total = n /\ s.fetched = st.fetched \cup written
       /\ s.weak = IF task[p].trusted THEN st.weak \ written ELSE st.weak \cup written
       /\ s.completed = IF atEdge \/ st.cancelled THEN n ELSE st.completed + 1
  <2>1. slot \in Nat /\ SlotsOf(line, p) \in SUBSET Nat
    BY <1>2, <1>3 DEF slots
  <2>2. n = parent[p].total - Cardinality(covered) /\ parent[p] \in Parent /\ task[p].slot \in Nat
    BY <1>1, <2>1
  <2>3. p \in Requests /\ result \in Results /\ covered \in SUBSET Nat /\ n \in Nat
    BY <1>6, <1>12
  <2> HIDE DEF n
  <2>4. AfterIs(p, result, covered, n)
    BY ONLY <2>1, <2>2, <2>3, AfterChunkIs
  <2> QED BY ONLY <2>4 DEF AfterIs
<1> HIDE DEF s
<1>14. written \subseteq {slot} \cup covered /\ (result # "failed" => written = {slot} \cup covered)
  OBVIOUS
<1>15. /\ st.weak \subseteq st.fetched /\ (st.trusted => st.weak = {})
  BY <1>5 DEF CountOK
<1> HIDE DEF atEdge, written, n
<1>16. s.completed <= s.total /\ s.weak \subseteq s.fetched /\ (s.trusted => s.weak = {})
  <2>1. s.weak \subseteq s.fetched /\ (s.trusted => s.weak = {})
    BY <1>2, <1>13, <1>15
  <2>2. s.completed <= s.total
    <3> HIDE DEF rest
    <3> QED BY <1>8, <1>9, <1>12, <1>13
  <2> QED BY <2>1, <2>2
<1>17. ASSUME ~IsFinal(s)
       PROVE  /\ ~s.cancelled /\ rest # {} /\ s.completed # 0
              /\ Whole(s) \subseteq s.fetched \cup rest
              /\ s.completed + Cardinality(rest) = s.total
  <2>1. ~s.failed /\ ~(s.completed >= s.total)
    BY <1>17 DEF IsFinal
  <2>2. ~atEdge /\ ~st.cancelled /\ s.completed = st.completed + 1 /\ result # "failed"
    BY <1>12, <1>13, <2>1
  <2>3. s.completed # 0 /\ s.completed + Cardinality(rest) = s.total /\ Cardinality(rest) # 0
    <3> HIDE DEF rest
    <3> QED BY <1>8, <1>9, <1>12, <1>13, <2>1, <2>2
  <2>4. Whole(s) \subseteq s.fetched \cup rest
    BY <1>11, <1>13, <1>14, <2>2 DEF Whole
  <2> QED BY <1>8, <1>13, <2>2, <2>3, <2>4
<1>18. ASSUME IsFinal(s), Verdict(s) = "filled" PROVE Whole(s) \subseteq s.fetched
  <2>1. ~s.cancelled /\ ~s.failed /\ ~s.stale
    BY <1>18 DEF Verdict
  <2>2. ~st.cancelled /\ result # "failed" /\ ~atEdge /\ s.completed = st.completed + 1
    BY <1>13, <2>1
  <2>3. rest = {}
    <3>1. s.completed >= s.total
      BY <1>18, <2>1 DEF IsFinal
    <3>2. Cardinality(rest) = 0
      <4> HIDE DEF rest
      <4> QED BY <1>8, <1>9, <1>12, <1>13, <2>2, <3>1
    <3> QED BY <1>8, <3>2
  <2> QED BY <1>11, <1>13, <1>14, <2>2, <2>3 DEF Whole
<1>19. rest \in SUBSET Nat
  BY <1>3
<1>20. ChunkEnds(p, s, rest)
  <2> HIDE DEF rest
  <2> QED BY <1>2, <1>13, <1>16, <1>17, <1>18, <1>19 DEF ChunkEnds
<1> QED BY <1>2, <1>6, <1>20 DEF s, slots

\* A line without some chunks of one parent.
Thinned(m, l, p, gone) ==
  /\ m \in Seq(Requests \X Nat) /\ ToSet(m) = ToSet(l) \ ({p} \X gone)
  /\ SlotsOf(m, p) = SlotsOf(l, p) \ gone
  /\ \A q \in Requests \ {p} : SlotsOf(m, q) = SlotsOf(l, q)

\* Without takes a parent's chunks and nobody else's.
LEMMA LineThinned ==
  ASSUME NEW l \in Seq(Requests \X Nat), NEW p \in Requests, NEW gone \in SUBSET Nat
  PROVE  Thinned(Without(l, {p} \X gone), l, p, gone)
<1> DEFINE m == Without(l, {p} \X gone)
<1>1. m \in Seq(Requests \X Nat) /\ ToSet(m) = ToSet(l) \ ({p} \X gone)
  BY WithoutKeeps
<1>2. ToSet(l) \in SUBSET (Requests \X Nat)
  BY LineTyped
<1> HIDE DEF m
<1>3. ToSet(m) \in SUBSET (Requests \X Nat)
  BY <1>1, <1>2
<1>4. ASSUME NEW q, NEW i PROVE i \in SlotsOf(m, q) <=> i \in SlotsOf(l, q) /\ ~(q = p /\ i \in gone)
  <2>1. i \in SlotsOf(m, q) <=> <<q, i>> \in ToSet(m)
    BY <1>3, SlotsAre
  <2>2. i \in SlotsOf(l, q) <=> <<q, i>> \in ToSet(l)
    BY <1>2, SlotsAre
  <2>3. <<q, i>> \in {p} \X gone <=> q = p /\ i \in gone
    OBVIOUS
  <2> QED BY <1>1, <2>1, <2>2, <2>3
<1>5. SlotsOf(m, p) = SlotsOf(l, p) \ gone
  BY <1>4
<1>6. ASSUME NEW q \in Requests \ {p} PROVE SlotsOf(m, q) = SlotsOf(l, q)
  <2>1. \A i : i \in SlotsOf(m, q) <=> i \in SlotsOf(l, q)
    BY <1>4
  <2> QED BY <2>1
<1> QED BY <1>1, <1>5, <1>6 DEF m, Thinned

\* A chunk that is not the last one of its parent.
ChunkReturns(p, state, ended, tokens, met) ==
  /\ ~IsFinal(state)
  /\ parent' = [parent EXCEPT ![p] = state]
  /\ line' = Without(line, {p} \X ended) /\ deferred' = deferred \ ({p} \X ended)
  /\ faults' = met + (IF tokens = 0 THEN 1 ELSE 0) /\ faults' <= MaxFaults
  /\ Lands([Queue(tokens) EXCEPT !.task[p] = Idle, !.active[Series(p)] = Absent,
                                 !.pending[Series(p)] = Append(@, p)])
  /\ UNCHANGED <<workers, phase, canonical, live, revoking, future, revoked>>

\* _finish_chunk while chunks are left.
LEMMA ChunkReturnsKeeps ==
  ASSUME IInv, NEW p \in Requests, task[p].stage = "fetching", NEW state, NEW ended \in SUBSET Nat,
         ended # {}, ChunkEnds(p, state, SlotsOf(line, p) \ ended), NEW tokens \in {0, AmpleTokens},
         NEW met \in Nat, ChunkReturns(p, state, ended, tokens, met)
  PROVE  IInv' /\ YieldStep
<1> DEFINE rest == SlotsOf(line, p) \ ended
           q0 == Queue(tokens)
           m == [q0 EXCEPT !.task[p] = Idle, !.active[Series(p)] = Absent,
                           !.pending[Series(p)] = Append(@, p)]
<1>1. /\ line \in Seq(Requests \X Nat) /\ ToSet(line) \in SUBSET (Requests \X Nat)
      /\ deferred \in SUBSET (Requests \X Nat) /\ parent \in [Requests -> Parent]
      /\ Now \in QueueType
  BY Facts
<1>2. /\ parent' = [parent EXCEPT ![p] = state] /\ deferred' = deferred \ ({p} \X ended)
      /\ workers' = workers /\ phase' = phase /\ canonical' = canonical /\ live' = live
      /\ revoking' = revoking /\ future' = future /\ revoked' = revoked
      /\ faults' = met + (IF tokens = 0 THEN 1 ELSE 0) /\ faults' <= MaxFaults
  BY DEF ChunkReturns
<1>3. /\ p \in live /\ p \notin revoking /\ state \in Parent
      /\ state.first = parent[p].first /\ state.last = parent[p].last /\ state.reasons = parent[p].reasons
      /\ state.priority = parent[p].priority /\ state.trusted = parent[p].trusted
      /\ state.cell = parent[p].cell
      /\ state.completed <= state.total /\ state.weak \subseteq state.fetched
      /\ (state.trusted => state.weak = {})
      /\ ~state.cancelled /\ rest # {} /\ state.completed # 0
      /\ Whole(state) \subseteq state.fetched \cup rest
      /\ state.completed + Cardinality(rest) = state.total
  BY DEF ChunkEnds, ChunkReturns
<1>4. /\ line' \in Seq(Requests \X Nat) /\ ToSet(line') = ToSet(line) \ ({p} \X ended)
      /\ SlotsOf(line', p) = rest
      /\ \A q \in Requests \ {p} : SlotsOf(line', q) = SlotsOf(line, q)
  <2>1. Thinned(Without(line, {p} \X ended), line, p, ended)
    BY <1>1, LineThinned
  <2>2. line' = Without(line, {p} \X ended)
    BY DEF ChunkReturns
  <2>3. Thinned(line', line, p, ended)
    BY <2>1, <2>2
  <2> QED BY <2>3 DEF Thinned
<1>5. /\ parent' \in [Requests -> Parent] /\ parent'[p] = state
      /\ \A q \in Requests \ {p} : parent'[q] = parent[q]
  BY <1>1, <1>2, <1>3
<1>6. /\ q0 \in QueueType
      /\ q0.active = active /\ q0.pending = pending /\ q0.task = task /\ q0.last = lastCell
      /\ q0.timer = timer /\ q0.workers = workers /\ q0.parent = parent' /\ q0.line = line'
      /\ q0.deferred = deferred' /\ q0.tokens = tokens /\ q0.delayed = FALSE
  <2>1. tokens \in Nat /\ deferred' \in SUBSET (Requests \X Nat)
    BY <1>1, <1>2, Ample
  <2> QED BY <1>1, <1>2, <1>4, <1>5, <2>1, QueueFields
<1> HIDE DEF q0
<1>7. /\ m \in QueueType
      /\ m.workers = q0.workers /\ m.parent = q0.parent
      /\ m.line = q0.line /\ m.deferred = q0.deferred /\ m.delayed = q0.delayed
      /\ m.task[p] = Idle /\ \A r \in Requests \ {p} : m.task[r] = q0.task[r]
      /\ m.active[Series(p)] = Absent
      /\ \A x \in SeriesKeys \ {Series(p)} : m.active[x] = q0.active[x] /\ m.pending[x] = q0.pending[x]
      /\ ToSet(m.pending[Series(p)]) = ToSet(q0.pending[Series(p)]) \cup {p}
  BY <1>6, TaskRequeued, Zenon
<1>8. Lands(m)
  BY DEF q0, ChunkReturns
<1> HIDE DEF m, rest
<1>9. Returned(p, m)
  BY <1>2, <1>6, <1>7 DEF Returned
<1>10. ParentOK(state, Idle, rest, p \in revoking)
  <2>1. Idle.stage = "none"
    BY DEF Idle
  <2>2. ParentOK(parent[p], task[p], SlotsOf(line, p), p \in revoking)
    BY <1>3, Facts
  <2>3. CancelOK(state, Idle, rest, p \in revoking)
    BY <1>3, <2>1 DEF CancelOK
  <2>4. rest \subseteq Whole(state)
    BY <1>3, <2>2 DEF ParentOK, CountOK, Whole, rest
  <2>5. CountOK(state, Idle, rest)
    BY <1>3, <2>1, <2>4 DEF CountOK
  <2> QED BY <1>3, <2>2, <2>3, <2>5 DEF ParentOK
<1>11. /\ deferred' \subseteq ToSet(line') /\ \A c \in deferred' : ~parent'[c[1]].cancelled
  <2>1. deferred \subseteq ToSet(line) /\ \A c \in deferred : ~parent[c[1]].cancelled
    BY Facts DEF RestOK
  <2> QED BY <1>1, <1>2, <1>3, <1>4, <1>5, <2>1
<1>12. faults' \in 0..MaxFaults
  BY <1>2, SchedulerAssumption
<1>13. Requeues(p, m)
  BY <1>2, <1>3, <1>4, <1>5, <1>9, <1>10, <1>11, <1>12 DEF Requeues
<1> QED BY <1>8, <1>13, RequeueKeeps

\* The last chunk of a parent: its task commits the verdict.
ChunkCloses(p, state) ==
  /\ IsFinal(state)
  /\ parent' = [parent EXCEPT ![p] = [state EXCEPT !.verdict = Verdict(state)]]
  /\ line' = Without(line, {p} \X SlotsOf(line, p))
  /\ deferred' = {c \in deferred : c[1] # p}
  /\ task' = [task EXCEPT ![p].stage = "committing"]
  /\ faults' \in 0..MaxFaults
  /\ UNCHANGED <<active, pending, lastCell, timer, workers, phase, canonical, live, revoking,
                 future, revoked>>

\* A verdict is an outcome.
LEMMA VerdictTyped == ASSUME NEW state \in Parent PROVE Verdict(state) \in Outcomes
  BY DEF Verdict, Outcomes, Parent

\* _finish_chunk for the last chunk.
LEMMA ChunkClosesKeeps ==
  ASSUME IInv, NEW p \in Requests, task[p].stage = "fetching", NEW state, NEW rest,
         ChunkEnds(p, state, rest), ChunkCloses(p, state)
  PROVE  IInv' /\ YieldStep
<1> DEFINE end == [state EXCEPT !.verdict = Verdict(state)]
<1>1. /\ line \in Seq(Requests \X Nat) /\ ToSet(line) \in SUBSET (Requests \X Nat)
      /\ deferred \in SUBSET (Requests \X Nat) /\ parent \in [Requests -> Parent]
      /\ task \in [Requests -> TaskType] /\ OwnOK(Now, live, revoking, p)
      /\ QueueOK(Now, live, revoking) /\ live \in SUBSET Requests
  BY Facts
<1>2. /\ parent' = [parent EXCEPT ![p] = end] /\ deferred' = {c \in deferred : c[1] # p}
      /\ task' = [task EXCEPT ![p].stage = "committing"]
      /\ workers' = workers /\ phase' = phase /\ canonical' = canonical /\ live' = live
      /\ revoking' = revoking /\ future' = future /\ revoked' = revoked
      /\ active' = active /\ pending' = pending /\ lastCell' = lastCell /\ timer' = timer
      /\ faults' \in 0..MaxFaults
  BY DEF ChunkCloses
<1>3. /\ p \in live /\ p \notin revoking /\ state \in Parent
      /\ state.first = parent[p].first /\ state.last = parent[p].last /\ state.reasons = parent[p].reasons
      /\ state.priority = parent[p].priority /\ state.trusted = parent[p].trusted
      /\ state.cell = parent[p].cell /\ state.leases = parent[p].leases
      /\ state.persistent = parent[p].persistent /\ state.cancelled = parent[p].cancelled
      /\ (parent[p].stale => state.stale)
      /\ state.completed <= state.total /\ state.weak \subseteq state.fetched
      /\ (state.trusted => state.weak = {})
      /\ (Verdict(state) = "filled" => Whole(state) \subseteq state.fetched)
  BY DEF ChunkEnds, ChunkCloses
<1>4. /\ end \in Parent /\ end.verdict = Verdict(state)
      /\ end.first = state.first /\ end.last = state.last /\ end.reasons = state.reasons
      /\ end.priority = state.priority /\ end.trusted = state.trusted
      /\ end.cell = state.cell /\ end.leases = state.leases /\ end.stale = state.stale
      /\ end.persistent = state.persistent /\ end.cancelled = state.cancelled
      /\ end.completed = state.completed /\ end.total = state.total
      /\ end.fetched = state.fetched /\ end.weak = state.weak
  BY ONLY <1>3, VerdictTyped DEF Parent
<1> HIDE DEF end
<1>5. /\ line' \in Seq(Requests \X Nat) /\ ToSet(line') = {c \in ToSet(line) : c[1] # p}
      /\ SlotsOf(line', p) = {} /\ \A q \in Requests \ {p} : SlotsOf(line', q) = SlotsOf(line, q)
  <2> DEFINE l == Without(line, {p} \X SlotsOf(line, p))
  <2>1. /\ l \in Seq(Requests \X Nat) /\ ToSet(l) = {c \in ToSet(line) : c[1] # p}
        /\ SlotsOf(l, p) = {} /\ \A q \in Requests \ {p} : SlotsOf(l, q) = SlotsOf(line, q)
    BY <1>1, LineCleared, Zenon
  <2>2. line' = l
    BY DEF ChunkCloses
  <2> HIDE DEF l
  <2> QED BY <2>1, <2>2
<1>6. /\ parent' \in [Requests -> Parent] /\ parent'[p] = end
      /\ \A q \in Requests \ {p} : parent'[q] = parent[q]
  BY <1>1, <1>2, <1>4
<1>7. /\ task' \in [Requests -> TaskType] /\ task'[p].stage = "committing"
      /\ \A q \in Requests \ {p} : task'[q] = task[q]
  BY ONLY <1>1, <1>2, p \in Requests DEF TaskType
<1>8. active[Series(p)] = p /\ p \notin ToSet(pending[Series(p)])
  BY <1>1, NowFields DEF OwnOK
<1>9. Now' \in QueueType
  <2>1. deferred' \in SUBSET (Requests \X Nat)
    BY <1>1, <1>2
  <2> QED BY <1>2, <1>5, <1>6, <1>7, <2>1, Facts, NowParts, NowTyped
<1>10. QueueOK(Now', live', revoking')
  <2>1. Elsewhere(Now, Now', p)
    <3>1. \A q \in Requests \ {p} : /\ task'[q] = task[q] /\ parent'[q] = parent[q]
                                   /\ SlotsOf(line', q) = SlotsOf(line, q)
      BY <1>5, <1>6, <1>7
    <3>2. \A x \in SeriesKeys \ {Series(p)} : active'[x] # p /\ p \notin ToSet(pending'[x])
      BY <1>2, Facts
    <3>3. task[p].stage # "none" /\ parent'[p].reasons = parent[p].reasons
      BY <1>3, <1>4, <1>6
    <3>4. \A x \in SeriesKeys : \A q \in Requests \ {p} :
            /\ q \in ToSet(pending'[x]) <=> q \in ToSet(pending[x])
            /\ active'[x] = q <=> active[x] = q
      BY <1>2
    <3> QED BY <1>2, <3>1, <3>2, <3>3, <3>4, ElsewhereNow
  <2>2. OwnOK(Now', live', revoking', p)
    <3>1. /\ task'[p].stage = "committing" /\ active'[Series(p)] = p
          /\ p \notin ToSet(pending'[Series(p)]) /\ p \in live' \ revoking' /\ SlotsOf(line', p) = {}
      BY <1>2, <1>3, <1>5, <1>7, <1>8
    <3> QED BY <3>1, NowFieldsNext DEF OwnOK
  <2>3. /\ \A q \in Requests \ {p} : (q \in live' <=> q \in live) /\ (q \in revoking' <=> q \in revoking)
        /\ live' \in SUBSET Requests
    BY <1>1, <1>2
  <2> QED BY <1>1, <1>9, <2>1, <2>2, <2>3, OneParent
<1>11. RestOK'
  <2>1. deferred \subseteq ToSet(line) /\ \A c \in deferred : ~parent[c[1]].cancelled
    BY Facts DEF RestOK
  <2>2. deferred' \subseteq ToSet(line') /\ \A c \in deferred' : ~parent'[c[1]].cancelled
    BY <1>1, <1>2, <1>5, <1>6, <2>1
  <2> QED BY <1>2, <2>2, Facts DEF RestOK
<1>12. AlwaysWoken'
  BY <1>7 DEF AlwaysWoken, HasTask
<1>13. ParentOK(end, task'[p], {}, p \in revoking)
  <2>1. ParentOK(parent[p], task[p], SlotsOf(line, p), p \in revoking)
    BY <1>3, Facts
  <2>2. CancelOK(end, task'[p], {}, p \in revoking)
    BY <1>3, <1>4, <1>7, <2>1 DEF ParentOK, CancelOK
  <2>3. CountOK(end, task'[p], {})
    <3>1. Whole(end) = Whole(state)
      BY <1>4 DEF Whole
    <3> QED BY <1>3, <1>4, <1>7, <3>1 DEF CountOK
  <2> QED BY <1>3, <1>4, <2>1, <2>2, <2>3 DEF ParentOK
<1>14. ParentsOK'
  <2>1. ASSUME NEW q \in Requests
        PROVE  IF q \in live' THEN ParentOK(parent'[q], task'[q], SlotsOf(line', q), q \in revoking')
               ELSE parent'[q] = NoParent
    <3>1. CASE q = p
      BY <1>2, <1>3, <1>5, <1>6, <1>13, <3>1
    <3>2. CASE q # p
      BY <1>2, <1>5, <1>6, <1>7, <3>2, Facts
    <3> QED BY <3>1, <3>2
  <2> QED BY <2>1 DEF ParentsOK
<1>15. ASSUME NEW r \in Requests PROVE AnswerOK(r)'
  <2>1. AnswerOK(r) /\ canonical[r] \in Requests \cup {Absent}
    BY Facts DEF RestOK, IInv
  <2>2. canonical[r] # Absent => /\ Whole(parent'[canonical[r]]) = Whole(parent[canonical[r]])
                                 /\ parent'[canonical[r]].trusted = parent[canonical[r]].trusted
    BY <1>3, <1>4, <1>6, <2>1 DEF Whole
  <2> QED BY <1>2, <2>1, <2>2 DEF AnswerOK
<1>16. YieldStep
  <2>1. ASSUME NEW q \in Requests PROVE task'[q] = task[q] \/ task'[q].stage # "fetching"
    BY <1>7
  <2> QED BY <2>1, YieldsStill
<1> QED BY <1>10, <1>11, <1>12, <1>14, <1>15, <1>16, InvByParts

\* _finish_chunk, whatever its result.
LEMMA FinishChunkKeeps ==
  ASSUME IInv, NEW p \in Requests, NEW result \in Results, FinishChunk(p, result)
  PROVE  IInv' /\ YieldStep
<1> DEFINE State(covered) == AfterChunk(p, result, covered)
           Ends(covered) == {task[p].slot} \cup covered
           met == faults + (IF result = "verified" THEN 0 ELSE 1)
<1>1. /\ task[p].stage = "fetching"
      /\ UNCHANGED <<workers, phase, canonical, live, revoking, future, revoked>>
  BY DEF FinishChunk
<1>2. PICK covered \in Covering(p, result) :
        \/ /\ ~IsFinal(State(covered))
           /\ parent' = [parent EXCEPT ![p] = State(covered)]
           /\ line' = Without(line, {p} \X Ends(covered))
           /\ deferred' = deferred \ ({p} \X Ends(covered))
           /\ DrainAfter(met,
                LAMBDA s : [s EXCEPT !.task[p] = Idle, !.active[Series(p)] = Absent,
                                     !.pending[Series(p)] = Append(@, p)])
        \/ /\ IsFinal(State(covered))
           /\ parent' = [parent EXCEPT ![p] = [State(covered) EXCEPT !.verdict = Verdict(State(covered))]]
           /\ line' = Without(line, {p} \X SlotsOf(line, p))
           /\ deferred' = {c \in deferred : c[1] # p}
           /\ task' = [task EXCEPT ![p].stage = "committing"]
           /\ faults' = met /\ met <= MaxFaults
           /\ UNCHANGED <<active, pending, lastCell, timer>>
  BY DEF FinishChunk
<1> DEFINE state == State(covered)
           ended == Ends(covered)
<1>3. /\ task[p].slot \in SlotsOf(line, p) /\ covered \in SUBSET (SlotsOf(line, p) \ {task[p].slot})
      /\ ChunkEnds(p, state, SlotsOf(line, p) \ ended)
  BY <1>1, ChunkFacts
<1>4. ended \in SUBSET Nat /\ ended # {}
  <2>1. SlotsOf(line, p) \in SUBSET Nat
    <3>1. ToSet(line) \in SUBSET (Requests \X Nat)
      BY Facts
    <3> QED BY <3>1, SlotsAre
  <2> QED BY <1>3, <2>1
<1>5. met \in Nat
  BY Facts DEF RestOK
<1> HIDE DEF met
<1>6. CASE ~IsFinal(state)
  <2>1. PICK tokens \in {0, AmpleTokens} :
          /\ faults' = met + (IF tokens = 0 THEN 1 ELSE 0) /\ faults' <= MaxFaults
          /\ Lands([Queue(tokens) EXCEPT !.task[p] = Idle, !.active[Series(p)] = Absent,
                                         !.pending[Series(p)] = Append(@, p)])
    BY <1>2, <1>6 DEF DrainAfter, Lands
  <2>2. /\ parent' = [parent EXCEPT ![p] = state]
        /\ line' = Without(line, {p} \X ended) /\ deferred' = deferred \ ({p} \X ended)
    BY <1>2, <1>6
  <2> HIDE DEF state, ended
  <2>3. ChunkReturns(p, state, ended, tokens, met)
    BY <1>1, <1>6, <2>1, <2>2 DEF ChunkReturns
  <2> QED BY <1>1, <1>3, <1>4, <1>5, <2>3, ChunkReturnsKeeps
<1>7. CASE IsFinal(state)
  <2>1. /\ parent' = [parent EXCEPT ![p] = [state EXCEPT !.verdict = Verdict(state)]]
        /\ line' = Without(line, {p} \X SlotsOf(line, p))
        /\ deferred' = {c \in deferred : c[1] # p}
        /\ task' = [task EXCEPT ![p].stage = "committing"]
        /\ faults' = met /\ met <= MaxFaults
        /\ UNCHANGED <<active, pending, lastCell, timer>>
    BY <1>2, <1>7
  <2> HIDE DEF state, ended
  <2>2. faults' \in 0..MaxFaults
    BY <1>5, <2>1, SchedulerAssumption
  <2>3. ChunkCloses(p, state)
    BY <1>1, <1>7, <2>1, <2>2 DEF ChunkCloses
  <2> QED BY <1>1, <1>3, <2>3, ChunkClosesKeeps
<1> QED BY <1>6, <1>7

\* The two drains that end a withdrawal.
LEMMA FinishWithdrawalKeeps ==
  ASSUME IInv, NEW p \in Requests, FinishWithdrawal(p) PROVE IInv' /\ YieldStep
<1>1. /\ phase = "up" /\ task[p].stage = "withdrawing" /\ Ended(p, "cancelled")
      /\ workers' = workers /\ phase' = phase /\ canonical' = canonical /\ line' = line
      /\ deferred' = deferred /\ revoking' = revoking /\ revoked' = revoked
  BY DEF FinishWithdrawal
<1>2. PICK tokens \in {0, AmpleTokens} :
        /\ faults' = faults + (IF tokens = 0 THEN 1 ELSE 0) /\ faults' <= MaxFaults
        /\ Lands([Drained(Queue(tokens)) EXCEPT !.task[p] = Idle])
  BY DEF FinishWithdrawal, Drain, DrainAfter, Lands
<1> DEFINE q0 == Queue(tokens)
           d == Drained(q0)
           m == [d EXCEPT !.task[p] = Idle]
<1>3. /\ \A r \in Requests : AnswerOK(r)'
      /\ live' = live \ {p} /\ live' \in SUBSET Requests
      /\ parent' \in [Requests -> Parent] /\ parent'[p] = NoParent
      /\ \A q \in Requests \ {p} : parent'[q] = parent[q]
      /\ future' \in [Requests -> Outcomes \cup {"open"}]
      /\ \A c \in deferred : ~parent'[c[1]].cancelled
  BY <1>1, EndedKeeps DEF Outcomes
<1>4. /\ q0 \in QueueType
      /\ q0.active = active /\ q0.pending = pending /\ q0.task = task /\ q0.last = lastCell
      /\ q0.timer = timer /\ q0.workers = workers /\ q0.parent = parent' /\ q0.line = line'
      /\ q0.deferred = deferred' /\ q0.delayed = FALSE
  <2>1. tokens \in Nat
    BY <1>2, Ample
  <2> QED BY <1>1, <1>3, <2>1, Facts, QueueFields
<1> HIDE DEF q0
<1>5. /\ OwnOK(Now, live, revoking, p) /\ QueueOK(Now, live, revoking) /\ live \in SUBSET Requests
      /\ Series(p) \in SeriesKeys /\ p # Absent
  BY Facts, DemandSeries
<1>6. /\ p \in live /\ p \notin revoking /\ active[Series(p)] # p /\ p \notin ToSet(pending[Series(p)])
      /\ SlotsOf(line, p) = {}
  BY <1>1, <1>5, NowFields DEF OwnOK
<1>7. QueueOK(q0, live, revoking)
  <2>1. Elsewhere(Now, q0, p)
    <3>1. ~IsBackground(parent'[p].reasons)
      BY <1>3 DEF NoParent, IsBackground
    <3>2. \A x \in SeriesKeys \ {Series(p)} : active[x] # p /\ p \notin ToSet(pending[x])
      BY Facts
    <3> QED BY <1>1, <1>3, <1>4, <3>1, <3>2, NowFields DEF Elsewhere
  <2>2. OwnOK(q0, live, revoking, p)
    BY <1>1, <1>4, <1>6 DEF OwnOK
  <2> QED BY <1>4, <1>5, <2>1, <2>2, OneParent
<1>8. Yields(q0, task)
  BY <1>4, NothingStarts
<1>9. Drains(d, q0, live, revoking, task) /\ d.delayed = FALSE
  BY <1>4, <1>5, <1>7, <1>8, DrainedKeeps
<1> HIDE DEF d
<1>10. /\ d \in QueueType /\ QueueOK(d, live, revoking) /\ Yields(d, task)
       /\ d.line = line' /\ d.parent = parent' /\ d.deferred = deferred' /\ d.workers = workers
       /\ \A q \in Requests : Starts(task[q], d.task[q])
  BY <1>4, <1>9 DEF Drains, QueueOK
<1>11. d.task[p].stage = "withdrawing"
  BY <1>1, <1>10 DEF Starts
<1>12. OwnOK(d, live, revoking, p) /\ SeriesOK(d)
  BY <1>5, <1>10, QueueByParent
<1>13. /\ m \in QueueType /\ m.task[p] = Idle /\ (\A q \in Requests \ {p} : m.task[q] = d.task[q])
       /\ m.active = d.active /\ m.pending = d.pending /\ m.parent = parent' /\ m.line = line'
       /\ m.deferred = deferred' /\ m.workers = workers /\ m.delayed = FALSE
  <2>1. Idle \in TaskType /\ d.task \in [Requests -> TaskType]
    BY <1>10 DEF Idle, TaskType, QueueType
  <2>2. [d.task EXCEPT ![p] = Idle] \in [Requests -> TaskType]
    BY <2>1
  <2> QED BY <1>9, <1>10, <2>1, <2>2 DEF QueueType
<1>14. Lands(m)
  BY <1>2 DEF d, q0
<1> HIDE DEF m
<1>15. m.task[p].stage = "none"
  BY <1>13 DEF Idle
<1>16. QueueOK(m, live', revoking')
  <2>1. Elsewhere(d, m, p)
    <3>1. \A x \in SeriesKeys \ {Series(p)} : m.active[x] # p /\ p \notin ToSet(m.pending[x])
      BY <1>5, <1>12, <1>13 DEF SeriesOK
    <3> QED BY <1>10, <1>13, <1>15, <3>1 DEF Elsewhere
  <2>2. OwnOK(m, live', revoking', p)
    BY <1>1, <1>3, <1>6, <1>10, <1>11, <1>12, <1>13, <1>15 DEF OwnOK
  <2>3. \A q \in Requests \ {p} : (q \in live' <=> q \in live) /\ (q \in revoking' <=> q \in revoking)
    BY <1>1, <1>3
  <2>4. live' \in SUBSET Requests
    BY <1>3
  <2> QED BY <1>5, <1>10, <1>13, <2>1, <2>2, <2>3, <2>4, OneParent
<1>17. Yields(m, task)
  <2>1. Tasks(m) \in SUBSET Tasks(d) /\ \A q : ReasonsNow(m, q) = ReasonsNow(d, q)
    BY <1>10, <1>13, <1>15 DEF Tasks, ReasonsNow
  <2> QED BY <1>10, <1>13, <1>15, <2>1 DEF Yields
<1>18. ASSUME NEW q \in Requests
       PROVE  IF q \in live' THEN ParentOK(parent'[q], m.task[q], SlotsOf(line', q), q \in revoking')
              ELSE parent'[q] = NoParent
  <2>1. CASE q \in live'
    <3>1. /\ q # p /\ parent'[q] = parent[q] /\ m.task[q] = d.task[q]
          /\ ParentOK(parent[q], task[q], SlotsOf(line, q), q \in revoking)
      BY <1>3, <1>13, <2>1, Facts
    <3>2. Starts(task[q], d.task[q]) /\ (d.task[q].stage = "fetching" => d.task[q].slot \in SlotsOf(line, q))
      BY <1>1, <1>10 DEF QueueOK, TasksOK
    <3>3. ParentOK(parent[q], d.task[q], SlotsOf(line, q), q \in revoking)
      BY <3>1, <3>2, StartKeepsParent
    <3> QED BY <1>1, <2>1, <3>1, <3>3
  <2>2. CASE q \notin live'
    BY <1>3, <2>2, Facts
  <2> QED BY <2>1, <2>2
<1>19. QueueOK(Now', live', revoking') /\ ParentsOK' /\ AlwaysWoken' /\ YieldStep
  <2>1. /\ live' \in SUBSET Requests /\ m.workers = workers' /\ m.delayed = FALSE
        /\ m.parent = parent' /\ m.line = line' /\ m.deferred = deferred' /\ phase' = phase
    BY <1>1, <1>3, <1>13
  <2> QED BY <1>14, <1>16, <1>17, <1>18, <2>1, DrainLands DEF Lands
<1>20. RestOK'
  <2>1. faults' \in 0..MaxFaults
    BY <1>2, SchedulerAssumption, Facts DEF RestOK
  <2> QED BY <1>1, <1>3, <1>6, <2>1, Facts DEF RestOK
<1> QED BY <1>3, <1>19, <1>20, InvByParts

-----------------------------------------------------------------------------
(* Cancellation                                                            *)

\* leases are what is left to the parents, C the parents nobody wants any more.
Withdraws(C, leases) ==
  /\ C \in SUBSET live /\ leases \in [Requests -> SUBSET Owners]
  /\ \A p \in Requests : leases[p] \subseteq parent[p].leases
  /\ \A p \in C : leases[p] = {} /\ ~parent[p].persistent

\* A line with something in it comes from one with something in it.
LEMMA LineStays ==
  ASSUME NEW l \in Seq(Requests \X Nat), NEW m \in Seq(Requests \X Nat), ToSet(m) \subseteq ToSet(l)
  PROVE  m # <<>> => l # <<>>
<1> SUFFICES ASSUME l = <<>>, m # <<>> PROVE FALSE
  OBVIOUS
<1>1. m[1] \in ToSet(m)
  BY DEF ToSet
<1>2. ToSet(l) = {}
  BY DEF ToSet
<1> QED BY <1>1, <1>2

\* _begin_request_cancel of all the parents of a withdrawal.
LEMMA BeginCancelKeeps ==
  ASSUME IInv, NEW C, NEW leases, Withdraws(C, leases), BeginCancel(C, leases),
         revoked' \in SUBSET Owners
  PROVE  IInv' /\ YieldStep
<1> DEFINE begun == {p \in C : ~parent[p].cancelled}
           waiting == {p \in begun : active[Series(p)] # p}
           gone == {c \in ToSet(line) : c[1] \in begun /\ c[2] \notin Held(c[1])}
<1>1. /\ line \in Seq(Requests \X Nat) /\ ToSet(line) \in SUBSET (Requests \X Nat)
      /\ deferred \in SUBSET (Requests \X Nat) /\ parent \in [Requests -> Parent]
      /\ task \in [Requests -> TaskType] /\ pending \in [SeriesKeys -> Seq(Requests)]
      /\ \A p \in Requests : OwnOK(Now, live, revoking, p)
      /\ live \in SUBSET Requests /\ revoking \in SUBSET Requests
  BY Facts
<1>2. /\ C \in SUBSET live /\ leases \in [Requests -> SUBSET Owners]
      /\ \A p \in Requests : leases[p] \subseteq parent[p].leases
      /\ \A p \in C : leases[p] = {} /\ ~parent[p].persistent
  BY DEF Withdraws
<1>3. /\ workers' = workers /\ phase' = phase /\ canonical' = canonical /\ live' = live
      /\ active' = active /\ task' = task /\ lastCell' = lastCell /\ timer' = timer
      /\ future' = future /\ faults' = faults
  BY DEF BeginCancel
<1>4. /\ parent' = [p \in Requests |->
                     IF p \in begun THEN [parent[p] EXCEPT !.leases = leases[p],
                                                           !.cancelled = TRUE, !.stale = TRUE]
                     ELSE [parent[p] EXCEPT !.leases = leases[p]]]
      /\ line' = Without(line, gone)
      /\ deferred' = {c \in deferred : c[1] \notin begun}
      /\ pending' = [s \in SeriesKeys |-> Without(pending[s], waiting)]
      /\ revoking' = revoking \cup waiting
  BY DEF BeginCancel
<1>5. ASSUME NEW p \in Requests
      PROVE  /\ parent'[p] \in Parent
             /\ parent'[p].first = parent[p].first /\ parent'[p].last = parent[p].last
             /\ parent'[p].reasons = parent[p].reasons /\ parent'[p].priority = parent[p].priority
             /\ parent'[p].trusted = parent[p].trusted /\ parent'[p].cell = parent[p].cell
             /\ parent'[p].persistent = parent[p].persistent
             /\ parent'[p].completed = parent[p].completed /\ parent'[p].total = parent[p].total
             /\ parent'[p].verdict = parent[p].verdict
             /\ parent'[p].fetched = parent[p].fetched /\ parent'[p].weak = parent[p].weak
             /\ parent'[p].leases = leases[p]
             /\ p \in begun => parent'[p].cancelled /\ parent'[p].stale
             /\ p \notin begun => /\ parent'[p].cancelled = parent[p].cancelled
                                  /\ parent'[p].stale = parent[p].stale
                                  /\ parent'[p] = [parent[p] EXCEPT !.leases = leases[p]]
  <2>1. parent[p] \in Parent /\ leases[p] \in SUBSET Owners /\ p \in Requests
    BY <1>1, <1>2
  <2>2. CASE p \in begun
    <3>1. parent'[p] = [parent[p] EXCEPT !.leases = leases[p], !.cancelled = TRUE, !.stale = TRUE]
      BY <1>4, <2>2
    <3> QED BY ONLY <2>1, <2>2, <3>1 DEF Parent
  <2>3. CASE p \notin begun
    <3>1. parent'[p] = [parent[p] EXCEPT !.leases = leases[p]]
      BY <1>4, <2>3
    <3> QED BY ONLY <2>1, <2>3, <3>1 DEF Parent
  <2> QED BY <2>2, <2>3
<1>6. parent' \in [Requests -> Parent]
  <2>1. parent' = [p \in Requests |-> parent'[p]]
    BY <1>4
  <2> QED BY <1>5, <2>1
<1>7. line' \in Seq(Requests \X Nat) /\ ToSet(line') = ToSet(line) \ gone
  BY <1>1, <1>4, WithoutKeeps
<1>8. ASSUME NEW p \in Requests
      PROVE  SlotsOf(line', p) = IF p \in begun THEN SlotsOf(line, p) \cap Held(p) ELSE SlotsOf(line, p)
  <2>1. ToSet(line') \in SUBSET (Requests \X Nat)
    BY <1>1, <1>7
  <2>2. ASSUME NEW i PROVE i \in SlotsOf(line', p) <=>
                             i \in SlotsOf(line, p) /\ (p \in begun => i \in Held(p))
    <3>1. i \in SlotsOf(line', p) <=> <<p, i>> \in ToSet(line')
      BY <2>1, SlotsAre
    <3>2. i \in SlotsOf(line, p) <=> <<p, i>> \in ToSet(line)
      BY <1>1, SlotsAre
    <3>3. <<p, i>>[1] = p /\ <<p, i>>[2] = i
      OBVIOUS
    <3> HIDE DEF begun
    <3> QED BY <1>7, <3>1, <3>2, <3>3
  <2> HIDE DEF begun
  <2>3. CASE p \in begun
    BY <2>2, <2>3
  <2>4. CASE p \notin begun
    <3>1. \A i : i \in SlotsOf(line', p) <=> i \in SlotsOf(line, p)
      BY <2>2, <2>4
    <3> QED BY <2>4, <3>1
  <2> QED BY <2>3, <2>4
<1>9. /\ pending' \in [SeriesKeys -> Seq(Requests)]
      /\ \A x \in SeriesKeys : ToSet(pending'[x]) = ToSet(pending[x]) \ waiting
  <2> HIDE DEF waiting
  <2>1. ASSUME NEW x \in SeriesKeys
        PROVE  /\ Without(pending[x], waiting) \in Seq(Requests)
               /\ ToSet(Without(pending[x], waiting)) = ToSet(pending[x]) \ waiting
    BY <1>1, WithoutKeeps
  <2> QED BY <1>4, <2>1
<1>10. waiting \subseteq live /\ begun \subseteq live /\ live' \in SUBSET Requests
  BY <1>1, <1>2, <1>3
<1>11. ASSUME NEW p \in begun
       PROVE  /\ p \in Requests /\ p \notin revoking /\ task[p].stage # "withdrawing"
              /\ p \in waiting <=> task[p].stage = "none"
              /\ p \notin waiting => p \notin ToSet(pending[Series(p)])
              /\ Held(p) = HeldBy(task[p])
              /\ task[p].stage = "committing" => SlotsOf(line, p) = {}
              /\ ~parent[p].cancelled /\ leases[p] = {} /\ ~parent[p].persistent
  <2>1. p \in live /\ p \in Requests /\ ~parent[p].cancelled /\ leases[p] = {} /\ ~parent[p].persistent
    BY <1>1, <1>2
  <2>2. ParentOK(parent[p], task[p], SlotsOf(line, p), p \in revoking)
    BY <2>1, Facts
  <2>3. p \notin revoking /\ task[p].stage # "withdrawing"
    BY <2>1, <2>2 DEF ParentOK, CancelOK
  <2>4. OwnOK(Now, live, revoking, p) /\ task[p] \in TaskType
    BY <1>1, <2>1
  <2>5. /\ task[p].stage \in {"fetching", "committing"} <=> active[Series(p)] = p
        /\ p \in ToSet(pending[Series(p)]) => task[p].stage = "none"
        /\ SlotsOf(line, p) # {} => task[p].stage = "fetching" \/ p \in ToSet(pending[Series(p)])
    BY <2>4, NowFields DEF OwnOK
  <2>6. task[p].stage \in {"none", "fetching", "committing", "withdrawing"}
    BY <2>4 DEF TaskType
  <2> QED BY <2>1, <2>3, <2>5, <2>6 DEF Held, HeldBy, HasTask
<1> HIDE DEF begun, waiting, gone
<1>12. waiting \subseteq begun
  BY DEF waiting
<1>13. Now' \in QueueType
  <2>1. deferred' \in SUBSET (Requests \X Nat)
    BY <1>1, <1>4
  <2> QED BY <1>3, <1>6, <1>7, <1>9, <2>1, Facts, NowParts, NowTyped
<1>14. ASSUME NEW p \in Requests PROVE OwnOK(Now', live', revoking', p)
  <2>1. OwnOK(Now, live, revoking, p) /\ Series(p) \in SeriesKeys
    BY <1>1, DemandSeries
  <2>2. /\ task[p].stage \in {"fetching", "committing"} <=> active[Series(p)] = p
        /\ p \in ToSet(pending[Series(p)]) =>
             /\ p \in live \ revoking /\ task[p].stage = "none" /\ ~parent[p].cancelled
             /\ SlotsOf(line, p) # {}
        /\ p \in live => p \in ToSet(pending[Series(p)]) \/ task[p].stage # "none" \/ p \in revoking
        /\ task[p].stage # "none" => p \in live \ revoking
        /\ task[p].stage = "fetching" =>
             task[p].slot \in SlotsOf(line, p) /\ task[p].trusted = parent[p].trusted
        /\ SlotsOf(line, p) # {} =>
             /\ task[p].stage = "fetching" \/ p \in ToSet(pending[Series(p)])
             /\ parent[p].priority \in Priorities /\ parent[p].reasons # {}
             /\ parent[p].cell \in Cells
    BY <2>1, NowFields DEF OwnOK
  <2>3. ToSet(pending'[Series(p)]) = ToSet(pending[Series(p)]) \ waiting
    BY <1>9, <2>1
  <2>4. CASE p \notin begun
    <3>1. /\ SlotsOf(line', p) = SlotsOf(line, p) /\ p \notin waiting
          /\ parent'[p].cancelled = parent[p].cancelled
      BY <1>5, <1>8, <1>12, <2>4
    <3>2. /\ p \in ToSet(pending'[Series(p)]) <=> p \in ToSet(pending[Series(p)])
          /\ p \in revoking' <=> p \in revoking
          /\ p \in live' <=> p \in live
          /\ task'[p] = task[p] /\ active'[Series(p)] = active[Series(p)]
      BY <1>3, <1>4, <2>3, <3>1
    <3>3. /\ parent'[p].reasons = parent[p].reasons /\ parent'[p].priority = parent[p].priority
          /\ parent'[p].trusted = parent[p].trusted /\ parent'[p].cell = parent[p].cell
      BY <1>5
    <3> QED BY ONLY <2>2, <3>1, <3>2, <3>3, NowFieldsNext DEF OwnOK
  <2>5. CASE p \in begun
    <3>1. SlotsOf(line', p) = SlotsOf(line, p) \cap HeldBy(task[p])
      BY <1>8, <1>11, <2>5
    <3>2. CASE p \in waiting
      <4>1. task[p].stage = "none" /\ SlotsOf(line', p) = {} /\ p \in revoking'
        BY <1>4, <1>11, <2>5, <3>1, <3>2 DEF HeldBy
      <4> QED BY <1>3, <2>2, <2>3, <3>2, <4>1, NowFieldsNext DEF OwnOK
    <3>3. CASE p \notin waiting
      <4>1. /\ p \notin ToSet(pending'[Series(p)]) /\ p \notin revoking' /\ task[p].stage # "none"
            /\ p \in live
        BY <1>4, <1>10, <1>11, <2>3, <2>5, <3>3
      <4>2. SlotsOf(line', p) # {} => task[p].stage = "fetching" /\ SlotsOf(line, p) # {}
        BY <1>11, <2>2, <2>5, <3>1, <3>3
      <4>3. task[p].stage = "fetching" => task[p].slot \in SlotsOf(line', p)
        BY <2>2, <3>1 DEF HeldBy
      <4>4. /\ parent'[p].reasons = parent[p].reasons /\ parent'[p].priority = parent[p].priority
            /\ parent'[p].trusted = parent[p].trusted /\ parent'[p].cell = parent[p].cell
            /\ task'[p] = task[p] /\ active'[Series(p)] = active[Series(p)] /\ live' = live
        BY <1>3, <1>5
      <4> QED BY ONLY <2>2, <4>1, <4>2, <4>3, <4>4, NowFieldsNext DEF OwnOK
    <3> QED BY <3>2, <3>3
  <2> QED BY <2>4, <2>5
<1>15. SeriesOK(Now') /\ LanesOK(Now')
  <2>1. SeriesOK(Now) /\ LanesOK(Now)
    BY Facts, QueueByParent
  <2>2. SeriesOK(Now')
    BY <1>3, <1>9, <2>1, NowFields, NowFieldsNext DEF SeriesOK
  <2>3. /\ Tasks(Now') = Tasks(Now) /\ Limit(Now') = Limit(Now)
        /\ Tasks(Now) \in SUBSET Requests
    BY <1>3, NowFields, NowFieldsNext DEF Tasks, Limit
  <2>4. \A p \in Requests : ReasonsNow(Now', p) = ReasonsNow(Now, p)
    BY <1>5, NowFields, NowFieldsNext DEF ReasonsNow
  <2> QED BY <2>1, <2>2, <2>3, <2>4 DEF LanesOK
<1>16. QueueOK(Now', live', revoking')
  BY <1>10, <1>13, <1>14, <1>15, QueueByParent
<1>17. ASSUME NEW p \in Requests
       PROVE  IF p \in live' THEN ParentOK(parent'[p], task'[p], SlotsOf(line', p), p \in revoking')
              ELSE parent'[p] = NoParent
  <2>1. CASE p \in live
    <3>1. ParentOK(parent[p], task[p], SlotsOf(line, p), p \in revoking)
      BY <2>1, Facts
    <3>2. CancelOK(parent'[p], task[p], SlotsOf(line', p), p \in revoking')
      <4>1. CASE p \in begun
        <5>1. SlotsOf(line', p) \subseteq HeldBy(task[p])
          BY <1>8, <1>11, <4>1
        <5> QED BY <1>5, <1>11, <4>1, <5>1 DEF CancelOK
      <4>2. CASE p \notin begun
        <5>1. SlotsOf(line', p) = SlotsOf(line, p) /\ (p \in revoking' <=> p \in revoking)
          BY <1>4, <1>8, <1>12, <4>2
        <5> QED BY <1>2, <1>5, <3>1, <4>2, <5>1 DEF ParentOK, CancelOK
      <4> QED BY <4>1, <4>2
    <3>3. CountOK(parent'[p], task[p], SlotsOf(line', p))
      <4>1. CountOK(parent[p], task[p], SlotsOf(line, p)) /\ Whole(parent'[p]) = Whole(parent[p])
        BY <1>5, <3>1 DEF ParentOK, Whole
      <4>2. SlotsOf(line', p) \subseteq SlotsOf(line, p)
        BY <1>8
      <4>3. CASE p \in begun
        BY <1>5, <4>1, <4>2, <4>3 DEF CountOK
      <4>4. CASE p \notin begun
        <5>1. SlotsOf(line', p) = SlotsOf(line, p)
          BY <1>8, <4>4
        <5> QED BY <1>5, <4>1, <4>4, <5>1 DEF CountOK
      <4> QED BY <4>3, <4>4
    <3> QED BY <1>3, <1>5, <2>1, <3>1, <3>2, <3>3 DEF ParentOK
  <2>2. CASE p \notin live
    <3>1. parent[p] = NoParent /\ p \notin begun
      BY <1>10, <2>2, Facts
    <3>2. leases[p] = {}
      BY <1>2, <3>1 DEF NoParent
    <3>3. parent'[p] = [parent[p] EXCEPT !.leases = {}]
      BY <1>5, <3>1, <3>2
    <3>4. [NoParent EXCEPT !.leases = {}] = NoParent
      <4>1. NoParent \in Parent /\ NoParent.leases = {}
        BY NoParentTyped DEF NoParent
      <4> QED BY ONLY <4>1 DEF Parent
    <3> QED BY <1>3, <2>2, <3>1, <3>3, <3>4
  <2> QED BY <2>1, <2>2
<1>18. ParentsOK'
  BY <1>17 DEF ParentsOK
<1>19. ASSUME NEW r \in Requests PROVE AnswerOK(r)'
  <2>1. AnswerOK(r) /\ canonical[r] \in Requests \cup {Absent}
    BY Facts DEF RestOK, IInv
  <2>2. canonical[r] # Absent => /\ Whole(parent'[canonical[r]]) = Whole(parent[canonical[r]])
                                 /\ parent'[canonical[r]].trusted = parent[canonical[r]].trusted
    BY <1>5, <2>1 DEF Whole
  <2> QED BY <1>3, <2>1, <2>2 DEF AnswerOK
<1>20. RestOK'
  <2>1. /\ deferred \subseteq ToSet(line) /\ \A c \in deferred : ~parent[c[1]].cancelled
        /\ IF phase = "down" THEN live = {} ELSE revoking \subseteq live
    BY Facts DEF RestOK
  <2>2. deferred' \subseteq ToSet(line')
    BY <1>4, <1>7, <2>1 DEF gone
  <2>3. \A c \in deferred' : ~parent'[c[1]].cancelled
    BY <1>1, <1>4, <1>5, <2>1
  <2>4. /\ IF phase' = "down" THEN live' = {} ELSE revoking' \subseteq live'
        /\ revoking' \subseteq Requests
    BY <1>1, <1>3, <1>4, <1>10, <2>1
  <2> QED BY <1>3, <2>2, <2>3, <2>4, Facts DEF RestOK
<1>21. AlwaysWoken'
  <2>1. line' # <<>> => line # <<>>
    BY <1>1, <1>7, LineStays
  <2>2. AlwaysWoken
    BY DEF IInv
  <2>3. revoking # {} => revoking' # {}
    BY <1>4
  <2> QED BY <1>3, <2>1, <2>2, <2>3 DEF AlwaysWoken, HasTask
<1>22. YieldStep
  BY <1>3, YieldsStill
<1> QED BY <1>16, <1>18, <1>19, <1>20, <1>21, <1>22, InvByParts

\* release_demand takes a lease away.
LEMMA ReleaseDemandKeeps ==
  ASSUME IInv, NEW p \in Requests, NEW o \in Owners, NEW cancel \in BOOLEAN,
         ReleaseDemand(p, o, cancel)
  PROVE  IInv' /\ YieldStep
<1> DEFINE leases == [q \in Requests |-> IF q = p THEN parent[q].leases \ {o} ELSE parent[q].leases]
           C == IF cancel /\ Unobserved(p, leases) THEN {p} ELSE {}
<1>1. p \in live /\ BeginCancel(C, leases) /\ revoked' = revoked
  BY DEF ReleaseDemand
<1>2. parent \in [Requests -> Parent] /\ revoked \in SUBSET Owners
  BY Facts DEF RestOK
<1>3. \A q \in Requests : parent[q].leases \in SUBSET Owners
  BY <1>2 DEF Parent
<1>4. leases \in [Requests -> SUBSET Owners] /\ \A q \in Requests : leases[q] \subseteq parent[q].leases
  BY <1>3
<1> HIDE DEF leases
<1>5. C \in SUBSET live /\ \A q \in C : leases[q] = {} /\ ~parent[q].persistent
  BY <1>1 DEF Unobserved
<1> HIDE DEF C
<1>6. Withdraws(C, leases)
  BY <1>4, <1>5 DEF Withdraws
<1>7. revoked' \in SUBSET Owners
  BY <1>1, <1>2
<1> QED BY <1>1, <1>6, <1>7, BeginCancelKeeps

\* revoke_owner takes all leases of an owner away.
LEMMA RevokeOwnerKeeps ==
  ASSUME IInv, NEW o \in Owners, RevokeOwner(o) PROVE IInv' /\ YieldStep
<1> DEFINE holders == {p \in live : o \in parent[p].leases}
           leases == [q \in Requests |-> IF q \in holders THEN parent[q].leases \ {o}
                                         ELSE parent[q].leases]
           C == {p \in holders : Unobserved(p, leases)}
<1>1. BeginCancel(C, leases) /\ revoked' = revoked \cup {o}
  BY DEF RevokeOwner
<1>2. parent \in [Requests -> Parent] /\ revoked \in SUBSET Owners
  BY Facts DEF RestOK
<1>3. \A q \in Requests : parent[q].leases \in SUBSET Owners
  BY <1>2 DEF Parent
<1>4. leases \in [Requests -> SUBSET Owners] /\ \A q \in Requests : leases[q] \subseteq parent[q].leases
  BY <1>3
<1> HIDE DEF leases
<1>5. C \in SUBSET live /\ \A q \in C : leases[q] = {} /\ ~parent[q].persistent
  BY DEF Unobserved
<1> HIDE DEF C
<1>6. Withdraws(C, leases)
  BY <1>4, <1>5 DEF Withdraws
<1>7. revoked' \in SUBSET Owners
  BY <1>1, <1>2
<1> QED BY <1>1, <1>6, <1>7, BeginCancelKeeps

-----------------------------------------------------------------------------
(* Submission                                                              *)

\* The handler that answers the demand r with the parent p, up to the queue m
\* it leaves to the drain.
Answers(r, p, m) ==
  /\ canonical[r] = Absent /\ canonical' = [canonical EXCEPT ![r] = p]
  /\ phase = "up" /\ p \in live \cup {r} /\ live' = live \cup {p}
  /\ workers' = workers /\ phase' = phase /\ revoking' = revoking /\ revoked' = revoked
  /\ parent' \in [Requests -> Parent] /\ \A q \in Requests \ {p} : parent'[q] = parent[q]
  /\ Demand[r].first..Demand[r].last \subseteq Whole(parent'[p])
  /\ Whole(parent[p]) \subseteq Whole(parent'[p])
  /\ Demand[r].trusted \/ parent[p].trusted => parent'[p].trusted
  /\ \A q \in Requests \ {p} : SlotsOf(line', q) = SlotsOf(line, q)
  /\ ParentOK(parent'[p], task[p], SlotsOf(line', p), p \in revoking)
  /\ deferred' \subseteq ToSet(line') /\ \A c \in deferred' : ~parent'[c[1]].cancelled
  /\ future' \in [Requests -> Outcomes \cup {"open"}] /\ faults' \in 0..MaxFaults
  /\ task[p].stage # "none" =>
       (IsBackground(parent'[p].reasons) => IsBackground(parent[p].reasons))
  /\ m \in QueueType /\ m.workers = workers /\ m.parent = parent' /\ m.line = line'
  /\ m.deferred = deferred' /\ m.delayed = FALSE /\ m.task = task /\ m.active = active
  /\ \A x \in SeriesKeys : \A q \in Requests \ {p} :
       q \in ToSet(m.pending[x]) <=> q \in ToSet(pending[x])
  /\ \A x \in SeriesKeys \ {Series(p)} : m.pending[x] = pending[x]
  /\ OwnOK(m, live', revoking', p)

\* A submission that answers a demand with a parent.
LEMMA AnswersKeep ==
  ASSUME IInv, NEW r \in Requests, NEW p \in Requests, NEW m, Answers(r, p, m), Lands(m)
  PROVE  IInv' /\ YieldStep
<1>1. /\ canonical[r] = Absent /\ canonical' = [canonical EXCEPT ![r] = p]
      /\ phase = "up" /\ p \in live \cup {r} /\ live' = live \cup {p}
      /\ workers' = workers /\ phase' = phase /\ revoking' = revoking /\ revoked' = revoked
      /\ parent' \in [Requests -> Parent] /\ \A q \in Requests \ {p} : parent'[q] = parent[q]
      /\ Demand[r].first..Demand[r].last \subseteq Whole(parent'[p])
      /\ Whole(parent[p]) \subseteq Whole(parent'[p])
      /\ Demand[r].trusted \/ parent[p].trusted => parent'[p].trusted
      /\ \A q \in Requests \ {p} : SlotsOf(line', q) = SlotsOf(line, q)
  BY DEF Answers
<1>2. /\ ParentOK(parent'[p], task[p], SlotsOf(line', p), p \in revoking)
      /\ deferred' \subseteq ToSet(line') /\ \A c \in deferred' : ~parent'[c[1]].cancelled
      /\ future' \in [Requests -> Outcomes \cup {"open"}] /\ faults' \in 0..MaxFaults
      /\ task[p].stage # "none" =>
           (IsBackground(parent'[p].reasons) => IsBackground(parent[p].reasons))
  BY DEF Answers
<1>3. /\ m \in QueueType /\ m.workers = workers /\ m.parent = parent' /\ m.line = line'
      /\ m.deferred = deferred' /\ m.delayed = FALSE /\ m.task = task /\ m.active = active
      /\ \A x \in SeriesKeys : \A q \in Requests \ {p} :
           q \in ToSet(m.pending[x]) <=> q \in ToSet(pending[x])
      /\ \A x \in SeriesKeys \ {Series(p)} : m.pending[x] = pending[x]
      /\ OwnOK(m, live', revoking', p)
  BY DEF Answers
<1>4. QueueOK(Now, live, revoking) /\ live \in SUBSET Requests /\ live' \in SUBSET Requests
  BY <1>1, Facts
<1>5. QueueOK(m, live', revoking')
  <2>1. Elsewhere(Now, m, p)
    <3>1. \A q \in Requests \ {p} : /\ m.task[q] = Now.task[q] /\ m.parent[q] = Now.parent[q]
                                   /\ SlotsOf(m.line, q) = SlotsOf(Now.line, q)
      BY <1>1, <1>3, NowFields
    <3>2. \A x \in SeriesKeys : \A q \in Requests \ {p} :
            /\ q \in ToSet(m.pending[x]) <=> q \in ToSet(Now.pending[x])
            /\ m.active[x] = q <=> Now.active[x] = q
      BY <1>3, NowFields
    <3>3. \A x \in SeriesKeys \ {Series(p)} : m.active[x] # p /\ p \notin ToSet(m.pending[x])
      BY <1>3, Facts
    <3>4. m.task[p].stage # "none" =>
            /\ Now.task[p].stage # "none"
            /\ IsBackground(m.parent[p].reasons) => IsBackground(Now.parent[p].reasons)
      BY <1>2, <1>3, NowFields
    <3> QED BY <1>3, <3>1, <3>2, <3>3, <3>4, NowFields DEF Elsewhere
  <2>2. \A q \in Requests \ {p} : (q \in live' <=> q \in live) /\ (q \in revoking' <=> q \in revoking)
    BY <1>1
  <2> QED BY <1>3, <1>4, <2>1, <2>2, OneParent
<1>6. Yields(m, task)
  <2>1. \A q \in Requests : m.task[q] = task[q] \/ m.task[q].stage # "fetching"
    BY <1>3
  <2> QED BY <2>1, NothingStarts
<1>7. ASSUME NEW q \in Requests
      PROVE  IF q \in live' THEN ParentOK(parent'[q], m.task[q], SlotsOf(line', q), q \in revoking')
             ELSE parent'[q] = NoParent
  <2>1. CASE q = p
    BY <1>1, <1>2, <1>3, <2>1
  <2>2. CASE q # p
    BY <1>1, <1>3, <2>2, Facts
  <2> QED BY <2>1, <2>2
<1>8. QueueOK(Now', live', revoking') /\ ParentsOK' /\ AlwaysWoken' /\ YieldStep
  <2>1. /\ m.workers = workers' /\ m.delayed = FALSE /\ m.parent = parent' /\ m.line = line'
        /\ m.deferred = deferred' /\ phase' = phase
    BY <1>1, <1>3
  <2> QED BY <1>4, <1>5, <1>6, <1>7, <2>1, DrainLands DEF Lands
<1>9. RestOK /\ canonical \in [Requests -> Requests \cup {Absent}] /\ r # Absent /\ p # Absent
  BY Facts, DemandSeries DEF RestOK
<1>10. RestOK'
  <2>1. revoking' \subseteq live' /\ phase' # "down"
    BY <1>1, <1>9 DEF RestOK
  <2> QED BY <1>1, <1>2, <1>4, <1>9, <2>1 DEF RestOK
<1>11. ASSUME NEW q \in Requests PROVE AnswerOK(q)'
  <2>1. \A o \in Requests : AnswerOK(o)
    BY DEF IInv
  <2>2. r \notin live
    BY <1>1, <1>9, <2>1 DEF AnswerOK
  <2>3. canonical'[r] = p /\ \A o \in Requests \ {r} : canonical'[o] = canonical[o]
    BY <1>1, <1>9
  <2>4. p # r => p \in live /\ canonical[p] = p
    BY <1>1, <2>1 DEF AnswerOK
  <2>5. canonical'[p] = p
    BY <2>3, <2>4
  <2>6. CASE q = r
    <3>1. q \in live' => q = p
      BY <1>1, <2>2, <2>6
    <3> QED BY <1>1, <2>3, <2>5, <2>6, <3>1 DEF AnswerOK
  <2>7. CASE q # r
    <3>1. AnswerOK(q) /\ canonical'[q] = canonical[q] /\ canonical[q] \in Requests \cup {Absent}
      BY <1>9, <2>1, <2>3, <2>7
    <3>2. q \in live' => q \in live
      BY <1>1, <2>7
    <3>3. CASE canonical[q] = Absent
      BY <3>1, <3>2, <3>3 DEF AnswerOK
    <3>4. CASE canonical[q] # Absent
      <4> DEFINE c == canonical[q]
      <4>1. c \in Requests /\ canonical[c] = c /\ c # r
        BY <1>1, <1>9, <3>1, <3>4 DEF AnswerOK
      <4>2. canonical'[c] = c /\ (c \in live' => c \in live)
        BY <1>1, <2>3, <4>1
      <4>3. c \in live => /\ Demand[q].first..Demand[q].last \subseteq Whole(parent[c])
                          /\ Demand[q].trusted => parent[c].trusted
        BY <3>1, <3>4 DEF AnswerOK
      <4>4. c \in live => /\ Demand[q].first..Demand[q].last \subseteq Whole(parent'[c])
                          /\ Demand[q].trusted => parent'[c].trusted
        BY <1>1, <4>1, <4>3
      <4> HIDE DEF c
      <4>5. canonical'[q] = c /\ (q \in live' => canonical'[q] = q)
        BY <3>1, <3>2 DEF AnswerOK, c
      <4> QED BY <4>2, <4>4, <4>5 DEF AnswerOK
    <3> QED BY <3>3, <3>4
  <2> QED BY <2>6, <2>7
<1> QED BY <1>8, <1>10, <1>11, InvByParts

\* What _merge_request_interest makes of a parent, field by field.
JoinedIs(st, d, s) ==
  /\ s \in Parent
  /\ s.first = st.first /\ s.last = st.last /\ s.cell = st.cell
  /\ s.reasons = st.reasons \cup {d.reason}
  /\ s.priority = Lesser(st.priority, Priority(d.reason))
  /\ (s.trusted <=> st.trusted \/ d.trusted)
  /\ s.cancelled = st.cancelled /\ s.stale = st.stale
  /\ s.completed = st.completed /\ s.total = st.total
  /\ s.fetched = st.fetched /\ s.weak = st.weak /\ s.verdict = st.verdict

\* Every reason has its priority.
LEMMA PrioritiesAre ==
  Priorities \in SUBSET Nat /\ \A x \in Reasons : Priority(x) \in Priorities
BY DEF Priorities, Reasons, Priority

\* Joined, field by field.
LEMMA JoinedParent ==
  ASSUME NEW st \in Parent, NEW d \in DemandType
  PROVE  JoinedIs(st, d, Joined(st, d))
<1> DEFINE w == WithInterest(st, d)
           s == Joined(st, d)
<1>1. d.owner \in Owners \cup {Absent} /\ d.reason \in Reasons /\ d.trusted \in BOOLEAN
  BY DEF DemandType
<1>2. w = [st EXCEPT !.leases = st.leases \cup ({d.owner} \ {Absent}),
                     !.persistent = st.persistent \/ d.owner = Absent]
  BY DEF WithInterest, Parent
<1>3. st.leases \cup ({d.owner} \ {Absent}) \in SUBSET Owners
  BY <1>1 DEF Parent
<1>4. w \in Parent
  BY <1>2, <1>3 DEF Parent
<1>5. /\ w.first = st.first /\ w.last = st.last /\ w.cell = st.cell /\ w.reasons = st.reasons
      /\ w.priority = st.priority /\ w.trusted = st.trusted /\ w.cancelled = st.cancelled
      /\ w.stale = st.stale /\ w.completed = st.completed /\ w.total = st.total
      /\ w.fetched = st.fetched /\ w.weak = st.weak /\ w.verdict = st.verdict
  BY <1>2 DEF Parent
<1> HIDE DEF w
<1>6. s = [w EXCEPT !.trusted = w.trusted \/ d.trusted,
                    !.reasons = w.reasons \cup {d.reason},
                    !.priority = Lesser(w.priority, Priority(d.reason))]
  BY <1>4 DEF Joined, w, Parent
<1>7. /\ w.reasons \cup {d.reason} \in SUBSET Reasons
      /\ Lesser(w.priority, Priority(d.reason)) \in Nat
  BY <1>1, <1>4, PrioritiesAre DEF Parent, Lesser
<1> HIDE DEF s
<1>8. s \in Parent
  BY ONLY <1>4, <1>6, <1>7 DEF Parent
<1>9. /\ s.first = w.first /\ s.last = w.last /\ s.cell = w.cell
      /\ s.reasons = w.reasons \cup {d.reason}
      /\ s.priority = Lesser(w.priority, Priority(d.reason))
      /\ (s.trusted <=> w.trusted \/ d.trusted)
      /\ s.cancelled = w.cancelled /\ s.stale = w.stale
      /\ s.completed = w.completed /\ s.total = w.total
      /\ s.fetched = w.fetched /\ s.weak = w.weak /\ s.verdict = w.verdict
  BY ONLY <1>4, <1>6 DEF Parent
<1>10. JoinedIs(st, d, s)
  BY <1>5, <1>8, <1>9 DEF JoinedIs
<1> QED BY <1>10 DEF s

\* Pushing the ready chunks again changes their order only.
LEMMA RepushedKeeps ==
  ASSUME NEW p \in Requests, line \in Seq(Requests \X Nat), IsFiniteSet(SlotsOf(line, p)), NEW state
  PROVE  Repushed(p, state) \in Seq(Requests \X Nat) /\ ToSet(Repushed(p, state)) = ToSet(line)
<1> DEFINE again == SlotsOf(line, p) \ Held(p)
           backwards == IF NewestFirst(state.reasons) THEN ~state.reversed ELSE state.reversed
           kept == Without(line, {p} \X again)
           back == ChunksInOrder(p, again, backwards)
<1>1. ToSet(line) \in SUBSET (Requests \X Nat)
  BY LineTyped
<1>2. again \in SUBSET Nat /\ IsFiniteSet(again)
  BY <1>1, SlotsAre, FS_Subset
<1>3. back \in Seq(Requests \X Nat) /\ ToSet(back) = {p} \X again
  <2> HIDE DEF again, backwards
  <2> QED BY <1>2, ChunksOfSlots
<1>4. kept \in Seq(Requests \X Nat) /\ ToSet(kept) = ToSet(line) \ ({p} \X again)
  BY WithoutKeeps
<1>5. {p} \X again \subseteq ToSet(line)
  <2>1. ASSUME NEW i \in again PROVE <<p, i>> \in ToSet(line)
    BY <1>1, SlotsAre
  <2> HIDE DEF again
  <2> QED BY <2>1
<1>6. Repushed(p, state) = kept \o back
  BY DEF Repushed
<1> HIDE DEF kept, back, again
<1> DEFINE P == {p} \X again
<1> HIDE DEF P
<1>7. ToSet(kept) = ToSet(line) \ P /\ ToSet(back) = P /\ P \subseteq ToSet(line)
  BY <1>3, <1>4, <1>5 DEF P
<1>8. kept \o back \in Seq(Requests \X Nat) /\ ToSet(kept \o back) = ToSet(kept) \cup ToSet(back)
  BY <1>3, <1>4, JoinAdds
<1> QED BY <1>6, <1>7, <1>8

\* A demand that its range, its lane and its contract let join a parent.
JoinKeepsCond(r, p) ==
  /\ p \in live /\ ~parent[p].stale /\ Covers(parent[p], Demand[r])
  /\ NeedsStrongerFinality(parent[p], Demand[r]) =>
       task[p].stage = "none" /\ parent[p].completed = 0

\* submit joins a parent that covers the demand.
LEMMA JoinKeeps ==
  ASSUME IInv, NEW r \in Requests, NEW p \in Requests, phase = "up", canonical[r] = Absent,
         JoinKeepsCond(r, p), JoinParent(r, p), workers' = workers, phase' = phase,
         revoking' = revoking, revoked' = revoked
  PROVE  IInv' /\ YieldStep
<1> DEFINE st == parent[p]
           d == Demand[r]
           s == Joined(st, d)
<1>1. /\ p \in live /\ ~st.stale /\ Covers(st, d)
      /\ NeedsStrongerFinality(st, d) => task[p].stage = "none" /\ st.completed = 0
  BY DEF JoinKeepsCond
<1>2. /\ line \in Seq(Requests \X Nat) /\ ToSet(line) \in SUBSET (Requests \X Nat)
      /\ deferred \in SUBSET (Requests \X Nat) /\ parent \in [Requests -> Parent]
      /\ OwnOK(Now, live, revoking, p) /\ Now \in QueueType /\ live \in SUBSET Requests
      /\ ParentOK(st, task[p], SlotsOf(line, p), p \in revoking) /\ RestOK
      /\ d \in DemandType
  BY <1>1, Facts, DemandSeries
<1>3. st \in Parent /\ JoinedIs(st, d, s)
  BY <1>2, JoinedParent
<1>4. /\ canonical' = [canonical EXCEPT ![r] = p] /\ parent' = [parent EXCEPT ![p] = s]
      /\ line' = IF s.priority < parent[p].priority THEN Repushed(p, s) ELSE line
      /\ live' = live /\ deferred' = deferred /\ future' = future
  BY DEF JoinParent
<1>5. PICK tokens \in {0, AmpleTokens} :
        /\ faults' = faults + (IF tokens = 0 THEN 1 ELSE 0) /\ faults' <= MaxFaults
        /\ Lands(Queue(tokens))
  BY DEF JoinParent, Drain, DrainAfter, Lands
<1> DEFINE m == Queue(tokens)
<1> HIDE DEF s
<1>6. line' \in Seq(Requests \X Nat) /\ ToSet(line') = ToSet(line)
  <2>1. IsFiniteSet(SlotsOf(line, p))
    <3>1. SlotsOf(line, p) \subseteq Whole(st) /\ st.first \in Int /\ st.last \in Int
      BY <1>2, <1>3 DEF ParentOK, CountOK, Parent
    <3> QED BY <3>1, FS_Interval, FS_Subset DEF Whole
  <2>2. Repushed(p, s) \in Seq(Requests \X Nat) /\ ToSet(Repushed(p, s)) = ToSet(line)
    BY <1>2, <2>1, RepushedKeeps
  <2> QED BY <1>2, <1>4, <2>2
<1>7. \A q \in Requests : SlotsOf(line', q) = SlotsOf(line, q)
  BY <1>6 DEF SlotsOf
<1>8. /\ parent' \in [Requests -> Parent] /\ parent'[p] = s
      /\ \A q \in Requests \ {p} : parent'[q] = parent[q]
  BY <1>2, <1>3, <1>4 DEF JoinedIs
<1>9. /\ m \in QueueType
      /\ m.active = active /\ m.pending = pending /\ m.task = task /\ m.last = lastCell
      /\ m.timer = timer /\ m.workers = workers /\ m.parent = parent' /\ m.line = line'
      /\ m.deferred = deferred' /\ m.tokens = tokens /\ m.delayed = FALSE
  <2>1. tokens \in Nat /\ deferred' \in SUBSET (Requests \X Nat)
    BY <1>2, <1>4, <1>5, Ample
  <2> QED BY <1>2, <1>6, <1>8, <2>1, QueueFields
<1> HIDE DEF m
<1>10. /\ s.reasons # {} /\ s.priority \in Priorities /\ s.cell \in Cells
  <2>1. st.priority \in Priorities /\ st.cell \in Cells /\ Priority(d.reason) \in Priorities
    BY <1>2, PrioritiesAre DEF ParentOK, DemandType
  <2> QED BY <1>3, <2>1 DEF JoinedIs, Lesser
<1>11. (d.trusted \/ st.trusted => s.trusted) /\ Whole(s) = Whole(st)
  BY <1>3 DEF JoinedIs, Whole
<1>12. Demand[r].first..Demand[r].last \subseteq Whole(s)
  <2>1. d.first \in Nat /\ d.last \in Nat /\ st.first \in Nat /\ st.last \in Nat
    BY <1>2, <1>3 DEF DemandType, Parent
  <2>2. st.first <= d.first /\ d.last <= st.last
    BY <1>1 DEF Covers
  <2>3. \A i \in d.first..d.last : i \in st.first..st.last
    BY ONLY <2>1, <2>2
  <2> QED BY <1>11, <2>3 DEF Whole
<1>13. ParentOK(s, task[p], SlotsOf(line', p), p \in revoking)
  <2>0. SlotsOf(line', p) = SlotsOf(line, p) /\ ~st.cancelled
    BY <1>1, <1>2, <1>7 DEF ParentOK, CancelOK
  <2>1. CancelOK(s, task[p], SlotsOf(line, p), p \in revoking)
    BY <1>2, <1>3, <2>0 DEF ParentOK, CancelOK, JoinedIs
  <2>2. s.trusted => s.weak = {}
    <3>1. CASE NeedsStrongerFinality(st, d)
      <4>1. st.fetched = {} /\ st.weak \subseteq st.fetched
        BY <1>1, <1>2, <3>1 DEF ParentOK, CountOK
      <4> QED BY <1>3, <4>1 DEF JoinedIs
    <3>2. CASE ~NeedsStrongerFinality(st, d)
      BY <1>2, <1>3, <3>2 DEF JoinedIs, ParentOK, CountOK, NeedsStrongerFinality
    <3> QED BY <3>1, <3>2
  <2>3. CountOK(s, task[p], SlotsOf(line, p))
    BY <1>2, <1>3, <1>11, <2>0, <2>2 DEF ParentOK, CountOK, JoinedIs
  <2> QED BY <1>10, <2>0, <2>1, <2>3 DEF ParentOK
<1>14. OwnOK(m, live', revoking', p)
  <2>1. task[p].stage = "fetching" => s.trusted = st.trusted
    BY <1>1, <1>3 DEF NeedsStrongerFinality, JoinedIs, Parent
  <2>2. s.cancelled = st.cancelled
    BY <1>3 DEF JoinedIs
  <2> QED BY <1>2, <1>4, <1>7, <1>8, <1>9, <1>10, <2>1, <2>2, NowFields DEF OwnOK
<1>15. /\ deferred' \subseteq ToSet(line') /\ \A c \in deferred' : ~parent'[c[1]].cancelled
  <2>1. deferred \subseteq ToSet(line) /\ \A c \in deferred : ~parent[c[1]].cancelled
    BY <1>2 DEF RestOK
  <2>2. s.cancelled = st.cancelled
    BY <1>3 DEF JoinedIs
  <2> QED BY <1>2, <1>4, <1>6, <1>8, <2>1, <2>2
<1>16. IsBackground(s.reasons) => IsBackground(st.reasons)
  BY <1>2, <1>3 DEF IsBackground, JoinedIs, ParentOK
<1>17. faults' \in 0..MaxFaults /\ future' \in [Requests -> Outcomes \cup {"open"}]
  BY <1>2, <1>4, <1>5, SchedulerAssumption DEF RestOK
<1>18. Answers(r, p, m)
  <2>1. live' = live \cup {p}
    BY <1>1, <1>4
  <2> QED BY <1>1, <1>4, <1>7, <1>8, <1>9, <1>11, <1>12, <1>13, <1>14, <1>15, <1>16, <1>17, <2>1 DEF Answers
<1> QED BY <1>5, <1>18, AnswersKeep DEF m

\* A line with more chunks of one parent.
Grown(m, l, p, more) ==
  /\ m \in Seq(Requests \X Nat) /\ ToSet(m) = ToSet(l) \cup ({p} \X more)
  /\ SlotsOf(m, p) = SlotsOf(l, p) \cup more
  /\ \A q \in Requests \ {p} : SlotsOf(m, q) = SlotsOf(l, q)

\* New chunks of one parent at the end of the line.
LEMMA LineGrown ==
  ASSUME NEW l \in Seq(Requests \X Nat), NEW p \in Requests, NEW more \in SUBSET Nat,
         IsFiniteSet(more), NEW reversed
  PROVE  Grown(l \o ChunksInOrder(p, more, reversed), l, p, more)
<1> DEFINE back == ChunksInOrder(p, more, reversed)
           m == l \o back
<1>1. back \in Seq(Requests \X Nat) /\ ToSet(back) = {p} \X more
  BY ChunksOfSlots
<1> HIDE DEF back
<1>2. m \in Seq(Requests \X Nat) /\ ToSet(m) = ToSet(l) \cup ({p} \X more)
  <2>1. m \in Seq(Requests \X Nat) /\ ToSet(m) = ToSet(l) \cup ToSet(back)
    BY <1>1, JoinAdds
  <2> QED BY <1>1, <2>1
<1> HIDE DEF m
<1>3. ToSet(l) \in SUBSET (Requests \X Nat) /\ ToSet(m) \in SUBSET (Requests \X Nat)
  BY <1>2, LineTyped
<1>4. ASSUME NEW q, NEW i PROVE i \in SlotsOf(m, q) <=> i \in SlotsOf(l, q) \/ (q = p /\ i \in more)
  <2>1. i \in SlotsOf(m, q) <=> <<q, i>> \in ToSet(m)
    BY <1>3, SlotsAre
  <2>2. i \in SlotsOf(l, q) <=> <<q, i>> \in ToSet(l)
    BY <1>3, SlotsAre
  <2>3. <<q, i>> \in {p} \X more <=> q = p /\ i \in more
    OBVIOUS
  <2> QED BY <1>2, <2>1, <2>2, <2>3
<1>5. SlotsOf(m, p) = SlotsOf(l, p) \cup more
  BY <1>4
<1>6. ASSUME NEW q \in Requests \ {p} PROVE SlotsOf(m, q) = SlotsOf(l, q)
  <2>1. \A i : i \in SlotsOf(m, q) <=> i \in SlotsOf(l, q)
    BY <1>4
  <2> QED BY <2>1
<1> QED BY <1>2, <1>5, <1>6 DEF m, back, Grown

\* A parent that has fetched nothing, widened by a demand, is to fetch the whole
\* of its new range.
WidenedIs(st, d, s) ==
  /\ s \in Parent
  /\ s.first <= d.first /\ d.last <= s.last /\ s.first <= s.last
  /\ s.first <= st.first /\ st.last <= s.last
  /\ (s.trusted <=> st.trusted \/ d.trusted)
  /\ ~s.cancelled /\ s.reasons # {} /\ s.cell \in Cells
  /\ IsFiniteSet(Whole(s)) /\ Whole(s) \in SUBSET Nat /\ Whole(s) # {}
  /\ \A tk : tk.stage = "none" => ParentOK(s, tk, Whole(s), FALSE)

\* Widened makes a parent that is in order.
LEMMA WidenedParent ==
  ASSUME NEW st \in Parent, NEW d \in DemandType, d.first <= d.last, ~st.cancelled,
         st.completed = 0, st.fetched = {}, st.weak = {},
         Lesser(st.priority, Priority(d.reason)) \in Priorities
  PROVE  WidenedIs(st, d, Widened(st, d))
<1> DEFINE j == Joined(st, d)
           first == Lesser(st.first, d.first)
           last == Greater(st.last, d.last)
           s == Widened(st, d)
<1>1. /\ d.first \in Nat /\ d.last \in Nat /\ d.cell \in Cells /\ st.first \in Nat /\ st.last \in Nat
  BY DEF DemandType, Parent
<1>2. /\ first \in Nat /\ last \in Nat /\ first <= d.first /\ first <= st.first
      /\ d.last <= last /\ st.last <= last /\ first <= last /\ last - first + 1 \in Nat
  BY <1>1 DEF Lesser, Greater
<1>3. JoinedIs(st, d, j)
  BY JoinedParent
<1> HIDE DEF first, last, j
<1>4. s = [j EXCEPT !.first = first, !.last = last, !.cell = d.cell,
                    !.reversed = NewestFirst(j.reasons), !.total = last - first + 1]
  BY DEF Widened, j, first, last
<1>5. j \in Parent /\ NewestFirst(j.reasons) \in BOOLEAN /\ d.cell \in Cells \cup {Absent}
  BY <1>1, <1>3 DEF JoinedIs, NewestFirst
<1> HIDE DEF s
<1>6. s \in Parent
  BY ONLY <1>2, <1>4, <1>5 DEF Parent
<1>7. /\ s.first = first /\ s.last = last /\ s.cell = d.cell /\ s.total = last - first + 1
      /\ s.reasons = j.reasons /\ s.priority = j.priority /\ s.trusted = j.trusted
      /\ s.cancelled = j.cancelled /\ s.completed = j.completed
      /\ s.fetched = j.fetched /\ s.weak = j.weak
  BY ONLY <1>2, <1>4, <1>5 DEF Parent
<1>8. /\ s.completed = 0 /\ s.fetched = {} /\ s.weak = {} /\ ~s.cancelled
      /\ s.reasons # {} /\ s.priority \in Priorities
      /\ (s.trusted <=> st.trusted \/ d.trusted)
  BY <1>3, <1>7 DEF JoinedIs
<1>9. IsFiniteSet(Whole(s)) /\ Cardinality(Whole(s)) = s.total /\ s.total \in Nat
  BY <1>2, <1>7, FS_Interval DEF Whole
<1>10. Whole(s) \in SUBSET Nat /\ Whole(s) # {}
  <2>1. first \in first..last /\ \A i \in first..last : i \in Nat
    BY ONLY <1>2
  <2> QED BY <1>7, <2>1 DEF Whole
<1>11. ASSUME NEW tk, tk.stage = "none" PROVE ParentOK(s, tk, Whole(s), FALSE)
  <2>1. CancelOK(s, tk, Whole(s), FALSE)
    BY <1>8, <1>11 DEF CancelOK
  <2>2. CountOK(s, tk, Whole(s))
    BY <1>8, <1>9, <1>11 DEF CountOK
  <2> QED BY <1>1, <1>7, <1>8, <2>1, <2>2 DEF ParentOK
<1>12. WidenedIs(st, d, s)
  BY <1>1, <1>2, <1>6, <1>7, <1>8, <1>9, <1>10, <1>11 DEF WidenedIs
<1> QED BY <1>12 DEF s

\* The ranges and the contract that a widened parent answers for.
LEMMA WidenedAnswers ==
  ASSUME NEW st \in Parent, NEW d \in DemandType, NEW s, WidenedIs(st, d, s)
  PROVE  /\ d.first..d.last \subseteq Whole(s) /\ Whole(st) \subseteq Whole(s)
         /\ d.trusted \/ st.trusted => s.trusted
<1>1. /\ s.first \in Nat /\ s.last \in Nat /\ d.first \in Nat /\ d.last \in Nat
      /\ st.first \in Nat /\ st.last \in Nat
      /\ s.first <= d.first /\ d.last <= s.last /\ s.first <= st.first /\ st.last <= s.last
  BY DEF WidenedIs, Parent, DemandType
<1>2. \A i \in d.first..d.last : i \in s.first..s.last
  BY ONLY <1>1
<1>3. \A i \in st.first..st.last : i \in s.first..s.last
  BY ONLY <1>1
<1> QED BY <1>2, <1>3 DEF Whole, WidenedIs

\* submit widens a pending parent that has fetched nothing.
LEMMA WidenKeeps ==
  ASSUME IInv, NEW r \in Requests, NEW p \in Requests, phase = "up", canonical[r] = Absent,
         p \in live, task[p].stage = "none", p \in ToSet(pending[Series(p)]),
         parent[p].completed = 0, WidenParent(r, p), workers' = workers, phase' = phase,
         revoking' = revoking, revoked' = revoked
  PROVE  IInv' /\ YieldStep
<1> DEFINE st == parent[p]
           d == Demand[r]
           s == Widened(st, d)
           thin == LineWithout(p)
<1>1. /\ line \in Seq(Requests \X Nat) /\ ToSet(line) \in SUBSET (Requests \X Nat)
      /\ deferred \in SUBSET (Requests \X Nat) /\ parent \in [Requests -> Parent]
      /\ OwnOK(Now, live, revoking, p) /\ Now \in QueueType /\ live \in SUBSET Requests
      /\ ParentOK(st, task[p], SlotsOf(line, p), p \in revoking) /\ RestOK
      /\ d \in DemandType
  BY Facts, DemandSeries
<1>2. p \notin revoking /\ ~st.cancelled /\ active[Series(p)] # p
  BY <1>1, NowFields DEF OwnOK
<1>3. st.fetched = {} /\ st.weak = {} /\ st.priority \in Priorities
  BY <1>1 DEF ParentOK, CountOK
<1>4. /\ canonical' = [canonical EXCEPT ![r] = p] /\ parent' = [parent EXCEPT ![p] = s]
      /\ line' = thin \o ChunksInOrder(p, Whole(s), s.reversed)
      /\ deferred' = {c \in deferred : c[1] # p}
      /\ live' = live /\ future' = future
  BY DEF WidenParent, Whole
<1>5. PICK tokens \in {0, AmpleTokens} :
        /\ faults' = faults + (IF tokens = 0 THEN 1 ELSE 0) /\ faults' <= MaxFaults
        /\ Lands(Queue(tokens))
  BY DEF WidenParent, Drain, DrainAfter, Lands
<1> DEFINE m == Queue(tokens)
<1>6. st \in Parent /\ WidenedIs(st, d, s)
  <2>1. d.first <= d.last
    BY SchedulerAssumption
  <2>2. Lesser(st.priority, Priority(d.reason)) \in Priorities
    BY <1>1, <1>3, PrioritiesAre DEF DemandType, Lesser
  <2>3. st \in Parent
    BY <1>1
  <2> HIDE DEF d, st
  <2> QED BY <1>1, <1>2, <1>3, <2>1, <2>2, <2>3, WidenedParent DEF st
<1> HIDE DEF s
<1>7. /\ s \in Parent /\ ~s.cancelled /\ s.reasons # {} /\ s.cell \in Cells
      /\ IsFiniteSet(Whole(s)) /\ Whole(s) \in SUBSET Nat /\ Whole(s) # {}
      /\ ParentOK(s, task[p], Whole(s), FALSE)
  BY <1>6 DEF WidenedIs
<1>8. /\ d.first..d.last \subseteq Whole(s) /\ Whole(st) \subseteq Whole(s)
      /\ d.trusted \/ st.trusted => s.trusted
  BY <1>1, <1>6, WidenedAnswers
<1>9. Thinned(thin, line, p, SlotsOf(line, p))
  BY <1>1, SlotsAre, LineThinned DEF LineWithout
<1> HIDE DEF thin
<1>10. Grown(line', thin, p, Whole(s))
  BY <1>4, <1>7, <1>9, LineGrown DEF Thinned
<1>11. /\ line' \in Seq(Requests \X Nat) /\ SlotsOf(line', p) = Whole(s)
       /\ \A q \in Requests \ {p} : SlotsOf(line', q) = SlotsOf(line, q)
       /\ ToSet(line') = (ToSet(line) \ ({p} \X SlotsOf(line, p))) \cup ({p} \X Whole(s))
  BY <1>9, <1>10 DEF Grown, Thinned
<1>12. /\ parent' \in [Requests -> Parent] /\ parent'[p] = s
       /\ \A q \in Requests \ {p} : parent'[q] = parent[q]
  BY <1>1, <1>4, <1>7
<1>13. /\ m \in QueueType
       /\ m.active = active /\ m.pending = pending /\ m.task = task /\ m.last = lastCell
       /\ m.timer = timer /\ m.workers = workers /\ m.parent = parent' /\ m.line = line'
       /\ m.deferred = deferred' /\ m.tokens = tokens /\ m.delayed = FALSE
  <2>1. tokens \in Nat /\ deferred' \in SUBSET (Requests \X Nat)
    BY <1>1, <1>4, <1>5, Ample
  <2> QED BY <1>1, <1>11, <1>12, <2>1, QueueFields
<1> HIDE DEF m
<1>14. ParentOK(parent'[p], task[p], SlotsOf(line', p), p \in revoking)
  <2>1. (p \in revoking) = FALSE
    BY <1>2
  <2> QED BY <1>7, <1>11, <1>12, <2>1
<1>15. OwnOK(m, live', revoking', p)
  BY <1>2, <1>4, <1>7, <1>11, <1>12, <1>13 DEF OwnOK, ParentOK
<1>16. deferred' \subseteq ToSet(line') /\ \A c \in deferred' : ~parent'[c[1]].cancelled
  <2>1. deferred \subseteq ToSet(line) /\ \A c \in deferred : ~parent[c[1]].cancelled
    BY <1>1 DEF RestOK
  <2>2. ASSUME NEW c \in deferred'
        PROVE  c \in deferred /\ c[1] # p /\ c[1] \in Requests /\ c \notin {p} \X SlotsOf(line, p)
    BY <1>1, <1>4
  <2>3. deferred' \subseteq ToSet(line')
    BY <1>11, <2>1, <2>2
  <2> QED BY <1>12, <2>1, <2>2, <2>3
<1>17. faults' \in 0..MaxFaults /\ future' \in [Requests -> Outcomes \cup {"open"}]
  BY <1>1, <1>4, <1>5, SchedulerAssumption DEF RestOK
<1>18. Answers(r, p, m)
  <2>1. live' = live \cup {p}
    BY <1>4
  <2> QED BY <1>4, <1>8, <1>11, <1>12, <1>13, <1>14, <1>15, <1>16, <1>17, <2>1 DEF Answers
<1> QED BY <1>5, <1>18, AnswersKeep DEF m

\* A new parent at the end of its series' pending list.
LEMMA ParentQueued ==
  ASSUME NEW q \in QueueType, NEW p \in Requests
  PROVE  LET m == [q EXCEPT !.pending[Series(p)] = Append(@, p)] IN
           /\ m \in QueueType /\ m.active = q.active /\ m.task = q.task
           /\ m.workers = q.workers /\ m.parent = q.parent /\ m.line = q.line
           /\ m.deferred = q.deferred /\ m.delayed = q.delayed
           /\ \A x \in SeriesKeys \ {Series(p)} : m.pending[x] = q.pending[x]
           /\ ToSet(m.pending[Series(p)]) = ToSet(q.pending[Series(p)]) \cup {p}
<1> DEFINE m == [q EXCEPT !.pending[Series(p)] = Append(@, p)]
           pen == [q.pending EXCEPT ![Series(p)] = Append(@, p)]
<1>1. q.pending \in [SeriesKeys -> Seq(Requests)] /\ Series(p) \in SeriesKeys
  BY DemandSeries DEF QueueType
<1>2. /\ Append(q.pending[Series(p)], p) \in Seq(Requests)
      /\ ToSet(Append(q.pending[Series(p)], p)) = ToSet(q.pending[Series(p)]) \cup {p}
  BY <1>1, AppendAdds
<1>3. pen \in [SeriesKeys -> Seq(Requests)]
  BY <1>1, <1>2
<1>4. m = [q EXCEPT !.pending = pen]
  BY DEF QueueType
<1>5. /\ \A x \in SeriesKeys \ {Series(p)} : pen[x] = q.pending[x]
      /\ pen[Series(p)] = Append(q.pending[Series(p)], p)
  BY <1>1
<1> HIDE DEF pen, m
<1>6. /\ m \in QueueType /\ m.active = q.active /\ m.task = q.task /\ m.pending = pen
      /\ m.workers = q.workers /\ m.parent = q.parent /\ m.line = q.line
      /\ m.deferred = q.deferred /\ m.delayed = q.delayed
  BY <1>3, <1>4 DEF QueueType
<1>7. /\ m \in QueueType /\ m.active = q.active /\ m.task = q.task
      /\ m.workers = q.workers /\ m.parent = q.parent /\ m.line = q.line
      /\ m.deferred = q.deferred /\ m.delayed = q.delayed
      /\ \A x \in SeriesKeys \ {Series(p)} : m.pending[x] = q.pending[x]
      /\ ToSet(m.pending[Series(p)]) = ToSet(q.pending[Series(p)]) \cup {p}
  BY <1>2, <1>5, <1>6
<1> QED BY <1>7, Zenon DEF m

\* submit opens a parent of its own.
LEMMA OpenKeeps ==
  ASSUME IInv, NEW r \in Requests, phase = "up", canonical[r] = Absent, OpenParent(r),
         workers' = workers, phase' = phase, revoking' = revoking, revoked' = revoked
  PROVE  IInv' /\ YieldStep
<1> DEFINE d == Demand[r]
           st == [NoParent EXCEPT !.first = d.first, !.last = d.last, !.priority = Priority(d.reason)]
           s == Widened(st, d)
<1>1. /\ line \in Seq(Requests \X Nat) /\ ToSet(line) \in SUBSET (Requests \X Nat)
      /\ deferred \in SUBSET (Requests \X Nat) /\ parent \in [Requests -> Parent]
      /\ OwnOK(Now, live, revoking, r) /\ Now \in QueueType /\ live \in SUBSET Requests
      /\ RestOK /\ AnswerOK(r)
      /\ d \in DemandType /\ r # Absent /\ Series(r) \in SeriesKeys
  BY Facts, DemandSeries DEF IInv
<1>2. r \notin live /\ r \notin revoking /\ parent[r] = NoParent
  BY <1>1, Facts DEF AnswerOK, RestOK
<1>3. task[r].stage = "none" /\ SlotsOf(line, r) = {} /\ active[Series(r)] # r
  BY <1>1, <1>2, NowFields DEF OwnOK
<1>4. /\ canonical' = [canonical EXCEPT ![r] = r] /\ parent' = [parent EXCEPT ![r] = s]
      /\ line' = line \o ChunksInOrder(r, Whole(s), s.reversed)
      /\ deferred' = deferred /\ live' = live \cup {r}
      /\ future' = [future EXCEPT ![r] = "open"]
  BY DEF OpenParent, Opened, Whole
<1>5. PICK tokens \in {0, AmpleTokens} :
        /\ faults' = faults + (IF tokens = 0 THEN 1 ELSE 0) /\ faults' <= MaxFaults
        /\ Lands([Queue(tokens) EXCEPT !.pending[Series(r)] = Append(@, r)])
  BY DEF OpenParent, Drain, DrainAfter, Lands
<1> DEFINE q0 == Queue(tokens)
           m == [q0 EXCEPT !.pending[Series(r)] = Append(@, r)]
<1>6. WidenedIs(st, d, s)
  <2>1. d.first <= d.last /\ d.first \in Nat /\ d.last \in Nat /\ d.reason \in Reasons
    BY <1>1, SchedulerAssumption DEF DemandType
  <2>2. Priority(d.reason) \in Priorities /\ Priority(d.reason) \in Nat
    BY <2>1, PrioritiesAre
  <2> HIDE DEF d
  <2>3. /\ st \in Parent /\ ~st.cancelled /\ st.completed = 0 /\ st.fetched = {} /\ st.weak = {}
        /\ st.priority = Priority(d.reason)
    BY <2>1, <2>2, NoParentTyped DEF NoParent, Parent
  <2>4. Lesser(st.priority, Priority(d.reason)) \in Priorities
    BY <2>2, <2>3 DEF Lesser
  <2> HIDE DEF st
  <2> QED BY <1>1, <2>1, <2>3, <2>4, WidenedParent
<1>7. /\ s \in Parent /\ ~s.cancelled /\ s.reasons # {} /\ s.cell \in Cells
      /\ IsFiniteSet(Whole(s)) /\ Whole(s) \in SUBSET Nat /\ Whole(s) # {}
      /\ ParentOK(s, task[r], Whole(s), FALSE)
  BY <1>3, <1>6 DEF WidenedIs
<1>8. d.first..d.last \subseteq Whole(s) /\ (d.trusted => s.trusted)
  <2>1. st \in Parent
    <3>1. d.first \in Nat /\ d.last \in Nat /\ Priority(d.reason) \in Nat
      BY <1>1, PrioritiesAre DEF DemandType
    <3> HIDE DEF d
    <3> QED BY <3>1, NoParentTyped DEF Parent
  <2> HIDE DEF st, s, d
  <2> QED BY <1>1, <1>6, <2>1, WidenedAnswers
<1> HIDE DEF s, st
<1>9. Grown(line', line, r, Whole(s))
  BY <1>1, <1>4, <1>7, LineGrown
<1>10. /\ line' \in Seq(Requests \X Nat) /\ SlotsOf(line', r) = Whole(s)
       /\ \A q \in Requests \ {r} : SlotsOf(line', q) = SlotsOf(line, q)
       /\ ToSet(line) \subseteq ToSet(line')
  BY <1>3, <1>9 DEF Grown
<1>11. /\ parent' \in [Requests -> Parent] /\ parent'[r] = s
       /\ \A q \in Requests \ {r} : parent'[q] = parent[q]
  BY <1>1, <1>4, <1>7
<1>12. /\ q0 \in QueueType
       /\ q0.active = active /\ q0.pending = pending /\ q0.task = task /\ q0.last = lastCell
       /\ q0.timer = timer /\ q0.workers = workers /\ q0.parent = parent' /\ q0.line = line'
       /\ q0.deferred = deferred' /\ q0.tokens = tokens /\ q0.delayed = FALSE
  <2>1. tokens \in Nat /\ deferred' \in SUBSET (Requests \X Nat)
    BY <1>1, <1>4, <1>5, Ample
  <2> QED BY <1>1, <1>10, <1>11, <2>1, QueueFields
<1> HIDE DEF q0
<1>13. /\ m \in QueueType /\ m.active = q0.active /\ m.task = q0.task
       /\ m.workers = q0.workers /\ m.parent = q0.parent /\ m.line = q0.line
       /\ m.deferred = q0.deferred /\ m.delayed = q0.delayed
       /\ \A x \in SeriesKeys \ {Series(r)} : m.pending[x] = q0.pending[x]
       /\ ToSet(m.pending[Series(r)]) = ToSet(q0.pending[Series(r)]) \cup {r}
  BY <1>12, ParentQueued, Zenon
<1>14. Lands(m)
  BY <1>5 DEF m, q0
<1> HIDE DEF m
<1>15. /\ m \in QueueType /\ m.active = active /\ m.task = task /\ m.workers = workers
       /\ m.parent = parent' /\ m.line = line' /\ m.deferred = deferred' /\ m.delayed = FALSE
       /\ \A x \in SeriesKeys \ {Series(r)} : m.pending[x] = pending[x]
       /\ ToSet(m.pending[Series(r)]) = ToSet(pending[Series(r)]) \cup {r}
  BY <1>12, <1>13
<1>16. \A x \in SeriesKeys : \A q \in Requests \ {r} :
         q \in ToSet(m.pending[x]) <=> q \in ToSet(pending[x])
  BY <1>15
<1>17. ParentOK(parent'[r], task[r], SlotsOf(line', r), r \in revoking)
  <2>1. (r \in revoking) = FALSE
    BY <1>2
  <2> QED BY <1>7, <1>10, <1>11, <2>1
<1>18. OwnOK(m, live', revoking', r)
  <2>1. r \in live' /\ r \notin revoking' /\ r \in ToSet(m.pending[Series(r)])
    BY <1>2, <1>4, <1>15
  <2> QED BY <1>3, <1>7, <1>10, <1>11, <1>15, <2>1 DEF OwnOK, ParentOK
<1>19. deferred' \subseteq ToSet(line') /\ \A c \in deferred' : ~parent'[c[1]].cancelled
  <2>1. deferred \subseteq ToSet(line) /\ \A c \in deferred : ~parent[c[1]].cancelled
    BY <1>1 DEF RestOK
  <2> QED BY <1>1, <1>4, <1>7, <1>10, <1>11, <2>1
<1>20. faults' \in 0..MaxFaults /\ future' \in [Requests -> Outcomes \cup {"open"}]
  BY <1>1, <1>4, <1>5, SchedulerAssumption DEF RestOK
<1>21. Whole(parent[r]) \subseteq Whole(s) /\ ~parent[r].trusted
  <2>1. Whole(NoParent) = {} /\ ~NoParent.trusted
    BY DEF NoParent, Whole
  <2> QED BY <1>2, <2>1
<1>22. Answers(r, r, m)
  BY <1>3, <1>4, <1>8, <1>10, <1>11, <1>15, <1>16, <1>17, <1>18, <1>19, <1>20, <1>21 DEF Answers
<1> QED BY <1>14, <1>22, AnswersKeep

\* submit, whichever parent it answers with.
LEMMA SubmitKeeps ==
  ASSUME IInv, NEW r \in Requests, Submit(r) PROVE IInv' /\ YieldStep
<1>1. /\ phase = "up" /\ canonical[r] = Absent
      /\ workers' = workers /\ phase' = phase /\ revoking' = revoking /\ revoked' = revoked
  BY DEF Submit
<1>2. CASE RejectSubmit(r)
  BY <1>1, <1>2, RejectSubmitKeeps
<1>3. CASE JoinsActive(r) /\ JoinParent(r, active[Series(r)])
  <2> DEFINE p == active[Series(r)]
  <2>1. /\ p # Absent /\ ~parent[p].stale /\ ~parent[p].cancelled
        /\ Covers(parent[p], Demand[r]) /\ ~NeedsStrongerFinality(parent[p], Demand[r])
    BY <1>3 DEF JoinsActive, Series
  <2>2. p \in Requests
    BY <2>1, DemandSeries, Facts
  <2>3. /\ OwnOK(Now, live, revoking, p) /\ Series(p) = Series(r)
    BY <2>2, DemandSeries, Facts
  <2>4. p \in live
    BY <2>3, NowFields DEF OwnOK
  <2>5. JoinKeepsCond(r, p)
    BY <2>1, <2>4 DEF JoinKeepsCond
  <2> HIDE DEF p
  <2> QED BY <1>1, <1>3, <2>2, <2>5, JoinKeeps DEF p
<1>4. CASE Taken(r) # {} /\ ~JoinsActive(r)
           /\ LET p == pending[Series(r)][Min(Taken(r))] IN
                IF JoinsPending(r, p) THEN JoinParent(r, p) ELSE WidenParent(r, p)
  <2> DEFINE i == Min(Taken(r))
             p == pending[Series(r)][i]
  <2>1. Taken(r) \in SUBSET Nat /\ pending[Series(r)] \in Seq(Requests) /\ Series(r) \in SeriesKeys
    BY DemandSeries, Facts DEF Taken
  <2>2. i \in Taken(r)
    <3>1. \E x \in Taken(r) : \A y \in Taken(r) : x <= y
      BY <1>4, <2>1, MinExists
    <3> QED BY <3>1 DEF Min
  <2>3. /\ i \in DOMAIN pending[Series(r)]
        /\ p \in live /\ ~parent[p].stale /\ (JoinsPending(r, p) \/ WidensPending(r, p))
    BY <2>2 DEF Taken
  <2> HIDE DEF i
  <2>4. p \in Requests /\ p \in ToSet(pending[Series(r)])
    BY <2>1, <2>3 DEF ToSet
  <2>5. Series(p) = Series(r) /\ OwnOK(Now, live, revoking, p)
    BY <2>1, <2>4, Facts
  <2>6. task[p].stage = "none" /\ p \in ToSet(pending[Series(p)])
    BY <2>4, <2>5, NowFields DEF OwnOK
  <2>7. IF JoinsPending(r, p) THEN JoinParent(r, p) ELSE WidenParent(r, p)
    BY <1>4 DEF i
  <2> HIDE DEF p
  <2>8. CASE JoinsPending(r, p)
    <3>1. parent[p].completed \in Nat
      BY <2>4, Facts DEF Parent
    <3>2. JoinKeepsCond(r, p)
      BY <2>3, <2>6, <2>8, <3>1 DEF JoinKeepsCond, JoinsPending
    <3> QED BY <1>1, <2>4, <2>7, <2>8, <3>2, JoinKeeps
  <2>9. CASE ~JoinsPending(r, p)
    <3>1. parent[p].completed = 0
      BY <2>3, <2>9 DEF WidensPending
    <3> QED BY <1>1, <2>3, <2>4, <2>6, <2>7, <2>9, <3>1, WidenKeeps
  <2> QED BY <2>8, <2>9
<1>5. CASE OpenParent(r)
  BY <1>1, <1>5, OpenKeeps
<1> QED BY <1>2, <1>3, <1>4, <1>5 DEF Submit

-----------------------------------------------------------------------------
(* The inductive invariant                                                 *)

\* The scheduler starts in order.
LEMMA InitGoesIn == Init => IInv
<1> SUFFICES ASSUME Init PROVE IInv
  OBVIOUS
<1>1. /\ workers \in Concurrency /\ phase = "up"
      /\ canonical = [r \in Requests |-> Absent]
      /\ live = {} /\ revoking = {} /\ revoked = {} /\ deferred = {}
      /\ parent = [p \in Requests |-> NoParent] /\ line = <<>>
      /\ task = [p \in Requests |-> Idle] /\ active = [s \in SeriesKeys |-> Absent]
      /\ pending = [s \in SeriesKeys |-> <<>>] /\ timer = FALSE
      /\ lastCell = [l \in Priorities \X BOOLEAN |-> Absent]
      /\ future = [p \in Requests |-> "none"] /\ faults = 0
  BY DEF Init, Priorities
<1>2. line \in Seq(Requests \X Nat) /\ ToSet(line) = {} /\ ToSet(<<>>) = {}
  BY <1>1 DEF ToSet
<1>3. \A p \in Requests : SlotsOf(line, p) = {}
  BY <1>2 DEF SlotsOf
<1>4. Idle \in TaskType /\ Idle.stage = "none"
  BY DEF Idle, TaskType
<1>5. /\ active \in [SeriesKeys -> Requests \cup {Absent}] /\ pending \in [SeriesKeys -> Seq(Requests)]
      /\ task \in [Requests -> TaskType]
      /\ lastCell \in [Priorities \X BOOLEAN -> Cells \cup {Absent}] /\ timer \in BOOLEAN
      /\ parent \in [Requests -> Parent] /\ deferred \in SUBSET (Requests \X Nat)
  <2>1. task \in [Requests -> TaskType]
    BY <1>1, <1>4
  <2>2. parent \in [Requests -> Parent]
    BY <1>1, NoParentTyped
  <2>3. <<>> \in Seq(Requests) /\ pending \in [SeriesKeys -> Seq(Requests)]
    BY <1>1
  <2>4. /\ active \in [SeriesKeys -> Requests \cup {Absent}] /\ timer \in BOOLEAN
        /\ deferred \in SUBSET (Requests \X Nat)
    BY <1>1
  <2>5. lastCell \in [Priorities \X BOOLEAN -> Cells \cup {Absent}]
    BY <1>1
  <2> QED BY <2>1, <2>2, <2>3, <2>4, <2>5
<1>6. Now \in QueueType
  BY <1>1, <1>2, <1>5 DEF Now, QueueType
<1>7. ASSUME NEW p \in Requests PROVE OwnOK(Now, live, revoking, p)
  <2>1. Series(p) \in SeriesKeys /\ p # Absent
    BY DemandSeries
  <2>2. /\ task[p].stage = "none" /\ active[Series(p)] # p
        /\ p \notin ToSet(pending[Series(p)]) /\ p \notin live
    BY <1>1, <1>2, <1>4, <2>1
  <2> QED BY <1>3, <2>2, NowFields DEF OwnOK
<1>8. SeriesOK(Now)
  BY <1>1, <1>2, NowFields DEF SeriesOK
<1>9. LanesOK(Now)
  <2>1. Tasks(Now) = {}
    BY <1>1, <1>4, NowFields DEF Tasks
  <2>2. Cardinality(Tasks(Now)) = 0
    BY <2>1, FS_EmptySet
  <2>3. Limit(Now) \in Nat
    BY <1>1, NowFields, SchedulerAssumption DEF Limit
  <2> QED BY <2>1, <2>2, <2>3 DEF LanesOK
<1>10. QueueOK(Now, live, revoking)
  BY <1>1, <1>6, <1>7, <1>8, <1>9, QueueByParent
<1>11. RestOK
  BY <1>1, SchedulerAssumption DEF RestOK, Outcomes
<1>12. ParentsOK
  BY <1>1 DEF ParentsOK
<1>13. \A r \in Requests : AnswerOK(r)
  BY <1>1 DEF AnswerOK
<1>14. AlwaysWoken
  BY <1>1 DEF AlwaysWoken
<1> QED BY <1>10, <1>11, <1>12, <1>13, <1>14 DEF IInv

\* Steps of others change nothing.
LEMMA StutterKeeps == ASSUME IInv, UNCHANGED vars PROVE IInv' /\ YieldStep
<1>1. /\ UNCHANGED <<workers, phase, canonical, live, parent, line, deferred>>
      /\ UNCHANGED <<task, active, pending, revoking, timer, lastCell, future, revoked, faults>>
  BY DEF vars
<1>2. Now' = Now
  BY <1>1 DEF Now
<1>3. QueueOK(Now', live', revoking')
  BY <1>1, <1>2 DEF IInv
<1>4. RestOK' /\ ParentsOK' /\ \A r \in Requests : AnswerOK(r)'
  BY <1>1 DEF IInv, RestOK, ParentsOK, AnswerOK
<1>5. AlwaysWoken'
  BY <1>1 DEF IInv, AlwaysWoken, HasTask
<1>6. YieldStep
  BY <1>1, YieldsStill
<1> QED BY <1>3, <1>4, <1>5, <1>6, InvByParts

\* Every step of the scheduler keeps the order and lets foreground work go first.
LEMMA StepKeeps == ASSUME IInv, [Next]_vars PROVE IInv' /\ YieldStep
<1>1. ASSUME NEW r \in Requests, Submit(r) PROVE IInv' /\ YieldStep
  BY <1>1, SubmitKeeps
<1>2. ASSUME NEW p \in Requests, NEW o \in Owners, AcquireDemand(p, o) PROVE IInv' /\ YieldStep
  BY <1>2, AcquireDemandKeeps
<1>3. ASSUME NEW p \in Requests, NEW o \in Owners, NEW cancel \in BOOLEAN, ReleaseDemand(p, o, cancel)
      PROVE  IInv' /\ YieldStep
  BY <1>3, ReleaseDemandKeeps
<1>4. ASSUME NEW o \in Owners, RevokeOwner(o) PROVE IInv' /\ YieldStep
  BY <1>4, RevokeOwnerKeeps
<1>5. ASSUME NEW p \in Requests, FinishCancellation(p) PROVE IInv' /\ YieldStep
  BY <1>5, FinishCancellationKeeps
<1>6. ASSUME NEW p \in Requests, TaskStep(p) PROVE IInv' /\ YieldStep
  <2>1. ASSUME NEW result \in Results, FinishChunk(p, result) PROVE IInv' /\ YieldStep
    BY <2>1, FinishChunkKeeps
  <2>2. ASSUME NEW ok \in BOOLEAN, FinishCommit(p, ok) PROVE IInv' /\ YieldStep
    BY <2>2, FinishCommitKeeps
  <2>3. CASE DeferChunk(p)
    BY <2>3, DeferChunkKeeps
  <2>4. CASE FinishWithdrawal(p)
    BY <2>4, FinishWithdrawalKeeps
  <2>5. CASE UnwindTask(p)
    BY <2>5, UnwindTaskKeeps
  <2> QED BY <1>6, <2>1, <2>2, <2>3, <2>4, <2>5 DEF TaskStep
<1>7. ASSUME NEW c \in deferred, BecomeEligible(c) PROVE IInv' /\ YieldStep
  BY <1>7, BecomeEligibleKeeps
<1>8. CASE RunScheduledDrain
  BY <1>8, RunScheduledDrainKeeps
<1>9. CASE Shutdown
  BY <1>9, ShutdownKeeps
<1>10. CASE EndShutdown
  BY <1>10, EndShutdownKeeps
<1>11. CASE UNCHANGED vars
  BY <1>11, StutterKeeps
<1> QED BY <1>1, <1>2, <1>3, <1>4, <1>5, <1>6, <1>7, <1>8, <1>9, <1>10, <1>11 DEF Next

\* Every reachable state of the scheduler has the queue, the parents and the
\* answers in order, between any two awaits of its handlers.
THEOREM SchedulerIsInOrder == Spec => []IInv
<1>1. Init => IInv
  BY InitGoesIn
<1>2. IInv /\ [Next]_vars => IInv'
  BY StepKeeps
<1> QED BY <1>1, <1>2, PTL DEF Spec

\* The types, and what a parent counts: _finish_chunk never completes more chunks
\* than the parent has.
LEMMA InOrderIsTyped == IInv => TypeOK
<1> SUFFICES ASSUME IInv PROVE TypeOK
  OBVIOUS
<1>1. RestOK /\ Now \in QueueType
  BY Facts
<1>2. ASSUME NEW p \in Requests PROVE parent[p].completed <= parent[p].total
  <2>1. CASE p \in live
    BY <2>1, Facts DEF ParentOK, CountOK
  <2>2. CASE p \notin live
    BY <2>2, Facts DEF NoParent
  <2> QED BY <2>1, <2>2
<1>3. /\ active \in [SeriesKeys -> Requests \cup {Absent}] /\ pending \in [SeriesKeys -> Seq(Requests)]
      /\ task \in [Requests -> TaskType] /\ parent \in [Requests -> Parent]
      /\ line \in Seq(Requests \X Nat)
  BY Facts
<1>4. lastCell \in [Priorities \X BOOLEAN -> Cells \cup {Absent}] /\ timer \in BOOLEAN
  BY NowParts
<1> QED BY <1>1, <1>2, <1>3, <1>4 DEF TypeOK, RestOK, TaskType, Priorities

\* A set whose elements are all the same.
LEMMA AtMostOne ==
  ASSUME NEW S, \A x, y \in S : x = y
  PROVE  Cardinality(S) <= 1
<1>1. CASE S = {}
  BY <1>1, FS_EmptySet
<1>2. CASE S # {}
  <2>1. PICK x \in S : S = {x}
    BY <1>2
  <2>2. Cardinality({x}) = 1
    BY FS_Singleton
  <2> QED BY <2>1, <2>2
<1> QED BY <1>1, <1>2

\* The lanes of _drain.
LEMMA InOrderHoldsLanes == IInv => LanesHold
<1> SUFFICES ASSUME IInv PROVE LanesHold
  OBVIOUS
<1> DEFINE tasks == {p \in Requests : HasTask(p)}
           back == {p \in tasks : IsBackground(parent[p].reasons)}
<1>1. LanesOK(Now) /\ ActiveOK(Now)
  BY Facts DEF QueueOK
<1>2. Tasks(Now) = tasks /\ Limit(Now) = IF workers = 1 THEN 2 ELSE workers
  BY NowFields DEF Tasks, HasTask, Limit
<1>3. Cardinality(tasks) <= (IF workers = 1 THEN 2 ELSE workers)
  BY <1>1, <1>2 DEF LanesOK
<1>4. Cardinality(back) <= 1
  <2>1. \A p, q \in back : p = q
    BY <1>1, <1>2, NowFields DEF LanesOK, ReasonsNow
  <2> HIDE DEF back
  <2> QED BY <2>1, AtMostOne
<1>5. \A p, q \in tasks :
        p # q /\ {task[p].stage, task[q].stage} \subseteq {"fetching", "committing"} =>
          Series(p) # Series(q)
  BY <1>1, NowFields DEF ActiveOK
<1> QED BY <1>3, <1>4, <1>5 DEF LanesHold

\* Whatever demands arrive, are joined, widened, withdrawn or deferred: the state is
\* typed, completed chunks never exceed the chunks a parent counts (_finish_chunk),
\* and _drain never starts more tasks than max_concurrency and the reserve allow,
\* two background tasks, or two chunks of one series.
THEOREM SchedulerHolds == Spec => []SchedulerInv
<1>1. IInv => SchedulerInv
  BY InOrderIsTyped, InOrderHoldsLanes DEF SchedulerInv
<1> QED BY <1>1, SchedulerIsInOrder, PTL

\* Every parent of _requests is on exactly one way to its answer: pending with chunks
\* left, the active parent of its series, withdrawn by its task (_defer_chunk) or
\* withdrawn by the caller of release_demand or revoke_owner.
THEOREM ParentsHavePaths == Spec => []EveryParentHasAPath
<1>1. IInv => EveryParentHasAPath
  <2> SUFFICES ASSUME IInv PROVE EveryParentHasAPath
    OBVIOUS
  <2>1. ASSUME NEW p \in live
        PROVE  Cardinality({w \in {"pending", "active", "withdrawing", "revoking"} :
                 \/ w = "pending" /\ p \in ToSet(pending[Series(p)])
                 \/ w = "active" /\ active[Series(p)] = p
                 \/ w = "withdrawing" /\ task[p].stage = "withdrawing"
                 \/ w = "revoking" /\ p \in revoking}) = 1
    <3> DEFINE W == {w \in {"pending", "active", "withdrawing", "revoking"} :
                 \/ w = "pending" /\ p \in ToSet(pending[Series(p)])
                 \/ w = "active" /\ active[Series(p)] = p
                 \/ w = "withdrawing" /\ task[p].stage = "withdrawing"
                 \/ w = "revoking" /\ p \in revoking}
    <3>1. p \in Requests /\ OwnOK(Now, live, revoking, p) /\ task[p] \in TaskType
      BY Facts
    <3>2. /\ task[p].stage \in {"fetching", "committing"} <=> active[Series(p)] = p
          /\ p \in ToSet(pending[Series(p)]) => p \notin revoking /\ task[p].stage = "none"
          /\ p \in ToSet(pending[Series(p)]) \/ task[p].stage # "none" \/ p \in revoking
          /\ task[p].stage # "none" => p \notin revoking
          /\ task[p].stage \in {"none", "fetching", "committing", "withdrawing"}
      BY <3>1, NowFields DEF OwnOK, TaskType
    <3>3. \E w : W = {w}
      <4>1. CASE p \in ToSet(pending[Series(p)])
        <5>1. W = {"pending"}
          BY <3>2, <4>1
        <5> QED BY <5>1
      <4>2. CASE p \in revoking
        <5>1. W = {"revoking"}
          BY <3>2, <4>2
        <5> QED BY <5>1
      <4>3. CASE task[p].stage = "withdrawing"
        <5>1. W = {"withdrawing"}
          BY <3>2, <4>3
        <5> QED BY <5>1
      <4>4. CASE task[p].stage \in {"fetching", "committing"}
        <5>1. W = {"active"}
          BY <3>2, <4>4
        <5> QED BY <5>1
      <4> QED BY <3>2, <4>1, <4>2, <4>3, <4>4
    <3> HIDE DEF W
    <3>4. Cardinality(W) = 1
      BY <3>3, FS_Singleton
    <3> QED BY <3>4 DEF W
  <2>2. ASSUME NEW s \in SeriesKeys
        PROVE  /\ active[s] # Absent => task[active[s]].stage \in {"fetching", "committing"}
               /\ \A p \in ToSet(pending[s]) :
                    p \in live /\ ~HasTask(p) /\ ~parent[p].cancelled /\ SlotsOf(line, p) # {}
    <3>1. /\ ActiveOK(Now) /\ PendingOK(Now, live, revoking)
          /\ active \in [SeriesKeys -> Requests \cup {Absent}]
      BY Facts DEF QueueOK
    <3>2. active[s] # Absent => task[active[s]].stage \in {"fetching", "committing"}
      BY <3>1, NowFields DEF ActiveOK
    <3>3. \A p \in ToSet(pending[s]) :
            p \in live /\ ~HasTask(p) /\ ~parent[p].cancelled /\ SlotsOf(line, p) # {}
      BY <3>1, NowFields DEF PendingOK, HasTask
    <3> QED BY <3>2, <3>3
  <2> QED BY <2>1, <2>2 DEF EveryParentHasAPath
<1> QED BY <1>1, SchedulerIsInOrder, PTL

\* _begin_request_cancel reaches only parents without leases that no demand without an
\* owner keeps, and neither submit nor acquire_demand adds a caller to one of them.
THEOREM OnlyUnwantedIsCancelled == Spec => []CancelledIsUnwanted
<1>1. IInv => CancelledIsUnwanted
  BY Facts DEF CancelledIsUnwanted, ParentOK, CancelOK
<1> QED BY <1>1, SchedulerIsInOrder, PTL

\* A parent that _finish_chunk commits as filled has fetched the range of every demand
\* that submit answered with it, under trusted finality where one asked for it.
THEOREM NothingIsFilledUnfetched == Spec => []FilledIsFetched
<1>1. IInv => FilledIsFetched
  <2> SUFFICES ASSUME IInv, NEW r \in Requests, canonical[r] # Absent, canonical[r] \in live,
                      task[canonical[r]].stage = "committing",
                      parent[canonical[r]].verdict = "filled"
               PROVE  /\ Demand[r].first..Demand[r].last \subseteq parent[canonical[r]].fetched
                      /\ Demand[r].trusted =>
                           parent[canonical[r]].weak \cap (Demand[r].first..Demand[r].last) = {}
    BY DEF FilledIsFetched
  <2> DEFINE p == canonical[r]
  <2>1. /\ Demand[r].first..Demand[r].last \subseteq Whole(parent[p])
        /\ Demand[r].trusted => parent[p].trusted
    BY DEF IInv, AnswerOK
  <2>2. ParentOK(parent[p], task[p], SlotsOf(line, p), p \in revoking)
    BY Facts
  <2>3. /\ Whole(parent[p]) \subseteq parent[p].fetched
        /\ parent[p].trusted => parent[p].weak = {}
    BY <2>2 DEF ParentOK, CountOK
  <2> QED BY <2>1, <2>3
<1> QED BY <1>1, SchedulerIsInOrder, PTL

\* While chunks wait, something that ends in _drain is under way or the drain timer is
\* armed: no wake-up is lost between handlers.
THEOREM DrainsAreWoken == Spec => []AlwaysWoken
<1>1. IInv => AlwaysWoken
  BY DEF IInv
<1> QED BY <1>1, SchedulerIsInOrder, PTL

\* _drain starts a background chunk only when no task and no waiting chunk is
\* foreground work.
THEOREM ForegroundComesFirst == Spec => BackgroundYields
<1>1. IInv /\ [Next]_vars =>
        [\A p \in Requests :
           task'[p].stage = "fetching" /\ task[p] # task'[p] /\ IsBackground(parent'[p].reasons) =>
             /\ \A q \in Requests : HasTask(q)' => IsBackground(parent'[q].reasons)
             /\ \A c \in ToSet(line') : IsBackground(parent'[c[1]].reasons)]_vars
  BY StepKeeps DEF YieldStep
<1> QED BY <1>1, SchedulerIsInOrder, PTL DEF Spec, BackgroundYields
=============================================================================
