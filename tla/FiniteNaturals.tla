---------------------------- MODULE FiniteNaturals ----------------------------
(* Least and greatest elements of sets of naturals, for the proof modules. *)
EXTENDS Integers, FiniteSets, TLAPS, FiniteSetTheorems, WellFoundedInduction
-----------------------------------------------------------------------------
\* A non-empty set of naturals has a least element: the sets of elements up to
\* some x are ordered by strict inclusion, which is well-founded on a finite set.
LEMMA MinExists ==
  ASSUME NEW T \in SUBSET Nat, T # {}
  PROVE  \E x \in T : \A y \in T : x <= y
<1>1. PICK n \in T : TRUE
  OBVIOUS
<1> DEFINE S == 0..n
           Below(x) == {y \in T : y <= x}
           Family == {Below(x) : x \in S \cap T}
<1>2. IsFiniteSet(S)
  BY FS_Interval
<1>3. Family \subseteq FiniteSubsetsOf(S) /\ Family # {}
  <2>1. ASSUME NEW x \in S \cap T PROVE Below(x) \in FiniteSubsetsOf(S)
    <3>1. ASSUME NEW y \in Below(x) PROVE y \in S
      <4>1. x \in Nat /\ x <= n /\ y \in Nat /\ y <= x /\ n \in Nat
        OBVIOUS
      <4>2. QED
        BY <4>1
    <3>2. QED
      BY <3>1, <1>2, FS_Subset DEF FiniteSubsetsOf
  <2>2. Below(n) \in Family
    OBVIOUS
  <2>3. QED
    BY <2>1, <2>2
<1>4. PICK X \in Family : \A Y \in Family : ~(<<Y, X>> \in StrictSubsetOrdering(S))
  BY <1>2, <1>3, FS_StrictSubsetOrderingWellFounded, WFMin
<1>5. PICK x \in S \cap T : X = Below(x)
  OBVIOUS
<1>6. ASSUME NEW y \in T, y < x PROVE FALSE
  <2>1. y \in S \cap T /\ Below(y) \in Family
    <3>1. x \in Nat /\ x <= n /\ y \in Nat /\ n \in Nat
      OBVIOUS
    <3>2. y \in S
      BY <3>1, <1>6
    <3>3. QED
      BY <3>2
  <2>2. Below(y) \subseteq Below(x) /\ x \in Below(x) /\ x \notin Below(y)
    <3>1. x \in T /\ x \in Nat /\ y \in Nat /\ x <= x /\ ~(x <= y)
      BY <1>6
    <3>2. ASSUME NEW z \in T, z <= y PROVE z <= x
      <4>1. z \in Nat
        OBVIOUS
      <4>2. QED
        BY <4>1, <3>1, <3>2, <1>6
    <3>3. QED
      BY <3>1, <3>2
  <2>3. Below(y) \in SUBSET S /\ X \in SUBSET S
    BY <1>3, <2>1 DEF FiniteSubsetsOf
  <2>4. Below(y) \subseteq X /\ Below(y) # X
    BY <2>2, <1>5
  <2>5. <<Below(y), X>> \in StrictSubsetOrdering(S)
    BY <2>3, <2>4 DEF StrictSubsetOrdering
  <2>6. QED
    BY <1>4, <2>1, <2>5
<1>7. QED
  BY <1>6

\* A non-empty set of naturals with a bound has a greatest element.
LEMMA MaxExists ==
  ASSUME NEW n \in Nat, NEW T \in SUBSET (0..n), T # {}
  PROVE  \E x \in T : \A y \in T : y <= x
<1> DEFINE U == {n - y : y \in T}
<1>1. U \in SUBSET Nat /\ U # {}
  <2>1. ASSUME NEW y \in T PROVE n - y \in Nat
    <3>1. y \in 0..n
      OBVIOUS
    <3>2. QED
      BY <3>1
  <2>2. QED
    BY <2>1
<1>2. PICK u \in U : \A v \in U : u <= v
  BY <1>1, MinExists
<1>3. PICK x \in T : u = n - x
  OBVIOUS
<1>4. ASSUME NEW y \in T PROVE y <= x
  <2>1. n - y \in U
    OBVIOUS
  <2>2. n - x <= n - y
    BY <2>1, <1>2, <1>3
  <2>3. QED
    BY <2>2
<1>5. QED
  BY <1>4
=============================================================================
