---------------------------- MODULE LeastElement ----------------------------
(***************************************************************************)
(* That a minimum exists: scheduleNextAlarm (worker/src/room.ts) and       *)
(* consumeSuppression (shared/src/sync.ts) choose one.                     *)
(***************************************************************************)
EXTENDS Integers, FiniteSets, FiniteSetTheorems, TLAPS

\* A nonempty set of naturals has a least element: the sets of the elements
\* below each of them are finite, and strict inclusion is well founded there.
LEMMA LeastNatural ==
  ASSUME NEW S \in SUBSET Nat, S # {}
  PROVE  \E x \in S : \A y \in S : x <= y
<1> DEFINE Below(x) == {y \in S : y < x}
           T == {Below(x) : x \in S}
<1>1. T \subseteq FiniteSubsetsOf(Nat)
  <2> SUFFICES ASSUME NEW x \in S
               PROVE  IsFiniteSet(Below(x)) /\ Below(x) \in SUBSET Nat
    BY DEF FiniteSubsetsOf
  <2>1. Below(x) \in SUBSET (0..x)
    <3>1. x \in Nat /\ S \subseteq Nat
      OBVIOUS
    <3>2. ASSUME NEW y \in Below(x) PROVE y \in 0..x
      <4>1. y \in S /\ y < x
        OBVIOUS
      <4> QED BY <3>1, <4>1
    <3> QED BY <3>2
  <2>2. IsFiniteSet(0..x)
    BY FS_Interval
  <2> QED
    BY <2>1, <2>2, FS_Subset
<1>2. T # {}
  OBVIOUS
<1>3. PICK B \in T : \A C \in T : <<C, B>> \notin StrictSubsetOrdering(Nat)
  BY <1>1, <1>2, FS_StrictSubsetOrderingWellFounded, WFMin, Zenon
<1>4. PICK x \in S : B = Below(x)
  OBVIOUS
<1>5. ASSUME NEW y \in S, y < x PROVE FALSE
  <2>1. x \in Nat /\ y \in Nat /\ S \subseteq Nat
    OBVIOUS
  <2>2. y \in Below(x) /\ y \notin Below(y)
    BY <1>5, <2>1
  <2>3. ASSUME NEW z \in Below(y) PROVE z \in Below(x)
    <3>1. z \in S /\ z < y /\ z \in Nat
      BY <2>1
    <3> QED BY <3>1, <2>1, <1>5
  <2>4. <<Below(y), Below(x)>> \in StrictSubsetOrdering(Nat)
    BY <2>1, <2>2, <2>3 DEF StrictSubsetOrdering
  <2> QED
    BY <2>4, <1>3, <1>4
<1> QED
  BY <1>5

=============================================================================
