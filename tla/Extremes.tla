------------------------------ MODULE Extremes ------------------------------
(* The ends of a set of naturals, from the finiteness of its initial parts. *)
(* What a CHOOSE of a first or a last place needs.                         *)
EXTENDS Integers, FiniteSetTheorems, TLAPS

(* A set of naturals that is not empty has a least element. *)
LEMMA Least ==
    ASSUME NEW T, T \subseteq Nat, T # {}
    PROVE  \E x \in T : \A y \in T : x <= y
<1> DEFINE Below == {T \cap (0..n) : n \in T}
<1>1. Below \subseteq FiniteSubsetsOf(Nat)
  <2> SUFFICES ASSUME NEW n \in T PROVE T \cap (0..n) \in FiniteSubsetsOf(Nat)
    OBVIOUS
  <2>1. IsFiniteSet(0..n)
    BY FS_Interval
  <2>2. IsFiniteSet(T \cap (0..n))
    BY <2>1, FS_Intersection
  <2>3. QED
    BY <2>2 DEF FiniteSubsetsOf
<1>2. Below # {}
  OBVIOUS
<1>3. PICK U \in Below : \A V \in Below : ~(<<V, U>> \in StrictSubsetOrdering(Nat))
  <2> HIDE DEF Below
  <2>1. QED
    BY <1>1, <1>2, FS_StrictSubsetOrderingWellFounded, WFMin
<1>4. PICK n \in T : U = T \cap (0..n)
  OBVIOUS
<1>5. ASSUME NEW m \in T, m < n PROVE FALSE
  <2> DEFINE V == T \cap (0..m)
  <2>1. V \in Below
    OBVIOUS
  <2>2. V \subseteq U /\ n \in U /\ n \notin V
    BY <1>4, <1>5
  <2>3. V \subseteq Nat /\ U \subseteq Nat
    BY <1>4
  <2>4. <<V, U>> \in StrictSubsetOrdering(Nat)
    BY <2>2, <2>3 DEF StrictSubsetOrdering
  <2>5. QED
    BY <1>3, <2>1, <2>4
<1>6. QED
  BY <1>5

(* A bounded one has a greatest element. *)
LEMMA Greatest ==
    ASSUME NEW N \in Nat, NEW T, T \subseteq 0..N, T # {}
    PROVE  \E x \in T : \A y \in T : y <= x
<1> DEFINE Room == {N - n : n \in T}
<1>1. Room \subseteq Nat /\ Room # {}
  <2>1. \A n \in T : N - n \in Nat
    OBVIOUS
  <2>2. QED
    BY <2>1
<1>2. PICK r \in Room : \A s \in Room : r <= s
  <2> HIDE DEF Room
  <2>1. QED
    BY <1>1, Least
<1>3. PICK x \in T : r = N - x
  OBVIOUS
<1>4. ASSUME NEW y \in T PROVE y <= x
  <2>1. N - y \in Room
    OBVIOUS
  <2>2. N - x <= N - y
    BY <1>2, <1>3, <2>1
  <2>3. x \in 0..N /\ y \in 0..N
    OBVIOUS
  <2>4. QED
    BY <2>2, <2>3
<1>5. QED
  BY <1>4
=============================================================================
