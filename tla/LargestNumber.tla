---------------------------- MODULE LargestNumber ----------------------------
(***************************************************************************)
(* ControlStore::reserve gives a record the number after the largest one   *)
(* in memory.  That there is a largest one, among finitely many, is proved *)
(* here for the theorems about the modules that use it.                    *)
(***************************************************************************)
EXTENDS Naturals, FiniteSets, FiniteSetTheorems, WellFoundedInduction, TLAPS

\* Every nonempty set of naturals has a least element.
LEMMA LeastExists ==
  ASSUME NEW S \in SUBSET Nat, S # {}
  PROVE  \E m \in S : \A n \in S : m <= n
<1>1. \E m \in S : \A n \in S : ~(<<n, m>> \in OpToRel(<, Nat))
  BY NatLessThanWellFounded, WFMin
<1>2. PICK m \in S : \A n \in S : ~(<<n, m>> \in OpToRel(<, Nat))
  BY <1>1
<1>3. \A n \in S : ~(n < m)
  BY <1>2 DEF OpToRel
<1> QED  BY <1>3

\* So does every nonempty finite set of naturals have a largest one: a least
\* subset without an upper bound has an element, and loses its bound with it.
LEMMA BoundExists ==
  ASSUME NEW T, IsFiniteSet(T), NEW f \in [T -> Nat]
  PROVE  \E b \in Nat : \A x \in T : f[x] <= b
<1> DEFINE Bounded(U) == \E b \in Nat : \A x \in U : f[x] <= b
           Wild == {U \in FiniteSubsetsOf(T) : ~Bounded(U)}
<1> SUFFICES ASSUME Wild # {}  PROVE FALSE
  <2>1. T \in FiniteSubsetsOf(T)
    BY DEF FiniteSubsetsOf
  <2> QED  BY <2>1
<1>1. \E U \in Wild : \A V \in Wild : ~(<<V, U>> \in StrictSubsetOrdering(T))
  <2>1. Wild \subseteq FiniteSubsetsOf(T)
    OBVIOUS
  <2> HIDE DEF Wild
  <2> QED  BY <2>1, FS_StrictSubsetOrderingWellFounded, WFMin
<1>2. PICK U \in Wild : \A V \in Wild : ~(<<V, U>> \in StrictSubsetOrdering(T))
  BY <1>1
<1>3. U # {}
  <2>1. \A x \in {} : f[x] <= 0
    OBVIOUS
  <2> QED  BY <1>2, <2>1
<1>4. PICK x \in U : TRUE
  BY <1>3
<1>5. U \subseteq T /\ IsFiniteSet(U)
  BY <1>2 DEF FiniteSubsetsOf
<1>6. IsFiniteSet(U \ {x})
  BY <1>5, FS_RemoveElement
<1>7. <<U \ {x}, U>> \in StrictSubsetOrdering(T)
  BY <1>4, <1>5 DEF StrictSubsetOrdering
<1>8. U \ {x} \notin Wild
  BY <1>2, <1>7
<1>9. Bounded(U \ {x})
  <2>1. U \ {x} \in FiniteSubsetsOf(T)
    BY <1>5, <1>6 DEF FiniteSubsetsOf
  <2> QED  BY <1>8, <2>1
<1>10. PICK b \in Nat : \A y \in U \ {x} : f[y] <= b
  BY <1>9
<1>11. f[x] \in Nat
  BY <1>4, <1>5
<1>12. \A y \in U : f[y] <= b + f[x] /\ b + f[x] \in Nat
  BY <1>5, <1>10, <1>11
<1> QED  BY <1>2, <1>12, <1>4

LEMMA LargestExists ==
  ASSUME NEW T, IsFiniteSet(T), T # {}, NEW f \in [T -> Nat]
  PROVE  \E x \in T : \A y \in T : f[y] <= f[x]
<1> DEFINE Bounds == {b \in Nat : \A y \in T : f[y] <= b}
<1>1. Bounds # {}
  BY BoundExists
<1>2. PICK b \in Bounds : \A c \in Bounds : b <= c
  <2> Bounds \in SUBSET Nat
    OBVIOUS
  <2> HIDE DEF Bounds
  <2> QED  BY <1>1, LeastExists
<1>3. \E x \in T : f[x] = b
  <2> SUFFICES ASSUME \A x \in T : f[x] # b  PROVE FALSE
    OBVIOUS
  <2>1. PICK z \in T : TRUE
    OBVIOUS
  <2>2. b - 1 \in Nat /\ \A y \in T : f[y] <= b - 1
    BY <2>1, <1>2
  <2> QED  BY <1>2, <2>2
<1> QED  BY <1>2, <1>3
=============================================================================
