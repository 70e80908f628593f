---------------------------- MODULE LeastNumber ----------------------------
(***************************************************************************)
(* The least-number principle for sets, from the well-foundedness of the   *)
(* strict subset order on finite sets: induction by least counterexample.  *)
(***************************************************************************)
EXTENDS FiniteSetTheorems, TLAPS

(* A non-empty set of numbers has a least element. *)
LEMMA NatMin ==
  ASSUME NEW T \in SUBSET Nat, T # {}
  PROVE  \E x \in T : \A y \in T : x <= y
<1>1. PICK n \in T : TRUE
  OBVIOUS
<1> DEFINE below == {0..k : k \in {m \in T : m <= n}}
<1>2. IsFiniteSet(0..n)
  BY FS_Interval
<1>3. below \subseteq FiniteSubsetsOf(0..n) /\ below # {}
  BY <1>1, <1>2, FS_Subset DEF FiniteSubsetsOf
<1>4. IsWellFoundedOn(StrictSubsetOrdering(0..n), FiniteSubsetsOf(0..n))
  BY <1>2, FS_StrictSubsetOrderingWellFounded
<1>5. PICK x \in below : \A y \in below : ~ (<<y, x>> \in StrictSubsetOrdering(0..n))
  <2> HIDE DEF below
  <2> QED BY <1>3, <1>4, WFMin
<1>6. PICK m \in T : m <= n /\ x = 0..m
  OBVIOUS
<1>7. ASSUME NEW y \in T, y < m PROVE FALSE
  <2>1. y <= n /\ 0..y \in below
    BY <1>6, <1>7
  <2>2. <<0..y, 0..m>> \in StrictSubsetOrdering(0..n)
    <3>1. 0..y \in SUBSET (0..n) /\ 0..m \in SUBSET (0..n)
      BY <1>6, <2>1
    <3>2. 0..y \subseteq 0..m
      BY <1>7
    <3>3. m \in 0..m /\ m \notin 0..y
      BY <1>7
    <3> QED BY <3>1, <3>2, <3>3 DEF StrictSubsetOrdering
  <2> QED BY <1>5, <1>6, <2>1, <2>2
<1> QED BY <1>7

(* A finite non-empty set of numbers has a greatest element: of the sets of *)
(* its numbers from x on, one is least.                                     *)
LEMMA NatMax ==
  ASSUME NEW T \in SUBSET Nat, IsFiniteSet(T), T # {}
  PROVE  \E x \in T : \A y \in T : y <= x
<1> DEFINE Above(x) == {m \in T : x <= m}
           above == {Above(x) : x \in T}
<1>1. above \subseteq FiniteSubsetsOf(T) /\ above # {}
  <2>1. ASSUME NEW x \in T PROVE Above(x) \in SUBSET T /\ IsFiniteSet(Above(x))
    BY FS_Subset
  <2> QED BY <2>1 DEF FiniteSubsetsOf
<1>2. IsWellFoundedOn(StrictSubsetOrdering(T), FiniteSubsetsOf(T))
  BY FS_StrictSubsetOrderingWellFounded
<1>3. PICK A \in above : \A B \in above : ~ (<<B, A>> \in StrictSubsetOrdering(T))
  <2> HIDE DEF above
  <2> QED BY <1>1, <1>2, WFMin
<1>4. PICK x \in T : A = Above(x)
  OBVIOUS
<1>5. ASSUME NEW y \in T, x < y PROVE FALSE
  <2>1. Above(y) \in above
    OBVIOUS
  <2>2. Above(y) \in SUBSET T /\ Above(x) \in SUBSET T /\ Above(y) \subseteq Above(x)
    <3>1. x \in Nat /\ y \in Nat /\ \A m \in T : m \in Nat
      OBVIOUS
    <3>2. \A m \in T : y <= m => x <= m
      BY <1>5, <3>1
    <3> QED BY <3>2
  <2>3. x \in Above(x) /\ x \notin Above(y)
    BY <1>5
  <2>4. <<Above(y), Above(x)>> \in StrictSubsetOrdering(T)
    BY <2>2, <2>3 DEF StrictSubsetOrdering
  <2> QED BY <1>3, <1>4, <2>1, <2>4
<1>6. \A y \in T : y <= x
  BY <1>5
<1> QED BY <1>6
=============================================================================
