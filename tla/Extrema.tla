------------------------------- MODULE Extrema -------------------------------
(***************************************************************************)
(* The kernel's tables are searched from the bottom up for the first hit,  *)
(* and once for the last.  The models write Min and Max for these; the     *)
(* lemmas say that there is such a hit whenever anything matches, and that *)
(* a scan that numbers its hits numbers them without a gap.  The last ones *)
(* are about the division of addresses and of counters.                    *)
(***************************************************************************)
EXTENDS FiniteSetsExt, FiniteSetTheorems, TLAPS, WellFoundedInduction

(* A non-empty set of natural numbers has a least element. *)
LEMMA MinIn ==
  ASSUME NEW S, S \subseteq Nat, S # {}
  PROVE  Min(S) \in S /\ \A t \in S : Min(S) <= t
<1> DEFINE R == OpToRel(<, Nat)
<1>1. IsWellFoundedOn(R, Nat)
  BY NatLessThanWellFounded
<1> HIDE DEF R
<1>2. PICK s \in S : \A t \in S : ~(<<t, s>> \in R)
  BY <1>1, WFMin
<1>3. \A t \in S : t < s => <<t, s>> \in R
  BY DEF R, OpToRel
<1>4. \A t \in S : ~(t < s)
  BY <1>2, <1>3, Zenon
<1>5. \A t \in S : s <= t
  BY <1>4
<1> QED BY <1>5 DEF Min

(* A non-empty set of natural numbers below a bound has a greatest one. *)
LEMMA MaxIn ==
  ASSUME NEW N \in Nat, NEW S, S \subseteq 0 .. N, S # {}
  PROVE  Max(S) \in S /\ \A t \in S : Max(S) >= t
<1> DEFINE T == {t \in 0 .. N : \E x \in S : t = N - x}
<1>1. T \subseteq Nat
  OBVIOUS
<1>2. \A x \in S : x \in 0 .. N /\ N - x \in T
  OBVIOUS
<1>3. T # {}
  BY <1>2
<1> HIDE DEF T
<1>4. Min(T) \in T /\ \A t \in T : Min(T) <= t
  BY <1>1, <1>3, MinIn
<1>5. PICK m \in S : Min(T) = N - m
  BY <1>4 DEF T
<1>6. \A y \in S : m >= y
  BY <1>2, <1>4, <1>5
<1> QED BY <1>6 DEF Max

(* How many members of L a scan has met before it comes to m. *)
Below(L, m) == {t \in L : t < m}

(* The members of L are numbered from 0 to one less than their number,     *)
(* each number once.                                                       *)
LEMMA RankOnto ==
  ASSUME NEW N \in Nat, NEW L, L \subseteq 0 .. (N - 1)
  PROVE  /\ Cardinality(L) \in Nat
         /\ \A s \in L : Cardinality(Below(L, s)) \in 0 .. (Cardinality(L) - 1)
         /\ \A s, t \in L : Cardinality(Below(L, s)) = Cardinality(Below(L, t)) => s = t
         /\ \A i \in 0 .. (Cardinality(L) - 1) : \E s \in L : i = Cardinality(Below(L, s))
<1>1. IsFiniteSet(L) /\ Cardinality(L) \in Nat /\ L \subseteq Nat
  <2>1. IsFiniteSet(0 .. (N - 1))
    BY FS_Interval
  <2>2. L \in SUBSET (0 .. (N - 1))
    OBVIOUS
  <2>3. IsFiniteSet(L)
    BY <2>1, <2>2, FS_Subset
  <2>4. L \subseteq Nat
    OBVIOUS
  <2> QED BY <2>3, <2>4, FS_CardinalityType
<1>2. ASSUME NEW S \in SUBSET L
      PROVE  IsFiniteSet(S) /\ Cardinality(S) \in Nat /\ Cardinality(S) <= Cardinality(L)
  BY <1>1, FS_Subset, FS_CardinalityType
<1>3. \A m : Below(L, m) \in SUBSET L
  BY DEF Below
<1>4. ASSUME NEW s \in L, NEW S \in SUBSET L, Below(L, s) \subseteq S, s \in S
      PROVE  Cardinality(Below(L, s)) + 1 <= Cardinality(S)
  <2>1. s \notin Below(L, s)
    BY <1>1 DEF Below
  <2>2. Below(L, s) \cup {s} \in SUBSET S /\ IsFiniteSet(S) /\ IsFiniteSet(Below(L, s))
    BY <1>2, <1>3, <1>4
  <2>3. Cardinality(Below(L, s) \cup {s}) = Cardinality(Below(L, s)) + 1
    BY <2>1, <2>2, FS_AddElement
  <2> QED BY <2>2, <2>3, FS_Subset
<1>5. ASSUME NEW s \in L
      PROVE  Cardinality(Below(L, s)) \in 0 .. (Cardinality(L) - 1)
  <2>1. Cardinality(Below(L, s)) + 1 <= Cardinality(L)
    BY <1>3, <1>4
  <2>2. Cardinality(Below(L, s)) \in Nat
    BY <1>2, <1>3
  <2> QED BY <1>1, <2>1, <2>2
<1>6. ASSUME NEW s \in L, NEW t \in L, s < t
      PROVE  Cardinality(Below(L, s)) # Cardinality(Below(L, t))
  <2>1. Below(L, s) \subseteq Below(L, t) /\ s \in Below(L, t)
    <3>1. \A x \in L : x \in Nat
      BY <1>1
    <3>2. \A x \in L : x < s => x < t
      BY <1>6, <3>1
    <3> QED BY <1>6, <3>2 DEF Below
  <2>2. Cardinality(Below(L, s)) + 1 <= Cardinality(Below(L, t))
    BY <1>3, <1>4, <2>1
  <2>3. Cardinality(Below(L, s)) \in Nat /\ Cardinality(Below(L, t)) \in Nat
    BY <1>2, <1>3
  <2> QED BY <2>2, <2>3
<1>7. ASSUME NEW i \in 0 .. (Cardinality(L) - 1)
      PROVE  \E s \in L : i = Cardinality(Below(L, s))
  <2> DEFINE T == {m \in 0 .. N : Cardinality(Below(L, m)) > i}
  <2>0. \A m \in 0 .. N : Cardinality(Below(L, m)) \in Nat
    BY <1>2, <1>3
  <2>1. Below(L, N) = L /\ Below(L, 0) = {}
    <3>1. \A x \in L : x < N /\ ~(x < 0)
      OBVIOUS
    <3> QED BY <3>1 DEF Below
  <2>2. N \in T /\ 0 \notin T
    BY <1>1, <2>1, FS_EmptySet
  <2>3. PICK m \in T : \A t \in T : m <= t
    <3>1. T \subseteq Nat /\ T # {}
      BY <2>2
    <3> QED BY <3>1, MinIn
  <2>4. m \in 1 .. N /\ m - 1 \in 0 .. N /\ m - 1 \notin T
    BY <2>2, <2>3
  <2>5. Cardinality(Below(L, m)) > i /\ Cardinality(Below(L, m - 1)) <= i
    BY <2>0, <2>3, <2>4
  <2> HIDE DEF T
  <2>6. \A x \in L : x < m <=> x < m - 1 \/ x = m - 1
    BY <2>4
  <2>7. CASE m - 1 \notin L
    <3>1. Below(L, m) = Below(L, m - 1)
      BY <2>6, <2>7, Zenon DEF Below
    <3> QED BY <2>0, <2>4, <2>5, <3>1
  <2>8. CASE m - 1 \in L
    <3>1. Below(L, m) = Below(L, m - 1) \cup {m - 1}
      BY <2>6, <2>8, Zenon DEF Below
    <3>2. IsFiniteSet(Below(L, m - 1))
      BY <1>2, <1>3
    <3>3. Cardinality(Below(L, m)) \in
            {Cardinality(Below(L, m - 1)), Cardinality(Below(L, m - 1)) + 1}
      BY <3>1, <3>2, FS_AddElement
    <3>4. Cardinality(Below(L, m - 1)) \in Nat
      BY <2>0, <2>4
    <3>5. i = Cardinality(Below(L, m - 1))
      BY <2>5, <3>3, <3>4
    <3> QED BY <2>8, <3>5
  <2> QED BY <2>7, <2>8
<1>8. \A s, t \in L : s = t \/ s < t \/ t < s
  BY <1>1
<1> QED BY <1>1, <1>5, <1>6, <1>7, <1>8

(* Division with a rest. *)
LEMMA DivMod ==
  ASSUME NEW a \in Nat, NEW b \in Nat \ {0}
  PROVE  a = b * (a \div b) + (a % b) /\ a \div b \in Nat /\ a % b \in 0 .. (b - 1)
  OBVIOUS

(* There is one rest only. *)
LEMMA ModUnique ==
  ASSUME NEW b \in Nat \ {0}, NEW x \in Nat, NEW y \in Nat,
         NEW r \in 0 .. (b - 1), NEW s \in 0 .. (b - 1), b * x + r = b * y + s
  PROVE  r = s
<1>1. \A u, w \in Nat : u < w => b * u + b <= b * w
  <2>1. ASSUME NEW u \in Nat, NEW w \in Nat, u < w PROVE b * u + b <= b * w
    <3>1. w - u - 1 \in Nat
      BY <2>1
    <3>2. b * (w - u - 1) \in Nat /\ b * w = b * u + b + b * (w - u - 1)
      BY <3>1
    <3>3. b * u \in Nat /\ b * w \in Nat
      OBVIOUS
    <3> QED BY <3>2, <3>3
  <2> QED BY <2>1
<1>2. b * x \in Nat /\ b * y \in Nat
  OBVIOUS
<1>3. x = y
  BY <1>1, <1>2
<1> QED BY <1>2, <1>3
==============================================================================
