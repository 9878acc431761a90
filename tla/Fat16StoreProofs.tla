-------------------------- MODULE Fat16StoreProofs --------------------------
(***************************************************************************)
(* The FAT16 driver implements the flat store: what the disk holds for a   *)
(* directory entry, cluster by cluster, changes only as the store's        *)
(* operations allow, and what a read delivers is what the disk holds.      *)
(***************************************************************************)
EXTENDS Fat16Proofs, Fat16Store

-----------------------------------------------------------------------------
(* The walk along links, in any FAT f and with any set E of end marks. *)

EntryIn(f, c) == IF c \in Clusters THEN f[c] ELSE 0

WalkBy(E, f, c, n) ==
  LET walk[i \in 0 .. n] ==
        IF i = 0 THEN c
        ELSE IF walk[i - 1] = NONE \/ EntryIn(f, walk[i - 1]) \in E THEN NONE
        ELSE EntryIn(f, walk[i - 1])
  IN  walk[n]

(* A step of the walk. *)
OnwardBy(E, f, k) == IF k = NONE \/ EntryIn(f, k) \in E THEN NONE ELSE EntryIn(f, k)

(* The walk of the writing calls. *)
WalkIn(f, c, n) == WalkBy(ChainEnds, f, c, n)
Onward(f, k)    == OnwardBy(ChainEnds, f, k)

LEMMA FollowIs ==
  ASSUME NEW c, NEW n, NEW E
  PROVE  Follow(c, n, E) = WalkBy(E, fat1, c, n) /\ Follow(c, n, E)' = WalkBy(E, fat1', c, n)
  BY DEF Follow, WalkBy, FatEntry, EntryIn

LEMMA WalkIs ==
  ASSUME NEW c, NEW n
  PROVE  StoredAt(c, n) = WalkIn(fat1, c, n) /\ StoredAt(c, n)' = WalkIn(fat1', c, n)
  BY FollowIs DEF StoredAt, WalkIn

(* The function the recursion defines: there is one, and one only. *)
Walks(E, f, c, n, g) ==
  /\ DOMAIN g = 0 .. n
  /\ g[0] = c
  /\ \A m \in 1 .. n : g[m] = OnwardBy(E, f, g[m - 1])

LEMMA WalkExists ==
  ASSUME NEW E, NEW f, NEW c, NEW n \in Nat
  PROVE  \E g : Walks(E, f, c, n, g)
<1> DEFINE B == {m \in Nat : ~ \E g : Walks(E, f, c, m, g)}
<1>1. SUFFICES ASSUME B # {} PROVE FALSE
  OBVIOUS
<1>2. B \subseteq Nat
  OBVIOUS
<1> HIDE DEF B
<1>3. Min(B) \in B /\ \A m \in B : Min(B) <= m
  BY <1>1, <1>2, MinIn
<1>4. PICK k \in B : \A m \in B : k <= m
  BY <1>3
<1>5. k \in Nat /\ ~ \E g : Walks(E, f, c, k, g)
  BY <1>4 DEF B
<1>6. CASE k = 0
  <2> DEFINE g == [m \in 0 .. 0 |-> c]
  <2>1. Walks(E, f, c, 0, g)
    BY DEF Walks
  <2> QED BY <1>5, <1>6, <2>1
<1>7. CASE k # 0
  <2>1. k - 1 \in Nat /\ ~(k <= k - 1)
    BY <1>5, <1>7
  <2>2. k - 1 \notin B
    BY <1>4, <2>1
  <2>3. PICK h : Walks(E, f, c, k - 1, h)
    BY <2>1, <2>2 DEF B
  <2> DEFINE g == [m \in 0 .. k |-> IF m = k THEN OnwardBy(E, f, h[k - 1]) ELSE h[m]]
  <2>4. DOMAIN g = 0 .. k /\ g[0] = c
    BY <1>5, <1>7, <2>3 DEF Walks
  <2>5. ASSUME NEW m \in 1 .. k PROVE g[m] = OnwardBy(E, f, g[m - 1])
    <3>1. m \in 0 .. k /\ m - 1 \in 0 .. k /\ m - 1 # k
      BY <1>5
    <3>2. g[m - 1] = h[m - 1]
      BY <3>1
    <3>3. CASE m = k
      BY <3>1, <3>2, <3>3
    <3>4. CASE m # k
      <4>1. m \in 1 .. (k - 1)
        BY <1>5, <3>4
      <4>2. g[m] = h[m]
        BY <3>1, <3>4
      <4>3. h[m] = OnwardBy(E, f, h[m - 1])
        BY <2>3, <4>1 DEF Walks
      <4> QED BY <3>2, <4>2, <4>3
    <3> QED BY <3>3, <3>4
  <2> HIDE DEF g
  <2>6. Walks(E, f, c, k, g)
    BY <2>4, <2>5 DEF Walks
  <2> QED BY <1>5, <2>6
<1> QED BY <1>6, <1>7

(* The walk on 0 .. n ends where any such function does. *)
LEMMA WalkSolves ==
  ASSUME NEW E, NEW f, NEW c, NEW n \in Nat
  PROVE  \E g : Walks(E, f, c, n, g) /\ WalkBy(E, f, c, n) = g[n]
<1> DEFINE F(g) == [i \in 0 .. n |-> IF i = 0 THEN c
                      ELSE IF g[i - 1] = NONE \/ EntryIn(f, g[i - 1]) \in E THEN NONE
                      ELSE EntryIn(f, g[i - 1])]
           w == CHOOSE g : g = F(g)
<1>1. PICK g : Walks(E, f, c, n, g)
  BY WalkExists
<1> DEFINE h == [i \in 0 .. n |-> g[i]]
<1>2. h = F(h)
  <2>1. ASSUME NEW i \in 0 .. n
        PROVE  h[i] = IF i = 0 THEN c
                      ELSE IF h[i - 1] = NONE \/ EntryIn(f, h[i - 1]) \in E THEN NONE
                      ELSE EntryIn(f, h[i - 1])
    <3>1. CASE i = 0
      BY <1>1, <3>1 DEF Walks
    <3>2. CASE i # 0
      <4>1. i \in 1 .. n /\ i - 1 \in 0 .. n
        BY <3>2
      <4>2. h[i] = g[i] /\ h[i - 1] = g[i - 1]
        BY <4>1
      <4>3. g[i] = OnwardBy(E, f, g[i - 1])
        BY <1>1, <4>1 DEF Walks
      <4> QED BY <3>2, <4>2, <4>3 DEF OnwardBy
    <3> QED BY <3>1, <3>2
  <2> HIDE DEF h
  <2>2. h = [i \in 0 .. n |-> h[i]]
    BY DEF h
  <2> QED BY <2>1, <2>2
<1>3. w = F(w)
  <2> HIDE DEF F, h
  <2> QED BY <1>2
<1>4. WalkBy(E, f, c, n) = w[n]
  BY DEF WalkBy
<1> HIDE DEF w
<1>5. \A i \in 0 .. n : w[i] = IF i = 0 THEN c ELSE OnwardBy(E, f, w[i - 1])
  BY <1>3 DEF OnwardBy
<1>6. DOMAIN w = 0 .. n
  BY <1>3
<1>7. \A m \in 1 .. n : m \in 0 .. n /\ m # 0
  OBVIOUS
<1>8. Walks(E, f, c, n, w)
  BY <1>5, <1>6, <1>7 DEF Walks
<1> QED BY <1>4, <1>8

(* Two walks from the same cluster agree as far as both go. *)
LEMMA WalksAgree ==
  ASSUME NEW E, NEW f, NEW c, NEW n \in Nat, NEW m \in Nat, m <= n, NEW g, NEW h,
         Walks(E, f, c, n, g), Walks(E, f, c, m, h)
  PROVE  g[m] = h[m]
<1> DEFINE B == {i \in Nat : i <= m /\ g[i] # h[i]}
<1>1. SUFFICES ASSUME B # {} PROVE FALSE
  OBVIOUS
<1>2. B \subseteq Nat
  OBVIOUS
<1> HIDE DEF B
<1>3. Min(B) \in B /\ \A i \in B : Min(B) <= i
  BY <1>1, <1>2, MinIn
<1>4. PICK k \in B : \A i \in B : k <= i
  BY <1>3
<1>5. k \in Nat /\ k <= m /\ g[k] # h[k]
  BY <1>4 DEF B
<1>6. k # 0
  BY <1>5 DEF Walks
<1>7. k - 1 \in Nat /\ k - 1 <= m /\ ~(k <= k - 1) /\ k \in 1 .. m /\ k \in 1 .. n
  BY <1>5, <1>6
<1>8. g[k - 1] = h[k - 1]
  BY <1>4, <1>7 DEF B
<1> QED BY <1>5, <1>7, <1>8 DEF Walks

(* What the walk does: it starts at c and goes onward. *)
LEMMA WalkByStart ==
  ASSUME NEW E, NEW f, NEW c
  PROVE  WalkBy(E, f, c, 0) = c
<1>1. PICK g : Walks(E, f, c, 0, g) /\ WalkBy(E, f, c, 0) = g[0]
  BY WalkSolves
<1> QED BY <1>1 DEF Walks

LEMMA WalkByNext ==
  ASSUME NEW E, NEW f, NEW c, NEW n \in Nat
  PROVE  WalkBy(E, f, c, n + 1) = OnwardBy(E, f, WalkBy(E, f, c, n))
<1>1. n + 1 \in Nat /\ n <= n + 1 /\ n + 1 \in 1 .. (n + 1) /\ (n + 1) - 1 = n
  OBVIOUS
<1>2. PICK g : Walks(E, f, c, n + 1, g) /\ WalkBy(E, f, c, n + 1) = g[n + 1]
  BY <1>1, WalkSolves
<1>3. PICK h : Walks(E, f, c, n, h) /\ WalkBy(E, f, c, n) = h[n]
  BY WalkSolves
<1>4. g[n] = h[n]
  BY <1>1, <1>2, <1>3, WalksAgree
<1>5. g[n + 1] = OnwardBy(E, f, g[n])
  BY <1>1, <1>2 DEF Walks
<1> QED BY <1>2, <1>3, <1>4, <1>5

LEMMA WalkStep ==
  ASSUME NEW f, NEW c
  PROVE  /\ WalkIn(f, c, 0) = c
         /\ \A n \in Nat : WalkIn(f, c, n + 1) = Onward(f, WalkIn(f, c, n))
  BY WalkByStart, WalkByNext DEF WalkIn, Onward

LEMMA OnwardFacts ==
  ASSUME NEW f \in [Clusters -> Links], NEW k
  PROVE  /\ Onward(f, k) \in Clusters <=> k \in Clusters /\ f[k] \in Clusters
         /\ Onward(f, k) \in Clusters => Onward(f, k) = f[k]
<1>1. \A c \in Clusters : c \notin ChainEnds /\ c # NONE
  BY ClustersAssumption DEF Clusters, ChainEnds, IsLink, NONE
<1>2. NONE \notin Clusters /\ 0 \notin Clusters /\ 0 \in ChainEnds
  <2>1. NONE \notin Clusters
    BY <1>1
  <2>2. 0 \in ChainEnds
    BY DEF ChainEnds, IsLink
  <2> QED BY <2>1, <2>2, ConstantFacts
<1>3. CASE k \in Clusters
  BY <1>1, <1>2, <1>3 DEF Onward, OnwardBy, EntryIn
<1>4. CASE k \notin Clusters
  BY <1>2, <1>4 DEF Onward, OnwardBy, EntryIn
<1> QED BY <1>3, <1>4

(* A walk that has come to a cluster came along clusters of the chain. *)
LEMMA WalkBack ==
  ASSUME NEW f \in [Clusters -> Links], NEW c, NEW n \in Nat,
         WalkIn(f, c, n + 1) \in Clusters
  PROVE  WalkIn(f, c, n) \in Clusters /\ WalkIn(f, c, n + 1) = f[WalkIn(f, c, n)]
<1>1. WalkIn(f, c, n + 1) = Onward(f, WalkIn(f, c, n))
  BY WalkStep
<1> QED BY <1>1, OnwardFacts

LEMMA WalkDown ==
  ASSUME NEW f \in [Clusters -> Links], NEW c, NEW n \in Nat,
         WalkIn(f, c, n) \in Clusters, NEW m \in 0 .. n
  PROVE  WalkIn(f, c, m) \in Clusters
<1> DEFINE B == {i \in Nat : i <= n /\ WalkIn(f, c, n - i) \notin Clusters}
<1>1. SUFFICES ASSUME B # {} PROVE FALSE
  <2>1. n - m \in Nat /\ n - m <= n /\ n - (n - m) = m
    OBVIOUS
  <2> QED BY <2>1
<1>2. B \subseteq Nat
  OBVIOUS
<1> HIDE DEF B
<1>3. Min(B) \in B /\ \A i \in B : Min(B) <= i
  BY <1>1, <1>2, MinIn
<1>4. PICK k \in B : \A i \in B : k <= i
  BY <1>3
<1>5. k \in Nat /\ k <= n /\ WalkIn(f, c, n - k) \notin Clusters
  BY <1>4 DEF B
<1>6. k # 0
  BY <1>5
<1>7. k - 1 \in Nat /\ k - 1 <= n /\ ~(k <= k - 1) /\ n - k \in Nat /\ n - (k - 1) = (n - k) + 1
  BY <1>5, <1>6
<1>8. WalkIn(f, c, n - (k - 1)) \in Clusters
  BY <1>4, <1>7 DEF B
<1> QED BY <1>5, <1>7, <1>8, WalkBack

LEMMA WalkInChain ==
  ASSUME NEW f \in [Clusters -> Links], NEW c, NEW n \in Nat,
         WalkIn(f, c, n) \in Clusters
  PROVE  WalkIn(f, c, n) \in ChainIn(f, c)
<1> DEFINE B == {i \in Nat : WalkIn(f, c, i) \in Clusters /\ WalkIn(f, c, i) \notin ChainIn(f, c)}
<1>1. SUFFICES ASSUME B # {} PROVE FALSE
  OBVIOUS
<1>2. B \subseteq Nat
  OBVIOUS
<1> HIDE DEF B
<1>3. Min(B) \in B /\ \A i \in B : Min(B) <= i
  BY <1>1, <1>2, MinIn
<1>4. PICK k \in B : \A i \in B : k <= i
  BY <1>3
<1>5. k \in Nat /\ WalkIn(f, c, k) \in Clusters /\ WalkIn(f, c, k) \notin ChainIn(f, c)
  BY <1>4 DEF B
<1>6. c \in Clusters
  <2>1. 0 \in 0 .. n
    OBVIOUS
  <2> QED BY <2>1, WalkDown, WalkStep
<1>7. k # 0
  BY <1>5, <1>6, WalkStep, ChainClosed
<1>8. k - 1 \in Nat /\ ~(k <= k - 1) /\ (k - 1) + 1 = k
  BY <1>5, <1>7
<1>9. WalkIn(f, c, k - 1) \in Clusters /\ WalkIn(f, c, k) = f[WalkIn(f, c, k - 1)]
  BY <1>5, <1>8, WalkBack
<1>10. WalkIn(f, c, k - 1) \in ChainIn(f, c)
  BY <1>4, <1>8, <1>9 DEF B
<1> QED BY <1>5, <1>6, <1>9, <1>10, ChainClosed DEF ClosedIn

(* A walk that comes to a cluster does so in every FAT with the links of   *)
(* the chain.                                                              *)
LEMMA WalkSame ==
  ASSUME NEW f \in [Clusters -> Links], NEW g \in [Clusters -> Links], NEW c,
         \A x \in ChainIn(f, c) : f[x] \in Clusters => g[x] = f[x],
         NEW n \in Nat, WalkIn(f, c, n) \in Clusters
  PROVE  WalkIn(g, c, n) = WalkIn(f, c, n)
<1> DEFINE B == {i \in Nat : WalkIn(f, c, i) \in Clusters /\ WalkIn(g, c, i) # WalkIn(f, c, i)}
<1>1. SUFFICES ASSUME B # {} PROVE FALSE
  OBVIOUS
<1>2. B \subseteq Nat
  OBVIOUS
<1> HIDE DEF B
<1>3. Min(B) \in B /\ \A i \in B : Min(B) <= i
  BY <1>1, <1>2, MinIn
<1>4. PICK k \in B : \A i \in B : k <= i
  BY <1>3
<1>5. k \in Nat /\ WalkIn(f, c, k) \in Clusters /\ WalkIn(g, c, k) # WalkIn(f, c, k)
  BY <1>4 DEF B
<1>6. k # 0
  BY <1>5, WalkStep
<1>7. k - 1 \in Nat /\ ~(k <= k - 1) /\ (k - 1) + 1 = k
  BY <1>5, <1>6
<1>8. WalkIn(f, c, k - 1) \in Clusters /\ WalkIn(f, c, k) = f[WalkIn(f, c, k - 1)]
  BY <1>5, <1>7, WalkBack
<1>9. WalkIn(f, c, k - 1) \in ChainIn(f, c)
  BY <1>7, <1>8, WalkInChain
<1>10. WalkIn(g, c, k - 1) = WalkIn(f, c, k - 1)
  BY <1>4, <1>7, <1>8 DEF B
<1>11. g[WalkIn(g, c, k - 1)] = WalkIn(f, c, k)
  BY <1>5, <1>8, <1>9, <1>10
<1>12. WalkIn(g, c, k) = Onward(g, WalkIn(g, c, k - 1))
  <2>1. WalkIn(g, c, (k - 1) + 1) = Onward(g, WalkIn(g, c, k - 1))
    BY <1>7, WalkStep
  <2> QED BY <1>7, <2>1
<1>13. WalkIn(g, c, k) = WalkIn(f, c, k)
  BY <1>5, <1>8, <1>10, <1>11, <1>12, OnwardFacts
<1> QED BY <1>5, <1>13

(* A walk from a cluster that nothing leads to never comes back. *)
LEMMA WalkOnce ==
  ASSUME NEW f \in [Clusters -> Links], NEW c,
         \A x \in Clusters : f[x] # c,
         \A x, y \in Clusters : f[x] \in Clusters /\ f[x] = f[y] => x = y,
         NEW i \in Nat, NEW j \in Nat,
         WalkIn(f, c, i) \in Clusters, WalkIn(f, c, i) = WalkIn(f, c, j)
  PROVE  i = j
<1> DEFINE B == {m \in Nat : \E q \in Nat : /\ q # m /\ WalkIn(f, c, m) \in Clusters
                                           /\ WalkIn(f, c, m) = WalkIn(f, c, q)}
<1>1. SUFFICES ASSUME B # {} PROVE FALSE
  OBVIOUS
<1>2. B \subseteq Nat
  OBVIOUS
<1> HIDE DEF B
<1>3. Min(B) \in B /\ \A m \in B : Min(B) <= m
  BY <1>1, <1>2, MinIn
<1>4. PICK m \in B : \A r \in B : m <= r
  BY <1>3
<1>5. PICK q \in Nat : /\ q # m /\ WalkIn(f, c, m) \in Clusters
                       /\ WalkIn(f, c, m) = WalkIn(f, c, q)
  BY <1>4 DEF B
<1>6. m \in Nat
  BY <1>4, <1>2
<1>7. q \in B
  BY <1>5, <1>6 DEF B
<1>8. m <= q /\ m < q
  BY <1>4, <1>5, <1>6, <1>7
<1>9. q - 1 \in Nat /\ (q - 1) + 1 = q
  BY <1>6, <1>8
<1>10. WalkIn(f, c, q - 1) \in Clusters /\ WalkIn(f, c, q) = f[WalkIn(f, c, q - 1)]
  BY <1>5, <1>9, WalkBack
<1>11. m # 0
  BY <1>5, <1>10, WalkStep
<1>12. m - 1 \in Nat /\ (m - 1) + 1 = m /\ ~(m <= m - 1) /\ q - 1 # m - 1
  BY <1>5, <1>6, <1>11
<1>13. WalkIn(f, c, m - 1) \in Clusters /\ WalkIn(f, c, m) = f[WalkIn(f, c, m - 1)]
  BY <1>5, <1>12, WalkBack
<1>14. WalkIn(f, c, m - 1) = WalkIn(f, c, q - 1)
  BY <1>5, <1>10, <1>13
<1>15. m - 1 \in B
  BY <1>9, <1>12, <1>13, <1>14 DEF B
<1> QED BY <1>4, <1>12, <1>15

LEMMA NoWalk ==
  ASSUME NEW f \in [Clusters -> Links], NEW n \in Nat
  PROVE  WalkIn(f, 0, n) \notin Clusters
<1>1. 0 \in 0 .. n
  OBVIOUS
<1> QED BY <1>1, WalkDown, WalkStep, ConstantFacts

-----------------------------------------------------------------------------
(* Offsets: the cluster of a unit, and its place there. *)

LEMMA PlaceFacts ==
  ASSUME NEW p \in Nat
  PROVE  /\ p = ClusterSize * (p \div ClusterSize) + (p % ClusterSize)
         /\ p \div ClusterSize \in Nat
         /\ p % ClusterSize \in Offsets /\ p % ClusterSize \in Nat
<1>1. ClusterSize \in Nat \ {0}
  BY UnitsAssumption
<1>2. /\ p = ClusterSize * (p \div ClusterSize) + (p % ClusterSize)
      /\ p \div ClusterSize \in Nat /\ p % ClusterSize \in 0 .. (ClusterSize - 1)
  BY <1>1, DivMod
<1>3. p % ClusterSize \in Nat
  BY <1>1
<1> QED BY <1>2, <1>3 DEF Offsets

LEMMA PlaceIs ==
  ASSUME NEW p \in Nat, NEW q \in Nat, NEW r \in 0 .. (ClusterSize - 1),
         p = ClusterSize * q + r
  PROVE  p \div ClusterSize = q /\ p % ClusterSize = r
<1>1. ClusterSize \in Nat \ {0}
  BY UnitsAssumption
<1> DEFINE a == p \div ClusterSize
           b == p % ClusterSize
<1>2. p = ClusterSize * a + b /\ a \in Nat /\ b \in 0 .. (ClusterSize - 1)
  BY <1>1, DivMod
<1> HIDE DEF a, b
<1>3. ClusterSize * a + b = ClusterSize * q + r
  BY <1>2
<1>4. b = r
  BY <1>1, <1>2, <1>3, ModUnique
<1>5. ClusterSize * a = ClusterSize * q
  <2>1. ClusterSize * a \in Nat /\ ClusterSize * q \in Nat
    BY <1>1, <1>2
  <2> QED BY <1>1, <1>2, <1>3, <1>4, <2>1
<1>6. a = q
  <2>1. ClusterSize * (a - q) = 0 /\ a - q \in Int
    BY <1>1, <1>2, <1>5
  <2> QED BY <1>1, <1>2, <2>1
<1> QED BY <1>4, <1>6 DEF a, b

LEMMA PlaceMono ==
  ASSUME NEW p \in Nat, NEW q \in Nat, p <= q
  PROVE  p \div ClusterSize <= q \div ClusterSize
<1>1. ClusterSize \in Nat \ {0}
  BY UnitsAssumption
<1> DEFINE a == p \div ClusterSize
           b == q \div ClusterSize
<1>2. p = ClusterSize * a + (p % ClusterSize) /\ a \in Nat /\ p % ClusterSize \in 0 .. (ClusterSize - 1)
  BY <1>1, DivMod
<1>3. q = ClusterSize * b + (q % ClusterSize) /\ b \in Nat /\ q % ClusterSize \in 0 .. (ClusterSize - 1)
  BY <1>1, DivMod
<1> HIDE DEF a, b
<1>4. SUFFICES ASSUME b < a PROVE FALSE
  BY <1>2, <1>3 DEF a, b
<1>5. a - b - 1 \in Nat
  BY <1>2, <1>3, <1>4
<1>6. ClusterSize * (a - b - 1) \in Nat
      /\ ClusterSize * a = ClusterSize * b + ClusterSize + ClusterSize * (a - b - 1)
  BY <1>1, <1>2, <1>3, <1>5
<1>7. ClusterSize * a \in Nat /\ ClusterSize * b \in Nat
  BY <1>1, <1>2, <1>3
<1> QED BY <1>1, <1>2, <1>3, <1>6, <1>7

(* A unit is alone at its place, and the next one lies in the same cluster *)
(* or is the first of the next.                                            *)
LEMMA NextPlace ==
  ASSUME NEW o \in Nat
  PROVE  /\ \A p \in Nat : p \div ClusterSize = o \div ClusterSize
                            /\ p % ClusterSize = o % ClusterSize => p = o
         /\ (o + 1) \div ClusterSize = IF (o % ClusterSize) + 1 = ClusterSize
                                       THEN (o \div ClusterSize) + 1 ELSE o \div ClusterSize
<1>1. ClusterSize \in Nat \ {0}
  BY UnitsAssumption
<1> DEFINE q == o \div ClusterSize
           r == o % ClusterSize
<1>2. o = ClusterSize * q + r /\ q \in Nat /\ r \in 0 .. (ClusterSize - 1)
  BY <1>1, DivMod
<1> HIDE DEF q, r
<1>3. PICK z \in Nat : z = ClusterSize * q
  BY <1>1, <1>2
<1>4. ASSUME NEW p \in Nat, p \div ClusterSize = q, p % ClusterSize = r
      PROVE  p = o
  <2>1. p = z + (p % ClusterSize) /\ p % ClusterSize \in Nat
    BY <1>3, <1>4, PlaceFacts
  <2> QED BY <1>2, <1>3, <1>4, <2>1
<1>5. CASE r + 1 = ClusterSize
  <2>1. ClusterSize * (q + 1) = z + ClusterSize
    BY <1>1, <1>2, <1>3
  <2>2. o + 1 \in Nat /\ q + 1 \in Nat /\ 0 \in 0 .. (ClusterSize - 1)
        /\ o + 1 = (z + ClusterSize) + 0
    BY <1>1, <1>2, <1>3, <1>5
  <2>3. (o + 1) \div ClusterSize = q + 1
    BY <2>1, <2>2, PlaceIs
  <2> QED BY <1>4, <1>5, <2>3 DEF q, r
<1>6. CASE r + 1 # ClusterSize
  <2>1. o + 1 \in Nat /\ r + 1 \in 0 .. (ClusterSize - 1) /\ o + 1 = z + (r + 1)
    BY <1>1, <1>2, <1>3, <1>6
  <2>2. (o + 1) \div ClusterSize = q
    BY <1>2, <1>3, <2>1, PlaceIs
  <2> QED BY <1>4, <1>6, <2>2 DEF q, r
<1> QED BY <1>5, <1>6
-----------------------------------------------------------------------------
(* What is found at an offset, in any FAT and any data area. *)

UnitIn(f, g, c, p) ==
  IF WalkIn(f, c, p \div ClusterSize) \in Clusters
  THEN g[WalkIn(f, c, p \div ClusterSize)][p % ClusterSize] ELSE Zeros

LEMMA UnitIs ==
  ASSUME NEW c, NEW p
  PROVE  UnitAt(c, p) = UnitIn(fat1, data, c, p) /\ UnitAt(c, p)' = UnitIn(fat1', data', c, p)
  BY WalkIs DEF UnitAt, UnitIn

(* The cluster of each unit of a file is found, except while it is freed. *)
Covered ==
  \A s \in Slots : IsLive(s) /\ ~(pc \in Freeing /\ s = slot) =>
    \A p \in 0 .. (item[s].size - 1) : WalkIn(fat1, item[s].first, p \div ClusterSize) \in Clusters

(* A write has come to cur along the chain, with `ahead` links to go to    *)
(* the cluster of the next unit ...                                        *)
Placed ==
  pc \in Writing =>
    /\ left = 0 => pc = "write" /\ ahead = 0
    /\ cur = 0 => at = 0 /\ ahead = 0
    /\ left > 0 /\ cur # 0 =>
         /\ ahead <= at \div ClusterSize
         /\ WalkIn(fat1, first, (at \div ClusterSize) - ahead) = cur

(* ... and all of its units up to there are found behind `first`. *)
Progress ==
  pc \in Writing => \A d \in desc :
    /\ d.pos <= at /\ d.pos < at + left
    /\ \A p \in d.pos .. (at - 1) :
         /\ WalkIn(fat1, first, p \div ClusterSize) \in Clusters
         /\ UnitIn(fat1, data, first, p) = <<d.item.name, p>>

-----------------------------------------------------------------------------
(* How a step may change the walks. *)

(* No step cuts a link but the freeing of a chain. *)
LEMMA LinksKept ==
  ASSUME TypeInv, LinkInv, [Next]_vars
  PROVE  \/ \A x \in Clusters : fat1[x] \in Clusters => fat1'[x] = fat1[x]
         \/ free_cluster_chain
<1>0. fat1 \in [Clusters -> Links]
  BY DEF TypeInv, TypeOK, DiskOK
<1>1. CASE alloc_cluster /\ ~Fails
  <2>1. PICK c \in Clusters : fat1[c] = 0 /\ fat1' = [fat1 EXCEPT ![c] = EOC]
    BY <1>1, FatFacts
  <2> QED BY <1>0, <2>1, ConstantFacts
<1>2. CASE link_cluster
  <2>1. cur \in Clusters /\ fat1[cur] = EOC /\ fat1' = [fat1 EXCEPT ![cur] = fresh]
    BY <1>2, FatFacts
  <2> QED BY <1>0, <2>1, ConstantFacts
<1> QED BY <1>1, <1>2, FatSteps

(* The walk of a running write. *)
LEMMA OwnWalk ==
  ASSUME TypeInv, LinkInv, [Next]_vars, pc \in Writing,
         NEW c, NEW n \in Nat, WalkIn(fat1, c, n) \in Clusters
  PROVE  WalkIn(fat1', c, n) = WalkIn(fat1, c, n)
<1>1. fat1 \in [Clusters -> Links] /\ fat1' \in [Clusters -> Links]
  BY NextTyped DEF TypeInv, TypeOK, DiskOK
<1>2. ~free_cluster_chain
  BY FatFacts DEF Freeing, Writing
<1>3. \A x \in Clusters : fat1[x] \in Clusters => fat1'[x] = fat1[x]
  BY <1>2, LinksKept
<1>4. \A x \in ChainIn(fat1, c) : fat1[x] \in Clusters => fat1'[x] = fat1[x]
  BY <1>3 DEF ChainIn
<1> QED BY <1>1, <1>4, WalkSame

(* The walk along a file that is not being freed. *)
LEMMA FileWalk ==
  ASSUME TypeInv, LinkInv, [Next]_vars,
         NEW s \in Slots, IsLive(s), ~(pc \in Freeing /\ s = slot),
         NEW n \in Nat, WalkIn(fat1, item[s].first, n) \in Clusters
  PROVE  WalkIn(fat1', item[s].first, n) = WalkIn(fat1, item[s].first, n)
<1> DEFINE r == item[s].first
<1>1. fat1 \in [Clusters -> Links] /\ fat1' \in [Clusters -> Links]
      /\ r \in {0} \cup Clusters
  BY NextTyped, FirstFacts DEF TypeInv, TypeOK, DiskOK
<1>2. \A x \in ChainIn(fat1, r) : fat1[x] \in Clusters => fat1'[x] = fat1[x]
  <2>1. CASE free_cluster_chain
    <3>1. /\ cur \in Clusters /\ fat1' = [fat1 EXCEPT ![cur] = 0] /\ NotTarget(cur)
          /\ pc \in Freeing
          /\ \A t \in Slots : IsLive(t) /\ t # slot => item[t].first # cur
      BY <2>1, FatFacts
    <3>2. cur \notin ChainIn(fat1, r)
      BY <1>1, <3>1, ChainAvoids DEF NotTarget
    <3> QED BY <1>1, <3>1, <3>2 DEF ChainIn
  <2>2. CASE ~free_cluster_chain
    BY <2>2, LinksKept DEF ChainIn
  <2> QED BY <2>1, <2>2
<1> QED BY <1>1, <1>2, WalkSame

-----------------------------------------------------------------------------
(* The steps by what they touch. *)

LEMMA ItemSteps ==
  ASSUME TypeInv, LinkInv, [Next]_vars
  PROVE  \/ item' = item
         \/ \E n \in Names : fopen_w_new(n) /\ FileMade(n)
         \/ truncated \/ deleted \/ written
<1>1. CASE UNCHANGED vars
  BY <1>1 DEF vars, mem
<1>2. CASE Step
  BY <1>2 DEF Step, SetFatEntry2, free_cluster_chain, next_cluster, alloc_cluster, link_cluster,
              write_cluster_data, Fails, mem
<1>3. CASE Call
  <2>1. ASSUME NEW n \in Names, fopen_w_new(n) PROVE item' = item \/ FileMade(n)
    BY <2>1 DEF fopen_w_new, FileMade, Fails, mem, WriteRootDirEntry
  <2>2. ASSUME NEW n \in Names, fopen_r(n) \/ fopen_w_exists(n) \/ fdelete(n)
        PROVE  item' = item
    BY <2>2 DEF fopen_r, fopen_w_exists, fdelete, Fails, mem
  <2>3. ASSUME NEW d \in fds, fclose(d) \/ (\E k \in 1 .. MaxWrite : fwrite(d, k) \/ fread(d, k))
                                \/ (\E o \in 0 .. MaxSize : fseek(d, o))
        PROVE  item' = item
    BY <2>3 DEF fclose, fwrite, fread, fseek, Fails, mem
  <2> QED BY <1>3, <2>1, <2>2, <2>3 DEF Call
<1>4. CASE restart
  BY <1>4 DEF restart, LinkInv
<1> QED BY <1>1, <1>2, <1>3, <1>4 DEF Next

(* A file that is being freed stays so until the call ends. *)
LEMMA FreeingSteps ==
  ASSUME Careful, pc \in Freeing, [Next]_vars
  PROVE  \/ UNCHANGED <<pc, slot, item>>
         \/ truncated \/ deleted
<1>1. CASE UNCHANGED vars
  BY <1>1 DEF vars, mem, loc
<1>2. CASE Step
  BY <1>2 DEF Step, SetFatEntry2, free_cluster_chain, next_cluster, alloc_cluster, link_cluster,
              write_cluster_data, written, At, Freeing, mem, loc
<1>3. CASE Call
  BY <1>3 DEF Call, fopen_r, fopen_w_exists, fopen_w_new, fdelete, fclose, fwrite, fread, fseek,
              At, Freeing
<1>4. CASE restart
  BY <1>4 DEF restart, Careful, Freeing
<1> QED BY <1>1, <1>2, <1>3, <1>4 DEF Next

(* A running write. *)
LEMMA WriteSteps ==
  ASSUME TypeInv, LinkInv, [Next]_vars, pc' \in Writing
  PROVE  \/ UNCHANGED <<fat1, data, pc, cur, first, ahead, at, left, desc>>
         \/ next_cluster \/ (alloc_cluster /\ ~Fails) \/ link_cluster \/ write_cluster_data
         \/ \E d \in fds, k \in 1 .. MaxWrite : fwrite(d, k) /\ ~Fails
<1>1. CASE UNCHANGED vars
  BY <1>1 DEF vars, disk, loc
<1>2. CASE Step
  <2>1. CASE SetFatEntry2
    BY <2>1 DEF SetFatEntry2, loc
  <2>2. ~free_cluster_chain
    BY FatFacts DEF Freeing, Writing
  <2>3. ~truncated /\ ~deleted /\ ~written /\ ~Fails
    BY DEF truncated, deleted, written, Fails, Done, Writing
  <2> QED BY <1>2, <2>1, <2>2, <2>3 DEF Step
<1>3. CASE Call
  <2>1. ASSUME NEW n \in Names
        PROVE  ~(fopen_r(n) \/ fopen_w_exists(n) \/ fopen_w_new(n) \/ fdelete(n))
    BY <2>1 DEF fopen_r, fopen_w_exists, fopen_w_new, fdelete, Fails, Done, Writing
  <2>2. ASSUME NEW d \in fds
        PROVE  ~(fclose(d) \/ (\E k \in 1 .. MaxWrite : fread(d, k))
                   \/ (\E o \in 0 .. MaxSize : fseek(d, o)))
    BY <2>2 DEF fclose, fread, fseek, Fails, Done, Writing
  <2>3. ~Fails
    BY DEF Fails, Done, Writing
  <2> QED BY <1>3, <2>1, <2>2, <2>3 DEF Call
<1>4. CASE restart
  BY <1>4 DEF restart, Done, Writing
<1> QED BY <1>1, <1>2, <1>3, <1>4 DEF Next

-----------------------------------------------------------------------------
LEMMA PlacedNext ==
  ASSUME TypeInv, LinkInv, WalkInv, EmptyAtStart, Careful, Placed, [Next]_vars
  PROVE  Placed'
<1>0. SUFFICES ASSUME pc' \in Writing PROVE Placed'
  BY DEF Placed
<1>1. /\ fat1 \in [Clusters -> Links] /\ fat1' \in [Clusters -> Links]
      /\ at \in Nat /\ left \in Nat /\ ahead \in Nat
      /\ cur \in {0} \cup Clusters /\ first \in {0} \cup Clusters
  BY NextTyped DEF TypeInv, TypeOK, DiskOK, CallOK
<1>2. CASE UNCHANGED <<fat1, data, pc, cur, first, ahead, at, left, desc>>
  BY <1>2 DEF Placed
<1> DEFINE q == at \div ClusterSize
<1>8. q \in Nat
  BY <1>1, PlaceFacts
<1>3. CASE next_cluster
  <2>1. /\ pc = "write" /\ ahead > 0 /\ fat1' = fat1
        /\ UNCHANGED <<first, at, left>>
        /\ \/ IsLink(fat1[cur]) /\ cur' = fat1[cur] /\ ahead' = ahead - 1 /\ pc' = pc
           \/ UNCHANGED <<cur, ahead>>
    BY <1>3 DEF next_cluster, At, disk
  <2>2. cur \in Clusters /\ pc \in Writing
    BY <1>1, <2>1 DEF TypeInv, ControlOK, Writing
  <2>3. left > 0 /\ ahead <= q /\ WalkIn(fat1, first, q - ahead) = cur
    BY <1>1, <2>1, <2>2, ConstantFacts DEF Placed
  <2>4. CASE UNCHANGED <<cur, ahead>>
    BY <2>1, <2>2, <2>3, <2>4, <1>1, ConstantFacts DEF Placed
  <2>5. CASE IsLink(fat1[cur]) /\ cur' = fat1[cur] /\ ahead' = ahead - 1 /\ pc' = pc
    <3>1. fat1[cur] \in Clusters
      BY <1>1, <2>2, <2>5, ConstantFacts
    <3>2. q - ahead \in Nat /\ (q - ahead) + 1 = q - (ahead - 1) /\ ahead - 1 <= q
      BY <1>1, <1>8, <2>1, <2>3
    <3>3. WalkIn(fat1, first, (q - ahead) + 1) = Onward(fat1, cur)
      BY <2>3, <3>2, WalkStep
    <3>4. WalkIn(fat1, first, q - (ahead - 1)) = fat1[cur]
      BY <1>1, <2>2, <3>1, <3>2, <3>3, OnwardFacts
    <3> QED BY <2>1, <2>3, <2>5, <3>1, <3>2, <3>4, ConstantFacts DEF Placed
  <2> QED BY <2>1, <2>4, <2>5
<1>4. CASE alloc_cluster /\ ~Fails
  <2>1. PICK c \in Clusters :
          /\ pc = "alloc"
          /\ \/ cur # 0 /\ pc' = "link" /\ fresh' = c /\ UNCHANGED <<cur, first>>
             \/ cur = 0 /\ pc' = "write" /\ cur' = c /\ first' = c
          /\ UNCHANGED <<ahead, at, left>>
    BY <1>4, FatFacts
  <2>2. pc \in Writing /\ left # 0
    BY <2>1 DEF Placed, Writing
  <2>3. CASE cur = 0
    <3>1. at = 0 /\ ahead = 0
      BY <2>2, <2>3 DEF Placed
    <3>2. q = 0
      <4>1. ClusterSize * 0 + 0 = 0 /\ 0 \in 0 .. (ClusterSize - 1)
        BY UnitsAssumption
      <4> QED BY <3>1, <4>1, PlaceIs
    <3>3. q - 0 = 0
      BY <3>2
    <3>4. WalkIn(fat1', c, 0) = c
      BY WalkStep
    <3> QED BY <2>1, <2>2, <2>3, <3>1, <3>2, <3>3, <3>4, ConstantFacts DEF Placed
  <2>4. CASE cur # 0
    <3>1. left > 0 /\ ahead <= q /\ WalkIn(fat1, first, q - ahead) = cur
      BY <1>1, <2>2, <2>4 DEF Placed
    <3>2. q - ahead \in Nat /\ cur \in Clusters
      BY <1>1, <1>8, <2>4, <3>1
    <3>3. WalkIn(fat1', first, q - ahead) = cur
      BY <2>2, <3>1, <3>2, OwnWalk
    <3> QED BY <2>1, <2>2, <2>4, <3>1, <3>3 DEF Placed
  <2> QED BY <2>3, <2>4
<1>5. CASE link_cluster
  <2>1. /\ pc = "link" /\ pc' = "write" /\ cur \in Clusters /\ fresh \in Clusters
        /\ fat1' = [fat1 EXCEPT ![cur] = fresh] /\ cur' = fresh
        /\ UNCHANGED <<first, at, left>>
    BY <1>5, FatFacts
  <2>2. ahead' = ahead - 1 /\ ahead > 0
    BY <1>5, <2>1 DEF link_cluster, TypeInv, ControlOK
  <2>3. pc \in Writing /\ left # 0 /\ cur # 0 /\ cur' # 0
    BY <2>1, ConstantFacts DEF Placed, Writing
  <2>4. left > 0 /\ ahead <= q /\ WalkIn(fat1, first, q - ahead) = cur
    BY <1>1, <2>3 DEF Placed
  <2>5. q - ahead \in Nat /\ (q - ahead) + 1 = q - (ahead - 1) /\ ahead - 1 <= q
    BY <1>1, <1>8, <2>2, <2>4
  <2>6. WalkIn(fat1', first, q - ahead) = cur
    BY <2>1, <2>3, <2>4, <2>5, OwnWalk
  <2>7. WalkIn(fat1', first, (q - ahead) + 1) = Onward(fat1', cur)
    BY <2>5, <2>6, WalkStep
  <2>8. fat1'[cur] = fresh
    BY <1>1, <2>1
  <2>9. WalkIn(fat1', first, q - (ahead - 1)) = fresh
    BY <1>1, <2>1, <2>5, <2>7, <2>8, OnwardFacts
  <2> QED BY <2>1, <2>2, <2>3, <2>4, <2>5, <2>9 DEF Placed
<1>6. CASE write_cluster_data
  <2>1. /\ pc = "write" /\ pc' = pc /\ ahead = 0 /\ left > 0
        /\ at' = at + 1 /\ left' = left - 1
        /\ ahead' = (IF left > 1 /\ (at % ClusterSize) + 1 = ClusterSize THEN 1 ELSE 0)
        /\ UNCHANGED <<fat1, cur, first>>
    BY <1>6 DEF write_cluster_data, At
  <2>2. cur # 0 /\ pc \in Writing
    BY <2>1 DEF TypeInv, ControlOK, Writing
  <2>3. WalkIn(fat1, first, q - 0) = cur
    BY <2>1, <2>2 DEF Placed
  <2>4. WalkIn(fat1, first, q) = cur
    BY <1>8, <2>3
  <2>5. (at + 1) \div ClusterSize = IF (at % ClusterSize) + 1 = ClusterSize THEN q + 1 ELSE q
    BY <1>1, NextPlace
  <2>6. CASE left > 1 /\ (at % ClusterSize) + 1 = ClusterSize
    <3>1. 1 <= q + 1 /\ (q + 1) - 1 = q /\ left - 1 > 0
      BY <1>1, <1>8, <2>6
    <3> HIDE DEF q
    <3> QED BY <2>1, <2>2, <2>4, <2>5, <2>6, <3>1 DEF Placed
  <2>7. CASE left > 1 /\ (at % ClusterSize) + 1 # ClusterSize
    <3>1. 0 <= q /\ q - 0 = q /\ left - 1 > 0
      BY <1>1, <1>8, <2>7
    <3> HIDE DEF q
    <3> QED BY <2>1, <2>2, <2>4, <2>5, <2>7, <3>1 DEF Placed
  <2>8. CASE ~(left > 1)
    <3>1. left - 1 = 0
      BY <1>1, <2>1, <2>8
    <3> QED BY <2>1, <2>2, <2>8, <3>1 DEF Placed
  <2> QED BY <2>6, <2>7, <2>8
<1>7. ASSUME NEW d \in fds, NEW k \in 1 .. MaxWrite, fwrite(d, k), ~Fails
      PROVE  Placed'
  <2>1. /\ pc' = (IF d.item.first = 0 THEN "alloc" ELSE "write")
        /\ cur' = d.item.first /\ first' = d.item.first /\ at' = d.pos /\ left' = k
        /\ ahead' = (IF d.item.first = 0 THEN 0 ELSE d.pos \div ClusterSize)
        /\ d.slot # NONE
    BY <1>7 DEF fwrite, Careful
  <2>2. d.pos \in Nat
    BY DEF TypeInv, TypeOK, MemOK, Descs
  <2>3. k > 0 /\ k # 0
    BY UnitsAssumption
  <2>4. CASE d.item.first = 0
    <3>1. d.pos = 0
      BY <2>1, <2>4 DEF EmptyAtStart
    <3> QED BY <2>1, <2>3, <2>4, <3>1 DEF Placed
  <2>5. CASE d.item.first # 0
    <3>1. (d.pos \div ClusterSize) - (d.pos \div ClusterSize) = 0
          /\ d.pos \div ClusterSize <= d.pos \div ClusterSize
      BY <2>2, PlaceFacts
    <3>2. WalkIn(fat1', d.item.first, 0) = d.item.first
      BY WalkStep
    <3> QED BY <2>1, <2>3, <2>5, <3>1, <3>2 DEF Placed
  <2> QED BY <2>4, <2>5
<1> QED BY <1>0, <1>2, <1>3, <1>4, <1>5, <1>6, <1>7, WriteSteps

LEMMA CoveredNext ==
  ASSUME Careful, TypeInv, LinkInv, WalkInv, Covered, Placed, Progress, [Next]_vars
  PROVE  Covered'
<1>0. /\ item \in [Slots -> Entries] /\ item' \in [Slots -> Entries]
      /\ fat1 \in [Clusters -> Links] /\ at \in Nat /\ left \in Nat
  BY NextTyped DEF TypeInv, TypeOK, DiskOK, MemOK, CallOK
<1> SUFFICES ASSUME NEW t \in Slots, item'[t].st = "live", ~(pc' \in Freeing /\ t = slot'),
                    NEW p \in 0 .. (item'[t].size - 1)
             PROVE  WalkIn(fat1', item'[t].first, p \div ClusterSize) \in Clusters
  BY DEF Covered, IsLive
<1>1. item'[t].size \in Nat /\ item[t].size \in Nat
  BY <1>0 DEF Entries
<1>2. p \in Nat /\ p < item'[t].size /\ p \div ClusterSize \in Nat
  BY <1>1, PlaceFacts
<1>3. CASE item'[t] = item[t] /\ ~(pc \in Freeing /\ t = slot)
  <2>1. IsLive(t) /\ WalkIn(fat1, item[t].first, p \div ClusterSize) \in Clusters
    BY <1>3 DEF Covered, IsLive
  <2> QED BY <1>2, <1>3, <2>1, FileWalk
<1>4. CASE pc \in Freeing /\ t = slot
  <2>1. CASE UNCHANGED <<pc, slot, item>>
    BY <1>4, <2>1
  <2>2. CASE truncated
    <3>1. item'[t].size = 0
      BY <1>0, <1>4, <2>2 DEF truncated, WriteRootDirEntry, Entries
    <3> QED BY <1>2, <3>1
  <2>3. CASE deleted
    <3>1. item'[t].st = "deleted"
      BY <1>0, <1>4, <2>3 DEF deleted, WriteRootDirEntry, Deleted
    <3> QED BY <3>1
  <2> QED BY <1>4, <2>1, <2>2, <2>3, FreeingSteps
<1>5. CASE ~(pc \in Freeing /\ t = slot) /\ item'[t] # item[t]
  <2>1. ASSUME NEW n \in Names, FileMade(n) PROVE item'[t].size = 0
    <3>1. Min(FreeSlots) \in Slots
      BY <2>1, SearchFacts DEF FileMade, FreeSlots
    <3> QED BY <1>0, <1>5, <2>1, <3>1 DEF FileMade, NewEntry
  <2>2. ~truncated /\ ~deleted
    <3>1. pc \in Freeing => t # slot
      BY <1>5
    <3> QED BY <1>0, <1>5, <3>1 DEF truncated, deleted, WriteRootDirEntry, At, Freeing
  <2>3. CASE written
    <3>1. pc \in Writing /\ left = 0 /\ fat1' = fat1
      BY <2>3 DEF written, At, Writing
    <3>2. PICK d \in fds : /\ desc = {d}
                           /\ d.slot \in Slots /\ IsLive(d.slot) /\ item[d.slot] = d.item
                           /\ d.item \in Entries
                           /\ first # d.item.first => d.item.first = 0
      BY <3>1, WriterFacts
    <3>3. PICK e : e = [d.item EXCEPT !.first = first,
                                      !.size  = IF at > d.item.size THEN at ELSE d.item.size]
      OBVIOUS
    <3>4. d.slot # NONE
      BY <3>2, ConstantFacts DEF NONE
    <3>5. item' = [item EXCEPT ![d.slot] = e]
      BY <2>3, <3>2, <3>3, <3>4 DEF written, WriteRootDirEntry
    <3>6. t = d.slot /\ item'[t] = e
      BY <1>0, <1>5, <3>2, <3>5
    <3>7. e.first = first /\ e.size = (IF at > d.item.size THEN at ELSE d.item.size)
      BY <3>2, <3>3 DEF Entries
    <3>8. d.pos \in Nat /\ d.item.size \in Nat
      BY <3>2 DEF TypeInv, TypeOK, MemOK, Descs, Entries
    <3>9. CASE p < at
      <4>1. d.pos < at + left
        BY <3>1, <3>2 DEF Progress
      <4>2. at - 1 \in d.pos .. (at - 1) /\ at - 1 \in Nat /\ p <= at - 1
        BY <1>0, <1>2, <3>1, <3>8, <3>9, <4>1
      <4>3. WalkIn(fat1, first, (at - 1) \div ClusterSize) \in Clusters
        BY <3>1, <3>2, <4>2 DEF Progress
      <4>4. p \div ClusterSize <= (at - 1) \div ClusterSize /\ (at - 1) \div ClusterSize \in Nat
        BY <1>2, <4>2, PlaceMono, PlaceFacts
      <4>5. p \div ClusterSize \in 0 .. ((at - 1) \div ClusterSize)
        BY <1>2, <4>4
      <4>6. WalkIn(fat1, first, p \div ClusterSize) \in Clusters
        BY <1>0, <4>3, <4>4, <4>5, WalkDown
      <4> QED BY <3>1, <3>6, <3>7, <4>6
    <3>10. CASE ~(p < at)
      <4>1. p \in 0 .. (d.item.size - 1)
        BY <1>0, <1>2, <3>6, <3>7, <3>8, <3>10
      <4>2. WalkIn(fat1, d.item.first, p \div ClusterSize) \in Clusters
        BY <1>5, <3>2, <3>6, <4>1 DEF Covered
      <4>3. d.item.first # 0
        BY <1>0, <1>2, <4>2, NoWalk
      <4> QED BY <3>1, <3>2, <3>6, <3>7, <4>2, <4>3
    <3> QED BY <3>9, <3>10
  <2> QED BY <1>2, <1>5, <2>1, <2>2, <2>3, ItemSteps
<1> QED BY <1>3, <1>4, <1>5

-----------------------------------------------------------------------------
(* What a data write does to the file it writes, and to the others. *)
LEMMA DataWritten ==
  ASSUME TypeInv, LinkInv, WalkInv, Placed, write_cluster_data
  PROVE  \E d \in fds :
           /\ desc = {d} /\ left > 0 /\ at' = at + 1 /\ left' = left - 1
           /\ cur \in Clusters
           /\ UNCHANGED <<fat1, item, pc, slot, first, desc>>
           /\ \A c \in Clusters : c # cur => data'[c] = data[c]
           /\ WalkIn(fat1, first, at \div ClusterSize) = cur
           /\ \A p \in Nat : WalkIn(fat1, first, p \div ClusterSize) \in Clusters =>
                UnitIn(fat1, data', first, p) = IF p = at THEN <<d.item.name, p>>
                                                ELSE UnitIn(fat1, data, first, p)
<1> DEFINE q == at \div ClusterSize
           r == at % ClusterSize
<1>1. /\ pc = "write" /\ ahead = 0 /\ left > 0 /\ cur # 0 /\ pc \in Writing
      /\ at' = at + 1 /\ left' = left - 1
      /\ UNCHANGED <<fat1, item, pc, slot, first, desc>>
  BY DEF write_cluster_data, At, TypeInv, ControlOK, Writing, mem
<1>2. PICK d \in fds : /\ desc = {d}
                       /\ d.slot \in Slots /\ IsLive(d.slot) /\ item[d.slot] = d.item
                       /\ first # d.item.first => d.item.first = 0 /\ Unowned(first)
  BY <1>1, WriterFacts
<1>3. /\ fat1 \in [Clusters -> Links] /\ data \in [Clusters -> [Offsets -> Units]]
      /\ at \in Nat /\ left \in Nat
      /\ cur \in Clusters /\ first \in {0} \cup Clusters
  BY <1>1 DEF TypeInv, TypeOK, DiskOK, CallOK
<1>4. q \in Nat /\ r \in Offsets
  BY <1>3, PlaceFacts
<1>5. data' = [data EXCEPT ![cur] = [u \in Offsets |-> IF u = r THEN <<d.item.name, at>>
                                                       ELSE data[cur][u]]]
  BY <1>2 DEF write_cluster_data
<1>6. \A u \in Offsets : data'[cur][u] = IF u = r THEN <<d.item.name, at>> ELSE data[cur][u]
  <2> HIDE DEF r
  <2> QED BY <1>3, <1>5
<1>7. first # 0 /\ NotTarget(first)
  <2>1. first # 0
    BY <1>1, FirstSet
  <2> QED BY <1>2, <2>1, FirstFacts DEF Unowned
<1>8. WalkIn(fat1, first, q) = cur
  <2>1. WalkIn(fat1, first, q - 0) = cur
    BY <1>1 DEF Placed
  <2> QED BY <1>4, <2>1
<1>9. \A c \in Clusters : c # cur => data'[c] = data[c]
  BY <1>3, <1>5
<1>10. \A p \in Nat : p \div ClusterSize = q /\ p % ClusterSize = r => p = at
  BY <1>3, NextPlace
<1>11. ASSUME NEW p \in Nat, WalkIn(fat1, first, p \div ClusterSize) \in Clusters
       PROVE  UnitIn(fat1, data', first, p) = IF p = at THEN <<d.item.name, p>>
                                              ELSE UnitIn(fat1, data, first, p)
  <2>1. p \div ClusterSize \in Nat /\ p % ClusterSize \in Offsets
    BY PlaceFacts
  <2>2. CASE p = at
    <3>1. data'[cur][p % ClusterSize] = <<d.item.name, p>>
      BY <1>4, <1>6, <2>2
    <3> QED BY <1>8, <1>11, <2>2, <3>1 DEF UnitIn
  <2>3. CASE p # at
    <3>1. CASE p \div ClusterSize = q
      <4>1. p % ClusterSize # r
        BY <1>10, <2>3, <3>1
      <4>2. data'[cur][p % ClusterSize] = data[cur][p % ClusterSize]
        BY <1>6, <2>1, <4>1
      <4> QED BY <1>8, <1>11, <2>3, <3>1, <4>2 DEF UnitIn
    <3>2. CASE p \div ClusterSize # q
      <4>1. \A x, y \in Clusters : fat1[x] \in Clusters /\ fat1[x] = fat1[y] => x = y
        BY DEF LinkInv, NoCrossLink
      <4>2. \A x \in Clusters : fat1[x] # first
        BY <1>7 DEF NotTarget
      <4>3. WalkIn(fat1, first, p \div ClusterSize) # cur
        <5> HIDE DEF q
        <5> QED BY <1>3, <1>4, <1>8, <1>11, <2>1, <3>2, <4>1, <4>2, WalkOnce
      <4> QED BY <1>9, <1>11, <2>3, <4>3 DEF UnitIn
    <3> QED BY <3>1, <3>2
  <2> QED BY <2>2, <2>3
<1> QED BY <1>1, <1>2, <1>3, <1>8, <1>9, <1>11

LEMMA ProgressNext ==
  ASSUME TypeInv, LinkInv, WalkInv, Placed, Progress, [Next]_vars
  PROVE  Progress'
<1>0. SUFFICES ASSUME pc' \in Writing PROVE Progress'
  BY DEF Progress
<1>1. /\ at \in Nat /\ left \in Nat /\ desc \subseteq Descs
      /\ \A d \in Descs : d.pos \in Nat
  BY DEF TypeInv, TypeOK, CallOK, Descs
<1>2. CASE UNCHANGED <<fat1, data, pc, cur, first, ahead, at, left, desc>>
  BY <1>2 DEF Progress
<1>3. CASE pc \in Writing /\ UNCHANGED <<data, first, at, left, desc>>
  <2>1. ASSUME NEW d \in desc, NEW p \in d.pos .. (at - 1)
        PROVE  /\ WalkIn(fat1', first, p \div ClusterSize) \in Clusters
               /\ UnitIn(fat1', data, first, p) = <<d.item.name, p>>
    <3>1. /\ WalkIn(fat1, first, p \div ClusterSize) \in Clusters
          /\ UnitIn(fat1, data, first, p) = <<d.item.name, p>>
      BY <1>3, <2>1 DEF Progress
    <3>2. p \in Nat /\ p \div ClusterSize \in Nat
      BY <1>1, PlaceFacts
    <3>3. WalkIn(fat1', first, p \div ClusterSize) = WalkIn(fat1, first, p \div ClusterSize)
      BY <1>3, <3>1, <3>2, OwnWalk
    <3> QED BY <3>1, <3>3 DEF UnitIn
  <2> QED BY <1>3, <2>1 DEF Progress
<1>4. CASE next_cluster
  BY <1>3, <1>4 DEF next_cluster, At, Writing, disk
<1>5. CASE alloc_cluster /\ ~Fails
  <2>1. /\ pc \in Writing /\ data' = data /\ UNCHANGED <<at, left, desc>>
        /\ (cur # 0 => first' = first)
    BY <1>5, FatFacts DEF alloc_cluster, Writing
  <2>2. CASE cur # 0
    BY <1>3, <2>1, <2>2
  <2>3. CASE cur = 0
    <3>1. at = 0
      BY <2>1, <2>3 DEF Placed
    <3>2. \A d \in desc : d.pos <= at /\ d.pos < at + left /\ d.pos .. (at - 1) = {}
      BY <1>1, <2>1, <3>1 DEF Progress
    <3> QED BY <2>1, <3>2 DEF Progress
  <2> QED BY <2>2, <2>3
<1>6. CASE link_cluster
  BY <1>3, <1>6 DEF link_cluster, At, Writing
<1>7. CASE write_cluster_data
  <2>1. PICK d \in fds :
           /\ desc = {d} /\ left > 0 /\ at' = at + 1 /\ left' = left - 1
           /\ cur \in Clusters
           /\ UNCHANGED <<fat1, item, pc, slot, first, desc>>
           /\ WalkIn(fat1, first, at \div ClusterSize) = cur
           /\ \A p \in Nat : WalkIn(fat1, first, p \div ClusterSize) \in Clusters =>
                UnitIn(fat1, data', first, p) = IF p = at THEN <<d.item.name, p>>
                                                ELSE UnitIn(fat1, data, first, p)
    BY <1>7, DataWritten
  <2>2. d.pos \in Nat /\ d.pos <= at /\ d.pos < at + left /\ pc \in Writing
    BY <1>0, <1>1, <2>1 DEF Progress
  <2>3. d.pos <= at + 1 /\ d.pos < (at + 1) + (left - 1)
    BY <1>1, <2>1, <2>2
  <2>4. ASSUME NEW p \in d.pos .. ((at + 1) - 1)
        PROVE  /\ WalkIn(fat1, first, p \div ClusterSize) \in Clusters
               /\ UnitIn(fat1, data', first, p) = <<d.item.name, p>>
    <3>1. p \in Nat
      BY <2>2
    <3>2. CASE p = at
      BY <2>1, <3>1, <3>2
    <3>3. CASE p # at
      <4>1. p \in d.pos .. (at - 1)
        BY <1>1, <2>2, <3>3
      <4>2. /\ WalkIn(fat1, first, p \div ClusterSize) \in Clusters
            /\ UnitIn(fat1, data, first, p) = <<d.item.name, p>>
        BY <2>1, <2>2, <4>1 DEF Progress
      <4> QED BY <2>1, <3>1, <3>3, <4>2
    <3> QED BY <3>2, <3>3
  <2> QED BY <2>1, <2>3, <2>4 DEF Progress
<1>8. ASSUME NEW d \in fds, NEW k \in 1 .. MaxWrite, fwrite(d, k), ~Fails
      PROVE  Progress'
  <2>1. at' = d.pos /\ left' = k /\ desc' = {d} /\ d.pos \in Nat
    BY <1>8 DEF fwrite, TypeInv, TypeOK, MemOK, Descs
  <2>2. d.pos <= d.pos /\ d.pos < d.pos + k /\ d.pos .. (d.pos - 1) = {}
    BY <2>1, UnitsAssumption
  <2> QED BY <2>1, <2>2 DEF Progress
<1> QED BY <1>0, <1>2, <1>4, <1>5, <1>6, <1>7, <1>8, WriteSteps

-----------------------------------------------------------------------------
(* The files of the store, slot by slot. *)

View == [s \in Shown |-> <<item[s].name, FileAt(s)>>]

NoUnits == [p \in {} |-> 0]
Reads(f, g, e) == [p \in 0 .. (e.size - 1) |-> UnitIn(f, g, e.first, p)]

(* What a slot shows. *)
ViewOK ==
  /\ DOMAIN View \subseteq Slots
  /\ \A s \in Slots : s \in DOMAIN View <=> IsLive(s) /\ ~(pc = "delete" /\ s = slot)
  /\ \A s \in DOMAIN View :
       View[s] = <<item[s].name, IF pc = "truncate" /\ s = slot THEN NoUnits
                                 ELSE Reads(fat1, data, item[s])>>
  /\ View = [s \in DOMAIN View |-> View[s]]

(* F has the files of V, one for each slot. *)
Shows(F, V) ==
  /\ \A n : n \in DOMAIN F <=> \E s \in DOMAIN V : V[s][1] = n
  /\ \A s \in DOMAIN V : F[V[s][1]] = V[s][2]
  /\ F = [n \in DOMAIN F |-> F[n]]

FilesOK == Shows(Files, View)

LEMMA ViewFacts == ViewOK
<1>1. \A s \in Shown : FileAt(s) = IF pc = "truncate" /\ s = slot THEN NoUnits
                                    ELSE Reads(fat1, data, item[s])
  BY UnitIs DEF FileAt, Contents, NoUnits, Reads
<1> QED BY <1>1 DEF ViewOK, View, Shown

LEMMA FilesFacts ==
  ASSUME UniqueNames
  PROVE  FilesOK
<1>1. \A n : n \in DOMAIN Files <=> \E s \in Shown : item[s].name = n
  BY DEF Files
<1>2. DOMAIN View = Shown /\ \A s \in Shown : View[s][1] = item[s].name /\ View[s][2] = FileAt(s)
  BY DEF View
<1>3. ASSUME NEW s \in Shown PROVE Files[item[s].name] = FileAt(s)
  <2> DEFINE S == {t \in Shown : item[t].name = item[s].name}
  <2>1. S = {s}
    BY DEF Shown, UniqueNames
  <2>2. s \in Nat
    BY ConstantFacts DEF Shown
  <2>3. Min(S) = s
    <3>1. {s} \subseteq Nat /\ {s} # {}
      BY <2>2
    <3>2. Min({s}) \in {s}
      BY <3>1, MinIn
    <3> QED BY <2>1, <3>2
  <2> QED BY <2>3 DEF Files
<1>4. Files = [n \in DOMAIN Files |-> Files[n]]
  BY DEF Files
<1> QED BY <1>1, <1>2, <1>3, <1>4 DEF FilesOK, Shows

LEMMA SameFiles ==
  ASSUME NEW F, NEW G, NEW V, Shows(F, V), Shows(G, V)
  PROVE  G = F
<1>1. DOMAIN G = DOMAIN F
  BY DEF Shows
<1>2. ASSUME NEW n \in DOMAIN F PROVE G[n] = F[n]
  BY DEF Shows
<1> QED BY <1>1, <1>2 DEF Shows

(* A file becomes empty, be it there or not. *)
LEMMA FileOpened ==
  ASSUME NEW F, NEW G, NEW V, NEW W, Shows(F, V), Shows(G, W), NEW s, NEW n,
         DOMAIN W = DOMAIN V \cup {s}, W[s] = <<n, NoUnits>>,
         \A t \in DOMAIN V : t # s => W[t] = V[t],
         \A t \in DOMAIN V : t = s <=> V[t][1] = n
  PROVE  G = [m \in DOMAIN F \cup {n} |-> IF m = n THEN NoUnits ELSE F[m]]
<1>0. W[s][1] = n /\ W[s][2] = NoUnits
  OBVIOUS
<1>1. \A m : m \in DOMAIN G <=> m \in DOMAIN F \cup {n}
  BY <1>0 DEF Shows
<1>2. ASSUME NEW m \in DOMAIN F \cup {n} PROVE G[m] = IF m = n THEN NoUnits ELSE F[m]
  BY <1>0 DEF Shows
<1>3. DOMAIN G = DOMAIN F \cup {n}
  BY <1>1
<1>4. G = [m \in DOMAIN G |-> G[m]]
  BY DEF Shows
<1> QED BY <1>2, <1>3, <1>4

LEMMA FileDeleted ==
  ASSUME NEW F, NEW G, NEW V, NEW W, Shows(F, V), Shows(G, W), NEW s \in DOMAIN V,
         DOMAIN W = DOMAIN V \ {s},
         \A t \in DOMAIN W : W[t] = V[t],
         \A t \in DOMAIN V : V[t][1] = V[s][1] => t = s
  PROVE  /\ V[s][1] \in DOMAIN F
         /\ G = [m \in DOMAIN F \ {V[s][1]} |-> F[m]]
<1>1. \A m : m \in DOMAIN G <=> m \in DOMAIN F \ {V[s][1]}
  BY DEF Shows
<1>2. ASSUME NEW m \in DOMAIN F \ {V[s][1]} PROVE G[m] = F[m]
  BY DEF Shows
<1>3. DOMAIN G = DOMAIN F \ {V[s][1]}
  BY <1>1
<1>4. G = [m \in DOMAIN G |-> G[m]] /\ V[s][1] \in DOMAIN F
  BY DEF Shows
<1> QED BY <1>2, <1>3, <1>4

LEMMA FileChanged ==
  ASSUME NEW F, NEW G, NEW V, NEW W, Shows(F, V), Shows(G, W), NEW s \in DOMAIN V, NEW n,
         DOMAIN W = DOMAIN V, V[s][1] = n, W[s][1] = n,
         \A t \in DOMAIN V : t # s => W[t] = V[t],
         \A t \in DOMAIN V : V[t][1] = n => t = s
  PROVE  /\ n \in DOMAIN F /\ F[n] = V[s][2] /\ G[n] = W[s][2] /\ n \in DOMAIN G
         /\ G = [F EXCEPT ![n] = G[n]]
<1>1. \A m : m \in DOMAIN G <=> m \in DOMAIN F
  BY DEF Shows
<1>2. n \in DOMAIN F /\ F[n] = V[s][2] /\ G[n] = W[s][2] /\ n \in DOMAIN G
  BY DEF Shows
<1>3. ASSUME NEW m \in DOMAIN F, m # n PROVE G[m] = F[m]
  BY <1>3 DEF Shows
<1>4. F = [m \in DOMAIN F |-> F[m]] /\ G = [m \in DOMAIN G |-> G[m]]
  BY DEF Shows
<1>5. DOMAIN G = DOMAIN F
  BY <1>1
<1>6. [F EXCEPT ![n] = G[n]] = [m \in DOMAIN F |-> IF m = n THEN G[n] ELSE F[m]]
  BY <1>4
<1> QED BY <1>2, <1>3, <1>4, <1>5, <1>6

-----------------------------------------------------------------------------
(* The store's operations, as the lemmas above give them. *)
LEMMA StoreOpen ==
  ASSUME NEW n \in Names,
         Files' = [m \in DOMAIN Files \cup {n} |-> IF m = n THEN NoUnits ELSE Files[m]]
  PROVE  Store!Next
  BY DEF Store!Next, Store!Open, Store!Empty, NoUnits

LEMMA StoreDelete ==
  ASSUME NEW n \in Names, n \in DOMAIN Files,
         Files' = [m \in DOMAIN Files \ {n} |-> Files[m]]
  PROVE  Store!Next
  BY DEF Store!Next, Store!Delete, Store!Exists

LEMMA StoreWrite ==
  ASSUME NEW n \in Names, n \in DOMAIN Files, n \in DOMAIN Files',
         NEW o \in Nat, NEW l \in Nat, o <= l,
         NEW z \in Nat, DOMAIN Files[n] = 0 .. (z - 1),
         NEW y \in Nat, DOMAIN Files'[n] = 0 .. (y - 1),
         y = IF l + 1 > z THEN l + 1 ELSE z,
         \A p \in o .. l : Files'[n][p] = <<n, p>>,
         \A p \in 0 .. (z - 1) : p \notin o .. l => Files'[n][p] = Files[n][p],
         Files' = [Files EXCEPT ![n] = Files'[n]]
  PROVE  Store!Next
<1>1. 0 .. (y - 1) = (0 .. (z - 1)) \cup (0 .. l) /\ o \in 0 .. (y - 1) /\ l \in 0 .. (y - 1)
  OBVIOUS
<1>2. Store!Write(n, o, l)
  BY <1>1 DEF Store!Write, UnitOf
<1> QED BY <1>1, <1>2 DEF Store!Next, Store!Exists

-----------------------------------------------------------------------------
(* The steps by what they show. *)
LEMMA ViewSteps ==
  ASSUME Careful, TypeInv, LinkInv, [Next]_vars
  PROVE  \/ item' = item /\ data' = data /\ pc \notin Freeing /\ pc' \notin Freeing
         \/ pc \in Freeing /\ UNCHANGED <<item, data, pc, slot>>
         \/ truncated \/ deleted \/ write_cluster_data \/ written
         \/ \E n \in Names : fopen_w_exists(n) \/ (fopen_w_new(n) /\ FileMade(n))
                               \/ (fdelete(n) /\ SlotsNamed(n) # {})
<1>1. CASE UNCHANGED vars
  BY <1>1 DEF vars, disk, mem, loc
<1>2. CASE Step
  <2>1. CASE SetFatEntry2
    BY <2>1 DEF SetFatEntry2, mem, loc
  <2>2. CASE free_cluster_chain
    BY <2>2, FatFacts DEF free_cluster_chain
  <2>3. CASE next_cluster \/ alloc_cluster \/ link_cluster
    BY <2>3 DEF next_cluster, alloc_cluster, link_cluster, At, Freeing, Fails, Done, disk, mem
  <2> QED BY <1>2, <2>1, <2>2, <2>3 DEF Step
<1>3. CASE Call
  <2>1. pc \notin Freeing
    BY <1>3 DEF Call, fopen_r, fopen_w_exists, fopen_w_new, fdelete, fclose, fwrite, fread, fseek,
                At, Freeing
  <2>2. CASE Fails
    BY <2>1, <2>2 DEF Fails, Done, disk, mem, Freeing
  <2>3. ASSUME NEW n \in Names, fopen_w_new(n), ~Fails PROVE FileMade(n)
    BY <2>3 DEF fopen_w_new, FileMade, WriteRootDirEntry
  <2>4. ASSUME NEW n \in Names, fdelete(n), ~Fails PROVE SlotsNamed(n) # {}
    BY <2>4 DEF fdelete
  <2>5. ASSUME NEW n \in Names, fopen_r(n), ~Fails
        PROVE  item' = item /\ data' = data /\ pc' \notin Freeing
    BY <2>5 DEF fopen_r, Done, Freeing, disk
  <2>6. ASSUME NEW d \in fds, fclose(d) \/ (\E k \in 1 .. MaxWrite : fwrite(d, k) \/ fread(d, k))
                                \/ (\E o \in 0 .. MaxSize : fseek(d, o)), ~Fails
        PROVE  item' = item /\ data' = data /\ pc' \notin Freeing
    BY <2>6 DEF fclose, fwrite, fread, fseek, Done, Freeing, disk, mem
  <2> QED BY <1>3, <2>1, <2>2, <2>3, <2>4, <2>5, <2>6 DEF Call
<1>4. CASE restart
  BY <1>4 DEF restart, Careful, LinkInv, Done, Freeing
<1> QED BY <1>1, <1>2, <1>3, <1>4 DEF Next

(* The chain of a running write is no other file's. *)
LEMMA OwnChainApart ==
  ASSUME TypeInv, LinkInv, pc \in Writing, first # 0, NEW t \in Slots, IsLive(t), t \notin Busy
  PROVE  ChainIn(fat1, first) \cap ChainIn(fat1, item[t].first) = {}
<1> DEFINE r == item[t].first
<1>1. r \in {0} \cup Clusters /\ (r # 0 => NotTarget(r)) /\ first \in {0} \cup Clusters
  BY FirstFacts DEF TypeInv, TypeOK, CallOK
<1>2. PICK d \in fds : /\ desc = {d} /\ d.slot \in Slots
                       /\ IsLive(d.slot) /\ item[d.slot] = d.item
                       /\ first # d.item.first => d.item.first = 0 /\ Unowned(first)
  BY WriterFacts
<1>3. t # d.slot
  BY <1>2 DEF Busy, Freeing, Writing
<1>4. NotTarget(first) /\ first # r
  <2>1. CASE first = d.item.first
    BY <1>2, <1>3, <2>1, FirstFacts DEF LinkInv, NoCrossLink
  <2>2. CASE first # d.item.first
    BY <1>2, <2>2 DEF Unowned
  <2> QED BY <2>1, <2>2
<1>5. \A x, y \in Clusters : fat1[x] \in Clusters /\ fat1[x] = fat1[y] => x = y
  BY DEF LinkInv, NoCrossLink
<1> QED BY <1>1, <1>4, <1>5, ChainsDisjoint DEF NotTarget

(* What is read of a file that the step does not write. *)
LEMMA ReadsKept ==
  ASSUME TypeInv, LinkInv, WalkInv, Placed, Covered, [Next]_vars,
         NEW t \in Slots, IsLive(t), ~(pc \in Freeing /\ t = slot),
         data' = data \/ (write_cluster_data /\ t \notin Busy)
  PROVE  Reads(fat1', data', item[t]) = Reads(fat1, data, item[t])
<1>1. ASSUME NEW p \in 0 .. (item[t].size - 1)
      PROVE  UnitIn(fat1', data', item[t].first, p) = UnitIn(fat1, data, item[t].first, p)
  <2> DEFINE k == WalkIn(fat1, item[t].first, p \div ClusterSize)
  <2>1. item[t].size \in Nat
    BY DEF TypeInv, TypeOK, MemOK, Entries
  <2>2. p \in Nat /\ p \div ClusterSize \in Nat
    BY <2>1, PlaceFacts
  <2>3. k \in Clusters
    BY DEF Covered
  <2>4. WalkIn(fat1', item[t].first, p \div ClusterSize) = k
    BY <2>2, <2>3, FileWalk
  <2>5. data'[k] = data[k]
    <3>1. CASE data' = data
      BY <3>1
    <3>2. CASE write_cluster_data /\ t \notin Busy
      <4>1. cur # 0 /\ pc \in Writing /\ pc = "write" /\ cur \in ChainIn(fat1, first)
        BY <3>2 DEF write_cluster_data, At, TypeInv, ControlOK, Writing, WalkInv
      <4>2. first # 0
        BY <4>1, FirstSet
      <4>3. fat1 \in [Clusters -> Links]
        BY DEF TypeInv, TypeOK, DiskOK
      <4>4. k \in ChainIn(fat1, item[t].first)
        BY <2>2, <2>3, <4>3, WalkInChain
      <4>5. k # cur
        BY <3>2, <4>1, <4>2, <4>4, OwnChainApart
      <4>6. \A c \in Clusters : c # cur => data'[c] = data[c]
        BY <3>2, DataWritten
      <4> QED BY <2>3, <4>5, <4>6
    <3> QED BY <3>1, <3>2
  <2> QED BY <2>3, <2>4, <2>5 DEF UnitIn
<1> QED BY <1>1 DEF Reads

-----------------------------------------------------------------------------
(* A file has one of the names callers use. *)
Named == \A s \in Slots : IsLive(s) => item[s].name \in Names

LEMMA NamedNext ==
  ASSUME TypeInv, LinkInv, Named, [Next]_vars
  PROVE  Named'
<1>0. item \in [Slots -> Entries]
  BY DEF TypeInv, TypeOK, MemOK
<1>1. CASE item' = item
  BY <1>1 DEF Named, IsLive
<1>2. ASSUME NEW n \in Names, FileMade(n) PROVE Named'
  <2>1. NewEntry(n).name \in Names
    BY NamesAssumption DEF NewEntry
  <2> QED BY <1>0, <1>2, <2>1 DEF FileMade, Named, IsLive
<1>3. ASSUME NEW m \in Slots, NEW e \in Entries, EntryWritten(m, e) PROVE Named'
  <2>1. \A t \in Slots : item'[t] = IF t = m THEN e ELSE item[t]
    BY <1>0, <1>3 DEF EntryWritten
  <2>2. IsLive(m) /\ (e.st = "live" => e.name = item[m].name)
    BY <1>3 DEF EntryWritten, Deleted
  <2> QED BY <2>1, <2>2 DEF Named, IsLive
<1> QED BY <1>1, <1>2, <1>3, DirectorySteps

StoreInv ==
  /\ TypeInv /\ LinkInv /\ WalkInv /\ Packed /\ UniqueNames /\ Named /\ EmptyAtStart
  /\ Covered /\ Placed /\ Progress
  /\ ViewOK /\ FilesOK

KeptNames == \A n \in Names : to83[n] = n

(* A file of no size. *)
LEMMA EmptyReads ==
  ASSUME NEW f, NEW g, NEW e, e.size = 0
  PROVE  Reads(f, g, e) = NoUnits
<1>1. 0 .. (0 - 1) = {}
  OBVIOUS
<1> QED BY <1>1 DEF Reads, NoUnits

(* No two slots show the same name. *)
LEMMA ViewNames ==
  ASSUME TypeInv, ViewOK, UniqueNames
  PROVE  \A s, t \in DOMAIN View : View[s][1] = View[t][1] => s = t
<1>1. \A s \in DOMAIN View : s \in Slots /\ IsLive(s) /\ View[s][1] = item[s].name
  BY DEF ViewOK
<1> QED BY <1>1 DEF UniqueNames

(* Steps that show nothing. *)
LEMMA ShowsNothing ==
  ASSUME StoreInv, StoreInv', [Next]_vars, item' = item, data' = data,
         (pc \notin Freeing /\ pc' \notin Freeing) \/ (pc \in Freeing /\ UNCHANGED <<pc, slot>>)
  PROVE  Files' = Files
<1>1. DOMAIN View' = DOMAIN View
  BY DEF StoreInv, ViewOK, IsLive, Freeing
<1>2. ASSUME NEW s \in DOMAIN View PROVE View'[s] = View[s]
  <2>1. s \in Slots /\ IsLive(s) /\ ~(pc = "delete" /\ s = slot)
    BY DEF StoreInv, ViewOK
  <2>2. CASE pc = "truncate" /\ s = slot
    BY <1>1, <2>2 DEF StoreInv, ViewOK, Freeing
  <2>3. CASE ~(pc = "truncate" /\ s = slot)
    <3>1. ~(pc \in Freeing /\ s = slot) /\ ~(pc' = "truncate" /\ s = slot')
      BY <2>1, <2>3 DEF Freeing
    <3>2. Reads(fat1', data', item[s]) = Reads(fat1, data, item[s])
      BY <2>1, <3>1, ReadsKept DEF StoreInv
    <3> QED BY <1>1, <2>3, <3>1, <3>2 DEF StoreInv, ViewOK
  <2> QED BY <2>2, <2>3
<1>3. View' = View
  <2>1. View = [s \in DOMAIN View |-> View[s]] /\ View' = [s \in DOMAIN View' |-> View'[s]]
    BY DEF StoreInv, ViewOK
  <2> QED BY <1>1, <1>2, <2>1
<1>4. Shows(Files, View) /\ Shows(Files', View')
  BY DEF StoreInv, FilesOK, Shows
<1> QED BY <1>3, <1>4, SameFiles

(* The files a step does not work on. *)
LEMMA OtherViews ==
  ASSUME StoreInv, StoreInv', [Next]_vars, NEW t \in DOMAIN View,
         item'[t] = item[t], ~(pc \in Freeing /\ t = slot), ~(pc' \in Freeing /\ t = slot'),
         data' = data \/ (write_cluster_data /\ t \notin Busy)
  PROVE  t \in DOMAIN View' /\ View'[t] = View[t]
<1>1. t \in Slots /\ IsLive(t)
  BY DEF StoreInv, ViewOK
<1>2. Reads(fat1', data', item[t]) = Reads(fat1, data, item[t])
  BY <1>1, ReadsKept DEF StoreInv
<1>3. t \in DOMAIN View'
  BY <1>1 DEF StoreInv, ViewOK, IsLive, Freeing
<1> QED BY <1>2, <1>3 DEF StoreInv, ViewOK, Freeing

(* fopen for writing, and fdelete. *)
LEMMA ShowsOpen ==
  ASSUME StoreInv, StoreInv', [Next]_vars, NEW n \in Names, fopen_w_exists(n)
  PROVE  Store!Next
<1>1. PICK s \in SlotsNamed(n) : s = Min(SlotsNamed(n))
  BY SearchFacts DEF fopen_w_exists
<1>2. s \in Slots /\ IsLive(s) /\ item[s].name = n
  BY <1>1 DEF SlotsNamed, Scanned
<1>3. pc = "idle" /\ pc' = "truncate" /\ slot' = s /\ item' = item /\ data' = data
  BY <1>1 DEF fopen_w_exists, At, disk, mem
<1>4. DOMAIN View' = DOMAIN View \cup {s} /\ s \in DOMAIN View
  BY <1>2, <1>3 DEF StoreInv, ViewOK, IsLive
<1>5. View'[s] = <<n, NoUnits>> /\ View[s][1] = n
  BY <1>2, <1>3, <1>4 DEF StoreInv, ViewOK
<1>6. \A t \in DOMAIN View : t # s => View'[t] = View[t]
  BY <1>3, OtherViews DEF Freeing
<1>7. \A t \in DOMAIN View : t = s <=> View[t][1] = n
  BY <1>4, <1>5, ViewNames DEF StoreInv
<1>8. Shows(Files, View) /\ Shows(Files', View')
  BY DEF StoreInv, FilesOK, Shows
<1>9. Files' = [m \in DOMAIN Files \cup {n} |-> IF m = n THEN NoUnits ELSE Files[m]]
  BY <1>4, <1>5, <1>6, <1>7, <1>8, FileOpened
<1> QED BY <1>9, StoreOpen

LEMMA ShowsNew ==
  ASSUME KeptNames, StoreInv, StoreInv', [Next]_vars,
         NEW n \in Names, fopen_w_new(n), FileMade(n)
  PROVE  Store!Next
<1>1. PICK s \in FreeSlots : s = Min(FreeSlots)
  BY SearchFacts DEF FileMade
<1>2. s \in Slots /\ ~IsLive(s)
  BY <1>1 DEF FreeSlots
<1>3. item \in [Slots -> Entries]
  BY DEF StoreInv, TypeInv, TypeOK, MemOK
<1>4. \A t \in Slots : item'[t] = IF t = s THEN NewEntry(n) ELSE item[t]
  BY <1>1, <1>2, <1>3 DEF FileMade
<1>5. pc = "idle" /\ pc' = "idle" /\ data' = data
  BY DEF fopen_w_new, At, Fails, Done, disk
<1>6. NewEntry(n).st = "live" /\ NewEntry(n).name = n /\ NewEntry(n).size = 0
  BY DEF NewEntry, KeptNames
<1>7. DOMAIN View' = DOMAIN View \cup {s} /\ s \notin DOMAIN View
  <2>1. \A t \in Slots : t \in DOMAIN View <=> item[t].st = "live"
    BY <1>5 DEF StoreInv, ViewOK, IsLive
  <2>2. \A t \in Slots : t \in DOMAIN View' <=> item'[t].st = "live"
    BY <1>5 DEF StoreInv, ViewOK, IsLive
  <2>3. DOMAIN View \subseteq Slots /\ DOMAIN View' \subseteq Slots
    BY DEF StoreInv, ViewOK
  <2> QED BY <1>2, <1>4, <1>6, <2>1, <2>2, <2>3 DEF IsLive
<1>8. View'[s] = <<n, NoUnits>>
  <2>1. View'[s] = <<item'[s].name, Reads(fat1', data', item'[s])>>
    BY <1>5, <1>7 DEF StoreInv, ViewOK
  <2> QED BY <1>2, <1>4, <1>6, <2>1, EmptyReads
<1>9. \A t \in DOMAIN View : t # s /\ t \in Slots /\ IsLive(t)
  BY <1>7 DEF StoreInv, ViewOK
<1>10. \A t \in DOMAIN View : t # s => View'[t] = View[t]
  BY <1>4, <1>5, <1>9, OtherViews DEF Freeing
<1>11. \A t \in DOMAIN View : t = s <=> View[t][1] = n
  <2>1. \A t \in DOMAIN View : View[t][1] = item[t].name
    BY DEF StoreInv, ViewOK
  <2>2. \A t \in Slots : IsLive(t) => item[t].name # n
    BY DEF FileMade, SlotsNamed, StoreInv, Packed
  <2> QED BY <1>9, <2>1, <2>2
<1>12. Shows(Files, View) /\ Shows(Files', View')
  BY DEF StoreInv, FilesOK, Shows
<1>13. Files' = [m \in DOMAIN Files \cup {n} |-> IF m = n THEN NoUnits ELSE Files[m]]
  BY <1>7, <1>8, <1>10, <1>11, <1>12, FileOpened
<1> QED BY <1>13, StoreOpen

LEMMA ShowsDelete ==
  ASSUME StoreInv, StoreInv', [Next]_vars,
         NEW n \in Names, fdelete(n), SlotsNamed(n) # {}
  PROVE  Store!Next
<1>1. PICK s \in SlotsNamed(n) : s = Min(SlotsNamed(n))
  BY SearchFacts
<1>2. s \in Slots /\ IsLive(s) /\ item[s].name = n
  BY <1>1 DEF SlotsNamed, Scanned
<1>3. pc = "idle" /\ pc' = "delete" /\ slot' = s /\ item' = item /\ data' = data
  BY <1>1 DEF fdelete, At, disk, mem
<1>4. DOMAIN View' = DOMAIN View \ {s} /\ s \in DOMAIN View
  BY <1>2, <1>3 DEF StoreInv, ViewOK, IsLive
<1>5. View[s][1] = n
  BY <1>2, <1>4 DEF StoreInv, ViewOK
<1>6. \A t \in DOMAIN View' : View'[t] = View[t]
  BY <1>3, <1>4, OtherViews DEF Freeing
<1>7. \A t \in DOMAIN View : View[t][1] = View[s][1] => t = s
  BY <1>4, ViewNames DEF StoreInv
<1>8. Shows(Files, View) /\ Shows(Files', View')
  BY DEF StoreInv, FilesOK, Shows
<1>9. n \in DOMAIN Files /\ Files' = [m \in DOMAIN Files \ {n} |-> Files[m]]
  <2>1. /\ View[s][1] \in DOMAIN Files
        /\ Files' = [m \in DOMAIN Files \ {View[s][1]} |-> Files[m]]
    BY <1>4, <1>6, <1>7, <1>8, FileDeleted
  <2> QED BY <1>5, <2>1
<1> QED BY <1>9, StoreDelete

(* The end of truncation and of deletion: the store had it all along. *)
LEMMA ShowsEnd ==
  ASSUME StoreInv, StoreInv', [Next]_vars, truncated \/ deleted
  PROVE  Files' = Files
<1>1. /\ pc \in Freeing /\ pc' = "idle" /\ data' = data
      /\ slot \in Slots /\ IsLive(slot) /\ item \in [Slots -> Entries]
  BY DEF truncated, deleted, At, Done, Freeing, StoreInv, LinkInv, FreeingOK, TypeInv, TypeOK,
         CallOK, MemOK
<1>2. \A t \in Slots : t # slot => item'[t] = item[t]
  BY <1>1 DEF truncated, deleted, WriteRootDirEntry
<1>3. \A t \in DOMAIN View : t \in Slots
  BY DEF StoreInv, ViewOK
<1>4. \A t \in DOMAIN View : t # slot => t \in DOMAIN View' /\ View'[t] = View[t]
  BY <1>1, <1>2, <1>3, OtherViews DEF Freeing
<1>5. \A t \in DOMAIN View' : t # slot => t \in DOMAIN View
  BY <1>1, <1>2 DEF StoreInv, ViewOK, IsLive
<1>6. View = [s \in DOMAIN View |-> View[s]] /\ View' = [s \in DOMAIN View' |-> View'[s]]
  BY DEF StoreInv, ViewOK
<1>7. CASE deleted
  <2>1. slot \notin DOMAIN View
    BY <1>1, <1>7 DEF deleted, At, StoreInv, ViewOK
  <2>2. slot \notin DOMAIN View'
    BY <1>1, <1>7 DEF deleted, WriteRootDirEntry, Deleted, StoreInv, ViewOK, IsLive
  <2>3. View' = View
    BY <1>4, <1>5, <1>6, <2>1, <2>2
  <2> QED BY <2>3, SameFiles DEF StoreInv, FilesOK, Shows
<1>8. CASE truncated
  <2>1. slot \in DOMAIN View /\ View[slot] = <<item[slot].name, NoUnits>>
    BY <1>1, <1>8 DEF truncated, At, StoreInv, ViewOK
  <2>2. item'[slot].st = "live" /\ item'[slot].name = item[slot].name /\ item'[slot].size = 0
    BY <1>1, <1>8 DEF truncated, WriteRootDirEntry, Entries, IsLive
  <2>3. slot \in DOMAIN View'
    BY <1>1, <2>2 DEF StoreInv, ViewOK, IsLive
  <2>4. View'[slot] = <<item[slot].name, Reads(fat1', data', item'[slot])>>
    BY <1>1, <2>2, <2>3 DEF StoreInv, ViewOK
  <2>5. View'[slot] = View[slot]
    BY <2>1, <2>2, <2>4, EmptyReads
  <2>6. View' = View
    BY <1>4, <1>5, <1>6, <2>1, <2>3, <2>5
  <2> QED BY <2>6, SameFiles DEF StoreInv, FilesOK, Shows
<1> QED BY <1>7, <1>8

(* In slot s, units o .. l of a file of z units are written. *)
OneWrite(V, W, s, o, l, z) ==
  /\ s \in DOMAIN V /\ DOMAIN W = DOMAIN V /\ W[s][1] = V[s][1]
  /\ \A t \in DOMAIN V : t # s => W[t] = V[t]
  /\ o \in Nat /\ l \in Nat /\ o <= l /\ z \in Nat
  /\ DOMAIN V[s][2] = 0 .. (z - 1)
  /\ DOMAIN W[s][2] = 0 .. ((IF l + 1 > z THEN l + 1 ELSE z) - 1)
  /\ \A p \in o .. l : W[s][2][p] = <<V[s][1], p>>
  /\ \A p \in 0 .. (z - 1) : p \notin o .. l => W[s][2][p] = V[s][2][p]

LEMMA ShowsWrite ==
  ASSUME StoreInv, StoreInv', NEW s, NEW o, NEW l, NEW z, OneWrite(View, View', s, o, l, z)
  PROVE  Store!Next
<1>0. /\ s \in DOMAIN View /\ DOMAIN View' = DOMAIN View /\ View'[s][1] = View[s][1]
      /\ \A t \in DOMAIN View : t # s => View'[t] = View[t]
      /\ o \in Nat /\ l \in Nat /\ o <= l /\ z \in Nat
      /\ DOMAIN View[s][2] = 0 .. (z - 1)
      /\ \A p \in o .. l : View'[s][2][p] = <<View[s][1], p>>
      /\ \A p \in 0 .. (z - 1) : p \notin o .. l => View'[s][2][p] = View[s][2][p]
  BY DEF OneWrite
<1>1. PICK y \in Nat : y = (IF l + 1 > z THEN l + 1 ELSE z) /\ DOMAIN View'[s][2] = 0 .. (y - 1)
  BY <1>0 DEF OneWrite
<1> DEFINE n == View[s][1]
<1>2. n \in Names
  BY <1>0 DEF StoreInv, ViewOK, Named
<1>3. Shows(Files, View) /\ Shows(Files', View')
  BY DEF StoreInv, FilesOK, Shows
<1>4. \A t \in DOMAIN View : View[t][1] = n => t = s
  BY <1>0, ViewNames DEF StoreInv
<1> HIDE DEF n
<1>5. View[s][1] = n /\ View'[s][1] = n
  BY <1>0 DEF n
<1>6. /\ n \in DOMAIN Files /\ Files[n] = View[s][2] /\ Files'[n] = View'[s][2]
      /\ n \in DOMAIN Files' /\ Files' = [Files EXCEPT ![n] = Files'[n]]
  BY <1>0, <1>3, <1>4, <1>5, FileChanged
<1>7. \A p \in o .. l : Files'[n][p] = <<n, p>>
  BY <1>0, <1>5, <1>6
<1>8. \A p \in 0 .. (z - 1) : p \notin o .. l => Files'[n][p] = Files[n][p]
  BY <1>0, <1>6
<1>9. DOMAIN Files[n] = 0 .. (z - 1) /\ DOMAIN Files'[n] = 0 .. (y - 1)
  BY <1>0, <1>6, <1>1
<1> QED BY <1>0, <1>2, <1>6, <1>7, <1>8, <1>9, <1>1, StoreWrite

(* A data write into what the file had already is a write of the store;    *)
(* one behind its end does not show yet.                                   *)
LEMMA ShowsData ==
  ASSUME StoreInv, StoreInv', [Next]_vars, write_cluster_data
  PROVE  Store!Next \/ Files' = Files
<1>0. TypeInv /\ LinkInv /\ WalkInv /\ Placed /\ Covered
  BY DEF StoreInv
<1>1. PICK d \in fds :
         /\ desc = {d} /\ at' = at + 1
         /\ UNCHANGED <<fat1, item, pc, slot, first, desc>>
         /\ \A p \in Nat : WalkIn(fat1, first, p \div ClusterSize) \in Clusters =>
              UnitIn(fat1, data', first, p) = IF p = at THEN <<d.item.name, p>>
                                              ELSE UnitIn(fat1, data, first, p)
  BY <1>0, DataWritten
<1>2. pc = "write" /\ pc \in Writing
  BY DEF write_cluster_data, At, Writing
<1>3. PICK s \in Slots : /\ s = d.slot /\ IsLive(s) /\ item[s] = d.item /\ d.item \in Entries
                         /\ first # d.item.first => d.item.first = 0
  BY <1>0, <1>1, <1>2, WriterFacts
<1>4. Busy = {s}
  BY <1>1, <1>2, <1>3 DEF Busy
<1>5. DOMAIN View' = DOMAIN View /\ s \in DOMAIN View
  BY <1>1, <1>2, <1>3 DEF StoreInv, ViewOK, IsLive
<1>6. \A t \in DOMAIN View : t # s => View'[t] = View[t]
  BY <1>1, <1>2, <1>4, OtherViews DEF Freeing
<1>7. /\ View[s] = <<d.item.name, Reads(fat1, data, d.item)>>
      /\ View'[s] = <<d.item.name, Reads(fat1, data', d.item)>>
  BY <1>1, <1>2, <1>3, <1>5 DEF StoreInv, ViewOK
<1>8. d.item.size \in Nat /\ at \in Nat /\ fat1 \in [Clusters -> Links]
  BY <1>0, <1>3 DEF TypeInv, TypeOK, CallOK, DiskOK, Entries
<1>9. ASSUME NEW p \in 0 .. (d.item.size - 1)
      PROVE  UnitIn(fat1, data', d.item.first, p) =
               IF p = at THEN <<d.item.name, p>> ELSE UnitIn(fat1, data, d.item.first, p)
  <2>1. p \in Nat /\ p \div ClusterSize \in Nat
    BY <1>8, PlaceFacts
  <2>2. WalkIn(fat1, d.item.first, p \div ClusterSize) \in Clusters
    BY <1>0, <1>2, <1>3 DEF Covered, Freeing
  <2>3. first = d.item.first
    BY <1>3, <1>8, <2>1, <2>2, NoWalk
  <2> QED BY <1>1, <2>1, <2>2, <2>3
<1>10. CASE at < d.item.size
  <2>2. /\ at <= at /\ d.item.size = IF at + 1 > d.item.size THEN at + 1 ELSE d.item.size
        /\ \A p \in at .. at : p = at /\ p \in 0 .. (d.item.size - 1)
        /\ at \in at .. at
    BY <1>8, <1>10
  <2>3. /\ View[s][1] = d.item.name /\ View'[s][1] = d.item.name
        /\ View[s][2] = Reads(fat1, data, d.item) /\ View'[s][2] = Reads(fat1, data', d.item)
    BY <1>7
  <2>4. DOMAIN View[s][2] = 0 .. (d.item.size - 1) /\ DOMAIN View'[s][2] = 0 .. (d.item.size - 1)
    BY <2>3 DEF Reads
  <2>5. \A p \in at .. at : View'[s][2][p] = <<View[s][1], p>>
    BY <1>9, <2>2, <2>3 DEF Reads
  <2>6. ASSUME NEW p \in 0 .. (d.item.size - 1), p \notin at .. at
        PROVE  View'[s][2][p] = View[s][2][p]
    <3>1. UnitIn(fat1, data', d.item.first, p) = UnitIn(fat1, data, d.item.first, p)
      BY <1>9, <2>2, <2>6
    <3> QED BY <2>3, <3>1 DEF Reads
  <2>7. OneWrite(View, View', s, at, at, d.item.size)
    BY <1>5, <1>6, <1>8, <2>2, <2>3, <2>4, <2>5, <2>6 DEF OneWrite
  <2>8. Store!Next
    BY <2>7, ShowsWrite
  <2> QED BY <2>8
<1>11. CASE ~(at < d.item.size)
  <2>1. \A p \in 0 .. (d.item.size - 1) : p # at
    BY <1>8, <1>11
  <2>2. Reads(fat1, data', d.item) = Reads(fat1, data, d.item)
    BY <1>9, <2>1 DEF Reads
  <2>3. \A t \in DOMAIN View : View'[t] = View[t]
    BY <1>6, <1>7, <2>2
  <2>4. View = [t \in DOMAIN View |-> View[t]] /\ View' = [t \in DOMAIN View' |-> View'[t]]
    BY DEF StoreInv, ViewOK
  <2>5. View' = View
    BY <1>5, <2>3, <2>4
  <2> QED BY <2>5, SameFiles DEF StoreInv, FilesOK, Shows
<1> QED BY <1>10, <1>11

(* The flush of the entry at the end of fat16_write shows the rest. *)
LEMMA ShowsWritten ==
  ASSUME StoreInv, StoreInv', [Next]_vars, written
  PROVE  Store!Next
<1>0. TypeInv /\ LinkInv /\ WalkInv /\ Covered /\ Progress
  BY DEF StoreInv
<1>1. /\ pc = "write" /\ pc \in Writing /\ left = 0 /\ pc' = "idle"
      /\ UNCHANGED <<fat1, data>>
  BY DEF written, At, Writing, Done
<1>2. PICK d \in fds : /\ desc = {d}
                       /\ d.slot \in Slots /\ IsLive(d.slot) /\ item[d.slot] = d.item
                       /\ d.item \in Entries
                       /\ first # d.item.first => d.item.first = 0
  BY <1>0, <1>1, WriterFacts
<1>3. PICK e : e = [d.item EXCEPT !.first = first,
                                  !.size  = IF at > d.item.size THEN at ELSE d.item.size]
  OBVIOUS
<1>4. d.slot # NONE
  BY <1>2, ConstantFacts DEF NONE
<1>5. item' = [item EXCEPT ![d.slot] = e]
  BY <1>2, <1>3, <1>4 DEF written, WriteRootDirEntry
<1>6. item \in [Slots -> Entries] /\ at \in Nat /\ d.pos \in Nat /\ d.item.size \in Nat
      /\ fat1 \in [Clusters -> Links]
  BY <1>0, <1>2 DEF TypeInv, TypeOK, DiskOK, MemOK, CallOK, Descs, Entries
<1>7. /\ e.first = first /\ e.size = (IF at > d.item.size THEN at ELSE d.item.size)
      /\ e.st = "live" /\ e.name = d.item.name
  BY <1>2, <1>3 DEF Entries, IsLive
<1>8. PICK s \in Slots : s = d.slot
  BY <1>2
<1>9. \A t \in Slots : item'[t] = IF t = s THEN e ELSE item[t]
  BY <1>5, <1>6, <1>8
<1>10. DOMAIN View' = DOMAIN View /\ s \in DOMAIN View
  <2>1. \A t \in Slots : t \in DOMAIN View <=> item[t].st = "live"
    BY <1>1 DEF StoreInv, ViewOK, IsLive
  <2>2. \A t \in Slots : t \in DOMAIN View' <=> item'[t].st = "live"
    BY <1>1 DEF StoreInv, ViewOK, IsLive
  <2>3. DOMAIN View \subseteq Slots /\ DOMAIN View' \subseteq Slots
    BY DEF StoreInv, ViewOK
  <2> QED BY <1>2, <1>7, <1>8, <1>9, <2>1, <2>2, <2>3 DEF IsLive
<1>11. \A t \in DOMAIN View : t # s => View'[t] = View[t]
  <2>1. DOMAIN View \subseteq Slots
    BY DEF StoreInv, ViewOK
  <2> QED BY <1>1, <1>9, <2>1, OtherViews DEF Freeing
<1>12. /\ View[s] = <<d.item.name, Reads(fat1, data, d.item)>>
       /\ View'[s] = <<d.item.name, Reads(fat1, data, e)>>
  <2>1. View[s] = <<item[s].name, Reads(fat1, data, item[s])>>
    BY <1>1, <1>10 DEF StoreInv, ViewOK
  <2>2. View'[s] = <<item'[s].name, Reads(fat1, data, item'[s])>>
    BY <1>1, <1>10 DEF StoreInv, ViewOK
  <2> QED BY <1>2, <1>7, <1>8, <1>9, <2>1, <2>2
<1>13. /\ View[s][1] = d.item.name /\ View'[s][1] = d.item.name
       /\ View[s][2] = Reads(fat1, data, d.item) /\ View'[s][2] = Reads(fat1, data, e)
  BY <1>12
<1>14. DOMAIN View[s][2] = 0 .. (d.item.size - 1) /\ DOMAIN View'[s][2] = 0 .. (e.size - 1)
  BY <1>13 DEF Reads
<1>15. d.pos < at
  BY <1>0, <1>1, <1>2, <1>6 DEF Progress
<1>16. /\ at - 1 \in Nat /\ d.pos <= at - 1 /\ e.size \in Nat
       /\ e.size = IF (at - 1) + 1 > d.item.size THEN (at - 1) + 1 ELSE d.item.size
       /\ \A p \in d.pos .. (at - 1) : p \in 0 .. (e.size - 1)
       /\ \A p \in 0 .. (d.item.size - 1) : p \in 0 .. (e.size - 1)
  BY <1>6, <1>7, <1>15
<1>17. ASSUME NEW p \in d.pos .. (at - 1) PROVE View'[s][2][p] = <<View[s][1], p>>
  <2>1. UnitIn(fat1, data, first, p) = <<d.item.name, p>>
    BY <1>0, <1>1, <1>2 DEF Progress
  <2> QED BY <1>7, <1>13, <1>16, <2>1 DEF Reads
<1>18. ASSUME NEW p \in 0 .. (d.item.size - 1) PROVE View'[s][2][p] = View[s][2][p]
  <2>1. p \in Nat /\ p \div ClusterSize \in Nat
    BY <1>6, PlaceFacts
  <2>2. WalkIn(fat1, d.item.first, p \div ClusterSize) \in Clusters
    BY <1>0, <1>1, <1>2 DEF Covered, Freeing
  <2>3. first = d.item.first
    BY <1>2, <1>6, <2>1, <2>2, NoWalk
  <2> QED BY <1>7, <1>13, <1>16, <2>3 DEF Reads
<1>19. OneWrite(View, View', s, d.pos, at - 1, d.item.size)
  BY <1>6, <1>10, <1>11, <1>13, <1>14, <1>16, <1>17, <1>18 DEF OneWrite
<1> QED BY <1>19, ShowsWrite

LEMMA ShowsNext ==
  ASSUME KeptNames, Careful, StoreInv, StoreInv', [Next]_vars
  PROVE  Store!Next \/ Files' = Files
  BY ViewSteps, ShowsNothing, ShowsOpen, ShowsNew, ShowsDelete, ShowsEnd, ShowsData, ShowsWritten
     DEF StoreInv

-----------------------------------------------------------------------------
(* The image. *)
LEMMA InitShows ==
  ASSUME KeptNames, Init
  PROVE  Covered /\ Placed /\ Progress /\ Named /\ Store!Init
<1>1. /\ pc = "idle" /\ 2 \in Clusters /\ 0 \in Slots /\ 0 \in Offsets
  BY ClustersAssumption, SlotsAssumption, UnitsAssumption DEF Init, Clusters, Slots, Offsets
<1>2. Placed /\ Progress
  BY <1>1 DEF Placed, Progress, Writing
<1>3. ASSUME NEW s \in Slots, IsLive(s)
      PROVE  item[s].name = BootFile /\ item[s].first = 2 /\ item[s].size = 1
  <2>1. s = 0
    BY <1>3 DEF Init, IsLive, End
  <2>2. item[s] = [NewEntry(BootFile) EXCEPT !.first = 2, !.size = 1]
    BY <1>1, <2>1 DEF Init
  <2>3. to83[BootFile] = BootFile
    BY NamesAssumption DEF KeptNames
  <2> QED BY <2>2, <2>3 DEF NewEntry
<1>4. 0 \div ClusterSize = 0 /\ 0 % ClusterSize = 0
  <2>1. ClusterSize * 0 + 0 = 0 /\ 0 \in 0 .. (ClusterSize - 1)
    BY UnitsAssumption
  <2> QED BY <2>1, PlaceIs
<1>5. \A p \in 0 .. (1 - 1) : p = 0
  OBVIOUS
<1>6. WalkIn(fat1, 2, 0) = 2
  BY WalkStep
<1>7. Covered
  BY <1>1, <1>3, <1>4, <1>5, <1>6 DEF Covered
<1>8. Named
  BY <1>3, NamesAssumption DEF Named
<1>9. ViewOK /\ UniqueNames
  BY ViewFacts DEF Init, UniqueNames, IsLive, End
<1>10. FilesOK
  BY <1>9, FilesFacts
<1>11. ASSUME NEW s \in DOMAIN View
       PROVE  /\ View[s][1] = BootFile /\ DOMAIN View[s][2] = 0 .. 0
              /\ View[s][2][0] = <<BootFile, 0>>
  <2>1. View[s][1] = item[s].name /\ View[s][2] = Reads(fat1, data, item[s])
    BY <1>1, <1>9 DEF ViewOK
  <2>2. item[s].name = BootFile /\ item[s].first = 2 /\ item[s].size = 1
    BY <1>3, <1>9 DEF ViewOK
  <2>3. data[2][0] = <<BootFile, 0>>
    BY <1>1, NamesAssumption DEF Init, KeptNames
  <2>4. UnitIn(fat1, data, 2, 0) = <<BootFile, 0>>
    BY <1>1, <1>4, <1>6, <2>3 DEF UnitIn
  <2>5. 0 .. (1 - 1) = 0 .. 0 /\ 0 \in 0 .. 0
    OBVIOUS
  <2> QED BY <2>1, <2>2, <2>4, <2>5 DEF Reads
<1>12. ASSUME NEW n \in DOMAIN Files
       PROVE  n \in Names /\ \A p \in DOMAIN Files[n] :
                               0 .. p \subseteq DOMAIN Files[n] /\ Files[n][p] = UnitOf(n, p)
  <2>1. PICK s \in DOMAIN View : View[s][1] = n /\ Files[n] = View[s][2]
    BY <1>10 DEF FilesOK, Shows
  <2>2. n = BootFile /\ DOMAIN Files[n] = 0 .. 0 /\ Files[n][0] = <<BootFile, 0>>
    BY <1>11, <2>1
  <2>3. \A p \in 0 .. 0 : p = 0
    OBVIOUS
  <2> QED BY <2>2, <2>3, NamesAssumption DEF UnitOf
<1>13. Store!Init
  BY <1>12 DEF Store!Init
<1> QED BY <1>2, <1>7, <1>8, <1>13

LEMMA StoreInvariance ==
  KeptNames /\ Careful => (Spec => []StoreInv)
<1> SUFFICES ASSUME KeptNames, Careful PROVE Spec => []StoreInv
  OBVIOUS
<1> DEFINE Old == TypeInv /\ LinkInv /\ WalkInv /\ Packed /\ UniqueNames
           New == EmptyAtStart /\ Named /\ Covered /\ Placed /\ Progress
<1>1. Spec => [](TypeInv /\ LinkInv /\ WalkInv)
  BY WalkInvariance
<1>2. Spec => [](TypeInv /\ LinkInv /\ Packed)
  BY PackedInvariance
<1>3. Spec => []UniqueNames
  BY Fat16UniqueNames DEF KeptNames
<1>4. Init => New
  <2>1. Init => EmptyAtStart
    BY DEF Init, EmptyAtStart
  <2> QED BY <2>1, InitShows
<1>5. Old /\ New /\ [Next]_vars => New'
  BY EmptyNext, NamedNext, CoveredNext, PlacedNext, ProgressNext
<1>6. Old /\ New => StoreInv
  BY ViewFacts, FilesFacts DEF StoreInv
<1> HIDE DEF New
<1> QED BY <1>1, <1>2, <1>3, <1>4, <1>5, <1>6, PTL DEF Spec

(***************************************************************************)
(* For polite callers, power failures outside the freeing of a chain and   *)
(* names that a directory keeps as they are: the driver implements the     *)
(* flat store, whatever the size of clusters, disk, directory and          *)
(* descriptor table.  Each disk write of fat16.c is one operation of the   *)
(* store on one file, or changes nothing of what the disk holds for any    *)
(* name.                                                                   *)
(***************************************************************************)
THEOREM Fat16ImplementsStore ==
  KeptNames /\ Careful => (Spec => ImplementsStore)
<1> SUFFICES ASSUME KeptNames, Careful PROVE Spec => ImplementsStore
  OBVIOUS
<1>1. Spec => []StoreInv
  BY StoreInvariance
<1>2. Init => Store!Init
  BY InitShows
<1>3. StoreInv /\ StoreInv' /\ [Next]_vars => [Store!Next]_Files
  BY ShowsNext
<1> QED BY <1>1, <1>2, <1>3, PTL DEF Spec, ImplementsStore, Store!Spec

-----------------------------------------------------------------------------
(* What a read finds. *)

(* With other end marks a walk goes the same way, or stops. *)
LEMMA WalkOrStop ==
  ASSUME NEW E, NEW f \in [Clusters -> Links], NEW c, NEW n \in Nat,
         WalkIn(f, c, n) \in Clusters
  PROVE  WalkBy(E, f, c, n) \in {NONE, WalkIn(f, c, n)}
<1>0. \A i \in Nat : WalkBy(E, f, c, i + 1) = OnwardBy(E, f, WalkBy(E, f, c, i))
  <2> TAKE i \in Nat
  <2> QED BY WalkByNext
<1> DEFINE B == {i \in Nat : WalkIn(f, c, i) \in Clusters
                             /\ WalkBy(E, f, c, i) \notin {NONE, WalkIn(f, c, i)}}
<1>1. SUFFICES ASSUME B # {} PROVE FALSE
  OBVIOUS
<1>2. B \subseteq Nat
  OBVIOUS
<1> HIDE DEF B
<1>3. Min(B) \in B /\ \A i \in B : Min(B) <= i
  BY <1>1, <1>2, MinIn
<1>4. PICK k \in B : \A i \in B : k <= i
  BY <1>3
<1>5. /\ k \in Nat /\ WalkIn(f, c, k) \in Clusters
      /\ WalkBy(E, f, c, k) \notin {NONE, WalkIn(f, c, k)}
  BY <1>4 DEF B
<1>6. k # 0
  BY <1>5, WalkStep, WalkByStart
<1>7. k - 1 \in Nat /\ ~(k <= k - 1) /\ (k - 1) + 1 = k
  BY <1>5, <1>6
<1>8. WalkIn(f, c, k - 1) \in Clusters /\ WalkIn(f, c, k) = f[WalkIn(f, c, k - 1)]
  BY <1>5, <1>7, WalkBack
<1>9. WalkBy(E, f, c, k - 1) \in {NONE, WalkIn(f, c, k - 1)}
  BY <1>4, <1>7, <1>8 DEF B
<1>10. WalkBy(E, f, c, k) = OnwardBy(E, f, WalkBy(E, f, c, k - 1))
  <2>1. WalkBy(E, f, c, (k - 1) + 1) = OnwardBy(E, f, WalkBy(E, f, c, k - 1))
    BY <1>0, <1>7
  <2> QED BY <1>7, <2>1
<1>11. OnwardBy(E, f, WalkBy(E, f, c, k - 1)) \in {NONE, f[WalkIn(f, c, k - 1)]}
  BY <1>8, <1>9 DEF OnwardBy, EntryIn
<1> QED BY <1>5, <1>8, <1>10, <1>11

(***************************************************************************)
(* For polite callers, power failures outside the freeing of a chain and   *)
(* names that a directory keeps: at every step of every call, each unit of *)
(* a file below its size has a cluster in the chain, and the walk of       *)
(* fat16_get_cluster_for_offset, which looks for other end marks, comes to *)
(* this cluster or reports an error: it delivers no unit of another file.  *)
(***************************************************************************)
THEOREM Fat16ReadsStored ==
  KeptNames /\ Careful => (Spec => []ReadsStored)
<1> SUFFICES ASSUME KeptNames, Careful PROVE Spec => []ReadsStored
  OBVIOUS
<1>1. Spec => []StoreInv
  BY StoreInvariance
<1>2. ASSUME StoreInv PROVE ReadsStored
  <2>1. SUFFICES ASSUME NEW s \in Shown, NEW p \in DOMAIN FileAt(s)
                 PROVE  /\ StoredAt(item[s].first, p \div ClusterSize) \in Clusters
                        /\ ClusterFor(item[s].first, p \div ClusterSize) \in
                             {NONE, StoredAt(item[s].first, p \div ClusterSize)}
    BY DEF ReadsStored
  <2>2. s \in Slots /\ IsLive(s) /\ ~(pc = "delete" /\ s = slot)
    BY DEF Shown
  <2>3. ~(pc = "truncate" /\ s = slot)
    BY <2>1 DEF FileAt
  <2>4. p \in 0 .. (item[s].size - 1)
    BY <2>1, <2>3 DEF FileAt, Contents
  <2>5. item[s].size \in Nat /\ fat1 \in [Clusters -> Links]
    BY <1>2, <2>2 DEF StoreInv, TypeInv, TypeOK, DiskOK, MemOK, Entries
  <2>6. p \div ClusterSize \in Nat
    BY <2>4, <2>5, PlaceFacts
  <2>7. WalkIn(fat1, item[s].first, p \div ClusterSize) \in Clusters
    BY <1>2, <2>2, <2>3, <2>4 DEF StoreInv, Covered, Freeing
  <2>8. WalkBy(ReadEnds, fat1, item[s].first, p \div ClusterSize) \in
          {NONE, WalkIn(fat1, item[s].first, p \div ClusterSize)}
    BY <2>5, <2>6, <2>7, WalkOrStop
  <2>9. /\ StoredAt(item[s].first, p \div ClusterSize) =
             WalkIn(fat1, item[s].first, p \div ClusterSize)
        /\ ClusterFor(item[s].first, p \div ClusterSize) =
             WalkBy(ReadEnds, fat1, item[s].first, p \div ClusterSize)
    BY DEF StoredAt, ClusterFor, Follow, WalkIn, WalkBy, FatEntry, EntryIn
  <2> QED BY <2>7, <2>8, <2>9
<1> QED BY <1>1, <1>2, PTL
=============================================================================
