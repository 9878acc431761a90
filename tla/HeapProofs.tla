----------------------------- MODULE HeapProofs -----------------------------
(***************************************************************************)
(* Proofs about Heap, for every size of pool, block and request.           *)
(***************************************************************************)
EXTENDS Heap, Extrema

USE TotalAssumption, BlockSizeAssumption, SizesAssumption

(***************************************************************************)
(* heap_align_value_to_upper and the division after it: a request for at   *)
(* least one byte takes at least one block.                                *)
(***************************************************************************)
LEMMA BlocksForPositive ==
  ASSUME NEW size \in Nat \ {0}
  PROVE  BlocksFor(size) \in Nat \ {0}
<1> DEFINE r == size % BlockSize
           v == heap_align_value_to_upper(size)
<1>1. /\ r \in Nat /\ r < BlockSize
      /\ r = 0 => size >= BlockSize
      /\ r <= size
  OBVIOUS
<1>2. v \in Nat /\ v >= BlockSize
  BY <1>1 DEF heap_align_value_to_upper
<1> HIDE DEF v
<1>3. v \div BlockSize \in Nat \ {0}
  BY <1>2
<1> QED BY <1>3 DEF BlocksFor, v
(***************************************************************************)
(* What heap_get_start_block returns: every block of the pool from there   *)
(* on that the request needs is free, and if the request runs past the     *)
(* pool then the last block of the pool is among them.                     *)
(***************************************************************************)
LEMMA StartBlock ==
  ASSUME NEW n \in Nat \ {0}, heap_get_start_block(n) # NULL
  PROVE  LET s == heap_get_start_block(n)
         IN  /\ s \in Blocks
             /\ \A i \in Blocks : i \in s .. (s + n - 1) => IsFree(i)
<1>1. CASE Fits(n) # {}
  <2>1. Fits(n) \subseteq Nat
    BY DEF Fits, Blocks
  <2>2. heap_get_start_block(n) \in Fits(n)
    BY <1>1, <2>1, MinIn DEF heap_get_start_block
  <2> QED BY <2>2 DEF Fits
<1>2. CASE Fits(n) = {} /\ Trailing # {}
  <2>1. Trailing \subseteq Nat
    BY DEF Trailing, Blocks
  <2>2. heap_get_start_block(n) \in Trailing
    BY <1>2, <2>1, MinIn DEF heap_get_start_block
  <2> QED BY <2>2 DEF Trailing, Blocks
<1>3. CASE Fits(n) = {} /\ Trailing = {}
  BY <1>3 DEF heap_get_start_block
<1> QED BY <1>1, <1>2, <1>3

(***************************************************************************)
(* The walk of kfree over an allocation whose flags chain: it frees the    *)
(* allocation's blocks and nothing else.                                   *)
(***************************************************************************)
LEMMA FreeWalk ==
  ASSUME TypeOK, NEW h \in held, ChainOK(h)
  PROVE  heap_mark_blocks_free(h.start) =
           [i \in Blocks |-> IF i \in Extent(h) THEN FREE ELSE table[i]]
<1> SUFFICES ASSUME NEW i \in Blocks
             PROVE  (h.start <= i /\ \A j \in h.start .. (i - 1) : "HAS_NEXT" \in table[j])
                      <=> i \in Extent(h)
  BY DEF heap_mark_blocks_free
<1>0. h.start \in Blocks /\ h.blocks \in Nat \ {0}
  BY DEF TypeOK, Allocations
<1>1. ASSUME i \in Extent(h)
      PROVE  h.start <= i /\ \A j \in h.start .. (i - 1) : "HAS_NEXT" \in table[j]
  BY <1>0, <1>1 DEF Extent, ChainOK, Blocks
<1>2. ASSUME h.start <= i, i \notin Extent(h)
      PROVE  \E j \in h.start .. (i - 1) : "HAS_NEXT" \notin table[j]
  <2> DEFINE last == h.start + h.blocks - 1
  <2>1. last \in Extent(h) /\ last \in Blocks /\ last \in h.start .. (i - 1)
    BY <1>0, <1>2 DEF Extent, Blocks
  <2>2. "HAS_NEXT" \notin table[last]
    BY <1>0, <2>1 DEF ChainOK, Blocks
  <2> QED BY <2>1, <2>2
<1> QED BY <1>1, <1>2

LEMMA InitInv == Init => HeapInv
  BY DEF Init, HeapInv, TypeOK, NoOverlap, TableIsHeld, IsFree,
         heap_get_entry_type, FREE, Flags

(***************************************************************************)
(* kmalloc keeps the invariant.  The new blocks were free, so by           *)
(* TableIsHeld they belong to nobody.  An allocation that runs past the    *)
(* pool holds the last block of the pool, so two of them cannot meet       *)
(* beyond it.                                                              *)
(***************************************************************************)
LEMMA MallocInv ==
  ASSUME HeapInv, NEW size \in Sizes, kmalloc(size)
  PROVE  HeapInv'
<1>n. PICK n \in Nat \ {0} : n = BlocksFor(size)
  BY BlocksForPositive
<1>p. PICK s : s = heap_get_start_block(n)
  OBVIOUS
<1> DEFINE a == [start |-> s, blocks |-> n]
<1>s. /\ s \in Blocks
      /\ \A i \in Blocks : i \in s .. (s + n - 1) => IsFree(i)
  BY <1>n, <1>p, StartBlock DEF kmalloc
<1>k. /\ table' = heap_mark_blocks_taken(s, n)
      /\ held' = held \cup {a}
      /\ ptr' = s
  BY <1>n, <1>p DEF kmalloc
<1>e. Extent(a) = s .. (s + n - 1)
  BY DEF Extent
<1>t. \A i \in Blocks : table'[i] = IF i \in Extent(a) THEN TakenEntry(i, s, n) ELSE table[i]
  BY <1>k, <1>e DEF heap_mark_blocks_taken
<1>g. \A h \in held : h.start \in Blocks /\ h.blocks \in Nat \ {0}
  BY DEF HeapInv, TypeOK, Allocations
<1>d. \A h \in held : Extent(h) \cap Extent(a) = {}
  <2> SUFFICES ASSUME NEW h \in held, NEW i \in Extent(h), i \in Extent(a)
               PROVE  FALSE
    OBVIOUS
  <2>1. \E j \in Blocks : j \in Extent(h) /\ j \in Extent(a)
    <3>1. CASE i \in Blocks
      BY <3>1
    <3>2. CASE i \notin Blocks
      <4>1. Total - 1 \in Extent(h) /\ Total - 1 \in Extent(a) /\ Total - 1 \in Blocks
        BY <3>2, <1>g, <1>e, <1>s, <1>n DEF Extent, Blocks
      <4> QED BY <4>1
    <3> QED BY <3>1, <3>2
  <2> QED BY <2>1, <1>s, <1>e DEF HeapInv, TableIsHeld
<1>1. TypeOK'
  <2>1. \A i \in Blocks : table'[i] \in SUBSET Flags
    BY <1>t DEF HeapInv, TypeOK, TakenEntry, Flags
  <2>2. table' \in [Blocks -> SUBSET Flags]
    BY <2>1, <1>k DEF heap_mark_blocks_taken
  <2>3. a \in Allocations
    BY <1>n, <1>s DEF Allocations
  <2> QED BY <2>2, <2>3, <1>k, <1>s DEF HeapInv, TypeOK
<1>2. NoOverlap'
  BY <1>d, <1>k DEF HeapInv, NoOverlap, Extent
<1>3. \A i \in Blocks : IsFree(i)' <=> IsFree(i) /\ i \notin Extent(a)
  BY <1>t DEF IsFree, heap_get_entry_type, TakenEntry, FREE
<1>4. TableIsHeld'
  BY <1>3, <1>k, <1>s, <1>e DEF HeapInv, TableIsHeld, Extent
<1>5. \A h \in held' : ChainOK(h)'
  <2>1. ASSUME NEW h \in held PROVE ChainOK(h)'
    BY <1>d, <1>t DEF HeapInv, ChainOK, Extent
  <2>2. ASSUME NEW i \in Blocks, i \in Extent(a)
        PROVE  /\ "TAKEN" \in table'[i]
               /\ "HAS_NEXT" \in table'[i] <=> i < s + n - 1
    <3>1. table'[i] = TakenEntry(i, s, n)
      BY <1>t, <2>2
    <3> QED BY <3>1 DEF TakenEntry
  <2>3. ChainOK(a)'
    BY <2>2 DEF ChainOK, Extent
  <2> QED BY <2>1, <2>3, <1>k
<1> QED BY <1>1, <1>2, <1>4, <1>5 DEF HeapInv

(* kfree keeps the invariant: by FreeWalk it frees the blocks of h alone. *)
LEMMA FreeInv ==
  ASSUME HeapInv, NEW h \in held, kfree(h)
  PROVE  HeapInv'
<1>t. table' = [i \in Blocks |-> IF i \in Extent(h) THEN FREE ELSE table[i]]
  BY FreeWalk DEF HeapInv, kfree
<1>k. held' = held \ {h} /\ ptr' = ptr
  BY DEF kfree
<1>d. \A g \in held' : g \in held /\ Extent(g) \cap Extent(h) = {}
  BY <1>k DEF HeapInv, NoOverlap
<1>1. TypeOK'
  BY <1>t, <1>k DEF HeapInv, TypeOK, FREE
<1>2. NoOverlap'
  BY <1>k DEF HeapInv, NoOverlap, Extent
<1>3. \A i \in Blocks : IsFree(i)' <=> IsFree(i) \/ i \in Extent(h)
  BY <1>t DEF IsFree, heap_get_entry_type, FREE
<1>4. TableIsHeld'
  BY <1>3, <1>k, <1>d DEF HeapInv, TableIsHeld, Extent
<1>5. \A g \in held' : ChainOK(g)'
  BY <1>t, <1>d DEF HeapInv, ChainOK, Extent
<1> QED BY <1>1, <1>2, <1>4, <1>5 DEF HeapInv

LEMMA NextInv == HeapInv /\ [Next]_vars => HeapInv'
<1> SUFFICES ASSUME HeapInv, [Next]_vars PROVE HeapInv'
  OBVIOUS
<1>1. ASSUME NEW size \in Sizes, kmalloc(size) PROVE HeapInv'
  BY <1>1, MallocInv
<1>2. ASSUME NEW size \in Sizes, kmalloc_fails(size) PROVE HeapInv'
  BY <1>2 DEF kmalloc_fails, HeapInv, TypeOK, NoOverlap, TableIsHeld, ChainOK,
              IsFree, Extent
<1>3. ASSUME NEW h \in held, kfree(h) PROVE HeapInv'
  BY <1>3, FreeInv
<1>4. CASE UNCHANGED vars
  BY <1>4 DEF vars, HeapInv, TypeOK, NoOverlap, TableIsHeld, ChainOK, IsFree, Extent
<1> QED BY <1>1, <1>2, <1>3, <1>4 DEF Next

-----------------------------------------------------------------------------
(***************************************************************************)
(* The loop of heap_get_start_block.  That its recursion has a solution    *)
(* comes first: there is one for every number of blocks, by induction, as  *)
(* the least number for which there is not.                                *)
(***************************************************************************)
Counters == [bc : Nat, bs : Blocks \cup {NULL}, done : BOOLEAN]
Start    == [bc |-> 0, bs |-> NULL, done |-> FALSE]

Scans(g, n, k) ==
  /\ g \in [0 .. k -> Counters] /\ g[0] = Start
  /\ \A m \in 1 .. k : g[m] = ScanStep(n, g[m - 1], m - 1)

LEMMA StepTyped ==
  ASSUME NEW n \in Nat, NEW a \in Counters, NEW i \in Blocks
  PROVE  ScanStep(n, a, i) \in Counters
  BY DEF ScanStep, Counters

LEMMA ScanExists ==
  ASSUME NEW n \in Nat
  PROVE  \E g : Scans(g, n, Total)
<1> DEFINE B == {k \in Nat : k <= Total /\ ~ \E g : Scans(g, n, k)}
<1>1. SUFFICES ASSUME B # {} PROVE FALSE
  OBVIOUS
<1>2. B \subseteq Nat
  OBVIOUS
<1> HIDE DEF B
<1>3. PICK k \in B : \A m \in B : k <= m
  BY <1>1, <1>2, MinIn
<1>4. k \in Nat /\ k <= Total /\ ~ \E g : Scans(g, n, k)
  BY <1>3 DEF B
<1>5. CASE k = 0
  <2> DEFINE g == [m \in 0 .. 0 |-> Start]
  <2>1. Start \in Counters
    BY DEF Start, Counters
  <2>2. Scans(g, n, 0)
    BY <2>1 DEF Scans
  <2> QED BY <1>4, <1>5, <2>2
<1>6. CASE k # 0
  <2>1. k - 1 \in Nat /\ k - 1 <= Total /\ ~(k <= k - 1) /\ k - 1 \in Blocks
    BY <1>4, <1>6 DEF Blocks
  <2>2. k - 1 \notin B
    BY <1>3, <2>1
  <2>3. PICK f : Scans(f, n, k - 1)
    BY <2>1, <2>2 DEF B
  <2>4. /\ f \in [0 .. (k - 1) -> Counters] /\ f[0] = Start
        /\ \A m \in 1 .. (k - 1) : f[m] = ScanStep(n, f[m - 1], m - 1)
    BY <2>3 DEF Scans
  <2> DEFINE last == ScanStep(n, f[k - 1], k - 1)
             g    == [m \in 0 .. k |-> IF m = k THEN last ELSE f[m]]
  <2>5. last \in Counters
    BY <2>1, <2>4, StepTyped
  <2> HIDE DEF last
  <2>6. /\ g \in [0 .. k -> Counters] /\ g[0] = Start /\ g[k] = last
        /\ \A m \in 0 .. (k - 1) : g[m] = f[m]
    BY <1>4, <1>6, <2>4, <2>5
  <2> HIDE DEF g
  <2>7. ASSUME NEW m \in 1 .. k PROVE g[m] = ScanStep(n, g[m - 1], m - 1)
    <3>1. CASE m = k
      <4>1. g[m - 1] = f[k - 1]
        BY <1>4, <1>6, <2>6, <3>1
      <4> QED BY <2>6, <3>1, <4>1 DEF last
    <3>2. CASE m # k
      <4>1. m \in 1 .. (k - 1) /\ m \in 0 .. (k - 1) /\ m - 1 \in 0 .. (k - 1)
        BY <1>4, <3>2
      <4>2. g[m] = f[m] /\ g[m - 1] = f[m - 1]
        BY <2>6, <4>1
      <4> QED BY <2>4, <4>1, <4>2
    <3> QED BY <3>1, <3>2
  <2>8. Scans(g, n, k)
    BY <2>6, <2>7 DEF Scans
  <2> QED BY <1>4, <2>8
<1> QED BY <1>5, <1>6

LEMMA ScanSolves ==
  ASSUME NEW n \in Nat
  PROVE  Scans(Scan(n), n, Total)
<1> DEFINE F(g) == [k \in 0 .. Total |-> IF k = 0 THEN [bc |-> 0, bs |-> NULL, done |-> FALSE]
                                          ELSE ScanStep(n, g[k - 1], k - 1)]
           s == CHOOSE g : g = F(g)
<1>1. PICK g : Scans(g, n, Total)
  BY ScanExists
<1>2. /\ g \in [0 .. Total -> Counters] /\ g[0] = Start
      /\ \A m \in 1 .. Total : g[m] = ScanStep(n, g[m - 1], m - 1)
  BY <1>1 DEF Scans
<1>3. g = F(g)
  <2>1. \A k \in 0 .. Total : k = 0 \/ k \in 1 .. Total
    OBVIOUS
  <2>2. \A k \in 0 .. Total : g[k] = IF k = 0 THEN Start ELSE ScanStep(n, g[k - 1], k - 1)
    BY <1>2, <2>1
  <2> QED BY <1>2, <2>2 DEF Start
<1>4. s = F(s)
  <2> HIDE DEF F
  <2> QED BY <1>3
<1>5. Scan(n) = s
  BY DEF Scan
<1> HIDE DEF s
<1>6. /\ s[0] = Start
      /\ \A m \in 1 .. Total : s[m] = ScanStep(n, s[m - 1], m - 1)
  <2>1. \A m \in 0 .. Total : s[m] = IF m = 0 THEN Start ELSE ScanStep(n, s[m - 1], m - 1)
    BY <1>4 DEF Start
  <2>2. 0 \in 0 .. Total /\ \A m \in 1 .. Total : m \in 0 .. Total /\ m # 0
    OBVIOUS
  <2> QED BY <2>1, <2>2
<1> DEFINE B == {k \in Nat : k <= Total /\ s[k] \notin Counters}
<1>7. B = {}
  <2>1. SUFFICES ASSUME B # {} PROVE FALSE
    OBVIOUS
  <2>2. B \subseteq Nat
    OBVIOUS
  <2> HIDE DEF B
  <2>3. PICK k \in B : \A m \in B : k <= m
    BY <2>1, <2>2, MinIn
  <2>4. k \in Nat /\ k <= Total /\ s[k] \notin Counters
    BY <2>3 DEF B
  <2>5. k # 0
    <3>1. Start \in Counters
      BY DEF Counters, Start
    <3> QED BY <1>6, <2>4, <3>1
  <2>6. k - 1 \in Nat /\ k - 1 <= Total /\ ~(k <= k - 1) /\ k - 1 \in Blocks /\ k \in 1 .. Total
    BY <2>4, <2>5 DEF Blocks
  <2>7. k - 1 \notin B
    BY <2>3, <2>6
  <2>8. s[k - 1] \in Counters
    BY <2>6, <2>7 DEF B
  <2> QED BY <1>6, <2>4, <2>6, <2>8, StepTyped
<1>8. s \in [0 .. Total -> Counters]
  <2>1. s = [k \in 0 .. Total |-> s[k]]
    BY <1>4
  <2>2. \A k \in 0 .. Total : s[k] \in Counters
    BY <1>7
  <2> QED BY <2>1, <2>2
<1> QED BY <1>5, <1>6, <1>8 DEF Scans

(***************************************************************************)
(* What the counters say after the first k blocks: until the break, bc is  *)
(* the length of the free run that ends there and bs is its start, and no  *)
(* run of n blocks lies in front of k; at the break bs is the first of     *)
(* them.                                                                   *)
(***************************************************************************)
RunTo(a, n, k) ==
  /\ a.bc < n /\ a.bc <= k
  /\ a.bs = IF a.bc = 0 THEN NULL ELSE k - a.bc
  /\ \A i \in Blocks : k - a.bc <= i /\ i < k => IsFree(i)
  /\ a.bc < k => ~IsFree(k - a.bc - 1)
  /\ \A s \in Fits(n) : s + n > k

First(a, n) == a.bs \in Fits(n) /\ \A s \in Fits(n) : a.bs <= s

ScanInv(a, n, k) == IF a.done THEN First(a, n) ELSE RunTo(a, n, k)

LEMMA StepKeeps ==
  ASSUME NEW n \in Nat \ {0}, NEW k \in Blocks, NEW a \in Counters, ScanInv(a, n, k)
  PROVE  ScanInv(ScanStep(n, a, k), n, k + 1)
<1> DEFINE b == ScanStep(n, a, k)
<1>k. k \in Nat /\ k < Total /\ a.bc \in Nat
  BY DEF Blocks, Counters
<1>f. \A s \in Fits(n) : s \in Nat /\ s + n <= Total /\ \A i \in s .. (s + n - 1) : IsFree(i)
  BY DEF Fits, Blocks
<1>1. CASE a.done
  BY <1>1 DEF ScanStep, ScanInv
<1>2. CASE ~a.done /\ ~IsFree(k)
  <2>1. b = [bc |-> 0, bs |-> NULL, done |-> FALSE]
    BY <1>2 DEF ScanStep
  <2>2. \A s \in Fits(n) : s + n > k + 1
    <3> SUFFICES ASSUME NEW s \in Fits(n), ~(s + n > k + 1) PROVE FALSE
      OBVIOUS
    <3>1. s + n > k
      BY <1>2 DEF ScanInv, RunTo
    <3>2. k \in s .. (s + n - 1)
      BY <1>k, <1>f, <3>1
    <3> QED BY <1>2, <1>f, <3>2
  <2>3. RunTo(b, n, k + 1)
    BY <1>2, <1>k, <2>1, <2>2 DEF RunTo
  <2>4. ~b.done
    BY <2>1
  <2> HIDE DEF b
  <2>5. ScanInv(b, n, k + 1)
    BY <2>3, <2>4 DEF ScanInv
  <2> QED BY <2>5 DEF b
<1>3. CASE ~a.done /\ IsFree(k)
  <2>r. RunTo(a, n, k)
    BY <1>3 DEF ScanInv
  <2>1. b = [bc |-> a.bc + 1, bs |-> k - a.bc, done |-> (a.bc + 1 = n)]
    <3>1. (IF a.bs = NULL THEN k ELSE a.bs) = k - a.bc
      BY <1>k, <2>r DEF RunTo, NULL
    <3> QED BY <1>3, <3>1 DEF ScanStep
  <2>d. b.done <=> a.bc + 1 = n
    <3> HIDE DEF b
    <3>1. b.done = (a.bc + 1 = n)
      BY <2>1
    <3> QED BY <3>1
  <2>2. \A i \in Blocks : k - a.bc <= i /\ i < k + 1 => IsFree(i)
    BY <1>3, <1>k, <2>r DEF RunTo, Blocks
  <2>3. k - a.bc \in Blocks /\ \A s \in Fits(n) : s + n > k
    BY <1>k, <2>r DEF RunTo, Blocks
  <2>4. CASE a.bc + 1 = n
    <3>1. k - a.bc \in Fits(n)
      BY <1>k, <2>2, <2>3, <2>4 DEF Fits, Blocks
    <3>2. \A s \in Fits(n) : k - a.bc <= s
      BY <1>k, <1>f, <2>3, <2>4
    <3>3. b.done /\ b.bs = k - a.bc
      BY <2>1, <2>4, <2>d
    <3> HIDE DEF b
    <3>4. ScanInv(b, n, k + 1)
      BY <3>1, <3>2, <3>3 DEF ScanInv, First
    <3> QED BY <3>4 DEF b
  <2>5. CASE a.bc + 1 # n
    <3>1. a.bc + 1 < n
      BY <1>k, <2>5, <2>r DEF RunTo
    <3>2. \A s \in Fits(n) : s + n > k + 1
      <4> SUFFICES ASSUME NEW s \in Fits(n), ~(s + n > k + 1) PROVE FALSE
        OBVIOUS
      <4>1. s \in Nat /\ s + n = k + 1
        BY <1>k, <1>f, <2>3
      <4>2. s <= k - a.bc - 1 /\ a.bc < k
        BY <1>k, <3>1, <4>1
      <4>3. k - a.bc - 1 \in s .. (s + n - 1)
        BY <1>k, <4>1, <4>2
      <4> QED BY <1>f, <2>r, <4>2, <4>3 DEF RunTo
    <3>3. RunTo(b, n, k + 1)
      <4>1. (k + 1) - (a.bc + 1) = k - a.bc /\ a.bc + 1 # 0
        BY <1>k
      <4>2. (a.bc + 1 < k + 1) => ~IsFree(k - a.bc - 1)
        BY <1>k, <2>r DEF RunTo
      <4>3. b.bc = a.bc + 1 /\ b.bs = k - a.bc
        BY <2>1
      <4> HIDE DEF b
      <4> QED BY <1>k, <2>2, <2>r, <3>1, <3>2, <4>1, <4>2, <4>3 DEF RunTo
    <3>4. ~b.done
      BY <2>5, <2>d
    <3> HIDE DEF b
    <3>5. ScanInv(b, n, k + 1)
      BY <3>3, <3>4 DEF ScanInv
    <3> QED BY <3>5 DEF b
  <2> QED BY <2>4, <2>5
<1> QED BY <1>1, <1>2, <1>3

LEMMA ScanHolds ==
  ASSUME NEW n \in Nat \ {0}
  PROVE  ScanInv(Scan(n)[Total], n, Total)
<1> DEFINE B == {k \in Nat : k <= Total /\ ~ScanInv(Scan(n)[k], n, k)}
<1>s. /\ Scan(n)[0] = Start /\ \A k \in 0 .. Total : Scan(n)[k] \in Counters
      /\ \A m \in 1 .. Total : Scan(n)[m] = ScanStep(n, Scan(n)[m - 1], m - 1)
  BY ScanSolves DEF Scans
<1>1. SUFFICES ASSUME B # {} PROVE FALSE
  OBVIOUS
<1>2. B \subseteq Nat
  OBVIOUS
<1> HIDE DEF B
<1>3. PICK k \in B : \A m \in B : k <= m
  BY <1>1, <1>2, MinIn
<1>4. k \in Nat /\ k <= Total /\ ~ScanInv(Scan(n)[k], n, k)
  BY <1>3 DEF B
<1>5. CASE k = 0
  <2>1. ScanInv(Start, n, 0)
    BY DEF ScanInv, RunTo, Start, Fits, Blocks
  <2> QED BY <1>4, <1>5, <1>s, <2>1
<1>6. CASE k # 0
  <2>1. k - 1 \in Nat /\ k - 1 <= Total /\ ~(k <= k - 1) /\ k - 1 \in Blocks
        /\ k - 1 \in 0 .. Total /\ k \in 1 .. Total /\ (k - 1) + 1 = k
    BY <1>4, <1>6 DEF Blocks
  <2>2. k - 1 \notin B
    BY <1>3, <2>1
  <2>3. ScanInv(Scan(n)[k - 1], n, k - 1)
    BY <2>1, <2>2 DEF B
  <2>4. ScanInv(ScanStep(n, Scan(n)[k - 1], k - 1), n, (k - 1) + 1)
    BY <1>s, <2>1, <2>3, StepKeeps
  <2> QED BY <1>4, <1>s, <2>1, <2>4
<1> QED BY <1>5, <1>6

(* At the end of the pool the counters name the block that is returned. *)
LEMMA ScanRight ==
  ASSUME NEW n \in Nat \ {0}
  PROVE  Scan(n)[Total].bs = heap_get_start_block(n)
<1>1. PICK a \in Counters : a = Scan(n)[Total]
  BY ScanSolves DEF Scans
<1>2. ScanInv(a, n, Total)
  BY <1>1, ScanHolds
<1>3. CASE a.done
  <2>1. a.bs \in Fits(n) /\ (\A s \in Fits(n) : a.bs <= s) /\ Fits(n) \subseteq Nat
    BY <1>2, <1>3 DEF ScanInv, First, Fits, Blocks
  <2>2. Min(Fits(n)) \in Fits(n) /\ Min(Fits(n)) <= a.bs
    BY <2>1, MinIn
  <2>3. Min(Fits(n)) = a.bs
    BY <2>1, <2>2
  <2> QED BY <1>1, <2>1, <2>3 DEF heap_get_start_block
<1>4. CASE ~a.done
  <2>r. RunTo(a, n, Total) /\ a.bc \in Nat
    BY <1>2, <1>4 DEF ScanInv, Counters
  <2>1. Fits(n) = {}
    <3> SUFFICES ASSUME NEW s \in Fits(n) PROVE FALSE
      OBVIOUS
    <3>1. s \in Nat /\ s + n <= Total
      BY DEF Fits, Blocks
    <3>2. s + n > Total
      BY <2>r DEF RunTo
    <3> QED BY <3>1, <3>2
  <2>2. CASE a.bc = 0
    <3>1. ~IsFree(Total - 1)
      BY <2>2, <2>r DEF RunTo
    <3>2. Trailing = {}
      BY <3>1 DEF Trailing, Blocks
    <3> QED BY <1>1, <2>1, <2>2, <2>r, <3>2 DEF RunTo, heap_get_start_block
  <2>3. CASE a.bc # 0
    <3>1. a.bs = Total - a.bc /\ a.bs \in Trailing /\ Trailing \subseteq Nat
      BY <2>3, <2>r DEF RunTo, Trailing, Blocks
    <3>2. \A s \in Trailing : a.bs <= s
      <4> SUFFICES ASSUME NEW s \in Trailing, ~(a.bs <= s) PROVE FALSE
        OBVIOUS
      <4>1. s \in Nat /\ s < Total - a.bc
        BY <2>r, <3>1 DEF Trailing, Blocks
      <4>2. a.bc < Total /\ (Total - a.bc) - 1 \in s .. (Total - 1)
        BY <2>3, <2>r, <4>1
      <4>3. ~IsFree((Total - a.bc) - 1)
        BY <2>r, <4>2 DEF RunTo
      <4> QED BY <4>2, <4>3 DEF Trailing
    <3>3. Min(Trailing) \in Trailing /\ Min(Trailing) <= a.bs
      BY <3>1, MinIn
    <3>4. a.bs \in Nat /\ Min(Trailing) \in Nat /\ a.bs <= Min(Trailing)
      BY <3>1, <3>2, <3>3
    <3>5. Min(Trailing) = a.bs
      BY <3>3, <3>4
    <3> QED BY <1>1, <2>1, <3>1, <3>5 DEF heap_get_start_block
  <2> QED BY <2>2, <2>3
<1> QED BY <1>3, <1>4

-----------------------------------------------------------------------------
LEMMA Invariance == Spec => []HeapInv
  BY InitInv, NextInv, PTL DEF Spec

(***************************************************************************)
(* heap.c never hands out a block that is in use, in a pool and with       *)
(* requests of any size.                                                   *)
(***************************************************************************)
THEOREM HeapNoOverlap == Spec => []NoOverlap
<1>1. HeapInv => NoOverlap
  BY DEF HeapInv
<1> QED BY <1>1, Invariance, PTL

(***************************************************************************)
(* heap.c neither loses a block nor frees one in use: its table marks      *)
(* exactly the blocks of the live allocations.                             *)
(***************************************************************************)
THEOREM HeapTableIsHeld == Spec => []TableIsHeld
<1>1. HeapInv => TableIsHeld
  BY DEF HeapInv
<1> QED BY <1>1, Invariance, PTL

(* The state of the heap keeps its type. *)
THEOREM HeapTyped == Spec => []TypeOK
<1>1. HeapInv => TypeOK
  BY DEF HeapInv
<1> QED BY <1>1, Invariance, PTL

(***************************************************************************)
(* The loop of heap_get_start_block, whatever the table looks like and     *)
(* however long the request, ends with the first run that is long enough   *)
(* or with the run at the end of the pool.                                 *)
(***************************************************************************)
THEOREM HeapScanAgrees == Spec => []ScanAgrees
<1>1. ScanAgrees
  <2>1. \A n \in 1 .. Total + 1 : n \in Nat \ {0}
    OBVIOUS
  <2> QED BY <2>1, ScanRight DEF ScanAgrees
<1> QED BY <1>1, PTL
=============================================================================
