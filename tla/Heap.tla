-------------------------------- MODULE Heap --------------------------------
(***************************************************************************)
(* The kernel heap: src/src/memory/heap/heap.c behind kmalloc, kzalloc and *)
(* kfree of kheap.c.  The pool is an array of blocks; a table holds one    *)
(* byte of flags per block.  The byte is modelled by the set of its flags. *)
(* IS_FIRST is written and never read, as in the code.                     *)
(*                                                                         *)
(* `held` stands for the callers: the allocations that were returned and   *)
(* not yet freed.  Callers free only what they hold, and only once.        *)
(***************************************************************************)
EXTENDS Integers, FiniteSetsExt

CONSTANTS
  Total,      \* table->total: the number of blocks of the pool
  BlockSize,  \* PEACHOS_HEAP_BLOCK_SIZE
  Sizes       \* the byte counts the callers ask for; never 0

ASSUME TotalAssumption     == Total \in Nat \ {0}
ASSUME BlockSizeAssumption == BlockSize \in Nat \ {0}
ASSUME SizesAssumption     == Sizes \subseteq Nat \ {0}

VARIABLES
  table,  \* kernel_heap_table.entries
  held,   \* the allocations the callers own
  ptr     \* the block of the last pointer kmalloc returned, or NULL

vars == <<table, held, ptr>>

Blocks == 0 .. Total - 1
NULL   == -1                              \* no block: the pointer 0

FREE  == {}                               \* HEAP_BLOCK_TABLE_ENTRY_FREE
Flags == {"TAKEN", "IS_FIRST", "HAS_NEXT"}

(* The blocks of an allocation, those past the end of the pool included.   *)
Extent(h) == h.start .. (h.start + h.blocks - 1)

-----------------------------------------------------------------------------
heap_align_value_to_upper(val) ==
  IF val % BlockSize = 0 THEN val ELSE val - (val % BlockSize) + BlockSize

BlocksFor(size) == heap_align_value_to_upper(size) \div BlockSize

heap_get_entry_type(entry) == entry \cap {"TAKEN"}

IsFree(i) == heap_get_entry_type(table[i]) = FREE

(* Mutant: bc starts at 1, and a run that is one block short will do. *)
FitsShort(n) == {s \in Blocks : /\ s + n - 1 <= Total
                                /\ \A i \in s .. (s + n - 2) : IsFree(i)}

(* The starts of the runs of n free blocks that lie inside the pool.       *)
Fits(n) == {s \in Blocks : /\ s + n <= Total
                           /\ \A i \in s .. (s + n - 1) : IsFree(i)}

(* The blocks from which everything up to the end of the pool is free.     *)
Trailing == {s \in Blocks : \A i \in s .. (Total - 1) : IsFree(i)}

(* Mutant: the scan runs to i <= total and takes the byte past the table    *)
(* for a free block.                                                       *)
ScansPastTable(n) ==
  CASE Fits(n) # {}                     -> Min(Fits(n))
    [] Fits(n) = {} /\ Trailing # {}    -> Min(Trailing)
    [] Fits(n) = {} /\ Trailing = {}    -> Total

(* Mutant: bc is not reset at a taken block, so a start is found although  *)
(* its run is interrupted.                                                 *)
CountsAcrossTaken(n) ==
  LET starts == {s \in Blocks : s + n <= Total /\ IsFree(s)}
  IN  IF starts = {} THEN NULL ELSE Min(starts)

(***************************************************************************)
(* What the scan of heap_get_start_block leaves in bs, for n > 0: the      *)
(* first run that is long enough; with no such run, the start of the free  *)
(* run at the end of the pool, however short; and -1 only when the last    *)
(* block is taken.                                                         *)
(***************************************************************************)
heap_get_start_block(n) ==
  CASE Fits(n) # {}                     -> Min(Fits(n))
    [] Fits(n) = {} /\ Trailing # {}    -> Min(Trailing)
    [] Fits(n) = {} /\ Trailing = {}    -> NULL

(***************************************************************************)
(* The loop of heap_get_start_block as it is written, with its counters bc *)
(* and bs: what it has found after the first k blocks.  `done` is the      *)
(* break.                                                                  *)
(***************************************************************************)
ScanStep(n, a, i) ==
  IF a.done THEN a
  ELSE IF ~IsFree(i) THEN [bc |-> 0, bs |-> NULL, done |-> FALSE]
  ELSE [bc   |-> a.bc + 1,
        bs   |-> IF a.bs = NULL THEN i ELSE a.bs,
        done |-> a.bc + 1 = n]

Scan(n) ==
  LET scan[k \in 0 .. Total] ==
        IF k = 0 THEN [bc |-> 0, bs |-> NULL, done |-> FALSE]
                 ELSE ScanStep(n, scan[k - 1], k - 1)
  IN  scan

(* The flags heap_mark_blocks_taken gives block i of the n blocks from s.  *)
TakenEntry(i, s, n) ==
  {"TAKEN"} \cup (IF i = s THEN {"IS_FIRST"} ELSE {})
            \cup (IF i < s + n - 1 THEN {"HAS_NEXT"} ELSE {})

(* The code also writes the entries of blocks past the pool; they lie past *)
(* the table and no scan or walk reads them.                               *)
heap_mark_blocks_taken(s, n) ==
  [i \in Blocks |-> IF i \in s .. (s + n - 1) THEN TakenEntry(i, s, n) ELSE table[i]]

(* Mutant: the walk ignores HAS_NEXT and stops after one block. *)
FreesOnlyFirst(s) == [i \in Blocks |-> IF i = s THEN FREE ELSE table[i]]

(* The loop frees block after block and stops behind the first one that    *)
(* has no HAS_NEXT, or at the end of the table.                            *)
heap_mark_blocks_free(s) ==
  [i \in Blocks |->
     IF s <= i /\ \A j \in s .. (i - 1) : "HAS_NEXT" \in table[j]
     THEN FREE ELSE table[i]]

-----------------------------------------------------------------------------
(* heap_create: every entry free. *)
Init ==
  /\ table = [i \in Blocks |-> FREE]
  /\ held  = {}
  /\ ptr   = NULL

(* heap_malloc when heap_get_start_block finds a start. *)
kmalloc(size) ==
  LET n == BlocksFor(size)
      s == heap_get_start_block(n)
  IN  /\ s # NULL
      /\ table' = heap_mark_blocks_taken(s, n)
      /\ held'  = held \cup {[start |-> s, blocks |-> n]}
      /\ ptr'   = s

(* heap_malloc when it does not: the caller gets the null pointer. *)
kmalloc_fails(size) ==
  /\ heap_get_start_block(BlocksFor(size)) = NULL
  /\ ptr' = NULL
  /\ UNCHANGED <<table, held>>

kfree(h) ==
  /\ table' = heap_mark_blocks_free(h.start)
  /\ held'  = held \ {h}
  /\ UNCHANGED ptr

Next ==
  \/ \E size \in Sizes : kmalloc(size)
  \/ \E size \in Sizes : kmalloc_fails(size)
  \/ \E h \in held : kfree(h)

Spec == Init /\ [][Next]_vars

-----------------------------------------------------------------------------
Allocations == [start : Blocks, blocks : Nat \ {0}]

TypeOK ==
  /\ table \in [Blocks -> SUBSET Flags]
  /\ held \subseteq Allocations
  /\ ptr \in Blocks \cup {NULL}

(***************************************************************************)
(* Two allocations that are both in use never share a block.  The search,  *)
(* the chain of HAS_NEXT flags and the walk that frees it must agree over  *)
(* any sequence of kmalloc and kfree for this to hold.                     *)
(***************************************************************************)
NoOverlap ==
  \A g, h \in held : g # h => Extent(g) \cap Extent(h) = {}

(***************************************************************************)
(* The table marks exactly the blocks in use: kfree gives back all the     *)
(* blocks its kmalloc took, and none of a neighbour's.                     *)
(***************************************************************************)
TableIsHeld ==
  \A i \in Blocks : ~IsFree(i) <=> \E h \in held : i \in Extent(h)

(***************************************************************************)
(* config.h calls the pool a "100MB heap size": memory handed out lies in  *)
(* the pool.  heap_get_start_block breaks it when the only free run is at  *)
(* the end and too short.                                                  *)
(***************************************************************************)
InPool == \A h \in held : h.start + h.blocks <= Total

(***************************************************************************)
(* The loop of heap_get_start_block ends with the block the declarative    *)
(* definition picks, for every request and every table that is reached:    *)
(* the counters it carries from block to block amount to the first run     *)
(* that is long enough, or to the run at the end.                          *)
(***************************************************************************)
ScanAgrees == \A n \in 1 .. Total + 1 : Scan(n)[Total].bs = heap_get_start_block(n)

(* The flags of an allocation's blocks chain from its first to its last.   *)
ChainOK(h) ==
  \A i \in Blocks : i \in Extent(h) =>
     /\ "TAKEN" \in table[i]
     /\ "HAS_NEXT" \in table[i] <=> i < h.start + h.blocks - 1

(* The inductive invariant behind NoOverlap and TableIsHeld. *)
HeapInv ==
  /\ TypeOK
  /\ NoOverlap
  /\ TableIsHeld
  /\ \A h \in held : ChainOK(h)
=============================================================================
