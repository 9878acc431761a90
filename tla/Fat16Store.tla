----------------------------- MODULE Fat16Store -----------------------------
(***************************************************************************)
(* The FAT16 driver implements the flat store.  The file of a name is what *)
(* the disk holds for its directory entry: the clusters of the chain, as   *)
(* fat16_write and fat16_free_cluster_chain follow it, up to the size.     *)
(* That is the directory as ls, fdelete and fopen for writing scan it;     *)
(* fopen for reading looks at the first `total` slots of it only           *)
(* (LookupReaches), and fat16_get_cluster_for_offset stops, with an error, *)
(* at clusters with a number in ReadEnds (ReadsStored).                    *)
(*                                                                         *)
(* Truncation and deletion take effect with their first step, as they can  *)
(* no longer fail.  A write takes effect when the entry is flushed, but    *)
(* for the units that lay in the file before: each of these that it writes *)
(* is a write of the store by itself.                                      *)
(***************************************************************************)
EXTENDS Fat16

(* The chain as the writing calls follow it: up to an entry that is no     *)
(* link.                                                                   *)
ChainEnds == {e \in 0 .. 65535 : ~IsLink(e)}

StoredAt(c, n) == Follow(c, n, ChainEnds)

(* The unit at offset p of the file whose chain starts at c. *)
UnitAt(c, p) ==
  LET k == StoredAt(c, p \div ClusterSize)
  IN  IF k \in Clusters THEN data[k][p % ClusterSize] ELSE Zeros

(* What the disk holds for an entry. *)
Contents(e) == [p \in 0 .. (e.size - 1) |-> UnitAt(e.first, p)]

(* The slots of the files there are, and the file of a slot. *)
Shown == {s \in Slots : IsLive(s) /\ ~(pc = "delete" /\ s = slot)}

FileAt(s) == IF pc = "truncate" /\ s = slot THEN [p \in {} |-> 0] ELSE Contents(item[s])

Files ==
  [n \in {item[s].name : s \in Shown} |-> FileAt(Min({s \in Shown : item[s].name = n}))]

(* The unit that stands for what a caller writes. *)
UnitOf(n, p) == <<n, p>>

Store == INSTANCE FlatStore WITH files <- Files, Unit <- UnitOf

(***************************************************************************)
(* Every step of the driver is one operation of the store or leaves it as  *)
(* it is: of the writes to the FAT, to the clusters and to the directory   *)
(* that make up a call in fat16.c, nothing shows in another file, and in   *)
(* the file of the call nothing but what the store allows: never a chain   *)
(* half freed, a cluster that is not yet linked or a size without data.    *)
(***************************************************************************)
ImplementsStore == Store!Spec

(***************************************************************************)
(* What fread delivers from inside a file is what the file holds: below    *)
(* the size, the walk of fat16_get_cluster_for_offset, which knows other   *)
(* end marks than the rest of the driver, comes to the cluster of the      *)
(* chain, or stops with an error.                                          *)
(***************************************************************************)
ReadsStored ==
  \A s \in Shown : \A p \in DOMAIN FileAt(s) :
    LET n == p \div ClusterSize
    IN  /\ StoredAt(item[s].first, n) \in Clusters
        /\ ClusterFor(item[s].first, n) \in {NONE, StoredAt(item[s].first, n)}
=============================================================================
