------------------------------- MODULE Fat16 -------------------------------
(***************************************************************************)
(* The FAT16 driver (src/src/fs/fat/fat16.c) under the file descriptor     *)
(* table (src/src/fs/file.c), as the system calls of isr80h/io.c use them. *)
(*                                                                         *)
(* A system call runs with interrupts off, so two calls never interleave;  *)
(* but each is a sequence of disk writes, and power can fail between any   *)
(* two.  One action is therefore one disk write with the memory accesses   *)
(* around it.  The two copies of the FAT are written one after the other:  *)
(* `mirror` holds what the second copy still has to get.                   *)
(*                                                                         *)
(* The root directory is cached in memory (item) and written through (dir).*)
(* A file is a chain of clusters.  Bytes are counted in units, with        *)
(* ClusterSize of them in a cluster; a unit is what one write of a sector  *)
(* takes to the disk.  The unit at offset p of file n is written with the  *)
(* value <<n, p>>, so that every unit that is found in a wrong place, or   *)
(* is left over from another file, shows.                                  *)
(***************************************************************************)
EXTENDS Integers, FiniteSetsExt

CONSTANTS
  Names,        \* the file names callers use
  NoName,       \* no name
  to83,         \* the name a directory shows for a file created as n
  BootFile,     \* the file the disk image comes with (shell.bin)
  NClusters,    \* count_of_clusters
  ClusterSize,  \* units of a cluster
  NSlots,       \* root_dir_entries
  MaxFds,       \* PEACHOS_MAX_FILE_DESCRIPTORS
  MaxWrite,     \* bound: units of one write or read call
  MaxSize,      \* bound: units of a file, and positions
  MaxReaders,   \* bound: descriptors open for reading
  Polite,       \* callers write only what they opened to write, read only
                \* what they opened to read, and neither truncate nor delete
                \* what is open for writing
  Seeks,        \* callers use fseek
  PowerFails    \* the values of pc at which the machine may restart

PCs == {"idle", "truncate", "delete", "alloc", "link", "write"}

ASSUME NamesAssumption     == /\ BootFile \in Names
                              /\ NoName \notin Names
                              /\ to83 \in [Names -> Names]
ASSUME ClustersAssumption  == NClusters \in Nat \ {0} /\ NClusters < 65526
ASSUME UnitsAssumption     == /\ ClusterSize \in Nat \ {0}
                              /\ MaxWrite \in Nat \ {0}
                              /\ MaxSize \in Nat \ {0}
                              /\ MaxReaders \in Nat
                              /\ MaxWrite <= ClusterSize  \* 4095 bytes, 64 KB
ASSUME SlotsAssumption     == NSlots \in Nat \ {0} /\ MaxFds \in Nat \ {0}
ASSUME CallersAssumption   == /\ Polite \in BOOLEAN /\ Seeks \in BOOLEAN
                              /\ PowerFails \subseteq PCs

EOC      == 65535                        \* FAT16_EOC
Clusters == 2 .. NClusters + 1
Links    == {0, EOC} \cup Clusters       \* 0 is PEACHOS_FAT16_UNUSED
Slots    == 0 .. NSlots - 1
Fds      == 1 .. MaxFds
Offsets  == 0 .. ClusterSize - 1
Units    == (Names \cup {NoName}) \X Nat

Zeros == <<NoName, 0>>                   \* what the image is filled with
NONE  == -1

(* A directory entry.  st tells the first byte of the name apart: 0x00     *)
(* (the end of the directory), 0xE5 (deleted) or a name.                   *)
Entries == [st : {"end", "deleted", "live"}, name : Names \cup {NoName},
            first : {0} \cup Clusters, size : Nat]
End      == [st |-> "end",     name |-> NoName, first |-> 0, size |-> 0]
Deleted  == [st |-> "deleted", name |-> NoName, first |-> 0, size |-> 0]
NewEntry(n) == [st |-> "live", name |-> to83[n], first |-> 0, size |-> 0]

(* struct file_descriptor with its private struct fat_file_descriptor: the *)
(* clone of the directory entry, the position, and the slot to flush to.   *)
Descs == [fd : Fds, item : Entries, pos : Nat, slot : Slots \cup {NONE}]

VARIABLES
  fat1, fat2,  \* the two copies of the FAT, on disk
  mirror,      \* the write to fat2 that is still to come: none or one
  dir,         \* the root directory, on disk
  data,        \* the clusters, on disk
  item,        \* root_directory.item
  total,       \* root_directory.total
  fds,         \* file_descriptors
  pc,          \* where the running system call is; "idle" between calls
  slot,        \* the directory slot of the running call
  cur,         \* its current cluster, 0 for none
  fresh,       \* the cluster fat16_alloc_cluster found, 0 for none
  first,       \* *first_cluster of fat16_write_internal
  ahead,       \* links to follow before the next data write
  at,          \* the offset in the file of the next data write
  left,        \* units of the call that are still to be written
  desc,        \* the descriptor it writes to: none or one
  ret          \* the result of the last call; "past" is an "ok" of a read that
               \* went on behind the end of its chain

disk == <<fat1, fat2, mirror, dir, data>>
mem  == <<item, total, fds>>
loc  == <<slot, cur, fresh, first, ahead, at, left, desc>>
vars == <<disk, mem, pc, loc, ret>>

-----------------------------------------------------------------------------
(* Searches *)

IsLink(e) == e >= 2 /\ e < 65528          \* FAT16_EOC_MIN

IsLive(s) == item[s].st = "live"

(* The slots the scans below meet before a 0x00 entry ends them. *)
Scanned == {s \in Slots : \A t \in 0 .. s : item[t].st # "end"}

(* fat16_find_root_dir_slot_by_name: the first match. *)
SlotsNamed(n) == {s \in Scanned : IsLive(s) /\ item[s].name = n}

(* fat16_find_item_in_directory: below total, the last match. *)
ItemsNamed(n) == {s \in Slots : s < total /\ IsLive(s) /\ item[s].name = n}

(* fat16_find_free_root_dir_slot *)
FreeSlots == {s \in Slots : ~IsLive(s)}

(* Mutant: the end of a chain is taken for a free cluster. *)
FreeOrEnd == {c \in Clusters : fat1[c] \in {0, EOC}}

(* fat16_find_free_cluster, which reads the first copy of the FAT. *)
FreeClusters == {c \in Clusters : fat1[c] = 0}

(* file_new_descriptor: the lowest free index, if there is one. *)
FreeFds == Fds \ {d.fd : d \in fds}

NewDescriptor(e, s) ==
  IF FreeFds = {} THEN {}
  ELSE {[fd |-> Min(FreeFds), item |-> e, pos |-> 0, slot |-> s]}

(* file_get_descriptor rejects the last index. *)
Usable(d) == d.fd < MaxFds

(* fat16_get_total_items_for_directory counts what is not deleted up to    *)
(* the first 0x00.  In a full directory it runs on into the data area; the *)
(* lookup then runs past the end of item.  Only counts up to the number of *)
(* slots are in the model.                                                 *)
Totals ==
  LET ends == {s \in Slots : dir[s].st = "end"}
      Live(S) == Cardinality({s \in S : dir[s].st = "live"})
  IN  IF ends = {} THEN Live(Slots) .. NSlots ELSE {Live(0 .. Min(ends) - 1)}

WriteOpen(n) == \E d \in fds : d.slot # NONE /\ d.item.name = n

-----------------------------------------------------------------------------
(* fat16_set_fat_entry: the first copy, then the second. *)
SetFatEntry(c, v) ==
  /\ fat1'   = [fat1 EXCEPT ![c] = v]
  /\ mirror' = {<<c, v>>}
  /\ UNCHANGED fat2

SetFatEntry2 ==
  \E m \in mirror :
    /\ fat2'   = [fat2 EXCEPT ![m[1]] = m[2]]
    /\ mirror' = {}
    /\ UNCHANGED <<fat1, dir, data, mem, pc, loc, ret>>

(* The item is changed in memory and written through. *)
WriteRootDirEntry(s, e) ==
  /\ item' = [item EXCEPT ![s] = e]
  /\ dir'  = [dir EXCEPT ![s] = e]

At(l) == pc = l /\ mirror = {}

(* The return to user space; the locals of the call are gone. *)
Done(r) ==
  /\ pc' = "idle"
  /\ ret' = r
  /\ slot' = 0 /\ cur' = 0 /\ fresh' = 0 /\ first' = 0
  /\ ahead' = 0 /\ at' = 0 /\ left' = 0 /\ desc' = {}

Fails == Done("error") /\ UNCHANGED <<disk, mem>>

-----------------------------------------------------------------------------
(* fopen for reading: fat16_open clones the entry, no slot to flush to. *)
fopen_r(n) ==
  /\ At("idle")
  /\ \/ /\ ItemsNamed(n) = {}
        /\ Fails
     \/ /\ ItemsNamed(n) # {}
        /\ Cardinality({d \in fds : d.slot = NONE}) < MaxReaders
        /\ fds' = fds \cup NewDescriptor(item[Max(ItemsNamed(n))], NONE)
        /\ Done(IF FreeFds = {} THEN "error" ELSE "ok")
        /\ UNCHANGED <<disk, item, total>>

(* Mutant: truncation forgets the clusters. *)
fopen_w_keeps_chain(n) ==
  /\ At("idle")
  /\ SlotsNamed(n) # {}
  /\ Polite => ~WriteOpen(n)
  /\ pc'   = "truncate"
  /\ slot' = Min(SlotsNamed(n))
  /\ UNCHANGED <<disk, mem, cur, fresh, first, ahead, at, left, desc, ret>>

(* fopen for writing, the name being there: truncation starts.  A first    *)
(* cluster of 0 leaves nothing to free.                                    *)
fopen_w_exists(n) ==
  /\ At("idle")
  /\ SlotsNamed(n) # {}
  /\ Polite => ~WriteOpen(n)
  /\ pc'   = "truncate"
  /\ slot' = Min(SlotsNamed(n))
  /\ cur'  = item[Min(SlotsNamed(n))].first
  /\ UNCHANGED <<disk, mem, fresh, first, ahead, at, left, desc, ret>>

(* Mutants: a slot is taken without a look whether the name is there;      *)
(* total is left as it is.                                                 *)
fopen_w_unlooked(n) ==
  LET s == Min(FreeSlots) IN
  /\ At("idle")
  /\ FreeSlots # {}
  /\ WriteRootDirEntry(s, NewEntry(n))
  /\ total' = IF s >= total THEN s + 1 ELSE total
  /\ fds' = fds \cup NewDescriptor(NewEntry(n), s)
  /\ Done(IF FreeFds = {} THEN "error" ELSE "ok")
  /\ UNCHANGED <<fat1, fat2, mirror, data>>

fopen_w_total_kept(n) ==
  LET s == Min(FreeSlots) IN
  /\ At("idle")
  /\ SlotsNamed(n) = {}
  /\ FreeSlots # {}
  /\ WriteRootDirEntry(s, NewEntry(n))
  /\ fds' = fds \cup NewDescriptor(NewEntry(n), s)
  /\ Done(IF FreeFds = {} THEN "error" ELSE "ok")
  /\ UNCHANGED <<fat1, fat2, mirror, data, total>>

(* fopen for writing, the name not being there: a slot is taken.  The file *)
(* is made even if the descriptor table has no room.                       *)
fopen_w_new(n) ==
  /\ At("idle")
  /\ SlotsNamed(n) = {}
  /\ \/ /\ FreeSlots = {}
        /\ Fails
     \/ LET s == Min(FreeSlots) IN
        /\ FreeSlots # {}
        /\ WriteRootDirEntry(s, NewEntry(n))
        /\ total' = IF s >= total THEN s + 1 ELSE total
        /\ fds' = fds \cup NewDescriptor(NewEntry(n), s)
        /\ Done(IF FreeFds = {} THEN "error" ELSE "ok")
        /\ UNCHANGED <<fat1, fat2, mirror, data>>

(* Mutants: the entry keeps its first cluster; the entry is not flushed. *)
truncated_keeps_first ==
  LET e == [item[slot] EXCEPT !.size = 0] IN
  /\ At("truncate")
  /\ cur = 0
  /\ WriteRootDirEntry(slot, e)
  /\ fds' = fds \cup NewDescriptor(e, slot)
  /\ Done("ok")
  /\ UNCHANGED <<fat1, fat2, mirror, data, total>>

truncated_in_memory ==
  LET e == [item[slot] EXCEPT !.first = 0, !.size = 0] IN
  /\ At("truncate")
  /\ cur = 0
  /\ item' = [item EXCEPT ![slot] = e]
  /\ fds' = fds \cup NewDescriptor(e, slot)
  /\ Done("ok")
  /\ UNCHANGED <<disk, total>>

(* The end of fopen for writing after the chain is freed. *)
truncated ==
  LET e == [item[slot] EXCEPT !.first = 0, !.size = 0] IN
  /\ At("truncate")
  /\ cur = 0
  /\ WriteRootDirEntry(slot, e)
  /\ fds' = fds \cup NewDescriptor(e, slot)
  /\ Done(IF FreeFds = {} THEN "error" ELSE "ok")
  /\ UNCHANGED <<fat1, fat2, mirror, data, total>>

fdelete(n) ==
  /\ At("idle")
  /\ \/ /\ SlotsNamed(n) = {}
        /\ Fails
     \/ /\ SlotsNamed(n) # {}
        /\ Polite => ~WriteOpen(n)
        /\ pc'   = "delete"
        /\ slot' = Min(SlotsNamed(n))
        /\ cur'  = item[Min(SlotsNamed(n))].first
        /\ UNCHANGED <<disk, mem, fresh, first, ahead, at, left, desc, ret>>

(* Mutant: the first byte of the name becomes 0x00. *)
deleted_as_end ==
  /\ At("delete")
  /\ cur = 0
  /\ WriteRootDirEntry(slot, End)
  /\ Done("ok")
  /\ UNCHANGED <<fat1, fat2, mirror, data, total, fds>>

deleted ==
  /\ At("delete")
  /\ cur = 0
  /\ WriteRootDirEntry(slot, Deleted)
  /\ Done("ok")
  /\ UNCHANGED <<fat1, fat2, mirror, data, total, fds>>

(* Mutants: the end of the chain is not looked for; next is not taken. *)
free_to_the_end ==
  /\ At("truncate") \/ At("delete")
  /\ cur # 0
  /\ SetFatEntry(cur, 0)
  /\ cur' = fat1[cur]
  /\ UNCHANGED <<dir, data, mem, pc, slot, fresh, first, ahead, at, left, desc, ret>>

free_stays ==
  /\ At("truncate") \/ At("delete")
  /\ cur # 0
  /\ SetFatEntry(cur, 0)
  /\ UNCHANGED <<dir, data, mem, pc, loc, ret>>

(* One turn of the loop of fat16_free_cluster_chain. *)
free_cluster_chain ==
  /\ At("truncate") \/ At("delete")
  /\ cur # 0
  /\ SetFatEntry(cur, 0)
  /\ cur' = IF IsLink(fat1[cur]) THEN fat1[cur] ELSE 0
  /\ UNCHANGED <<dir, data, mem, pc, slot, fresh, first, ahead, at, left, desc, ret>>

-----------------------------------------------------------------------------
(* fwrite, up to the first disk access of fat16_write_internal.  A file    *)
(* without clusters gets one, whatever the offset.                         *)
fwrite(d, k) ==
  /\ At("idle")
  /\ Polite => d.slot # NONE
  /\ \/ /\ ~Usable(d)
        /\ Fails
     \/ /\ Usable(d)
        /\ d.pos + k <= MaxSize
        /\ pc'    = IF d.item.first = 0 THEN "alloc" ELSE "write"
        /\ slot'  = 0
        /\ cur'   = d.item.first
        /\ first' = d.item.first
        /\ ahead' = IF d.item.first = 0 THEN 0 ELSE d.pos \div ClusterSize
        /\ at'    = d.pos
        /\ left'  = k
        /\ desc'  = {d}
        /\ UNCHANGED <<disk, mem, fresh, ret>>

(* The step from a cluster of the chain to the next, both in the walk to   *)
(* the offset and between two data writes.                                 *)
next_cluster ==
  /\ At("write")
  /\ ahead > 0
  /\ \/ /\ IsLink(fat1[cur])
        /\ cur'   = fat1[cur]
        /\ ahead' = ahead - 1
        /\ UNCHANGED pc
     \/ /\ ~IsLink(fat1[cur])
        /\ pc' = "alloc"
        /\ UNCHANGED <<cur, ahead>>
  /\ UNCHANGED <<disk, mem, slot, fresh, first, at, left, desc, ret>>

(* Mutant: the new cluster is linked and never marked as taken. *)
alloc_unmarked ==
  LET c == Min(FreeClusters) IN
  /\ At("alloc")
  /\ FreeClusters # {}
  /\ IF cur >= 2
     THEN pc' = "link"  /\ fresh' = c /\ UNCHANGED <<cur, first>>
     ELSE pc' = "write" /\ fresh' = 0 /\ cur' = c /\ first' = c
  /\ UNCHANGED <<disk, mem, slot, ahead, at, left, desc, ret>>

(* fat16_alloc_cluster: the new cluster ends a chain before the chain is   *)
(* made to lead to it.                                                     *)
alloc_cluster ==
  /\ At("alloc")
  /\ \/ /\ FreeClusters = {}
        /\ Fails
     \/ LET c == Min(FreeClusters) IN
        /\ FreeClusters # {}
        /\ SetFatEntry(c, EOC)
        /\ IF cur >= 2
           THEN pc' = "link"  /\ fresh' = c /\ UNCHANGED <<cur, first>>
           ELSE pc' = "write" /\ fresh' = 0 /\ cur' = c /\ first' = c
        /\ UNCHANGED <<dir, data, mem, slot, ahead, at, left, desc, ret>>

link_cluster ==
  /\ At("link")
  /\ SetFatEntry(cur, fresh)
  /\ pc'    = "write"
  /\ cur'   = fresh
  /\ fresh' = 0
  /\ ahead' = ahead - 1
  /\ UNCHANGED <<dir, data, mem, slot, first, at, left, desc, ret>>

(* Mutant: the rest of the call goes to the same cluster again. *)
write_without_step ==
  /\ At("write")
  /\ ahead = 0
  /\ left > 0
  /\ \E d \in desc :
       data' = [data EXCEPT ![cur] = [u \in Offsets |-> IF u = at % ClusterSize
                                        THEN <<d.item.name, at>> ELSE data[cur][u]]]
  /\ at'   = at + 1
  /\ left' = left - 1
  /\ UNCHANGED <<fat1, fat2, mirror, dir, mem, pc, slot, cur, fresh, first, ahead, desc, ret>>

(* fat16_write_cluster_data, a unit at a time: diskstreamer_write brings   *)
(* sector after sector to the disk, up to the end of the cluster or of the *)
(* call.  Behind the end of the cluster is a link to follow.               *)
write_cluster_data ==
  /\ At("write")
  /\ ahead = 0
  /\ left > 0
  /\ \E d \in desc :
       data' = [data EXCEPT ![cur] = [u \in Offsets |-> IF u = at % ClusterSize
                                        THEN <<d.item.name, at>> ELSE data[cur][u]]]
  /\ at'    = at + 1
  /\ left'  = left - 1
  /\ ahead' = IF left > 1 /\ (at % ClusterSize) + 1 = ClusterSize THEN 1 ELSE 0
  /\ UNCHANGED <<fat1, fat2, mirror, dir, mem, pc, slot, cur, fresh, first, desc, ret>>

(* Mutant: the size becomes the end of the call, also of one that starts   *)
(* before the end of the file.                                             *)
written_shrinks ==
  /\ At("write")
  /\ ahead = 0
  /\ left = 0
  /\ \E d \in desc :
       LET e == [d.item EXCEPT !.first = first, !.size = at]
       IN  /\ fds' = (fds \ {d}) \cup {[d EXCEPT !.item = e, !.pos = at]}
           /\ \/ d.slot # NONE /\ WriteRootDirEntry(d.slot, e)
              \/ d.slot = NONE /\ UNCHANGED <<item, dir>>
  /\ Done("ok")
  /\ UNCHANGED <<fat1, fat2, mirror, data, total>>

(* The rest of fat16_write: the descriptor's clone takes the new size and  *)
(* first cluster and is copied over the directory slot, if there is one.   *)
written ==
  /\ At("write")
  /\ ahead = 0
  /\ left = 0
  /\ \E d \in desc :
       LET e == [d.item EXCEPT !.first = first,
                               !.size  = IF at > d.item.size THEN at ELSE d.item.size]
       IN  /\ fds' = (fds \ {d}) \cup {[d EXCEPT !.item = e, !.pos = at]}
           /\ \/ d.slot # NONE /\ WriteRootDirEntry(d.slot, e)
              \/ d.slot = NONE /\ UNCHANGED <<item, dir>>
  /\ Done("ok")
  /\ UNCHANGED <<fat1, fat2, mirror, data, total>>

-----------------------------------------------------------------------------
(* fat16_get_fat_entry as the read path uses it: the entry of cluster 0    *)
(* and the one of cluster 0xFFFF, the last of the FAT, are unused.         *)
FatEntry(c) == IF c \in Clusters THEN fat1[c] ELSE 0

(* The entries fat16_get_cluster_for_offset stops at: 0 and values that    *)
(* FAT12 has for bad clusters and for the end of a chain.                  *)
ReadEnds == {0, 4080, 4086, 4087, 4088, 4095}

(* The cluster n links behind c, NONE when one of the entries on the way   *)
(* is among ends.                                                          *)
Follow(c, n, ends) ==
  LET walk[i \in 0 .. n] ==
        IF i = 0 THEN c
        ELSE IF walk[i - 1] = NONE \/ FatEntry(walk[i - 1]) \in ends THEN NONE
        ELSE FatEntry(walk[i - 1])
  IN  walk[n]

(* Mutant: the walk ends one link early. *)
cluster_in_front(c, n) == IF n = 0 THEN c ELSE Follow(c, n - 1, ReadEnds)

(* fat16_get_cluster_for_offset: NONE for -EIO.  FAT16_EOC is none of the  *)
(* values it stops at, so 0xFFFF is one more cluster to it.                *)
ClusterFor(c, n) == Follow(c, n, ReadEnds)

(* fread of k units.  The position is not moved and the size of the file   *)
(* plays no part.  Cluster 0, of a file that has none, and cluster 0xFFFF  *)
(* are read like any other: the sector of the first is one of the second   *)
(* FAT, and the position of the second, 8388940 * 512 in 32 bits, is that  *)
(* of sector 332, of the first FAT.                                        *)
fread(d, k) ==
  LET found == {ClusterFor(d.item.first, p \div ClusterSize) : p \in d.pos .. (d.pos + k - 1)}
  IN  /\ At("idle")
      /\ Polite => d.slot = NONE
      /\ \/ /\ ~Usable(d) \/ NONE \in found
            /\ Fails
         \/ /\ Usable(d) /\ NONE \notin found
            /\ Done(IF EOC \in found THEN "past" ELSE "ok")
            /\ UNCHANGED <<disk, mem>>

(* fseek to offset o, from the start or from the position.  It refuses an  *)
(* offset of at least the size, not a position.                            *)
fseek(d, o) ==
  /\ Seeks
  /\ At("idle")
  /\ \/ /\ ~Usable(d) \/ o >= d.item.size
        /\ Fails
     \/ /\ Usable(d)
        /\ o < d.item.size
        /\ \E p \in {o, d.pos + o} :
             /\ p <= MaxSize
             /\ fds' = (fds \ {d}) \cup {[d EXCEPT !.pos = p]}
        /\ Done("ok")
        /\ UNCHANGED <<disk, item, total>>

fclose(d) ==
  /\ At("idle")
  /\ \/ /\ ~Usable(d)
        /\ Fails
     \/ /\ Usable(d)
        /\ fds' = fds \ {d}
        /\ Done("ok")
        /\ UNCHANGED <<disk, item, total>>

-----------------------------------------------------------------------------
(* The name fat16_readdir gives for an index, NoName past the last one. *)
readdir(i) ==
  LET hit == {s \in Scanned : /\ IsLive(s)
                              /\ i = Cardinality({t \in Scanned : t < s /\ IsLive(t)})}
  IN  IF hit = {} THEN NoName ELSE item[Min(hit)].name

(* Power fails and the kernel boots: fat16_resolve reads the directory. *)
restart ==
  /\ pc \in PowerFails
  /\ item' = dir
  /\ total' \in Totals
  /\ fds' = {}
  /\ mirror' = {}
  /\ Done("ok")
  /\ UNCHANGED <<fat1, fat2, dir, data>>

(* The image: one file of one cluster. *)
Init ==
  /\ fat1 = [c \in Clusters |-> IF c = 2 THEN EOC ELSE 0]
  /\ fat2 = fat1
  /\ mirror = {}
  /\ dir = [s \in Slots |-> IF s = 0 THEN [NewEntry(BootFile) EXCEPT !.first = 2, !.size = 1]
                                     ELSE End]
  /\ data = [c \in Clusters |-> [u \in Offsets |->
               IF c = 2 /\ u = 0 THEN <<to83[BootFile], 0>> ELSE Zeros]]
  /\ item = dir
  /\ total = 1
  /\ fds = {}
  /\ pc = "idle"
  /\ slot = 0 /\ cur = 0 /\ fresh = 0 /\ first = 0
  /\ ahead = 0 /\ at = 0 /\ left = 0 /\ desc = {}
  /\ ret = "ok"

(* The steps of a system call after its first. *)
Step ==
  \/ SetFatEntry2
  \/ free_cluster_chain \/ truncated \/ deleted
  \/ next_cluster \/ alloc_cluster \/ link_cluster \/ write_cluster_data \/ written

Call ==
  \/ \E n \in Names : fopen_r(n) \/ fopen_w_exists(n) \/ fopen_w_new(n) \/ fdelete(n)
  \/ \E d \in fds : \/ fclose(d)
                    \/ \E k \in 1 .. MaxWrite : fwrite(d, k) \/ fread(d, k)
                    \/ \E o \in 0 .. MaxSize : fseek(d, o)

Next == Step \/ Call \/ restart

Spec == Init /\ [][Next]_vars /\ WF_vars(Step)

-----------------------------------------------------------------------------
DiskOK ==
  /\ fat1 \in [Clusters -> Links]
  /\ fat2 \in [Clusters -> Links]
  /\ mirror \subseteq Clusters \X Links
  /\ dir \in [Slots -> Entries]
  /\ data \in [Clusters -> [Offsets -> Units]]

MemOK ==
  /\ item \in [Slots -> Entries]
  /\ total \in 0 .. NSlots
  /\ fds \subseteq Descs

CallOK ==
  /\ pc \in PCs
  /\ slot \in Slots
  /\ cur \in {0} \cup Clusters
  /\ fresh \in {0} \cup Clusters
  /\ first \in {0} \cup Clusters
  /\ ahead \in Nat /\ at \in Nat /\ left \in Nat
  /\ desc \subseteq Descs
  /\ ret \in {"ok", "error", "past"}

TypeOK == DiskOK /\ MemOK /\ CallOK

(* What TypeOK needs to be inductive: the locals that a step uses are set. *)
ControlOK ==
  /\ pc \in {"write", "link"} => cur # 0
  /\ pc = "link" => fresh # 0 /\ ahead > 0
  /\ pc = "alloc" /\ cur # 0 => ahead > 0

(* The clusters of the chain that starts at c. *)
Closed(S) == \A x \in S : fat1[x] \in Clusters => fat1[x] \in S
Chain(c)  == {x \in Clusters : /\ c # 0
                               /\ \A S \in SUBSET Clusters : c \in S /\ Closed(S) => x \in S}

(* The slots the running call works on. *)
Busy == IF pc \in {"truncate", "delete"} THEN {slot} ELSE {d.slot : d \in desc}

(***************************************************************************)
(* No cluster is reached in two ways: the FAT never leads two clusters to  *)
(* the same one, no two files start at the same cluster, and no file       *)
(* starts in the middle of a chain.  fat16_alloc_cluster and               *)
(* fat16_free_cluster_chain must keep this up through every sequence of    *)
(* calls, in the middle of each.                                           *)
(***************************************************************************)
NoCrossLink ==
  /\ \A c, e \in Clusters : fat1[c] \in Clusters /\ fat1[c] = fat1[e] => c = e
  /\ \A s, t \in Slots : IsLive(s) /\ IsLive(t) /\ item[s].first # 0
                           /\ item[s].first = item[t].first => s = t
  /\ \A s \in Slots, c \in Clusters :
       IsLive(s) /\ item[s].first # 0 => fat1[c] # item[s].first

(***************************************************************************)
(* Between calls every cluster that is not free belongs to a file: delete, *)
(* truncate and a write that runs out of space give up no cluster without  *)
(* freeing it.                                                             *)
(***************************************************************************)
NoLostClusters ==
  At("idle") => \A c \in Clusters : fat1[c] # 0 =>
                  \E s \in Slots : IsLive(s) /\ c \in Chain(item[s].first)

(***************************************************************************)
(* At no instant, in neither copy of the FAT, does a link lead to a free   *)
(* cluster, nor does a directory entry on disk, except the one that is     *)
(* being truncated or deleted.  So a power failure inside a write, which   *)
(* leaves the disk as it is, loses clusters at worst.                      *)
(***************************************************************************)
NoDangling ==
  /\ \A f \in {fat1, fat2} : \A c \in Clusters : f[c] \in Clusters => f[f[c]] # 0
  /\ \A s \in Slots : dir[s].st = "live" /\ dir[s].first # 0 /\ s \notin Busy
                       => fat1[dir[s].first] # 0

(***************************************************************************)
(* The lookup of fopen for reading, which stops at total, reaches every    *)
(* file, as the comment in fat16_open says total is there for.             *)
(***************************************************************************)
LookupReaches == \A s \in Slots : IsLive(s) => s < total

(***************************************************************************)
(* ls shows each file of the disk once: no file is behind a 0x00 entry,    *)
(* no deleted one comes back, and the numbering of fat16_readdir has no    *)
(* gap.                                                                    *)
(***************************************************************************)
ListsAll ==
  LET live == {s \in Slots : dir[s].st = "live"}
  IN  At("idle") => /\ {readdir(i) : i \in 0 .. Cardinality(live) - 1} = {dir[s].name : s \in live}
                    /\ readdir(Cardinality(live)) = NoName

(* No two files have the same name. *)
UniqueNames ==
  \A s, t \in Slots : IsLive(s) /\ IsLive(t) /\ item[s].name = item[t].name => s = t

(***************************************************************************)
(* A step of a call on one file changes neither the entry nor the chain of *)
(* any other.                                                              *)
(***************************************************************************)
OthersUntouched ==
  [][\A s \in Slots \ (Busy \cup Busy') : IsLive(s) =>
       /\ item'[s] = item[s]
       /\ Chain(item[s].first)' = Chain(item[s].first)]_vars

(***************************************************************************)
(* A call that changes the disk returns: the loops over the chain in       *)
(* fat16_free_cluster_chain and fat16_write_internal end.                  *)
(***************************************************************************)
Returns == pc # "idle" ~> pc = "idle"

(***************************************************************************)
(* The comment on FAT16_EOC_MIN: "values >= this are EOC when reading".    *)
(* Then no read takes the end mark for a cluster and returns, as bytes of  *)
(* the file, what lies where that cluster would be.                        *)
(***************************************************************************)
ReadsStopAtEnd == ret # "past"

-----------------------------------------------------------------------------
(* The inductive invariant behind NoCrossLink, for polite callers and with *)
(* power failures outside truncation and deletion.                         *)

NotTarget(c) == \A x \in Clusters : fat1[x] # c

(* A cluster that is taken and that nothing leads to: a new one. *)
Unowned(c) ==
  /\ fat1[c] # 0
  /\ NotTarget(c)
  /\ \A s \in Slots : IsLive(s) => item[s].first # c

LinksTaken == \A c \in Clusters : fat1[c] \in Clusters => fat1[fat1[c]] # 0

FirstsTaken ==
  \A s \in Slots : /\ IsLive(s) /\ item[s].first # 0
                   /\ ~(pc \in {"truncate", "delete"} /\ s = slot)
                   => fat1[item[s].first] # 0

(* A descriptor open for writing holds the entry of its slot, alone. *)
DescsSynced ==
  /\ \A d \in fds : d.slot # NONE => IsLive(d.slot) /\ item[d.slot] = d.item
  /\ \A d, e \in fds : d.slot # NONE /\ d.slot = e.slot => d = e

(* Freeing has come to cur, and nothing but what is freed leads there. *)
FreeingOK ==
  pc \in {"truncate", "delete"} =>
    /\ IsLive(slot)
    /\ \A d \in fds : d.slot # slot
    /\ cur # 0 => /\ fat1[cur] # 0
                  /\ NotTarget(cur)
                  /\ \A s \in Slots : IsLive(s) /\ s # slot => item[s].first # cur

(* Writing has come to cur, to the end of the chain if it is to grow. *)
WritingOK ==
  pc \in {"alloc", "link", "write"} =>
    /\ \E d \in fds : /\ desc = {d}
                      /\ d.slot # NONE
                      /\ first # d.item.first => d.item.first = 0 /\ Unowned(first)
                      /\ cur = 0 => first = 0 /\ d.item.first = 0
    /\ cur # 0 => fat1[cur] # 0
    /\ pc \in {"alloc", "link"} /\ cur # 0 => fat1[cur] = EOC
    /\ pc = "link" => Unowned(fresh) /\ fresh # first /\ fresh # cur

CrossInv ==
  /\ TypeOK /\ ControlOK
  /\ NoCrossLink /\ LinksTaken /\ FirstsTaken
  /\ dir = item
  /\ DescsSynced /\ FreeingOK /\ WritingOK
=============================================================================
