---------------------------- MODULE Fat16Proofs ----------------------------
(***************************************************************************)
(* Proofs about Fat16, for any number of names, clusters, directory slots  *)
(* and descriptors, with callers of any discipline, with and without       *)
(* power failures.                                                         *)
(***************************************************************************)
EXTENDS Fat16, Extrema

(* ----- The constants ----- *)

LEMMA ConstantFacts ==
  /\ Slots \subseteq Nat /\ 0 \in Slots
  /\ Clusters \subseteq Nat /\ 0 \notin Clusters /\ EOC \notin Clusters
  /\ Fds \subseteq Nat
  /\ \A c \in Clusters : c >= 2 /\ IsLink(c)
  /\ \A e \in Links : IsLink(e) <=> e \in Clusters
  BY ClustersAssumption, SlotsAssumption DEF Slots, Clusters, Fds, EOC, Links, IsLink

LEMMA EntryFacts ==
  /\ End \in Entries /\ Deleted \in Entries
  /\ \A n \in Names : NewEntry(n) \in Entries
  BY NamesAssumption DEF End, Deleted, NewEntry, Entries

LEMMA DescriptorFacts ==
  ASSUME NEW e \in Entries, NEW s \in Slots \cup {NONE}
  PROVE  NewDescriptor(e, s) \subseteq Descs
<1>1. FreeFds # {} => Min(FreeFds) \in Fds
  BY MinIn, ConstantFacts DEF FreeFds
<1> QED BY <1>1 DEF NewDescriptor, Descs

(* The searches of the directory, the FAT and the descriptor table find    *)
(* what they look for.                                                     *)
LEMMA SearchFacts ==
  /\ \A n \in Names : SlotsNamed(n) # {} => Min(SlotsNamed(n)) \in SlotsNamed(n)
  /\ \A n \in Names : ItemsNamed(n) # {} => Max(ItemsNamed(n)) \in ItemsNamed(n)
  /\ FreeSlots # {} => Min(FreeSlots) \in FreeSlots
  /\ FreeClusters # {} => Min(FreeClusters) \in FreeClusters
<1>1. /\ \A n \in Names : SlotsNamed(n) \subseteq Slots
      /\ \A n \in Names : ItemsNamed(n) \subseteq Slots
      /\ FreeSlots \subseteq Slots /\ FreeClusters \subseteq Clusters
  BY DEF SlotsNamed, Scanned, ItemsNamed, FreeSlots, FreeClusters
<1>2. NSlots - 1 \in Nat /\ Slots = 0 .. (NSlots - 1)
  BY SlotsAssumption DEF Slots
<1>3. ASSUME NEW n \in Names, SlotsNamed(n) # {}
      PROVE  Min(SlotsNamed(n)) \in SlotsNamed(n)
  BY <1>1, <1>3, MinIn, ConstantFacts
<1>4. ASSUME NEW n \in Names, ItemsNamed(n) # {}
      PROVE  Max(ItemsNamed(n)) \in ItemsNamed(n)
  BY <1>1, <1>2, <1>4, MaxIn
<1>5. FreeSlots # {} => Min(FreeSlots) \in FreeSlots
  BY <1>1, MinIn, ConstantFacts
<1>6. FreeClusters # {} => Min(FreeClusters) \in FreeClusters
  BY <1>1, MinIn, ConstantFacts
<1> QED BY <1>3, <1>4, <1>5, <1>6

(* A directory has at most NSlots live entries. *)
LEMMA TotalsFacts == Totals \subseteq 0 .. NSlots
<1> DEFINE Live(S) == {s \in S : dir[s].st = "live"}
<1>1. IsFiniteSet(Slots) /\ Cardinality(Slots) = NSlots
  BY FS_Interval, SlotsAssumption DEF Slots
<1>2. ASSUME NEW S \in SUBSET Slots
      PROVE  Cardinality(Live(S)) \in 0 .. NSlots
  <2>1. Live(S) \subseteq Slots
    OBVIOUS
  <2>2. IsFiniteSet(Live(S)) /\ Cardinality(Live(S)) <= NSlots
    BY <1>1, <2>1, FS_Subset
  <2> QED BY <2>2, FS_CardinalityType, SlotsAssumption
<1>3. ASSUME NEW S \in SUBSET Slots, S # {}
      PROVE  0 .. Min(S) - 1 \in SUBSET Slots
  <2>1. Min(S) \in Slots
    BY <1>3, MinIn, ConstantFacts
  <2> QED BY <2>1, SlotsAssumption DEF Slots
<1> DEFINE ends == {s \in Slots : dir[s].st = "end"}
<1>4. CASE ends = {}
  <2>1. Totals = Cardinality(Live(Slots)) .. NSlots
    BY <1>4 DEF Totals
  <2>2. Cardinality(Live(Slots)) \in 0 .. NSlots
    BY <1>2
  <2>3. \A k \in 0 .. NSlots : k .. NSlots \subseteq 0 .. NSlots
    BY SlotsAssumption
  <2> QED BY <2>1, <2>2, <2>3
<1>5. CASE ends # {}
  <2>1. Totals = {Cardinality(Live(0 .. Min(ends) - 1))}
    BY <1>5 DEF Totals
  <2>2. 0 .. Min(ends) - 1 \in SUBSET Slots
    BY <1>3, <1>5
  <2>3. Cardinality(Live(0 .. Min(ends) - 1)) \in 0 .. NSlots
    BY <1>2, <2>2
  <2> QED BY <2>1, <2>3
<1> QED BY <1>4, <1>5

(* ----- Types ----- *)

TypeInv == TypeOK /\ ControlOK

(* The state between calls, which every return and every restart leaves. *)
LEMMA DoneTyped ==
  ASSUME NEW r \in {"ok", "error", "past"}, Done(r)
  PROVE  CallOK' /\ ControlOK'
  BY ConstantFacts DEF Done, CallOK, ControlOK, PCs, Descs

(* A FAT entry of a cluster of the disk is set to a value a FAT can hold. *)
LEMMA SetFatEntryTyped ==
  ASSUME DiskOK, NEW c \in Clusters, NEW v \in Links, SetFatEntry(c, v),
         UNCHANGED <<dir, data>>
  PROVE  DiskOK'
  BY DEF DiskOK, SetFatEntry

LEMMA WriteRootDirEntryTyped ==
  ASSUME DiskOK, MemOK, NEW s \in Slots, NEW e \in Entries, WriteRootDirEntry(s, e)
  PROVE  item' \in [Slots -> Entries] /\ dir' \in [Slots -> Entries]
  BY DEF DiskOK, MemOK, WriteRootDirEntry

LEMMA FailsTyped ==
  ASSUME TypeInv, Fails
  PROVE  TypeInv'
<1>1. CallOK' /\ ControlOK'
  BY DoneTyped DEF Fails
<1>2. DiskOK' /\ MemOK'
  BY DEF TypeInv, TypeOK, Fails, DiskOK, MemOK, disk, mem
<1> QED BY <1>1, <1>2 DEF TypeInv, TypeOK

LEMMA InitTyped == Init => TypeInv
<1> SUFFICES ASSUME Init PROVE TypeInv
  OBVIOUS
<1>1. 2 \in Clusters
  BY ClustersAssumption DEF Clusters
<1>2. [NewEntry(BootFile) EXCEPT !.first = 2, !.size = 1] \in Entries
  BY <1>1, NamesAssumption DEF NewEntry, Entries
<1>3. dir \in [Slots -> Entries]
  BY <1>2, EntryFacts DEF Init
<1>4. data \in [Clusters -> [Offsets -> Units]]
  BY NamesAssumption DEF Init, Units, Zeros
<1>5. DiskOK
  BY <1>3, <1>4 DEF Init, DiskOK, Links
<1>6. MemOK
  BY <1>3, SlotsAssumption DEF Init, MemOK
<1>7. CallOK /\ ControlOK
  BY ConstantFacts DEF Init, CallOK, ControlOK, PCs
<1> QED BY <1>5, <1>6, <1>7 DEF TypeInv, TypeOK

(* ----- Each call and each step keeps the types ----- *)

LEMMA OpenTyped ==
  ASSUME TypeInv, NEW n \in Names, fopen_r(n) \/ fopen_w_exists(n) \/ fopen_w_new(n)
  PROVE  TypeInv'
<1> USE DEF TypeInv, TypeOK
<1>1. CASE fopen_r(n)
  <2>1. CASE Fails
    BY <2>1, FailsTyped
  <2>2. CASE ~Fails
    <3>1. /\ ItemsNamed(n) # {}
          /\ fds' = fds \cup NewDescriptor(item[Max(ItemsNamed(n))], NONE)
          /\ Done(IF FreeFds = {} THEN "error" ELSE "ok")
          /\ UNCHANGED <<disk, item, total>>
      BY <1>1, <2>2 DEF fopen_r
    <3>2. item[Max(ItemsNamed(n))] \in Entries
      BY <3>1, SearchFacts DEF ItemsNamed, MemOK
    <3>3. NewDescriptor(item[Max(ItemsNamed(n))], NONE) \subseteq Descs
      BY <3>2, DescriptorFacts
    <3>4. DiskOK' /\ MemOK'
      BY <3>1, <3>3 DEF DiskOK, MemOK, disk
    <3>5. CallOK' /\ ControlOK'
      BY <3>1, DoneTyped
    <3> QED BY <3>4, <3>5
  <2> QED BY <2>1, <2>2
<1>2. CASE fopen_w_exists(n)
  <2>1. Min(SlotsNamed(n)) \in Slots
    BY <1>2, SearchFacts DEF fopen_w_exists, SlotsNamed, Scanned
  <2>2. item[Min(SlotsNamed(n))].first \in {0} \cup Clusters
    BY <2>1 DEF MemOK, Entries
  <2>3. CallOK' /\ ControlOK'
    BY <1>2, <2>1, <2>2 DEF fopen_w_exists, CallOK, ControlOK, PCs
  <2>4. DiskOK' /\ MemOK'
    BY <1>2 DEF fopen_w_exists, DiskOK, MemOK, disk, mem
  <2> QED BY <2>3, <2>4
<1>3. CASE fopen_w_new(n)
  <2>1. CASE Fails
    BY <2>1, FailsTyped
  <2>2. CASE ~Fails
    <3> DEFINE s == Min(FreeSlots)
    <3>1. /\ FreeSlots # {}
          /\ WriteRootDirEntry(s, NewEntry(n))
          /\ total' = IF s >= total THEN s + 1 ELSE total
          /\ fds' = fds \cup NewDescriptor(NewEntry(n), s)
          /\ Done(IF FreeFds = {} THEN "error" ELSE "ok")
          /\ UNCHANGED <<fat1, fat2, mirror, data>>
      BY <1>3, <2>2 DEF fopen_w_new
    <3>2. s \in Slots
      BY <3>1, SearchFacts DEF FreeSlots
    <3> HIDE DEF s
    <3>3. item' \in [Slots -> Entries] /\ dir' \in [Slots -> Entries]
      BY <3>1, <3>2, EntryFacts, WriteRootDirEntryTyped
    <3>4. NewDescriptor(NewEntry(n), s) \subseteq Descs
      BY <3>2, EntryFacts, DescriptorFacts
    <3>5. total' \in 0 .. NSlots
      BY <3>1, <3>2, SlotsAssumption DEF MemOK, Slots
    <3>6. DiskOK' /\ MemOK'
      BY <3>1, <3>3, <3>4, <3>5 DEF DiskOK, MemOK
    <3>7. CallOK' /\ ControlOK'
      BY <3>1, DoneTyped
    <3> QED BY <3>6, <3>7
  <2> QED BY <2>1, <2>2
<1> QED BY <1>1, <1>2, <1>3

LEMMA TruncateDeleteTyped ==
  ASSUME TypeInv,
         \/ truncated \/ deleted \/ free_cluster_chain
         \/ \E n \in Names : fdelete(n)
  PROVE  TypeInv'
<1> USE DEF TypeInv, TypeOK
<1>1. CASE truncated
  <2> DEFINE e == [item[slot] EXCEPT !.first = 0, !.size = 0]
  <2>1. slot \in Slots /\ e \in Entries
    BY DEF MemOK, CallOK, Entries
  <2>2. item' \in [Slots -> Entries] /\ dir' \in [Slots -> Entries]
    BY <1>1, <2>1, WriteRootDirEntryTyped DEF truncated
  <2>3. NewDescriptor(e, slot) \subseteq Descs
    BY <2>1, DescriptorFacts
  <2>4. DiskOK' /\ MemOK'
    BY <1>1, <2>2, <2>3 DEF truncated, DiskOK, MemOK
  <2>5. CallOK' /\ ControlOK'
    BY <1>1, DoneTyped DEF truncated
  <2> QED BY <2>4, <2>5
<1>2. CASE deleted
  <2>1. item' \in [Slots -> Entries] /\ dir' \in [Slots -> Entries]
    BY <1>2, EntryFacts, WriteRootDirEntryTyped DEF deleted, CallOK
  <2>2. DiskOK' /\ MemOK'
    BY <1>2, <2>1 DEF deleted, DiskOK, MemOK
  <2>3. CallOK' /\ ControlOK'
    BY <1>2, DoneTyped DEF deleted
  <2> QED BY <2>2, <2>3
<1>3. CASE free_cluster_chain
  <2>1. cur \in Clusters /\ fat1[cur] \in Links
    BY <1>3 DEF free_cluster_chain, CallOK, DiskOK
  <2>2. DiskOK'
    BY <1>3, <2>1, SetFatEntryTyped DEF free_cluster_chain, Links
  <2>3. cur' \in {0} \cup Clusters
    BY <1>3, <2>1, ConstantFacts DEF free_cluster_chain
  <2>4. MemOK' /\ CallOK' /\ ControlOK'
    BY <1>3, <2>3 DEF free_cluster_chain, At, MemOK, CallOK, ControlOK, mem
  <2> QED BY <2>2, <2>4
<1>4. ASSUME NEW n \in Names, fdelete(n) PROVE TypeInv'
  <2>1. CASE Fails
    BY <2>1, FailsTyped
  <2>2. CASE ~Fails
    <3>1. /\ SlotsNamed(n) # {}
          /\ pc' = "delete"
          /\ slot' = Min(SlotsNamed(n))
          /\ cur' = item[Min(SlotsNamed(n))].first
          /\ UNCHANGED <<disk, mem, fresh, first, ahead, at, left, desc, ret>>
      BY <1>4, <2>2 DEF fdelete
    <3>2. Min(SlotsNamed(n)) \in Slots
      BY <3>1, SearchFacts DEF SlotsNamed, Scanned
    <3>3. CallOK' /\ ControlOK'
      BY <3>1, <3>2 DEF CallOK, ControlOK, PCs, MemOK, Entries
    <3>4. DiskOK' /\ MemOK'
      BY <3>1 DEF DiskOK, MemOK, disk, mem
    <3> QED BY <3>3, <3>4
  <2> QED BY <2>1, <2>2
<1> QED BY <1>1, <1>2, <1>3, <1>4

LEMMA WriteTyped ==
  ASSUME TypeInv,
         \/ next_cluster \/ alloc_cluster \/ link_cluster
         \/ write_cluster_data \/ written
         \/ \E d \in fds, k \in 1 .. MaxWrite : fwrite(d, k)
  PROVE  TypeInv'
<1> USE DEF TypeInv, TypeOK
<1>1. CASE next_cluster
  <2>1. cur \in Clusters /\ fat1[cur] \in Links
    BY <1>1 DEF next_cluster, At, CallOK, ControlOK, DiskOK
  <2>2. DiskOK' /\ MemOK'
    BY <1>1 DEF next_cluster, DiskOK, MemOK, disk, mem
  <2>3. CASE IsLink(fat1[cur])
    BY <1>1, <2>1, <2>2, <2>3, ConstantFacts DEF next_cluster, At, CallOK, ControlOK
  <2>4. CASE ~IsLink(fat1[cur])
    BY <1>1, <2>2, <2>4 DEF next_cluster, At, CallOK, ControlOK, PCs
  <2> QED BY <2>3, <2>4
<1>2. CASE alloc_cluster
  <2>1. CASE Fails
    BY <2>1, FailsTyped
  <2>2. CASE ~Fails
    <3> DEFINE c == Min(FreeClusters)
    <3>1. /\ FreeClusters # {}
          /\ SetFatEntry(c, EOC)
          /\ IF cur >= 2
             THEN pc' = "link"  /\ fresh' = c /\ UNCHANGED <<cur, first>>
             ELSE pc' = "write" /\ fresh' = 0 /\ cur' = c /\ first' = c
          /\ UNCHANGED <<dir, data, mem, slot, ahead, at, left, desc, ret>>
      BY <1>2, <2>2 DEF alloc_cluster
    <3>2. c \in Clusters
      BY <3>1, SearchFacts DEF FreeClusters
    <3> HIDE DEF c
    <3>3. DiskOK'
      BY <3>1, <3>2, SetFatEntryTyped DEF Links
    <3>4. MemOK'
      BY <3>1 DEF MemOK, mem
    <3>5. pc = "alloc"
      BY <1>2 DEF alloc_cluster, At
    <3>6. CallOK' /\ ControlOK'
      BY <3>1, <3>2, <3>5, ConstantFacts DEF CallOK, ControlOK, PCs
    <3> QED BY <3>3, <3>4, <3>6
  <2> QED BY <2>1, <2>2
<1>3. CASE link_cluster
  <2>1. cur \in Clusters /\ fresh \in Clusters /\ ahead > 0
    BY <1>3 DEF link_cluster, At, CallOK, ControlOK
  <2>2. DiskOK'
    BY <1>3, <2>1, SetFatEntryTyped DEF link_cluster, Links
  <2>3. MemOK'
    BY <1>3 DEF link_cluster, MemOK, mem
  <2>4. CallOK' /\ ControlOK'
    BY <1>3, <2>1, ConstantFacts DEF link_cluster, CallOK, ControlOK, PCs
  <2> QED BY <2>2, <2>3, <2>4
<1>4. CASE write_cluster_data
  <2>1. PICK d \in desc :
          data' = [data EXCEPT ![cur] = [u \in Offsets |-> IF u = at % ClusterSize
                                           THEN <<d.item.name, at>> ELSE data[cur][u]]]
    BY <1>4 DEF write_cluster_data
  <2>2. cur \in Clusters
    BY <1>4 DEF write_cluster_data, At, CallOK, ControlOK
  <2>3. d.item.name \in Names \cup {NoName}
    BY DEF CallOK, Descs, Entries
  <2>4. at \in Nat /\ left \in Nat
    BY DEF CallOK
  <2>6. [u \in Offsets |-> IF u = at % ClusterSize
                           THEN <<d.item.name, at>> ELSE data[cur][u]] \in [Offsets -> Units]
    <3>1. data[cur] \in [Offsets -> Units]
      BY <2>2 DEF DiskOK
    <3> QED BY <2>3, <2>4, <3>1 DEF Units
  <2>7. data' \in [Clusters -> [Offsets -> Units]]
    BY <2>1, <2>6 DEF DiskOK
  <2>8. DiskOK' /\ MemOK'
    BY <1>4, <2>7 DEF write_cluster_data, DiskOK, MemOK, mem
  <2>9. at' \in Nat /\ left' \in Nat /\ ahead' \in Nat
    BY <1>4, <2>4 DEF write_cluster_data
  <2>10. CallOK' /\ ControlOK'
    BY <1>4, <2>9 DEF write_cluster_data, At, CallOK, ControlOK
  <2> QED BY <2>8, <2>10
<1>5. CASE written
  <2>1. PICK d \in desc :
          LET e == [d.item EXCEPT !.first = first,
                                  !.size  = IF at > d.item.size THEN at ELSE d.item.size]
          IN  /\ fds' = (fds \ {d}) \cup {[d EXCEPT !.item = e, !.pos = at]}
              /\ \/ d.slot # NONE /\ WriteRootDirEntry(d.slot, e)
                 \/ d.slot = NONE /\ UNCHANGED <<item, dir>>
    BY <1>5 DEF written
  <2> DEFINE e == [d.item EXCEPT !.first = first,
                                 !.size  = IF at > d.item.size THEN at ELSE d.item.size]
  <2>2. d \in Descs
    BY DEF CallOK
  <2>3. e \in Entries
    BY <2>2 DEF CallOK, Descs, Entries
  <2>4. [d EXCEPT !.item = e, !.pos = at] \in Descs
    BY <2>2, <2>3 DEF CallOK, Descs
  <2> HIDE DEF e
  <2>5. item' \in [Slots -> Entries] /\ dir' \in [Slots -> Entries]
    <3>1. CASE d.slot # NONE
      <4>1. d.slot \in Slots
        BY <2>2, <3>1 DEF Descs
      <4>2. WriteRootDirEntry(d.slot, e)
        BY <2>1, <3>1 DEF e
      <4> QED BY <4>1, <4>2, <2>3, WriteRootDirEntryTyped
    <3>2. CASE d.slot = NONE
      BY <2>1, <3>2 DEF DiskOK, MemOK
    <3> QED BY <3>1, <3>2
  <2>6. fds' \subseteq Descs
    BY <2>1, <2>4 DEF MemOK, e
  <2>7. DiskOK' /\ MemOK'
    BY <1>5, <2>5, <2>6 DEF written, DiskOK, MemOK
  <2>8. CallOK' /\ ControlOK'
    BY <1>5, DoneTyped DEF written
  <2> QED BY <2>7, <2>8
<1>6. ASSUME NEW d \in fds, NEW k \in 1 .. MaxWrite, fwrite(d, k) PROVE TypeInv'
  <2>1. CASE Fails
    BY <2>1, FailsTyped
  <2>2. CASE ~Fails
    <3>1. d \in Descs /\ d.item.first \in {0} \cup Clusters /\ d.pos \in Nat
      BY DEF MemOK, Descs, Entries
    <3>2. d.pos \div ClusterSize \in Nat
      BY <3>1, UnitsAssumption
    <3>3. k \in Nat
      BY UnitsAssumption
    <3>4. CallOK' /\ ControlOK'
      BY <1>6, <2>2, <3>1, <3>2, <3>3, ConstantFacts DEF fwrite, CallOK, ControlOK, PCs
    <3>5. DiskOK' /\ MemOK'
      BY <1>6, <2>2 DEF fwrite, DiskOK, MemOK, disk, mem
    <3> QED BY <3>4, <3>5
  <2> QED BY <2>1, <2>2
<1> QED BY <1>1, <1>2, <1>3, <1>4, <1>5, <1>6

LEMMA OtherTyped ==
  ASSUME TypeInv,
         \/ SetFatEntry2 \/ restart
         \/ \E d \in fds : \/ fclose(d)
                           \/ \E k \in 1 .. MaxWrite : fread(d, k)
                           \/ \E o \in 0 .. MaxSize : fseek(d, o)
  PROVE  TypeInv'
<1> USE DEF TypeInv, TypeOK
<1>1. CASE SetFatEntry2
  BY <1>1 DEF SetFatEntry2, DiskOK, MemOK, CallOK, ControlOK, mem, loc
<1>2. CASE restart
  <2>1. CallOK' /\ ControlOK'
    BY <1>2, DoneTyped DEF restart
  <2>2. DiskOK' /\ MemOK'
    BY <1>2, TotalsFacts DEF restart, DiskOK, MemOK
  <2> QED BY <2>1, <2>2
<1>3. ASSUME NEW d \in fds, fclose(d) PROVE TypeInv'
  <2>1. CASE Fails
    BY <2>1, FailsTyped
  <2>2. CASE ~Fails
    <3>1. CallOK' /\ ControlOK'
      BY <1>3, <2>2, DoneTyped DEF fclose
    <3>2. DiskOK' /\ MemOK'
      BY <1>3, <2>2 DEF fclose, DiskOK, MemOK, disk
    <3> QED BY <3>1, <3>2
  <2> QED BY <2>1, <2>2
<1>4. ASSUME NEW d \in fds, NEW k \in 1 .. MaxWrite, fread(d, k) PROVE TypeInv'
  <2>1. CASE Fails
    BY <2>1, FailsTyped
  <2>2. CASE ~Fails
    <3>1. DiskOK' /\ MemOK'
      BY <1>4, <2>2 DEF fread, DiskOK, MemOK, disk, mem
    <3>2. Done("past") \/ Done("ok")
      BY <1>4, <2>2 DEF fread
    <3>3. CallOK' /\ ControlOK'
      BY <3>2, DoneTyped
    <3> QED BY <3>1, <3>3
  <2> QED BY <2>1, <2>2
<1>5. ASSUME NEW d \in fds, NEW o \in 0 .. MaxSize, fseek(d, o) PROVE TypeInv'
  <2>1. CASE Fails
    BY <2>1, FailsTyped
  <2>2. CASE ~Fails
    <3>1. PICK p \in {o, d.pos + o} : fds' = (fds \ {d}) \cup {[d EXCEPT !.pos = p]}
      BY <1>5, <2>2 DEF fseek
    <3>2. d \in Descs /\ d.pos \in Nat /\ o \in Nat
      BY UnitsAssumption DEF MemOK, Descs
    <3>3. [d EXCEPT !.pos = p] \in Descs
      BY <3>2 DEF Descs
    <3>4. CallOK' /\ ControlOK'
      BY <1>5, <2>2, DoneTyped DEF fseek
    <3>5. DiskOK' /\ MemOK'
      BY <1>5, <2>2, <3>1, <3>3 DEF fseek, DiskOK, MemOK, disk
    <3> QED BY <3>4, <3>5
  <2> QED BY <2>1, <2>2
<1> QED BY <1>1, <1>2, <1>3, <1>4, <1>5

LEMMA NextTyped == TypeInv /\ [Next]_vars => TypeInv'
<1> SUFFICES ASSUME TypeInv, [Next]_vars PROVE TypeInv'
  OBVIOUS
<1>1. CASE UNCHANGED vars
  BY <1>1 DEF vars, disk, mem, loc, TypeInv, TypeOK, DiskOK, MemOK, CallOK, ControlOK
<1>2. CASE Step
  BY <1>2, OtherTyped, TruncateDeleteTyped, WriteTyped DEF Step
<1>3. CASE Call
  BY <1>3, OpenTyped, TruncateDeleteTyped, WriteTyped, OtherTyped DEF Call
<1>4. CASE restart
  BY <1>4, OtherTyped
<1> QED BY <1>1, <1>2, <1>3, <1>4 DEF Next

(***************************************************************************)
(* The driver's state keeps its type.  In particular every FAT entry,      *)
(* every first cluster and every cluster a call works on is a cluster of   *)
(* the disk, whatever the callers do.                                      *)
(***************************************************************************)
THEOREM Fat16Typed == Spec => []TypeOK
<1>1. Spec => []TypeInv
  BY InitTyped, NextTyped, PTL DEF Spec
<1>2. TypeInv => TypeOK
  BY DEF TypeInv
<1> QED BY <1>1, <1>2, PTL

-----------------------------------------------------------------------------
(* ----- The chains ----- *)

(* NoCrossLink holds in every state, in the middle of calls too, if the    *)
(* callers are polite and the power does not fail while a chain is being   *)
(* freed.                                                                  *)
Careful == Polite /\ PowerFails \cap {"truncate", "delete"} = {}

Freeing == {"truncate", "delete"}
Writing == {"alloc", "link", "write"}

(* The part of CrossInv that is not types. *)
LinkInv ==
  /\ NoCrossLink /\ LinksTaken /\ FirstsTaken
  /\ dir = item
  /\ DescsSynced /\ FreeingOK /\ WritingOK

(***************************************************************************)
(* Steps that only move data or the second copy of the FAT.                *)
(***************************************************************************)
LEMMA Frame ==
  ASSUME LinkInv, UNCHANGED <<fat1, item, dir, fds, pc, slot, cur, fresh, first, desc>>
  PROVE  LinkInv'
<1>1. NoCrossLink'
  BY DEF LinkInv, NoCrossLink, IsLive
<1>2. LinksTaken' /\ FirstsTaken' /\ dir' = item'
  BY DEF LinkInv, LinksTaken, FirstsTaken, IsLive
<1>3. DescsSynced' /\ FreeingOK'
  BY DEF LinkInv, DescsSynced, FreeingOK, IsLive, NotTarget
<1>4. WritingOK'
  BY DEF LinkInv, WritingOK, Unowned, IsLive, NotTarget
<1> QED BY <1>1, <1>2, <1>3, <1>4 DEF LinkInv

(***************************************************************************)
(* Steps that end a call with the FAT and the directory as they were.      *)
(***************************************************************************)
LEMMA IdleFrame ==
  ASSUME LinkInv, UNCHANGED <<fat1, item, dir>>, pc \notin Freeing,
         pc' = "idle", DescsSynced'
  PROVE  LinkInv'
<1>1. NoCrossLink'
  BY DEF LinkInv, NoCrossLink, IsLive
<1>2. LinksTaken' /\ FirstsTaken' /\ dir' = item'
  BY DEF LinkInv, LinksTaken, FirstsTaken, IsLive, Freeing
<1>3. FreeingOK' /\ WritingOK'
  BY DEF FreeingOK, WritingOK
<1> QED BY <1>1, <1>2, <1>3 DEF LinkInv

LEMMA FailsKeeps ==
  ASSUME LinkInv, pc \notin Freeing, Fails
  PROVE  LinkInv'
<1>1. UNCHANGED <<fat1, item, dir, fds>> /\ pc' = "idle"
  BY DEF Fails, Done, disk, mem
<1>2. DescsSynced'
  BY <1>1 DEF LinkInv, DescsSynced, IsLive
<1> QED BY <1>1, <1>2, IdleFrame

(* The start of truncation or deletion: the first cluster of a file that   *)
(* nobody has open for writing is one that nothing else leads to.          *)
LEMMA StartFreeing ==
  ASSUME TypeInv, LinkInv, pc \notin Freeing, NEW s \in Slots, IsLive(s),
         \A d \in fds : d.slot # s,
         UNCHANGED <<fat1, item, dir, fds>>,
         pc' \in Freeing, slot' = s, cur' = item[s].first
  PROVE  LinkInv'
<1>1. NoCrossLink'
  BY DEF LinkInv, NoCrossLink, IsLive
<1>2. LinksTaken' /\ FirstsTaken' /\ dir' = item' /\ DescsSynced'
  BY DEF LinkInv, LinksTaken, FirstsTaken, IsLive, Freeing, DescsSynced
<1>3. WritingOK'
  BY DEF WritingOK, Freeing
<1>4. item[s].first # 0 =>
        /\ fat1[item[s].first] # 0
        /\ \A x \in Clusters : fat1[x] # item[s].first
        /\ \A t \in Slots : IsLive(t) /\ t # s => item[t].first # item[s].first
  BY DEF LinkInv, NoCrossLink, FirstsTaken, Freeing
<1>5. FreeingOK'
  BY <1>4 DEF FreeingOK, IsLive, NotTarget
<1> QED BY <1>1, <1>2, <1>3, <1>5 DEF LinkInv

(* Polite callers: a name that is not open for writing names a slot that   *)
(* no descriptor will be flushed to.                                       *)
LEMMA NotOpen ==
  ASSUME LinkInv, NEW n \in Names, SlotsNamed(n) # {}, ~WriteOpen(n)
  PROVE  LET s == Min(SlotsNamed(n))
         IN  s \in Slots /\ IsLive(s) /\ \A d \in fds : d.slot # s
<1> DEFINE s == Min(SlotsNamed(n))
<1>1. s \in Slots /\ IsLive(s) /\ item[s].name = n
  BY SearchFacts DEF SlotsNamed, Scanned
<1>2. s # NONE
  BY <1>1, ConstantFacts DEF NONE
<1> QED BY <1>1, <1>2 DEF LinkInv, DescsSynced, WriteOpen

(* A turn of fat16_free_cluster_chain: the cluster after cur becomes a     *)
(* cluster that nothing leads to, as cur was.                              *)
LEMMA FreeStep ==
  ASSUME TypeInv, LinkInv, free_cluster_chain
  PROVE  LinkInv'
<1>1. /\ pc \in Freeing /\ cur # 0 /\ pc' = pc /\ slot' = slot
      /\ cur' = IF IsLink(fat1[cur]) THEN fat1[cur] ELSE 0
      /\ fat1' = [fat1 EXCEPT ![cur] = 0]
      /\ UNCHANGED <<item, dir, fds>>
  BY DEF free_cluster_chain, At, SetFatEntry, Freeing, mem
<1>2. cur \in Clusters /\ fat1 \in [Clusters -> Links]
  BY <1>1 DEF TypeInv, TypeOK, CallOK, DiskOK
<1>3. /\ IsLive(slot) /\ \A d \in fds : d.slot # slot
      /\ fat1[cur] # 0 /\ NotTarget(cur)
      /\ \A s \in Slots : IsLive(s) /\ s # slot => item[s].first # cur
  BY <1>1 DEF LinkInv, FreeingOK, Freeing
<1>4. \A c \in Clusters : fat1'[c] = IF c = cur THEN 0 ELSE fat1[c]
  BY <1>1, <1>2
<1>5. NoCrossLink'
  BY <1>1, <1>4, ConstantFacts DEF LinkInv, NoCrossLink, IsLive
<1>6. LinksTaken'
  BY <1>3, <1>4, ConstantFacts DEF LinkInv, LinksTaken, NotTarget
<1>7. \A s \in Slots : item[s].first \in {0} \cup Clusters
  BY DEF TypeInv, TypeOK, MemOK, Entries
<1>8. FirstsTaken'
  BY <1>1, <1>3, <1>4, <1>7 DEF LinkInv, FirstsTaken, IsLive, Freeing
<1>9. DescsSynced' /\ dir' = item'
  BY <1>1 DEF LinkInv, DescsSynced, IsLive
<1>10. WritingOK'
  BY <1>1 DEF WritingOK, Freeing
<1>11. ASSUME cur' # 0
       PROVE  /\ fat1'[cur'] # 0
              /\ \A x \in Clusters : fat1'[x] # cur'
              /\ \A s \in Slots : IsLive(s) => item[s].first # cur'
  <2>1. cur' = fat1[cur] /\ cur' \in Clusters
    BY <1>1, <1>2, <1>11, ConstantFacts
  <2>2. cur' # cur
    BY <1>2, <1>3, <2>1 DEF NotTarget
  <2>3. fat1[cur'] # 0
    BY <1>2, <2>1 DEF LinkInv, LinksTaken
  <2>4. \A x \in Clusters : fat1[x] = cur' => x = cur
    BY <1>2, <2>1 DEF LinkInv, NoCrossLink
  <2>5. \A s \in Slots : IsLive(s) /\ item[s].first # 0 => item[s].first # cur'
    BY <1>2, <2>1 DEF LinkInv, NoCrossLink
  <2> QED BY <1>4, <1>11, <2>1, <2>2, <2>3, <2>4, <2>5
<1>12. FreeingOK'
  BY <1>1, <1>3, <1>11 DEF FreeingOK, IsLive, NotTarget
<1> QED BY <1>5, <1>6, <1>8, <1>9, <1>10, <1>12 DEF LinkInv

(***************************************************************************)
(* The directory changes in one slot, to an entry that no descriptor       *)
(* disagrees with and whose first cluster, if any, is its own already or   *)
(* one that nothing leads to; the call returns.                            *)
(***************************************************************************)
LEMMA SlotWritten ==
  ASSUME TypeInv, LinkInv, NEW s \in Slots, NEW e \in Entries,
         WriteRootDirEntry(s, e), fat1' = fat1, pc' = "idle",
         pc \in Freeing => s = slot,
         DescsSynced',
         e.st = "live" /\ e.first # 0 =>
            Unowned(e.first) \/ (IsLive(s) /\ e.first = item[s].first /\ fat1[e.first] # 0)
  PROVE  LinkInv'
<1>1. /\ item' = [item EXCEPT ![s] = e] /\ dir' = [dir EXCEPT ![s] = e]
      /\ item \in [Slots -> Entries] /\ dir = item
  BY DEF WriteRootDirEntry, TypeInv, TypeOK, MemOK, LinkInv
<1>2. \A t \in Slots : item'[t] = IF t = s THEN e ELSE item[t]
  BY <1>1
<1>3. LinksTaken' /\ dir' = item'
  BY <1>1 DEF LinkInv, LinksTaken
<1>4. FreeingOK' /\ WritingOK'
  BY DEF FreeingOK, WritingOK
<1>5. FirstsTaken'
  BY <1>2 DEF LinkInv, FirstsTaken, IsLive, Unowned, Freeing
<1>6. e.st = "live" /\ e.first # 0 =>
        /\ \A t \in Slots : IsLive(t) /\ t # s => item[t].first # e.first
        /\ \A c \in Clusters : fat1[c] # e.first
  BY DEF LinkInv, NoCrossLink, Unowned, NotTarget
<1>7. NoCrossLink'
  <2>1. \A c, x \in Clusters : fat1'[c] \in Clusters /\ fat1'[c] = fat1'[x] => c = x
    BY DEF LinkInv, NoCrossLink
  <2>2. \A t, u \in Slots : IsLive(t)' /\ IsLive(u)' /\ item'[t].first # 0
                            /\ item'[t].first = item'[u].first => t = u
    BY <1>2, <1>6 DEF LinkInv, NoCrossLink, IsLive
  <2>3. \A t \in Slots, c \in Clusters :
          IsLive(t)' /\ item'[t].first # 0 => fat1'[c] # item'[t].first
    BY <1>2, <1>6 DEF LinkInv, NoCrossLink, IsLive
  <2> QED BY <2>1, <2>2, <2>3 DEF NoCrossLink
<1> QED BY <1>3, <1>4, <1>5, <1>7 DEF LinkInv

(* A descriptor for the entry just written, in a slot that had none, is in *)
(* step with it, and the others stay so.                                   *)
LEMMA NewDescSynced ==
  ASSUME TypeInv, LinkInv, NEW s \in Slots, NEW e \in Entries, e.st = "live",
         WriteRootDirEntry(s, e), \A d \in fds : d.slot # s,
         fds' = fds \cup NewDescriptor(e, s)
  PROVE  DescsSynced'
<1>1. \A t \in Slots : item'[t] = IF t = s THEN e ELSE item[t]
  BY DEF WriteRootDirEntry, TypeInv, TypeOK, MemOK
<1>2. \A d, f \in NewDescriptor(e, s) : d.slot = s /\ d.item = e /\ d = f
  BY DEF NewDescriptor
<1>3. \A d \in fds : d.slot \in Slots \cup {NONE}
  BY DEF TypeInv, TypeOK, MemOK, Descs
<1>4. \A d \in fds' : d.slot # NONE => IsLive(d.slot)' /\ item'[d.slot] = d.item
  BY <1>1, <1>2, <1>3 DEF LinkInv, DescsSynced, IsLive
<1>5. \A d, f \in fds' : d.slot # NONE /\ d.slot = f.slot => d = f
  BY <1>2 DEF LinkInv, DescsSynced
<1> QED BY <1>4, <1>5 DEF DescsSynced

LEMMA OpenKeeps ==
  ASSUME Careful, TypeInv, LinkInv, NEW n \in Names,
         fopen_r(n) \/ fopen_w_exists(n) \/ fopen_w_new(n)
  PROVE  LinkInv'
<1>0. pc = "idle" /\ pc \notin Freeing
  BY DEF fopen_r, fopen_w_exists, fopen_w_new, At, Freeing
<1>1. CASE Fails
  BY <1>0, <1>1, FailsKeeps
<1>2. CASE fopen_r(n) /\ ~Fails
  <2>1. /\ fds' = fds \cup NewDescriptor(item[Max(ItemsNamed(n))], NONE)
        /\ UNCHANGED <<fat1, item, dir>> /\ pc' = "idle"
    BY <1>2 DEF fopen_r, Done, disk
  <2>2. \A d \in NewDescriptor(item[Max(ItemsNamed(n))], NONE) : d.slot = NONE
    BY DEF NewDescriptor
  <2>3. DescsSynced'
    BY <2>1, <2>2 DEF LinkInv, DescsSynced, IsLive
  <2> QED BY <1>0, <2>1, <2>3, IdleFrame
<1>3. CASE fopen_w_exists(n)
  <2>1. SlotsNamed(n) # {} /\ ~WriteOpen(n)
    BY <1>3 DEF fopen_w_exists, Careful
  <2>2. PICK s \in Slots : s = Min(SlotsNamed(n)) /\ IsLive(s) /\ \A d \in fds : d.slot # s
    BY <2>1, NotOpen
  <2>3. /\ UNCHANGED <<fat1, item, dir, fds>>
        /\ pc' \in Freeing /\ slot' = s /\ cur' = item[s].first
    BY <1>3, <2>2 DEF fopen_w_exists, disk, mem, Freeing
  <2> QED BY <1>0, <2>2, <2>3, StartFreeing
<1>4. CASE fopen_w_new(n) /\ ~Fails
  <2>1. PICK s \in FreeSlots : s = Min(FreeSlots)
    BY <1>4, SearchFacts DEF fopen_w_new
  <2>2. /\ WriteRootDirEntry(s, NewEntry(n)) /\ fat1' = fat1 /\ pc' = "idle"
        /\ fds' = fds \cup NewDescriptor(NewEntry(n), s)
    BY <1>4, <2>1 DEF fopen_w_new, Done
  <2>3. s \in Slots /\ ~IsLive(s)
    BY <2>1 DEF FreeSlots
  <2>4. \A d \in fds : d.slot # s
    BY <2>3, ConstantFacts DEF LinkInv, DescsSynced, NONE
  <2>5. NewEntry(n) \in Entries /\ NewEntry(n).st = "live" /\ NewEntry(n).first = 0
    BY EntryFacts DEF NewEntry
  <2>6. DescsSynced'
    BY <2>2, <2>3, <2>4, <2>5, NewDescSynced
  <2> QED BY <1>0, <2>2, <2>3, <2>5, <2>6, SlotWritten
<1> QED BY <1>1, <1>2, <1>3, <1>4

LEMMA TruncateDeleteKeeps ==
  ASSUME Careful, TypeInv, LinkInv,
         truncated \/ deleted \/ \E n \in Names : fdelete(n)
  PROVE  LinkInv'
<1>1. CASE truncated
  <2>1. PICK s \in Slots : s = slot
    BY DEF TypeInv, TypeOK, CallOK
  <2>2. PICK e \in Entries : e = [item[s] EXCEPT !.first = 0, !.size = 0]
    BY <2>1 DEF TypeInv, TypeOK, MemOK, Entries
  <2>3. /\ pc \in Freeing /\ WriteRootDirEntry(s, e) /\ fat1' = fat1 /\ pc' = "idle"
        /\ fds' = fds \cup NewDescriptor(e, s)
    BY <1>1, <2>1, <2>2 DEF truncated, At, Done, Freeing
  <2>4. IsLive(s) /\ \A d \in fds : d.slot # s
    BY <2>1, <2>3 DEF LinkInv, FreeingOK, Freeing
  <2>5. item[s] \in Entries
    BY DEF TypeInv, TypeOK, MemOK
  <2>6. e.st = "live" /\ e.first = 0
    BY <2>2, <2>4, <2>5 DEF IsLive, Entries
  <2>7. DescsSynced'
    BY <2>3, <2>4, <2>6, NewDescSynced
  <2> QED BY <2>1, <2>3, <2>6, <2>7, SlotWritten
<1>2. CASE deleted
  <2>1. PICK s \in Slots : s = slot
    BY DEF TypeInv, TypeOK, CallOK
  <2>2. /\ pc \in Freeing /\ WriteRootDirEntry(s, Deleted) /\ fat1' = fat1 /\ pc' = "idle"
        /\ fds' = fds
    BY <1>2, <2>1 DEF deleted, At, Done, Freeing
  <2>3. \A d \in fds : d.slot # s
    BY <2>1, <2>2 DEF LinkInv, FreeingOK, Freeing
  <2>4. \A t \in Slots : t # s => item'[t] = item[t]
    BY <2>2 DEF WriteRootDirEntry, TypeInv, TypeOK, MemOK
  <2>5. \A d \in fds : d.slot \in Slots \cup {NONE}
    BY DEF TypeInv, TypeOK, MemOK, Descs
  <2>6. DescsSynced'
    BY <2>2, <2>3, <2>4, <2>5 DEF LinkInv, DescsSynced, IsLive
  <2>7. Deleted \in Entries /\ Deleted.st # "live"
    BY EntryFacts DEF Deleted
  <2> QED BY <2>1, <2>2, <2>6, <2>7, SlotWritten
<1>3. ASSUME NEW n \in Names, fdelete(n) PROVE LinkInv'
  <2>0. pc \notin Freeing
    BY <1>3 DEF fdelete, At, Freeing
  <2>1. CASE Fails
    BY <2>0, <2>1, FailsKeeps
  <2>2. CASE ~Fails
    <3>1. SlotsNamed(n) # {} /\ ~WriteOpen(n)
      BY <1>3, <2>2 DEF fdelete, Careful
    <3>2. PICK s \in Slots : s = Min(SlotsNamed(n)) /\ IsLive(s) /\ \A d \in fds : d.slot # s
      BY <3>1, NotOpen
    <3>3. /\ UNCHANGED <<fat1, item, dir, fds>>
          /\ pc' \in Freeing /\ slot' = s /\ cur' = item[s].first
      BY <1>3, <2>2, <3>2 DEF fdelete, disk, mem, Freeing
    <3> QED BY <2>0, <3>2, <3>3, StartFreeing
  <2> QED BY <2>1, <2>2
<1> QED BY <1>1, <1>2, <1>3

-----------------------------------------------------------------------------
(* A free cluster is one that nothing leads to. *)
LEMMA FreeUnowned ==
  ASSUME TypeInv, LinkInv, pc \notin Freeing, NEW c \in Clusters, fat1[c] = 0
  PROVE  /\ NotTarget(c)
         /\ \A s \in Slots : IsLive(s) => item[s].first # c
<1>1. NotTarget(c)
  BY DEF LinkInv, LinksTaken, NotTarget
<1>2. c # 0
  BY ConstantFacts
<1>3. \A s \in Slots : IsLive(s) => item[s].first # c
  BY <1>2 DEF LinkInv, FirstsTaken, Freeing
<1> QED BY <1>1, <1>3

(* What the running write knows of its descriptor. *)
LEMMA WriterFacts ==
  ASSUME TypeInv, LinkInv, pc \in Writing
  PROVE  \E d \in fds :
           /\ desc = {d}
           /\ d.slot \in Slots /\ IsLive(d.slot) /\ item[d.slot] = d.item
           /\ d.item \in Entries
           /\ first # d.item.first => d.item.first = 0 /\ Unowned(first)
           /\ cur = 0 => first = 0 /\ d.item.first = 0
           /\ first # 0 => fat1[first] # 0
<1>1. PICK d \in fds : /\ desc = {d} /\ d.slot # NONE
                       /\ first # d.item.first => d.item.first = 0 /\ Unowned(first)
                       /\ cur = 0 => first = 0 /\ d.item.first = 0
  BY DEF LinkInv, WritingOK, Writing
<1>2. d.slot \in Slots /\ d.item \in Entries
  BY <1>1 DEF TypeInv, TypeOK, MemOK, Descs
<1>3. IsLive(d.slot) /\ item[d.slot] = d.item
  BY <1>1 DEF LinkInv, DescsSynced
<1>4. first # 0 => fat1[first] # 0
  BY <1>1, <1>2, <1>3 DEF LinkInv, FirstsTaken, Unowned, Writing
<1> QED BY <1>1, <1>2, <1>3, <1>4

LEMMA FwriteKeeps ==
  ASSUME Careful, TypeInv, LinkInv, NEW d \in fds, NEW k \in 1 .. MaxWrite, fwrite(d, k)
  PROVE  LinkInv'
<1>0. pc \notin Freeing /\ d.slot # NONE
  BY DEF fwrite, At, Freeing, Careful
<1>1. CASE Fails
  BY <1>0, <1>1, FailsKeeps
<1>2. CASE ~Fails
  <2>1. /\ UNCHANGED <<fat1, item, dir, fds>>
        /\ pc' = IF d.item.first = 0 THEN "alloc" ELSE "write"
        /\ cur' = d.item.first /\ first' = d.item.first /\ desc' = {d}
    BY <1>2 DEF fwrite, disk, mem
  <2>2. NoCrossLink' /\ LinksTaken' /\ dir' = item' /\ DescsSynced'
    BY <2>1 DEF LinkInv, NoCrossLink, LinksTaken, DescsSynced, IsLive
  <2>3. FirstsTaken' /\ FreeingOK'
    BY <1>0, <2>1 DEF LinkInv, FirstsTaken, FreeingOK, IsLive, Freeing
  <2>4. d.item.first # 0 => fat1[d.item.first] # 0
    <3>1. d.slot \in Slots /\ IsLive(d.slot) /\ item[d.slot] = d.item
      BY <1>0 DEF LinkInv, DescsSynced, TypeInv, TypeOK, MemOK, Descs
    <3> QED BY <1>0, <3>1 DEF LinkInv, FirstsTaken, Freeing
  <2>5. WritingOK'
    BY <1>0, <2>1, <2>4 DEF WritingOK
  <2> QED BY <2>2, <2>3, <2>5 DEF LinkInv
<1> QED BY <1>1, <1>2

LEMMA NextClusterKeeps ==
  ASSUME TypeInv, LinkInv, next_cluster
  PROVE  LinkInv'
<1>1. /\ pc = "write" /\ pc' \in {"write", "alloc"}
      /\ UNCHANGED <<fat1, item, dir, fds, slot, first, desc>>
      /\ \/ IsLink(fat1[cur]) /\ cur' = fat1[cur] /\ pc' = "write"
         \/ ~IsLink(fat1[cur]) /\ cur' = cur /\ pc' = "alloc"
  BY DEF next_cluster, At, disk, mem
<1>2. cur \in Clusters /\ fat1[cur] \in Links /\ fat1[cur] # 0
  BY <1>1 DEF TypeInv, TypeOK, CallOK, DiskOK, ControlOK, LinkInv, WritingOK
<1>3. NoCrossLink' /\ LinksTaken' /\ dir' = item' /\ DescsSynced'
  BY <1>1 DEF LinkInv, NoCrossLink, LinksTaken, DescsSynced, IsLive
<1>4. FirstsTaken' /\ FreeingOK'
  BY <1>1 DEF LinkInv, FirstsTaken, FreeingOK, IsLive
<1>5. /\ cur' \in Clusters /\ cur' # 0 /\ fat1[cur'] # 0
      /\ pc' = "alloc" => fat1[cur'] = EOC
  BY <1>1, <1>2, ConstantFacts DEF LinkInv, LinksTaken, Links
<1>6. WritingOK'
  BY <1>1, <1>5 DEF LinkInv, WritingOK, Unowned, NotTarget, IsLive
<1> QED BY <1>3, <1>4, <1>6 DEF LinkInv

(* The new cluster was free, so nothing leads to it. *)
LEMMA AllocKeeps ==
  ASSUME TypeInv, LinkInv, alloc_cluster
  PROVE  LinkInv'
<1>0. pc = "alloc" /\ pc \notin Freeing /\ pc \in Writing
  BY DEF alloc_cluster, At, Freeing, Writing
<1>1. CASE Fails
  BY <1>0, <1>1, FailsKeeps
<1>2. CASE ~Fails
  <2>1. PICK c \in FreeClusters : c = Min(FreeClusters)
    BY <1>2, SearchFacts DEF alloc_cluster
  <2>2. /\ fat1' = [fat1 EXCEPT ![c] = EOC]
        /\ UNCHANGED <<item, dir, fds, slot, desc>>
        /\ \/ cur >= 2 /\ pc' = "link" /\ fresh' = c /\ cur' = cur /\ first' = first
           \/ ~(cur >= 2) /\ pc' = "write" /\ cur' = c /\ first' = c
    BY <1>2, <2>1 DEF alloc_cluster, SetFatEntry, mem
  <2>3. c \in Clusters /\ fat1[c] = 0 /\ c # 0 /\ c # EOC
    BY <2>1, ConstantFacts DEF FreeClusters
  <2>4. NotTarget(c) /\ \A s \in Slots : IsLive(s) => item[s].first # c
    BY <1>0, <2>3, FreeUnowned
  <2>5. \A x \in Clusters : fat1'[x] = IF x = c THEN EOC ELSE fat1[x]
    BY <2>2 DEF TypeInv, TypeOK, DiskOK
  <2>6. \A s \in Slots : item[s].first \in {0} \cup Clusters
    BY DEF TypeInv, TypeOK, MemOK, Entries
  <2>7. NoCrossLink' /\ LinksTaken'
    <3>1. \A x \in Clusters : fat1'[x] \in Clusters => x # c /\ fat1'[x] = fat1[x]
      BY <2>5, ConstantFacts
    <3>2. \A x \in Clusters : fat1[x] # 0 => fat1'[x] # 0
      BY <2>5 DEF EOC
    <3>3. LinksTaken'
      BY <3>1, <3>2 DEF LinkInv, LinksTaken
    <3>4. NoCrossLink'
      BY <2>2, <2>5, <2>6, <3>1, ConstantFacts DEF LinkInv, NoCrossLink, IsLive
    <3> QED BY <3>3, <3>4
  <2>9. FirstsTaken'
    BY <1>0, <2>2, <2>5, <2>6 DEF LinkInv, FirstsTaken, IsLive, EOC, Freeing
  <2>10. DescsSynced' /\ FreeingOK' /\ dir' = item'
    BY <2>2 DEF LinkInv, DescsSynced, FreeingOK, IsLive
  <2>11. /\ fat1'[c] # 0
         /\ \A x \in Clusters : fat1'[x] # c
         /\ \A s \in Slots : IsLive(s)' => item'[s].first # c
    BY <2>2, <2>3, <2>4, <2>5 DEF EOC, NotTarget, IsLive
  <2>12. PICK d \in fds : /\ desc = {d} /\ d.slot \in Slots
                          /\ first # d.item.first => d.item.first = 0 /\ Unowned(first)
                          /\ cur = 0 => first = 0 /\ d.item.first = 0
                          /\ first # 0 => fat1[first] # 0
    BY <1>0, WriterFacts
  <2>13. d.slot # NONE /\ cur \in {0} \cup Clusters /\ first \in {0} \cup Clusters
    BY <2>12, ConstantFacts DEF NONE, TypeInv, TypeOK, CallOK
  <2>14. CASE cur >= 2
    <3>1. pc' = "link" /\ fresh' = c /\ cur' = cur /\ first' = first /\ cur \in Clusters
      BY <2>2, <2>13, <2>14
    <3>2. fat1[cur] = EOC /\ cur # 0
      BY <1>0, <3>1, ConstantFacts DEF LinkInv, WritingOK
    <3>3. c # cur /\ c # first
      BY <2>3, <2>12, <3>2 DEF EOC
    <3>4. fat1'[cur] = EOC /\ fat1'[cur] # 0
      BY <2>5, <3>1, <3>2 DEF EOC
    <3>5. first # d.item.first => d.item.first = 0 /\ Unowned(first)'
      <4>1. SUFFICES ASSUME first # d.item.first PROVE Unowned(first)'
        BY <2>12
      <4>2. Unowned(first) /\ first \in Clusters
        BY <2>12, <2>13, <4>1
      <4>3. fat1'[first] # 0 /\ \A x \in Clusters : fat1'[x] # first
        BY <2>5, <3>3, <4>2, ConstantFacts DEF Unowned, NotTarget, EOC
      <4> QED BY <2>2, <3>1, <4>2, <4>3 DEF Unowned, NotTarget, IsLive
    <3>6. Unowned(fresh)'
      BY <2>11, <3>1 DEF Unowned, NotTarget
    <3>7. WritingOK'
      BY <2>2, <2>12, <2>13, <3>1, <3>2, <3>3, <3>4, <3>5, <3>6 DEF WritingOK
    <3> QED BY <2>7, <2>9, <2>10, <3>7 DEF LinkInv
  <2>15. CASE ~(cur >= 2)
    <3>1. cur = 0 /\ first = 0 /\ d.item.first = 0
      BY <2>12, <2>13, <2>15, ConstantFacts
    <3>2. pc' = "write" /\ cur' = c /\ first' = c
      BY <2>2, <2>15
    <3>3. Unowned(first)'
      BY <2>11, <3>2 DEF Unowned, NotTarget
    <3>4. WritingOK'
      BY <2>2, <2>3, <2>11, <2>12, <2>13, <3>1, <3>2, <3>3 DEF WritingOK
    <3> QED BY <2>7, <2>9, <2>10, <3>4 DEF LinkInv
  <2> QED BY <2>14, <2>15
<1> QED BY <1>1, <1>2

LEMMA LinkKeeps ==
  ASSUME TypeInv, LinkInv, link_cluster
  PROVE  LinkInv'
<1>1. /\ pc = "link" /\ pc' = "write" /\ pc \in Writing
      /\ fat1' = [fat1 EXCEPT ![cur] = fresh] /\ cur' = fresh
      /\ UNCHANGED <<item, dir, fds, slot, first, desc>>
  BY DEF link_cluster, At, SetFatEntry, Writing, mem
<1>2. /\ cur \in Clusters /\ fresh \in Clusters /\ fresh # 0
      /\ Unowned(fresh) /\ fresh # first /\ fresh # cur
      /\ fat1[cur] = EOC
  BY <1>1 DEF TypeInv, TypeOK, CallOK, ControlOK, LinkInv, WritingOK
<1>3. \A x \in Clusters : fat1'[x] = IF x = cur THEN fresh ELSE fat1[x]
  BY <1>1 DEF TypeInv, TypeOK, DiskOK
<1>4. NoCrossLink'
  BY <1>1, <1>2, <1>3 DEF LinkInv, NoCrossLink, IsLive, Unowned, NotTarget
<1>5. LinksTaken'
  BY <1>2, <1>3 DEF LinkInv, LinksTaken, Unowned
<1>6. \A s \in Slots : item[s].first \in {0} \cup Clusters
  BY DEF TypeInv, TypeOK, MemOK, Entries
<1>7. FirstsTaken'
  BY <1>1, <1>2, <1>3, <1>6 DEF LinkInv, FirstsTaken, IsLive
<1>8. DescsSynced' /\ FreeingOK' /\ dir' = item'
  BY <1>1 DEF LinkInv, DescsSynced, FreeingOK, IsLive
<1>9. PICK d \in fds : /\ desc = {d} /\ d.slot \in Slots
                       /\ first # d.item.first => d.item.first = 0 /\ Unowned(first)
  BY <1>1, WriterFacts
<1>10. d.slot # NONE /\ first \in {0} \cup Clusters
  BY <1>9, ConstantFacts DEF NONE, TypeInv, TypeOK, CallOK
<1>11. ASSUME first # d.item.first PROVE d.item.first = 0 /\ Unowned(first)'
  <2>1. d.item.first = 0 /\ Unowned(first) /\ first \in Clusters
    BY <1>9, <1>10, <1>11
  <2>2. fat1'[first] # 0 /\ \A x \in Clusters : fat1'[x] # first
    BY <1>2, <1>3, <2>1 DEF Unowned, NotTarget
  <2> QED BY <1>1, <2>1, <2>2 DEF Unowned, NotTarget, IsLive
<1>12. fat1'[fresh] # 0
  BY <1>2, <1>3 DEF Unowned
<1>13. WritingOK'
  BY <1>1, <1>2, <1>9, <1>10, <1>11, <1>12 DEF WritingOK
<1> QED BY <1>4, <1>5, <1>7, <1>8, <1>13 DEF LinkInv

(* The entry that is flushed has the first cluster it had, or the new one. *)
LEMMA WrittenKeeps ==
  ASSUME TypeInv, LinkInv, written
  PROVE  LinkInv'
<1>0. pc \in Writing /\ pc \notin Freeing /\ pc' = "idle" /\ fat1' = fat1
  BY DEF written, At, Writing, Freeing, Done
<1>1. PICK d \in fds : /\ desc = {d}
                       /\ d.slot \in Slots /\ IsLive(d.slot) /\ item[d.slot] = d.item
                       /\ d.item \in Entries
                       /\ first # d.item.first => d.item.first = 0 /\ Unowned(first)
                       /\ first # 0 => fat1[first] # 0
  BY <1>0, WriterFacts
<1>2. PICK e : e = [d.item EXCEPT !.first = first,
                                  !.size  = IF at > d.item.size THEN at ELSE d.item.size]
  OBVIOUS
<1>3. PICK f : f = [d EXCEPT !.item = e, !.pos = at]
  OBVIOUS
<1>4. e \in Entries /\ e.st = "live" /\ e.first = first
  BY <1>1, <1>2 DEF Entries, TypeInv, TypeOK, CallOK, IsLive
<1>5. d.slot # NONE
  BY <1>1, ConstantFacts DEF NONE
<1>6. WriteRootDirEntry(d.slot, e) /\ fds' = (fds \ {d}) \cup {f}
  BY <1>1, <1>2, <1>3, <1>5 DEF written
<1>7. d \in Descs
  BY DEF TypeInv, TypeOK, MemOK
<1>8. f.slot = d.slot /\ f.item = e
  BY <1>3, <1>7 DEF Descs
<1>9. \A t \in Slots : item'[t] = IF t = d.slot THEN e ELSE item[t]
  BY <1>6 DEF WriteRootDirEntry, TypeInv, TypeOK, MemOK
<1>10. DescsSynced'
  <2>1. \A g \in fds : g # d /\ g.slot # NONE =>
          g.slot # d.slot /\ g.slot \in Slots /\ IsLive(g.slot) /\ item[g.slot] = g.item
    BY <1>5 DEF LinkInv, DescsSynced, TypeInv, TypeOK, MemOK, Descs
  <2>2. \A g \in fds' : g = f \/ (g \in fds /\ g # d)
    BY <1>6
  <2>3. \A g \in fds' : g.slot # NONE => IsLive(g.slot)' /\ item'[g.slot] = g.item
    BY <1>1, <1>4, <1>8, <1>9, <2>1, <2>2 DEF IsLive
  <2>4. \A g, h \in fds' : g.slot # NONE /\ g.slot = h.slot => g = h
    BY <1>5, <1>8, <2>1, <2>2 DEF LinkInv, DescsSynced
  <2> QED BY <2>3, <2>4 DEF DescsSynced
<1>11. e.st = "live" /\ e.first # 0 =>
         Unowned(e.first) \/ (IsLive(d.slot) /\ e.first = item[d.slot].first /\ fat1[e.first] # 0)
  BY <1>1, <1>4
<1> QED BY <1>0, <1>1, <1>4, <1>6, <1>10, <1>11, SlotWritten

LEMMA OtherKeeps ==
  ASSUME Careful, TypeInv, LinkInv,
         \/ SetFatEntry2 \/ restart \/ write_cluster_data
         \/ \E d \in fds : \/ fclose(d)
                           \/ \E k \in 1 .. MaxWrite : fread(d, k)
                           \/ \E o \in 0 .. MaxSize : fseek(d, o)
  PROVE  LinkInv'
<1>1. CASE SetFatEntry2 \/ write_cluster_data
  <2>1. UNCHANGED <<fat1, item, dir, fds, pc, slot, cur, fresh, first, desc>>
    BY <1>1 DEF SetFatEntry2, write_cluster_data, mem, loc
  <2> QED BY <2>1, Frame
<1>2. CASE restart
  <2>1. pc \notin Freeing /\ pc' = "idle" /\ UNCHANGED <<fat1, item, dir>> /\ fds' = {}
    BY <1>2 DEF restart, Careful, Freeing, Done, LinkInv
  <2>2. DescsSynced'
    BY <2>1 DEF DescsSynced
  <2> QED BY <2>1, <2>2, IdleFrame
<1>3. ASSUME NEW d \in fds, fclose(d) PROVE LinkInv'
  <2>1. CASE Fails
    BY <1>3, <2>1, FailsKeeps DEF fclose, At, Freeing
  <2>2. CASE ~Fails
    <3>1. /\ pc \notin Freeing /\ pc' = "idle" /\ UNCHANGED <<fat1, item, dir>>
          /\ fds' = fds \ {d}
      BY <1>3, <2>2 DEF fclose, At, Freeing, Done, disk
    <3>2. DescsSynced'
      BY <3>1 DEF LinkInv, DescsSynced, IsLive
    <3> QED BY <3>1, <3>2, IdleFrame
  <2> QED BY <2>1, <2>2
<1>4. ASSUME NEW d \in fds, NEW k \in 1 .. MaxWrite, fread(d, k) PROVE LinkInv'
  <2>1. /\ pc \notin Freeing /\ pc' = "idle"
        /\ UNCHANGED <<fat1, item, dir, fds>>
    BY <1>4 DEF fread, At, Freeing, Fails, Done, disk, mem
  <2>2. DescsSynced'
    BY <2>1 DEF LinkInv, DescsSynced, IsLive
  <2> QED BY <2>1, <2>2, IdleFrame
<1>5. ASSUME NEW d \in fds, NEW o \in 0 .. MaxSize, fseek(d, o) PROVE LinkInv'
  <2>1. CASE Fails
    BY <1>5, <2>1, FailsKeeps DEF fseek, At, Freeing
  <2>2. CASE ~Fails
    <3>1. PICK p : fds' = (fds \ {d}) \cup {[d EXCEPT !.pos = p]}
      BY <1>5, <2>2 DEF fseek
    <3>2. PICK f : f = [d EXCEPT !.pos = p]
      OBVIOUS
    <3>3. f.slot = d.slot /\ f.item = d.item
      BY <3>2 DEF TypeInv, TypeOK, MemOK, Descs
    <3>4. pc \notin Freeing /\ pc' = "idle" /\ UNCHANGED <<fat1, item, dir>>
      BY <1>5, <2>2 DEF fseek, At, Freeing, Done, disk
    <3>5. \A g \in fds' : g = f \/ (g \in fds /\ g # d)
      BY <3>1, <3>2
    <3>6. DescsSynced'
      BY <3>3, <3>4, <3>5 DEF LinkInv, DescsSynced, IsLive
    <3> QED BY <3>4, <3>6, IdleFrame
  <2> QED BY <2>1, <2>2
<1> QED BY <1>1, <1>2, <1>3, <1>4, <1>5

-----------------------------------------------------------------------------
LEMMA InitKeeps == Init => LinkInv
<1> SUFFICES ASSUME Init PROVE LinkInv
  OBVIOUS
<1>1. \A c \in Clusters : fat1[c] = IF c = 2 THEN EOC ELSE 0
  BY DEF Init
<1>2. 2 \in Clusters
  BY ClustersAssumption DEF Clusters
<1>3. \A s \in Slots : IsLive(s) => s = 0 /\ item[s].first = 2
  BY DEF Init, IsLive, End, NewEntry
<1>4. NoCrossLink /\ LinksTaken
  <2>1. \A c \in Clusters : fat1[c] \notin Clusters
    BY <1>1, ConstantFacts
  <2> QED BY <1>2, <1>3, <2>1 DEF NoCrossLink, LinksTaken
<1>5. FirstsTaken
  BY <1>1, <1>2, <1>3 DEF FirstsTaken, EOC
<1>6. dir = item /\ DescsSynced /\ FreeingOK /\ WritingOK
  BY DEF Init, DescsSynced, FreeingOK, WritingOK
<1> QED BY <1>4, <1>5, <1>6 DEF LinkInv

LEMMA NextKeeps == Careful /\ TypeInv /\ LinkInv /\ [Next]_vars => LinkInv'
<1> SUFFICES ASSUME Careful, TypeInv, LinkInv, [Next]_vars PROVE LinkInv'
  OBVIOUS
<1>1. CASE UNCHANGED vars
  BY <1>1, Frame DEF vars, disk, mem, loc
<1>2. CASE Step
  BY <1>2, FreeStep, TruncateDeleteKeeps, NextClusterKeeps, AllocKeeps, LinkKeeps,
     WrittenKeeps, OtherKeeps DEF Step
<1>3. CASE Call
  BY <1>3, OpenKeeps, TruncateDeleteKeeps, FwriteKeeps, OtherKeeps DEF Call
<1>4. CASE restart
  BY <1>4, OtherKeeps
<1> QED BY <1>1, <1>2, <1>3, <1>4 DEF Next

LEMMA LinkInvariance == Careful => (Spec => [](TypeInv /\ LinkInv))
<1>1. Init => TypeInv /\ LinkInv
  BY InitTyped, InitKeeps
<1>2. Careful /\ (TypeInv /\ LinkInv) /\ [Next]_vars => (TypeInv /\ LinkInv)'
  BY NextTyped, NextKeeps
<1> SUFFICES ASSUME Careful PROVE Spec => [](TypeInv /\ LinkInv)
  OBVIOUS
<1>3. (TypeInv /\ LinkInv) /\ [Next]_vars => (TypeInv /\ LinkInv)'
  BY <1>2
<1> QED BY <1>1, <1>3, PTL DEF Spec

(***************************************************************************)
(* For every geometry, every set of names and every sequence of calls by   *)
(* polite callers, and wherever the power fails outside the freeing of a   *)
(* chain, fat16_alloc_cluster and fat16_free_cluster_chain never let two   *)
(* files share a cluster.                                                  *)
(***************************************************************************)
THEOREM Fat16NoCrossLink == Careful => (Spec => []NoCrossLink)
<1> SUFFICES ASSUME Careful PROVE Spec => []NoCrossLink
  OBVIOUS
<1>1. Spec => [](TypeInv /\ LinkInv)
  BY LinkInvariance
<1>2. TypeInv /\ LinkInv => NoCrossLink
  BY DEF LinkInv
<1> QED BY <1>1, <1>2, PTL

-----------------------------------------------------------------------------
(***************************************************************************)
(* More, on top of the invariant that keeps the chains apart: the second   *)
(* copy of the FAT, the clusters of each file, and the root directory.     *)
(***************************************************************************)

-----------------------------------------------------------------------------
(* Chains in any FAT f, so that the lemmas speak of a FAT before and after *)
(* a step.                                                                 *)

ClosedIn(f, S) == \A x \in S : f[x] \in Clusters => f[x] \in S

ChainIn(f, c) ==
  {x \in Clusters : c # 0 /\ \A S \in SUBSET Clusters : c \in S /\ ClosedIn(f, S) => x \in S}

LEMMA ChainIs ==
  ASSUME NEW c
  PROVE  Chain(c) = ChainIn(fat1, c)
  BY DEF Chain, Closed, ChainIn, ClosedIn

LEMMA NoChain ==
  ASSUME NEW f
  PROVE  ChainIn(f, 0) = {}
  BY DEF ChainIn

(* A chain has its first cluster and every one its clusters lead to ... *)
LEMMA ChainClosed ==
  ASSUME NEW f, NEW c \in Clusters
  PROVE  c \in ChainIn(f, c) /\ ClosedIn(f, ChainIn(f, c)) /\ ChainIn(f, c) \subseteq Clusters
<1>1. c # 0
  BY ConstantFacts
<1>2. c \in ChainIn(f, c) /\ ChainIn(f, c) \subseteq Clusters
  BY <1>1 DEF ChainIn
<1>3. ASSUME NEW x \in ChainIn(f, c), f[x] \in Clusters
      PROVE  f[x] \in ChainIn(f, c)
  <2>1. ASSUME NEW S \in SUBSET Clusters, c \in S, ClosedIn(f, S)
        PROVE  f[x] \in S
    BY <1>3, <2>1 DEF ChainIn, ClosedIn
  <2> QED BY <1>1, <1>3, <2>1 DEF ChainIn
<1> QED BY <1>2, <1>3 DEF ClosedIn

(* ... and is the least such set. *)
LEMMA ChainLeast ==
  ASSUME NEW f, NEW c, NEW S \in SUBSET Clusters, c \in S, ClosedIn(f, S)
  PROVE  ChainIn(f, c) \subseteq S
  BY DEF ChainIn

(* Two FATs that lead the same way from the clusters of a chain have that  *)
(* chain in common.                                                        *)
LEMMA ChainSame ==
  ASSUME NEW f, NEW g, NEW c \in {0} \cup Clusters,
         \A x \in ChainIn(f, c) : f[x] = g[x] \/ (f[x] \notin Clusters /\ g[x] \notin Clusters)
  PROVE  ChainIn(g, c) = ChainIn(f, c)
<1>1. CASE c = 0
  BY <1>1, NoChain
<1>2. CASE c # 0
  <2>1. c \in Clusters
    BY <1>2
  <2>2. ClosedIn(g, ChainIn(f, c))
    BY <2>1, ChainClosed DEF ClosedIn
  <2>3. ChainIn(g, c) \subseteq ChainIn(f, c)
    BY <2>1, <2>2, ChainClosed, ChainLeast
  <2>4. ClosedIn(f, ChainIn(g, c))
    BY <2>1, <2>3, ChainClosed DEF ClosedIn
  <2>5. ChainIn(f, c) \subseteq ChainIn(g, c)
    BY <2>1, <2>4, ChainClosed, ChainLeast
  <2> QED BY <2>3, <2>5
<1> QED BY <1>1, <1>2

(* A FAT with more links has longer chains. *)
LEMMA ChainGrows ==
  ASSUME NEW f, NEW g, NEW c \in {0} \cup Clusters,
         \A x \in Clusters : f[x] \in Clusters => g[x] = f[x]
  PROVE  ChainIn(f, c) \subseteq ChainIn(g, c)
<1>1. CASE c = 0
  BY <1>1, NoChain
<1>2. CASE c # 0
  <2>1. ClosedIn(f, ChainIn(g, c))
    BY <1>2, ChainClosed DEF ClosedIn
  <2> QED BY <1>2, <2>1, ChainClosed, ChainLeast
<1> QED BY <1>1, <1>2

(* A cluster that nothing leads to is in no chain but its own. *)
LEMMA ChainAvoids ==
  ASSUME NEW f, NEW c \in {0} \cup Clusters, NEW r \in Clusters, c # r,
         \A x \in Clusters : f[x] # r
  PROVE  r \notin ChainIn(f, c)
<1>1. CASE c = 0
  BY <1>1, NoChain
<1>2. CASE c # 0
  <2>1. ClosedIn(f, Clusters \ {r})
    BY DEF ClosedIn
  <2> QED BY <1>2, <2>1, ChainLeast
<1> QED BY <1>1, <1>2

(* A chain is its first cluster and the chain behind. *)
LEMMA ChainBehind ==
  ASSUME NEW f, NEW c \in Clusters
  PROVE  /\ f[c] \in Clusters => ChainIn(f, c) \subseteq {c} \cup ChainIn(f, f[c])
         /\ f[c] \notin Clusters => ChainIn(f, c) \subseteq {c}
<1>1. ASSUME f[c] \in Clusters
      PROVE  ChainIn(f, c) \subseteq {c} \cup ChainIn(f, f[c])
  <2>1. f[c] \in ChainIn(f, f[c]) /\ ClosedIn(f, ChainIn(f, f[c]))
    BY <1>1, ChainClosed
  <2>2. {c} \cup ChainIn(f, f[c]) \in SUBSET Clusters
    BY <1>1, ChainClosed
  <2>3. ClosedIn(f, {c} \cup ChainIn(f, f[c]))
    BY <2>1 DEF ClosedIn
  <2> QED BY <2>2, <2>3, ChainLeast
<1>2. ASSUME f[c] \notin Clusters
      PROVE  ChainIn(f, c) \subseteq {c}
  <2>1. {c} \in SUBSET Clusters /\ c \in {c} /\ ClosedIn(f, {c})
    BY <1>2 DEF ClosedIn
  <2> QED BY <2>1, ChainLeast
<1> QED BY <1>1, <1>2

(* Where no two clusters lead to the same one, the chains of two clusters  *)
(* that nothing leads to are disjoint.                                     *)
LEMMA ChainsDisjoint ==
  ASSUME NEW f, NEW c \in {0} \cup Clusters, NEW e \in {0} \cup Clusters, c # e,
         \A x \in Clusters : f[x] # c \/ c = 0,
         \A x \in Clusters : f[x] # e \/ e = 0,
         \A x, y \in Clusters : f[x] \in Clusters /\ f[x] = f[y] => x = y
  PROVE  ChainIn(f, c) \cap ChainIn(f, e) = {}
<1>1. CASE c = 0 \/ e = 0
  BY <1>1, NoChain
<1>2. CASE c # 0 /\ e # 0
  <2> DEFINE E == ChainIn(f, e)
             S == Clusters \ E
  <2>1. c \in Clusters /\ e \in Clusters
    BY <1>2
  <2>2. e \in E /\ ClosedIn(f, E) /\ E \subseteq Clusters
    BY <2>1, ChainClosed
  <2>3. ASSUME NEW y \in E, y # e
        PROVE  \E x \in E : f[x] = y
    <3>1. SUFFICES ASSUME \A x \in E : f[x] # y PROVE FALSE
      OBVIOUS
    <3>2. ClosedIn(f, E \ {y})
      BY <2>2, <3>1 DEF ClosedIn
    <3>3. E \subseteq E \ {y}
      BY <2>2, <2>3, <3>2, ChainLeast
    <3> QED BY <2>3, <3>3
  <2>4. ClosedIn(f, S)
    <3>1. SUFFICES ASSUME NEW x \in S, f[x] \in Clusters, f[x] \in E PROVE FALSE
      BY DEF ClosedIn
    <3>2. f[x] # e
      BY <1>2, <3>1
    <3>3. PICK z \in E : f[z] = f[x]
      BY <2>3, <3>1, <3>2
    <3> QED BY <2>2, <3>1, <3>3
  <2>5. c \notin E
    BY <1>2, <2>1, ChainAvoids
  <2>6. ChainIn(f, c) \subseteq S
    BY <2>1, <2>4, <2>5, ChainLeast
  <2> QED BY <2>6
<1> QED BY <1>1, <1>2
-----------------------------------------------------------------------------
(* The second copy of the FAT. *)

(* What the second copy still has to get: a cluster is freed there when    *)
(* nothing leads to it in this copy, and a link is set when what it leads  *)
(* to is taken in this copy.                                               *)
MirrorOK ==
  /\ \A m, n \in mirror : m = n
  /\ \A m \in mirror :
       /\ fat1[m[1]] = m[2]
       /\ m[2] = 0 => pc \in Freeing /\ \A x \in Clusters : fat2[x] # m[1]
       /\ m[2] # 0 => fat2[m[1]] \notin Clusters
       /\ m[2] \in Clusters => fat2[m[2]] # 0

(* Every link of the second copy is one of the first, but for the cluster  *)
(* that is being freed.  A write that power cuts off leaves it behind.     *)
SecondCopyOK ==
  /\ \A c \in Clusters : fat2[c] \in Clusters =>
       fat2[fat2[c]] # 0 /\ (fat1[c] = fat2[c] \/ <<c, 0>> \in mirror)
  /\ pc = "link" => fat2[fresh] # 0 \/ <<fresh, EOC>> \in mirror

CopiesInv == MirrorOK /\ SecondCopyOK

LEMMA MirrorStep ==
  ASSUME TypeInv, CopiesInv, SetFatEntry2
  PROVE  CopiesInv'
<1>1. PICK m \in mirror : fat2' = [fat2 EXCEPT ![m[1]] = m[2]]
  BY DEF SetFatEntry2
<1>2. mirror' = {} /\ UNCHANGED <<fat1, pc, fresh>>
  BY DEF SetFatEntry2, loc
<1>3. /\ m[1] \in Clusters /\ m[2] \in Links /\ m = <<m[1], m[2]>>
      /\ fat2 \in [Clusters -> Links] /\ fresh \in {0} \cup Clusters
  BY DEF TypeInv, TypeOK, DiskOK, CallOK
<1>4. /\ fat1[m[1]] = m[2]
      /\ m[2] = 0 => pc \in Freeing /\ \A x \in Clusters : fat2[x] # m[1]
      /\ m[2] \in Clusters => fat2[m[2]] # 0
      /\ \A n \in mirror : n = m
  BY DEF CopiesInv, MirrorOK
<1>5. \A c \in Clusters : fat2'[c] = IF c = m[1] THEN m[2] ELSE fat2[c]
  BY <1>1, <1>3
<1>6. ASSUME NEW c \in Clusters, fat2'[c] \in Clusters
      PROVE  fat2'[fat2'[c]] # 0 /\ fat1[c] = fat2'[c]
  <2>1. CASE c = m[1]
    BY <1>3, <1>4, <1>5, <1>6, <2>1, ConstantFacts
  <2>2. CASE c # m[1]
    <3>1. fat2'[c] = fat2[c] /\ <<c, 0>> # m
      BY <1>3, <1>5, <2>2
    <3>2. fat2[fat2[c]] # 0 /\ fat1[c] = fat2[c]
      BY <1>4, <1>6, <3>1 DEF CopiesInv, SecondCopyOK
    <3>3. fat2[c] = m[1] => m[2] # 0
      BY <1>4
    <3>4. fat2'[fat2[c]] # 0
      BY <1>5, <1>6, <3>1, <3>2, <3>3
    <3> QED BY <3>1, <3>2, <3>4
  <2> QED BY <2>1, <2>2
<1>7. ASSUME pc = "link" PROVE fat2'[fresh] # 0
  <2>1. fresh \in Clusters
    BY <1>3, <1>7 DEF TypeInv, ControlOK
  <2>2. m[2] # 0
    BY <1>4, <1>7 DEF Freeing
  <2>3. fat2[fresh] # 0 \/ m = <<fresh, EOC>>
    BY <1>4, <1>7 DEF CopiesInv, SecondCopyOK
  <2>4. CASE fresh = m[1]
    BY <1>5, <2>1, <2>2, <2>4
  <2>5. CASE fresh # m[1]
    <3>1. m # <<fresh, EOC>>
      BY <2>5
    <3> QED BY <1>5, <2>1, <2>3, <2>5, <3>1
  <2> QED BY <2>4, <2>5
<1>8. SecondCopyOK'
  BY <1>2, <1>6, <1>7 DEF SecondCopyOK
<1>9. MirrorOK'
  BY <1>2 DEF MirrorOK
<1> QED BY <1>8, <1>9 DEF CopiesInv

(* fat16_set_fat_entry of the first copy, as each of its callers uses it. *)
LEMMA FirstCopyStep ==
  ASSUME TypeInv, CopiesInv, mirror = {}, NEW c \in Clusters, NEW v \in Links,
         SetFatEntry(c, v),
         v = 0 => pc' \in Freeing /\ NotTarget(c),
         v # 0 => fat1[c] \notin Clusters,
         v \in Clusters => pc = "link" /\ v = fresh,
         pc' = "link" => v = EOC /\ c = fresh'
  PROVE  CopiesInv'
<1>1. /\ fat1' = [fat1 EXCEPT ![c] = v] /\ fat2' = fat2 /\ mirror' = {<<c, v>>}
  BY DEF SetFatEntry
<1>2. \A x \in Clusters : fat1'[x] = IF x = c THEN v ELSE fat1[x]
  BY <1>1 DEF TypeInv, TypeOK, DiskOK
<1>3. \A x \in Clusters : fat2[x] \in Clusters => fat2[fat2[x]] # 0 /\ fat1[x] = fat2[x]
  BY DEF CopiesInv, SecondCopyOK
<1>4. v # 0 => fat2[c] \notin Clusters
  BY <1>3
<1>5. v = 0 => \A x \in Clusters : fat2[x] # c
  BY <1>3 DEF NotTarget
<1>6. v \in Clusters => fat2[v] # 0
  BY DEF CopiesInv, SecondCopyOK
<1>7. MirrorOK'
  BY <1>1, <1>2, <1>4, <1>5, <1>6 DEF MirrorOK
<1>8. \A x \in Clusters : fat2[x] \in Clusters => fat1'[x] = fat2[x] \/ <<x, 0>> = <<c, v>>
  BY <1>2, <1>3, <1>4
<1>9. SecondCopyOK'
  BY <1>1, <1>3, <1>8 DEF SecondCopyOK
<1> QED BY <1>7, <1>9 DEF CopiesInv

LEMMA CopiesFrame ==
  ASSUME CopiesInv, UNCHANGED <<fat1, fat2, mirror>>,
         mirror = {} \/ pc' = pc,
         pc' = "link" => pc = "link" /\ fresh' = fresh
  PROVE  CopiesInv'
  BY DEF CopiesInv, MirrorOK, SecondCopyOK

LEMMA CopiesNext ==
  ASSUME Careful, TypeInv, LinkInv, CopiesInv, [Next]_vars
  PROVE  CopiesInv'
<1>1. CASE SetFatEntry2
  BY <1>1, MirrorStep
<1>2. CASE free_cluster_chain
  <2>1. /\ pc \in Freeing /\ pc' = pc /\ mirror = {} /\ cur # 0 /\ SetFatEntry(cur, 0)
    BY <1>2 DEF free_cluster_chain, At, Freeing
  <2>2. cur \in Clusters /\ 0 \in Links /\ NotTarget(cur)
    BY <2>1 DEF TypeInv, TypeOK, CallOK, Links, LinkInv, FreeingOK, Freeing
  <2>3. 0 \notin Clusters /\ pc' # "link" /\ pc' \in Freeing
    BY <2>1, ConstantFacts DEF Freeing
  <2> QED BY <2>1, <2>2, <2>3, FirstCopyStep
<1>3. CASE alloc_cluster /\ ~Fails
  <2>1. PICK c \in FreeClusters : c = Min(FreeClusters)
    BY <1>3, SearchFacts DEF alloc_cluster
  <2>2. /\ mirror = {} /\ SetFatEntry(c, EOC)
        /\ pc' = "link" => fresh' = c
    BY <1>3, <2>1 DEF alloc_cluster, At
  <2>3. c \in Clusters /\ fat1[c] = 0 /\ EOC \in Links /\ EOC # 0 /\ EOC \notin Clusters
    BY <2>1, ConstantFacts DEF FreeClusters, Links, EOC
  <2> QED BY <2>2, <2>3, FirstCopyStep, ConstantFacts
<1>4. CASE link_cluster
  <2>1. mirror = {} /\ pc = "link" /\ pc' = "write" /\ SetFatEntry(cur, fresh)
    BY <1>4 DEF link_cluster, At
  <2>2. cur \in Clusters /\ fresh \in Clusters /\ fat1[cur] = EOC
    BY <2>1 DEF TypeInv, TypeOK, CallOK, ControlOK, LinkInv, WritingOK
  <2>3. fresh \in Links /\ fresh # 0 /\ fat1[cur] \notin Clusters
    BY <2>2, ConstantFacts DEF Links
  <2> QED BY <2>1, <2>2, <2>3, FirstCopyStep
<1>5. CASE restart
  <2>1. mirror' = {} /\ pc' = "idle" /\ UNCHANGED <<fat1, fat2>> /\ pc \notin Freeing
    BY <1>5 DEF restart, Done, Careful, Freeing
  <2>2. \A c \in Clusters : <<c, 0>> \notin mirror
    BY <2>1 DEF CopiesInv, MirrorOK
  <2> QED BY <2>1, <2>2 DEF CopiesInv, MirrorOK, SecondCopyOK
<1>6. ASSUME UNCHANGED <<fat1, fat2, mirror>>, mirror = {}, pc' # "link"
      PROVE  CopiesInv'
  BY <1>6, CopiesFrame
<1>7. CASE UNCHANGED vars
  BY <1>7, CopiesFrame DEF vars, disk, loc
<1>8. ASSUME truncated \/ deleted \/ next_cluster \/ write_cluster_data \/ written
             \/ (alloc_cluster /\ Fails)
      PROVE  CopiesInv'
  <2>1. UNCHANGED <<fat1, fat2, mirror>> /\ mirror = {} /\ pc' # "link"
    BY <1>8 DEF truncated, deleted, next_cluster, write_cluster_data, written, alloc_cluster,
                Fails, Done, At, disk
  <2> QED BY <1>6, <2>1
<1>9. ASSUME NEW n \in Names, fopen_r(n) \/ fopen_w_exists(n) \/ fopen_w_new(n) \/ fdelete(n)
      PROVE  CopiesInv'
  <2>1. UNCHANGED <<fat1, fat2, mirror>> /\ mirror = {} /\ pc' # "link"
    BY <1>9 DEF fopen_r, fopen_w_exists, fopen_w_new, fdelete, Fails, Done, At, disk
  <2> QED BY <1>6, <2>1
<1>10. ASSUME NEW d \in fds,
              \/ fclose(d)
              \/ \E k \in 1 .. MaxWrite : fwrite(d, k) \/ fread(d, k)
              \/ \E o \in 0 .. MaxSize : fseek(d, o)
       PROVE  CopiesInv'
  <2>1. UNCHANGED <<fat1, fat2, mirror>> /\ mirror = {} /\ pc' # "link"
    BY <1>10 DEF fclose, fwrite, fread, fseek, Fails, Done, At, disk
  <2> QED BY <1>6, <2>1
<1> QED BY <1>1, <1>2, <1>3, <1>4, <1>5, <1>7, <1>8, <1>9, <1>10 DEF Next, Step, Call

(***************************************************************************)
(* For polite callers, and wherever the power fails outside the freeing of *)
(* a chain: in neither copy of the FAT, and not in the directory on disk   *)
(* either, does anything ever lead to a free cluster.  fat16_write leaves  *)
(* the disk in order between any two of its writes.                        *)
(***************************************************************************)
THEOREM Fat16NoDangling == Careful => (Spec => []NoDangling)
<1> SUFFICES ASSUME Careful PROVE Spec => []NoDangling
  OBVIOUS
<1>1. Init => CopiesInv
  <2>1. ASSUME Init PROVE CopiesInv
    <3>1. \A c \in Clusters : fat2[c] \notin Clusters
      BY <2>1, ConstantFacts DEF Init
    <3> QED BY <2>1, <3>1 DEF Init, CopiesInv, MirrorOK, SecondCopyOK
  <2> QED BY <2>1
<1>2. (TypeInv /\ LinkInv) /\ CopiesInv /\ [Next]_vars => CopiesInv'
  BY CopiesNext
<1>3. Spec => [](TypeInv /\ LinkInv)
  BY LinkInvariance
<1>4. (TypeInv /\ LinkInv) /\ CopiesInv => NoDangling
  <2> SUFFICES ASSUME TypeInv, LinkInv, CopiesInv PROVE NoDangling
    OBVIOUS
  <2>1. \A c \in Clusters : fat1[c] \in Clusters => fat1[fat1[c]] # 0
    BY DEF LinkInv, LinksTaken
  <2>2. \A c \in Clusters : fat2[c] \in Clusters => fat2[fat2[c]] # 0
    BY DEF CopiesInv, SecondCopyOK
  <2>3. ASSUME NEW s \in Slots, dir[s].st = "live", dir[s].first # 0, s \notin Busy
        PROVE  fat1[dir[s].first] # 0
    BY <2>3 DEF LinkInv, FirstsTaken, IsLive, Busy
  <2> QED BY <2>1, <2>2, <2>3 DEF NoDangling
<1> QED BY <1>1, <1>2, <1>3, <1>4, PTL DEF Spec
-----------------------------------------------------------------------------
(* The file that is written, and the others. *)

(* A write walks along the chain of its own file. *)
WalkInv == pc \in Writing /\ cur # 0 => cur \in ChainIn(fat1, first)

(* How the first copy of the FAT changes in a step. *)
LEMMA FatSteps ==
  ASSUME TypeInv, LinkInv, [Next]_vars
  PROVE  \/ fat1' = fat1
         \/ free_cluster_chain
         \/ alloc_cluster /\ ~Fails
         \/ link_cluster
<1>1. CASE UNCHANGED vars
  BY <1>1 DEF vars, disk
<1>2. CASE Step
  BY <1>2 DEF Step, SetFatEntry2, truncated, deleted, next_cluster, write_cluster_data, written,
              Fails, disk
<1>3. CASE Call
  BY <1>3 DEF Call, fopen_r, fopen_w_exists, fopen_w_new, fdelete, fclose, fwrite, fread, fseek,
              Fails, disk
<1>4. CASE restart
  BY <1>4 DEF restart
<1> QED BY <1>1, <1>2, <1>3, <1>4 DEF Next

(* What the three steps that change it do. *)
LEMMA FatFacts ==
  ASSUME TypeInv, LinkInv
  PROVE  /\ free_cluster_chain =>
              /\ pc \in Freeing /\ pc' = pc /\ slot' = slot /\ cur \in Clusters
              /\ fat1' = [fat1 EXCEPT ![cur] = 0]
              /\ cur' = IF fat1[cur] \in Clusters THEN fat1[cur] ELSE 0
              /\ NotTarget(cur)
              /\ \A s \in Slots : IsLive(s) /\ s # slot => item[s].first # cur
              /\ UNCHANGED <<item, fds>>
         /\ alloc_cluster /\ ~Fails =>
              /\ pc = "alloc"
              /\ \E c \in Clusters :
                   /\ fat1[c] = 0 /\ fat1' = [fat1 EXCEPT ![c] = EOC]
                   /\ \/ cur # 0 /\ pc' = "link" /\ fresh' = c /\ UNCHANGED <<cur, first>>
                      \/ cur = 0 /\ pc' = "write" /\ cur' = c /\ first' = c
              /\ UNCHANGED <<item, fds, desc, ahead, at, left>>
         /\ link_cluster =>
              /\ pc = "link" /\ pc' = "write"
              /\ cur \in Clusters /\ fresh \in Clusters /\ fat1[cur] = EOC
              /\ fat1' = [fat1 EXCEPT ![cur] = fresh] /\ cur' = fresh
              /\ UNCHANGED <<item, fds, first, desc, at, left>>
<1>0. /\ fat1 \in [Clusters -> Links]
      /\ \A e \in Links : IsLink(e) <=> e \in Clusters
  BY ConstantFacts DEF TypeInv, TypeOK, DiskOK
<1>1. ASSUME free_cluster_chain
      PROVE  /\ pc \in Freeing /\ pc' = pc /\ slot' = slot /\ cur \in Clusters
             /\ fat1' = [fat1 EXCEPT ![cur] = 0]
             /\ cur' = IF fat1[cur] \in Clusters THEN fat1[cur] ELSE 0
             /\ NotTarget(cur)
             /\ \A s \in Slots : IsLive(s) /\ s # slot => item[s].first # cur
             /\ UNCHANGED <<item, fds>>
  <2>1. /\ pc \in Freeing /\ pc' = pc /\ slot' = slot /\ cur # 0
        /\ fat1' = [fat1 EXCEPT ![cur] = 0]
        /\ cur' = IF IsLink(fat1[cur]) THEN fat1[cur] ELSE 0
        /\ UNCHANGED <<item, fds>>
    BY <1>1 DEF free_cluster_chain, At, SetFatEntry, Freeing, mem
  <2>2. cur \in Clusters
    BY <2>1 DEF TypeInv, TypeOK, CallOK
  <2>3. /\ NotTarget(cur)
        /\ \A s \in Slots : IsLive(s) /\ s # slot => item[s].first # cur
    BY <2>1 DEF LinkInv, FreeingOK, Freeing
  <2> QED BY <1>0, <2>1, <2>2, <2>3
<1>2. ASSUME alloc_cluster, ~Fails
      PROVE  /\ pc = "alloc"
             /\ \E c \in Clusters :
                  /\ fat1[c] = 0 /\ fat1' = [fat1 EXCEPT ![c] = EOC]
                  /\ \/ cur # 0 /\ pc' = "link" /\ fresh' = c /\ UNCHANGED <<cur, first>>
                     \/ cur = 0 /\ pc' = "write" /\ cur' = c /\ first' = c
             /\ UNCHANGED <<item, fds, desc, ahead, at, left>>
  <2>1. PICK c \in FreeClusters : c = Min(FreeClusters)
    BY <1>2, SearchFacts DEF alloc_cluster
  <2>2. c \in Clusters /\ fat1[c] = 0
    BY <2>1 DEF FreeClusters
  <2>3. cur >= 2 <=> cur # 0
    BY ConstantFacts DEF TypeInv, TypeOK, CallOK
  <2>4. /\ pc = "alloc"
        /\ fat1' = [fat1 EXCEPT ![c] = EOC]
        /\ UNCHANGED <<item, fds, desc, ahead, at, left>>
    BY <1>2, <2>1 DEF alloc_cluster, At, SetFatEntry, mem
  <2>5. \/ cur # 0 /\ pc' = "link" /\ fresh' = c /\ UNCHANGED <<cur, first>>
        \/ cur = 0 /\ pc' = "write" /\ cur' = c /\ first' = c
    BY <1>2, <2>1, <2>3 DEF alloc_cluster
  <2> QED BY <2>2, <2>4, <2>5
<1>3. ASSUME link_cluster
      PROVE  /\ pc = "link" /\ pc' = "write"
             /\ cur \in Clusters /\ fresh \in Clusters /\ fat1[cur] = EOC
             /\ fat1' = [fat1 EXCEPT ![cur] = fresh] /\ cur' = fresh
             /\ UNCHANGED <<item, fds, first, desc, at, left>>
  BY <1>3 DEF link_cluster, At, SetFatEntry, mem, TypeInv, TypeOK, CallOK, ControlOK, LinkInv, WritingOK
<1> QED BY <1>1, <1>2, <1>3

LEMMA WalkNext ==
  ASSUME TypeInv, LinkInv, WalkInv, [Next]_vars
  PROVE  WalkInv'
<1>0. /\ fat1 \in [Clusters -> Links]
      /\ first \in {0} \cup Clusters /\ cur \in {0} \cup Clusters
  BY DEF TypeInv, TypeOK, DiskOK, CallOK
<1>1. CASE alloc_cluster /\ ~Fails
  <2>1. PICK c \in Clusters :
          /\ fat1[c] = 0 /\ fat1' = [fat1 EXCEPT ![c] = EOC]
          /\ \/ cur # 0 /\ pc' = "link" /\ fresh' = c /\ UNCHANGED <<cur, first>>
             \/ cur = 0 /\ pc' = "write" /\ cur' = c /\ first' = c
    BY <1>1, FatFacts
  <2>2. CASE cur = 0
    BY <2>1, <2>2, ChainClosed DEF WalkInv
  <2>3. CASE cur # 0
    <3>1. cur \in ChainIn(fat1, first)
      BY <1>1, <2>3, FatFacts DEF WalkInv, Writing
    <3>2. \A x \in Clusters : fat1[x] \in Clusters => fat1'[x] = fat1[x]
      BY <1>0, <2>1, ConstantFacts
    <3>3. ChainIn(fat1, first) \subseteq ChainIn(fat1', first)
      BY <1>0, <3>2, ChainGrows
    <3> QED BY <2>1, <2>3, <3>1, <3>3 DEF WalkInv
  <2> QED BY <2>2, <2>3
<1>2. CASE link_cluster
  <2>1. /\ cur \in Clusters /\ fresh \in Clusters /\ fat1[cur] = EOC /\ pc = "link"
        /\ fat1' = [fat1 EXCEPT ![cur] = fresh] /\ cur' = fresh /\ first' = first
    BY <1>2, FatFacts
  <2>2. cur \in ChainIn(fat1, first)
    BY <2>1, ConstantFacts DEF WalkInv, Writing
  <2>3. \A x \in Clusters : fat1[x] \in Clusters => fat1'[x] = fat1[x]
    BY <1>0, <2>1, ConstantFacts
  <2>4. cur \in ChainIn(fat1', first)
    BY <1>0, <2>2, <2>3, ChainGrows
  <2>5. first \in Clusters
    BY <1>0, <2>2, NoChain
  <2>6. fat1'[cur] = fresh
    BY <1>0, <2>1
  <2>7. fresh \in ChainIn(fat1', first)
    BY <2>1, <2>4, <2>5, <2>6, ChainClosed DEF ClosedIn
  <2> QED BY <2>1, <2>7 DEF WalkInv
<1>3. CASE next_cluster
  <2>1. /\ fat1' = fat1 /\ first' = first /\ pc = "write"
        /\ (IsLink(fat1[cur]) /\ cur' = fat1[cur]) \/ cur' = cur
    BY <1>3 DEF next_cluster, At, disk
  <2>2. cur \in Clusters /\ cur \in ChainIn(fat1, first)
    BY <1>0, <2>1 DEF WalkInv, Writing, TypeInv, ControlOK
  <2>3. first \in Clusters
    BY <1>0, <2>2, NoChain
  <2>4. IsLink(fat1[cur]) => fat1[cur] \in ChainIn(fat1, first)
    BY <1>0, <2>2, <2>3, ChainClosed, ConstantFacts DEF ClosedIn
  <2> QED BY <2>1, <2>2, <2>4 DEF WalkInv
<1>4. ASSUME NEW d \in fds, NEW k \in 1 .. MaxWrite, fwrite(d, k)
      PROVE  WalkInv'
  <2>1. CASE Fails
    BY <2>1 DEF Fails, Done, WalkInv, Writing
  <2>2. CASE ~Fails
    <3>1. cur' = d.item.first /\ first' = d.item.first
      BY <1>4, <2>2 DEF fwrite
    <3>2. d.item.first \in {0} \cup Clusters
      BY DEF TypeInv, TypeOK, MemOK, Descs, Entries
    <3> QED BY <3>1, <3>2, ChainClosed DEF WalkInv
  <2> QED BY <2>1, <2>2
<1>5. CASE UNCHANGED <<fat1, pc, cur, first>>
  BY <1>5 DEF WalkInv
<1>6. CASE pc' \notin Writing
  BY <1>6 DEF WalkInv
<1>7. CASE Step
  <2>1. CASE SetFatEntry2 \/ write_cluster_data
    BY <1>5, <2>1 DEF SetFatEntry2, write_cluster_data, loc
  <2>2. CASE free_cluster_chain
    BY <1>6, <2>2, FatFacts DEF Freeing, Writing
  <2>3. CASE truncated \/ deleted \/ written \/ (alloc_cluster /\ Fails)
    BY <1>6, <2>3 DEF truncated, deleted, written, Fails, Done, Writing
  <2> QED BY <1>1, <1>2, <1>3, <1>7, <2>1, <2>2, <2>3 DEF Step
<1>8. CASE Call
  <2>1. ASSUME NEW n \in Names, fopen_r(n) \/ fopen_w_exists(n) \/ fopen_w_new(n) \/ fdelete(n)
        PROVE  WalkInv'
    BY <1>6, <2>1 DEF fopen_r, fopen_w_exists, fopen_w_new, fdelete, Fails, Done, Writing
  <2>2. ASSUME NEW d \in fds, fclose(d) \/ (\E k \in 1 .. MaxWrite : fread(d, k))
                                \/ (\E o \in 0 .. MaxSize : fseek(d, o))
        PROVE  WalkInv'
    BY <1>6, <2>2 DEF fclose, fread, fseek, Fails, Done, Writing
  <2> QED BY <1>4, <1>8, <2>1, <2>2 DEF Call
<1>9. CASE restart
  BY <1>6, <1>9 DEF restart, Done, Writing
<1>10. CASE UNCHANGED vars
  BY <1>5, <1>10 DEF vars, disk, loc
<1> QED BY <1>7, <1>8, <1>9, <1>10 DEF Next
-----------------------------------------------------------------------------
(* How the directory changes in a step: a file is made, or the entry of a  *)
(* file the running call works on is written or deleted.                   *)
FileMade(n) ==
  /\ SlotsNamed(n) = {} /\ FreeSlots # {}
  /\ item' = [item EXCEPT ![Min(FreeSlots)] = NewEntry(n)]
  /\ total' = IF Min(FreeSlots) >= total THEN Min(FreeSlots) + 1 ELSE total

EntryWritten(s, e) ==
  /\ s \in Busy /\ IsLive(s)
  /\ item' = [item EXCEPT ![s] = e]
  /\ total' = total
  /\ \/ e.st = "live" /\ e.name = item[s].name
     \/ e = Deleted

LEMMA DirectorySteps ==
  ASSUME TypeInv, LinkInv, [Next]_vars
  PROVE  \/ item' = item /\ (total' = total \/ restart)
         \/ \E n \in Names : FileMade(n)
         \/ \E s \in Slots, e \in Entries : EntryWritten(s, e)
<1>1. CASE UNCHANGED vars
  BY <1>1 DEF vars, mem
<1>2. ASSUME truncated \/ deleted
      PROVE  \E s \in Slots, e \in Entries : EntryWritten(s, e)
  <2>1. /\ pc \in Freeing /\ slot \in Slots /\ IsLive(slot) /\ slot \in Busy
        /\ item[slot] \in Entries /\ total' = total
    BY <1>2 DEF truncated, deleted, At, Freeing, LinkInv, FreeingOK, TypeInv, TypeOK, CallOK,
                MemOK, Busy
  <2>2. CASE truncated
    <3> DEFINE e == [item[slot] EXCEPT !.first = 0, !.size = 0]
    <3>1. e \in Entries /\ e.st = "live" /\ e.name = item[slot].name
      BY <2>1 DEF Entries, IsLive
    <3>2. EntryWritten(slot, e)
      BY <2>1, <2>2, <3>1 DEF EntryWritten, truncated, WriteRootDirEntry
    <3> QED BY <2>1, <3>1, <3>2
  <2>3. CASE deleted
    BY <2>1, <2>3, EntryFacts DEF EntryWritten, deleted, WriteRootDirEntry
  <2> QED BY <1>2, <2>2, <2>3
<1>3. ASSUME written
      PROVE  \E s \in Slots, e \in Entries : EntryWritten(s, e)
  <2>1. pc \in Writing /\ pc \notin Freeing /\ total' = total
    BY <1>3 DEF written, At, Writing, Freeing
  <2>2. PICK d \in fds : /\ desc = {d}
                         /\ d.slot \in Slots /\ IsLive(d.slot) /\ item[d.slot] = d.item
                         /\ d.item \in Entries
    BY <2>1, WriterFacts
  <2>3. PICK e : e = [d.item EXCEPT !.first = first,
                                    !.size  = IF at > d.item.size THEN at ELSE d.item.size]
    OBVIOUS
  <2>4. e \in Entries /\ e.st = "live" /\ e.name = d.item.name
    BY <2>2, <2>3 DEF Entries, TypeInv, TypeOK, CallOK, IsLive
  <2>5. d.slot # NONE
    BY <2>2, ConstantFacts DEF NONE
  <2>6. WriteRootDirEntry(d.slot, e)
    BY <1>3, <2>2, <2>3, <2>5 DEF written
  <2>7. d.slot \in Busy
    BY <2>1, <2>2 DEF Busy, Freeing
  <2>8. EntryWritten(d.slot, e)
    BY <2>1, <2>2, <2>4, <2>6, <2>7 DEF EntryWritten, WriteRootDirEntry
  <2> QED BY <2>2, <2>4, <2>8
<1>4. ASSUME NEW n \in Names, fopen_w_new(n)
      PROVE  (item' = item /\ total' = total) \/ FileMade(n)
  BY <1>4 DEF fopen_w_new, FileMade, Fails, mem, WriteRootDirEntry
<1>5. CASE Step
  <2>1. ASSUME SetFatEntry2 \/ free_cluster_chain \/ next_cluster \/ alloc_cluster
               \/ link_cluster \/ write_cluster_data
        PROVE  item' = item /\ total' = total
    BY <2>1 DEF SetFatEntry2, free_cluster_chain, next_cluster, alloc_cluster, link_cluster,
                write_cluster_data, Fails, mem
  <2> QED BY <1>2, <1>3, <1>5, <2>1 DEF Step
<1>6. CASE Call
  <2>1. ASSUME NEW n \in Names, fopen_r(n) \/ fopen_w_exists(n) \/ fdelete(n)
        PROVE  item' = item /\ total' = total
    BY <2>1 DEF fopen_r, fopen_w_exists, fdelete, Fails, mem
  <2>2. ASSUME NEW d \in fds, fclose(d) \/ (\E k \in 1 .. MaxWrite : fwrite(d, k) \/ fread(d, k))
                                \/ (\E o \in 0 .. MaxSize : fseek(d, o))
        PROVE  item' = item /\ total' = total
    BY <2>2 DEF fclose, fwrite, fread, fseek, Fails, mem
  <2> QED BY <1>4, <1>6, <2>1, <2>2 DEF Call
<1>7. CASE restart
  BY <1>7 DEF restart, LinkInv
<1> QED BY <1>1, <1>5, <1>6, <1>7 DEF Next

-----------------------------------------------------------------------------
LEMMA FirstFacts ==
  ASSUME TypeInv, LinkInv, NEW s \in Slots, IsLive(s)
  PROVE  /\ item[s].first \in {0} \cup Clusters
         /\ item[s].first # 0 => NotTarget(item[s].first)
<1>1. item[s].first \in {0} \cup Clusters
  BY DEF TypeInv, TypeOK, MemOK, Entries
<1> QED BY <1>1 DEF LinkInv, NoCrossLink, NotTarget

(* A step leaves the chains alone of the files its call does not work on. *)
LEMMA OtherChains ==
  ASSUME TypeInv, LinkInv, WalkInv, [Next]_vars, NEW s \in Slots, IsLive(s), s \notin Busy
  PROVE  ChainIn(fat1', item[s].first) = ChainIn(fat1, item[s].first)
<1> DEFINE r == item[s].first
<1>0. /\ fat1 \in [Clusters -> Links] /\ first \in {0} \cup Clusters
      /\ r \in {0} \cup Clusters /\ (r # 0 => NotTarget(r))
  BY FirstFacts DEF TypeInv, TypeOK, DiskOK, CallOK
<1>1. CASE fat1' = fat1
  BY <1>1
<1>2. CASE free_cluster_chain
  <2>1. /\ cur \in Clusters /\ fat1' = [fat1 EXCEPT ![cur] = 0] /\ NotTarget(cur)
        /\ pc \in Freeing
        /\ \A t \in Slots : IsLive(t) /\ t # slot => item[t].first # cur
    BY <1>2, FatFacts
  <2>2. r # cur
    BY <2>1 DEF Busy, Freeing
  <2>3. cur \notin ChainIn(fat1, r)
    BY <1>0, <2>1, <2>2, ChainAvoids DEF NotTarget
  <2>4. \A x \in ChainIn(fat1, r) : fat1[x] = fat1'[x]
    BY <1>0, <2>1, <2>3 DEF ChainIn
  <2> QED BY <1>0, <2>4, ChainSame
<1>3. CASE alloc_cluster /\ ~Fails
  <2>1. PICK c \in Clusters : fat1[c] = 0 /\ fat1' = [fat1 EXCEPT ![c] = EOC]
    BY <1>3, FatFacts
  <2>2. \A x \in ChainIn(fat1, r) :
          fat1[x] = fat1'[x] \/ (fat1[x] \notin Clusters /\ fat1'[x] \notin Clusters)
    BY <1>0, <2>1, ConstantFacts DEF ChainIn
  <2> QED BY <1>0, <2>2, ChainSame
<1>4. CASE link_cluster
  <2>1. /\ pc = "link" /\ cur \in Clusters /\ fat1' = [fat1 EXCEPT ![cur] = fresh]
    BY <1>4, FatFacts
  <2>2. pc \in Writing /\ pc \notin Freeing /\ cur # 0
    BY <2>1, ConstantFacts DEF Writing, Freeing
  <2>3. cur \in ChainIn(fat1, first)
    BY <2>2 DEF WalkInv
  <2>4. PICK d \in fds : /\ desc = {d} /\ d.slot \in Slots
                         /\ IsLive(d.slot) /\ item[d.slot] = d.item
                         /\ first # d.item.first => d.item.first = 0 /\ Unowned(first)
    BY <2>2, WriterFacts
  <2>5. s # d.slot
    BY <2>2, <2>4 DEF Busy, Freeing
  <2>6. first # 0 => NotTarget(first) /\ first # r
    <3>1. CASE first = d.item.first
      BY <2>4, <2>5, <3>1, FirstFacts DEF LinkInv, NoCrossLink
    <3>2. CASE first # d.item.first
      BY <2>4, <3>2 DEF Unowned
    <3> QED BY <3>1, <3>2
  <2>7. \A x, y \in Clusters : fat1[x] \in Clusters /\ fat1[x] = fat1[y] => x = y
    BY DEF LinkInv, NoCrossLink
  <2>8. first # 0
    BY <2>3, NoChain
  <2>9. ChainIn(fat1, first) \cap ChainIn(fat1, r) = {}
    BY <1>0, <2>6, <2>7, <2>8, ChainsDisjoint DEF NotTarget
  <2>10. \A x \in ChainIn(fat1, r) : fat1[x] = fat1'[x]
    BY <1>0, <2>1, <2>3, <2>9 DEF ChainIn
  <2> QED BY <1>0, <2>10, ChainSame
<1> QED BY <1>1, <1>2, <1>3, <1>4, FatSteps

LEMMA WalkInvariance == Careful => (Spec => [](TypeInv /\ LinkInv /\ WalkInv))
<1> SUFFICES ASSUME Careful PROVE Spec => [](TypeInv /\ LinkInv /\ WalkInv)
  OBVIOUS
<1>1. Spec => [](TypeInv /\ LinkInv)
  BY LinkInvariance
<1>2. Init => WalkInv
  BY DEF Init, WalkInv, Writing
<1>3. (TypeInv /\ LinkInv) /\ WalkInv /\ [Next]_vars => WalkInv'
  BY WalkNext
<1> QED BY <1>1, <1>2, <1>3, PTL DEF Spec

(***************************************************************************)
(* For polite callers, and wherever the power fails outside the freeing of *)
(* a chain: no step of a call changes the entry of a file it does not work *)
(* on, nor a cluster number in that file's chain.                          *)
(***************************************************************************)
THEOREM Fat16OthersUntouched == Careful => (Spec => OthersUntouched)
<1> SUFFICES ASSUME Careful PROVE Spec => OthersUntouched
  OBVIOUS
<1>1. Spec => [](TypeInv /\ LinkInv /\ WalkInv)
  BY WalkInvariance
<1>2. ASSUME TypeInv, LinkInv, WalkInv, [Next]_vars,
             NEW s \in Slots, s \notin Busy, IsLive(s)
      PROVE  item'[s] = item[s] /\ Chain(item[s].first)' = Chain(item[s].first)
  <2>1. item \in [Slots -> Entries]
    BY <1>2 DEF TypeInv, TypeOK, MemOK
  <2>2. item'[s] = item[s]
    <3>1. CASE item' = item
      BY <3>1
    <3>2. ASSUME NEW n \in Names, FileMade(n) PROVE item'[s] = item[s]
      <4>1. Min(FreeSlots) # s
        BY <1>2, <3>2, SearchFacts DEF FileMade, FreeSlots
      <4> QED BY <2>1, <3>2, <4>1 DEF FileMade
    <3>3. ASSUME NEW t \in Slots, NEW e \in Entries, EntryWritten(t, e) PROVE item'[s] = item[s]
      BY <1>2, <2>1, <3>3 DEF EntryWritten
    <3> QED BY <1>2, <3>1, <3>2, <3>3, DirectorySteps
  <2>3. ChainIn(fat1', item[s].first) = ChainIn(fat1, item[s].first)
    BY <1>2, OtherChains
  <2>4. Chain(item[s].first)' = ChainIn(fat1', item'[s].first)
    BY DEF Chain, Closed, ChainIn, ClosedIn
  <2> QED BY <2>2, <2>3, <2>4, ChainIs
<1>3. (TypeInv /\ LinkInv /\ WalkInv) /\ [Next]_vars =>
        [\A s \in Slots \ (Busy \cup Busy') : IsLive(s) =>
           /\ item'[s] = item[s]
           /\ Chain(item[s].first)' = Chain(item[s].first)]_vars
  BY <1>2
<1> QED BY <1>1, <1>3, PTL DEF Spec, OthersUntouched
-----------------------------------------------------------------------------
(* Every cluster that is taken belongs to a file, if power fails between   *)
(* calls only.                                                             *)

Steady == Polite /\ PowerFails \subseteq {"idle"}

Owned(c) ==
  \E s \in Slots : /\ IsLive(s)
                   /\ pc \in Freeing => s # slot
                   /\ c \in ChainIn(fat1, item[s].first)

(* A taken cluster is a file's, is still to be freed, or is the running    *)
(* write's.                                                                *)
Accounted ==
  \A c \in Clusters : fat1[c] # 0 =>
    \/ Owned(c)
    \/ pc \in Freeing /\ c \in ChainIn(fat1, cur)
    \/ pc \in Writing /\ c \in ChainIn(fat1, first)
    \/ pc = "link" /\ c = fresh

(* A file without clusters is written from its start ... *)
EmptyAtStart ==
  \A d \in fds : d.slot # NONE /\ d.item.first = 0 => d.pos = 0 /\ d.item.size = 0

(* ... and gets one cluster in a call: a second one that is not to be had  *)
(* would leave the first to nobody.                                        *)
OneCluster ==
  pc \in Writing => \A d \in desc : d.item.first = 0 =>
    /\ ahead = 0 /\ at + left <= ClusterSize
    /\ pc # "link"
    /\ pc = "alloc" => cur = 0

LEMMA FirstSet ==
  ASSUME TypeInv, WalkInv, pc \in {"write", "link"}
  PROVE  first # 0
<1>1. cur # 0 /\ pc \in Writing
  BY DEF TypeInv, ControlOK, Writing
<1>2. cur \in ChainIn(fat1, first)
  BY <1>1 DEF WalkInv
<1> QED BY <1>2, NoChain

LEMMA EmptyNext ==
  ASSUME TypeInv, LinkInv, WalkInv, EmptyAtStart, [Next]_vars
  PROVE  EmptyAtStart'
<1>1. CASE fds' \subseteq fds
  BY <1>1 DEF EmptyAtStart
<1>2. ASSUME NEW e, NEW t, fds' = fds \cup NewDescriptor(e, t), t # NONE => e.size = 0
      PROVE  EmptyAtStart'
  <2>1. \A d \in NewDescriptor(e, t) : d.item = e /\ d.pos = 0 /\ d.slot = t
    BY DEF NewDescriptor
  <2> QED BY <1>2, <2>1 DEF EmptyAtStart
<1>3. CASE Step
  <2>1. CASE SetFatEntry2 \/ free_cluster_chain \/ deleted \/ next_cluster \/ alloc_cluster
             \/ link_cluster \/ write_cluster_data
    BY <1>1, <2>1 DEF SetFatEntry2, free_cluster_chain, deleted, next_cluster, alloc_cluster,
                      link_cluster, write_cluster_data, Fails, mem
  <2>2. CASE truncated
    <3>1. item[slot] \in Entries
      BY DEF TypeInv, TypeOK, MemOK, CallOK
    <3> DEFINE e == [item[slot] EXCEPT !.first = 0, !.size = 0]
    <3>2. e.size = 0
      BY <3>1 DEF Entries
    <3>3. fds' = fds \cup NewDescriptor(e, slot)
      BY <2>2 DEF truncated
    <3> QED BY <1>2, <3>2, <3>3
  <2>3. CASE written
    <3>1. PICK d \in fds : desc = {d} /\ d.item \in Entries
      BY <2>3, WriterFacts DEF written, At, Writing
    <3>2. PICK e : e = [d.item EXCEPT !.first = first,
                                      !.size  = IF at > d.item.size THEN at ELSE d.item.size]
      OBVIOUS
    <3>3. PICK f : f = [d EXCEPT !.item = e, !.pos = at]
      OBVIOUS
    <3>4. fds' = (fds \ {d}) \cup {f}
      BY <2>3, <3>1, <3>2, <3>3 DEF written
    <3>5. first # 0
      BY <2>3, FirstSet DEF written, At
    <3>6. f.item.first # 0
      BY <3>1, <3>2, <3>3, <3>5 DEF Entries, TypeInv, TypeOK, MemOK, Descs
    <3> QED BY <3>4, <3>6 DEF EmptyAtStart
  <2> QED BY <1>3, <2>1, <2>2, <2>3 DEF Step
<1>4. CASE Call
  <2>1. ASSUME NEW n \in Names, fopen_w_exists(n) \/ fdelete(n)
        PROVE  fds' = fds
    BY <2>1 DEF fopen_w_exists, fdelete, Fails, mem
  <2>2. ASSUME NEW n \in Names, fopen_r(n)
        PROVE  EmptyAtStart'
    BY <1>1, <1>2, <2>2 DEF fopen_r, Fails, mem
  <2>3. ASSUME NEW n \in Names, fopen_w_new(n)
        PROVE  EmptyAtStart'
    BY <1>1, <1>2, <2>3 DEF fopen_w_new, Fails, mem, NewEntry
  <2>4. ASSUME NEW d \in fds, fclose(d) \/ (\E k \in 1 .. MaxWrite : fwrite(d, k) \/ fread(d, k))
        PROVE  fds' \subseteq fds
    BY <2>4 DEF fclose, fwrite, fread, Fails, mem
  <2>5. ASSUME NEW d \in fds, NEW o \in 0 .. MaxSize, fseek(d, o)
        PROVE  EmptyAtStart'
    <3>1. CASE Fails
      BY <1>1, <3>1 DEF Fails, mem
    <3>2. CASE ~Fails
      <4>1. PICK p : fds' = (fds \ {d}) \cup {[d EXCEPT !.pos = p]}
        BY <2>5, <3>2 DEF fseek
      <4>2. PICK f : f = [d EXCEPT !.pos = p]
        OBVIOUS
      <4>3. f.slot = d.slot /\ f.item = d.item /\ d.item.size \in Nat
        BY <4>2 DEF TypeInv, TypeOK, MemOK, Descs, Entries
      <4>4. o < d.item.size /\ o \in Nat
        BY <2>5, <3>2, UnitsAssumption DEF fseek
      <4>5. d.item.size # 0
        BY <4>3, <4>4
      <4> QED BY <4>1, <4>2, <4>3, <4>5 DEF EmptyAtStart
    <3> QED BY <3>1, <3>2
  <2> QED BY <1>1, <1>4, <2>1, <2>2, <2>3, <2>4, <2>5 DEF Call
<1>5. CASE restart
  BY <1>1, <1>5 DEF restart
<1>6. CASE UNCHANGED vars
  BY <1>1, <1>6 DEF vars, mem
<1> QED BY <1>3, <1>4, <1>5, <1>6 DEF Next

LEMMA OneNext ==
  ASSUME Polite, TypeInv, LinkInv, EmptyAtStart, OneCluster, [Next]_vars
  PROVE  OneCluster'
<1>0. left \in Nat /\ at \in Nat /\ ahead \in Nat /\ ClusterSize \in Nat \ {0}
  BY UnitsAssumption DEF TypeInv, TypeOK, CallOK
<1>1. CASE pc' \notin Writing
  BY <1>1 DEF OneCluster
<1>2. CASE UNCHANGED <<pc, desc, ahead, at, left, cur>>
  BY <1>2 DEF OneCluster
<1>3. ASSUME NEW d \in fds, NEW k \in 1 .. MaxWrite, fwrite(d, k)
      PROVE  OneCluster'
  <2>1. CASE Fails
    BY <1>1, <2>1 DEF Fails, Done, Writing
  <2>2. CASE ~Fails
    <3>1. /\ d.slot # NONE /\ desc' = {d} /\ cur' = d.item.first /\ left' = k /\ at' = d.pos
          /\ d.item.first = 0 => ahead' = 0 /\ pc' = "alloc"
      BY <1>3, <2>2 DEF fwrite
    <3>2. k <= ClusterSize
      BY UnitsAssumption
    <3>3. d.item.first = 0 => at' + left' <= ClusterSize
      BY <1>0, <3>1, <3>2, UnitsAssumption DEF EmptyAtStart
    <3> QED BY <3>1, <3>3 DEF OneCluster
  <2> QED BY <2>1, <2>2
<1>4. CASE next_cluster
  <2>1. pc = "write" /\ ahead > 0 /\ desc' = desc
    BY <1>4 DEF next_cluster, At
  <2>2. \A d \in desc : d.item.first # 0
    BY <1>0, <2>1 DEF OneCluster, Writing
  <2> QED BY <2>1, <2>2 DEF OneCluster
<1>5. CASE alloc_cluster /\ ~Fails
  <2>1. /\ pc = "alloc" /\ UNCHANGED <<desc, ahead, at, left>>
        /\ (cur = 0 /\ pc' = "write") \/ cur # 0
    BY <1>5, FatFacts
  <2> QED BY <2>1 DEF OneCluster, Writing
<1>6. CASE link_cluster
  <2>1. pc = "link" /\ desc' = desc
    BY <1>6, FatFacts
  <2> QED BY <2>1 DEF OneCluster, Writing
<1>7. CASE write_cluster_data
  <2>1. pc = "write" /\ pc' = "write" /\ left > 0 /\ desc' = desc
    BY <1>7 DEF write_cluster_data, At
  <2>2. /\ at' = at + 1 /\ left' = left - 1
        /\ ahead' = IF left > 1 /\ (at % ClusterSize) + 1 = ClusterSize THEN 1 ELSE 0
    BY <1>7 DEF write_cluster_data
  <2>3. ASSUME NEW d \in desc, d.item.first = 0
        PROVE  at' + left' <= ClusterSize /\ ahead' = 0
    <3>1. at + left <= ClusterSize
      BY <1>0, <2>1, <2>3 DEF OneCluster, Writing
    <3>2. at % ClusterSize = at
      BY <1>0, <2>1, <3>1
    <3> QED BY <1>0, <2>1, <2>2, <3>1, <3>2
  <2> QED BY <1>0, <2>1, <2>3 DEF OneCluster
<1>8. CASE Step
  <2>1. CASE SetFatEntry2
    BY <1>2, <2>1 DEF SetFatEntry2, loc
  <2>2. CASE free_cluster_chain
    BY <1>1, <2>2, FatFacts DEF Freeing, Writing
  <2>3. CASE truncated \/ deleted \/ written \/ (alloc_cluster /\ Fails)
    BY <1>1, <2>3 DEF truncated, deleted, written, Fails, Done, Writing
  <2> QED BY <1>4, <1>5, <1>6, <1>7, <1>8, <2>1, <2>2, <2>3 DEF Step
<1>9. CASE Call
  <2>1. ASSUME NEW n \in Names, fopen_r(n) \/ fopen_w_exists(n) \/ fopen_w_new(n) \/ fdelete(n)
        PROVE  OneCluster'
    BY <1>1, <2>1 DEF fopen_r, fopen_w_exists, fopen_w_new, fdelete, Fails, Done, Writing
  <2>2. ASSUME NEW d \in fds, fclose(d) \/ (\E k \in 1 .. MaxWrite : fread(d, k))
                                \/ (\E o \in 0 .. MaxSize : fseek(d, o))
        PROVE  OneCluster'
    BY <1>1, <2>2 DEF fclose, fread, fseek, Fails, Done, Writing
  <2> QED BY <1>3, <1>9, <2>1, <2>2 DEF Call
<1>10. CASE restart
  BY <1>1, <1>10 DEF restart, Done, Writing
<1>11. CASE UNCHANGED vars
  BY <1>2, <1>11 DEF vars, loc
<1> QED BY <1>8, <1>9, <1>10, <1>11 DEF Next

(* Between calls the files have every taken cluster. *)
LEMMA HeldBetween ==
  ASSUME Accounted, pc = "idle", NEW c \in Clusters, fat1[c] # 0
  PROVE  \E s \in Slots : IsLive(s) /\ c \in ChainIn(fat1, item[s].first)
  BY DEF Accounted, Owned, Freeing, Writing

(* A step that leaves the files as they are, whoever had the clusters. *)
LEMMA HeldKeeps ==
  ASSUME pc' \notin Freeing, fat1' = fat1,
         \A s \in Slots : IsLive(s) => IsLive(s)' /\ item'[s].first = item[s].first,
         \A c \in Clusters : fat1[c] # 0 =>
            \E s \in Slots : IsLive(s) /\ c \in ChainIn(fat1, item[s].first)
  PROVE  Accounted'
<1>1. SUFFICES ASSUME NEW c \in Clusters, fat1[c] # 0
               PROVE  Owned(c)'
  BY DEF Accounted
<1>2. PICK s \in Slots : IsLive(s) /\ c \in ChainIn(fat1, item[s].first)
  BY <1>1
<1>3. IsLive(s)' /\ c \in ChainIn(fat1', item'[s].first)
  BY <1>2
<1> QED BY <1>3 DEF Owned

(* The directory gets a file without clusters, or none. *)
LEMMA AccountedCalls ==
  ASSUME TypeInv, LinkInv, Accounted, pc = "idle", fat1' = fat1, pc' \notin Freeing,
         item' = item \/ \E n \in Names : FileMade(n)
  PROVE  Accounted'
<1>1. \A s \in Slots : IsLive(s) => item'[s] = item[s]
  <2>1. ASSUME NEW n \in Names, FileMade(n), NEW s \in Slots, IsLive(s)
        PROVE  item'[s] = item[s]
    <3>1. Min(FreeSlots) # s
      BY <2>1, SearchFacts DEF FileMade, FreeSlots
    <3> QED BY <2>1, <3>1 DEF FileMade, TypeInv, TypeOK, MemOK
  <2> QED BY <2>1
<1>2. \A s \in Slots : IsLive(s) => IsLive(s)' /\ item'[s].first = item[s].first
  BY <1>1 DEF IsLive
<1>3. \A c \in Clusters : fat1[c] # 0 =>
        \E s \in Slots : IsLive(s) /\ c \in ChainIn(fat1, item[s].first)
  BY HeldBetween
<1> QED BY <1>2, <1>3, HeldKeeps

(* What a file had that is to be freed is what freeing starts with. *)
LEMMA AccountedStart ==
  ASSUME Accounted, pc = "idle", UNCHANGED <<fat1, item>>, pc' \in Freeing,
         slot' \in Slots, cur' = item[slot'].first
  PROVE  Accounted'
<1>1. SUFFICES ASSUME NEW c \in Clusters, fat1[c] # 0
               PROVE  Owned(c)' \/ (pc' \in Freeing /\ c \in ChainIn(fat1', cur'))
  BY DEF Accounted
<1>2. PICK s \in Slots : IsLive(s) /\ c \in ChainIn(fat1, item[s].first)
  BY <1>1, HeldBetween
<1>3. CASE s = slot'
  BY <1>2, <1>3
<1>4. CASE s # slot'
  BY <1>2, <1>4 DEF Owned, IsLive
<1> QED BY <1>3, <1>4

LEMMA AccountedFreed ==
  ASSUME TypeInv, LinkInv, Accounted, truncated \/ deleted
  PROVE  Accounted'
<1>1. /\ pc \in Freeing /\ cur = 0 /\ pc' \notin Freeing /\ fat1' = fat1
      /\ \A s \in Slots : s # slot => item'[s] = item[s]
  BY DEF truncated, deleted, At, Done, Freeing, WriteRootDirEntry, TypeInv, TypeOK, MemOK
<1>2. SUFFICES ASSUME NEW c \in Clusters, fat1[c] # 0
               PROVE  Owned(c)'
  BY <1>1 DEF Accounted
<1>3. pc \notin Writing /\ pc # "link" /\ c \notin ChainIn(fat1, cur)
  BY <1>1, NoChain DEF Freeing, Writing
<1>4. PICK s \in Slots : IsLive(s) /\ s # slot /\ c \in ChainIn(fat1, item[s].first)
  BY <1>1, <1>2, <1>3 DEF Accounted, Owned
<1> QED BY <1>1, <1>4 DEF Owned, IsLive

LEMMA AccountedWritten ==
  ASSUME TypeInv, LinkInv, Accounted, written
  PROVE  Accounted'
<1>1. pc = "write" /\ pc \in Writing /\ pc' \notin Freeing /\ fat1' = fat1
  BY DEF written, At, Done, Writing, Freeing
<1>2. PICK d \in fds : /\ desc = {d}
                       /\ d.slot \in Slots /\ IsLive(d.slot) /\ item[d.slot] = d.item
                       /\ d.item \in Entries
                       /\ first # d.item.first => d.item.first = 0
  BY <1>1, WriterFacts
<1>3. PICK e : e = [d.item EXCEPT !.first = first,
                                  !.size  = IF at > d.item.size THEN at ELSE d.item.size]
  OBVIOUS
<1>4. e.st = "live" /\ e.first = first
  BY <1>2, <1>3 DEF Entries, IsLive
<1>5. d.slot # NONE
  BY <1>2, ConstantFacts DEF NONE
<1>6. WriteRootDirEntry(d.slot, e)
  BY <1>2, <1>3, <1>5 DEF written
<1>7. \A s \in Slots : item'[s] = IF s = d.slot THEN e ELSE item[s]
  BY <1>6 DEF WriteRootDirEntry, TypeInv, TypeOK, MemOK
<1>8. SUFFICES ASSUME NEW c \in Clusters, fat1[c] # 0
               PROVE  \E s \in Slots : IsLive(s)' /\ c \in ChainIn(fat1', item'[s].first)
  BY <1>1 DEF Accounted, Owned
<1>9. CASE c \in ChainIn(fat1, first)
  BY <1>1, <1>2, <1>4, <1>7, <1>9 DEF IsLive
<1>10. CASE c \notin ChainIn(fat1, first)
  <2>1. PICK s \in Slots : IsLive(s) /\ c \in ChainIn(fat1, item[s].first)
    BY <1>1, <1>8, <1>10 DEF Accounted, Owned, Freeing
  <2>2. s # d.slot
    BY <1>2, <1>10, <2>1, NoChain
  <2> QED BY <1>1, <1>7, <2>1, <2>2 DEF IsLive
<1> QED BY <1>9, <1>10

(* A write that finds no cluster has not taken one before: OneCluster. *)
LEMMA AccountedFails ==
  ASSUME TypeInv, LinkInv, OneCluster, Accounted, pc = "alloc", Fails
  PROVE  Accounted'
<1>1. fat1' = fat1 /\ item' = item /\ pc' \notin Freeing
  BY DEF Fails, Done, disk, mem, Freeing
<1>2. pc \in Writing /\ pc \notin Freeing /\ pc # "link"
  BY DEF Writing, Freeing
<1>3. PICK d \in fds : /\ desc = {d}
                       /\ d.slot \in Slots /\ IsLive(d.slot) /\ item[d.slot] = d.item
                       /\ first # d.item.first => d.item.first = 0
                       /\ cur = 0 => first = 0
  BY <1>2, WriterFacts
<1>4. first = d.item.first \/ first = 0
  BY <1>2, <1>3 DEF OneCluster
<1>5. ASSUME NEW c \in Clusters, fat1[c] # 0
      PROVE  \E s \in Slots : IsLive(s) /\ c \in ChainIn(fat1, item[s].first)
  BY <1>2, <1>3, <1>4, <1>5, NoChain DEF Accounted, Owned
<1>6. \A s \in Slots : IsLive(s) => IsLive(s)' /\ item'[s].first = item[s].first
  BY <1>1 DEF IsLive
<1> QED BY <1>1, <1>5, <1>6, HeldKeeps

(* A turn of fat16_free_cluster_chain: what is behind the cluster is still *)
(* to be freed.                                                            *)
LEMMA AccountedFree ==
  ASSUME TypeInv, LinkInv, WalkInv, Accounted, [Next]_vars, free_cluster_chain
  PROVE  Accounted'
<1>1. /\ pc \in Freeing /\ pc' = pc /\ slot' = slot /\ cur \in Clusters
      /\ fat1' = [fat1 EXCEPT ![cur] = 0]
      /\ cur' = IF fat1[cur] \in Clusters THEN fat1[cur] ELSE 0
      /\ NotTarget(cur)
      /\ item' = item
  BY FatFacts
<1>2. fat1 \in [Clusters -> Links]
  BY DEF TypeInv, TypeOK, DiskOK
<1>3. SUFFICES ASSUME NEW c \in Clusters, fat1'[c] # 0
               PROVE  Owned(c)' \/ c \in ChainIn(fat1', cur')
  BY <1>1 DEF Accounted
<1>4. c # cur /\ fat1[c] # 0
  BY <1>1, <1>2, <1>3
<1>5. CASE Owned(c)
  <2>1. PICK s \in Slots : IsLive(s) /\ s # slot /\ c \in ChainIn(fat1, item[s].first)
    BY <1>1, <1>5 DEF Owned
  <2>2. s \notin Busy
    BY <1>1, <2>1 DEF Busy, Freeing
  <2>3. c \in ChainIn(fat1', item[s].first)
    BY <2>1, <2>2, OtherChains
  <2> QED BY <1>1, <2>1, <2>3 DEF Owned, IsLive
<1>6. CASE c \in ChainIn(fat1, cur)
  <2>1. fat1[cur] \in Clusters /\ cur' = fat1[cur] /\ c \in ChainIn(fat1, cur')
    BY <1>1, <1>4, <1>6, ChainBehind
  <2>2. cur' # cur /\ cur \notin ChainIn(fat1, cur')
    <3>1. cur' # cur
      BY <1>1, <2>1 DEF NotTarget
    <3> QED BY <1>1, <2>1, <3>1, ChainAvoids DEF NotTarget
  <2>3. \A x \in ChainIn(fat1, cur') : fat1[x] = fat1'[x]
    BY <1>1, <1>2, <2>2 DEF ChainIn
  <2>4. ChainIn(fat1', cur') = ChainIn(fat1, cur')
    BY <2>1, <2>3, ChainSame
  <2> QED BY <2>1, <2>4
<1> QED BY <1>1, <1>3, <1>4, <1>5, <1>6 DEF Accounted, Freeing, Writing

(* The new cluster is the write's, and nothing is taken from the others. *)
LEMMA AccountedGrows ==
  ASSUME TypeInv, LinkInv, WalkInv, Accounted, [Next]_vars,
         (alloc_cluster /\ ~Fails) \/ link_cluster
  PROVE  Accounted'
<1>0. /\ fat1 \in [Clusters -> Links] /\ first \in {0} \cup Clusters
      /\ \A s \in Slots : item[s].first \in {0} \cup Clusters
  BY DEF TypeInv, TypeOK, DiskOK, CallOK, MemOK, Entries
<1>1. pc \in Writing /\ pc' \in Writing /\ pc' \notin Freeing /\ item' = item
  BY FatFacts DEF Writing, Freeing
<1>2. \A x \in Clusters : fat1[x] \in Clusters => fat1'[x] = fat1[x]
  BY <1>0, FatFacts, ConstantFacts
<1>3. \A r \in {0} \cup Clusters : ChainIn(fat1, r) \subseteq ChainIn(fat1', r)
  BY <1>2, ChainGrows
<1>4. ASSUME NEW c \in Clusters, Owned(c)
      PROVE  Owned(c)'
  <2>1. PICK s \in Slots : IsLive(s) /\ c \in ChainIn(fat1, item[s].first)
    BY <1>4 DEF Owned
  <2>2. c \in ChainIn(fat1', item[s].first)
    BY <1>0, <1>3, <2>1
  <2> QED BY <1>1, <2>1, <2>2 DEF Owned, IsLive
<1>5. CASE alloc_cluster /\ ~Fails
  <2>1. PICK n \in Clusters :
          /\ fat1[n] = 0 /\ fat1' = [fat1 EXCEPT ![n] = EOC]
          /\ \/ cur # 0 /\ pc' = "link" /\ fresh' = n /\ UNCHANGED <<cur, first>>
             \/ cur = 0 /\ pc' = "write" /\ cur' = n /\ first' = n
    BY <1>5, FatFacts
  <2>2. SUFFICES ASSUME NEW c \in Clusters, fat1'[c] # 0
                 PROVE  \/ Owned(c)' \/ c \in ChainIn(fat1', first')
                        \/ pc' = "link" /\ c = fresh'
    BY <1>1 DEF Accounted
  <2>3. CASE c = n
    BY <2>1, <2>3, ChainClosed
  <2>4. CASE c # n
    <3>1. fat1[c] # 0
      BY <1>0, <2>1, <2>2, <2>4
    <3>2. Owned(c) \/ c \in ChainIn(fat1, first)
      BY <1>1, <1>5, <3>1, FatFacts DEF Accounted, Freeing, Writing
    <3>3. ASSUME c \in ChainIn(fat1, first) PROVE first' = first
      <4>1. first # 0
        BY <3>3, NoChain
      <4>2. cur # 0
        BY <1>1, <4>1, WriterFacts
      <4> QED BY <2>1, <4>2
    <3> QED BY <1>0, <1>3, <1>4, <3>2, <3>3
  <2> QED BY <2>3, <2>4
<1>6. CASE link_cluster
  <2>1. /\ pc = "link" /\ pc' = "write" /\ cur \in Clusters /\ fresh \in Clusters
        /\ fat1[cur] = EOC /\ fat1' = [fat1 EXCEPT ![cur] = fresh] /\ cur' = fresh
        /\ first' = first
    BY <1>6, FatFacts
  <2>2. fresh \in ChainIn(fat1', first')
    BY <1>1, <2>1, WalkNext, ConstantFacts DEF WalkInv
  <2>3. \A c \in Clusters : fat1'[c] # 0 => fat1[c] # 0
    BY <1>0, <2>1 DEF EOC
  <2>4. SUFFICES ASSUME NEW c \in Clusters, fat1[c] # 0
                 PROVE  Owned(c)' \/ c \in ChainIn(fat1', first')
    BY <1>1, <2>3 DEF Accounted
  <2>5. Owned(c) \/ c \in ChainIn(fat1, first) \/ c = fresh
    BY <1>1, <2>1, <2>4 DEF Accounted, Freeing
  <2> QED BY <1>0, <1>3, <1>4, <2>1, <2>2, <2>5
<1> QED BY <1>5, <1>6

(* A step within the walk of a write. *)
LEMMA AccountedWalk ==
  ASSUME Accounted, UNCHANGED <<fat1, item, slot, first, fresh>>,
         (pc' = pc /\ cur' = cur) \/ (pc = "write" /\ pc' \in {"write", "alloc"})
  PROVE  Accounted'
<1>1. CASE pc' = pc /\ cur' = cur
  BY <1>1 DEF Accounted, Owned, IsLive
<1>2. CASE pc = "write" /\ pc' \in {"write", "alloc"}
  <2>1. /\ pc \in Writing /\ pc' \in Writing /\ pc \notin Freeing /\ pc' \notin Freeing
        /\ pc # "link"
    BY <1>2 DEF Writing, Freeing
  <2> QED BY <2>1 DEF Accounted, Owned, IsLive
<1> QED BY <1>1, <1>2

LEMMA AccountedNext ==
  ASSUME Steady, TypeInv, LinkInv, WalkInv, OneCluster, Accounted, [Next]_vars
  PROVE  Accounted'
<1>1. CASE Step
  <2>1. CASE SetFatEntry2 \/ next_cluster \/ write_cluster_data
    <3>1. UNCHANGED <<fat1, item, slot, first, fresh>>
      BY <2>1 DEF SetFatEntry2, next_cluster, write_cluster_data, mem, loc, disk
    <3>2. (pc' = pc /\ cur' = cur) \/ (pc = "write" /\ pc' \in {"write", "alloc"})
      BY <2>1 DEF SetFatEntry2, next_cluster, write_cluster_data, loc, At
    <3> QED BY <3>1, <3>2, AccountedWalk
  <2>2. CASE alloc_cluster /\ Fails
    BY <2>2, AccountedFails DEF alloc_cluster, At
  <2> QED BY <1>1, <2>1, <2>2, AccountedFree, AccountedGrows, AccountedFreed, AccountedWritten
          DEF Step
<1>2. CASE Call
  <2>1. ASSUME NEW n \in Names, fopen_w_exists(n) \/ (fdelete(n) /\ ~Fails)
        PROVE  Accounted'
    <3>1. /\ pc = "idle" /\ pc' \in Freeing /\ UNCHANGED <<fat1, item>>
          /\ SlotsNamed(n) # {} /\ slot' = Min(SlotsNamed(n)) /\ cur' = item[slot'].first
      BY <2>1 DEF fopen_w_exists, fdelete, At, disk, mem, Freeing
    <3>2. slot' \in Slots
      BY <3>1, SearchFacts DEF SlotsNamed, Scanned
    <3> QED BY <3>1, <3>2, AccountedStart
  <2>2. ASSUME NEW n \in Names, fopen_r(n) \/ fopen_w_new(n) \/ (fdelete(n) /\ Fails)
        PROVE  Accounted'
    <3>1. pc = "idle" /\ fat1' = fat1 /\ pc' \notin Freeing
      BY <2>2 DEF fopen_r, fopen_w_new, fdelete, Fails, Done, At, disk, Freeing
    <3>2. item' = item \/ FileMade(n)
      BY <2>2 DEF fopen_r, fopen_w_new, FileMade, WriteRootDirEntry, Fails, mem
    <3> QED BY <3>1, <3>2, AccountedCalls
  <2>3. ASSUME NEW d \in fds, fclose(d) \/ (\E k \in 1 .. MaxWrite : fwrite(d, k) \/ fread(d, k))
                                \/ (\E o \in 0 .. MaxSize : fseek(d, o))
        PROVE  Accounted'
    <3>1. pc = "idle" /\ fat1' = fat1 /\ item' = item /\ pc' \notin Freeing
      BY <2>3 DEF fclose, fwrite, fread, fseek, Fails, Done, At, disk, mem, Freeing
    <3> QED BY <3>1, AccountedCalls
  <2> QED BY <1>2, <2>1, <2>2, <2>3 DEF Call
<1>3. CASE restart
  <2>1. /\ pc = "idle" /\ fat1' = fat1 /\ item' = item /\ pc' \notin Freeing
    BY <1>3 DEF restart, Done, Steady, LinkInv, Freeing
  <2> QED BY <2>1, AccountedCalls
<1>4. CASE UNCHANGED vars
  BY <1>4, AccountedWalk DEF vars, disk, mem, loc
<1> QED BY <1>1, <1>2, <1>3, <1>4 DEF Next

(***************************************************************************)
(* For polite callers and power failures between calls: whenever no call   *)
(* is running, every cluster that is not free is in the chain of a file.   *)
(* fat16_free_cluster_chain frees all of a chain, and a write that         *)
(* alloc_cluster turns down has taken nothing that only it knows of.       *)
(***************************************************************************)
THEOREM Fat16NoLostClusters == Steady => (Spec => []NoLostClusters)
<1> SUFFICES ASSUME Steady PROVE Spec => []NoLostClusters
  OBVIOUS
<1>1. Careful /\ Polite
  BY DEF Steady, Careful
<1> DEFINE Base == TypeInv /\ LinkInv /\ WalkInv
           Inv  == EmptyAtStart /\ OneCluster /\ Accounted
<1>2. Spec => []Base
  BY <1>1, WalkInvariance
<1>3. Init => Inv
  <2> SUFFICES ASSUME Init PROVE Inv
    OBVIOUS
  <2>1. EmptyAtStart /\ OneCluster
    BY DEF Init, EmptyAtStart, OneCluster, Writing
  <2>2. ASSUME NEW c \in Clusters, fat1[c] # 0 PROVE Owned(c)
    <3>1. c = 2
      BY <2>2 DEF Init
    <3>2. 0 \in Slots /\ IsLive(0) /\ item[0].first = 2 /\ pc \notin Freeing
      BY ConstantFacts DEF Init, IsLive, NewEntry, Freeing
    <3>3. c \in ChainIn(fat1, 2)
      BY <3>1, ChainClosed
    <3> QED BY <3>2, <3>3 DEF Owned
  <2> QED BY <2>1, <2>2 DEF Accounted
<1>4. Base /\ Inv /\ [Next]_vars => Inv'
  BY <1>1, EmptyNext, OneNext, AccountedNext
<1>5. Inv => NoLostClusters
  <2>1. ASSUME Inv, At("idle"), NEW c \in Clusters, fat1[c] # 0
        PROVE  \E s \in Slots : IsLive(s) /\ c \in Chain(item[s].first)
    <3>1. PICK s \in Slots : IsLive(s) /\ c \in ChainIn(fat1, item[s].first)
      BY <2>1, HeldBetween DEF At
    <3> QED BY <3>1, ChainIs
  <2> QED BY <2>1 DEF NoLostClusters
<1> QED BY <1>2, <1>3, <1>4, <1>5, PTL DEF Spec
-----------------------------------------------------------------------------
(* The root directory. *)

(* No file is behind the entry that ends the scans. *)
Packed == \A s \in Slots : IsLive(s) => s \in Scanned

(* A file is made in the first slot that is free: those before are taken. *)
LEMMA FirstFree ==
  ASSUME FreeSlots # {}
  PROVE  /\ Min(FreeSlots) \in Slots /\ ~IsLive(Min(FreeSlots))
         /\ \A t \in Slots : t < Min(FreeSlots) => IsLive(t)
<1>1. FreeSlots \subseteq Slots /\ FreeSlots \subseteq Nat
  BY ConstantFacts DEF FreeSlots
<1>2. Min(FreeSlots) \in FreeSlots /\ \A t \in FreeSlots : Min(FreeSlots) <= t
  BY <1>1, MinIn
<1>3. ASSUME NEW t \in Slots, t < Min(FreeSlots) PROVE t \notin FreeSlots
  <2>1. PICK m \in Nat : m = Min(FreeSlots)
    BY <1>1, <1>2
  <2>2. t \in Nat /\ t < m
    BY <1>3, <2>1, ConstantFacts
  <2>3. t \in FreeSlots => m <= t
    BY <1>2, <2>1
  <2> QED BY <2>2, <2>3
<1> QED BY <1>2, <1>3 DEF FreeSlots

LEMMA PackedNext ==
  ASSUME TypeInv, LinkInv, Packed, [Next]_vars
  PROVE  Packed'
<1>0. item \in [Slots -> Entries] /\ Slots \subseteq Nat
  BY ConstantFacts DEF TypeInv, TypeOK, MemOK
<1>1. CASE item' = item
  BY <1>1 DEF Packed, Scanned, IsLive
<1>2. \A s \in Slots : 0 .. s \subseteq Slots
  BY SlotsAssumption DEF Slots
<1>3. ASSUME NEW n \in Names, FileMade(n) PROVE Packed'
  <2>1. PICK m \in Slots : /\ m = Min(FreeSlots) /\ \A t \in Slots : t < m => IsLive(t)
    BY <1>3, FirstFree DEF FileMade
  <2>2. \A t \in Slots : item'[t] = IF t = m THEN NewEntry(n) ELSE item[t]
    BY <1>0, <1>3, <2>1 DEF FileMade
  <2>3. NewEntry(n).st = "live"
    BY DEF NewEntry
  <2>4. SUFFICES ASSUME NEW s \in Slots, IsLive(s)', NEW t \in 0 .. s
                 PROVE  item'[t].st # "end"
    BY DEF Packed, Scanned
  <2>5. t \in Slots /\ t <= s
    BY <1>0, <1>2
  <2>6. CASE s # m
    <3>1. IsLive(s)
      BY <2>2, <2>4, <2>6 DEF IsLive
    <3>2. item[t].st # "end"
      BY <3>1 DEF Packed, Scanned
    <3> QED BY <2>2, <2>3, <2>5, <3>2
  <2>7. CASE s = m /\ t # m
    <3>1. t < m
      BY <1>0, <2>5, <2>7
    <3>2. IsLive(t)
      BY <2>1, <2>5, <3>1
    <3> QED BY <2>2, <2>5, <2>7, <3>2 DEF IsLive
  <2>8. CASE t = m
    BY <2>2, <2>3, <2>8
  <2> QED BY <2>6, <2>7, <2>8
<1>4. ASSUME NEW m \in Slots, NEW e \in Entries, EntryWritten(m, e) PROVE Packed'
  <2>1. \A t \in Slots : item'[t] = IF t = m THEN e ELSE item[t]
    BY <1>0, <1>4 DEF EntryWritten
  <2>2. IsLive(m) /\ e.st # "end"
    BY <1>4 DEF EntryWritten, Deleted
  <2>3. SUFFICES ASSUME NEW s \in Slots, IsLive(s)', NEW t \in 0 .. s
                 PROVE  item'[t].st # "end"
    BY DEF Packed, Scanned
  <2>4. IsLive(s)
    BY <2>1, <2>2, <2>3 DEF IsLive
  <2>5. item[t].st # "end" /\ t \in Slots
    BY <1>2, <2>4 DEF Packed, Scanned
  <2> QED BY <2>1, <2>2, <2>5
<1> QED BY <1>1, <1>3, <1>4, DirectorySteps

LEMMA PackedInvariance == Careful => (Spec => [](TypeInv /\ LinkInv /\ Packed))
<1> SUFFICES ASSUME Careful PROVE Spec => [](TypeInv /\ LinkInv /\ Packed)
  OBVIOUS
<1>1. Spec => [](TypeInv /\ LinkInv)
  BY LinkInvariance
<1>2. Init => Packed
  <2>1. ASSUME Init, NEW s \in Slots, IsLive(s), NEW t \in 0 .. s
        PROVE  item[t].st # "end"
    <3>1. s = 0
      BY <2>1 DEF Init, IsLive, End
    <3>2. t = 0
      BY <3>1
    <3> QED BY <2>1, <3>1, <3>2 DEF IsLive
  <2> QED BY <2>1 DEF Packed, Scanned
<1>3. (TypeInv /\ LinkInv) /\ Packed /\ [Next]_vars => Packed'
  BY PackedNext
<1> QED BY <1>1, <1>2, <1>3, PTL DEF Spec

(***************************************************************************)
(* For polite callers, power failures outside the freeing of a chain, and  *)
(* names that a directory keeps as they are: no two files have the same    *)
(* name.  The scan before a file is made goes far enough (Packed), and     *)
(* nothing that is written over an entry later changes its name.           *)
(***************************************************************************)
THEOREM Fat16UniqueNames ==
  Careful /\ (\A n \in Names : to83[n] = n) => (Spec => []UniqueNames)
<1> SUFFICES ASSUME Careful, \A n \in Names : to83[n] = n PROVE Spec => []UniqueNames
  OBVIOUS
<1>1. Spec => [](TypeInv /\ LinkInv /\ Packed)
  BY PackedInvariance
<1>2. Init => UniqueNames
  BY DEF Init, UniqueNames, IsLive, End
<1>3. (TypeInv /\ LinkInv /\ Packed) /\ UniqueNames /\ [Next]_vars => UniqueNames'
  <2> SUFFICES ASSUME TypeInv, LinkInv, Packed, UniqueNames, [Next]_vars PROVE UniqueNames'
    OBVIOUS
  <2>0. item \in [Slots -> Entries]
    BY DEF TypeInv, TypeOK, MemOK
  <2>1. CASE item' = item
    BY <2>1 DEF UniqueNames, IsLive
  <2>2. ASSUME NEW n \in Names, FileMade(n) PROVE UniqueNames'
    <3>1. PICK m \in Slots : m = Min(FreeSlots) /\ ~IsLive(m)
      BY <2>2, FirstFree DEF FileMade
    <3>2. \A t \in Slots : item'[t] = IF t = m THEN NewEntry(n) ELSE item[t]
      BY <2>0, <2>2, <3>1 DEF FileMade
    <3>3. NewEntry(n).name = n
      BY DEF NewEntry
    <3>4. \A t \in Slots : IsLive(t) => item[t].name # n
      BY <2>2 DEF FileMade, SlotsNamed, Packed
    <3> QED BY <3>2, <3>3, <3>4 DEF UniqueNames, IsLive
  <2>3. ASSUME NEW m \in Slots, NEW e \in Entries, EntryWritten(m, e) PROVE UniqueNames'
    <3>1. \A t \in Slots : item'[t] = IF t = m THEN e ELSE item[t]
      BY <2>0, <2>3 DEF EntryWritten
    <3>2. IsLive(m) /\ (e.st = "live" => e.name = item[m].name)
      BY <2>3 DEF EntryWritten, Deleted
    <3> QED BY <3>1, <3>2 DEF UniqueNames, IsLive
  <2> QED BY <2>1, <2>2, <2>3, DirectorySteps
<1> QED BY <1>1, <1>2, <1>3, PTL DEF Spec

(***************************************************************************)
(* For polite callers and as long as the machine is not restarted: total   *)
(* is above every slot in use, so that the lookup of fopen for reading     *)
(* reaches every file.  (fat16_get_total_items_for_directory does not      *)
(* restore this after a restart; see the run fat16_lookup.)                *)
(***************************************************************************)
THEOREM Fat16LookupReaches == Polite /\ PowerFails = {} => (Spec => []LookupReaches)
<1> SUFFICES ASSUME Polite, PowerFails = {} PROVE Spec => []LookupReaches
  OBVIOUS
<1>1. Spec => [](TypeInv /\ LinkInv)
  BY LinkInvariance DEF Careful
<1>2. Init => LookupReaches
  BY DEF Init, LookupReaches, IsLive, End
<1>3. (TypeInv /\ LinkInv) /\ LookupReaches /\ [Next]_vars => LookupReaches'
  <2> SUFFICES ASSUME TypeInv, LinkInv, LookupReaches, [Next]_vars PROVE LookupReaches'
    OBVIOUS
  <2>0. item \in [Slots -> Entries] /\ total \in Nat /\ Slots \subseteq Nat
    BY ConstantFacts, SlotsAssumption DEF TypeInv, TypeOK, MemOK
  <2>1. ~restart
    BY DEF restart
  <2>2. CASE item' = item /\ total' = total
    BY <2>2 DEF LookupReaches, IsLive
  <2>3. ASSUME NEW n \in Names, FileMade(n) PROVE LookupReaches'
    <3>1. PICK m \in Slots : m = Min(FreeSlots)
      BY <2>3, FirstFree DEF FileMade
    <3>2. \A t \in Slots : item'[t] = IF t = m THEN NewEntry(n) ELSE item[t]
      BY <2>0, <2>3, <3>1 DEF FileMade
    <3>3. m < total' /\ total <= total' /\ total' \in Nat
      BY <2>0, <2>3, <3>1 DEF FileMade
    <3>4. SUFFICES ASSUME NEW t \in Slots, t # m, IsLive(t) PROVE t < total'
      BY <3>2, <3>3 DEF LookupReaches, IsLive
    <3>5. t < total
      BY <3>4 DEF LookupReaches
    <3> QED BY <2>0, <3>3, <3>5
  <2>4. ASSUME NEW m \in Slots, NEW e \in Entries, EntryWritten(m, e) PROVE LookupReaches'
    <3>1. \A t \in Slots : item'[t] = IF t = m THEN e ELSE item[t]
      BY <2>0, <2>4 DEF EntryWritten
    <3>2. IsLive(m) /\ total' = total
      BY <2>4 DEF EntryWritten
    <3> QED BY <3>1, <3>2 DEF LookupReaches, IsLive
  <2> QED BY <2>1, <2>2, <2>3, <2>4, DirectorySteps
<1> QED BY <1>1, <1>2, <1>3, PTL DEF Spec

(***************************************************************************)
(* For polite callers, and wherever the power fails outside the freeing of *)
(* a chain: the names that fat16_readdir gives for 0, 1, ... are those of  *)
(* the files on disk, all of them, and NoName comes right after the last.  *)
(***************************************************************************)
THEOREM Fat16ListsAll == Careful => (Spec => []ListsAll)
<1> SUFFICES ASSUME Careful PROVE Spec => []ListsAll
  OBVIOUS
<1>1. Spec => [](TypeInv /\ LinkInv /\ Packed)
  BY PackedInvariance
<1>2. TypeInv /\ LinkInv /\ Packed => ListsAll
  <2> SUFFICES ASSUME TypeInv, LinkInv, Packed PROVE ListsAll
    OBVIOUS
  <2> DEFINE L == {s \in Slots : dir[s].st = "live"}
             k == Cardinality(L)
             Hit(i) == {s \in Scanned : /\ IsLive(s)
                                        /\ i = Cardinality({t \in Scanned : t < s /\ IsLive(t)})}
  <2>0. L \subseteq 0 .. (NSlots - 1) /\ NSlots \in Nat /\ L \subseteq Nat
    BY SlotsAssumption, ConstantFacts DEF Slots
  <2>1. L = {s \in Scanned : IsLive(s)} /\ \A s \in L : s \in Slots /\ IsLive(s)
    BY DEF Packed, Scanned, LinkInv, IsLive
  <2>2. \A s : {t \in Scanned : t < s /\ IsLive(t)} = Below(L, s)
    BY <2>1 DEF Below
  <2>3. \A i : Hit(i) = {s \in L : i = Cardinality(Below(L, s))}
    BY <2>1, <2>2, Zenon
  <2>4. \A i : readdir(i) = IF Hit(i) = {} THEN NoName ELSE item[Min(Hit(i))].name
    BY DEF readdir
  <2> HIDE DEF L, Hit
  <2>5. /\ k \in Nat
        /\ \A s \in L : Cardinality(Below(L, s)) \in 0 .. (k - 1)
        /\ \A s, t \in L : Cardinality(Below(L, s)) = Cardinality(Below(L, t)) => s = t
        /\ \A i \in 0 .. (k - 1) : \E s \in L : i = Cardinality(Below(L, s))
    BY <2>0, RankOnto
  <2>6. ASSUME NEW i \in 0 .. (k - 1)
        PROVE  \E s \in L : readdir(i) = dir[s].name
    <3>1. Hit(i) # {} /\ Hit(i) \subseteq L
      BY <2>3, <2>5
    <3>2. Min(Hit(i)) \in L
      BY <2>0, <3>1, MinIn
    <3> QED BY <2>4, <3>1, <3>2 DEF LinkInv
  <2>7. ASSUME NEW s \in L
        PROVE  \E i \in 0 .. (k - 1) : readdir(i) = dir[s].name
    <3> DEFINE i == Cardinality(Below(L, s))
    <3>1. i \in 0 .. (k - 1) /\ Hit(i) = {s}
      BY <2>3, <2>5
    <3>2. Min({s}) \in {s}
      BY <2>0, MinIn
    <3>3. readdir(i) = dir[s].name
      BY <2>4, <3>1, <3>2 DEF LinkInv
    <3> QED BY <3>1, <3>3
  <2>8. readdir(k) = NoName
    <3>1. k \notin 0 .. (k - 1)
      BY <2>5
    <3>2. Hit(k) = {}
      BY <2>3, <2>5, <3>1
    <3> QED BY <2>4, <3>2
  <2>9. {readdir(i) : i \in 0 .. (k - 1)} = {dir[s].name : s \in L}
    BY <2>6, <2>7
  <2> QED BY <2>8, <2>9 DEF ListsAll, L
<1> QED BY <1>1, <1>2, PTL
=============================================================================
