--------------------------- MODULE StorageProofs ---------------------------
(***************************************************************************)
(* Theorems on Storage, for every size of sectors, entries and clusters    *)
(* and every layout of the volume.                                         *)
(***************************************************************************)
EXTENDS Storage, Extrema, SequenceTheorems

(* ----- Arithmetic of positions ----- *)

(* What is a multiple and a rest has this quotient and this rest. *)
LEMMA DivIs ==
  ASSUME NEW b \in Nat \ {0}, NEW x \in Nat, NEW r \in 0 .. (b - 1)
  PROVE  (b * x + r) \div b = x /\ (b * x + r) % b = r
<1> DEFINE a == b * x + r
<1>1. b * x \in Nat /\ a \in Nat
  OBVIOUS
<1>2. a = b * (a \div b) + (a % b) /\ a \div b \in Nat /\ a % b \in 0 .. (b - 1)
  BY <1>1, DivMod
<1>3. PICK q \in Nat : q = a \div b
  BY <1>2
<1>4. PICK s \in 0 .. (b - 1) : s = a % b
  BY <1>2
<1>5. b * x + r = b * q + s
  BY <1>2, <1>3, <1>4
<1>6. r = s
  BY <1>5, ModUnique
<1>7. b * x = b * q
  BY <1>5, <1>6, <1>1
<1>8. x = q
  BY <1>7
<1> QED BY <1>3, <1>4, <1>6, <1>8

(* Something of a size that divides the sector's, put at a multiple of     *)
(* that size, does not cross the end of a sector.                          *)
LEMMA AlignedFits ==
  ASSUME NEW b \in Nat \ {0}, NEW e \in Nat \ {0}, b % e = 0, NEW w \in Nat
  PROVE  ((e * w) % b) + e <= b
<1>1. PICK q \in Nat : q = b \div e /\ b = e * q
  BY DivMod
<1>2. e * w \in Nat
  OBVIOUS
<1>3. PICK d \in Nat, r \in 0 .. (b - 1) : e * w = b * d + r /\ r = (e * w) % b
  BY <1>2, DivMod
<1>4. PICK p \in Nat : p = q * d
  OBVIOUS
<1>5. b * d = e * p
  BY <1>1, <1>4
<1>6. r = e * (w - p) /\ w - p \in Int
  BY <1>3, <1>5
<1>7. w - p < q
  BY <1>1, <1>3, <1>6
<1>8. PICK u \in Nat : u = q - (w - p) - 1
  BY <1>6, <1>7
<1>9. e * u \in Nat /\ b = r + e + e * u
  BY <1>1, <1>6, <1>8
<1> QED BY <1>3, <1>9

-----------------------------------------------------------------------------
(* ----- The layout of the volume ----- *)

(* What the assumptions say of the sizes. *)
LEMMA Sizes ==
  /\ SectorSize \in Nat \ {0} /\ EntrySize \in Nat \ {0} /\ ItemSize \in Nat \ {0}
  /\ HeaderSize \in Nat \ {0} /\ HeaderSize <= SectorSize
  /\ SectorSize % EntrySize = 0 /\ SectorSize % ItemSize = 0
  /\ Reserved \in Nat \ {0} /\ SectorsPerFat \in Nat \ {0} /\ RootEntries \in Nat \ {0}
  /\ SectorsPerCluster \in Nat \ {0} /\ NClusters \in Nat \ {0}
  BY SizeAssumption, VolumeAssumption

(* The parts of the volume in sectors, one behind the other. *)
LEMMA Layout ==
  /\ RootSize \in Nat \ {0} /\ RootSize = SectorSize * (RootSize \div SectorSize)
  /\ RootSize \div SectorSize \in Nat \ {0}
  /\ RootSector \in Nat /\ RootSector = 2 * SectorsPerFat + Reserved
  /\ EndingSector \in Nat /\ EndingSector = RootSector + RootSize \div SectorSize
  /\ NClusters * SectorsPerCluster \in Nat
  /\ TotalSectors \in Nat /\ TotalSectors = EndingSector + NClusters * SectorsPerCluster
  /\ EndingSector <= TotalSectors /\ TotalSectors > 0
<1>1. RootSize \in Nat \ {0} /\ RootSize % SectorSize = 0
  BY Sizes, VolumeAssumption DEF RootSize
<1>2. PICK d \in Nat : d = RootSize \div SectorSize /\ RootSize = SectorSize * d
  <2>1. /\ RootSize = SectorSize * (RootSize \div SectorSize) + (RootSize % SectorSize)
        /\ RootSize \div SectorSize \in Nat
    BY <1>1, Sizes, DivMod
  <2>2. PICK d \in Nat : d = RootSize \div SectorSize
    BY <2>1
  <2>3. SectorSize * d \in Nat
    BY Sizes
  <2> QED BY <1>1, <2>1, <2>2, <2>3
<1>3. d # 0
  BY <1>1, <1>2, Sizes
<1>4. RootSector \in Nat /\ RootSector = 2 * SectorsPerFat + Reserved /\ RootSector > 0
  BY Sizes DEF RootSector
<1>5. EndingSector = RootSector + d
  BY <1>2 DEF EndingSector
<1>6. PICK w \in Nat : w = NClusters * SectorsPerCluster
  BY Sizes
<1>7. TotalSectors = EndingSector + w
  BY <1>6 DEF TotalSectors
<1> QED BY <1>1, <1>2, <1>3, <1>4, <1>5, <1>6, <1>7 DEF EndingSector, TotalSectors

(* What fat16.c asks of a stream: bytes of the volume; if it is a read,    *)
(* from the start of a sector or within one; if it writes an entry, within *)
(* one sector.                                                             *)
CallOK(c) ==
  /\ c.op \in {"read", "write"} /\ c.at \in Nat /\ c.len \in Nat \ {0}
  /\ c.at + c.len <= TotalSectors * SectorSize
  /\ c.op = "read" => c.at % SectorSize = 0 \/ (c.at % SectorSize) + c.len <= SectorSize
  /\ c.kind = "entry" => (c.at % SectorSize) + c.len <= SectorSize

(* An aligned range of e bytes in the sectors from s on is such a call. *)
LEMMA FitsSector ==
  ASSUME NEW e \in Nat \ {0}, SectorSize % e = 0, NEW s \in Nat, NEW i \in Nat
  PROVE  ((s * SectorSize + i * e) % SectorSize) + e <= SectorSize
<1>1. PICK q \in Nat : SectorSize = e * q
  <2>1. SectorSize = e * (SectorSize \div e) + (SectorSize % e) /\ SectorSize \div e \in Nat
    BY Sizes, DivMod
  <2>2. PICK q \in Nat : q = SectorSize \div e
    BY <2>1
  <2>3. e * q \in Nat
    OBVIOUS
  <2>4. SectorSize = e * q + 0
    BY <2>1, <2>2
  <2>5. SectorSize = e * q
    BY <2>3, <2>4
  <2> QED BY <2>5
<1>2. PICK w \in Nat : w = s * q
  OBVIOUS
<1>3. s * SectorSize = e * w
  BY <1>1, <1>2
<1>4. PICK v \in Nat : v = w + i
  OBVIOUS
<1>5. s * SectorSize + i * e = e * v
  BY <1>3, <1>4
<1>6. ((e * v) % SectorSize) + e <= SectorSize
  BY AlignedFits, Sizes
<1> QED BY <1>5, <1>6

(* Sectors in order are bytes in order. *)
LEMMA SectorsInOrder ==
  ASSUME NEW s \in Nat, NEW t \in Nat, s <= t
  PROVE  s * SectorSize \in Nat /\ t * SectorSize \in Nat /\ s * SectorSize <= t * SectorSize
<1>1. PICK d \in Nat : t = s + d
  <2>1. t - s \in Nat /\ t = s + (t - s)
    OBVIOUS
  <2> QED BY <2>1
<1>2. t * SectorSize = s * SectorSize + d * SectorSize
  BY <1>1, Sizes
<1>3. s * SectorSize \in Nat /\ d * SectorSize \in Nat
  BY Sizes
<1> QED BY <1>2, <1>3

(* A position on the volume fits in an int. *)
LEMMA FitsInt ==
  ASSUME NEW x \in Nat, x <= TotalSectors * SectorSize
  PROVE  int32(x) = x
<1>1. PICK b \in Nat : b = IntBound /\ x < b
  <2>1. TotalSectors * SectorSize \in Nat
    BY Sizes, Layout
  <2> QED BY <2>1, PositionAssumption
<1>2. x + b \in 0 .. (2 * b - 1) /\ 2 * b \in Nat \ {0}
  BY <1>1
<1>3. (x + b) % (2 * b) = x + b
  BY <1>2
<1>4. (x + b) - b = x
  BY <1>1
<1> QED BY <1>1, <1>3, <1>4 DEF int32

(* fat16_set_fat_entry and fat16_get_fat_entry. *)
LEMMA FatCalls ==
  ASSUME NEW o \in {"read", "write"}, NEW c \in Clusters, NEW k \in Copies
  PROVE  CallOK(Access(o, "entry", fat_position(c, k), EntrySize))
<1>0. c \in Nat /\ c <= NClusters + 1 /\ k \in {0, 1}
  BY Sizes DEF Clusters, Copies
<1>1. PICK s \in Nat : s = Reserved + k * SectorsPerFat /\ s + SectorsPerFat <= RootSector
  <2>1. k = 0 \/ k = 1
    BY <1>0
  <2>2. CASE k = 0
    BY <2>2, Sizes, Layout
  <2>3. CASE k = 1
    BY <2>3, Sizes, Layout
  <2> QED BY <2>1, <2>2, <2>3
<1>2. PICK p \in Nat : p = c * EntrySize
  BY <1>0, Sizes
<1>3. p + EntrySize <= SectorsPerFat * SectorSize
  <2>1. PICK d \in Nat : NClusters + 2 = c + 1 + d
    <3>1. NClusters + 1 - c \in Nat /\ NClusters + 2 = c + 1 + (NClusters + 1 - c)
      BY <1>0, Sizes
    <3> QED BY <3>1
  <2>2. (NClusters + 2) * EntrySize = p + EntrySize + d * EntrySize
    BY <1>0, <1>2, <2>1, Sizes
  <2>3. d * EntrySize \in Nat /\ SectorsPerFat * SectorSize \in Nat
    BY Sizes
  <2> QED BY <2>2, <2>3, VolumeAssumption, Sizes
<1>4. /\ (s + SectorsPerFat) * SectorSize = s * SectorSize + SectorsPerFat * SectorSize
      /\ s * SectorSize \in Nat /\ SectorsPerFat * SectorSize \in Nat
  BY Sizes
<1>5. (s + SectorsPerFat) * SectorSize <= TotalSectors * SectorSize
      /\ TotalSectors * SectorSize \in Nat
  <2>1. s + SectorsPerFat \in Nat /\ s + SectorsPerFat <= TotalSectors
    BY <1>1, Sizes, Layout
  <2> QED BY <2>1, Layout, SectorsInOrder
<1>6. (s * SectorSize + p) + EntrySize <= TotalSectors * SectorSize
  BY <1>3, <1>4, <1>5, Sizes
<1>7. fat_position(c, k) = s * SectorSize + p /\ s * SectorSize + p \in Nat
  <2>1. s * SectorSize + p \in Nat /\ s * SectorSize + p <= TotalSectors * SectorSize
    BY <1>4, <1>5, <1>6, Sizes
  <2>2. int32(s * SectorSize + p) = s * SectorSize + p
    BY <2>1, FitsInt
  <2> QED BY <1>1, <1>2, <2>1, <2>2 DEF fat_position
<1>8. ((s * SectorSize + p) % SectorSize) + EntrySize <= SectorSize
  BY <1>0, <1>2, FitsSector, Sizes
<1>9. o \in {"read", "write"} /\ EntrySize \in Nat \ {0}
  BY Sizes
<1> DEFINE a == s * SectorSize + p
<1> HIDE DEF a
<1>10. a \in Nat /\ a + EntrySize <= TotalSectors * SectorSize
       /\ (a % SectorSize) + EntrySize <= SectorSize /\ fat_position(c, k) = a
  BY <1>6, <1>7, <1>8 DEF a
<1> QED BY <1>9, <1>10 DEF CallOK, Access

(* fat16_write_root_dir_entry and the loops over the directory. *)
LEMMA ItemCalls ==
  ASSUME NEW o \in {"read", "write"}, NEW kind, NEW i \in Items
  PROVE  CallOK(Access(o, kind, item_position(i), ItemSize))
<1>0. i \in Nat /\ i <= RootEntries - 1
  BY Sizes DEF Items
<1>1. PICK p \in Nat : p = i * ItemSize
  BY <1>0, Sizes
<1>2. p + ItemSize <= RootSize
  <2>1. PICK d \in Nat : RootEntries = i + 1 + d
    <3>1. RootEntries - 1 - i \in Nat /\ RootEntries = i + 1 + (RootEntries - 1 - i)
      BY <1>0, Sizes
    <3> QED BY <3>1
  <2>2. RootEntries * ItemSize = p + ItemSize + d * ItemSize
    BY <1>0, <1>1, <2>1, Sizes
  <2>3. d * ItemSize \in Nat
    BY Sizes
  <2> QED BY <2>2, <2>3, Sizes DEF RootSize
<1>3. /\ EndingSector * SectorSize = RootSector * SectorSize + RootSize
      /\ RootSector * SectorSize \in Nat
  BY Sizes, Layout
<1>4. /\ EndingSector * SectorSize <= TotalSectors * SectorSize
      /\ TotalSectors * SectorSize \in Nat
  BY Layout, SectorsInOrder
<1>5. (RootSector * SectorSize + p) + ItemSize <= TotalSectors * SectorSize
  BY <1>2, <1>3, <1>4, Sizes, Layout
<1>6. item_position(i) = RootSector * SectorSize + p /\ RootSector * SectorSize + p \in Nat
  <2>1. RootSector * SectorSize + p \in Nat /\ RootSector * SectorSize + p <= TotalSectors * SectorSize
    BY <1>3, <1>4, <1>5, Sizes
  <2>2. int32(RootSector * SectorSize + p) = RootSector * SectorSize + p
    BY <2>1, FitsInt
  <2> QED BY <1>1, <2>1, <2>2 DEF item_position
<1>7. ((RootSector * SectorSize + p) % SectorSize) + ItemSize <= SectorSize
  BY <1>0, <1>1, FitsSector, Sizes, Layout
<1> DEFINE a == RootSector * SectorSize + p
<1> HIDE DEF a
<1>8. a \in Nat /\ a + ItemSize <= TotalSectors * SectorSize
      /\ (a % SectorSize) + ItemSize <= SectorSize /\ item_position(i) = a
  BY <1>5, <1>6, <1>7 DEF a
<1> QED BY <1>8, Sizes DEF CallOK, Access

(* Bytes in the clusters. *)
LEMMA DataCalls ==
  ASSUME NEW c \in Clusters, NEW off \in Nat, NEW len \in Nat \ {0}, off + len <= ClusterSize
  PROVE  /\ data_position(c, off) \in Nat
         /\ data_position(c, off) + len <= TotalSectors * SectorSize
         /\ data_position(c, 0) % SectorSize = 0
<1>0. c - 2 \in Nat /\ c - 2 <= NClusters - 1
  BY Sizes DEF Clusters
<1>1. PICK i \in Nat, d \in Nat : i = c - 2 /\ NClusters = i + 1 + d
  <2>1. NClusters - 1 - (c - 2) \in Nat /\ NClusters = (c - 2) + 1 + (NClusters - 1 - (c - 2))
    BY <1>0, Sizes
  <2> QED BY <1>0, <2>1
<1>2. PICK p \in Nat : p = i * SectorsPerCluster
  BY Sizes
<1>3. p + SectorsPerCluster <= NClusters * SectorsPerCluster
  <2>1. NClusters * SectorsPerCluster = p + SectorsPerCluster + d * SectorsPerCluster
    BY <1>1, <1>2, Sizes
  <2>2. d * SectorsPerCluster \in Nat
    BY Sizes
  <2> QED BY <2>1, <2>2, Sizes
<1>4. PICK s \in Nat : s = cluster_to_sector(c) /\ s + SectorsPerCluster <= TotalSectors
  <2>1. cluster_to_sector(c) = EndingSector + p
    BY <1>1, <1>2 DEF cluster_to_sector
  <2> QED BY <1>3, <2>1, Layout, Sizes
<1>5. /\ (s + SectorsPerCluster) * SectorSize = s * SectorSize + ClusterSize
      /\ s * SectorSize \in Nat /\ ClusterSize \in Nat
  BY Sizes DEF ClusterSize
<1>6. (s + SectorsPerCluster) * SectorSize <= TotalSectors * SectorSize
      /\ TotalSectors * SectorSize \in Nat
  BY <1>4, Layout, Sizes, SectorsInOrder
<1>7. (SectorSize * s + 0) % SectorSize = 0
  BY Sizes, DivIs
<1>8. s * SectorSize = SectorSize * s + 0
  BY Sizes
<1>9. /\ s * SectorSize + off \in Nat /\ s * SectorSize + off + len <= TotalSectors * SectorSize
      /\ s * SectorSize + off <= TotalSectors * SectorSize
      /\ s * SectorSize + 0 \in Nat /\ s * SectorSize + 0 <= TotalSectors * SectorSize
      /\ s * SectorSize + 0 = s * SectorSize
  BY <1>5, <1>6
<1>10. /\ int32(s * SectorSize + off) = s * SectorSize + off
       /\ int32(s * SectorSize + 0) = s * SectorSize + 0
  BY <1>9, FitsInt
<1>11. data_position(c, off) = s * SectorSize + off /\ data_position(c, 0) = s * SectorSize
  BY <1>4, <1>9, <1>10 DEF data_position
<1>12. data_position(c, 0) % SectorSize = 0
  BY <1>7, <1>8, <1>11
<1> QED BY <1>9, <1>11, <1>12

(* All that fat16.c asks of the streams is in order. *)
LEMMA CallsInOrder ==
  ASSUME NEW c \in MetadataWrites \cup DataWrites \cup Reads
  PROVE  CallOK(c)
<1>1. CASE c \in MetadataWrites
  BY <1>1, FatCalls, ItemCalls DEF MetadataWrites
<1>2. CASE c \in DataWrites
  <2>1. PICK w \in Clusters \X (0 .. ClusterSize - 1) \X (1 .. ClusterSize) :
          /\ w[2] + w[3] <= ClusterSize
          /\ c = Access("write", "data", data_position(w[1], w[2]), w[3])
    BY <1>2 DEF DataWrites
  <2>2. w[1] \in Clusters /\ w[2] \in Nat /\ w[3] \in Nat \ {0}
    BY Sizes DEF ClusterSize
  <2>3. /\ data_position(w[1], w[2]) \in Nat
        /\ data_position(w[1], w[2]) + w[3] <= TotalSectors * SectorSize
    BY <2>1, <2>2, DataCalls
  <2> QED BY <2>1, <2>2, <2>3 DEF CallOK, Access
<1>3. CASE c \in Reads
  <2>0. /\ TotalSectors * SectorSize \in Nat /\ SectorSize <= TotalSectors * SectorSize
        /\ ClusterSize \in Nat \ {0}
    <3>1. 1 * SectorSize <= TotalSectors * SectorSize /\ TotalSectors * SectorSize \in Nat
      BY Layout, SectorsInOrder
    <3> QED BY <3>1, Sizes DEF ClusterSize
  <2>1. CASE c = Access("read", "header", 0, HeaderSize)
    <3>1. 0 % SectorSize = 0
      BY Sizes
    <3> QED BY <2>0, <2>1, <3>1, Sizes DEF CallOK, Access
  <2>2. CASE c = Access("read", "root", item_position(0), RootSize)
    <3>1. item_position(0) = SectorSize * RootSector + 0 /\ SectorSize * RootSector \in Nat
      <4>1. /\ SectorSize * RootSector \in Nat
            /\ RootSector * SectorSize + 0 * ItemSize = SectorSize * RootSector + 0
        BY Sizes, Layout
      <4>2. RootSector <= TotalSectors
        BY Layout
      <4>3. SectorSize * RootSector + 0 <= TotalSectors * SectorSize
        BY <4>1, <4>2, Sizes, Layout, SectorsInOrder
      <4>4. int32(SectorSize * RootSector + 0) = SectorSize * RootSector + 0
        BY <4>1, <4>3, FitsInt
      <4> QED BY <4>1, <4>4 DEF item_position
    <3>2. (SectorSize * RootSector + 0) % SectorSize = 0
      <4>1. SectorSize \in Nat \ {0} /\ RootSector \in Nat /\ 0 \in 0 .. (SectorSize - 1)
        BY Sizes, Layout
      <4> QED BY <4>1, DivIs
    <3>3. EndingSector * SectorSize = SectorSize * RootSector + RootSize
      BY Sizes, Layout
    <3>4. EndingSector * SectorSize <= TotalSectors * SectorSize
      BY Layout, SectorsInOrder
    <3>5. item_position(0) + RootSize <= TotalSectors * SectorSize /\ item_position(0) \in Nat
      BY <3>1, <3>3, <3>4, Layout
    <3> QED BY <2>2, <3>1, <3>2, <3>5, Layout DEF CallOK, Access
  <2>3. CASE \E k \in Clusters : c = Access("read", "entry", fat_position(k, 0), EntrySize)
    BY <2>3, FatCalls DEF Copies
  <2>4. CASE \E i \in Items : c = Access("read", "item", item_position(i), ItemSize)
    BY <2>4, ItemCalls
  <2>5. CASE \E w \in Clusters \X (0 .. ClusterSize - 1) :
               c = Access("read", "byte", data_position(w[1], w[2]), 1)
    <3>1. PICK k \in Clusters, off \in 0 .. ClusterSize - 1 :
            c = Access("read", "byte", data_position(k, off), 1)
      BY <2>5
    <3>2. off \in Nat /\ off + 1 <= ClusterSize
      BY <2>0
    <3>3. /\ data_position(k, off) \in Nat
          /\ data_position(k, off) + 1 <= TotalSectors * SectorSize
      BY <3>2, DataCalls
    <3>4. (data_position(k, off) % SectorSize) + 1 <= SectorSize
      BY <3>3, Sizes, DivMod
    <3> QED BY <3>1, <3>3, <3>4 DEF CallOK, Access
  <2>6. CASE \E w \in Clusters \X (1 .. ClusterSize) :
               c = Access("read", "load", data_position(w[1], 0), w[2])
    <3>1. PICK k \in Clusters, len \in 1 .. ClusterSize :
            c = Access("read", "load", data_position(k, 0), len)
      BY <2>6
    <3>2. len \in Nat \ {0} /\ 0 + len <= ClusterSize
      BY <2>0
    <3>3. /\ data_position(k, 0) \in Nat /\ data_position(k, 0) % SectorSize = 0
          /\ data_position(k, 0) + len <= TotalSectors * SectorSize
      BY <3>2, DataCalls
    <3> QED BY <3>1, <3>2, <3>3 DEF CallOK, Access
  <2> QED BY <1>3, <2>1, <2>2, <2>3, <2>4, <2>5, <2>6 DEF Reads
<1> QED BY <1>1, <1>2, <1>3

-----------------------------------------------------------------------------
(* ----- The registers of the disk ----- *)

(* A product of a product and a rest. *)
LEMMA Distribute ==
  ASSUME NEW a \in Nat, NEW b \in Nat, NEW c \in Nat, NEW d \in Nat
  PROVE  a * (b * c + d) = (a * b) * c + a * d
  OBVIOUS

(* The four registers give the disk the sector that was asked for: their   *)
(* bytes are the digits of its number.                                     *)
LEMMA RegistersHold ==
  ASSUME NEW s \in Sectors, NEW R, R = registers(s)
  PROVE  R[1] * Weight[1] + R[2] * Weight[2] + R[3] * Weight[3] + R[4] * Weight[4] = s
<1>0. Radix \in Nat \ {0} /\ s \in Nat /\ s < Radix * Radix * Radix * HighRadix
      /\ HighRadix \in Nat \ {0}
  BY RegisterAssumption, Layout DEF Sectors
<1>1. PICK q1 \in Nat, r0 \in 0 .. (Radix - 1) :
        s = Radix * q1 + r0 /\ r0 = s % Radix /\ q1 = s \div Radix
  BY <1>0, DivMod
<1>2. PICK q2 \in Nat, r1 \in 0 .. (Radix - 1) :
        q1 = Radix * q2 + r1 /\ r1 = q1 % Radix
  BY <1>0, DivMod
<1>3. PICK q3 \in Nat, r2 \in 0 .. (Radix - 1) :
        q2 = Radix * q3 + r2 /\ r2 = q2 % Radix
  BY <1>0, DivMod
<1>4. PICK R2 \in Nat \ {0} : R2 = Radix * Radix
  BY <1>0
<1>5. PICK R3 \in Nat \ {0} : R3 = Radix * Radix * Radix /\ R3 = R2 * Radix
  BY <1>0, <1>4
<1>6. Radix * q1 = R2 * q2 + Radix * r1
  <2>1. Radix \in Nat /\ q2 \in Nat /\ r1 \in Nat
    BY <1>0
  <2>2. Radix * (Radix * q2 + r1) = (Radix * Radix) * q2 + Radix * r1
    BY <2>1, Distribute
  <2> QED BY <1>2, <1>4, <2>2
<1>7. R2 * q2 = R3 * q3 + R2 * r2
  BY <1>0, <1>3, <1>4, <1>5, Distribute
<1>8. /\ Radix * r1 \in Nat /\ R2 * r2 \in Nat /\ R3 * q3 \in Nat /\ Radix * q1 \in Nat
      /\ R2 * q2 \in Nat
  BY <1>0
<1>9. PICK x1 \in Nat, x2 \in Nat, x3 \in Nat, y1 \in Nat, y2 \in Nat :
         /\ x1 = Radix * q1 /\ x2 = R2 * q2 /\ x3 = R3 * q3
         /\ y1 = Radix * r1 /\ y2 = R2 * r2
  BY <1>8
<1>10. s = x1 + r0 /\ x1 = x2 + y1 /\ x2 = x3 + y2
  BY <1>1, <1>6, <1>7, <1>9
<1>11. s \div R2 = q2
  <2>1. PICK r \in Nat : r = Radix * r1 + r0 /\ r < R2
    <3>1. Radix * r1 + Radix <= R2
      <4>1. PICK d \in Nat : Radix = r1 + 1 + d
        <5>1. Radix - 1 - r1 \in Nat /\ Radix = r1 + 1 + (Radix - 1 - r1)
          BY <1>0
        <5> QED BY <5>1
      <4>2. R2 = Radix * r1 + Radix + Radix * d
        BY <1>0, <1>4, <4>1
      <4> QED BY <1>0, <4>2
    <3> QED BY <1>0, <3>1
  <2>2. s = x2 + r
    <3>1. r = y1 + r0
      BY <1>9, <2>1
    <3> QED BY <1>10, <3>1
  <2>3. r \in 0 .. (R2 - 1)
    BY <2>1
  <2> QED BY <1>9, <2>2, <2>3, DivIs
<1>12. s \div R3 = q3
  <2>1. PICK r \in Nat : r = R2 * r2 + (Radix * r1 + r0) /\ r < R3
    <3>1. Radix * r1 + Radix <= R2
      <4>1. PICK d \in Nat : Radix = r1 + 1 + d
        <5>1. Radix - 1 - r1 \in Nat /\ Radix = r1 + 1 + (Radix - 1 - r1)
          BY <1>0
        <5> QED BY <5>1
      <4>2. R2 = Radix * r1 + Radix + Radix * d
        BY <1>0, <1>4, <4>1
      <4> QED BY <1>0, <4>2
    <3>2. R2 * r2 + R2 <= R3
      <4>1. PICK d \in Nat : Radix = r2 + 1 + d
        <5>1. Radix - 1 - r2 \in Nat /\ Radix = r2 + 1 + (Radix - 1 - r2)
          BY <1>0
        <5> QED BY <5>1
      <4>2. R3 = R2 * r2 + R2 + R2 * d
        BY <1>0, <1>5, <4>1
      <4> QED BY <1>4, <4>2
    <3>3. R2 * r2 \in Nat /\ Radix * r1 \in Nat
      BY <1>0
    <3> QED BY <1>0, <3>1, <3>2, <3>3
  <2>2. s = x3 + r
    <3>1. r = y2 + (y1 + r0)
      BY <1>9, <2>1
    <3> QED BY <1>10, <3>1
  <2>3. r \in 0 .. (R3 - 1)
    BY <2>1
  <2> QED BY <1>9, <2>2, <2>3, DivIs
<1>13. q3 % HighRadix = q3
  <2>1. q3 < HighRadix
    <3>1. SUFFICES ASSUME q3 >= HighRadix PROVE FALSE
      BY <1>0
    <3>2. PICK d \in Nat : q3 = HighRadix + d
      <4>1. q3 - HighRadix \in Nat /\ q3 = HighRadix + (q3 - HighRadix)
        BY <1>0, <3>1
      <4> QED BY <4>1
    <3>3. R3 * q3 = R3 * HighRadix + R3 * d /\ R3 * d \in Nat /\ R3 * HighRadix \in Nat
      BY <1>0, <3>2
    <3>4. R3 * HighRadix = Radix * Radix * Radix * HighRadix
      BY <1>0, <1>5
    <3>5. s = R3 * (s \div R3) + (s % R3) /\ s % R3 \in Nat
      BY <1>0, DivMod
    <3>6. PICK z \in Nat : z = s % R3
      BY <3>5
    <3>7. s = R3 * q3 + z
      BY <1>12, <3>5, <3>6
    <3> QED BY <1>0, <3>3, <3>4, <3>7
  <2> QED BY <1>0, <2>1
<1>14. s \div 1 = s
  BY <1>0
<1>15. R[1] = r0 /\ R[2] = r1 /\ R[3] = r2 /\ R[4] = q3
  <2>1. /\ Weight[1] = 1 /\ Weight[2] = Radix /\ Weight[3] = R2 /\ Weight[4] = R3
    BY <1>4, <1>5 DEF Weight
  <2>2. R[1] = (s \div 1) % Radix /\ R[2] = (s \div Radix) % Radix
        /\ R[3] = (s \div R2) % Radix /\ R[4] = (s \div R3) % HighRadix
    BY <2>1 DEF registers, Holds
  <2> QED BY <1>1, <1>2, <1>3, <1>11, <1>12, <1>13, <1>14, <2>2
<1> DEFINE sum == R[1] * Weight[1] + R[2] * Weight[2] + R[3] * Weight[3] + R[4] * Weight[4]
<1>16. sum = r0 * 1 + r1 * Radix + r2 * R2 + q3 * R3
  BY <1>4, <1>5, <1>15 DEF Weight
<1>17. r1 * Radix = Radix * r1 /\ r2 * R2 = R2 * r2 /\ q3 * R3 = R3 * q3 /\ r0 * 1 = r0
  BY <1>0
<1>18. sum = r0 + y1 + y2 + x3
  BY <1>9, <1>16, <1>17
<1> QED BY <1>10, <1>18

-----------------------------------------------------------------------------
(* ----- The invariant ----- *)

InCall == pc \in {"read", "fetch", "write", "store", "flush", "copy"}

(* The byte at a when the stream has written up to m. *)
Expect(m, a) == IF call.op = "write" /\ a \in call.at .. m - 1 THEN a ELSE image[a]

(* How far a write of the sector in hand gets. *)
Reach == pos + Part(SectorSize - Offset)

Typed ==
  /\ InCall \/ pc \in {"idle", "done"}
  /\ medium \in [Sectors -> [Offsets -> Int]]
  /\ image \in [Addresses -> Int]
  /\ buf \in [Offsets -> Int]

(* The stream is within the call, at its start or at the start of a        *)
(* sector, which an entry does not get to.                                 *)
StreamOK ==
  /\ InCall \/ pc = "done" => CallOK(call) /\ pos \in Nat /\ call.at <= pos
  /\ InCall =>
       /\ pos < call.at + call.len
       /\ pos = call.at \/ (pos % SectorSize = 0 /\ call.kind # "entry")
  /\ pc = "done" => pos = call.at + call.len
  /\ pc \in {"write", "store", "flush"} => call.op = "write"
  /\ pc = "copy" => call.op = "read"

(* The buffer has the sector of the stream, after the merge with the new   *)
(* bytes; and the disk was told the right one.                             *)
BufferOK ==
  /\ pc \in {"fetch", "store"} => Addressed = Sector
  /\ pc \in {"write", "copy"} =>
       \A o \in Offsets : buf[o] = Expect(pos, Sector * SectorSize + o)
  /\ pc \in {"store", "flush"} =>
       \A o \in Offsets : buf[o] = Expect(Reach, Sector * SectorSize + o)

(* The cache is empty but while the kernel waits for the flush, and then   *)
(* it has at most the sector in hand; the medium is behind by just that.   *)
MediumOK ==
  /\ pc # "flush" => DOMAIN cache = {}
  /\ ~InCall => \A a \in Addresses : Byte(a) = image[a]
  /\ InCall /\ pc # "flush" => \A a \in Addresses : Byte(a) = Expect(pos, a)
  /\ pc = "flush" =>
       \/ /\ status # "idle" /\ DOMAIN cache = {Sector} /\ cache[Sector] = buf
          /\ \A a \in Addresses : Byte(a) = Expect(pos, a)
       \/ /\ DOMAIN cache = {}
          /\ \A a \in Addresses : Byte(a) = Expect(Reach, a)

(* What was read so far. *)
OutOK ==
  (InCall \/ pc = "done") /\ call.op = "read" =>
    out = [i \in 1 .. pos - call.at |-> image[call.at + i - 1]]

StorageInv == Typed /\ StreamOK /\ BufferOK /\ MediumOK /\ OutOK

(* ----- Addresses, sectors and offsets ----- *)

(* An offset in a sector is an address, and has the sector and the offset  *)
(* it is made of.                                                          *)
LEMMA SectorAddress ==
  ASSUME NEW s \in Sectors, NEW o \in Offsets
  PROVE  /\ s * SectorSize + o \in Addresses
         /\ (s * SectorSize + o) \div SectorSize = s
         /\ (s * SectorSize + o) % SectorSize = o
<1>1. s \in Nat /\ s + 1 <= TotalSectors /\ o \in 0 .. (SectorSize - 1)
  BY Layout DEF Sectors, Offsets
<1>2. (s + 1) * SectorSize <= TotalSectors * SectorSize /\ TotalSectors * SectorSize \in Nat
  BY <1>1, Layout, SectorsInOrder
<1>3. /\ (s + 1) * SectorSize = s * SectorSize + SectorSize /\ s * SectorSize \in Nat
      /\ s * SectorSize = SectorSize * s
  BY <1>1, Sizes
<1>4. s * SectorSize + o \in Addresses
  BY <1>1, <1>2, <1>3, Sizes DEF Addresses
<1>5. (SectorSize * s + o) \div SectorSize = s /\ (SectorSize * s + o) % SectorSize = o
  BY <1>1, Sizes, DivIs
<1> QED BY <1>3, <1>4, <1>5

(* Every address is in a sector. *)
LEMMA AddressSector ==
  ASSUME NEW a \in Addresses
  PROVE  /\ a \in Nat /\ a \div SectorSize \in Sectors /\ a % SectorSize \in Offsets
         /\ a = (a \div SectorSize) * SectorSize + (a % SectorSize)
<1>1. TotalSectors * SectorSize \in Nat
  BY Sizes, Layout
<1>2. a \in Nat /\ a < TotalSectors * SectorSize
  BY <1>1 DEF Addresses
<1>3. PICK q \in Nat, o \in 0 .. (SectorSize - 1) :
        a = SectorSize * q + o /\ q = a \div SectorSize /\ o = a % SectorSize
  BY <1>2, Sizes, DivMod
<1>4. SectorSize * q = q * SectorSize /\ q * SectorSize \in Nat
  BY Sizes
<1>5. q < TotalSectors
  <2>1. SUFFICES ASSUME TotalSectors <= q PROVE FALSE
    BY Layout
  <2>2. TotalSectors * SectorSize <= q * SectorSize
    BY <2>1, Layout, SectorsInOrder
  <2>3. PICK w \in Nat, v \in Nat : w = q * SectorSize /\ v = TotalSectors * SectorSize
    BY <1>1, <1>4
  <2>4. a = w + o /\ a < v /\ v <= w
    BY <1>2, <1>3, <1>4, <2>2, <2>3
  <2> QED BY <2>3, <2>4, Sizes
<1>6. q \in Sectors /\ o \in Offsets
  BY <1>5, Layout DEF Sectors, Offsets
<1>7. a = q * SectorSize + o
  BY <1>3, <1>4
<1> QED BY <1>2, <1>3, <1>6, <1>7

(* How many bytes the kernel moves in one turn of a loop. *)
LEMMA PartIs ==
  ASSUME NEW room \in Nat \ {0}, Left \in Nat \ {0}
  PROVE  /\ Part(room) \in Nat \ {0} /\ Part(room) <= Left /\ Part(room) <= room
         /\ Part(room) = Left \/ Part(room) = room
<1> DEFINE S == {Left, room}
<1>1. S \subseteq Nat /\ S # {}
  OBVIOUS
<1>2. Min(S) \in S /\ \A t \in S : Min(S) <= t
  BY <1>1, MinIn
<1> QED BY <1>2 DEF Part

(* Where the stream is. *)
PosOK ==
  /\ pos \in Addresses /\ Sector \in Sectors /\ Offset \in Offsets
  /\ pos = Sector * SectorSize + Offset
  /\ Left \in Nat \ {0} /\ Left = call.at + call.len - pos
  /\ Part(SectorSize - Offset) \in Nat \ {0}
  /\ Reach = pos + Part(SectorSize - Offset)
  /\ Part(SectorSize - Offset) <= Left /\ Part(SectorSize - Offset) <= SectorSize - Offset
  /\ Part(SectorSize - Offset) = Left \/ Part(SectorSize - Offset) = SectorSize - Offset

(* While a call is in progress the stream is in the volume. *)
LEMMA Where ==
  ASSUME StreamOK, InCall
  PROVE  PosOK
<1>1. /\ pos \in Nat /\ call.at \in Nat /\ call.len \in Nat /\ pos < call.at + call.len
      /\ call.at + call.len <= TotalSectors * SectorSize
  BY DEF StreamOK, CallOK
<1>2. TotalSectors * SectorSize \in Nat
  BY Sizes, Layout
<1>3. pos \in Addresses /\ Left \in Nat \ {0}
  BY <1>1, <1>2 DEF Addresses, Left
<1>4. Sector \in Sectors /\ Offset \in Offsets /\ pos = Sector * SectorSize + Offset
  BY <1>3, AddressSector DEF Sector, Offset
<1>5. SectorSize - Offset \in Nat \ {0}
  BY <1>4, Sizes DEF Offsets
<1> QED BY <1>3, <1>4, <1>5, PartIs DEF PosOK, Reach, Left

(* The bytes of one turn of a write are in the sector in hand, and have    *)
(* the offsets that are merged.                                            *)
LEMMA InSector ==
  ASSUME PosOK, NEW o \in Offsets, NEW s \in Sectors
  PROVE  /\ s = Sector => (s * SectorSize + o \in pos .. Reach - 1
                             <=> o \in Offset .. Offset + Part(SectorSize - Offset) - 1)
         /\ s # Sector => s * SectorSize + o \notin pos .. Reach - 1
<1>0. PICK n \in Nat \ {0} : n = Part(SectorSize - Offset) /\ Reach = pos + n
                            /\ n <= SectorSize - Offset
  BY DEF PosOK
<1>1. o \in Nat /\ Offset \in Nat /\ o < SectorSize /\ Offset < SectorSize
      /\ s \in Nat /\ Sector \in Nat
  BY Sizes, Layout DEF PosOK, Offsets, Sectors
<1>2. PICK w \in Nat, v \in Nat : w = s * SectorSize /\ v = Sector * SectorSize
  BY <1>1, Sizes
<1>3. pos = v + Offset
  BY <1>2 DEF PosOK
<1>4. ASSUME s = Sector
      PROVE  w + o \in pos .. Reach - 1 <=> o \in Offset .. Offset + n - 1
  BY <1>0, <1>1, <1>2, <1>3, <1>4
<1>5. ASSUME s < Sector PROVE w + SectorSize <= v
  <2>1. s + 1 \in Nat /\ s + 1 <= Sector
    BY <1>1, <1>5
  <2>2. (s + 1) * SectorSize <= Sector * SectorSize
    BY <1>1, <2>1, SectorsInOrder
  <2>3. (s + 1) * SectorSize = w + SectorSize
    BY <1>1, <1>2, Sizes
  <2> QED BY <1>2, <2>2, <2>3
<1>6. ASSUME Sector < s PROVE v + SectorSize <= w
  <2>1. Sector + 1 \in Nat /\ Sector + 1 <= s
    BY <1>1, <1>6
  <2>2. (Sector + 1) * SectorSize <= s * SectorSize
    BY <1>1, <2>1, SectorsInOrder
  <2>3. (Sector + 1) * SectorSize = v + SectorSize
    BY <1>1, <1>2, Sizes
  <2> QED BY <1>2, <2>2, <2>3
<1>7. ASSUME s # Sector PROVE w + o \notin pos .. Reach - 1
  <2>1. s < Sector \/ Sector < s
    BY <1>1, <1>7
  <2>2. CASE s < Sector
    BY <1>0, <1>1, <1>3, <1>5, <2>2, Sizes
  <2>3. CASE Sector < s
    BY <1>0, <1>1, <1>3, <1>6, <2>3, Sizes
  <2> QED BY <2>1, <2>2, <2>3
<1> QED BY <1>0, <1>2, <1>4, <1>7

(* A byte of the medium by its sector and its offset. *)
LEMMA ByteAt ==
  ASSUME NEW s \in Sectors, NEW o \in Offsets
  PROVE  Byte(s * SectorSize + o) = medium[s][o]
  BY SectorAddress DEF Byte

(* What one turn of a write adds. *)
LEMMA OneTurn ==
  ASSUME PosOK, StreamOK, InCall, call.op = "write", NEW a \in Addresses
  PROVE  Expect(Reach, a) = IF a \in pos .. Reach - 1 THEN a ELSE Expect(pos, a)
<1>1. /\ call.at \in Nat /\ pos \in Nat /\ call.at <= pos /\ Reach \in Nat /\ pos < Reach
      /\ a \in Nat
  <2>1. PICK n \in Nat \ {0} : Reach = pos + n
    BY DEF PosOK
  <2> QED BY <2>1, AddressSector DEF StreamOK, CallOK
<1>2. a \in call.at .. Reach - 1 <=> a \in call.at .. pos - 1 \/ a \in pos .. Reach - 1
  BY <1>1
<1>3. a \in pos .. Reach - 1 => a \notin call.at .. pos - 1
  BY <1>1
<1> QED BY <1>2, <1>3 DEF Expect

-----------------------------------------------------------------------------
(* ----- The steps ----- *)

(* A call begins: nothing of it is written or read yet. *)
LEMMA BeginKeeps ==
  ASSUME StorageInv, NEW c \in MetadataWrites \cup DataWrites \cup Reads, begin(c)
  PROVE  StorageInv'
<1>1. /\ pc = "idle" /\ call' = c /\ pos' = c.at /\ out' = <<>> /\ pc' = "read"
      /\ UNCHANGED <<buf, cache, medium, image>>
  BY DEF begin, disk
<1>2. CallOK(c)
  BY CallsInOrder
<1>3. c.at \in Nat /\ c.len \in Nat \ {0} /\ c.at - c.at = 0
  BY <1>2 DEF CallOK
<1>4. Typed'
  BY <1>1 DEF StorageInv, Typed, InCall
<1>5. StreamOK'
  <2>1. CallOK(call)'
    BY <1>1, <1>2 DEF CallOK
  <2> QED BY <1>1, <1>3, <2>1 DEF StreamOK, InCall
<1>6. BufferOK'
  BY <1>1 DEF BufferOK
<1>7. MediumOK'
  <2>1. DOMAIN cache' = {}
    BY <1>1 DEF StorageInv, MediumOK
  <2>2. ASSUME NEW a \in Addresses PROVE Byte(a)' = Expect(pos, a)'
    <3>1. Byte(a)' = image[a]
      BY <1>1, <2>2 DEF StorageInv, MediumOK, InCall, Byte
    <3>2. a \notin c.at .. c.at - 1
      BY <1>3, AddressSector
    <3> QED BY <1>1, <3>1, <3>2 DEF Expect
  <2> QED BY <1>1, <2>1, <2>2 DEF MediumOK, InCall
<1>8. OutOK'
  <2>1. out' = [i \in 1 .. 0 |-> image[c.at + i - 1]]
    BY <1>1
  <2> QED BY <1>1, <1>3, <2>1 DEF OutOK
<1> QED BY <1>4, <1>5, <1>6, <1>7, <1>8 DEF StorageInv

(* The call, the stream and what is known of the bytes stay.               *)
LEMMA SameCall ==
  ASSUME UNCHANGED <<call, pos, image>>
  PROVE  /\ Sector' = Sector /\ Offset' = Offset /\ Left' = Left /\ Reach' = Reach
         /\ Part(SectorSize - Offset)' = Part(SectorSize - Offset)
         /\ \A m, a : Expect(m, a)' = Expect(m, a)
         /\ CallOK(call)' = CallOK(call)
<1>1. Sector' = Sector /\ Offset' = Offset /\ Left' = Left
  BY DEF Sector, Offset, Left
<1>2. Part(SectorSize - Offset)' = Part(SectorSize - Offset)
  BY <1>1 DEF Part
<1>3. Reach' = Reach
  BY <1>2 DEF Reach
<1>4. \A m, a : Expect(m, a)' = Expect(m, a)
  BY DEF Expect
<1>5. CallOK(call)' = CallOK(call)
  BY DEF CallOK
<1> QED BY <1>1, <1>2, <1>3, <1>4, <1>5

(* disk_read_sector tells the disk the sector of the stream. *)
LEMMA ReadSectorKeeps ==
  ASSUME StorageInv, read_sector
  PROVE  StorageInv'
<1>1. /\ pc = "read" /\ pc' = "fetch" /\ regs' = registers(Sector)
      /\ UNCHANGED <<call, pos, out, buf, cache, medium, image>>
  BY DEF read_sector
<1>2. InCall /\ InCall' /\ PosOK
  BY <1>1, Where DEF InCall, StorageInv
<1>3. Typed'
  BY <1>1, <1>2 DEF StorageInv, Typed
<1>4. StreamOK'
  BY <1>1, <1>2, SameCall DEF StorageInv, StreamOK
<1>5. BufferOK'
  <2>1. Addressed' = Sector
    BY <1>1, <1>2, RegistersHold DEF PosOK, Addressed, Weight
  <2> QED BY <1>1, <2>1, SameCall DEF BufferOK
<1>6. MediumOK'
  <2>1. \A a : Byte(a)' = Byte(a)
    BY <1>1 DEF Byte
  <2> QED BY <1>1, <1>2, <2>1, SameCall DEF StorageInv, MediumOK
<1>7. OutOK'
  BY <1>1, <1>2 DEF StorageInv, OutOK
<1> QED BY <1>3, <1>4, <1>5, <1>6, <1>7 DEF StorageInv

(* The sector comes from the medium, as the cache is empty by then. *)
LEMMA FetchKeeps ==
  ASSUME StorageInv, fetch
  PROVE  StorageInv'
<1>1. /\ pc = "fetch" /\ pc' \in {"write", "copy"}
      /\ pc' = "write" <=> call.op = "write"
      /\ buf' = IF Addressed \in DOMAIN cache THEN cache[Addressed] ELSE medium[Addressed]
      /\ UNCHANGED <<call, pos, out, cache, medium, image>>
  BY DEF fetch
<1>2. InCall /\ InCall' /\ PosOK
  BY <1>1, Where DEF InCall, StorageInv
<1>3. buf' = medium[Sector] /\ Sector \in Sectors
  BY <1>1, <1>2 DEF StorageInv, BufferOK, MediumOK, PosOK
<1>4. Typed'
  BY <1>1, <1>2, <1>3 DEF StorageInv, Typed
<1>5. StreamOK'
  BY <1>1, <1>2, SameCall DEF StorageInv, StreamOK, CallOK
<1>6. BufferOK'
  <2>1. ASSUME NEW o \in Offsets PROVE buf'[o] = Expect(pos, Sector * SectorSize + o)
    <3>1. buf'[o] = Byte(Sector * SectorSize + o)
      BY <1>3, ByteAt
    <3>2. Sector * SectorSize + o \in Addresses
      BY <1>3, SectorAddress
    <3> QED BY <1>1, <1>2, <3>1, <3>2 DEF StorageInv, MediumOK
  <2> QED BY <1>1, <2>1, SameCall DEF BufferOK
<1>7. MediumOK'
  <2>1. \A a : Byte(a)' = Byte(a)
    BY <1>1 DEF Byte
  <2> QED BY <1>1, <1>2, <2>1, SameCall DEF StorageInv, MediumOK
<1>8. OutOK'
  BY <1>1, <1>2 DEF StorageInv, OutOK
<1> QED BY <1>4, <1>5, <1>6, <1>7, <1>8 DEF StorageInv

(* The new bytes go over the old ones, and over no others. *)
LEMMA WriteSectorKeeps ==
  ASSUME StorageInv, write_sector
  PROVE  StorageInv'
<1>1. /\ pc = "write" /\ pc' = "store" /\ regs' = registers(Sector) /\ buf' = merged
      /\ UNCHANGED <<call, pos, out, cache, medium, image>>
  BY DEF write_sector
<1>2. InCall /\ InCall' /\ PosOK /\ call.op = "write"
  BY <1>1, Where DEF InCall, StorageInv, StreamOK
<1>3. ASSUME NEW o \in Offsets
      PROVE  buf'[o] \in Int /\ buf'[o] = Expect(Reach, Sector * SectorSize + o)
  <2>1. Sector \in Sectors /\ Sector * SectorSize + o \in Addresses
    BY <1>2, SectorAddress DEF PosOK
  <2>2. Expect(Reach, Sector * SectorSize + o) =
          IF Sector * SectorSize + o \in pos .. Reach - 1
            THEN Sector * SectorSize + o ELSE Expect(pos, Sector * SectorSize + o)
    BY <1>2, <2>1, OneTurn DEF StorageInv
  <2>3. Sector * SectorSize + o \in pos .. Reach - 1
          <=> o \in Offset .. Offset + Part(SectorSize - Offset) - 1
    BY <1>2, <2>1, InSector
  <2>4. pos + (o - Offset) = Sector * SectorSize + o /\ pos + (o - Offset) \in Int
    <3>1. PICK w \in Nat : w = Sector * SectorSize
      BY <2>1, Sizes, Layout DEF Sectors
    <3>2. pos = w + Offset /\ Offset \in Int /\ o \in Int
      BY <1>2, <3>1, Sizes DEF PosOK, Offsets
    <3> QED BY <3>1, <3>2
  <2>5. buf'[o] = IF o \in Offset .. Offset + Part(SectorSize - Offset) - 1
                    THEN pos + (o - Offset) ELSE buf[o]
    BY <1>1 DEF merged
  <2>6. buf[o] = Expect(pos, Sector * SectorSize + o) /\ buf[o] \in Int
    BY <1>1 DEF StorageInv, BufferOK, Typed
  <2> QED BY <2>2, <2>3, <2>4, <2>5, <2>6
<1>4. Typed'
  <2>1. buf' = [o \in Offsets |-> buf'[o]]
    BY <1>1 DEF merged
  <2>2. buf' \in [Offsets -> Int]
    BY <1>3, <2>1
  <2> QED BY <1>1, <1>2, <2>2 DEF StorageInv, Typed
<1>5. StreamOK'
  BY <1>1, <1>2, SameCall DEF StorageInv, StreamOK
<1>6. BufferOK'
  <2>1. Addressed' = Sector
    BY <1>1, <1>2, RegistersHold DEF PosOK, Addressed, Weight
  <2> QED BY <1>1, <1>3, <2>1, SameCall DEF BufferOK
<1>7. MediumOK'
  <2>1. \A a : Byte(a)' = Byte(a)
    BY <1>1 DEF Byte
  <2> QED BY <1>1, <1>2, <2>1, SameCall DEF StorageInv, MediumOK
<1>8. OutOK'
  BY <1>1, <1>2 DEF StorageInv, OutOK
<1> QED BY <1>4, <1>5, <1>6, <1>7, <1>8 DEF StorageInv

(* The disk has the sector, in its cache. *)
LEMMA StoreKeeps ==
  ASSUME StorageInv, store
  PROVE  StorageInv'
<1>1. /\ pc = "store" /\ pc' = "flush" /\ status' = "busy"
      /\ cache' = [s \in DOMAIN cache \cup {Addressed} |->
                     IF s = Addressed THEN buf ELSE cache[s]]
      /\ UNCHANGED <<call, pos, out, buf, medium, image>>
  BY DEF store
<1>2. InCall /\ InCall' /\ PosOK
  BY <1>1, Where DEF InCall, StorageInv
<1>3. Typed'
  BY <1>1, <1>2 DEF StorageInv, Typed
<1>4. StreamOK'
  BY <1>1, <1>2, SameCall DEF StorageInv, StreamOK
<1>5. BufferOK'
  BY <1>1, SameCall DEF StorageInv, BufferOK
<1>6. MediumOK'
  <2>1. \A a : Byte(a)' = Byte(a)
    BY <1>1 DEF Byte
  <2>2. Addressed = Sector /\ DOMAIN cache = {}
    BY <1>1 DEF StorageInv, BufferOK, MediumOK
  <2>3. DOMAIN cache' = {Sector} /\ cache'[Sector] = buf
    BY <1>1, <2>2
  <2>4. \A a \in Addresses : Byte(a) = Expect(pos, a)
    BY <1>1, <1>2 DEF StorageInv, MediumOK
  <2> QED BY <1>1, <1>2, <2>1, <2>3, <2>4, SameCall DEF MediumOK
<1>7. OutOK'
  BY <1>1, <1>2 DEF StorageInv, OutOK
<1> QED BY <1>3, <1>4, <1>5, <1>6, <1>7 DEF StorageInv

(* If a write goes on, it goes on at the next sector, and is no write of   *)
(* an entry.                                                               *)
LEMMA WriteGoesOn ==
  ASSUME StreamOK, InCall, Left > Part(SectorSize - Offset)
  PROVE  /\ Reach \in Nat /\ pos <= Reach /\ Reach < call.at + call.len
         /\ Reach % SectorSize = 0 /\ call.kind # "entry"
<1>0. PosOK
  BY Where
<1>1. PICK n \in Nat \ {0} : /\ n = Part(SectorSize - Offset) /\ Reach = pos + n
                             /\ n = SectorSize - Offset
  BY <1>0 DEF PosOK
<1>2. /\ pos \in Nat /\ Offset \in Nat /\ Sector \in Nat
      /\ call.at \in Nat /\ call.len \in Nat /\ Left = call.at + call.len - pos
  BY <1>0, Sizes, Layout DEF PosOK, StreamOK, CallOK, Offsets, Sectors
<1>3. Reach % SectorSize = 0
  <2>1. SectorSize * (Sector + 1) = Sector * SectorSize + SectorSize /\ Sector * SectorSize \in Nat
    BY <1>2, Sizes
  <2>2. Reach = SectorSize * (Sector + 1) + 0
    BY <1>0, <1>1, <1>2, <2>1, Sizes DEF PosOK
  <2>3. Sector + 1 \in Nat /\ 0 \in 0 .. (SectorSize - 1)
    BY <1>2, Sizes
  <2> QED BY <2>2, <2>3, Sizes, DivIs
<1>4. call.kind # "entry"
  <2>1. SUFFICES ASSUME call.kind = "entry" PROVE FALSE
    OBVIOUS
  <2>2. pos = call.at /\ Offset = call.at % SectorSize
    BY <2>1 DEF StreamOK, Offset
  <2>3. Offset + call.len <= SectorSize
    BY <2>1, <2>2 DEF StreamOK, CallOK
  <2> QED BY <1>1, <1>2, <2>2, <2>3, Sizes
<1> QED BY <1>1, <1>2, <1>3, <1>4

(* The stream does not leave the call, and with it what an int holds. *)
LEMMA WithinCall ==
  ASSUME StreamOK, InCall, NEW n \in Nat, n <= Left
  PROVE  int32(pos + n) = pos + n
<1>1. /\ pos \in Nat /\ call.at \in Nat /\ call.len \in Nat
      /\ call.at + call.len <= TotalSectors * SectorSize
      /\ Left = call.at + call.len - pos
  BY DEF StreamOK, CallOK, Left
<1>2. TotalSectors * SectorSize \in Nat
  BY Sizes, Layout
<1>3. pos + n \in Nat /\ pos + n <= TotalSectors * SectorSize
  BY <1>1, <1>2
<1> QED BY <1>3, FitsInt

(* After the flush the turn is on the medium, and with the last the call. *)
LEMMA FlushedKeeps ==
  ASSUME StorageInv, flushed
  PROVE  StorageInv'
<1>1. /\ pc = "flush" /\ status = "idle" /\ pos' = Reach /\ call' = call
      /\ UNCHANGED <<out, buf, status, cache, medium>>
      /\ \/ /\ Left > Part(SectorSize - Offset) /\ pc' = "read" /\ image' = image
         \/ /\ ~(Left > Part(SectorSize - Offset)) /\ pc' = "done"
            /\ image' = IF call.op = "write" THEN Applied ELSE image
  <2>1. pc = "flush" /\ Advance(Part(SectorSize - Offset))
    BY DEF flushed
  <2>2. InCall /\ StreamOK /\ PosOK
    BY <2>1, Where DEF InCall, StorageInv
  <2>3. PICK n \in Nat : n = Part(SectorSize - Offset) /\ n <= Left
    BY <2>2 DEF PosOK
  <2>4. int32(pos + Part(SectorSize - Offset)) = pos + Part(SectorSize - Offset)
    BY <2>2, <2>3, WithinCall
  <2> QED BY <2>4 DEF flushed, Advance, Reach, disk
<1>2. InCall /\ PosOK /\ call.op = "write" /\ CallOK(call) /\ StreamOK
  BY <1>1, Where DEF InCall, StorageInv, StreamOK
<1>3. DOMAIN cache = {} /\ \A a \in Addresses : Byte(a) = Expect(Reach, a)
  BY <1>1 DEF StorageInv, MediumOK
<1>4. \A a : Byte(a)' = Byte(a)
  BY <1>1 DEF Byte
<1>5. BufferOK' /\ OutOK' /\ CallOK(call)'
  BY <1>1, <1>2 DEF BufferOK, OutOK, CallOK
<1>6. CASE Left > Part(SectorSize - Offset)
  <2>1. pc' = "read" /\ image' = image
    BY <1>1, <1>6
  <2>2. Typed'
    BY <1>1, <2>1 DEF StorageInv, Typed, InCall
  <2>3. StreamOK'
    <3>1. /\ Reach \in Nat /\ call.at <= Reach /\ Reach < call.at + call.len
          /\ Reach % SectorSize = 0 /\ call.kind # "entry"
      BY <1>2, <1>6, WriteGoesOn DEF StreamOK, CallOK
    <3> QED BY <1>1, <1>5, <2>1, <3>1 DEF StreamOK
  <2>4. MediumOK'
    BY <1>1, <1>3, <1>4, <2>1 DEF MediumOK, Expect, InCall
  <2> QED BY <1>5, <2>2, <2>3, <2>4 DEF StorageInv
<1>7. CASE ~(Left > Part(SectorSize - Offset))
  <2>1. pc' = "done" /\ image' = Applied
    BY <1>1, <1>2, <1>7
  <2>2. Reach = call.at + call.len /\ Reach \in Nat /\ call.at <= Reach
    <3>1. PICK n \in Nat \ {0} : n = Left /\ Reach = pos + n /\ Left = call.at + call.len - pos
      BY <1>2, <1>7 DEF PosOK
    <3> QED BY <1>2, <3>1 DEF StreamOK, CallOK
  <2>3. Typed'
    <3>1. Applied \in [Addresses -> Int]
      <4>1. \A a \in Addresses : a \in Int /\ image[a] \in Int
        BY AddressSector DEF StorageInv, Typed
      <4> QED BY <4>1 DEF Applied
    <3> QED BY <1>1, <2>1, <3>1 DEF StorageInv, Typed
  <2>4. StreamOK'
    BY <1>1, <1>5, <2>1, <2>2 DEF StreamOK, InCall
  <2>5. MediumOK'
    <3>1. ASSUME NEW a \in Addresses PROVE Byte(a)' = image'[a]
      <4>1. Byte(a)' = Expect(Reach, a)
        BY <1>3, <1>4
      <4>2. Expect(Reach, a) = IF a \in call.at .. call.at + call.len - 1 THEN a ELSE image[a]
        <5>1. Reach - 1 = call.at + call.len - 1
          BY <1>2, <2>2 DEF CallOK
        <5> QED BY <1>2, <5>1, Zenon DEF Expect
      <4>3. Applied[a] = IF a \in call.at .. call.at + call.len - 1 THEN a ELSE image[a]
        BY DEF Applied
      <4> QED BY <2>1, <4>1, <4>2, <4>3
    <3> QED BY <1>1, <1>3, <2>1, <3>1 DEF MediumOK, InCall
  <2> QED BY <1>5, <2>3, <2>4, <2>5 DEF StorageInv
<1> QED BY <1>6, <1>7

(* The bytes of one turn of a read follow those of the turns before. *)
LEMMA CopyKeeps ==
  ASSUME StorageInv, copy
  PROVE  StorageInv'
<1>1. /\ pc = "copy" /\ pos' = pos + Part(SectorSize) /\ call' = call
      /\ out' = out \o taken(Part(SectorSize))
      /\ UNCHANGED <<buf, cache, medium>>
      /\ \/ /\ Left > Part(SectorSize) /\ pc' = "read" /\ image' = image
         \/ /\ ~(Left > Part(SectorSize)) /\ pc' = "done"
            /\ image' = IF call.op = "write" THEN Applied ELSE image
  <2>1. pc = "copy" /\ InCall /\ StreamOK /\ PosOK
    BY Where DEF copy, InCall, StorageInv
  <2>2. PICK n \in Nat : n = Part(SectorSize) /\ n <= Left
    BY <2>1, Sizes, PartIs DEF PosOK
  <2>3. int32(pos + Part(SectorSize)) = pos + Part(SectorSize)
    BY <2>1, <2>2, WithinCall
  <2> QED BY <2>3 DEF copy, Advance, disk
<1>2. InCall /\ PosOK /\ call.op = "read" /\ CallOK(call) /\ StreamOK
  BY <1>1, Where DEF InCall, StorageInv, StreamOK
<1>3. pc' \in {"read", "done"} /\ image' = image
  BY <1>1, <1>2
<1>4. PICK n \in Nat \ {0} : /\ n = Part(SectorSize) /\ n <= Left /\ n <= SectorSize
                             /\ n = Left \/ n = SectorSize
  BY <1>2, Sizes, PartIs DEF PosOK
<1>5. /\ pos \in Nat /\ Offset \in Nat /\ Sector \in Nat /\ Offset < SectorSize
      /\ call.at \in Nat /\ call.len \in Nat /\ Left = call.at + call.len - pos
      /\ call.at <= pos
  BY <1>2, Sizes, Layout DEF PosOK, StreamOK, CallOK, Offsets, Sectors
<1>6. Offset = 0 \/ (pos = call.at /\ Offset + call.len <= SectorSize)
  BY <1>2 DEF StreamOK, CallOK, Offset
<1>7. Offset + n <= SectorSize
  BY <1>4, <1>5, <1>6, Sizes
<1>8. Typed'
  BY <1>1, <1>3 DEF StorageInv, Typed, InCall
<1>9. StreamOK'
  <2>0. CallOK(call)'
    BY <1>1, <1>2 DEF CallOK
  <2>1. CASE Left > n
    <3>1. n = SectorSize /\ Offset = 0 /\ pc' = "read"
      BY <1>1, <1>4, <1>5, <1>6, <2>1, Sizes
    <3>2. (pos + n) % SectorSize = 0
      <4>1. SectorSize * (Sector + 1) = Sector * SectorSize + SectorSize
            /\ Sector * SectorSize \in Nat
        BY <1>5, Sizes
      <4>2. pos + n = SectorSize * (Sector + 1) + 0
        BY <1>2, <1>5, <3>1, <4>1, Sizes DEF PosOK
      <4>3. Sector + 1 \in Nat /\ 0 \in 0 .. (SectorSize - 1)
        BY <1>5, Sizes
      <4> QED BY <4>2, <4>3, Sizes, DivIs
    <3>3. call.kind # "entry"
      <4>1. SUFFICES ASSUME call.kind = "entry" PROVE FALSE
        OBVIOUS
      <4>2. pos = call.at /\ Offset + call.len <= SectorSize
        BY <1>2, <4>1 DEF StreamOK, CallOK, Offset
      <4> QED BY <1>5, <2>1, <3>1, <4>2, Sizes
    <3>4. pos + n \in Nat /\ call.at <= pos + n /\ pos + n < call.at + call.len
      BY <1>5, <2>1
    <3> QED BY <1>1, <1>4, <2>0, <3>1, <3>2, <3>3, <3>4 DEF StreamOK
  <2>2. CASE ~(Left > n)
    <3>1. pos + n = call.at + call.len /\ pos + n \in Nat /\ call.at <= pos + n /\ pc' = "done"
      BY <1>1, <1>4, <1>5, <2>2, Sizes
    <3> QED BY <1>1, <1>4, <2>0, <3>1 DEF StreamOK, InCall
  <2> QED BY <2>1, <2>2
<1>10. BufferOK'
  BY <1>3 DEF BufferOK
<1>11. MediumOK'
  <2>1. \A a \in Addresses : Byte(a)' = image[a]
    BY <1>1, <1>2 DEF StorageInv, MediumOK, Expect, Byte
  <2>2. \A a : Expect(pos, a)' = image[a]
    BY <1>1, <1>2, <1>3 DEF Expect
  <2>3. DOMAIN cache = {}
    BY <1>1 DEF StorageInv, MediumOK
  <2> QED BY <1>1, <1>3, <2>1, <2>2, <2>3 DEF MediumOK
<1>12. OutOK'
  <2>1. PICK m \in Nat : m = pos - call.at /\ pos = call.at + m
    BY <1>5
  <2>2. out = [i \in 1 .. m |-> image[call.at + i - 1]]
    BY <1>2, <2>1 DEF StorageInv, OutOK
  <2>3. ASSUME NEW i \in 1 .. n
        PROVE  taken(n)[i] = image[(call.at + m) + i - 1]
    <3>1. Offset + i - 1 \in Offsets
      BY <1>5, <1>7, Sizes DEF Offsets
    <3>2. taken(n)[i] = buf[Offset + i - 1]
      BY <3>1 DEF taken
    <3>3. buf[Offset + i - 1] = image[Sector * SectorSize + (Offset + i - 1)]
      BY <1>1, <1>2, <3>1 DEF StorageInv, BufferOK, Expect
    <3>4. Sector * SectorSize + (Offset + i - 1) = (call.at + m) + i - 1
      <4>1. PICK w \in Nat : w = Sector * SectorSize
        BY <1>5, Sizes
      <4>2. pos = w + Offset
        BY <1>2, <4>1 DEF PosOK
      <4> QED BY <1>5, <2>1, <4>1, <4>2
    <3> QED BY <3>2, <3>3, <3>4
  <2>4. taken(n) \in [1 .. n -> Int]
    <3>1. \A i \in 1 .. n : Offset + i - 1 \in Offsets
      BY <1>5, <1>7, Sizes DEF Offsets
    <3> QED BY <3>1 DEF taken, StorageInv, Typed
  <2>5. out \in [1 .. m -> Int] /\ \A i \in 1 .. m : out[i] = image[call.at + i - 1]
    <3>1. ASSUME NEW i \in 1 .. m PROVE call.at + i - 1 \in Addresses
      <4>1. PICK w \in Nat : w = TotalSectors * SectorSize
        BY Sizes, Layout
      <4>2. pos < w
        BY <1>2, <4>1, Sizes DEF PosOK, Addresses
      <4>3. call.at + i - 1 \in 0 .. w - 1
        BY <1>5, <2>1, <4>2
      <4> QED BY <4>1, <4>3 DEF Addresses
    <3> QED BY <2>2, <3>1 DEF StorageInv, Typed
  <2>6. /\ out \o taken(n) \in [1 .. m + n -> Int]
        /\ \A i \in 1 .. m + n : (out \o taken(n))[i] = image[call.at + i - 1]
    <3>1. call.at \in Nat /\ m \in Nat /\ n \in Nat
      BY <1>5
    <3>2. \A i \in 1 .. n : taken(n)[i] = image[(call.at + m) + i - 1]
      BY <2>3
    <3>3. PICK k \in Nat : k = call.at
      BY <3>1
    <3>4. PICK t \in [1 .. n -> Int] : t = taken(n)
      BY <2>4
    <3>5. /\ \A i \in 1 .. n : t[i] = image[(k + m) + i - 1]
          /\ \A i \in 1 .. m : out[i] = image[k + i - 1]
      BY <2>5, <3>2, <3>3, <3>4
    <3>6. /\ out \o t \in [1 .. m + n -> Int]
          /\ \A i \in 1 .. m + n : (out \o t)[i] = image[k + i - 1]
      <4>1. out \in Seq(Int) /\ Len(out) = m /\ t \in Seq(Int) /\ Len(t) = n
        BY <2>5
      <4>2. /\ out \o t \in Seq(Int) /\ Len(out \o t) = m + n
            /\ \A i \in 1 .. m + n : (out \o t)[i] = IF i <= m THEN out[i] ELSE t[i - m]
        BY <4>1, ConcatProperties
      <4>3. out \o t \in [1 .. m + n -> Int]
        BY <4>2, LenProperties
      <4>4. ASSUME NEW i \in 1 .. m + n PROVE (out \o t)[i] = image[k + i - 1]
        <5>1. CASE i <= m
          BY <3>5, <4>2, <5>1
        <5>2. CASE ~(i <= m)
          <6>1. i - m \in 1 .. n /\ (k + m) + (i - m) - 1 = k + i - 1
            BY <5>2
          <6> QED BY <3>5, <4>2, <5>2, <6>1
        <5> QED BY <5>1, <5>2
      <4> QED BY <4>3, <4>4
    <3> QED BY <3>3, <3>4, <3>6
  <2>7. out' = [i \in 1 .. m + n |-> image[call.at + i - 1]]
    <3>1. out' \in [1 .. m + n -> Int] /\ \A i \in 1 .. m + n : out'[i] = image[call.at + i - 1]
      BY <1>1, <1>4, <2>6
    <3> QED BY <3>1
  <2>8. pos' - call'.at = m + n
    BY <1>1, <1>4, <1>5, <2>1
  <2> QED BY <1>1, <1>3, <2>8, <2>7 DEF OutOK
<1> QED BY <1>8, <1>9, <1>10, <1>11, <1>12 DEF StorageInv

(* A call leaves nothing behind but what it wrote. *)
LEMMA ReturnKeeps ==
  ASSUME StorageInv, return
  PROVE  StorageInv'
<1>1. /\ pc = "done" /\ pc' = "idle" /\ buf' = [o \in Offsets |-> Junk]
      /\ UNCHANGED <<cache, medium, image>>
  BY DEF return, Gone, disk
<1>2. buf' \in [Offsets -> Int]
  <2>1. TotalSectors * SectorSize \in Nat
    BY Sizes, Layout
  <2> QED BY <1>1, <2>1 DEF Junk
<1>3. \A a : Byte(a)' = Byte(a)
  BY <1>1 DEF Byte
<1> QED BY <1>1, <1>2, <1>3
        DEF StorageInv, Typed, StreamOK, BufferOK, MediumOK, OutOK, InCall

(* Nothing but the disk's status changes. *)
LEMMA ReadyKeeps ==
  ASSUME StorageInv, device_ready \/ UNCHANGED vars
  PROVE  StorageInv'
<1>1. /\ UNCHANGED <<call, pc, pos, out, buf, regs, cache, medium, image>>
      /\ status' = "drq" \/ status' = status
  BY DEF device_ready, vars, driver, disk
<1>2. \A a : Byte(a)' = Byte(a)
  BY <1>1 DEF Byte
<1>3. Addressed' = Addressed /\ InCall' = InCall
  BY <1>1 DEF Addressed, InCall, Weight
<1>4. Typed' /\ StreamOK' /\ BufferOK' /\ OutOK'
  BY <1>1, <1>3, SameCall DEF StorageInv, Typed, StreamOK, BufferOK, OutOK
<1>5. MediumOK'
  BY <1>1, <1>2, <1>3, SameCall DEF StorageInv, MediumOK
<1> QED BY <1>4, <1>5 DEF StorageInv

(* The sector in hand gets to the medium: what was there up to the stream  *)
(* is there up to the end of this turn.                                    *)
LEMMA SectorGetsThere ==
  ASSUME StorageInv, pc = "flush", DOMAIN cache = {Sector}, medium' = OnMedium({Sector}),
         NEW a \in Addresses
  PROVE  medium'[a \div SectorSize][a % SectorSize] = Expect(Reach, a)
<1>1. InCall /\ PosOK /\ call.op = "write" /\ StreamOK
  BY Where DEF InCall, StorageInv, StreamOK
<1>2. cache[Sector] = buf /\ Byte(a) = Expect(pos, a)
  BY DEF StorageInv, MediumOK
<1>3. PICK s \in Sectors, o \in Offsets :
        s = a \div SectorSize /\ o = a % SectorSize /\ a = s * SectorSize + o
  BY AddressSector
<1>4. medium'[s] = IF s = Sector THEN buf ELSE medium[s]
  BY <1>2 DEF OnMedium
<1>5. CASE s = Sector
  BY <1>3, <1>4, <1>5 DEF StorageInv, BufferOK
<1>6. CASE s # Sector
  <2>1. a \notin pos .. Reach - 1
    BY <1>1, <1>3, <1>6, InSector
  <2>2. Expect(Reach, a) = Expect(pos, a)
    BY <1>1, <2>1, OneTurn
  <2>3. medium'[s][o] = Byte(a)
    BY <1>3, <1>4, <1>6 DEF Byte
  <2> QED BY <1>2, <1>3, <2>2, <2>3
<1> QED BY <1>5, <1>6

(* The disk writes back early or because it is told to. *)
LEMMA WriteBackKeeps ==
  ASSUME StorageInv, device_writes_back \/ device_flushes
  PROVE  StorageInv'
<1>1. UNCHANGED <<call, pc, pos, out, buf, regs, image>>
  BY DEF device_writes_back, device_flushes, driver
<1>2. Addressed' = Addressed /\ InCall' = InCall
  BY <1>1 DEF Addressed, InCall, Weight
<1>3. DOMAIN cache = {} \/ (pc = "flush" /\ DOMAIN cache = {Sector} /\ cache[Sector] = buf)
  BY DEF StorageInv, MediumOK
<1>4. CASE DOMAIN cache = {}
  <2>1. device_flushes /\ DOMAIN cache' = {}
    BY <1>4 DEF device_writes_back, device_flushes
  <2>2. medium' = medium
    <3>1. medium' = [s \in Sectors |-> medium[s]]
      BY <1>4, <2>1 DEF device_flushes, OnMedium
    <3> QED BY <3>1 DEF StorageInv, Typed
  <2>3. \A a : Byte(a)' = Byte(a)
    BY <2>2 DEF Byte
  <2>4. Typed' /\ StreamOK' /\ BufferOK' /\ OutOK'
    BY <1>1, <1>2, <2>2, SameCall DEF StorageInv, Typed, StreamOK, BufferOK, OutOK
  <2>5. MediumOK'
    BY <1>1, <1>2, <1>4, <2>1, <2>3, SameCall DEF StorageInv, MediumOK
  <2> QED BY <2>4, <2>5 DEF StorageInv
<1>5. CASE pc = "flush" /\ DOMAIN cache = {Sector} /\ cache[Sector] = buf
  <2>1. medium' = OnMedium({Sector}) /\ DOMAIN cache' = {}
    BY <1>5 DEF device_writes_back, device_flushes
  <2>2. \A a \in Addresses : Byte(a)' = Expect(Reach, a)
    BY <1>5, <2>1, SectorGetsThere DEF Byte
  <2>3. medium' \in [Sectors -> [Offsets -> Int]]
    BY <1>5, <2>1 DEF OnMedium, StorageInv, Typed
  <2>4. Typed' /\ StreamOK' /\ BufferOK' /\ OutOK'
    BY <1>1, <1>2, <2>3, SameCall DEF StorageInv, Typed, StreamOK, BufferOK, OutOK
  <2>5. MediumOK'
    BY <1>1, <1>2, <1>5, <2>1, <2>2, SameCall DEF MediumOK, InCall
  <2> QED BY <2>4, <2>5 DEF StorageInv
<1> QED BY <1>3, <1>4, <1>5

(* After a power failure what is on the medium is what there is. *)
LEMMA PowerKeeps ==
  ASSUME StorageInv, power_fails
  PROVE  StorageInv'
<1>1. /\ pc' = "idle" /\ buf' = [o \in Offsets |-> Junk] /\ medium' = medium
      /\ DOMAIN cache' = {}
      /\ image' = [a \in Addresses |-> medium[a \div SectorSize][a % SectorSize]]
  BY DEF power_fails, Gone
<1>2. buf' \in [Offsets -> Int]
  <2>1. TotalSectors * SectorSize \in Nat
    BY Sizes, Layout
  <2> QED BY <1>1, <2>1 DEF Junk
<1>3. image' \in [Addresses -> Int]
  BY <1>1, AddressSector DEF StorageInv, Typed
<1>4. \A a \in Addresses : Byte(a)' = image'[a]
  BY <1>1 DEF Byte
<1> QED BY <1>1, <1>2, <1>3, <1>4
        DEF StorageInv, Typed, StreamOK, BufferOK, MediumOK, OutOK, InCall

(* It holds at the start. *)
LEMMA StorageInit == Init => StorageInv
<1> SUFFICES ASSUME Init PROVE StorageInv
  OBVIOUS
<1>1. TotalSectors * SectorSize \in Nat
  BY Sizes, Layout
<1>2. pc = "idle" /\ DOMAIN cache = {} /\ buf \in [Offsets -> Int]
  BY <1>1 DEF Init, Junk
<1>3. image \in [Addresses -> Int]
  BY AddressSector DEF Init
<1>4. ASSUME NEW s \in Sectors, NEW o \in Offsets
      PROVE  0 - (s * SectorSize + o + 1) \in Int
  BY <1>4, SectorAddress, AddressSector
<1>5. medium \in [Sectors -> [Offsets -> Int]]
  BY <1>4 DEF Init
<1>6. ASSUME NEW a \in Addresses PROVE Byte(a) = image[a]
  <2>1. PICK s \in Sectors, o \in Offsets :
          s = a \div SectorSize /\ o = a % SectorSize /\ a = s * SectorSize + o
    BY AddressSector
  <2>2. medium[s][o] = 0 - (s * SectorSize + o + 1)
    BY DEF Init
  <2>3. image[a] = 0 - (a + 1)
    BY DEF Init
  <2> QED BY <2>1, <2>2, <2>3 DEF Byte
<1> QED BY <1>2, <1>3, <1>5, <1>6
        DEF StorageInv, Typed, StreamOK, BufferOK, MediumOK, OutOK, InCall

(* Every step keeps it. *)
LEMMA StorageNext == StorageInv /\ [Next]_vars => StorageInv'
<1> SUFFICES ASSUME StorageInv, [Next]_vars PROVE StorageInv'
  OBVIOUS
<1>1. CASE begin_metadata \/ begin_data \/ begin_read
  BY <1>1, BeginKeeps DEF begin_metadata, begin_data, begin_read
<1> QED BY <1>1, ReadSectorKeeps, FetchKeeps, WriteSectorKeeps, StoreKeeps, FlushedKeeps,
           CopyKeeps, ReturnKeeps, ReadyKeeps, WriteBackKeeps, PowerKeeps DEF Next

(***************************************************************************)
(* For every size of sectors, entries, clusters and registers, and however *)
(* the disk orders what is in its cache: at every moment the medium holds  *)
(* all that the calls that returned have written and, of the call in       *)
(* progress, the bytes up to some sector, and an entry of the FAT or of    *)
(* the directory not in part.  It rests on diskstreamer_write reading a    *)
(* sector before it merges, on the positions of fat16.c keeping entries    *)
(* within a sector, and on disk_write_sector waiting for the flush.        *)
(***************************************************************************)
THEOREM StorageWritesDurable == Spec => []WritesDurable
<1>1. ASSUME StorageInv PROVE WritesDurable
  <2>1. CASE pc \notin {"idle", "done"} /\ call.op = "write"
    <3>1. InCall /\ StreamOK
      BY <1>1, <2>1 DEF StorageInv, Typed
    <3>2. PosOK
      BY <3>1, Where
    <3>3. /\ call.at \in Nat /\ call.len \in Nat /\ pos \in Nat /\ call.at <= pos
          /\ pos < call.at + call.len
      BY <3>1 DEF StreamOK, CallOK
    <3>4. pos \in Marks
      BY <3>1, <3>3 DEF StreamOK, Marks
    <3>5. Reach \in Marks /\ Reach >= pos
      <4>1. CASE Left > Part(SectorSize - Offset)
        <5>1. /\ Reach \in Nat /\ pos <= Reach /\ Reach < call.at + call.len
              /\ Reach % SectorSize = 0 /\ call.kind # "entry"
          BY <3>1, <4>1, WriteGoesOn
        <5> QED BY <3>3, <5>1 DEF Marks
      <4>2. CASE ~(Left > Part(SectorSize - Offset))
        <5>1. Reach = call.at + call.len
          BY <3>2, <3>3, <4>2 DEF PosOK
        <5> QED BY <3>3, <5>1 DEF Marks
      <4> QED BY <4>1, <4>2
    <3>6. \/ \A a \in Addresses : Byte(a) = Expect(pos, a)
          \/ \A a \in Addresses : Byte(a) = Expect(Reach, a)
      BY <1>1, <3>1 DEF StorageInv, MediumOK
    <3>7. PICK m \in Marks : m >= pos /\ \A a \in Addresses : Byte(a) = Expect(m, a)
      BY <3>3, <3>4, <3>5, <3>6
    <3>8. \A a \in Addresses : Byte(a) = IF a \in call.at .. m - 1 THEN a ELSE image[a]
      BY <2>1, <3>7 DEF Expect
    <3> QED BY <2>1, <3>7, <3>8 DEF WritesDurable
  <2>2. CASE ~(pc \notin {"idle", "done"} /\ call.op = "write")
    <3>1. \A a \in Addresses : Byte(a) = image[a]
      BY <1>1, <2>2 DEF StorageInv, Typed, StreamOK, MediumOK, Expect, InCall
    <3> QED BY <2>2, <3>1 DEF WritesDurable
  <2> QED BY <2>1, <2>2
<1> QED BY <1>1, StorageInit, StorageNext, PTL DEF Spec

(***************************************************************************)
(* For every layout of the volume, each read that fat16.c makes gets the   *)
(* bytes at its position, over as many sectors as it takes, and leaves the *)
(* stream behind them: diskstreamer_read never takes bytes from behind its *)
(* buffer, as it would for other callers.                                  *)
(***************************************************************************)
THEOREM StorageReadsExact == Spec => []ReadsExact
<1>1. ASSUME StorageInv PROVE ReadsExact
  <2> SUFFICES ASSUME pc = "done", call.op = "read"
               PROVE  /\ out = [i \in 1 .. call.len |-> image[call.at + i - 1]]
                      /\ pos = call.at + call.len
    BY DEF ReadsExact
  <2>1. pos = call.at + call.len /\ call.at \in Nat /\ call.len \in Nat
    BY <1>1 DEF StorageInv, StreamOK, CallOK
  <2>2. pos - call.at = call.len
    BY <2>1
  <2> QED BY <1>1, <2>1, <2>2 DEF StorageInv, OutOK
<1> QED BY <1>1, StorageInit, StorageNext, PTL DEF Spec
=============================================================================
