------------------------------ MODULE Storage ------------------------------
(***************************************************************************)
(* Between the FAT16 driver and the disk: the positions fat16.c computes,  *)
(* the byte streams over sectors (disk/streamer.c) and the ATA driver      *)
(* (disk/disk.c).  The disk is external: it answers a command in its own   *)
(* time, has a cache, and brings what is in the cache to the medium when   *)
(* it is told to, or earlier, in whatever order.  Power may fail.          *)
(*                                                                         *)
(* Bytes are integers that tell them apart: the byte at address a is       *)
(* -(a + 1) at first and a once it is written, so that a byte in a wrong   *)
(* place shows.                                                            *)
(***************************************************************************)
EXTENDS Integers, SequencesExt, FiniteSetsExt

CONSTANTS
  SectorSize,         \* PEACHOS_SECTOR_SIZE
  EntrySize,          \* PEACHOS_FAT16_FAT_ENTRY_SIZE
  ItemSize,           \* sizeof(struct fat_directory_item)
  HeaderSize,         \* sizeof(struct fat_h)
  Reserved,           \* reserved_sectors
  SectorsPerFat,      \* sectors_per_fat
  RootEntries,        \* root_dir_entries
  SectorsPerCluster,  \* sectors_per_cluster
  NClusters,          \* how many clusters there are
  Radix,              \* 256, what an address register of the disk holds
  HighRadix,          \* 16, what the highest one holds of the address
  IntBound,           \* 2^31, behind the largest int
  MaxWrites           \* bound: calls that write in a behaviour

ASSUME SizeAssumption ==
  /\ {SectorSize, EntrySize, ItemSize, HeaderSize} \subseteq Nat \ {0}
  /\ SectorSize % EntrySize = 0 /\ SectorSize % ItemSize = 0
  /\ HeaderSize <= SectorSize

(* The directory fills its sectors, as mkfs makes it. *)
ASSUME VolumeAssumption ==
  /\ {Reserved, SectorsPerFat, RootEntries, SectorsPerCluster, NClusters} \subseteq Nat \ {0}
  /\ (NClusters + 2) * EntrySize <= SectorsPerFat * SectorSize
  /\ (RootEntries * ItemSize) % SectorSize = 0
  /\ MaxWrites \in Nat

Copies   == 0 .. 1
Clusters == 2 .. NClusters + 1
Items    == 0 .. RootEntries - 1

-----------------------------------------------------------------------------
(* Where things are. *)

RootSize    == RootEntries * ItemSize
RootSector  == 2 * SectorsPerFat + Reserved
EndingSector == RootSector + RootSize \div SectorSize
ClusterSize == SectorsPerCluster * SectorSize

(* Positions are computed and kept in an int. *)
int32(x) == ((x + IntBound) % (2 * IntBound)) - IntBound

fat_position(c, k) ==
  int32((Reserved + k * SectorsPerFat) * SectorSize + c * EntrySize)

item_position(i) == int32(RootSector * SectorSize + i * ItemSize)

cluster_to_sector(c) == EndingSector + (c - 2) * SectorsPerCluster

data_position(c, off) == int32(cluster_to_sector(c) * SectorSize + off)

TotalSectors == EndingSector + NClusters * SectorsPerCluster
Sectors      == 0 .. TotalSectors - 1
Addresses    == 0 .. TotalSectors * SectorSize - 1

ASSUME RegisterAssumption == /\ Radix \in Nat /\ Radix > 1 /\ HighRadix \in Nat \ {0}
                             /\ TotalSectors <= Radix * Radix * Radix * HighRadix

(* The volume is below 2 GB: the image of the Makefile has 16 MB, although *)
(* the header that boot.asm gives it would allow for more.                 *)
ASSUME PositionAssumption == IntBound \in Nat /\ TotalSectors * SectorSize < IntBound

(* The calls fat16.c makes of the streams. *)
Access(op, kind, at, len) == [op |-> op, kind |-> kind, at |-> at, len |-> len]

MetadataWrites ==
  {Access("write", "entry", fat_position(c, k), EntrySize) : c \in Clusters, k \in Copies}
    \cup {Access("write", "entry", item_position(i), ItemSize) : i \in Items}

(* fat16_write_cluster_data: from anywhere in a cluster to its end at most. *)
DataWrites ==
  {Access("write", "data", data_position(w[1], w[2]), w[3]) :
     w \in {v \in Clusters \X (0 .. ClusterSize - 1) \X (1 .. ClusterSize) :
              v[2] + v[3] <= ClusterSize}}

(* The header, entries of the first FAT, the items one by one and all of   *)
(* them; of files, single bytes for sys_read, and whole clusters from      *)
(* their start for a program that is loaded.                               *)
Reads ==
  {Access("read", "header", 0, HeaderSize),
   Access("read", "root", item_position(0), RootSize)}
    \cup {Access("read", "entry", fat_position(c, 0), EntrySize) : c \in Clusters}
    \cup {Access("read", "item", item_position(i), ItemSize) : i \in Items}
    \cup {Access("read", "byte", data_position(w[1], w[2]), 1) :
            w \in Clusters \X (0 .. ClusterSize - 1)}
    \cup {Access("read", "load", data_position(w[1], 0), w[2]) :
            w \in Clusters \X (1 .. ClusterSize)}

None == Access("none", "none", 0, 0)

-----------------------------------------------------------------------------
VARIABLES
  call,    \* the call of a stream in progress
  pc,      \* "idle", "done", or the step of the loop over the sectors
  pos,     \* stream->pos
  out,     \* what was read so far
  buf,     \* the buffer of one sector on the stack
  regs,    \* the address registers of the disk, low to high
  status,  \* external: "idle", "busy" or "drq"
  op,      \* external: the command the disk has
  cache,   \* external: sectors written and not yet on the medium
  medium,  \* external: the sectors on the medium
  image,   \* ghost: what the bytes are by the calls that returned
  writes   \* the calls that wrote

driver == <<call, pc, pos, out, buf, regs>>
disk   == <<status, op, cache, medium>>
vars   == <<driver, disk, image, writes>>

Offsets == 0 .. SectorSize - 1

(* A read of what is on the stack behind buf. *)
Junk == 0 - 10 * (TotalSectors * SectorSize)

Init ==
  /\ call = None /\ pc = "idle" /\ pos = 0 /\ out = <<>>
  /\ buf = [o \in Offsets |-> Junk] /\ regs = [r \in 1 .. 4 |-> 0]
  /\ status = "idle" /\ op = "none" /\ cache = [s \in {} |-> 0]
  /\ medium = [s \in Sectors |-> [o \in Offsets |-> 0 - (s * SectorSize + o + 1)]]
  /\ image = [a \in Addresses |-> 0 - (a + 1)]
  /\ writes = 0

Sector == pos \div SectorSize
Offset == pos % SectorSize
Left   == call.at + call.len - pos

(* diskstreamer_seek and the beginning of diskstreamer_read or _write. *)
begin(c) ==
  /\ pc = "idle"
  /\ c.op = "write" => writes < MaxWrites
  /\ writes' = IF c.op = "write" THEN writes + 1 ELSE writes
  /\ call' = c /\ pos' = c.at /\ out' = <<>> /\ pc' = "read"
  /\ UNCHANGED <<buf, regs, disk, image>>

begin_metadata == \E c \in MetadataWrites : begin(c)
begin_data     == \E c \in DataWrites : begin(c)
begin_read     == \E c \in Reads : begin(c)

-----------------------------------------------------------------------------
(* The ATA driver. *)

(* The address, a byte in each register; the highest has four bits for it, *)
(* the others select the drive and the mode.                               *)
Weight == <<1, Radix, Radix * Radix, Radix * Radix * Radix>>

Holds  == <<Radix, Radix, Radix, HighRadix>>

registers(lba) == [r \in 1 .. 4 |-> (lba \div Weight[r]) % Holds[r]]

(* The start of disk_read_sector. *)
read_sector ==
  /\ pc = "read"
  /\ regs' = registers(Sector) /\ op' = "read" /\ status' = "busy"
  /\ pc' = "fetch"
  /\ UNCHANGED <<call, pos, out, buf, cache, medium, image, writes>>

Addressed ==
  regs[1] * Weight[1] + regs[2] * Weight[2] + regs[3] * Weight[3] + regs[4] * Weight[4]

(* Data to be had or to be taken, the loop on bit 0x08 ends. *)
fetch ==
  /\ pc = "fetch" /\ status = "drq"
  /\ buf' = IF Addressed \in DOMAIN cache THEN cache[Addressed] ELSE medium[Addressed]
  /\ status' = "idle" /\ op' = "none"
  /\ pc' = IF call.op = "write" THEN "write" ELSE "copy"
  /\ UNCHANGED <<call, pos, out, regs, cache, medium, image, writes>>

Part(room) == Min({Left, room})

(* The bytes of the call that are in this sector, over what was there. *)
merged ==
  [o \in Offsets |->
     IF o \in Offset .. Offset + Part(SectorSize - Offset) - 1
       THEN pos + (o - Offset) ELSE buf[o]]

(* The start of disk_write_sector. *)
write_sector ==
  /\ pc = "write"
  /\ buf' = merged
  /\ regs' = registers(Sector) /\ op' = "write" /\ status' = "busy"
  /\ pc' = "store"
  /\ UNCHANGED <<call, pos, out, cache, medium, image, writes>>

(* The words are given to the disk, and the command to flush. *)
store ==
  /\ pc = "store" /\ status = "drq"
  /\ cache' = [s \in DOMAIN cache \cup {Addressed} |->
                 IF s = Addressed THEN buf ELSE cache[s]]
  /\ op' = "flush" /\ status' = "busy"
  /\ pc' = "flush"
  /\ UNCHANGED <<call, pos, out, buf, regs, medium, image, writes>>

Applied ==
  [a \in Addresses |-> IF a \in call.at .. call.at + call.len - 1 THEN a ELSE image[a]]

(* On with the next sector, or to the end of the call. *)
Advance(n) ==
  /\ pos' = int32(pos + n)
  /\ IF Left > n
       THEN pc' = "read" /\ UNCHANGED <<call, image>>
       ELSE /\ pc' = "done" /\ UNCHANGED call
            /\ image' = IF call.op = "write" THEN Applied ELSE image

(* The call returns.  Its frame is gone, and the disk does not look at its *)
(* registers before they are set again.                                    *)
Gone ==
  /\ call' = None /\ pc' = "idle" /\ pos' = 0 /\ out' = <<>>
  /\ buf' = [o \in Offsets |-> Junk] /\ regs' = [r \in 1 .. 4 |-> 0]

return ==
  /\ pc = "done" /\ Gone
  /\ UNCHANGED <<disk, image, writes>>

(* Mutant: nobody waits for the disk. *)
flushed_early ==
  /\ pc = "flush"
  /\ Advance(Part(SectorSize - Offset))
  /\ UNCHANGED <<out, buf, regs, disk, writes>>

(* Mutant: the loop is on the bit for data. *)
flushed_on_data ==
  /\ pc = "flush" /\ status = "drq"
  /\ Advance(Part(SectorSize - Offset))
  /\ UNCHANGED <<out, buf, regs, disk, writes>>

(* The loop on bit 0x80 ends. *)
flushed ==
  /\ pc = "flush" /\ status = "idle"
  /\ Advance(Part(SectorSize - Offset))
  /\ UNCHANGED <<out, buf, regs, disk, writes>>

(* Mutant: the offset is not added. *)
taken_from_start(n) == [i \in 1 .. n |-> buf[i - 1]]

(* diskstreamer_read copies from the offset on, up to a sector's length;   *)
(* what is behind the sector is not in the buffer.                         *)
taken(n) == [i \in 1 .. n |-> IF Offset + i - 1 \in Offsets THEN buf[Offset + i - 1] ELSE Junk]

copy ==
  /\ pc = "copy"
  /\ LET n == Part(SectorSize)
     IN  out' = out \o taken(n) /\ Advance(n)
  /\ UNCHANGED <<buf, regs, disk, writes>>

-----------------------------------------------------------------------------
(* The disk. *)

device_ready ==
  /\ status = "busy" /\ op \in {"read", "write"}
  /\ status' = "drq"
  /\ UNCHANGED <<driver, op, cache, medium, image, writes>>

OnMedium(S) == [s \in Sectors |-> IF s \in S THEN cache[s] ELSE medium[s]]

device_writes_back ==
  /\ \E s \in DOMAIN cache :
       /\ medium' = OnMedium({s})
       /\ cache' = [t \in DOMAIN cache \ {s} |-> cache[t]]
  /\ UNCHANGED <<driver, status, op, image, writes>>

device_flushes ==
  /\ status = "busy" /\ op = "flush"
  /\ medium' = OnMedium(DOMAIN cache) /\ cache' = [s \in {} |-> 0]
  /\ status' = "idle" /\ op' = "none"
  /\ UNCHANGED <<driver, image, writes>>

(* What the cache holds is gone, and what the kernel was about. *)
power_fails ==
  /\ pc \notin {"idle", "done"} /\ call.op = "write"
  /\ Gone
  /\ status' = "idle" /\ op' = "none" /\ cache' = [s \in {} |-> 0]
  /\ image' = [a \in Addresses |-> medium[a \div SectorSize][a % SectorSize]]
  /\ UNCHANGED <<medium, writes>>

Next ==
  \/ begin_metadata \/ begin_data \/ begin_read
  \/ read_sector \/ fetch \/ write_sector \/ store \/ flushed \/ copy \/ return
  \/ device_ready \/ device_writes_back \/ device_flushes \/ power_fails

(* The disk answers; the kernel runs on, with interrupts off. *)
Fairness ==
  /\ WF_vars(device_ready) /\ WF_vars(device_flushes)
  /\ WF_vars(read_sector) /\ WF_vars(fetch) /\ WF_vars(write_sector)
  /\ WF_vars(store) /\ WF_vars(flushed) /\ WF_vars(copy)
  /\ WF_vars(return)

Spec == Init /\ [][Next]_vars /\ Fairness

-----------------------------------------------------------------------------
Byte(a) == medium[a \div SectorSize][a % SectorSize]

(* How far a write may have got on the medium: to the start of a sector,   *)
(* or all the way; an entry of the FAT or of the directory not or wholly.  *)
Marks ==
  LET end == call.at + call.len
  IN  {call.at, end} \cup
      (IF call.kind = "entry" THEN {}
       ELSE {a \in call.at .. end : a % SectorSize = 0})

(***************************************************************************)
(* Writes are exact, in order and durable.  At every moment, and so when   *)
(* power fails, the medium holds all that the calls that returned have     *)
(* written, of the call in progress the bytes up to some sector, at least  *)
(* those the stream has moved past, and nothing else is touched.  An entry *)
(* of the FAT or of the directory is never there in part, on which the     *)
(* order of the updates in fat16.c rests.                                  *)
(***************************************************************************)
WritesDurable ==
  IF pc \notin {"idle", "done"} /\ call.op = "write"
    THEN \E m \in Marks :
           /\ m >= pos
           /\ \A a \in Addresses : Byte(a) = IF a \in call.at .. m - 1 THEN a ELSE image[a]
    ELSE \A a \in Addresses : Byte(a) = image[a]

(***************************************************************************)
(* Each call that fat16.c makes to read gets the bytes at the position it  *)
(* sought, across sectors too, and leaves the stream behind them, where    *)
(* the count of the directory's entries goes on.                           *)
(***************************************************************************)
ReadsExact ==
  pc = "done" /\ call.op = "read" =>
    /\ out = [i \in 1 .. call.len |-> image[call.at + i - 1]]
    /\ pos = call.at + call.len

(***************************************************************************)
(* Every call returns: the loops of disk.c, which have no limit, end if    *)
(* the disk answers.                                                       *)
(***************************************************************************)
CallReturns == pc # "idle" ~> pc = "idle"
=============================================================================
