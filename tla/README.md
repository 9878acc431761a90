# A TLA+ model of the PeachOS file manager kernel

This directory holds TLA+ modules that model the kernel in `src/`, TLC
configurations that check them on small instances, and TLAPS proofs for every
size of the instance. `PROJECT.json` maps each definition to the source lines it
stands for and lists the runs, mutants, findings, hazards and theorems.

## The system

A 32-bit single-processor kernel boots one program, the shell. The shell reads a
line, forks, lets the child run the command (`ls`, `cat`, `write`, `del`) and
waits for it. Files live in the root directory of a FAT16 image.

| Component | State | Operations | Meets the others through |
|---|---|---|---|
| Kernel heap (`memory/heap`) | pool of 4096-byte blocks, one flag byte per block | `kmalloc`, `kzalloc`, `kfree` | called by everything |
| FAT16 driver (`fs/fat/fat16.c`) | on disk: two FAT copies, root directory, clusters; in memory: the directory cache `item`, its `total`, a clone of the entry in each open file | open, read, write, seek, delete, readdir, mount | streamer below, `file.c` above |
| VFS (`fs/file.c`) | table of file descriptors | `fopen` ... `fdelete`, `freaddir` | path parser, driver, system calls |
| Tasks and processes (`task/`) | linked list of tasks, `current_task`, `current_process`, process table | load, fork, free, switch | timer, system calls, paging, heap |
| Interrupts (`idt/`, `isr80h/`) | the saved registers of the current task | timer, keyboard, `int 0x80` | switches tasks, calls all of the above |
| Keyboard (`keyboard/`) | a circular buffer per process | push from the interrupt, pop from `sys_readline` | `current_process` |
| Paging (`memory/paging`) | a directory and tables per task | new, copy, map, free | tasks; copies of user memory |
| Streamer, ATA driver (`disk/`) | a position per stream | read, write | port I/O |
| Path parser, strings, terminal, GDT/TSS, boot loader | small or none | | |
| Shell (`programs/shell`) | its stack and line buffer, shared with its child after fork | prompt, fork, wait, commands | system calls |

What is hard here:

* **Concurrency.** A system call runs with interrupts off from start to end, so
  calls never interleave. Two things do: the timer switches tasks between any two
  user instructions, and `sys_readline` waits with interrupts on inside the
  kernel, where the timer does not switch.
* **Failure.** Nothing in the file layer is journalled: each call is a sequence of
  disk writes and power can fail between any two, and the disk has a cache.
* **Shared memory.** A fork copies the page directory and not the memory: parent and
  child run on one stack. The kernel reaches user memory by changing an entry of the
  caller's directory for the time of a copy, and never flushes a translation.
* **Stale copies.** `item` caches the directory, each descriptor caches an entry,
  `total` caches a bound, `sys_wait` takes a slot number for a process.
* **Limits.** Heap, disk, directory, descriptor table and process table fill up,
  several with an off-by-one at the end.

What makes each part correct: heap, allocations in use are disjoint and all that is
freed comes back; files, chains stay apart and whole, what was written reads back,
every cluster belongs to a file, a failure loses space at worst; names, a file is
found under its name and under no other; disk, what a call wrote is on the medium
when it returns, and entries are there whole or not at all; tasks, no pointer leads to
a freed task, everyone gets the processor, a parent goes on when its child has exited;
paging, a task sees its memory and nothing else; console, keys come out once and in order and the
screen shows the line.

## The modules

| Module | Stands for |
|---|---|
| `Heap` | `heap.c`, `kheap.c`; the search of `heap_get_start_block` as a definition and as the loop it is |
| `HeapProofs`, `Extrema` | theorems on `Heap`; lemmas on `Min`, `Max`, counting scans and division, for all proof modules |
| `Fat16` | `fat16.c` under `file.c`, as `isr80h/io.c` calls them |
| `FlatStore` | the abstract specification of the file layer: a store of files by name |
| `Fat16Store` | the refinement mapping from `Fat16` to `FlatStore` |
| `MCFat16` | TLC instances of `Fat16Store` |
| `Fat16Proofs` | theorems on `Fat16`: types and chains; then both copies of the FAT, files, names and the directory |
| `Fat16StoreProofs` | `Fat16` implements `FlatStore`, and a read delivers what the file holds |
| `Names`, `MCNames` | `pparser.c`, the name conversions of `fat16.c`, `strncpy` and `istrncmp`, the shell's `build_path` |
| `NamesProofs` | theorems on `Names` |
| `Storage` | positions of `fat16.c`, `streamer.c`, `disk.c`, and the disk |
| `StorageProofs` | theorems on `Storage` |
| `Tasks` | `process.c`, `task.c`, the timer, the process calls; what is assumed of programs |
| `Memory`, `MCMemory` | `Tasks` composed with `paging.c`, `process_map_memory`, the copies of `task.c`, the directory switches of `idt.c` |
| `MemoryProofs` | theorems on `Tasks`; `Memory` implements `Tasks`; theorems on `Memory` |
| `Console`, `MCConsole` | `classic.c`, `keyboard.c`, `sys_readline`, the terminal of `kernel.c` |
| `ConsoleProofs` | theorems on `Console` |
| `Shell` | `shell.asm` |

Definitions named `..._keeps_...`, `free_stays` and the like, marked "Mutant", are
wrong variants of the definition that follows them: with the variant in its place
the property `PROJECT.json` names must fail.

### Heap

`table` is the table of flags, each byte the set of its flags; `held` is a ghost, the
allocations callers own. `kmalloc` is align, search, mark; `kfree` is the walk along
`HAS_NEXT`. The search is stated declaratively (first fit; with no fit, the start
of the free run at the end, however short; `NULL` only if the last block is taken)
and `ScanAgrees` compares it with the loop and its counters `bc` and `bs` (`Scan`). Callers
never ask for 0 bytes and free only what they hold, once. `kzalloc` differs from
`kmalloc` by a `memset` only. The entries written past the table by the finding
below have no effect in the model.

### Fat16

One action is one disk write with the memory accesses around it; `pc` says where
the running call is. `SetFatEntry` writes the first copy of the FAT and leaves
the second write in `mirror`, which `SetFatEntry2` does before anything else can
happen. So a `restart` between any two disk writes is one more action.

| Call | Actions |
|---|---|
| `fopen("r")` | `fopen_r` |
| `fopen("w")`, file exists | `fopen_w_exists`, `free_cluster_chain`*, `truncated` |
| `fopen("w")`, new file | `fopen_w_new` |
| `fwrite` | `fwrite`, (`next_cluster`, `alloc_cluster`, `link_cluster`, `write_cluster_data`)*, `written` |
| `fdelete` | `fdelete`, `free_cluster_chain`*, `deleted` |
| `fread`, `fseek`, `fclose` | one action each |
| `freaddir` | the operator `readdir`, which changes nothing |
| mount | `restart` |

Bytes are counted in units; a unit is what one write of a sector takes to the disk, and
`write_cluster_data` is one unit. The unit at offset p of file n is written as `<<n, p>>`,
so a unit found in another file, at another offset or in a reused cluster shows.
Directory entries keep what the driver reads back: the kind of first byte, the name,
the first cluster and the size. `to83` is the name conversion; the runs use names it
keeps.

Callers are parameters. `Polite`: they write only what they opened to write, read
only what they opened to read, and neither truncate nor delete what is open for
writing; the shell does this. `Seeks`: they seek (no system call does, but `fseek` is
there for the kernel). `PowerFails`: at which `pc` the machine may restart.

### FlatStore and Fat16Store

`FlatStore` is what a caller may rely on: `files` maps the names of the files that exist
to their contents; opening to write empties a file, a write changes the units it covers and
extends the file, a delete removes it, each at one instant. What lies in a gap behind
the old end of a file is not specified. `Fat16Store` maps the driver's state to it:
the file of a name is what the disk holds for the entry in `item`, the clusters of the
chain as the writing calls follow it, up to the size. That is the directory as `ls`,
`fdelete` and `fopen` for writing scan it. Two things stand between it and a reader, and
each has a property of its own: `fopen` for reading looks at the first `total` slots only
(`LookupReaches`, which a restart breaks), and `fat16_get_cluster_for_offset` has its own
end marks (`ReadsStored`: inside a file it comes to the file's cluster or to an error).
Truncation and deletion take effect with their first step (from there on
they cannot fail), a write with the flush of the entry; only units that lay in the file
before are overwritten where they are, and each of these is a write of the store by
itself. All the other steps (marking and linking clusters, both copies of the FAT, data
behind the end) are stutters, and so is a restart: an append that power cuts off has not
happened.

### Names

One action is one step of a call: `call` copies the path in, `get_drive` and
`parse_path_part` take it apart, `open_read`, `open_write`, `delete` or `refuse` do the
rest on a directory that is only names. Strings are sequences over a small alphabet
and `Base` and `Ext` stand for 8 and 3. Two ghosts: `made`, the 8.3 names written, and
`cut`, the names that other names were cut to. Two things the model shows and no
comment contradicts: opening to write and deleting look at the first part of a path
alone (`del a/b` deletes `a`), and a path with two parts can never be read, as line 523
of `fat16.c` takes whatever it found for a file.

### Storage

One action is one exchange with the disk. `call` is one call of a stream with its
position; the loop over the sectors reads a sector, changes it, writes it and flushes.
The calls are the ones `fat16.c` makes, with the positions its formulas give. The disk
is external: it answers when it likes, keeps sectors in a cache, writes them back
early in any order, and loses the cache with the power. A byte is the address it
belongs to, so a byte in a wrong place shows. Positions are 32-bit ints (`int32`,
`IntBound` for 2^31) and addresses have 28 bits, four of them in the highest register
(`Holds`, `HighRadix` for 16). `Fat16` relies on `WritesDurable` where it
takes a write of an entry as one step: entries do not cross sectors.

### Memory

`Memory` adds to each action of `Tasks` what it does to page directories, and splits a
system call into its steps: `kpc` is where the kernel is and `loaded` is the directory in
the processor. Tables are objects of the heap that are allocated and freed; each
address is a number and each entry a page and whether it can be written. A copy
between kernel and task is `copy_map`, `copy_bytes`, `copy_back`, `copy_restore`.

### Console

`key` is the interrupt, which comes in user code and while `sys_readline` halts; `drain`
and `line` are the bodies of the two loops of `sys_readline`, each with its echo on the
terminal. `unread` is a ghost, the keys a process has not popped; `before` the screen
when the line began. `timer`, `fork` and `exit` change who gets the keys.

### Shell

The program is a table, `Code`: at each label the words that are pushed, the call that
gets them and the jump behind. Each label is four steps (`push`, `trap`, `test`,
`jump`) and the timer may come between any two. `stack` has the words behind the common
stack pointer and is one for all processes, as is `.bss`. `task_return` loses the flags,
as `task.asm` does. A function whose return address was overwritten ends in `lost`.

### Tasks

A process and its task are one object, as they are allocated and freed together. An
object that is freed keeps its fields, so stale pointers are followed as the code
follows them. `maps[t]` says whose memory the task's directory maps: a fork copies
the parent's directory, so a child runs in its parent's memory. `waiting` and `kids`
are the program's side: the pid it polls with `sys_wait`, and its children alive.
`sys_wait` takes the pid from the user stack (`stack_item`), which a child shares.

`Nested` is an assumption on programs and an idealisation, not a fact about the shell
(`Disciplined`): a process that has forked does nothing but wait for that child, and the
word it pushed is the pid when the kernel reads it. The kernel enforces neither, and the
run `shell` shows that the shell, which means to do this, does not keep to it: its child
overwrites the word, and the parent leaves its wait. What is checked and proved with
`Nested` says what the kernel does for programs that do keep to it, with stacks of
their own; without `Nested` the word is any pid and only `TasksTyped` is proved. Children
are allowed to fork again, which the shell's do not, so that the table fills up. `timer` is
enabled in user mode only.

## Runs

| Run | States | Checks |
|---|---|---|
| `heap` | 2 467 | `TypeOK`, `NoOverlap`, `TableIsHeld`, `ScanAgrees` |
| `fat16` | 747 552 | `TypeOK`, `NoCrossLink`, `NoLostClusters`, `NoDangling`, `LookupReaches`, `ListsAll`, `UniqueNames`, `OthersUntouched`, `ImplementsStore` |
| `fat16_power` | 1 551 072 | `NoCrossLink`, `NoDangling`, `ImplementsStore` with power failures while idle or inside writes |
| `fat16_seek` | 56 964 | `NoLostClusters`, `ReadsStored`, `Returns`, `ImplementsStore` with readers and seeks |
| `tasks` | 7 865 | `TypeOK`, `NothingFreed`, `AllScheduled`, `DirectoriesOwned`, `MappingsKept`, `CopyReaches`, `Runs`, `Resumes`, `NoStaleTranslation` on `Memory` |
| `console` | 926 000 | `TypeOK`, `KeysInOrder`, `ScreenShowsLine`, `LineReturned` |
| `names` | 1 848 000 | `TypeOK`, `ParsedRight`, `FoundAgain` |
| `storage` | 636 363 | `WritesDurable`, `ReadsExact`, `CallReturns` |

Four more runs end in a violation and show a disagreement between a comment and the
code. On `fat16_end_of_chain`: with the geometry of `boot.asm` cluster 0xFFFF is sector
8388940; line 423 of `fat16.c` computes its byte position in a 32-bit int, which wraps to
169984, that is sector 332, inside the first FAT. The disk has that sector, and bytes of the
FAT are returned as bytes of the file. In the model such a read ends with `ret = "past"`.

| Run | Shows |
|---|---|
| `heap_pool` | a request bigger than the free run at the end of the pool is granted there, past the "100MB heap size" (three `kmalloc`s, of 1, 3 and 3 of six blocks) |
| `fat16_lookup` | after a delete and a restart `total` no longer lets "future searches reach" a file |
| `fat16_end_of_chain` | the read path does not know 0xFFFF for the end of a chain, although "values >= this are EOC when reading": a read past the last cluster takes 0xFFFF for a cluster and answers ok |
| `shell` | the child overwrites the pid its parent pushed for `sys_wait`, and the shell says the child exited while it runs |

**Bounds.** Heap: six blocks of two bytes and requests of one to three blocks make
every pattern of fragmentation of three allocations, a full pool and a tail that is
too short. Files: two names and two slots fill the directory; three clusters of two
units and sizes up to three units make files of none, one and two clusters, writes
inside a cluster, up to its end and across it, and a full disk; three descriptors
make a full table and reach the index that `file_get_descriptor` refuses.
`MaxWrite <= ClusterSize` is true of the system: a call writes less than 4096 bytes
and the image has clusters of 64 KB. `fat16_power` has clusters of one unit, so that
every write starts a cluster. `fat16_seek` has one name more than slots and files
of up to five units on two clusters, so that a write behind a gap takes several
clusters or fails. Tasks: three slots and four objects make a full table, reuse of
slots and reuse of freed memory; pages of two units, a program of a page and a half,
and four tables of five pages make ranges that cross a table and sizes that are
rounded up. Console: buffers of two keys with counters that wrap at four, lines of up
to two characters on a screen of two by two, one code behind the end of the table.
Names: fields of one character and every argument of up to four characters of a
lower and an upper case letter, slash, dot and space, with paths cut at six; two slots
make a full directory. Storage: sectors of four bytes, entries of two, clusters of two
sectors, so that data crosses sectors and entries lie side by side in one; registers
of one bit, the highest too (`HighRadix = 2`), so that each address takes all four;
`IntBound` is the least power of two above the bytes of the volume, as `PositionAssumption`
needs it; two writing calls (`MaxWrites`) make
a write over and beside an earlier one, with a power failure in either. Shell: two
processes, the shell and one child.

**Fairness.** `Fat16`: weak fairness of `Step`, the rest of a running call; a system
call has the processor to itself until it returns. Nothing makes a caller call.
`Tasks` and `Memory`: IRQ 0 recurs and one that comes while the kernel runs is delivered
on its return, which makes `timer` weakly fair in `Tasks` and `timer_switch` strongly fair
in `Memory`, where a system call may begin in between; a time slice of 55 ms is long
enough for one turn of a polling loop, so a program that is scheduled again and again
gets to ask (strong fairness of `wait`, and in `Memory` of the entry to it and the return
from it). The steps of a copy are weakly fair. Nothing is assumed about keys, so `Runs`
and `Resumes` allow for someone reading a line: there the other processes do stand
still. `Console`: weak fairness of the two loops, which the timer wakes; nobody is
assumed to type. `Storage`: weak fairness of the driver, which runs with interrupts
off, and of the disk's answers, without which the polling loops have no end.

## Proofs

Checked by TLAPS for all values of the constants that satisfy the named assumptions.

**Heap.** `HeapTyped`, `HeapNoOverlap`, `HeapTableIsHeld`, from `HeapInv`: the two
properties and, for each allocation, `ChainOK`: its blocks are taken and have
`HAS_NEXT` except for the last. Without `ChainOK` nothing says where the walk of
`kfree` stops. An allocation past the pool is covered: its flags chain to the end
of the table, where the walk stops too. `HeapScanAgrees`: the loop and the declarative
search agree, for every table. The loop is a recursive function of the number of blocks
seen; `ScanInv` is its invariant (until the break `bc` is the length of the free run that
ends there, `bs` its start, and no run that is long enough ends earlier), shown for every
block by taking the first at which it fails.

**Fat16.** The hypotheses are on callers and power failures. `Careful`: polite callers,
and no power failure inside truncation or deletion. `Steady`: in addition none inside
a write. They are what the runs assume too.

* `Fat16Typed`: `TypeOK` with `ControlOK` (the locals a step uses are set), for every kind
  of caller and of power failure.
* `Fat16NoCrossLink` (`Careful`), by `CrossInv`: links and first clusters lead to taken
  clusters (else an allocation could take a cluster that something leads to), memory and
  disk have the same directory, a descriptor open for writing has the entry of its slot
  and is alone in that, nothing but what is being freed leads to the cluster freeing has
  come to, and the cluster a write has just taken is led to by nothing.
* `Fat16NoDangling` (`Careful`), by `CopiesInv`: every link of the second copy of the FAT is
  one of the first, but for the cluster that is being freed; what `mirror` still has to
  write frees a cluster that nothing leads to in that copy, or links to one that is taken
  there. That order is what matters when power fails between the two writes.
* `Fat16OthersUntouched` (`Careful`), an action property, by `WalkInv`: the cluster that a
  write has come to is in the chain of the file it works on. With `NoCrossLink` that
  keeps its changes of the FAT out of the other chains.
* `Fat16NoLostClusters` (`Steady`), by `Accounted`: each taken cluster is in the chain of
  a file, is still to be freed, or is the running write's. `EmptyAtStart` and
  `OneCluster` are there because a write that fails for want of a second cluster on a
  file that had none would leave the first to nobody; with `MaxWrite <= ClusterSize` no
  call needs two. After a power
  failure inside a write it is false: the cluster just marked is lost.
* `Fat16UniqueNames` (`Careful`, and names that the 8.3 conversion keeps) and
  `Fat16ListsAll` (`Careful`), by `Packed`: no slot in use is behind one that was never
  used, which is where the scans stop.
* `Fat16LookupReaches` (polite callers, no restart): `total` is above every slot in use. After
  a restart this is false, which is the finding of `fat16_lookup`.

`Fat16ImplementsStore` (`Careful` and `KeptNames`): the driver implements `FlatStore`, for
every size of disk, clusters, directory and descriptor table. `KeptNames` says that the 8.3
conversion keeps the names that are used, as for `Fat16UniqueNames`. There is no bound on
the number of clusters, as the store is what the disk holds. What a reader gets of it is
said by two more theorems: `Fat16LookupReaches` above, until a restart, and
`Fat16ReadsStored` (same hypotheses, every disk): below the size of a file
`fat16_get_cluster_for_offset` comes to the cluster the file has there or reports an error,
never to another. The error is real: it takes 0xFF0, 0xFF6, 0xFF7, 0xFF8 and 0xFFF for the
end of a chain, as FAT12 would, so that a chain through a cluster of that number is there
and cannot be read to its end. The argument:

* A file is followed by `Follow`, a recursive function of the number of links to go, with
  the end marks as a parameter: `StoredAt` with those of the writing calls, `ClusterFor` with
  those of the read path. The walk lemmas say what is needed of it: it stays in the chain,
  comes by a cluster once only, and a change of the FAT outside of the chain changes nothing
  on it. `WalkOrStop`: where the one walk comes to a cluster, the other comes to the same or
  has stopped.
* `Covered`: a file that is not empty has, in the FAT, a cluster for each unit below its
  size, so that every unit shown is read from a cluster of the file's own. `Placed`: the
  clusters that a write has come to lie where its offset says. `Progress`: the units of the
  running write below its position are found already by a walk from its first cluster,
  whatever size still stands in the entry. Hence what a write puts behind the end of its
  file shows with the flush of the entry, all at once, and there is no unit below the new
  size that is not in a cluster of the file.
* Each step is then one of the store's operations or a stutter: opening to write and
  deleting show with their first step; `write_cluster_data` shows as a write of the units
  that were in the file before, and `written` as the write. `NoCrossLink` is why none of
  them changes what is read of another file.

**Names.** For every set of arguments and paths and every `Base`, `Ext`, `MaxPath` and
`NSlots`:

* `NamesTyped`.
* `NamesParsedRight`, by `ParseInv`: what the parts found so far make is the path as far
  as the parser is, and between that and what is left to parse there is one slash, or
  nothing is left. What `FlattenSeq` makes of the parts is followed through its
  recursion (`FlattenAppend`).
* `NamesFoundAgain`, by `DirInv`: the names in the directory are in upper case, each name
  that was made has a slot, each slot a name that was made or cut, and two slots have the
  same name only if it was cut. The last part is what `fdelete` needs, which gives up one
  slot and must leave none behind. Below it lies `ReadBack`:
  `fat16_get_full_relative_filename` undoes `fat16_name_to_83` on every name of the 8.3
  form, and `SameName`: `istrncmp` compares as equality in upper case.

**Tasks.** `TasksTyped` for every kind of process. `TasksNothingFreed` and
`TasksAllScheduled` for nested ones (see the caveat on `Nested` above), by `StackInv`: the
list is a stack, `next` and `prev` agree, each task's next is its one child, slots in use are the
first ones, and everyone runs in the memory of the head.

**Memory.** `MemoryImplementsTasks`: each step is a step of `Tasks` or leaves it alone, so
that `StackInv` holds here. On top of it, for nested processes:

* `MemoryDirectoriesOwned` and `MemoryNoStaleTranslation`, by `TablesInv`: which directory
  is loaded at each point of a system call (`LoadedOK`), tables have their types, and the
  tables in use are those of the living tasks and the kernel, no two alike.
* `MemoryMappingsKept` and `MemoryCopyReaches`, by `MapsInv`: each task's entries are what
  `process_map_memory` gave the head, but for the one entry a running copy replaced, which
  it holds. `LayoutAssumption`: the stack ends below the program and the heap, from where
  the kernel's buffers are, begins behind it. `HeapAssumption`: there is a block for every
  table of every directory. `paging_map_to` is written in closed form (which
  pages of the range map to what) so that no recursion stands between the model and the
  provers.

**Console.** `ConsoleKeysInOrder` by `KeysInv`: the buffer holds, from head to tail modulo its
size, the keys that are not yet read, and these are no more than it has room for; the
counters wrap at a multiple of the size. `ConsoleTyped` and `ConsoleScreenShowsLine` by
`LineInv`: the terminal is what printing the line on the screen of before makes it. `Printed`
is a recursive function; that it takes terminals to terminals and that echoing one more
key is printing one more character is proved by taking the least length at which it
fails. `OutputAssumption` says that what programs print are strings of glyphs and line
feeds.

**Storage.** `StorageWritesDurable` and `StorageReadsExact`, by `StorageInv`: the stream is at
the start of its call or of a sector, the buffer holds the sector at hand, before and
after the merge, the cache holds that sector at most and only while the kernel waits for
the flush, and the medium is behind by just that. The lemmas below it are the layout: every
call of `fat16.c` lies in the volume, entries and single items never cross a sector
(`EntrySize` and `ItemSize` divide `SectorSize`), reads start at a sector or stay in one
(`CallsInOrder`); that no position wraps (from `PositionAssumption`: the volume is below
2 GB); and that the 28 bits of the registers hold any sector of the volume (`RegistersHold`,
from `RegisterAssumption`; `Weight` names the powers of 256 as products, as the provers do
not know `^`).

Only model-checked:

* the liveness properties (`Returns`, `Runs`, `Resumes`, `LineReturned`, `CallReturns`),
  which need fairness and `ENABLED`.

Every invariant and every action property that a passing run checks is stated by a
theorem too, and so is the refinement.

## Not modelled, and limits

* Failing allocations: every module but `Heap` takes the heap to suffice. `fopen` never
  frees the parsed path, so in the long run it does not.
* I/O errors: the disk driver reports none; a disk that never answers stops the machine in
  one of its loops. `Storage` has a disk that answers and that has every sector of the volume.
* The header in `boot.asm` describes a volume of 7812500 sectors, about 61029 clusters, and
  the `Makefile` makes an image of 16 MB, about 256. `fat16_find_free_cluster` goes by the
  header: when the image is full it gives out clusters that the disk does not have, and
  from about cluster 32764 on, at 2 GB, byte positions do not fit an int. `Fat16` takes any
  number of clusters (below 65526) and a disk that has them all; `Storage` a volume below
  2 GB. The clusters behind the end of the image are in neither.
* `Files`, the store that `Fat16` implements, is not bounded by `total`: a file that `fopen`
  for reading no longer reaches after a restart is still one of the store's, as it is for
  `ls`, `del` and `fopen` for writing.
* A power failure inside truncation or deletion. The code frees the clusters first and
  clears the entry last, so a failure in between leaves an entry that leads to free
  clusters, and a later file is linked with it. The power run leaves these two out.
* Truncating or deleting a file that is open for writing (`Polite = FALSE`): the clone of
  the entry in the descriptor is copied over the slot at the next write and brings the
  freed clusters back. `NoCrossLink` does not hold for such callers; the shell is not one.
* Writing through a descriptor that was opened to read, which the driver does not refuse:
  clusters are allocated and no entry is told, so they are lost (`Polite = FALSE`).
* A process that exits before its child (`Nested = FALSE`). Its memory, which the child runs
  in, is freed; the child's `prev` stays on the freed task, through which `task_list_remove`
  writes when the child exits; `sys_wait` may ask for a slot that another process has by
  then. Nothing in the kernel prevents it, and after the violation of `shell` the shell can do
  it: its prompt is back while the child lives, and `exit` is a command. No property here
  covers it.
* `Storage` takes a root directory that fills its sectors, as mkfs makes it:
  otherwise `fat16_get_root_directory` would put the first cluster on the last sector of
  the directory, as it rounds down there. Reads other than those `fat16.c` makes
  would not be exact: a read from the middle of a sector over its end takes bytes
  from behind the buffer. The disk is taken to accept the flush command right after the
  last word: that BSY may be set between the two, when `disk.c` does not look, is left out.
* Bytes of buffers: `sys_write` copies its buffer as a string of that length and so
  replaces the last byte by 0; from the shell that is the end of the line, but a line that
  filled the shell's buffer loses its last character.
* Keys typed ahead beyond the buffer: `keyboard_push` overwrites what is not yet read.
  `key` has a guard that leaves this out. A backspace as the first key, or at column 0,
  sets the screen and the line apart; `stuck` marks these. A line of length 1 is not asked
  for (`MaxLine > 1`).
* In `Shell`: the frames of the shell's functions (one step each, with the return address
  on the stack) and with them ebp, which `restore_general_purpose_registers` overwrites
  by its last `pop`; what files contain. The flags are in the model: a child preempted
  between the test behind `sys_fork` and its jump takes the parent's branch, stores 0 as
  `child_pid`, and both wait for process 0.
* Subdirectories, long-name entries, attributes, timestamps; `fstat`. Files in
  subdirectories can be neither read nor written: `fat16.c:523` makes a file of whatever it
  found, so that a path of two parts is not found for reading, and writing and deleting look
  at the first part only.
* A root directory with no 0x00 entry: the count at mount runs on into the data area;
  the model takes any total between the right one and the number of slots (`Totals`). A
  larger one, with which lookups read past the end of `item`, is left out, and no property
  covers it.
* Registers other than eax and the flags, descriptors (GDT, IDT, TSS), the boot loader,
  the setup of drivers at boot.

## What could follow

1. Failing allocations in `fork` and `fopen`, with `Heap` composed.
2. Stacks and memory as state in `Tasks`, in place of `Nested`: then a parent that exits
   first, and a word that its child overwrites, are behaviours of the model.
3. A disk shorter than its header says, and the bytes that `sys_read` and `sys_write` copy.
4. The frames of the shell's functions in `Shell`.
