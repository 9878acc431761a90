------------------------------- MODULE Memory -------------------------------
(***************************************************************************)
(* Tasks with their page directories: memory/paging/paging.c, the mapping  *)
(* of a process (task/process.c), the copies between kernel and user       *)
(* memory (task/task.c) and the switches of directories that the system    *)
(* call gate and the timer make (idt/idt.c).                               *)
(*                                                                         *)
(* A directory is made of tables, each an object of the heap.  A system    *)
(* call is a sequence of steps here: nothing interrupts it, but which      *)
(* directory the processor has loaded matters at each.  An address is a    *)
(* number of units; PageSize of them make a page.  The heap gives          *)
(* addresses of whole pages.                                               *)
(***************************************************************************)
EXTENDS Tasks

CONSTANTS
  NTables, NEntries,  \* PAGING_TOTAL_ENTRIES_PER_TABLE, of each
  PageSize,           \* PAGING_PAGE_SIZE
  ProgVirt,           \* PEACHOS_PROGRAM_VIRTUAL_ADDRESS
  StackVirt,          \* PEACHOS_PROGRAM_VIRTUAL_STACK_ADDRESS_END
  ProgSize,           \* process->size
  StackSize,          \* PEACHOS_USER_PROGRAM_STACK_SIZE
  ptr, stack,         \* process->ptr and process->stack
  Temporaries,        \* addresses kzalloc may give a copy for its buffer
  HeapBlocks          \* the blocks of the heap it has for tables

Span       == NEntries * PageSize      \* the addresses a table covers
TableIx    == 0 .. NTables - 1
EntryIx    == 0 .. NEntries - 1
Pages      == {p * PageSize : p \in 0 .. NTables * NEntries - 1}
HeapTables == 0 .. HeapBlocks - 1

ASSUME PagingAssumption ==
  /\ NTables \in Nat \ {0} /\ NEntries \in Nat \ {0} /\ PageSize \in Nat \ {0}
  /\ ProgVirt \in Pages /\ StackVirt \in Pages
  /\ ptr \in [Tasks -> Pages] /\ stack \in [Tasks -> Pages]
  /\ ProgSize \in Nat /\ StackSize \in Nat /\ StackSize % PageSize = 0

(* The stack ends below the program (0x3FF000, 0x400000), and the heap,    *)
(* from where the buffers are, begins behind it (0x1000000).               *)
ASSUME LayoutAssumption ==
  /\ StackVirt + StackSize <= ProgVirt
  /\ ProgVirt + ProgSize <= NTables * NEntries * PageSize
  /\ Temporaries \subseteq {p \in Pages : p >= ProgVirt + ProgSize}

(* The heap suffices for a directory of every process and of the kernel. *)
ASSUME HeapAssumption ==
  HeapBlocks \in Nat /\ HeapBlocks >= NTables * (MaxProcs + 1)

VARIABLES
  dir,     \* the tables of each task's directory, and of the kernel's (NULL)
  table,   \* the entries of each table
  taken,   \* the tables that are allocated
  loaded,  \* whose directory the processor uses
  kpc,     \* where the kernel is; "user" when it is not running
  tmp,     \* the buffer of the running copy
  old      \* the entry it replaced

paging == <<dir, table, taken>>
copy   == <<tmp, old>>
mvars  == <<vars, paging, loaded, kpc, copy>>

Entry(a, w) == [phys |-> a, writable |-> w]

-----------------------------------------------------------------------------
(* paging_get_indexes *)
directory_index(v) == v \div Span
table_index(v)     == (v % Span) \div PageSize

paging_get(T, D, v) == T[D[directory_index(v)]][table_index(v)]

(* paging_set, of the entry of v in directory D among the tables T. *)
paging_set(T, D, v, e) ==
  IF v % PageSize # 0 THEN T
  ELSE [T EXCEPT ![D[directory_index(v)]][table_index(v)] = e]

paging_map(T, D, virt, phys) ==
  IF virt % PageSize # 0 \/ phys % PageSize # 0 THEN T
  ELSE paging_set(T, D, virt, Entry(phys, TRUE))

(* Mutant: rounds down. *)
align_down(a) == a - (a % PageSize)

paging_align_address(a) == IF a % PageSize # 0 THEN a + PageSize - (a % PageSize) ELSE a

(* paging_map_to with the loop of paging_map_range: an entry has what the  *)
(* last turn that wrote it put there.                                      *)
paging_map_to(T, D, virt, phys, end) ==
  LET turns == 0 .. (end - phys) \div PageSize - 1
      Writes(x, b) == {i \in turns : LET v == virt + i * PageSize
                                     IN  D[directory_index(v)] = x /\ table_index(v) = b}
  IN  IF end < phys \/ \E a \in {virt, phys, end} : a % PageSize # 0 THEN T
      ELSE [x \in DOMAIN T |-> [b \in EntryIx |->
             IF Writes(x, b) = {} THEN T[x][b]
             ELSE Entry(phys + Max(Writes(x, b)) * PageSize, TRUE)]]

(* The tables the heap gives, the lowest free ones. *)
NewTables ==
  LET free == HeapTables \ taken
  IN  [i \in TableIx |-> CHOOSE x \in free : Cardinality({y \in free : y < x}) = i]

(* paging_new_4gb: every page is mapped to itself. *)
Identity(i, w) == [b \in EntryIx |-> Entry(i * Span + b * PageSize, w)]

new_4gb(T, D, w) ==
  [x \in DOMAIN T |-> IF \E i \in TableIx : D[i] = x
                      THEN Identity(CHOOSE i \in TableIx : D[i] = x, w) ELSE T[x]]

(* process_map_memory *)
process_map_memory(T, D, t) ==
  paging_map_to(paging_map_to(T, D, ProgVirt, ptr[t], paging_align_address(ptr[t] + ProgSize)),
                D, StackVirt, stack[t], paging_align_address(stack[t] + StackSize))

(* Mutant: the copy has the tables of the original. *)
copy_4gb_shallow(s, t) ==
  /\ dir' = [dir EXCEPT ![t] = dir[s]]
  /\ UNCHANGED <<table, taken>>

(* paging_copy_4gb: the directory of s is copied for t, with its tables. *)
copy_4gb(s, t) ==
  LET D == NewTables IN
  /\ dir'   = [dir EXCEPT ![t] = D]
  /\ taken' = taken \cup {D[i] : i \in TableIx}
  /\ table' = [x \in HeapTables |-> IF \E i \in TableIx : D[i] = x
                                    THEN table[dir[s][CHOOSE i \in TableIx : D[i] = x]]
                                    ELSE table[x]]

(* paging_free_4gb.  Freed tables keep what is in them. *)
free_4gb(t) ==
  /\ taken' = taken \ {dir[t][i] : i \in TableIx}
  /\ UNCHANGED <<dir, table>>

-----------------------------------------------------------------------------
(* kernel_main: the shell is loaded, mapped and started. *)
boot_mapped ==
  /\ kpc = "kernel"
  /\ boot
  /\ LET t == head'
         D == NewTables
     IN  /\ dir'    = [dir EXCEPT ![t] = D]
         /\ taken'  = taken \cup {D[i] : i \in TableIx}
         /\ table'  = process_map_memory(new_4gb(table, D, FALSE), D, t)
         /\ loaded' = t
  /\ kpc' = "user"
  /\ UNCHANGED copy

(* int20h_handler: task_switch loads the next task's directory. *)
timer_switch ==
  /\ kpc = "user"
  /\ timer
  /\ loaded' = cur'
  /\ UNCHANGED <<paging, kpc, copy>>

(* isr80h_handler: the kernel's directory is loaded first. *)
syscall ==
  /\ kpc = "user"
  /\ kpc' = "kernel"
  /\ loaded' = NULL
  /\ UNCHANGED <<vars, paging, copy>>

(* Its end: task_page. *)
sysret ==
  /\ kpc \in {"kernel", "leave"} /\ mode = "user"
  /\ kpc' = "user"
  /\ loaded' = cur
  /\ UNCHANGED <<vars, paging, copy>>

(* process_fork: the directory task_new made is freed and a copy of the    *)
(* parent's is put in its place.                                           *)
fork_copies ==
  /\ kpc = "kernel"
  /\ fork
  /\ copy_4gb(cur, CHOOSE t \in live' \ live : TRUE)
  /\ kpc' = "leave"
  /\ UNCHANGED <<loaded, copy>>

(* process_free: task_free frees the directory. *)
exit_frees ==
  /\ kpc = "kernel"
  /\ exit
  /\ free_4gb(cur)
  /\ kpc' = "leave"
  /\ UNCHANGED <<loaded, copy>>

wait_tells(t) ==
  /\ kpc = "kernel"
  /\ wait(t)
  /\ kpc' = "leave"
  /\ UNCHANGED <<paging, loaded, copy>>

(* sys_readline waits in the kernel, then copies the line. *)
readline_waits ==
  /\ kpc = "kernel"
  /\ readline \/ line_read
  /\ UNCHANGED <<paging, loaded, kpc, copy>>

(* task_get_stack_item reads the task's stack through its directory. *)
get_stack_item ==
  /\ mode = "user"
  /\ \/ kpc = "kernel" /\ kpc' = "stack"  /\ loaded' = cur
     \/ kpc = "stack"  /\ kpc' = "kernel" /\ loaded' = NULL
  /\ UNCHANGED <<vars, paging, copy>>

(* copy_to_task and copy_string_from_task.  The buffer is in the kernel's  *)
(* heap; its page is made writable in the task's directory ...             *)
copy_map ==
  /\ kpc = "kernel" /\ mode = "user"
  /\ tmp' \in Temporaries
  /\ old' = paging_get(table, dir[cur], tmp')
  /\ table' = paging_map(table, dir[cur], tmp', tmp')
  /\ kpc' = "mapped"
  /\ UNCHANGED <<vars, dir, taken, loaded>>

(* ... the directory is loaded, and the bytes are copied ... *)
copy_bytes ==
  /\ kpc = "mapped"
  /\ kpc' = "copied"
  /\ loaded' = cur
  /\ UNCHANGED <<vars, paging, copy>>

(* Mutant: the entry is put back before the kernel's directory is loaded. *)
copy_back_early ==
  /\ kpc = "copied"
  /\ kpc' = "restore"
  /\ table' = paging_set(table, dir[cur], tmp, old)
  /\ UNCHANGED <<vars, dir, taken, loaded, copy>>

(* ... the kernel's directory is loaded again ... *)
copy_back ==
  /\ kpc = "copied"
  /\ kpc' = "restore"
  /\ loaded' = NULL
  /\ UNCHANGED <<vars, paging, copy>>

(* Mutant: the entry is not put back. *)
copy_forgets ==
  /\ kpc = "restore"
  /\ kpc' = "kernel"
  /\ tmp' = 0 /\ old' = Entry(0, FALSE)
  /\ UNCHANGED <<vars, paging, loaded>>

(* ... and the old entry is put back. *)
copy_restore ==
  /\ kpc = "restore"
  /\ kpc' = "kernel"
  /\ table' = paging_set(table, dir[cur], tmp, old)
  /\ tmp' = 0 /\ old' = Entry(0, FALSE)
  /\ UNCHANGED <<vars, dir, taken, loaded>>

machine_halted == mode = "halted" /\ UNCHANGED mvars

(* The kernel has made its own directory, with every page writable. *)
MInit ==
  /\ Init
  /\ dir = [t \in Tasks \cup {NULL} |-> [i \in TableIx |-> IF t = NULL THEN i ELSE 0]]
  /\ taken = TableIx
  /\ table = [x \in HeapTables |-> Identity(IF x \in TableIx THEN x ELSE 0, x \in TableIx)]
  /\ loaded = NULL
  /\ kpc = "kernel"
  /\ tmp = 0 /\ old = Entry(0, FALSE)

MNext ==
  \/ boot_mapped \/ timer_switch \/ syscall \/ sysret
  \/ fork_copies \/ exit_frees \/ readline_waits \/ (\E t \in Tasks : wait_tells(t))
  \/ get_stack_item \/ copy_map \/ copy_bytes \/ copy_back \/ copy_restore
  \/ machine_halted

(* A tick that comes while the kernel runs is delivered on its return, and *)
(* a program gets to ask again whether its child has exited.  The kernel's *)
(* own steps go on, and a system call comes to its end, unless it waits    *)
(* for somebody to type.                                                   *)
MSpec == /\ MInit /\ [][MNext]_mvars
         /\ SF_mvars(timer_switch) /\ SF_mvars(sysret)
         /\ WF_mvars(get_stack_item \/ copy_bytes \/ copy_back \/ copy_restore)
         /\ \A t \in Tasks : /\ SF_mvars(syscall /\ cur = t /\ waiting[t] # NONE)
                            /\ SF_mvars(wait_tells(t))

-----------------------------------------------------------------------------
Owners == live \cup {NULL}
Maps(t, v) == paging_get(table, dir[t], v - (v % PageSize))

(***************************************************************************)
(* Each directory has its tables for itself, none is freed while it is in  *)
(* use, whether by a task or by the processor, and none is left behind by  *)
(* a process that exited.                                                  *)
(***************************************************************************)
DirectoriesOwned ==
  /\ \A s, t \in Owners : \A i, j \in TableIx : dir[s][i] = dir[t][j] => s = t /\ i = j
  /\ taken = {dir[t][i] : t \in Owners, i \in TableIx}
  /\ loaded \in Owners
  /\ kpc = "user" => loaded = cur

(* What a task's directory is to say of a page. *)
Expected(t, p) ==
  LET m == maps[t] IN
  CASE p \in ProgVirt .. ProgVirt + ProgSize - 1   -> Entry(ptr[m] + p - ProgVirt, TRUE)
    [] p \in StackVirt .. StackVirt + StackSize - 1 -> Entry(stack[m] + p - StackVirt, TRUE)
    [] OTHER                                        -> Entry(p, FALSE)

(***************************************************************************)
(* Outside a copy a task sees the program and the stack of the process it  *)
(* was forked from, all of them, and can write nothing else: no copy       *)
(* leaves its buffer mapped, neither in its own nor in another directory.  *)
(***************************************************************************)
MappingsKept ==
  \A t \in live, p \in Pages :
    \/ kpc \in {"mapped", "copied", "restore"} /\ t = cur /\ p = tmp
    \/ Maps(t, p) = Expected(t, p)

(***************************************************************************)
(* When the bytes of a copy move, the processor sees the buffer and the    *)
(* memory of the task that made the call.                                  *)
(***************************************************************************)
CopyReaches ==
  kpc = "copied" =>
    /\ Maps(loaded, tmp) = Entry(tmp, TRUE)
    /\ \A v \in 0 .. ProgSize - 1 :
         Maps(loaded, ProgVirt + v).phys = ptr[maps[cur]] + v - (v % PageSize)

(***************************************************************************)
(* The processor keeps translations until a directory is loaded, and the   *)
(* kernel never flushes a single one.  So no entry of the directory that   *)
(* is loaded may change while it stays loaded.                             *)
(***************************************************************************)
NoStaleTranslation ==
  [][loaded' = loaded => \A p \in Pages : Maps(loaded, p)' = Maps(loaded, p)]_mvars
=============================================================================
