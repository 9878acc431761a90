-------------------------------- MODULE Tasks --------------------------------
(***************************************************************************)
(* Processes and their scheduling: the process table (task/process.c), the *)
(* list of tasks and the choice of the next one (task/task.c), the timer   *)
(* (int20h_handler of idt/idt.c) and sys_fork, sys_exit, sys_wait and      *)
(* sys_readline (isr80h/process.c).                                        *)
(*                                                                         *)
(* A process and its one task are allocated and freed together and are one *)
(* object here, named by the address the heap gave it.  A freed object     *)
(* keeps its fields until kzalloc clears them for the next owner, so a     *)
(* stale pointer is followed here as the code follows it.                  *)
(*                                                                         *)
(* System calls run with interrupts off.  The timer switches tasks only    *)
(* between instructions of user code: sys_readline, which waits for keys   *)
(* inside the kernel, lets nobody else run.  The heap is taken to suffice. *)
(***************************************************************************)
EXTENDS Integers, FiniteSetsExt

CONSTANTS
  Tasks,     \* the addresses tasks can have
  NULL,      \* the null pointer
  MaxProcs,  \* PEACHOS_MAX_PROCESSES
  Nested     \* programs are nested: see Disciplined

ASSUME TasksAssumption == NULL \notin Tasks
ASSUME ProcsAssumption == MaxProcs \in Nat \ {0} /\ Nested \in BOOLEAN

Pids     == 0 .. MaxProcs - 1
NONE     == -1
Pointers == Tasks \cup {NULL}

VARIABLES
  live,             \* the objects that are allocated
  next, prev,       \* the links of the list of tasks
  head, tail,       \* task_head, task_tail
  cur,              \* current_task
  current_process,
  processes,        \* the process table
  id,               \* process->id
  maps,             \* the process whose memory the task's directory maps
  waiting,          \* the pid the program waits for, NONE if it does not
  kids,             \* the children of each process that have not exited
  mode              \* "boot", "user", in "readline", or "halted"

list    == <<next, prev, head, tail>>
program == <<waiting, kids>>
vars    == <<live, list, cur, current_process, processes, id, maps, program, mode>>

-----------------------------------------------------------------------------
(* Mutant: the scan of the table runs one slot too far. *)
free_slots_past_end == {p \in 0 .. MaxProcs : p = MaxProcs \/ processes[p] = NULL}

(* process_get_free_slot takes the lowest of these. *)
free_slots == {p \in Pids : processes[p] = NULL}

process_get(p) == IF p \in Pids THEN processes[p] ELSE NULL

(* Mutant: the list is not run from its start again. *)
task_get_next_ends == next[cur]

task_get_next == IF next[cur] = NULL THEN head ELSE next[cur]

task_switch(t) ==
  /\ cur' = t
  /\ current_process' = t

(* Mutant: the last task is not made to lead to the new one. *)
task_new_unlinked(t) ==
  /\ head' = IF head = NULL THEN t ELSE head
  /\ tail' = t
  /\ next' = [next EXCEPT ![t] = NULL]
  /\ prev' = [prev EXCEPT ![t] = IF head = NULL THEN NULL ELSE tail]

(* The list part of task_new, after kzalloc cleared the task's fields. *)
task_new(t) ==
  /\ head' = IF head = NULL THEN t ELSE head
  /\ tail' = t
  /\ next' = [x \in Tasks |-> IF x = t THEN NULL
                              ELSE IF head # NULL /\ x = tail THEN t ELSE next[x]]
  /\ prev' = [prev EXCEPT ![t] = IF head = NULL THEN NULL ELSE tail]

(* Mutant: task_tail is left at the task that goes. *)
task_list_remove_keeps_tail(t) ==
  /\ next' = [x \in Tasks |-> IF x = prev[t] THEN next[t] ELSE next[x]]
  /\ head' = IF t = head THEN next[t] ELSE head
  /\ cur'  = IF next[t] = NULL THEN head' ELSE next[t]
  /\ UNCHANGED <<prev, tail>>

(* task_list_remove of the current task: the task in front is made to lead *)
(* on, the task behind is not made to lead back.                           *)
task_list_remove(t) ==
  /\ next' = [x \in Tasks |-> IF x = prev[t] THEN next[t] ELSE next[x]]
  /\ head' = IF t = head THEN next[t] ELSE head
  /\ tail' = IF t = tail THEN prev[t] ELSE tail
  /\ cur'  = IF next[t] = NULL THEN head' ELSE next[t]
  /\ UNCHANGED prev

-----------------------------------------------------------------------------
(* What is assumed of the programs, where Nested: one that has forked does *)
(* nothing but ask whether its child has exited, and asks with the pid     *)
(* that sys_fork gave it.  No code of the kernel sees to either, and       *)
(* module Shell shows that the shell, whose stack its child shares, leaves *)
(* its wait before the child exits.                                        *)
Disciplined == Nested => waiting[cur] = NONE

(* task_get_stack_item(task_current(), 0) in sys_wait.  The word is on the *)
(* stack of the process that maps[t] names, where each process that maps   *)
(* it pushes: without the discipline it can be anything.                   *)
stack_item(t) == IF Nested THEN {waiting[t]} ELSE Pids \cup {NONE}

(* kernel_main: process_load makes the shell, task_run_first_ever_task     *)
(* starts it.                                                              *)
boot ==
  \E t \in Tasks, p \in free_slots :
    /\ mode = "boot"
    /\ p = Min(free_slots)
    /\ task_new(t)
    /\ task_switch(t)
    /\ live'      = live \cup {t}
    /\ processes' = [processes EXCEPT ![p] = t]
    /\ id'        = [id EXCEPT ![t] = p]
    /\ maps'      = [maps EXCEPT ![t] = t]
    /\ waiting'   = [waiting EXCEPT ![t] = NONE]
    /\ kids'      = [kids EXCEPT ![t] = {}]
    /\ mode'      = "user"

(* int20h_handler in user code.  With nobody else to run it does nothing.  *)
timer ==
  /\ mode = "user"
  /\ task_get_next \notin {NULL, cur}
  /\ task_switch(task_get_next)
  /\ UNCHANGED <<live, list, processes, id, maps, program, mode>>

(* sys_fork.  The child's directory is copied from the parent's, so it     *)
(* maps what the parent's maps.  With no free slot nothing changes.        *)
fork ==
  \E t \in Tasks \ live, p \in free_slots :
    /\ mode = "user" /\ Disciplined
    /\ p = Min(free_slots)
    /\ task_new(t)
    /\ live'      = live \cup {t}
    /\ processes' = [processes EXCEPT ![p] = t]
    /\ id'        = [id EXCEPT ![t] = p]
    /\ maps'      = [maps EXCEPT ![t] = maps[cur]]
    /\ waiting'   = [waiting EXCEPT ![cur] = p, ![t] = NONE]
    /\ kids'      = [kids EXCEPT ![cur] = kids[cur] \cup {t}, ![t] = {}]
    /\ UNCHANGED <<cur, current_process, mode>>

(* Mutant: the process keeps its slot in the table. *)
exit_keeps_slot ==
  /\ mode = "user" /\ Disciplined
  /\ task_list_remove(cur)
  /\ live' = live \ {cur}
  /\ kids' = [t \in Tasks |-> kids[t] \ {cur}]
  /\ mode' = IF head' = NULL THEN "halted" ELSE "user"
  /\ current_process' = IF head' = NULL THEN current_process ELSE cur'
  /\ UNCHANGED <<processes, id, maps, waiting>>

(* sys_exit: process_free; the kernel halts if no task is left, otherwise  *)
(* task_page and the wrapper go on with the task that became current.      *)
exit ==
  /\ mode = "user" /\ Disciplined
  /\ task_list_remove(cur)
  /\ live'      = live \ {cur}
  /\ processes' = [processes EXCEPT ![id[cur]] = NULL]
  /\ kids'      = [t \in Tasks |-> kids[t] \ {cur}]
  /\ mode'      = IF head' = NULL THEN "halted" ELSE "user"
  /\ current_process' = IF head' = NULL THEN current_process ELSE cur'
  /\ UNCHANGED <<id, maps, waiting>>

(* sys_wait in the program's loop.  While it answers that the child is     *)
(* alive nothing changes and the program asks again.                       *)
wait(t) ==
  /\ mode = "user" /\ cur = t
  /\ waiting[t] # NONE
  /\ \E p \in stack_item(t) : process_get(p) = NULL
  /\ waiting' = [waiting EXCEPT ![t] = NONE]
  /\ UNCHANGED <<live, list, cur, current_process, processes, id, maps, kids, mode>>

(* sys_readline, and its return when the line is there. *)
readline ==
  /\ mode = "user" /\ Disciplined
  /\ mode' = "readline"
  /\ UNCHANGED <<live, list, cur, current_process, processes, id, maps, program>>

line_read ==
  /\ mode = "readline"
  /\ mode' = "user"
  /\ UNCHANGED <<live, list, cur, current_process, processes, id, maps, program>>

halted == mode = "halted" /\ UNCHANGED vars

Init ==
  /\ live = {}
  /\ next = [t \in Tasks |-> NULL] /\ prev = next
  /\ head = NULL /\ tail = NULL /\ cur = NULL /\ current_process = NULL
  /\ processes = [p \in Pids |-> NULL]
  /\ id = [t \in Tasks |-> 0]
  /\ maps = [t \in Tasks |-> NULL]
  /\ waiting = [t \in Tasks |-> NONE]
  /\ kids = [t \in Tasks |-> {}]
  /\ mode = "boot"

Next ==
  \/ boot \/ timer \/ fork \/ exit \/ readline \/ line_read \/ halted
  \/ \E t \in Tasks : wait(t)

(* The timer goes on, and within its time slices a program gets to ask     *)
(* again whether its child has exited.  That somebody types is not assumed.*)
Spec == /\ Init /\ [][Next]_vars
        /\ WF_vars(timer)
        /\ \A t \in Tasks : SF_vars(wait(t))

-----------------------------------------------------------------------------
TypeOK ==
  /\ live \subseteq Tasks
  /\ next \in [Tasks -> Pointers]
  /\ prev \in [Tasks -> Pointers]
  /\ head \in Pointers /\ tail \in Pointers
  /\ cur \in Pointers /\ current_process \in Pointers
  /\ processes \in [Pids -> Pointers]
  /\ id \in [Tasks -> Pids]
  /\ maps \in [Tasks -> Pointers]
  /\ waiting \in [Tasks -> Pids \cup {NONE}]
  /\ kids \in [Tasks -> SUBSET Tasks]
  /\ mode \in {"boot", "user", "readline", "halted"}

(***************************************************************************)
(* No pointer the kernel will follow leads to a freed task: neither its    *)
(* current task, nor the ends and the links of the list, nor a slot of the *)
(* process table; and the keys go to the process that reads them.          *)
(***************************************************************************)
NothingFreed ==
  /\ {head, tail, cur} \subseteq live \cup {NULL}
  /\ \A t \in live : {next[t], prev[t]} \subseteq live \cup {NULL}
  /\ \A p \in Pids : processes[p] \in live \cup {NULL}
  /\ mode \in {"user", "readline"} => cur \in live /\ current_process = cur

(***************************************************************************)
(* The timer's walk with task_get_next comes by every process, however     *)
(* tasks came and went.                                                    *)
(***************************************************************************)
AllScheduled ==
  \A S \in SUBSET live : /\ cur \in S
                         /\ \A t \in S : (IF next[t] = NULL THEN head ELSE next[t]) \in S
                         => S = live

(***************************************************************************)
(* Every process runs again, unless somebody is reading a line: only the   *)
(* timer switches tasks, and not in the kernel.                            *)
(***************************************************************************)
Runs == \A t \in Tasks :
          t \in live ~> (t \notin live \/ cur = t \/ mode = "readline")

(* A parent whose child has exited leaves its loop of sys_wait. *)
Resumes == \A t \in Tasks :
             (t \in live /\ waiting[t] # NONE /\ kids[t] = {})
               ~> (waiting[t] = NONE \/ mode = "readline")

-----------------------------------------------------------------------------
(* The inductive invariant behind NothingFreed and AllScheduled for nested *)
(* processes: the list is a stack with the first process at its head, each *)
(* task's next is its one child, and only the last may fork or exit.       *)

EndsOK ==
  /\ mode \in {"user", "readline"} => {cur, head, tail} \subseteq live
  /\ mode \in {"boot", "halted"}   => live = {} /\ {cur, head, tail} = {NULL}
  /\ mode \in {"user", "readline"} => current_process = cur

LinkOK(t) ==
  /\ prev[t] = NULL <=> t = head
  /\ next[t] = NULL <=> t = tail
  /\ prev[t] # NULL => prev[t] \in live /\ next[prev[t]] = t
  /\ next[t] # NULL => next[t] \in live /\ prev[next[t]] = t

FamilyOK(t) ==
  /\ kids[t] = {next[t]} \ {NULL}
  /\ process_get(waiting[t]) = next[t]
  /\ maps[t] = head
  /\ next[t] # NULL => id[next[t]] = id[t] + 1

SlotsOK ==
  /\ \A t \in live : processes[id[t]] = t
  /\ \A p \in Pids : processes[p] # NULL => processes[p] \in live /\ id[processes[p]] = p

(* The slots in use are the first ones, so that a stack of one has no other. *)
DenseOK ==
  live # {} => /\ id[head] = 0
               /\ \A p \in Pids : processes[p] # NULL <=> p <= id[tail]

StackInv ==
  /\ TypeOK /\ EndsOK /\ SlotsOK /\ DenseOK
  /\ \A t \in live : LinkOK(t) /\ FamilyOK(t)
=============================================================================
