---------------------------- MODULE MemoryProofs ----------------------------
(***************************************************************************)
(* Proofs about Tasks, and about Memory on top of it.                      *)
(*                                                                         *)
(* Tasks: the list and the table keep their types whatever the programs    *)
(* do, and if a process that forks waits, nothing freed is used, everyone  *)
(* is scheduled.                                                           *)
(*                                                                         *)
(* Memory: each process has its page directory for itself, sees what it is *)
(* to see in it, and the processor never works with an entry that has      *)
(* changed under it.  These hold for every size of pages, tables, programs *)
(* and stacks, if a process that forks waits.                              *)
(***************************************************************************)
EXTENDS Memory, Extrema

(***************************************************************************)
(* Tasks: the scheduler always has a task to go on with, freed or not, as  *)
(* long as the kernel has not halted.                                      *)
(***************************************************************************)

TypeInv ==
  /\ TypeOK
  /\ mode \in {"user", "readline"} => cur \in Tasks

LEMMA NewTyped ==
  ASSUME TypeOK, NEW t \in Tasks, task_new(t)
  PROVE  /\ next' \in [Tasks -> Pointers] /\ prev' \in [Tasks -> Pointers]
         /\ head' \in Pointers /\ tail' \in Pointers
  BY DEF TypeOK, task_new, Pointers

LEMMA RemoveTyped ==
  ASSUME TypeOK, cur \in Tasks, task_list_remove(cur)
  PROVE  /\ next' \in [Tasks -> Pointers] /\ prev' \in [Tasks -> Pointers]
         /\ head' \in Pointers /\ tail' \in Pointers /\ cur' \in Pointers
         /\ head' # NULL => cur' \in Tasks
<1>1. next[cur] \in Pointers /\ prev[cur] \in Pointers
  BY DEF TypeOK
<1>2. /\ next' = [x \in Tasks |-> IF x = prev[cur] THEN next[cur] ELSE next[x]]
      /\ head' = IF cur = head THEN next[cur] ELSE head
      /\ tail' = IF cur = tail THEN prev[cur] ELSE tail
      /\ cur'  = IF next[cur] = NULL THEN head' ELSE next[cur]
      /\ prev' = prev
  BY DEF task_list_remove
<1>3. next' \in [Tasks -> Pointers] /\ prev' \in [Tasks -> Pointers]
  BY <1>1, <1>2 DEF TypeOK
<1>4. head' \in Pointers /\ tail' \in Pointers
  BY <1>1, <1>2 DEF TypeOK
<1>5. cur' \in Pointers /\ (head' # NULL => cur' \in Tasks)
  BY <1>1, <1>2, <1>4 DEF Pointers
<1> QED BY <1>3, <1>4, <1>5

LEMMA InitTyped == Init => TypeInv
  BY ProcsAssumption, TasksAssumption DEF Init, TypeInv, TypeOK, Pids, Pointers, NONE

LEMMA NextTyped == TypeInv /\ [Next]_vars => TypeInv'
<1> SUFFICES ASSUME TypeInv, [Next]_vars PROVE TypeInv'
  OBVIOUS
<1> USE DEF TypeInv
<1>1. CASE boot
  <2>1. PICK t \in Tasks, p \in free_slots :
          /\ task_new(t) /\ task_switch(t)
          /\ live' = live \cup {t} /\ processes' = [processes EXCEPT ![p] = t]
          /\ id' = [id EXCEPT ![t] = p] /\ maps' = [maps EXCEPT ![t] = t]
          /\ waiting' = [waiting EXCEPT ![t] = NONE] /\ kids' = [kids EXCEPT ![t] = {}]
          /\ mode' = "user"
    BY <1>1 DEF boot
  <2>2. p \in Pids
    BY DEF free_slots
  <2>3. live' \subseteq Tasks /\ cur' = t /\ current_process' = t
    BY <2>1 DEF TypeOK, task_switch
  <2>4. /\ processes' \in [Pids -> Pointers] /\ id' \in [Tasks -> Pids]
        /\ maps' \in [Tasks -> Pointers]
    BY <2>1, <2>2 DEF TypeOK, Pointers
  <2>5. waiting' \in [Tasks -> Pids \cup {NONE}] /\ kids' \in [Tasks -> SUBSET Tasks]
    BY <2>1 DEF TypeOK
  <2> QED BY <2>1, <2>3, <2>4, <2>5, NewTyped DEF TypeOK, Pointers
<1>2. CASE fork
  <2>1. PICK t \in Tasks \ live, p \in free_slots :
          /\ mode = "user" /\ Disciplined /\ task_new(t)
          /\ live' = live \cup {t} /\ processes' = [processes EXCEPT ![p] = t]
          /\ id' = [id EXCEPT ![t] = p] /\ maps' = [maps EXCEPT ![t] = maps[cur]]
          /\ waiting' = [waiting EXCEPT ![cur] = p, ![t] = NONE]
          /\ kids' = [kids EXCEPT ![cur] = kids[cur] \cup {t}, ![t] = {}]
          /\ UNCHANGED <<cur, current_process, mode>>
    BY <1>2 DEF fork
  <2>2. p \in Pids /\ cur \in Tasks
    BY <2>1 DEF free_slots
  <2>3. live' \subseteq Tasks
    BY <2>1 DEF TypeOK
  <2>4. /\ processes' \in [Pids -> Pointers] /\ id' \in [Tasks -> Pids]
        /\ maps' \in [Tasks -> Pointers]
    BY <2>1, <2>2 DEF TypeOK, Pointers
  <2>5. waiting' \in [Tasks -> Pids \cup {NONE}]
    BY <2>1, <2>2 DEF TypeOK
  <2>6. kids' \in [Tasks -> SUBSET Tasks]
    BY <2>1, <2>2 DEF TypeOK
  <2> QED BY <2>1, <2>2, <2>3, <2>4, <2>5, <2>6, NewTyped DEF TypeOK
<1>3. CASE exit
  <2>1. /\ cur \in Tasks /\ task_list_remove(cur) /\ live' = live \ {cur}
        /\ processes' = [processes EXCEPT ![id[cur]] = NULL]
        /\ kids' = [t \in Tasks |-> kids[t] \ {cur}]
        /\ mode' = IF head' = NULL THEN "halted" ELSE "user"
        /\ current_process' = IF head' = NULL THEN current_process ELSE cur'
        /\ UNCHANGED <<id, maps, waiting>>
    BY <1>3 DEF exit
  <2>2. live' \subseteq Tasks /\ processes' \in [Pids -> Pointers]
    BY <2>1 DEF TypeOK, Pointers
  <2>3. kids' \in [Tasks -> SUBSET Tasks]
    BY <2>1 DEF TypeOK
  <2>4. mode' \in {"user", "halted"} /\ (mode' = "user" => head' # NULL)
    BY <2>1
  <2> QED BY <2>1, <2>2, <2>3, <2>4, RemoveTyped DEF TypeOK
<1>4. CASE timer
  <2>1. /\ mode = "user" /\ task_get_next \notin {NULL, cur}
        /\ cur' = task_get_next /\ current_process' = task_get_next
        /\ UNCHANGED <<live, next, prev, head, tail, processes, id, maps, waiting, kids, mode>>
    BY <1>4 DEF timer, task_switch, list, program
  <2>2. task_get_next \in Tasks
    BY <2>1 DEF task_get_next, TypeOK, Pointers
  <2> QED BY <2>1, <2>2 DEF TypeOK, Pointers
<1>5. CASE readline \/ line_read
  BY <1>5 DEF readline, line_read, Disciplined, TypeOK, list, program
<1>6. ASSUME NEW t \in Tasks, wait(t) PROVE TypeInv'
  BY <1>6 DEF wait, TypeOK, list
<1>7. CASE UNCHANGED vars
  BY <1>7 DEF vars, TypeOK, list, program
<1> QED BY <1>1, <1>2, <1>3, <1>4, <1>5, <1>6, <1>7 DEF Next, halted

(* Every step of the scheduler and of the process calls keeps the types.   *)
THEOREM TasksTyped == Spec => []TypeOK
<1>1. Spec => []TypeInv
  BY InitTyped, NextTyped, PTL DEF Spec
<1>2. TypeInv => TypeOK
  BY DEF TypeInv
<1> QED BY <1>1, <1>2, PTL

-----------------------------------------------------------------------------
Running == {"user", "readline"}

(* Steps that leave the list and the table alone. *)
LEMMA StackFrame ==
  ASSUME StackInv, TypeOK', EndsOK',
         UNCHANGED <<live, next, prev, head, tail, processes, id, maps, kids>>,
         \A t \in live : process_get(waiting[t])' = process_get(waiting[t])
  PROVE  StackInv'
<1>1. SlotsOK' /\ DenseOK'
  BY DEF StackInv, SlotsOK, DenseOK
<1>2. ASSUME NEW t \in live PROVE LinkOK(t)' /\ FamilyOK(t)'
  <2>1. LinkOK(t) /\ FamilyOK(t)
    BY DEF StackInv
  <2>2. LinkOK(t)'
    BY <2>1 DEF LinkOK
  <2>3. FamilyOK(t)'
    BY <2>1 DEF FamilyOK
  <2> QED BY <2>2, <2>3
<1> QED BY <1>1, <1>2 DEF StackInv

(* Of nested processes only the last of the list is not waiting. *)
LEMMA OnlyLast ==
  ASSUME Nested, StackInv, mode = "user", Disciplined
  PROVE  /\ mode = "user" /\ cur \in live /\ cur \in Tasks
         /\ cur = tail /\ next[cur] = NULL /\ kids[cur] = {} /\ waiting[cur] = NONE
<1>1. mode = "user" /\ waiting[cur] = NONE
  BY DEF Disciplined
<1>2. cur \in live /\ cur \in Tasks
  BY <1>1 DEF StackInv, EndsOK, TypeOK
<1>3. process_get(waiting[cur]) = NULL
  BY <1>1 DEF process_get, NONE, Pids
<1>4. next[cur] = NULL /\ cur = tail /\ kids[cur] = {}
  BY <1>2, <1>3 DEF StackInv, LinkOK, FamilyOK
<1> QED BY <1>1, <1>2, <1>4

LEMMA ForkKeeps ==
  ASSUME Nested, StackInv, TypeOK', fork
  PROVE  StackInv'
<1>1. PICK t \in Tasks \ live, p \in free_slots :
        /\ mode = "user" /\ Disciplined /\ p = Min(free_slots) /\ task_new(t)
        /\ live' = live \cup {t} /\ processes' = [processes EXCEPT ![p] = t]
        /\ id' = [id EXCEPT ![t] = p] /\ maps' = [maps EXCEPT ![t] = maps[cur]]
        /\ waiting' = [waiting EXCEPT ![cur] = p, ![t] = NONE]
        /\ kids' = [kids EXCEPT ![cur] = kids[cur] \cup {t}, ![t] = {}]
        /\ UNCHANGED <<cur, current_process, mode>>
  BY DEF fork
<1>2. PICK c \in live : c = cur /\ c = tail /\ next[c] = NULL /\ kids[c] = {}
  BY <1>1, OnlyLast
<1>3. /\ mode = "user" /\ c \in Tasks /\ c # t /\ p \in Pids /\ processes[p] = NULL
      /\ head \in live /\ head # NULL /\ t # head /\ t # NULL
  BY <1>1, <1>2, OnlyLast, TasksAssumption DEF free_slots, StackInv, EndsOK, TypeOK
<1>4. TypeOK /\ \A u \in live : u \in Tasks /\ u # t /\ u # NULL
  BY TasksAssumption DEF StackInv, TypeOK
<1>5. /\ head' = head /\ tail' = t
      /\ \A x \in Tasks : next'[x] = IF x = t THEN NULL ELSE IF x = c THEN t ELSE next[x]
      /\ \A x \in Tasks : prev'[x] = IF x = t THEN c ELSE prev[x]
  BY <1>1, <1>2, <1>3, <1>4 DEF task_new, TypeOK
<1>6. /\ \A q \in Pids : processes'[q] = IF q = p THEN t ELSE processes[q]
      /\ \A x \in Tasks : id'[x] = IF x = t THEN p ELSE id[x]
      /\ \A x \in Tasks : maps'[x] = IF x = t THEN maps[c] ELSE maps[x]
      /\ \A x \in Tasks : waiting'[x] = IF x = t THEN NONE ELSE IF x = c THEN p ELSE waiting[x]
      /\ \A x \in Tasks : kids'[x] = IF x = t THEN {} ELSE IF x = c THEN {t} ELSE kids[x]
  <2>1. \A q \in Pids : processes'[q] = IF q = p THEN t ELSE processes[q]
    BY <1>1, <1>4 DEF TypeOK
  <2>2. /\ \A x \in Tasks : id'[x] = IF x = t THEN p ELSE id[x]
        /\ \A x \in Tasks : maps'[x] = IF x = t THEN maps[c] ELSE maps[x]
    BY <1>1, <1>2, <1>4 DEF TypeOK
  <2>3. \A x \in Tasks : waiting'[x] = IF x = t THEN NONE ELSE IF x = c THEN p ELSE waiting[x]
    BY <1>1, <1>2, <1>3, <1>4 DEF TypeOK
  <2>4. kids' = [kids EXCEPT ![c] = {t}, ![t] = {}]
    <3>1. kids[c] \cup {t} = {t}
      BY <1>2
    <3> QED BY <1>1, <1>2, <3>1
  <2>5. \A x \in Tasks : kids'[x] = IF x = t THEN {} ELSE IF x = c THEN {t} ELSE kids[x]
    BY <1>3, <1>4, <2>4 DEF TypeOK
  <2> QED BY <2>1, <2>2, <2>3, <2>5
<1>7. p = id[c] + 1 /\ \A q \in Pids : processes[q] # NULL <=> q <= id[c]
  <2>1. id[c] \in Pids /\ \A q \in Pids : processes[q] # NULL <=> q <= id[c]
    BY <1>2, <1>3 DEF StackInv, DenseOK, TypeOK
  <2>2. free_slots \subseteq Nat
    BY ProcsAssumption DEF free_slots, Pids
  <2>3. \A q \in free_slots : p <= q
    BY <1>1, <2>2, MinIn
  <2>4. id[c] \in Int /\ p \in Int /\ ~(p <= id[c])
    BY <1>3, <2>1, ProcsAssumption DEF Pids
  <2>5. id[c] + 1 \in Pids /\ ~(id[c] + 1 <= id[c])
    BY <1>3, <2>1, <2>4, ProcsAssumption DEF Pids
  <2>6. id[c] + 1 \in free_slots
    BY <2>1, <2>5 DEF free_slots
  <2> QED BY <2>1, <2>3, <2>4, <2>6
<1>8. DenseOK'
  <2>1. id'[head] = 0 /\ id'[t] = p
    BY <1>3, <1>4, <1>6 DEF StackInv, DenseOK
  <2>2. id[c] \in Int /\ Pids \subseteq Int
    BY <1>3, <1>4, ProcsAssumption DEF TypeOK, Pids
  <2>3. \A q \in Pids : processes'[q] # NULL <=> q <= p
    BY <1>3, <1>6, <1>7, <2>2
  <2> QED BY <1>5, <2>1, <2>3 DEF DenseOK
<1>9. EndsOK'
  BY <1>1, <1>2, <1>3, <1>5 DEF StackInv, EndsOK
<1>10. SlotsOK'
  <2>1. ASSUME NEW u \in live' PROVE processes'[id'[u]] = u
    <3>1. CASE u = t
      BY <1>3, <1>6, <3>1
    <3>2. CASE u # t
      <4>1. u \in live /\ u \in Tasks /\ id[u] \in Pids /\ processes[id[u]] = u
        BY <1>1, <1>4, <3>2 DEF StackInv, SlotsOK, TypeOK
      <4> QED BY <1>3, <1>4, <1>6, <3>2, <4>1
    <3> QED BY <3>1, <3>2
  <2>2. ASSUME NEW q \in Pids, processes'[q] # NULL
        PROVE  processes'[q] \in live' /\ id'[processes'[q]] = q
    BY <1>1, <1>4, <1>6, <2>2 DEF StackInv, SlotsOK
  <2> QED BY <2>1, <2>2 DEF SlotsOK
<1>11. ASSUME NEW u \in live' PROVE LinkOK(u)' /\ FamilyOK(u)'
  <2>1. CASE u = t
    <3>1. LinkOK(t)'
      BY <1>1, <1>3, <1>4, <1>5 DEF LinkOK
    <3>2. process_get(waiting[t])' = NULL
      BY <1>3, <1>6 DEF process_get, NONE, Pids
    <3>3. maps[c] = head
      BY DEF StackInv, FamilyOK
    <3>4. FamilyOK(t)'
      BY <1>3, <1>5, <1>6, <3>2, <3>3 DEF FamilyOK
    <3> QED BY <2>1, <3>1, <3>4
  <2>2. CASE u = c
    <3>1. LinkOK(c)
      BY DEF StackInv
    <3>2. LinkOK(c)'
      BY <1>1, <1>2, <1>3, <1>4, <1>5, <3>1 DEF LinkOK
    <3>3. process_get(waiting[c])' = t
      BY <1>3, <1>6 DEF process_get
    <3>4. maps[c] = head
      BY DEF StackInv, FamilyOK
    <3>5. FamilyOK(c)'
      BY <1>3, <1>5, <1>6, <1>7, <3>3, <3>4 DEF FamilyOK
    <3> QED BY <2>2, <3>2, <3>5
  <2>3. CASE u # t /\ u # c
    <3>1. u \in live /\ u \in Tasks /\ LinkOK(u) /\ FamilyOK(u)
      BY <1>1, <1>4, <2>3 DEF StackInv
    <3>2. next[u] # NULL /\ next[u] \in live
      BY <1>2, <2>3, <3>1 DEF LinkOK
    <3>3. LinkOK(u)'
      BY <1>1, <1>2, <1>3, <1>4, <1>5, <2>3, <3>1 DEF LinkOK
    <3>4. waiting[u] \in Pids /\ processes[waiting[u]] = next[u] /\ waiting[u] # p
      BY <1>3, <3>1, <3>2 DEF FamilyOK, process_get
    <3>5. process_get(waiting[u])' = next[u]
      BY <1>6, <2>3, <3>1, <3>4 DEF process_get
    <3>6. FamilyOK(u)'
      BY <1>4, <1>5, <1>6, <2>3, <3>1, <3>2, <3>5 DEF FamilyOK
    <3> QED BY <3>3, <3>6
  <2> QED BY <2>1, <2>2, <2>3
<1> QED BY <1>9, <1>10, <1>11, <1>8 DEF StackInv

LEMMA ExitKeeps ==
  ASSUME Nested, StackInv, TypeOK', exit
  PROVE  StackInv'
<1>1. /\ mode = "user" /\ Disciplined /\ task_list_remove(cur) /\ live' = live \ {cur}
      /\ processes' = [processes EXCEPT ![id[cur]] = NULL]
      /\ kids' = [t \in Tasks |-> kids[t] \ {cur}]
      /\ mode' = IF head' = NULL THEN "halted" ELSE "user"
      /\ current_process' = IF head' = NULL THEN current_process ELSE cur'
      /\ UNCHANGED <<id, maps, waiting>>
  BY DEF exit
<1>2. PICK c \in live : c = cur /\ c = tail /\ next[c] = NULL
  BY <1>1, OnlyLast
<1>3. LinkOK(c) /\ c \in Tasks /\ c # NULL /\ mode = "user" /\ head \in live
  BY <1>1, TasksAssumption DEF StackInv, TypeOK, Disciplined, EndsOK
<1>4. TypeOK /\ \A u \in live : u \in Tasks /\ u # NULL
  BY TasksAssumption DEF StackInv, TypeOK
<1>5. /\ head' = IF c = head THEN NULL ELSE head
      /\ tail' = prev[c] /\ cur' = head' /\ prev' = prev
      /\ \A x \in Tasks : next'[x] = IF x = prev[c] THEN NULL ELSE next[x]
  BY <1>1, <1>2 DEF task_list_remove
<1>6. /\ id[c] \in Pids /\ processes[id[c]] = c
      /\ \A q \in Pids : processes'[q] = IF q = id[c] THEN NULL ELSE processes[q]
  BY <1>1, <1>2, <1>3, <1>4 DEF StackInv, SlotsOK, TypeOK
<1>7. \A u \in live : LinkOK(u) /\ FamilyOK(u)
  BY DEF StackInv
<1>8. SlotsOK'
  BY <1>1, <1>2, <1>3, <1>4, <1>6 DEF StackInv, SlotsOK, TypeOK
<1>9. CASE c = head
  <2>1. id[c] = 0
    BY <1>9 DEF StackInv, DenseOK
  <2>2. ASSUME NEW u \in live PROVE u = c
    <3>1. id[u] \in Pids /\ processes[id[u]] = u /\ processes[id[u]] # NULL
      BY <1>4 DEF StackInv, SlotsOK, TypeOK
    <3>2. id[u] <= id[c]
      BY <1>2, <3>1 DEF StackInv, DenseOK
    <3>3. id[u] = 0
      BY <2>1, <3>1, <3>2, ProcsAssumption DEF Pids
    <3> QED BY <1>6, <2>1, <3>1, <3>3
  <2>3. live' = {}
    BY <1>1, <1>2, <2>2
  <2>4. prev[c] = NULL
    BY <1>3, <1>9 DEF LinkOK
  <2>5. EndsOK'
    BY <1>1, <1>5, <1>9, <2>3, <2>4 DEF EndsOK
  <2> QED BY <1>8, <2>3, <2>5 DEF StackInv, DenseOK
<1>10. CASE c # head
  <2>1. PICK u \in live : u = prev[c] /\ next[u] = c /\ u # c
    BY <1>2, <1>3, <1>10 DEF LinkOK
  <2>2. head' = head /\ tail' = u /\ cur' = head /\ head # NULL
    BY <1>3, <1>4, <1>5, <1>10, <2>1
  <2>3. EndsOK'
    BY <1>1, <1>2, <1>3, <1>10, <2>1, <2>2 DEF EndsOK
  <2>4. id[c] = id[u] + 1 /\ id[u] \in Int /\ Pids \subseteq Int
    BY <1>3, <1>4, <1>7, <2>1, ProcsAssumption DEF FamilyOK, TypeOK, Pids
  <2>5. DenseOK'
    <3>1. id[head] = 0 /\ \A q \in Pids : processes[q] # NULL <=> q <= id[c]
      BY <1>2 DEF StackInv, DenseOK
    <3>2. \A q \in Pids : processes'[q] # NULL <=> q <= id[u]
      BY <1>6, <2>4, <3>1
    <3> QED BY <1>1, <2>2, <3>1, <3>2 DEF DenseOK
  <2>6. ASSUME NEW v \in live' PROVE LinkOK(v)' /\ FamilyOK(v)'
    <3>1. v \in live /\ v # c /\ v \in Tasks /\ LinkOK(v) /\ FamilyOK(v)
      BY <1>1, <1>2, <1>4, <1>7, <2>6
    <3>2. kids'[v] = kids[v] \ {c} /\ waiting'[v] = waiting[v] /\ maps'[v] = maps[v] /\ id' = id
      BY <1>1, <1>2, <3>1
    <3>3. CASE v = u
      <4>1. next'[u] = NULL
        BY <1>5, <2>1, <3>1, <3>3
      <4>2. prev[u] # NULL => prev[u] # c /\ prev[u] # u /\ prev[u] \in live /\ next[prev[u]] = u
        BY <1>2, <1>4, <2>1, <3>1, <3>3 DEF LinkOK
      <4>3. LinkOK(u)'
        BY <1>1, <1>2, <1>4, <1>5, <2>1, <2>2, <3>1, <3>3, <4>1, <4>2 DEF LinkOK
      <4>4. waiting[u] \in Pids /\ processes[waiting[u]] = c
        BY <1>3, <2>1, <3>1, <3>3 DEF FamilyOK, process_get
      <4>5. waiting[u] = id[c]
        BY <1>3, <4>4 DEF StackInv, SlotsOK
      <4>6. process_get(waiting[u])' = NULL
        BY <1>1, <1>6, <4>4, <4>5 DEF process_get
      <4>7. kids'[u] = {}
        BY <2>1, <3>1, <3>2, <3>3 DEF FamilyOK
      <4>8. FamilyOK(u)'
        BY <2>2, <3>1, <3>2, <3>3, <4>1, <4>6, <4>7 DEF FamilyOK
      <4> QED BY <3>3, <4>3, <4>8
    <3>4. CASE v # u
      <4>1. next'[v] = next[v] /\ next[v] # NULL /\ next[v] \in live /\ next[v] # c
        BY <1>2, <1>5, <2>1, <3>1, <3>4 DEF LinkOK
      <4>2. prev[v] # NULL => prev[v] # u /\ prev[v] # c /\ prev[v] \in live
        BY <1>2, <1>4, <2>1, <3>1, <3>4 DEF LinkOK
      <4>3. LinkOK(v)'
        BY <1>1, <1>2, <1>4, <1>5, <2>1, <2>2, <3>1, <3>4, <4>1, <4>2 DEF LinkOK
      <4>4. waiting[v] \in Pids /\ processes[waiting[v]] = next[v]
        BY <3>1, <4>1 DEF FamilyOK, process_get
      <4>5. process_get(waiting[v])' = next[v]
        BY <1>1, <1>6, <3>2, <4>1, <4>4 DEF process_get
      <4>6. kids'[v] = {next[v]} \ {NULL}
        BY <3>1, <3>2, <4>1 DEF FamilyOK
      <4>7. FamilyOK(v)'
        BY <2>2, <3>1, <3>2, <4>1, <4>5, <4>6 DEF FamilyOK
      <4> QED BY <4>3, <4>7
    <3> QED BY <3>3, <3>4
  <2> QED BY <1>8, <2>3, <2>5, <2>6 DEF StackInv
<1> QED BY <1>9, <1>10

LEMMA BootKeeps ==
  ASSUME StackInv, TypeOK', boot
  PROVE  StackInv'
<1>1. PICK t \in Tasks, p \in free_slots :
        /\ mode = "boot" /\ p = Min(free_slots)
        /\ task_new(t) /\ task_switch(t)
        /\ live' = live \cup {t} /\ processes' = [processes EXCEPT ![p] = t]
        /\ id' = [id EXCEPT ![t] = p] /\ maps' = [maps EXCEPT ![t] = t]
        /\ waiting' = [waiting EXCEPT ![t] = NONE] /\ kids' = [kids EXCEPT ![t] = {}]
        /\ mode' = "user"
  BY DEF boot
<1>2. live = {} /\ head = NULL /\ TypeOK /\ t # NULL /\ p \in Pids
  BY <1>1, TasksAssumption DEF StackInv, EndsOK, free_slots
<1>3. \A q \in Pids : processes[q] = NULL
  BY <1>2 DEF StackInv, SlotsOK
<1>4. p = 0
  <2>1. free_slots \subseteq Nat /\ 0 \in free_slots
    BY <1>3, ProcsAssumption DEF free_slots, Pids
  <2>2. p <= 0 /\ p \in Nat
    BY <1>1, <2>1, MinIn
  <2> QED BY <2>2
<1>5. /\ live' = {t} /\ head' = t /\ tail' = t /\ cur' = t /\ current_process' = t
      /\ next'[t] = NULL /\ prev'[t] = NULL
      /\ id'[t] = 0 /\ maps'[t] = t /\ waiting'[t] = NONE /\ kids'[t] = {}
  BY <1>1, <1>2, <1>4 DEF task_new, task_switch, TypeOK
<1>6. \A q \in Pids : processes'[q] = IF q = 0 THEN t ELSE NULL
  BY <1>1, <1>2, <1>3, <1>4 DEF TypeOK
<1>7. EndsOK' /\ SlotsOK'
  BY <1>1, <1>2, <1>4, <1>5, <1>6 DEF EndsOK, SlotsOK
<1>8. DenseOK'
  BY <1>2, <1>5, <1>6, ProcsAssumption DEF DenseOK, Pids
<1>9. LinkOK(t)'
  BY <1>5 DEF LinkOK
<1>10. process_get(waiting[t])' = NULL
  BY <1>5 DEF process_get, NONE, Pids
<1>11. FamilyOK(t)'
  BY <1>5, <1>10 DEF FamilyOK
<1> QED BY <1>5, <1>7, <1>8, <1>9, <1>11 DEF StackInv

LEMMA OthersKeep ==
  ASSUME Nested, StackInv, TypeOK',
         timer \/ readline \/ line_read \/ UNCHANGED vars \/ \E t \in Tasks : wait(t)
  PROVE  StackInv'
<1>1. UNCHANGED <<live, next, prev, head, tail, processes, id, maps, kids>>
  BY DEF timer, readline, line_read, wait, vars, list, program
<1>2. EndsOK'
  <2>1. CASE timer
    <3>1. /\ mode = "user" /\ mode' = mode /\ cur' = task_get_next
          /\ current_process' = cur' /\ task_get_next # NULL
      BY <2>1 DEF timer, task_switch
    <3>2. cur \in live /\ head \in live
      BY <3>1 DEF StackInv, EndsOK
    <3>3. task_get_next \in live
      BY <3>2 DEF task_get_next, StackInv, LinkOK
    <3> QED BY <1>1, <3>1, <3>3 DEF StackInv, EndsOK
  <2>2. CASE ~timer
    <3>1. cur' = cur /\ current_process' = current_process
      BY <2>2 DEF readline, line_read, wait, vars
    <3>2. mode' = mode \/ (mode \in Running /\ mode' \in Running)
      BY <2>2 DEF readline, line_read, wait, vars, Disciplined, Running
    <3> QED BY <1>1, <3>1, <3>2 DEF StackInv, EndsOK, Running
  <2> QED BY <2>1, <2>2
<1>3. ASSUME NEW u \in live PROVE process_get(waiting[u])' = process_get(waiting[u])
  <2>1. CASE waiting'[u] = waiting[u]
    BY <1>1, <2>1 DEF process_get
  <2>2. CASE waiting'[u] # waiting[u]
    <3>1. PICK t \in Tasks : wait(t)
      BY <2>2 DEF timer, readline, line_read, vars, program
    <3>2. /\ process_get(waiting[t]) = NULL /\ waiting' = [waiting EXCEPT ![t] = NONE]
      BY <3>1 DEF wait, stack_item
    <3>3. u = t /\ waiting'[u] = NONE
      BY <2>2, <3>2 DEF StackInv, TypeOK
    <3>4. process_get(waiting[u])' = NULL
      BY <3>3 DEF process_get, NONE, Pids
    <3> QED BY <3>2, <3>3, <3>4
  <2> QED BY <2>1, <2>2
<1> QED BY <1>1, <1>2, <1>3, StackFrame

LEMMA StackInit == Init => TypeInv /\ StackInv
<1> SUFFICES ASSUME Init PROVE StackInv
  BY InitTyped
<1>1. TypeOK
  BY InitTyped DEF TypeInv
<1>2. EndsOK /\ SlotsOK /\ DenseOK
  BY DEF Init, EndsOK, SlotsOK, DenseOK
<1> QED BY <1>1, <1>2 DEF StackInv, Init

LEMMA StackNext ==
  ASSUME Nested, TypeInv, StackInv, [Next]_vars
  PROVE  TypeInv' /\ StackInv'
<1>1. TypeInv' /\ TypeOK'
  BY NextTyped DEF TypeInv
<1>2. StackInv'
  BY <1>1, BootKeeps, ForkKeeps, ExitKeeps, OthersKeep DEF Next, halted
<1> QED BY <1>1, <1>2

LEMMA StackInvariance == Nested => (Spec => [](TypeInv /\ StackInv))
<1> SUFFICES ASSUME Nested PROVE Spec => [](TypeInv /\ StackInv)
  OBVIOUS
<1>1. Init => TypeInv /\ StackInv
  BY StackInit
<1>2. TypeInv /\ StackInv /\ [Next]_vars => (TypeInv /\ StackInv)'
  BY StackNext
<1> QED BY <1>1, <1>2, PTL DEF Spec

(* What the stack says of the pointers and of memory. *)
LEMMA StackPromises ==
  ASSUME StackInv
  PROVE  NothingFreed /\ \A t \in live : maps[t] \in live
<1>1. {head, tail, cur} \subseteq live \cup {NULL}
  BY DEF StackInv, EndsOK, TypeOK
<1>2. \A t \in live : {next[t], prev[t]} \subseteq live \cup {NULL}
  BY DEF StackInv, LinkOK
<1>3. \A p \in Pids : processes[p] \in live \cup {NULL}
  BY DEF StackInv, SlotsOK
<1>4. mode \in {"user", "readline"} => cur \in live /\ current_process = cur
  BY DEF StackInv, EndsOK
<1>5. NothingFreed
  BY <1>1, <1>2, <1>3, <1>4 DEF NothingFreed
<1>6. \A t \in live : maps[t] = head
  BY DEF StackInv, FamilyOK
<1>7. live # {} => head \in live
  BY DEF StackInv, EndsOK, TypeOK
<1> QED BY <1>5, <1>6, <1>7

(***************************************************************************)
(* The walk goes up to the last task, by which pids are dense, from there  *)
(* to the head, and from the head it comes by every task.                  *)
(***************************************************************************)
LEMMA StackScheduled ==
  ASSUME StackInv
  PROVE  AllScheduled
<1>1. SUFFICES ASSUME NEW S \in SUBSET live, cur \in S,
                      \A t \in S : (IF next[t] = NULL THEN head ELSE next[t]) \in S
               PROVE  S = live
  BY DEF AllScheduled
<1>2. live # {} /\ head \in live /\ live \subseteq Tasks /\ NULL \notin live
  BY <1>1, TasksAssumption DEF StackInv, EndsOK, TypeOK
<1>3. /\ \A t \in live : id[t] \in Pids /\ processes[id[t]] = t
      /\ id[head] = 0 /\ Pids = 0 .. (MaxProcs - 1) /\ MaxProcs - 1 \in Nat
  BY <1>2, ProcsAssumption DEF StackInv, SlotsOK, DenseOK, TypeOK, Pids
<1>4. \A t \in live : LinkOK(t) /\ FamilyOK(t)
  BY DEF StackInv
<1>5. head \in S
  <2> DEFINE I == {p \in Pids : processes[p] \in S}
  <2>1. id[cur] \in I
    BY <1>1, <1>3
  <2>2. PICK m \in I : \A p \in I : m >= p
    <3>1. I \subseteq 0 .. (MaxProcs - 1) /\ I # {}
      BY <1>3, <2>1
    <3> QED BY <1>3, <3>1, MaxIn
  <2>3. PICK t \in S : t = processes[m]
    BY <2>2
  <2>4. id[t] = m
    BY <1>2, <2>2, <2>3 DEF StackInv, SlotsOK
  <2>5. next[t] = NULL
    <3>1. SUFFICES ASSUME next[t] # NULL PROVE FALSE
      OBVIOUS
    <3>2. next[t] \in S /\ id[next[t]] = m + 1
      BY <1>1, <1>4, <2>4, <3>1 DEF FamilyOK
    <3>3. m + 1 \in I
      BY <1>1, <1>3, <3>2
    <3> QED BY <1>3, <2>2, <3>3
  <2> QED BY <1>1, <2>5
<1>6. SUFFICES ASSUME NEW v \in live, v \notin S PROVE FALSE
  BY <1>1
<1> DEFINE O == {p \in Pids : processes[p] \in live \ S}
<1>7. id[v] \in O
  BY <1>3, <1>6
<1>8. PICK m \in O : \A p \in O : m <= p
  <2>1. O \subseteq Nat /\ O # {}
    BY <1>3, <1>7
  <2> QED BY <2>1, MinIn
<1>9. PICK u \in live : u = processes[m] /\ u \notin S /\ id[u] = m
  <2>1. processes[m] \in live \ S /\ m \in Pids
    BY <1>8
  <2>2. id[processes[m]] = m
    BY <1>2, <2>1 DEF StackInv, SlotsOK
  <2> QED BY <2>1, <2>2
<1>10. u # head
  BY <1>5, <1>9
<1>11. PICK w \in live : w = prev[u] /\ next[w] = u
  BY <1>4, <1>9, <1>10 DEF LinkOK
<1>12. id[u] = id[w] + 1
  BY <1>2, <1>4, <1>9, <1>11 DEF FamilyOK
<1>13. w \in S
  <2>1. id[w] \in Int /\ m = id[w] + 1
    BY <1>3, <1>9, <1>12
  <2>2. ~(m <= id[w])
    BY <2>1
  <2>3. id[w] \notin O
    BY <1>8, <2>2
  <2> QED BY <1>3, <2>3
<1> QED BY <1>1, <1>2, <1>9, <1>11, <1>13

(***************************************************************************)
(* For any number of processes and any heap addresses, as long as every    *)
(* process that forks waits: the kernel never follows a pointer to a freed *)
(* task, although task_list_remove does not repair prev.                   *)
(***************************************************************************)
THEOREM TasksNothingFreed == Nested => (Spec => []NothingFreed)
<1>1. TypeInv /\ StackInv => NothingFreed
  BY StackPromises
<1> QED BY <1>1, StackInvariance, PTL

(***************************************************************************)
(* Whatever came and went, the timer's walk with task_get_next comes by    *)
(* every process: task_new and task_list_remove lose none.                 *)
(***************************************************************************)
THEOREM TasksAllScheduled == Nested => (Spec => []AllScheduled)
<1>1. TypeInv /\ StackInv => AllScheduled
  BY StackScheduled
<1> QED BY <1>1, StackInvariance, PTL

-----------------------------------------------------------------------------
(***************************************************************************)
(* Memory.                                                                 *)
(***************************************************************************)

(* ----- Addresses ----- *)

LEMMA SizeFacts ==
  /\ NTables \in Nat \ {0} /\ NEntries \in Nat \ {0} /\ PageSize \in Nat \ {0}
  /\ Span \in Nat \ {0} /\ Span = NEntries * PageSize
  BY PagingAssumption DEF Span

(* A page is told by the index of its table and that of its entry. *)
LEMMA PageFacts ==
  ASSUME NEW p \in Pages
  PROVE  /\ p \in Nat /\ p % PageSize = 0
         /\ directory_index(p) \in TableIx /\ table_index(p) \in EntryIx
         /\ p = directory_index(p) * Span + table_index(p) * PageSize
<1> DEFINE q == p \div Span
           r == p % Span
           b == r \div PageSize
<1>1. PICK k \in 0 .. (NTables * NEntries - 1) : p = k * PageSize
  BY DEF Pages
<1>2. p \in Nat /\ k \in Nat /\ k < NTables * NEntries
  BY <1>1, SizeFacts
<1>3. p % PageSize = 0
  BY <1>1, <1>2, SizeFacts
<1>4. p = Span * q + r /\ q \in Nat /\ r \in 0 .. (Span - 1)
  BY <1>2, SizeFacts, DivMod
<1>5. r = (k - NEntries * q) * PageSize
  BY <1>1, <1>2, <1>4, SizeFacts
<1> HIDE DEF q, r
<1>6. r \in Nat
  BY <1>4, SizeFacts
<1>7. r = PageSize * b + (r % PageSize) /\ b \in Nat /\ r % PageSize \in 0 .. (PageSize - 1)
  BY <1>6, SizeFacts, DivMod
<1> HIDE DEF b
<1>8. r % PageSize = 0 /\ b = k - NEntries * q
  BY <1>2, <1>4, <1>5, <1>7, SizeFacts
<1>9. b \in EntryIx
  BY <1>4, <1>7, <1>8, SizeFacts DEF EntryIx
<1>10. NEntries * q < NTables * NEntries
  BY <1>2, <1>4, <1>7, <1>8, SizeFacts
<1>11. q \in TableIx
  BY <1>4, <1>10, SizeFacts DEF TableIx
<1>12. p = q * Span + b * PageSize
  BY <1>4, <1>7, <1>8, SizeFacts
<1> QED BY <1>2, <1>3, <1>9, <1>11, <1>12 DEF directory_index, table_index, q, r, b

LEMMA PageNumber ==
  ASSUME NEW p \in Pages
  PROVE  \E k \in Nat : p = k * PageSize
<1>1. NTables * NEntries - 1 \in Int
  BY SizeFacts
<1>2. PICK k \in 0 .. (NTables * NEntries - 1) : p = k * PageSize
  BY DEF Pages
<1> QED BY <1>1, <1>2

LEMMA SamePage ==
  ASSUME NEW p \in Pages, NEW v \in Pages,
         directory_index(p) = directory_index(v), table_index(p) = table_index(v)
  PROVE  p = v
  BY PageFacts

(* What Maps says of a page. *)
LEMMA MapsPage ==
  ASSUME NEW t, NEW p \in Pages
  PROVE  /\ Maps(t, p) = table[dir[t][directory_index(p)]][table_index(p)]
         /\ Maps(t, p)' = table'[dir'[t][directory_index(p)]][table_index(p)]
<1>1. p - (p % PageSize) = p
  BY PageFacts
<1>2. Maps(t, p)' = paging_get(table', dir'[t], p - (p % PageSize))
  BY DEF Maps, paging_get, directory_index, table_index
<1> QED BY <1>1, <1>2 DEF Maps, paging_get

-----------------------------------------------------------------------------
(* ----- The processes ----- *)

(* A step of Memory is one of Tasks, or leaves the processes alone. *)
LEMMA StepIsTask ==
  ASSUME [MNext]_mvars
  PROVE  [Next]_vars
<1>1. CASE boot_mapped \/ timer_switch \/ fork_copies \/ exit_frees \/ readline_waits
           \/ (\E t \in Tasks : wait_tells(t))
  BY <1>1 DEF boot_mapped, timer_switch, fork_copies, exit_frees, readline_waits, wait_tells, Next
<1>2. CASE syscall \/ sysret \/ get_stack_item \/ copy_map \/ copy_bytes \/ copy_back
           \/ copy_restore \/ machine_halted \/ UNCHANGED mvars
  <2>1. vars' = vars
    BY <1>2 DEF syscall, sysret, get_stack_item, copy_map, copy_bytes, copy_back, copy_restore,
                machine_halted, mvars
  <2> QED BY <2>1
<1> QED BY <1>1, <1>2 DEF MNext

(***************************************************************************)
(* Memory implements Tasks: with the switches of directories and the       *)
(* copies in between, sys_fork, sys_exit, sys_wait, sys_readline and the   *)
(* timer are still single steps of the processes, so that what Tasks       *)
(* promises of the list and the table holds here.                          *)
(***************************************************************************)
THEOREM MemoryImplementsTasks == MSpec => Init /\ [][Next]_vars
<1>1. MInit => Init
  BY DEF MInit
<1>2. [MNext]_mvars => [Next]_vars
  BY StepIsTask
<1> QED BY <1>1, <1>2, PTL DEF MSpec

LEMMA MemoryStack == Nested => (MSpec => [](TypeInv /\ StackInv))
<1> SUFFICES ASSUME Nested PROVE MSpec => [](TypeInv /\ StackInv)
  OBVIOUS
<1>1. Init => TypeInv /\ StackInv
  BY StackInit
<1>2. (TypeInv /\ StackInv) /\ [Next]_vars => (TypeInv /\ StackInv)'
  BY StackNext
<1> QED BY <1>1, <1>2, MemoryImplementsTasks, PTL

(* What the steps that make and end a process do. *)
Born(t) ==
  /\ t \in Tasks /\ t \notin live /\ live' = live \cup {t}
  /\ free_slots # {}

LEMMA BootFacts ==
  ASSUME StackInv, boot_mapped
  PROVE  \E t \in Tasks : /\ Born(t) /\ live = {} /\ head' = t /\ cur' = t /\ mode' = "user"
                         /\ maps' = [maps EXCEPT ![t] = t]
<1>1. PICK t \in Tasks, p \in free_slots :
        /\ mode = "boot" /\ task_new(t) /\ task_switch(t) /\ live' = live \cup {t}
        /\ maps' = [maps EXCEPT ![t] = t] /\ mode' = "user"
  BY DEF boot_mapped, boot
<1>2. live = {} /\ head = NULL
  BY <1>1 DEF StackInv, EndsOK
<1>3. head' = t /\ cur' = t
  BY <1>1, <1>2 DEF task_new, task_switch
<1> QED BY <1>1, <1>2, <1>3 DEF Born

LEMMA ForkFacts ==
  ASSUME StackInv, fork_copies
  PROVE  \E t \in Tasks : /\ Born(t) /\ mode = "user" /\ cur \in live
                         /\ UNCHANGED <<cur, mode>>
                         /\ maps' = [maps EXCEPT ![t] = maps[cur]]
                         /\ copy_4gb(cur, t)
<1>1. PICK t \in Tasks \ live, p \in free_slots :
        /\ mode = "user" /\ Disciplined /\ live' = live \cup {t} /\ maps' = [maps EXCEPT ![t] = maps[cur]]
        /\ UNCHANGED <<cur, mode>>
  BY DEF fork_copies, fork
<1>2. mode = "user" /\ cur \in live
  BY <1>1 DEF Disciplined, StackInv, EndsOK
<1>3. live' \ live = {t}
  BY <1>1
<1>4. (CHOOSE u \in live' \ live : TRUE) = t
  BY <1>3
<1>5. copy_4gb(cur, t)
  BY <1>4 DEF fork_copies
<1> QED BY <1>1, <1>2, <1>5 DEF Born

LEMMA ExitFacts ==
  ASSUME StackInv, exit_frees
  PROVE  /\ cur \in live /\ live' = live \ {cur} /\ maps' = maps
         /\ mode = "user" /\ mode' \in {"user", "halted"}
  BY DEF exit_frees, exit, Disciplined, StackInv, EndsOK

-----------------------------------------------------------------------------
(* ----- The kernel's place and the loaded directory ----- *)

Copying == {"mapped", "copied", "restore"}

LoadedOK ==
  /\ kpc \in {"user", "kernel", "leave", "stack"} \cup Copying
  /\ loaded = IF kpc \in {"user", "stack", "copied"} THEN cur ELSE NULL
  /\ kpc \in {"user", "stack"} \cup Copying => mode = "user"
  /\ mode = "boot" => kpc = "kernel"

LEMMA LoadedNext ==
  ASSUME StackInv, StackInv', LoadedOK, [MNext]_mvars
  PROVE  LoadedOK'
<1> USE DEF Copying
<1>1. CASE boot_mapped
  BY <1>1, BootFacts DEF boot_mapped, LoadedOK
<1>2. CASE timer_switch
  BY <1>2 DEF timer_switch, timer, LoadedOK
<1>3. CASE syscall \/ sysret
  BY <1>3 DEF syscall, sysret, vars, LoadedOK
<1>4. CASE fork_copies
  BY <1>4, ForkFacts DEF fork_copies, LoadedOK
<1>5. CASE exit_frees
  BY <1>5, ExitFacts DEF exit_frees, LoadedOK
<1>6. ASSUME NEW t \in Tasks, wait_tells(t) PROVE LoadedOK'
  BY <1>6 DEF wait_tells, wait, LoadedOK
<1>7. CASE readline_waits
  BY <1>7 DEF readline_waits, readline, line_read, Disciplined, LoadedOK
<1>8. CASE get_stack_item
  BY <1>8 DEF get_stack_item, vars, LoadedOK
<1>9. CASE copy_map \/ copy_bytes \/ copy_back \/ copy_restore
  BY <1>9 DEF copy_map, copy_bytes, copy_back, copy_restore, vars, LoadedOK
<1>10. CASE UNCHANGED mvars
  BY <1>10 DEF mvars, vars, LoadedOK
<1> QED BY <1>1, <1>2, <1>3, <1>4, <1>5, <1>6, <1>7, <1>8, <1>9, <1>10 DEF MNext, machine_halted

-----------------------------------------------------------------------------
(* ----- The tables ----- *)

PageEntries == [phys : Int, writable : BOOLEAN]

TablesTyped ==
  /\ dir \in [Tasks \cup {NULL} -> [TableIx -> HeapTables]]
  /\ table \in [HeapTables -> [EntryIx -> PageEntries]]
  /\ tmp \in Pages \cup {0} /\ old \in PageEntries
  /\ kpc \in Copying => tmp \in Temporaries

TablesOwned ==
  /\ \A s, u \in Owners : \A i, j \in TableIx : dir[s][i] = dir[u][j] => s = u /\ i = j
  /\ \A x : x \in taken <=> \E s \in Owners, i \in TableIx : x = dir[s][i]

(* With a free slot in the process table, the heap has the tables of one   *)
(* more directory.                                                         *)
LEMMA HeapSuffices ==
  ASSUME StackInv, TablesTyped, TablesOwned, free_slots # {}
  PROVE  Cardinality(HeapTables \ taken) \in Nat /\ NTables <= Cardinality(HeapTables \ taken)
<1>1. PICK q \in Pids : processes[q] = NULL
  BY DEF free_slots
<1>2. IsFiniteSet(Pids) /\ Cardinality(Pids) = MaxProcs /\ MaxProcs \in Nat \ {0}
  BY FS_Interval, ProcsAssumption DEF Pids
<1>3. IsFiniteSet(Pids \ {q}) /\ Cardinality(Pids \ {q}) = MaxProcs - 1
  BY <1>2, FS_RemoveElement
<1>4. IsFiniteSet(live) /\ Cardinality(live) \in Nat /\ Cardinality(live) <= MaxProcs - 1
  <2> DEFINE f == [t \in live |-> id[t]]
  <2>1. \A t \in live : id[t] \in Pids /\ processes[id[t]] = t /\ t # NULL
    BY TasksAssumption DEF StackInv, SlotsOK, TypeOK
  <2>2. f \in Injection(live, Pids \ {q})
    <3>1. f \in [live -> Pids \ {q}] /\ \A s, t \in live : f[s] = f[t] => s = t
      BY <1>1, <2>1
    <3> QED BY <3>1 DEF Injection, IsInjective
  <2> HIDE DEF f
  <2> QED BY <1>3, <2>2, FS_Injection, FS_CardinalityType
<1>5. NULL \notin live
  BY TasksAssumption DEF StackInv, TypeOK
<1>6. /\ IsFiniteSet(Owners) /\ Cardinality(Owners) = Cardinality(live) + 1
  BY <1>4, <1>5, FS_AddElement DEF Owners
<1>7. IsFiniteSet(TableIx) /\ Cardinality(TableIx) = NTables
  BY SizeFacts, FS_Interval DEF TableIx
<1> DEFINE O == Owners \X TableIx
<1>8. IsFiniteSet(O) /\ Cardinality(O) = (Cardinality(live) + 1) * NTables
  BY <1>6, <1>7, FS_Product
<1>9. Cardinality(taken) \in Nat /\ Cardinality(taken) <= Cardinality(O) /\ IsFiniteSet(taken)
  <2> DEFINE f == [x \in O |-> dir[x[1]][x[2]]]
  <2>1. f \in Surjection(O, taken)
    <3>1. f \in [O -> taken]
      BY DEF TablesOwned
    <3>2. ASSUME NEW y \in taken PROVE \E x \in O : f[x] = y
      <4>1. PICK t \in Owners, i \in TableIx : y = dir[t][i]
        BY DEF TablesOwned
      <4>2. <<t, i>> \in O /\ f[<<t, i>>] = y
        BY <4>1
      <4> QED BY <4>2
    <3> HIDE DEF f, O
    <3> QED BY <3>1, <3>2 DEF Surjection
  <2> HIDE DEF f, O
  <2>2. IsFiniteSet(taken) /\ Cardinality(taken) <= Cardinality(O)
    BY <1>8, <2>1, FS_Surjection
  <2> QED BY <2>2, FS_CardinalityType
<1>10. IsFiniteSet(HeapTables) /\ Cardinality(HeapTables) = HeapBlocks /\ HeapBlocks \in Nat
  <2>1. HeapBlocks \in Nat /\ HeapBlocks - 1 \in Int /\ 0 \in Int
    BY HeapAssumption
  <2>2. /\ IsFiniteSet(0 .. (HeapBlocks - 1))
        /\ Cardinality(0 .. (HeapBlocks - 1)) = IF 0 > HeapBlocks - 1 THEN 0
                                                ELSE (HeapBlocks - 1) - 0 + 1
    BY <2>1, FS_Interval
  <2> QED BY <2>1, <2>2 DEF HeapTables
<1>11. taken \subseteq HeapTables
  BY <1>5 DEF TablesOwned, TablesTyped, Owners, StackInv, TypeOK
<1>12. HeapTables \cap taken = taken
  BY <1>11
<1>13. Cardinality(HeapTables \ taken) = HeapBlocks - Cardinality(taken)
  BY <1>10, <1>12, FS_Difference
<1>14. (Cardinality(live) + 1) * NTables <= MaxProcs * NTables
  BY <1>2, <1>4, SizeFacts
<1>15. HeapBlocks >= MaxProcs * NTables + NTables
  BY <1>2, SizeFacts, HeapAssumption
<1>16. Cardinality(taken) <= MaxProcs * NTables
  <2>1. Cardinality(taken) <= (Cardinality(live) + 1) * NTables
    BY <1>8, <1>9
  <2> HIDE DEF O
  <2> QED BY <1>2, <1>4, <1>9, <1>14, <2>1, SizeFacts
<1> QED BY <1>2, <1>9, <1>10, <1>13, <1>15, <1>16, SizeFacts

LEMMA NewFacts ==
  ASSUME StackInv, TablesTyped, TablesOwned, free_slots # {}
  PROVE  /\ NewTables \in [TableIx -> HeapTables]
         /\ \A i \in TableIx : NewTables[i] \notin taken
         /\ \A i, j \in TableIx : NewTables[i] = NewTables[j] => i = j
<1> DEFINE F == HeapTables \ taken
<1>1. Cardinality(F) \in Nat /\ NTables <= Cardinality(F)
  BY HeapSuffices
<1>2. HeapBlocks \in Nat /\ F \subseteq 0 .. (HeapBlocks - 1)
  BY HeapAssumption DEF HeapTables
<1>3. \A i \in 0 .. (Cardinality(F) - 1) : \E x \in F : i = Cardinality(Below(F, x))
  BY <1>2, RankOnto
<1>4. NewTables = [i \in TableIx |-> CHOOSE x \in F : Cardinality(Below(F, x)) = i]
  BY DEF NewTables, Below
<1> HIDE DEF F
<1>5. \A i \in TableIx : \E x \in F : Cardinality(Below(F, x)) = i
  BY <1>1, <1>3, SizeFacts DEF TableIx
<1>6. \A i \in TableIx : NewTables[i] \in F /\ Cardinality(Below(F, NewTables[i])) = i
  BY <1>4, <1>5
<1>7. NewTables \in [TableIx -> HeapTables]
  BY <1>4, <1>6 DEF F
<1> QED BY <1>6, <1>7 DEF F

-----------------------------------------------------------------------------
(* ----- Entries ----- *)

TableSet == [HeapTables -> [EntryIx -> PageEntries]]

(* paging_set changes the entry of its page and no other. *)
LEMMA SetFacts ==
  ASSUME NEW T \in TableSet, NEW D \in [TableIx -> HeapTables], NEW v \in Pages,
         NEW e \in PageEntries
  PROVE  /\ paging_set(T, D, v, e) \in TableSet
         /\ \A x \in HeapTables, b \in EntryIx :
              paging_set(T, D, v, e)[x][b] =
                IF x = D[directory_index(v)] /\ b = table_index(v) THEN e ELSE T[x][b]
<1>1. /\ v % PageSize = 0 /\ D[directory_index(v)] \in HeapTables
      /\ table_index(v) \in EntryIx
  BY PageFacts
<1>2. PICK y \in HeapTables, c \in EntryIx : y = D[directory_index(v)] /\ c = table_index(v)
  BY <1>1
<1>3. paging_set(T, D, v, e) = [T EXCEPT ![y][c] = e]
  BY <1>1, <1>2 DEF paging_set
<1>4. [T EXCEPT ![y][c] = e] \in TableSet
  BY DEF TableSet
<1>5. \A x \in HeapTables, b \in EntryIx :
        [T EXCEPT ![y][c] = e][x][b] = IF x = y /\ b = c THEN e ELSE T[x][b]
  BY DEF TableSet
<1> QED BY <1>2, <1>3, <1>4, <1>5

(* Rounding up: the pages that n units take from a page on. *)
LEMMA AlignFacts ==
  ASSUME NEW k \in Nat, NEW n \in Nat
  PROVE  \E m \in Nat : /\ paging_align_address(k * PageSize + n) = k * PageSize + m * PageSize
                       /\ \A j \in Nat : j * PageSize < n <=> j < m
<1> DEFINE c == k * PageSize + n
           q == c \div PageSize
           r == c % PageSize
<1>1. c \in Nat /\ PageSize \in Nat \ {0}
  BY SizeFacts
<1>2. c = PageSize * q + r /\ q \in Nat /\ r \in 0 .. (PageSize - 1)
  BY <1>1, DivMod
<1>3. paging_align_address(c) = IF r # 0 THEN c + PageSize - r ELSE c
  BY DEF paging_align_address
<1> HIDE DEF q, r
<1>4. n = PageSize * (q - k) + r
  BY <1>1, <1>2
<1>5. q - k \in Nat
  BY <1>1, <1>2, <1>4
<1>6. CASE r = 0
  <2>1. paging_align_address(c) = k * PageSize + (q - k) * PageSize
    BY <1>1, <1>2, <1>3, <1>6
  <2>2. \A j \in Nat : j * PageSize < n <=> j < q - k
    BY <1>1, <1>4, <1>5, <1>6
  <2> QED BY <1>5, <2>1, <2>2
<1>7. CASE r # 0
  <2>1. paging_align_address(c) = k * PageSize + (q - k + 1) * PageSize
    BY <1>1, <1>2, <1>3, <1>7
  <2>2. \A j \in Nat : j * PageSize < n <=> j < q - k + 1
    BY <1>1, <1>2, <1>4, <1>5, <1>7
  <2>3. q - k + 1 \in Nat
    BY <1>5
  <2> QED BY <2>1, <2>2, <2>3
<1> QED BY <1>6, <1>7

(* In R the directory D maps n units from virt on to those from phys on,   *)
(* and all else is as in T.                                                *)
RangeMapped(R, T, D, virt, phys, n) ==
  /\ R \in TableSet
  /\ \A x \in HeapTables : (\A i \in TableIx : D[i] # x) => R[x] = T[x]
  /\ \A p \in Pages : R[D[directory_index(p)]][table_index(p)] =
       IF p \in virt .. (virt + n - 1) THEN Entry(phys + p - virt, TRUE)
       ELSE T[D[directory_index(p)]][table_index(p)]

LEMMA MapToFacts ==
  ASSUME NEW T \in TableSet, NEW D \in [TableIx -> HeapTables],
         \A i, j \in TableIx : D[i] = D[j] => i = j,
         NEW virt \in Pages, NEW phys \in Pages, NEW n \in Nat,
         virt + n <= NTables * NEntries * PageSize
  PROVE  RangeMapped(paging_map_to(T, D, virt, phys, paging_align_address(phys + n)),
                     T, D, virt, phys, n)
<1>1. PICK kv \in Nat : virt = kv * PageSize
  BY PageNumber
<1>2. PICK kp \in Nat : phys = kp * PageSize
  BY PageNumber
<1>3. PICK m \in Nat : /\ paging_align_address(phys + n) = phys + m * PageSize
                       /\ \A j \in Nat : j * PageSize < n <=> j < m
  BY <1>2, AlignFacts
<1> DEFINE e == phys + m * PageSize
           R == paging_map_to(T, D, virt, phys, e)
           W(x, b) == {i \in 0 .. (m - 1) : /\ D[directory_index(virt + i * PageSize)] = x
                                           /\ table_index(virt + i * PageSize) = b}
<1>4. /\ virt % PageSize = 0 /\ phys % PageSize = 0 /\ e % PageSize = 0
      /\ ~(e < phys) /\ (e - phys) \div PageSize = m /\ phys \in Nat /\ virt \in Nat
  <2>1. virt % PageSize = 0 /\ phys % PageSize = 0 /\ phys \in Nat /\ virt \in Nat
    BY PageFacts
  <2>2. e = (kp + m) * PageSize /\ kp + m \in Nat
    BY <1>2, SizeFacts
  <2>3. m * PageSize \in Nat /\ (m * PageSize) \div PageSize = m
    BY SizeFacts
  <2>4. \A c \in Nat : (c * PageSize) % PageSize = 0
    BY SizeFacts
  <2>5. e % PageSize = 0
    BY <2>2, <2>4
  <2>6. \A c \in Nat : ~(phys + c < phys) /\ (phys + c) - phys = c
    BY <2>1
  <2>7. ~(e < phys) /\ e - phys = m * PageSize
    BY <2>3, <2>6
  <2> HIDE DEF e
  <2> QED BY <2>1, <2>3, <2>5, <2>7
<1>5. R = [x \in HeapTables |-> [b \in EntryIx |->
             IF W(x, b) = {} THEN T[x][b] ELSE Entry(phys + Max(W(x, b)) * PageSize, TRUE)]]
  <2>1. ~(e < phys \/ \E a \in {virt, phys, e} : a % PageSize # 0)
    BY <1>4
  <2>2. DOMAIN T = HeapTables
    BY DEF TableSet
  <2> QED BY <1>4, <2>1, <2>2 DEF paging_map_to
<1>6. \A x, b : W(x, b) # {} => Max(W(x, b)) \in W(x, b)
  <2>1. ASSUME NEW x, NEW b, W(x, b) # {} PROVE Max(W(x, b)) \in W(x, b)
    <3>1. W(x, b) \subseteq 0 .. m
      OBVIOUS
    <3> QED BY <2>1, <3>1, MaxIn
  <2> QED BY <2>1
<1>7. \A i \in 0 .. (m - 1) : virt + i * PageSize \in Pages
  <2>1. ASSUME NEW i \in 0 .. (m - 1) PROVE virt + i * PageSize \in Pages
    <3>1. i \in Nat /\ i * PageSize < n
      BY <1>3
    <3>2. (kv + i) * PageSize < (NTables * NEntries) * PageSize
      BY <1>1, <3>1, SizeFacts
    <3>3. kv + i \in 0 .. (NTables * NEntries - 1)
      BY <3>1, <3>2, SizeFacts
    <3>4. virt + i * PageSize = (kv + i) * PageSize
      BY <1>1, <3>1, SizeFacts
    <3> QED BY <3>3, <3>4 DEF Pages
  <2> QED BY <2>1
<1>8. R \in TableSet
  <2>1. ASSUME NEW x \in HeapTables, NEW b \in EntryIx, W(x, b) # {}
        PROVE  Entry(phys + Max(W(x, b)) * PageSize, TRUE) \in PageEntries
    <3>1. PICK i \in 0 .. (m - 1) : i = Max(W(x, b))
      BY <1>6, <2>1
    <3>2. phys + i * PageSize \in Int
      BY <1>4, SizeFacts
    <3> QED BY <3>1, <3>2 DEF Entry, PageEntries
  <2>2. \A x \in HeapTables, b \in EntryIx : T[x][b] \in PageEntries
    BY DEF TableSet
  <2> HIDE DEF W, e, R
  <2> DEFINE G(x, b) == IF W(x, b) = {} THEN T[x][b]
                        ELSE Entry(phys + Max(W(x, b)) * PageSize, TRUE)
  <2>3. \A x \in HeapTables, b \in EntryIx : G(x, b) \in PageEntries
    BY <2>1, <2>2
  <2>4. R = [x \in HeapTables |-> [b \in EntryIx |-> G(x, b)]]
    BY <1>5
  <2> HIDE DEF G
  <2> QED BY <2>3, <2>4 DEF TableSet
<1>9. ASSUME NEW x \in HeapTables, \A i \in TableIx : D[i] # x
      PROVE  R[x] = T[x]
  <2>1. \A b : W(x, b) = {}
    BY <1>7, <1>9, PageFacts
  <2> HIDE DEF W, e, R
  <2>2. \A b \in EntryIx : R[x][b] = T[x][b]
    BY <1>5, <2>1
  <2>3. T[x] \in [EntryIx -> PageEntries] /\ R[x] \in [EntryIx -> PageEntries]
    BY <1>8 DEF TableSet
  <2> QED BY <2>2, <2>3
<1>10. ASSUME NEW p \in Pages
       PROVE  R[D[directory_index(p)]][table_index(p)] =
                IF p \in virt .. (virt + n - 1) THEN Entry(phys + p - virt, TRUE)
                ELSE T[D[directory_index(p)]][table_index(p)]
  <2> DEFINE x == D[directory_index(p)]
             b == table_index(p)
  <2>1. x \in HeapTables /\ b \in EntryIx /\ directory_index(p) \in TableIx /\ p \in Nat
    BY PageFacts
  <2>2. \A i \in 0 .. (m - 1) : i \in W(x, b) <=> virt + i * PageSize = p
    <3>1. ASSUME NEW i \in 0 .. (m - 1), i \in W(x, b) PROVE virt + i * PageSize = p
      <4>1. PICK v \in Pages : v = virt + i * PageSize
        BY <1>7
      <4>2. directory_index(v) \in TableIx
        BY PageFacts
      <4>3. directory_index(v) = directory_index(p) /\ table_index(v) = table_index(p)
        BY <2>1, <3>1, <4>1, <4>2
      <4> QED BY <4>1, <4>3, SamePage
    <3> QED BY <3>1
  <2>3. PICK k \in Nat : p = k * PageSize
    BY PageNumber
  <2> HIDE DEF W, e, x, b, R
  <2>4. CASE p \in virt .. (virt + n - 1)
    <3>1. k - kv \in Nat /\ (k - kv) * PageSize < n
      BY <1>1, <2>3, <2>4, SizeFacts
    <3>2. k - kv \in 0 .. (m - 1)
      BY <1>3, <3>1
    <3>3. virt + (k - kv) * PageSize = p
      BY <1>1, <2>3, SizeFacts
    <3>4. W(x, b) # {}
      BY <2>2, <3>2, <3>3
    <3>5. PICK i \in 0 .. (m - 1) : i = Max(W(x, b)) /\ virt + i * PageSize = p
      BY <1>6, <2>2, <3>4 DEF W
    <3>6. phys + i * PageSize = phys + p - virt
      <4>1. i * PageSize \in Nat
        BY SizeFacts
      <4> QED BY <1>4, <2>1, <3>5, <4>1
    <3>7. R[x][b] = Entry(phys + i * PageSize, TRUE)
      BY <1>5, <2>1, <3>4, <3>5
    <3> QED BY <2>4, <3>6, <3>7 DEF x, b
  <2>5. CASE p \notin virt .. (virt + n - 1)
    <3>1. ASSUME NEW i \in 0 .. (m - 1) PROVE virt + i * PageSize # p
      <4>1. i \in Nat /\ i * PageSize < n /\ i * PageSize \in Nat
        BY <1>3, SizeFacts
      <4> QED BY <1>4, <2>1, <2>5, <4>1
    <3>2. W(x, b) = {}
      BY <2>2, <3>1 DEF W
    <3> QED BY <1>5, <2>1, <2>5, <3>2 DEF x, b
  <2> QED BY <2>4, <2>5
<1> HIDE DEF R, e
<1>11. paging_map_to(T, D, virt, phys, paging_align_address(phys + n)) = R
  BY <1>3 DEF R, e
<1> QED BY <1>8, <1>9, <1>10, <1>11 DEF RangeMapped

(* paging_new_4gb maps every page of the directory to itself. *)
LEMMA NewMaps ==
  ASSUME NEW T \in TableSet, NEW D \in [TableIx -> HeapTables], NEW w \in BOOLEAN,
         \A i, j \in TableIx : D[i] = D[j] => i = j
  PROVE  /\ new_4gb(T, D, w) \in TableSet
         /\ \A x \in HeapTables : (\A i \in TableIx : D[i] # x) => new_4gb(T, D, w)[x] = T[x]
         /\ \A p \in Pages :
              new_4gb(T, D, w)[D[directory_index(p)]][table_index(p)] = Entry(p, w)
<1> DEFINE N == new_4gb(T, D, w)
<1>1. \A i \in TableIx : Identity(i, w) \in [EntryIx -> PageEntries]
  <2>1. \A i \in TableIx, b \in EntryIx : i * Span + b * PageSize \in Int
    BY SizeFacts DEF TableIx, EntryIx
  <2> QED BY <2>1 DEF Identity, Entry, PageEntries
<1>2. DOMAIN T = HeapTables /\ \A x \in HeapTables : T[x] \in [EntryIx -> PageEntries]
  BY DEF TableSet
<1>3. N = [x \in HeapTables |-> IF \E i \in TableIx : D[i] = x
                                THEN Identity(CHOOSE i \in TableIx : D[i] = x, w) ELSE T[x]]
  BY <1>2 DEF new_4gb
<1> HIDE DEF N
<1>4. \A i \in TableIx : N[D[i]] = Identity(i, w)
  <2>1. ASSUME NEW i \in TableIx PROVE N[D[i]] = Identity(i, w)
    <3>1. (CHOOSE j \in TableIx : D[j] = D[i]) = i
      OBVIOUS
    <3>2. D[i] \in HeapTables
      OBVIOUS
    <3> QED BY <1>3, <3>1, <3>2
  <2> QED BY <2>1
<1>5. \A x \in HeapTables : (\A i \in TableIx : D[i] # x) => N[x] = T[x]
  BY <1>3
<1>6. \A x \in HeapTables : N[x] \in [EntryIx -> PageEntries]
  BY <1>1, <1>2, <1>4, <1>5
<1>7. N \in TableSet
  BY <1>3, <1>6 DEF TableSet
<1>8. ASSUME NEW p \in Pages
      PROVE  N[D[directory_index(p)]][table_index(p)] = Entry(p, w)
  <2>1. /\ directory_index(p) \in TableIx /\ table_index(p) \in EntryIx
        /\ p = directory_index(p) * Span + table_index(p) * PageSize
    BY PageFacts
  <2>2. N[D[directory_index(p)]] = Identity(directory_index(p), w)
    BY <1>4, <2>1
  <2>3. Identity(directory_index(p), w)[table_index(p)]
          = Entry(directory_index(p) * Span + table_index(p) * PageSize, w)
    BY <2>1 DEF Identity
  <2> QED BY <2>1, <2>2, <2>3
<1> QED BY <1>5, <1>7, <1>8 DEF N

(* process_map_memory maps the program and the stack, and nothing else. *)
ProcessMapped(R, T, D, t) ==
  /\ R \in TableSet
  /\ \A p \in Pages : R[D[directory_index(p)]][table_index(p)] =
       IF p \in StackVirt .. (StackVirt + StackSize - 1)
       THEN Entry(stack[t] + p - StackVirt, TRUE)
       ELSE IF p \in ProgVirt .. (ProgVirt + ProgSize - 1)
       THEN Entry(ptr[t] + p - ProgVirt, TRUE)
       ELSE T[D[directory_index(p)]][table_index(p)]

LEMMA ProcessMaps ==
  ASSUME NEW T \in TableSet, NEW D \in [TableIx -> HeapTables], NEW t \in Tasks,
         \A i, j \in TableIx : D[i] = D[j] => i = j
  PROVE  ProcessMapped(process_map_memory(T, D, t), T, D, t)
<1> DEFINE M == paging_map_to(T, D, ProgVirt, ptr[t], paging_align_address(ptr[t] + ProgSize))
           R == paging_map_to(M, D, StackVirt, stack[t], paging_align_address(stack[t] + StackSize))
<1>1. /\ ProgVirt \in Pages /\ StackVirt \in Pages /\ ptr[t] \in Pages /\ stack[t] \in Pages
      /\ ProgSize \in Nat /\ StackSize \in Nat
  BY PagingAssumption
<1>2. ProgVirt + ProgSize <= NTables * NEntries * PageSize
  BY LayoutAssumption
<1>3. StackVirt + StackSize <= NTables * NEntries * PageSize
  <2>1. ProgVirt \in Nat /\ StackVirt \in Nat
    BY <1>1, PageFacts
  <2>2. NTables * NEntries * PageSize \in Nat
    BY SizeFacts
  <2> QED BY <1>1, <2>1, <2>2, LayoutAssumption
<1>4. RangeMapped(M, T, D, ProgVirt, ptr[t], ProgSize)
  BY <1>1, <1>2, MapToFacts
<1>5. M \in TableSet
  BY <1>4 DEF RangeMapped
<1>6. RangeMapped(R, M, D, StackVirt, stack[t], StackSize)
  <2> HIDE DEF M
  <2> QED BY <1>1, <1>3, <1>5, MapToFacts
<1>7. process_map_memory(T, D, t) = R
  BY DEF process_map_memory
<1> HIDE DEF M, R
<1> QED BY <1>4, <1>6, <1>7 DEF RangeMapped, ProcessMapped

-----------------------------------------------------------------------------
(* ----- Who owns a table ----- *)

(* A directory of its own is made for the task t. *)
LEMMA OwnedAdd ==
  ASSUME StackInv, TablesTyped, TablesOwned, NEW t \in Tasks, Born(t),
         dir' = [dir EXCEPT ![t] = NewTables],
         taken' = taken \cup {NewTables[i] : i \in TableIx}
  PROVE  /\ TablesOwned'
         /\ dir' \in [Tasks \cup {NULL} -> [TableIx -> HeapTables]]
         /\ dir'[t] = NewTables /\ \A s \in Owners : dir'[s] = dir[s]
         /\ \A s \in Owners : \A i, j \in TableIx : NewTables[j] # dir[s][i]
<1> DEFINE D == NewTables
<1>1. /\ D \in [TableIx -> HeapTables]
      /\ \A i \in TableIx : D[i] \notin taken
      /\ \A i, j \in TableIx : D[i] = D[j] => i = j
  BY NewFacts DEF Born
<1> HIDE DEF D
<1>2. t \notin Owners /\ Owners' = Owners \cup {t} /\ Owners \subseteq Tasks \cup {NULL}
  BY TasksAssumption DEF Born, Owners, StackInv, TypeOK
<1>3. dir \in [Tasks \cup {NULL} -> [TableIx -> HeapTables]]
  BY DEF TablesTyped
<1>4. dir' = [dir EXCEPT ![t] = D] /\ taken' = taken \cup {D[i] : i \in TableIx}
  BY DEF D
<1>5. dir' \in [Tasks \cup {NULL} -> [TableIx -> HeapTables]]
  BY <1>1, <1>3, <1>4
<1>6. dir'[t] = D /\ \A s \in Owners : dir'[s] = dir[s]
  BY <1>2, <1>3, <1>4
<1>7. \A s \in Owners : \A i, j \in TableIx : D[j] # dir[s][i]
  BY <1>1 DEF TablesOwned
<1>8. \A s, u \in Owners' : \A i, j \in TableIx : dir'[s][i] = dir'[u][j] => s = u /\ i = j
  BY <1>1, <1>2, <1>6, <1>7 DEF TablesOwned
<1>9. \A x : x \in taken' <=> \E s \in Owners', i \in TableIx : x = dir'[s][i]
  BY <1>2, <1>4, <1>6 DEF TablesOwned
<1>10. TablesOwned'
  BY <1>8, <1>9 DEF TablesOwned
<1> QED BY <1>5, <1>6, <1>7, <1>10 DEF D

(* paging_free_4gb gives back the tables of the task that exits. *)
LEMMA OwnedRemove ==
  ASSUME StackInv, TablesTyped, TablesOwned, NEW t \in live, live' = live \ {t}, free_4gb(t)
  PROVE  TablesOwned'
<1>1. Owners' = Owners \ {t} /\ t \in Owners
  BY TasksAssumption DEF Owners, StackInv, TypeOK
<1>2. dir' = dir /\ taken' = taken \ {dir[t][i] : i \in TableIx}
  BY DEF free_4gb
<1>3. \A s, u \in Owners' : \A i, j \in TableIx : dir'[s][i] = dir'[u][j] => s = u /\ i = j
  BY <1>1, <1>2 DEF TablesOwned
<1>4. ASSUME NEW x PROVE x \in taken' <=> \E s \in Owners', i \in TableIx : x = dir'[s][i]
  <2>1. CASE x \in taken
    <3>1. PICK s \in Owners, i \in TableIx : x = dir[s][i]
      BY <2>1 DEF TablesOwned
    <3>2. \A u \in Owners, j \in TableIx : x = dir[u][j] => u = s
      <4>1. \A u \in Owners, j \in TableIx : dir[u][j] = dir[s][i] => u = s
        BY DEF TablesOwned
      <4> QED BY <3>1, <4>1
    <3>3. (x \in {dir[t][j] : j \in TableIx}) <=> s = t
      BY <1>1, <3>1, <3>2
    <3> QED BY <1>1, <1>2, <2>1, <3>1, <3>2, <3>3
  <2>2. CASE x \notin taken
    BY <1>1, <1>2, <2>2 DEF TablesOwned
  <2> QED BY <2>1, <2>2
<1> QED BY <1>3, <1>4 DEF TablesOwned

(* The table of a page belongs to one directory. *)
LEMMA TableOf ==
  ASSUME StackInv, TablesTyped, NEW t \in Owners, NEW p \in Pages
  PROVE  /\ dir[t] \in [TableIx -> HeapTables]
         /\ directory_index(p) \in TableIx /\ table_index(p) \in EntryIx
         /\ dir[t][directory_index(p)] \in HeapTables
         /\ table[dir[t][directory_index(p)]][table_index(p)] \in PageEntries
<1>1. dir[t] \in [TableIx -> HeapTables]
  BY DEF Owners, StackInv, TypeOK, TablesTyped
<1>2. directory_index(p) \in TableIx /\ table_index(p) \in EntryIx
  BY PageFacts
<1> QED BY <1>1, <1>2 DEF TablesTyped

(* copy_map and copy_restore change one entry of the directory of the task *)
(* that made the call.                                                     *)
Rewrites(p, e) ==
  /\ p \in Pages /\ e \in PageEntries
  /\ UNCHANGED <<vars, dir, taken, loaded>>
  /\ table' = paging_set(table, dir[cur], p, e)

LEMMA MapRewrites ==
  ASSUME StackInv, TablesTyped, LoadedOK, copy_map
  PROVE  /\ tmp' \in Temporaries /\ Rewrites(tmp', Entry(tmp', TRUE))
         /\ old' = Maps(cur, tmp') /\ old' \in PageEntries /\ cur \in live
<1>1. tmp' \in Temporaries /\ mode = "user"
  BY DEF copy_map
<1>2. cur \in live /\ cur \in Owners
  BY <1>1 DEF StackInv, EndsOK, Owners
<1>3. PICK p \in Pages : p = tmp'
  BY <1>1, LayoutAssumption
<1>4. p \in Nat /\ p % PageSize = 0
  BY PageFacts
<1>5. Entry(p, TRUE) \in PageEntries
  BY <1>4 DEF Entry, PageEntries
<1>6. table' = paging_set(table, dir[cur], p, Entry(p, TRUE))
  BY <1>3, <1>4 DEF copy_map, paging_map
<1>7. old' = table[dir[cur][directory_index(p)]][table_index(p)]
  BY <1>3 DEF copy_map, paging_get
<1>8. old' = Maps(cur, p) /\ old' \in PageEntries
  BY <1>2, <1>7, MapsPage, TableOf
<1>9. UNCHANGED <<vars, dir, taken, loaded>>
  BY DEF copy_map
<1> QED BY <1>1, <1>2, <1>3, <1>5, <1>6, <1>8, <1>9 DEF Rewrites

LEMMA RestoreRewrites ==
  ASSUME StackInv, TablesTyped, LoadedOK, copy_restore
  PROVE  Rewrites(tmp, old) /\ cur \in live
<1>1. kpc = "restore" /\ mode = "user"
  BY DEF copy_restore, LoadedOK, Copying
<1>2. cur \in live
  BY <1>1 DEF StackInv, EndsOK
<1>3. tmp \in Pages /\ old \in PageEntries
  BY <1>1, LayoutAssumption DEF TablesTyped, Copying
<1> QED BY <1>2, <1>3 DEF copy_restore, Rewrites

LEMMA RewriteFacts ==
  ASSUME StackInv, TablesTyped, TablesOwned, NEW p, NEW e, Rewrites(p, e), cur \in live
  PROVE  /\ table' \in TableSet
         /\ \A t \in Owners, q \in Pages :
              Maps(t, q)' = IF t = cur /\ q = p THEN e ELSE Maps(t, q)
<1>1. /\ p \in Pages /\ e \in PageEntries /\ dir' = dir
      /\ table' = paging_set(table, dir[cur], p, e)
  BY DEF Rewrites
<1>2. cur \in Owners
  BY DEF Owners
<1>3. dir[cur] \in [TableIx -> HeapTables] /\ directory_index(p) \in TableIx
  BY <1>1, <1>2, TableOf
<1>4. table \in TableSet
  BY DEF TablesTyped, TableSet
<1>5. /\ table' \in TableSet
      /\ \A x \in HeapTables, b \in EntryIx :
           table'[x][b] = IF x = dir[cur][directory_index(p)] /\ b = table_index(p) THEN e
                          ELSE table[x][b]
  BY <1>1, <1>3, <1>4, SetFacts
<1>6. ASSUME NEW t \in Owners, NEW q \in Pages
      PROVE  Maps(t, q)' = IF t = cur /\ q = p THEN e ELSE Maps(t, q)
  <2>1. /\ dir[t][directory_index(q)] \in HeapTables /\ table_index(q) \in EntryIx
        /\ directory_index(q) \in TableIx
    BY TableOf
  <2>2. Maps(t, q) = table[dir[t][directory_index(q)]][table_index(q)]
    BY MapsPage
  <2>3. Maps(t, q)' = table'[dir[t][directory_index(q)]][table_index(q)]
    BY <1>1, MapsPage
  <2>4. /\ dir[t][directory_index(q)] = dir[cur][directory_index(p)]
        /\ table_index(q) = table_index(p)
        <=> t = cur /\ q = p
    BY <1>1, <1>2, <1>3, <2>1, SamePage DEF TablesOwned
  <2> QED BY <1>5, <2>1, <2>2, <2>3, <2>4
<1> QED BY <1>5, <1>6

(* The steps that leave the directories and the processes' memory alone. *)
Still ==
  /\ UNCHANGED <<dir, table, taken, live, maps, tmp, old>>
  /\ (kpc' \in Copying) <=> (kpc \in Copying)
  /\ kpc \in Copying => cur' = cur

LEMMA StepKinds ==
  ASSUME StackInv, [MNext]_mvars
  PROVE  Still \/ boot_mapped \/ fork_copies \/ exit_frees \/ copy_map \/ copy_restore
<1> USE DEF Copying, paging, copy
<1>1. CASE timer_switch
  BY <1>1 DEF timer_switch, timer, task_switch, Still
<1>2. CASE syscall \/ sysret \/ get_stack_item \/ copy_bytes \/ copy_back
  BY <1>2 DEF syscall, sysret, get_stack_item, copy_bytes, copy_back, vars, Still
<1>3. ASSUME NEW t \in Tasks, wait_tells(t) PROVE Still
  BY <1>3 DEF wait_tells, wait, Still
<1>4. CASE readline_waits
  BY <1>4 DEF readline_waits, readline, line_read, Still
<1>5. CASE UNCHANGED mvars
  BY <1>5 DEF mvars, vars, Still
<1> QED BY <1>1, <1>2, <1>3, <1>4, <1>5 DEF MNext, machine_halted

TablesInv == LoadedOK /\ TablesTyped /\ TablesOwned

LEMMA TablesInit == MInit => TablesInv
<1> SUFFICES ASSUME MInit PROVE TablesInv
  OBVIOUS
<1>1. TableIx \subseteq HeapTables /\ 0 \in HeapTables
  <2>1. MaxProcs \in Nat \ {0} /\ NTables \in Nat \ {0} /\ HeapBlocks \in Nat
    BY SizeFacts, ProcsAssumption, HeapAssumption
  <2>2. HeapBlocks >= NTables * (MaxProcs + 1)
    BY HeapAssumption
  <2>3. NTables * (MaxProcs + 1) >= NTables
    BY <2>1
  <2>4. HeapBlocks >= NTables
    BY <2>1, <2>2, <2>3
  <2> QED BY <2>1, <2>4 DEF TableIx, HeapTables
<1>2. live = {} /\ mode = "boot"
  BY DEF MInit, Init
<1>3. Owners = {NULL}
  BY <1>2 DEF Owners
<1>4. dir[NULL] = [i \in TableIx |-> i]
  BY DEF MInit
<1>5. TablesOwned
  BY <1>3, <1>4 DEF MInit, TablesOwned
<1>6. dir \in [Tasks \cup {NULL} -> [TableIx -> HeapTables]]
  BY <1>1 DEF MInit
<1>7. table \in [HeapTables -> [EntryIx -> PageEntries]]
  <2>1. TableIx \subseteq Int /\ EntryIx \subseteq Int
    BY SizeFacts DEF TableIx, EntryIx
  <2>2. \A i \in TableIx \cup {0}, b \in EntryIx : i * Span + b * PageSize \in Int
    BY <2>1, SizeFacts
  <2>3. \A i \in TableIx \cup {0}, w \in BOOLEAN : Identity(i, w) \in [EntryIx -> PageEntries]
    BY <2>2 DEF Identity, Entry, PageEntries
  <2> DEFINE G(x) == Identity(IF x \in TableIx THEN x ELSE 0, x \in TableIx)
  <2>4. \A x \in HeapTables : G(x) \in [EntryIx -> PageEntries]
    <3>1. ASSUME NEW x \in HeapTables, x \in TableIx PROVE G(x) \in [EntryIx -> PageEntries]
      <4>1. G(x) = Identity(x, TRUE)
        BY <3>1
      <4> QED BY <2>3, <3>1, <4>1
    <3>2. ASSUME NEW x \in HeapTables, x \notin TableIx PROVE G(x) \in [EntryIx -> PageEntries]
      <4>1. (IF x \in TableIx THEN x ELSE 0) = 0 /\ (x \in TableIx) = FALSE
        BY <3>2
      <4>2. G(x) = Identity(0, FALSE)
        BY <4>1, Zenon
      <4> QED BY <2>3, <4>2
    <3> HIDE DEF G
    <3> QED BY <3>1, <3>2
  <2>5. table = [x \in HeapTables |-> G(x)]
    BY DEF MInit
  <2> HIDE DEF G
  <2> QED BY <2>4, <2>5
<1>8. TablesTyped
  <2>1. tmp = 0 /\ old \in PageEntries
    BY DEF MInit, Entry, PageEntries
  <2>2. kpc \notin Copying
    BY DEF MInit, Copying
  <2> QED BY <1>6, <1>7, <2>1, <2>2 DEF TablesTyped
<1>9. LoadedOK
  BY <1>2 DEF MInit, LoadedOK, Copying
<1> QED BY <1>5, <1>8, <1>9 DEF TablesInv

(* boot_mapped gives the shell a directory. *)
LEMMA BootMaps ==
  ASSUME StackInv, TablesInv, NEW t \in Tasks, Born(t), head' = t, boot_mapped
  PROVE  /\ dir' = [dir EXCEPT ![t] = NewTables]
         /\ taken' = taken \cup {NewTables[i] : i \in TableIx}
         /\ table' \in TableSet
         /\ \A p \in Pages : table'[NewTables[directory_index(p)]][table_index(p)] =
              IF p \in StackVirt .. (StackVirt + StackSize - 1)
              THEN Entry(stack[t] + p - StackVirt, TRUE)
              ELSE IF p \in ProgVirt .. (ProgVirt + ProgSize - 1)
              THEN Entry(ptr[t] + p - ProgVirt, TRUE)
              ELSE Entry(p, FALSE)
<1> DEFINE D == NewTables
           T == new_4gb(table, D, FALSE)
<1>1. /\ D \in [TableIx -> HeapTables] /\ \A i, j \in TableIx : D[i] = D[j] => i = j
  BY NewFacts DEF TablesInv, Born
<1>2. table \in TableSet
  BY DEF TablesInv, TablesTyped, TableSet
<1>3. /\ dir' = [dir EXCEPT ![t] = D] /\ taken' = taken \cup {D[i] : i \in TableIx}
      /\ table' = process_map_memory(T, D, t)
  BY DEF boot_mapped
<1> HIDE DEF D
<1>4. T \in TableSet /\ \A p \in Pages : T[D[directory_index(p)]][table_index(p)] = Entry(p, FALSE)
  BY <1>1, <1>2, NewMaps
<1> HIDE DEF T
<1>5. ProcessMapped(table', T, D, t)
  BY <1>1, <1>3, <1>4, ProcessMaps
<1> QED BY <1>3, <1>4, <1>5 DEF D, ProcessMapped

(* fork_copies gives the child tables that say what the parent's say. *)
LEMMA ForkMaps ==
  ASSUME StackInv, TablesInv, NEW t \in Tasks, Born(t), cur \in live, copy_4gb(cur, t)
  PROVE  /\ dir' = [dir EXCEPT ![t] = NewTables]
         /\ taken' = taken \cup {NewTables[i] : i \in TableIx}
         /\ table' \in TableSet
         /\ \A x \in HeapTables : (\A i \in TableIx : NewTables[i] # x) => table'[x] = table[x]
         /\ \A i \in TableIx : table'[NewTables[i]] = table[dir[cur][i]]
<1> DEFINE D == NewTables
<1>1. /\ D \in [TableIx -> HeapTables] /\ \A i, j \in TableIx : D[i] = D[j] => i = j
  BY NewFacts DEF TablesInv, Born
<1>2. table \in TableSet /\ dir[cur] \in [TableIx -> HeapTables]
  BY DEF TablesInv, TablesTyped, TableSet, StackInv, TypeOK
<1>3. /\ dir' = [dir EXCEPT ![t] = D] /\ taken' = taken \cup {D[i] : i \in TableIx}
      /\ table' = [x \in HeapTables |-> IF \E i \in TableIx : D[i] = x
                                        THEN table[dir[cur][CHOOSE i \in TableIx : D[i] = x]]
                                        ELSE table[x]]
  BY DEF copy_4gb
<1> HIDE DEF D
<1>4. \A i \in TableIx : table'[D[i]] = table[dir[cur][i]]
  <2>1. ASSUME NEW i \in TableIx PROVE table'[D[i]] = table[dir[cur][i]]
    <3>1. (CHOOSE j \in TableIx : D[j] = D[i]) = i /\ D[i] \in HeapTables
      BY <1>1
    <3> QED BY <1>3, <3>1
  <2> QED BY <2>1
<1>5. \A x \in HeapTables : (\A i \in TableIx : D[i] # x) => table'[x] = table[x]
  BY <1>3
<1>6. \A x \in HeapTables : table'[x] \in [EntryIx -> PageEntries]
  BY <1>2, <1>4, <1>5 DEF TableSet
<1>7. table' \in TableSet
  BY <1>3, <1>6 DEF TableSet
<1> QED BY <1>3, <1>4, <1>5, <1>7 DEF D

LEMMA TablesNext ==
  ASSUME StackInv, StackInv', TablesInv, [MNext]_mvars
  PROVE  TablesInv'
<1> USE DEF TablesInv
<1>1. LoadedOK'
  BY LoadedNext
<1>2. CASE Still
  <2>1. Owners' = Owners
    BY <1>2 DEF Still, Owners
  <2>2. TablesOwned'
    BY <1>2, <2>1 DEF Still, TablesOwned
  <2>3. TablesTyped'
    BY <1>2 DEF Still, TablesTyped
  <2> QED BY <1>1, <2>2, <2>3
<1>3. CASE boot_mapped
  <2>1. PICK t \in Tasks : Born(t) /\ head' = t
    BY <1>3, BootFacts
  <2>2. /\ dir' = [dir EXCEPT ![t] = NewTables]
        /\ taken' = taken \cup {NewTables[i] : i \in TableIx} /\ table' \in TableSet
    BY <1>3, <2>1, BootMaps
  <2>3. TablesOwned' /\ dir' \in [Tasks \cup {NULL} -> [TableIx -> HeapTables]]
    BY <2>1, <2>2, OwnedAdd
  <2>4. kpc' = "user" /\ tmp' = tmp /\ old' = old
    BY <1>3 DEF boot_mapped, copy
  <2> QED BY <1>1, <2>2, <2>3, <2>4 DEF TablesTyped, TableSet, Copying
<1>4. CASE fork_copies
  <2>1. PICK t \in Tasks : Born(t) /\ cur \in live /\ copy_4gb(cur, t)
    BY <1>4, ForkFacts
  <2>2. /\ dir' = [dir EXCEPT ![t] = NewTables]
        /\ taken' = taken \cup {NewTables[i] : i \in TableIx} /\ table' \in TableSet
    BY <2>1, ForkMaps
  <2>3. TablesOwned' /\ dir' \in [Tasks \cup {NULL} -> [TableIx -> HeapTables]]
    BY <2>1, <2>2, OwnedAdd
  <2>4. kpc' = "leave" /\ tmp' = tmp /\ old' = old
    BY <1>4 DEF fork_copies, copy
  <2> QED BY <1>1, <2>2, <2>3, <2>4 DEF TablesTyped, TableSet, Copying
<1>5. CASE exit_frees
  <2>1. cur \in live /\ live' = live \ {cur} /\ free_4gb(cur)
    BY <1>5, ExitFacts DEF exit_frees
  <2>2. TablesOwned'
    BY <2>1, OwnedRemove
  <2>3. kpc' = "leave" /\ tmp' = tmp /\ old' = old /\ dir' = dir /\ table' = table
    BY <1>5, <2>1 DEF exit_frees, copy, free_4gb
  <2> QED BY <1>1, <2>2, <2>3 DEF TablesTyped, Copying
<1>6. ASSUME NEW p, NEW e, Rewrites(p, e), cur \in live
      PROVE  /\ TablesOwned' /\ table' \in TableSet
             /\ dir' \in [Tasks \cup {NULL} -> [TableIx -> HeapTables]]
  <2>1. dir' = dir /\ taken' = taken /\ live' = live
    BY <1>6 DEF Rewrites, vars
  <2>2. Owners' = Owners
    BY <2>1 DEF Owners
  <2>3. TablesOwned'
    BY <2>1, <2>2 DEF TablesOwned
  <2>4. table' \in TableSet
    BY <1>6, RewriteFacts
  <2> QED BY <2>1, <2>3, <2>4 DEF TablesTyped
<1>7. CASE copy_map
  <2>1. /\ tmp' \in Temporaries /\ Rewrites(tmp', Entry(tmp', TRUE))
        /\ old' \in PageEntries /\ cur \in live
    BY <1>7, MapRewrites
  <2>2. tmp' \in Pages
    BY <2>1 DEF Rewrites
  <2>3. /\ TablesOwned' /\ table' \in TableSet
        /\ dir' \in [Tasks \cup {NULL} -> [TableIx -> HeapTables]]
    BY <1>6, <2>1
  <2> QED BY <1>1, <2>1, <2>2, <2>3 DEF TablesTyped, TableSet
<1>8. CASE copy_restore
  <2>1. Rewrites(tmp, old) /\ cur \in live
    BY <1>8, RestoreRewrites
  <2>2. /\ TablesOwned' /\ table' \in TableSet
        /\ dir' \in [Tasks \cup {NULL} -> [TableIx -> HeapTables]]
    BY <1>6, <2>1
  <2>3. kpc' = "kernel" /\ tmp' = 0 /\ old' \in PageEntries
    BY <1>8 DEF copy_restore, Entry, PageEntries
  <2> QED BY <1>1, <2>2, <2>3 DEF TablesTyped, TableSet, Copying
<1> QED BY <1>2, <1>3, <1>4, <1>5, <1>7, <1>8, StepKinds

LEMMA TablesInvariance == Nested => (MSpec => [](StackInv /\ TablesInv))
<1> SUFFICES ASSUME Nested PROVE MSpec => [](StackInv /\ TablesInv)
  OBVIOUS
<1>1. MInit => TablesInv
  BY TablesInit
<1>2. StackInv /\ StackInv' /\ TablesInv /\ [MNext]_mvars => TablesInv'
  BY TablesNext
<1> QED BY <1>1, <1>2, MemoryStack, PTL DEF MSpec

(***************************************************************************)
(* Each directory has its tables for itself, none is freed while a task or *)
(* the processor uses it, and none is left behind: paging_copy_4gb in      *)
(* process_fork, paging_free_4gb in task_free, and the switches of         *)
(* isr80h_handler and task_page keep this for every number of processes,   *)
(* if a process that forks waits for its child.                            *)
(***************************************************************************)
THEOREM MemoryDirectoriesOwned == Nested => (MSpec => []DirectoriesOwned)
<1> SUFFICES ASSUME Nested PROVE MSpec => []DirectoriesOwned
  OBVIOUS
<1>1. ASSUME StackInv, TablesInv PROVE DirectoriesOwned
  <2>1. TablesOwned /\ LoadedOK
    BY <1>1 DEF TablesInv
  <2>2. taken = {dir[t][i] : t \in Owners, i \in TableIx}
    BY <2>1 DEF TablesOwned
  <2>3. mode = "user" => cur \in live
    BY <1>1 DEF StackInv, EndsOK
  <2>4. loaded \in Owners /\ (kpc = "user" => loaded = cur)
    BY <2>1, <2>3 DEF LoadedOK, Owners, Copying
  <2>5. \A s, t \in Owners : \A i, j \in TableIx : dir[s][i] = dir[t][j] => s = t /\ i = j
    BY <2>1 DEF TablesOwned
  <2> QED BY <2>2, <2>4, <2>5 DEF DirectoriesOwned
<1> QED BY <1>1, TablesInvariance, PTL

-----------------------------------------------------------------------------
(* ----- What a directory says ----- *)

(* A fork leaves the other directories as they are. *)
LEMMA ForkOthers ==
  ASSUME StackInv, TablesInv, NEW t \in Tasks, Born(t), cur \in live, copy_4gb(cur, t)
  PROVE  /\ \A s \in Owners, p \in Pages : Maps(s, p)' = Maps(s, p)
         /\ \A p \in Pages : Maps(t, p)' = Maps(cur, p)
<1>1. TablesTyped /\ TablesOwned
  BY DEF TablesInv
<1>2. /\ dir' = [dir EXCEPT ![t] = NewTables]
      /\ taken' = taken \cup {NewTables[i] : i \in TableIx}
      /\ \A x \in HeapTables : (\A i \in TableIx : NewTables[i] # x) => table'[x] = table[x]
      /\ \A i \in TableIx : table'[NewTables[i]] = table[dir[cur][i]]
  BY ForkMaps
<1>3. /\ dir'[t] = NewTables /\ \A s \in Owners : dir'[s] = dir[s]
      /\ \A s \in Owners : \A i, j \in TableIx : NewTables[j] # dir[s][i]
  BY <1>1, <1>2, OwnedAdd
<1>4. ASSUME NEW s \in Owners, NEW p \in Pages PROVE Maps(s, p)' = Maps(s, p)
  <2>1. directory_index(p) \in TableIx /\ dir[s][directory_index(p)] \in HeapTables
    BY <1>1, TableOf
  <2>2. table'[dir[s][directory_index(p)]] = table[dir[s][directory_index(p)]]
    BY <1>2, <1>3, <2>1
  <2> QED BY <1>3, <2>2, MapsPage
<1>5. ASSUME NEW p \in Pages PROVE Maps(t, p)' = Maps(cur, p)
  <2>1. directory_index(p) \in TableIx
    BY PageFacts
  <2> QED BY <1>2, <1>3, <2>1, MapsPage
<1> QED BY <1>4, <1>5

(***************************************************************************)
(* The processor never works with a translation that has changed under it: *)
(* copy_to_task and copy_string_from_task change the task's directory only *)
(* while the kernel's is loaded, and nothing changes the kernel's.         *)
(***************************************************************************)
THEOREM MemoryNoStaleTranslation == Nested => (MSpec => NoStaleTranslation)
<1> SUFFICES ASSUME Nested PROVE MSpec => NoStaleTranslation
  OBVIOUS
<1>1. ASSUME StackInv, StackInv', TablesInv, [MNext]_mvars, loaded' = loaded, NEW p \in Pages
      PROVE  Maps(loaded, p)' = Maps(loaded, p)
  <2>1. TablesTyped /\ TablesOwned /\ LoadedOK
    BY <1>1 DEF TablesInv
  <2>2. NULL \in Owners /\ NULL \notin live /\ NULL \notin Tasks
    BY <1>1, TasksAssumption DEF Owners, StackInv, TypeOK
  <2>3. /\ Maps(loaded, p) = table[dir[loaded][directory_index(p)]][table_index(p)]
        /\ Maps(loaded, p)' = table'[dir'[loaded][directory_index(p)]][table_index(p)]
    <3>1. \A t : /\ Maps(t, p) = table[dir[t][directory_index(p)]][table_index(p)]
                 /\ Maps(t, p)' = table'[dir'[t][directory_index(p)]][table_index(p)]
      BY MapsPage
    <3>2. Maps(loaded, p)' = table'[dir'[loaded'][directory_index(p)]][table_index(p)]
      <4>1. p - (p % PageSize) = p
        BY PageFacts
      <4>2. Maps(loaded, p)' = paging_get(table', dir'[loaded'], p - (p % PageSize))
        BY DEF Maps, paging_get, directory_index, table_index
      <4> QED BY <4>1, <4>2 DEF paging_get
    <3> QED BY <1>1, <3>1, <3>2
  <2>4. CASE Still \/ exit_frees
    <3>1. dir' = dir /\ table' = table
      BY <2>4 DEF Still, exit_frees, free_4gb
    <3> QED BY <2>3, <3>1
  <2>5. CASE boot_mapped
    <3>1. loaded = NULL /\ loaded' \in Tasks
      BY <1>1, <2>1, <2>5, BootFacts DEF boot_mapped, LoadedOK
    <3> QED BY <1>1, <2>2, <3>1
  <2>6. CASE fork_copies
    <3>1. PICK t \in Tasks : Born(t) /\ cur \in live /\ copy_4gb(cur, t)
      BY <1>1, <2>6, ForkFacts
    <3>2. loaded = NULL
      BY <2>1, <2>6 DEF fork_copies, LoadedOK
    <3>3. Maps(NULL, p)' = Maps(NULL, p)
      BY <1>1, <2>2, <3>1, ForkOthers
    <3> QED BY <2>3, <3>2, <3>3, MapsPage
  <2>7. CASE copy_map \/ copy_restore
    <3>1. loaded = NULL
      BY <2>1, <2>7 DEF copy_map, copy_restore, LoadedOK
    <3>2. cur \in live /\ \E q, e : Rewrites(q, e)
      BY <1>1, <2>1, <2>7, MapRewrites, RestoreRewrites
    <3>3. PICK q, e : Rewrites(q, e)
      BY <3>2
    <3>4. Maps(NULL, p)' = Maps(NULL, p)
      BY <1>1, <2>1, <2>2, <3>2, <3>3, RewriteFacts
    <3> QED BY <2>3, <3>1, <3>4, MapsPage
  <2> QED BY <1>1, <2>4, <2>5, <2>6, <2>7, StepKinds
<1>2. StackInv /\ StackInv' /\ TablesInv /\ [MNext]_mvars
        => [loaded' = loaded => \A p \in Pages : Maps(loaded, p)' = Maps(loaded, p)]_mvars
  BY <1>1
<1> QED BY <1>2, TablesInvariance, PTL DEF MSpec, NoStaleTranslation

(* The inductive invariant behind MappingsKept and CopyReaches: while a    *)
(* copy runs its buffer is mapped, and the entry it replaced is kept.      *)
MapsRight(t, p) ==
  IF kpc \in Copying /\ t = cur /\ p = tmp
  THEN old = Expected(t, p) /\ Maps(t, p) = Entry(p, TRUE)
  ELSE Maps(t, p) = Expected(t, p)

MapsInv == \A t \in live, p \in Pages : MapsRight(t, p)

(* The program and the stack do not overlap, so that the order in which    *)
(* process_map_memory maps them does not matter.                           *)
LEMMA ExpectedIs ==
  ASSUME NEW t, NEW p \in Pages
  PROVE  Expected(t, p)' =
           IF p \in StackVirt .. (StackVirt + StackSize - 1)
           THEN Entry(stack[maps'[t]] + p - StackVirt, TRUE)
           ELSE IF p \in ProgVirt .. (ProgVirt + ProgSize - 1)
           THEN Entry(ptr[maps'[t]] + p - ProgVirt, TRUE)
           ELSE Entry(p, FALSE)
<1>1. p \in Nat /\ StackVirt \in Nat /\ ProgVirt \in Nat /\ ProgSize \in Nat /\ StackSize \in Nat
  BY PageFacts, PagingAssumption
<1>2. ~(p \in StackVirt .. (StackVirt + StackSize - 1) /\ p \in ProgVirt .. (ProgVirt + ProgSize - 1))
  BY <1>1, LayoutAssumption
<1> QED BY <1>2 DEF Expected, Entry

LEMMA MapsInit == MInit => MapsInv
  BY DEF MInit, Init, MapsInv

LEMMA MapsNext ==
  ASSUME StackInv, TablesInv, MapsInv, [MNext]_mvars
  PROVE  MapsInv'
<1>1. TablesTyped /\ TablesOwned /\ LoadedOK
  BY DEF TablesInv
<1>2. live \subseteq Owners /\ live \subseteq Tasks
  BY DEF Owners, StackInv, TypeOK
<1>3. \A t \in live, p \in Pages : MapsRight(t, p)
  BY DEF MapsInv
<1>4. kpc \notin Copying => \A t \in live, p \in Pages : Maps(t, p) = Expected(t, p)
  BY <1>3 DEF MapsRight
<1>5. \A s, t, p : maps'[t] = maps[s] => Expected(t, p)' = Expected(s, p)
  BY DEF Expected, Entry
<1>6. SUFFICES ASSUME NEW t \in live', NEW p \in Pages PROVE MapsRight(t, p)'
  BY DEF MapsInv, Pages
<1>7. kpc' \notin Copying /\ Maps(t, p)' = Expected(t, p)' => MapsRight(t, p)'
  BY DEF MapsRight, Copying
<1>8. CASE Still
  <2>1. dir' = dir /\ table' = table /\ live' = live /\ maps' = maps /\ tmp' = tmp /\ old' = old
    BY <1>8 DEF Still
  <2>2. Maps(t, p)' = Maps(t, p) /\ Expected(t, p)' = Expected(t, p)
    BY <1>5, <2>1, MapsPage
  <2>3. MapsRight(t, p)
    BY <1>3, <2>1
  <2>4. CASE kpc \in Copying
    <3>1. kpc' \in Copying /\ cur' = cur
      BY <1>8, <2>4 DEF Still
    <3> QED BY <2>1, <2>2, <2>3, <2>4, <3>1 DEF MapsRight, Copying, Entry
  <2>5. CASE kpc \notin Copying
    <3>1. kpc' \notin Copying
      BY <1>8, <2>5 DEF Still
    <3> QED BY <1>4, <1>7, <2>1, <2>2, <2>5, <3>1
  <2> QED BY <2>4, <2>5
<1>9. CASE boot_mapped
  <2>1. PICK u \in Tasks : /\ Born(u) /\ live = {} /\ head' = u
                          /\ maps' = [maps EXCEPT ![u] = u]
    BY <1>9, BootFacts
  <2>2. t = u
    BY <2>1 DEF Born
  <2>3. maps'[t] = t
    BY <2>1, <2>2 DEF StackInv, TypeOK
  <2>4. /\ dir' = [dir EXCEPT ![t] = NewTables]
        /\ taken' = taken \cup {NewTables[i] : i \in TableIx}
        /\ table'[NewTables[directory_index(p)]][table_index(p)] =
             IF p \in StackVirt .. (StackVirt + StackSize - 1)
             THEN Entry(stack[t] + p - StackVirt, TRUE)
             ELSE IF p \in ProgVirt .. (ProgVirt + ProgSize - 1)
             THEN Entry(ptr[t] + p - ProgVirt, TRUE)
             ELSE Entry(p, FALSE)
    BY <1>9, <2>1, <2>2, BootMaps
  <2>5. dir'[t] = NewTables
    BY <1>1, <2>1, <2>2, <2>4, OwnedAdd
  <2>6. Maps(t, p)' = Expected(t, p)'
    <3>1. Maps(t, p)' = table'[NewTables[directory_index(p)]][table_index(p)]
      BY <2>5, MapsPage
    <3>2. Expected(t, p)' =
            IF p \in StackVirt .. (StackVirt + StackSize - 1)
            THEN Entry(stack[maps'[t]] + p - StackVirt, TRUE)
            ELSE IF p \in ProgVirt .. (ProgVirt + ProgSize - 1)
            THEN Entry(ptr[maps'[t]] + p - ProgVirt, TRUE)
            ELSE Entry(p, FALSE)
      BY ExpectedIs
    <3> QED BY <2>3, <2>4, <3>1, <3>2
  <2>7. kpc' \notin Copying
    BY <1>9 DEF boot_mapped, Copying
  <2> QED BY <1>7, <2>6, <2>7
<1>10. CASE fork_copies
  <2>1. PICK u \in Tasks : /\ Born(u) /\ cur \in live /\ copy_4gb(cur, u)
                          /\ maps' = [maps EXCEPT ![u] = maps[cur]]
    BY <1>10, ForkFacts
  <2>2. /\ \A s \in Owners : Maps(s, p)' = Maps(s, p)
        /\ Maps(u, p)' = Maps(cur, p)
    BY <2>1, ForkOthers
  <2>3. kpc \notin Copying /\ kpc' \notin Copying
    BY <1>10 DEF fork_copies, Copying
  <2>4. maps \in [Tasks -> Pointers]
    BY DEF StackInv, TypeOK
  <2>5. CASE t = u
    <3>1. maps'[t] = maps[cur]
      BY <2>1, <2>4, <2>5
    <3>2. Expected(t, p)' = Expected(cur, p)
      BY <1>5, <3>1
    <3> QED BY <1>4, <1>7, <2>1, <2>2, <2>3, <2>5, <3>2
  <2>6. CASE t # u
    <3>1. t \in live
      BY <2>1, <2>6 DEF Born
    <3>2. maps'[t] = maps[t]
      BY <1>2, <2>1, <2>4, <2>6, <3>1
    <3>3. Expected(t, p)' = Expected(t, p)
      BY <1>5, <3>2
    <3> QED BY <1>2, <1>4, <1>7, <2>2, <2>3, <3>1, <3>3
  <2> QED BY <2>5, <2>6
<1>11. CASE exit_frees
  <2>1. t \in live /\ maps' = maps
    BY <1>11, ExitFacts
  <2>2. dir' = dir /\ table' = table /\ kpc \notin Copying /\ kpc' \notin Copying
    BY <1>11 DEF exit_frees, free_4gb, Copying
  <2>3. Maps(t, p)' = Maps(t, p) /\ Expected(t, p)' = Expected(t, p)
    BY <1>5, <2>1, <2>2, MapsPage
  <2> QED BY <1>4, <1>7, <2>1, <2>2, <2>3
<1>12. CASE copy_map
  <2>1. /\ Rewrites(tmp', Entry(tmp', TRUE)) /\ cur \in live
        /\ old' = Maps(cur, tmp')
    BY <1>1, <1>12, MapRewrites
  <2>2. kpc \notin Copying /\ kpc' \in Copying
    BY <1>12 DEF copy_map, Copying
  <2>3. live' = live /\ maps' = maps /\ cur' = cur
    BY <2>1 DEF Rewrites, vars
  <2>4. Maps(t, p)' = IF t = cur /\ p = tmp' THEN Entry(tmp', TRUE) ELSE Maps(t, p)
    BY <1>1, <1>2, <2>1, <2>3, RewriteFacts
  <2>5. Expected(t, p)' = Expected(t, p) /\ Maps(t, p) = Expected(t, p)
    BY <1>4, <1>5, <2>2, <2>3
  <2>6. CASE t = cur /\ p = tmp'
    BY <2>1, <2>2, <2>3, <2>4, <2>5, <2>6 DEF MapsRight, Entry
  <2>7. CASE ~(t = cur /\ p = tmp')
    BY <2>3, <2>4, <2>5, <2>7 DEF MapsRight
  <2> QED BY <2>6, <2>7
<1>13. CASE copy_restore
  <2>1. Rewrites(tmp, old) /\ cur \in live
    BY <1>1, <1>13, RestoreRewrites
  <2>2. kpc \in Copying /\ kpc' \notin Copying
    BY <1>13 DEF copy_restore, Copying
  <2>3. live' = live /\ maps' = maps /\ cur' = cur
    BY <2>1 DEF Rewrites, vars
  <2>4. Maps(t, p)' = IF t = cur /\ p = tmp THEN old ELSE Maps(t, p)
    BY <1>1, <1>2, <2>1, <2>3, RewriteFacts
  <2>5. Expected(t, p)' = Expected(t, p) /\ MapsRight(t, p)
    BY <1>3, <1>5, <2>3
  <2>6. Maps(t, p)' = Expected(t, p)'
    BY <2>2, <2>4, <2>5 DEF MapsRight
  <2> QED BY <1>7, <2>2, <2>6
<1> QED BY <1>8, <1>9, <1>10, <1>11, <1>12, <1>13, StepKinds

LEMMA MapsInvariance == Nested => (MSpec => [](StackInv /\ TablesInv /\ MapsInv))
<1> SUFFICES ASSUME Nested PROVE MSpec => [](StackInv /\ TablesInv /\ MapsInv)
  OBVIOUS
<1>1. MInit => MapsInv
  BY MapsInit
<1>2. StackInv /\ TablesInv /\ MapsInv /\ [MNext]_mvars => MapsInv'
  BY MapsNext
<1> QED BY <1>1, <1>2, TablesInvariance, PTL DEF MSpec

(***************************************************************************)
(* A task sees the program and the stack of the process it was forked      *)
(* from, and can write nothing else, however many forks, exits and copies  *)
(* came before: process_map_memory maps just these, paging_copy_4gb hands  *)
(* them on, and copy_to_task and copy_string_from_task put back the entry  *)
(* they replaced.                                                          *)
(***************************************************************************)
THEOREM MemoryMappingsKept == Nested => (MSpec => []MappingsKept)
<1> SUFFICES ASSUME Nested PROVE MSpec => []MappingsKept
  OBVIOUS
<1>1. MapsInv => MappingsKept
  BY DEF MapsInv, MapsRight, MappingsKept, Copying
<1> QED BY <1>1, MapsInvariance, PTL

(* The page of an address within the program. *)
LEMMA ProgramPage ==
  ASSUME NEW v \in 0 .. (ProgSize - 1)
  PROVE  LET a == ProgVirt + v
             p == a - (a % PageSize)
         IN  p \in Pages /\ p \in ProgVirt .. a /\ p - ProgVirt = v - (v % PageSize)
<1> DEFINE a == ProgVirt + v
           p == a - (a % PageSize)
<1>1. ProgVirt \in Pages /\ ProgSize \in Nat /\ v \in Nat /\ v < ProgSize
  BY PagingAssumption
<1>2. PICK k \in Nat : ProgVirt = k * PageSize
  BY <1>1, PageNumber
<1> DEFINE j == v \div PageSize
           r == v % PageSize
<1>3. v = PageSize * j + r /\ j \in Nat /\ r \in 0 .. (PageSize - 1)
  BY <1>1, SizeFacts, DivMod
<1> HIDE DEF j, r
<1>4. a = PageSize * (k + j) + r /\ k + j \in Nat
  BY <1>2, <1>3, SizeFacts
<1>5. a \in Nat /\ a = PageSize * (a \div PageSize) + (a % PageSize) /\ a \div PageSize \in Nat
      /\ a % PageSize \in 0 .. (PageSize - 1)
  <2>1. a \in Nat
    BY <1>1, PageFacts
  <2> QED BY <2>1, SizeFacts, DivMod
<1> HIDE DEF a
<1>6. a % PageSize = r
  <2> DEFINE q == a \div PageSize
             s == a % PageSize
  <2>1. a = PageSize * q + s /\ q \in Nat /\ s \in 0 .. (PageSize - 1)
    BY <1>5
  <2> HIDE DEF q, s
  <2>2. s = r
    <3>1. PageSize * (k + j) + r = PageSize * q + s
      BY <1>4, <2>1
    <3> QED BY <1>3, <1>4, <2>1, <3>1, SizeFacts, ModUnique
  <2> QED BY <2>2 DEF s
<1>7. p = (k + j) * PageSize
  BY <1>3, <1>4, <1>5, <1>6, SizeFacts
<1>8. p - ProgVirt = v - r
  BY <1>2, <1>3, <1>7, SizeFacts
<1>9. ProgVirt \in Nat /\ p \in ProgVirt .. a
  <2>1. ProgVirt \in Nat
    BY <1>1, PageFacts
  <2>2. v - r \in Nat
    <3>1. PageSize * j \in Nat
      BY <1>3, SizeFacts
    <3> QED BY <1>1, <1>3, <3>1
  <2>3. r \in Nat
    BY <1>3, SizeFacts
  <2> QED BY <1>1, <1>5, <1>6, <1>8, <2>1, <2>2, <2>3
<1>10. (k + j) * PageSize < (NTables * NEntries) * PageSize
  <2>1. a < ProgVirt + ProgSize
    BY <1>1, <1>9 DEF a
  <2>2. NTables * NEntries * PageSize \in Nat
    BY SizeFacts
  <2> QED BY <1>1, <1>5, <1>7, <1>9, <2>1, <2>2, LayoutAssumption
<1>11. k + j \in 0 .. (NTables * NEntries - 1)
  BY <1>4, <1>10, SizeFacts
<1>12. p \in Pages
  BY <1>7, <1>11 DEF Pages
<1> QED BY <1>8, <1>9, <1>12 DEF a, r

(***************************************************************************)
(* When the bytes of copy_to_task or copy_string_from_task move, the       *)
(* directory that is loaded maps the kernel's buffer, writable, at its own *)
(* address, and every unit of the program to the memory of the process     *)
(* that made the call: the buffer, from the heap, never lies over it.      *)
(***************************************************************************)
THEOREM MemoryCopyReaches == Nested => (MSpec => []CopyReaches)
<1> SUFFICES ASSUME Nested PROVE MSpec => []CopyReaches
  OBVIOUS
<1>1. ASSUME StackInv, TablesInv, MapsInv PROVE CopyReaches
  <2> SUFFICES ASSUME kpc = "copied"
               PROVE  /\ Maps(loaded, tmp) = Entry(tmp, TRUE)
                      /\ \A v \in 0 .. ProgSize - 1 :
                           Maps(loaded, ProgVirt + v).phys = ptr[maps[cur]] + v - (v % PageSize)
    BY DEF CopyReaches
  <2>1. kpc \in Copying /\ loaded = cur /\ mode = "user" /\ tmp \in Temporaries
    BY <1>1 DEF TablesInv, LoadedOK, TablesTyped, Copying
  <2>2. cur \in live /\ tmp \in Pages /\ tmp \in Nat
    BY <1>1, <2>1, LayoutAssumption, PageFacts DEF StackInv, EndsOK
  <2>3. Maps(cur, tmp) = Entry(tmp, TRUE)
    BY <1>1, <2>1, <2>2 DEF MapsInv, MapsRight
  <2>4. maps[cur] \in Tasks
    BY <1>1, <2>2, StackPromises DEF StackInv, TypeOK
  <2>5. ASSUME NEW v \in 0 .. (ProgSize - 1)
        PROVE  Maps(cur, ProgVirt + v).phys = ptr[maps[cur]] + v - (v % PageSize)
    <3> DEFINE a == ProgVirt + v
               p == a - (a % PageSize)
    <3>1. p \in Pages /\ p \in ProgVirt .. a /\ p - ProgVirt = v - (v % PageSize)
      BY ProgramPage
    <3>2. Maps(cur, a) = Maps(cur, p)
      <4>1. Maps(cur, a) = paging_get(table, dir[cur], p)
        BY DEF Maps
      <4>2. Maps(cur, p) = table[dir[cur][directory_index(p)]][table_index(p)]
        BY <3>1, MapsPage
      <4> HIDE DEF p, a
      <4> QED BY <4>1, <4>2 DEF paging_get
    <3>3. ProgVirt \in Nat /\ ProgSize \in Nat /\ v \in Nat /\ v < ProgSize
      BY PagingAssumption, PageFacts
    <3>4. p \in Nat /\ p >= ProgVirt /\ p <= ProgVirt + v
      BY <3>1, <3>3
    <3>5. tmp >= ProgVirt + ProgSize
      BY <2>1, LayoutAssumption
    <3> HIDE DEF p
    <3>6. p # tmp /\ p \in ProgVirt .. (ProgVirt + ProgSize - 1)
      BY <2>2, <3>3, <3>4, <3>5
    <3>7. Maps(cur, p) = Expected(cur, p)
      BY <1>1, <2>2, <3>1, <3>6 DEF MapsInv, MapsRight
    <3>8. Expected(cur, p) = Entry(ptr[maps[cur]] + p - ProgVirt, TRUE)
      <4>1. p \notin StackVirt .. (StackVirt + StackSize - 1)
        <5>1. StackVirt \in Nat /\ StackSize \in Nat
          BY PagingAssumption, PageFacts
        <5> QED BY <3>3, <3>4, <5>1, LayoutAssumption
      <4> QED BY <3>6, <4>1 DEF Expected
    <3>9. Maps(cur, p).phys = ptr[maps[cur]] + p - ProgVirt
      BY <3>7, <3>8 DEF Entry
    <3>10. ptr[maps[cur]] \in Nat
      BY <2>4, PagingAssumption, PageFacts
    <3>11. v % PageSize \in Nat
      BY <3>3, SizeFacts
    <3>12. ptr[maps[cur]] + p - ProgVirt = ptr[maps[cur]] + v - (v % PageSize)
      BY <3>1, <3>3, <3>4, <3>10, <3>11
    <3> QED BY <3>2, <3>9, <3>12
  <2> QED BY <2>1, <2>3, <2>5
<1> QED BY <1>1, MapsInvariance, PTL
=============================================================================
