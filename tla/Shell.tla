------------------------------- MODULE Shell -------------------------------
(***************************************************************************)
(* The shell (programs/shell/shell.asm): it forks for each command, the    *)
(* child runs the command and exits, the parent polls sys_wait.            *)
(*                                                                         *)
(* The child's page directory is a copy of the parent's, so that both run  *)
(* on one stack and one .bss: the words one pushes, the other finds.  They *)
(* are pushed at the same place, as both begin with the stack pointer that *)
(* fork left.  The timer switches between any two steps in user code, and  *)
(* a task comes back with the flags of the kernel (task.asm), in which a   *)
(* comparison looks as if its result were positive.                        *)
(*                                                                         *)
(* The program is a table: at each label some words are pushed, a system   *)
(* call or a function of the shell gets them, and a jump depends on what   *)
(* comes back.  What the files contain is left open.                       *)
(***************************************************************************)
EXTENDS Integers, Sequences, TLC

CONSTANT MaxProcs   \* PEACHOS_MAX_PROCESSES, at least 1

Pids     == 0 .. MaxProcs - 1
Commands == {"ls", "cat", "write", "del", "other", "exit"}

(* Words that are no number of a process: an address or a length, the      *)
(* address behind the call of a function; and the word at child_pid.       *)
Ptr   == MaxProcs + 1
Ret   == MaxProcs + 2
Child == MaxProcs + 3

VARIABLES
  alive,      \* the processes there are
  cur,        \* the one that runs
  label,      \* where each is in the program
  phase,      \* "push", "trap", "test" or "jump": how far it is there
  eax,        \* the register of each
  flags,      \* the result of its last comparison: "neg", "zero" or "pos"
  stack,      \* the words behind the common stack pointer, in push order
  child_pid,  \* in .bss
  write_result, \* in .bss
  cmd_buf,    \* in .bss: the command typed
  child       \* ghost: the process that sys_fork made for each

bss  == <<child_pid, write_result, cmd_buf>>
vars == <<alive, cur, label, phase, eax, flags, stack, bss, child>>

-----------------------------------------------------------------------------
(* Words pushed, what is called, and where to go when the result is        *)
(* negative, zero or positive.                                             *)
If(words, call, neg, zero, pos) ==
  [words |-> words, call |-> call, prefix |-> "",
   next |-> ("neg" :> neg @@ "zero" :> zero @@ "pos" :> pos)]

Do(words, call, next) == If(words, call, next, next, next)

Say(next) == Do(<<Ptr>>, "print", next)
Exit        == Do(<<>>, "exit", "lost")

(* A function of the shell: its return address is behind its arguments. *)
Zero(next)  == Do(<<Ptr, Ptr, Ret>>, "memzero", next)
Path(next)  == Do(<<Ptr, Ret>>, "build_path", next)
Is(command, yes, no) ==
  [If(<<Ptr, Ptr, Ret>>, "str_startswith", yes, no, yes) EXCEPT !.prefix = command]

code_prompt ==
     "start"    :> Say("clear")
  @@ "clear"    :> Zero("prompt")
  @@ "prompt"   :> Say("read_again")
  @@ "read_again" :> If(<<Ptr, Ptr>>, "readline", "read_again", "read_again", "is_exit")
  @@ "is_exit"  :> Is("exit", "goodbye", "fork")
  @@ "goodbye"  :> Say("exit")
  @@ "exit"     :> Exit
  @@ "fork"     :> If(<<>>, "fork", "clear", "dispatch", "parent")

code_parent ==
     "parent"   :> Say("number")
  @@ "number"   :> Do(<<Child, Ret>>, "print_int", "newline")
  @@ "newline"  :> Say("wait")
  @@ "wait"     :> If(<<Child>>, "wait", "wait", "resume", "wait")
  @@ "resume"   :> Say("clear")

code_dispatch ==
     "dispatch" :> Is("ls", "ls", "is_cat")
  @@ "is_cat"   :> Is("cat", "cat", "is_write")
  @@ "is_write" :> Is("write", "write", "is_del")
  @@ "is_del"   :> Is("del", "del", "is_exit2")
  @@ "is_exit2" :> Is("exit", "goodbye", "unknown")
  @@ "unknown"  :> Say("exit")

code_ls ==
     "ls"       :> Say("ls_loop")
  @@ "ls_loop"  :> Zero("readdir")
  @@ "readdir"  :> If(<<Ptr, Ptr, Ptr>>, "readdir", "exit", "ls_indent", "exit")
  @@ "ls_indent" :> Say("ls_name")
  @@ "ls_name"  :> Say("ls_end")
  @@ "ls_end"   :> Say("ls_loop")

code_cat ==
     "cat"      :> Path("cat_open")
  @@ "cat_open" :> If(<<0, Ptr>>, "open", "cat_read", "fail", "cat_read")
  @@ "cat_read" :> If(<<Ptr, Ptr, 1>>, "read", "fail", "fail", "cat_text")
  @@ "cat_text" :> Say("cat_end")
  @@ "cat_end"  :> Say("cat_close")
  @@ "cat_close" :> Do(<<1>>, "close", "exit")
  @@ "fail"     :> Say("exit")

code_write ==
     "write"    :> Path("ask")
  @@ "ask"      :> Say("wipe")
  @@ "wipe"     :> Zero("content")
  @@ "content"  :> Do(<<Ptr, Ptr>>, "readline", "write_open")
  @@ "write_open" :> If(<<1, Ptr>>, "open", "put", "fail", "put")
  @@ "put"      :> Do(<<Ptr, Ptr, 1>>, "write", "write_close")
  @@ "write_close" :> If(<<1>>, "close", "fail", "written", "written")
  @@ "written"  :> Say("name")
  @@ "name"     :> Say("end")
  @@ "end"      :> Say("exit")

code_del ==
     "del"      :> Path("delete")
  @@ "delete"   :> If(<<Ptr>>, "delete", "fail", "deleted", "deleted")
  @@ "deleted"  :> Say("name")

Code == code_prompt @@ code_parent @@ code_dispatch @@ code_ls
          @@ code_cat @@ code_write @@ code_del

-----------------------------------------------------------------------------
Init ==
  /\ alive = {0} /\ cur = 0
  /\ label = [p \in Pids |-> "start"] /\ phase = [p \in Pids |-> "push"]
  /\ eax = [p \in Pids |-> 0] /\ flags = [p \in Pids |-> "pos"]
  /\ stack = [i \in 1 .. 3 |-> Ptr]
  /\ child_pid = 0 /\ write_result = 0 /\ cmd_buf = "other"
  /\ child = [p \in Pids |-> 0]

At(ph)  == cur \in alive /\ label[cur] # "lost" /\ phase[cur] = ph
Here    == Code[label[cur]]
Goto(ph) == phase' = [phase EXCEPT ![cur] = ph]

Word(w) == IF w = Child THEN child_pid ELSE w

(* push, push, ...; the parent keeps the number of its child first. *)
push ==
  /\ At("push")
  /\ child_pid' = IF label[cur] = "parent" THEN eax[cur] ELSE child_pid
  /\ stack' = [i \in 1 .. 3 |->
                 IF i <= Len(Here.words) THEN Word(Here.words[i]) ELSE stack[i]]
  /\ Goto("trap")
  /\ UNCHANGED <<alive, cur, label, eax, flags, write_result, cmd_buf, child>>

(* What a call without an effect on the processes may return; readdir is   *)
(* compared with 1.                                                        *)
Results(call) ==
  CASE call = "open"    -> {-1, 0, 1}
    [] call = "read"    -> {-1, 1}
    [] call = "write"   -> {-1, 1}
    [] call = "delete"  -> {-1, 0}
    [] call = "readdir" -> {-1, 0}
    [] call = "close"   -> {-1, 0}
    [] call = "str_startswith" -> {IF Here.prefix = cmd_buf THEN 1 ELSE 0}
    [] OTHER            -> {0}

Plain == Here.call \notin {"fork", "exit", "wait", "readline"}

trap ==
  /\ At("trap") /\ Plain
  /\ \E r \in Results(Here.call) : eax' = [eax EXCEPT ![cur] = r]
  /\ Goto("test")
  /\ write_result' = IF Here.call = "write" THEN eax'[cur] ELSE write_result
  /\ UNCHANGED <<alive, cur, label, flags, stack, child_pid, cmd_buf, child>>

sys_readline ==
  /\ At("trap") /\ Here.call = "readline"
  /\ eax' = [eax EXCEPT ![cur] = 1]
  /\ cmd_buf' \in IF label[cur] = "read_again" THEN Commands ELSE {cmd_buf}
  /\ Goto("test")
  /\ UNCHANGED <<alive, cur, label, flags, stack, child_pid, write_result, child>>

(* The child is a copy, in the same place, with 0 in eax. *)
sys_fork ==
  /\ At("trap") /\ Here.call = "fork"
  /\ \/ /\ Pids \subseteq alive
        /\ eax' = [eax EXCEPT ![cur] = -1] /\ Goto("test")
        /\ UNCHANGED <<alive, label, child>>
     \/ \E p \in Pids \ alive :
          /\ \A q \in Pids \ alive : p <= q
          /\ alive' = alive \cup {p}
          /\ child' = [child EXCEPT ![cur] = p]
          /\ eax' = [eax EXCEPT ![cur] = p, ![p] = 0]
          /\ label' = [label EXCEPT ![p] = label[cur]]
          /\ phase' = [phase EXCEPT ![cur] = "test", ![p] = "test"]
  /\ UNCHANGED <<cur, flags, stack, bss>>

(* The kernel takes the word on the stack for the number of a process. *)
sys_wait ==
  /\ At("trap") /\ Here.call = "wait"
  /\ eax' = [eax EXCEPT ![cur] = IF stack[1] \in alive THEN 1 ELSE 0]
  /\ Goto("test")
  /\ UNCHANGED <<alive, cur, label, flags, stack, bss, child>>

(* Back to a task with the flags of the kernel. *)
task_return(p) == cur' = p /\ flags' = [flags EXCEPT ![p] = "pos"]

sys_exit ==
  /\ At("trap") /\ Here.call = "exit"
  /\ alive' = alive \ {cur}
  /\ IF alive = {cur} THEN UNCHANGED <<cur, flags>>
                      ELSE \E p \in alive \ {cur} : task_return(p)
  /\ UNCHANGED <<label, phase, eax, stack, bss, child>>

Sign(n) == IF n < 0 THEN "neg" ELSE IF n = 0 THEN "zero" ELSE "pos"

Compared == IF label[cur] = "write_close" THEN write_result ELSE eax[cur]

(* A function returns to the word behind its arguments, whoever wrote it;  *)
(* then the result is compared.                                            *)
test ==
  /\ At("test")
  /\ LET n == Len(Here.words)
     IN  IF n > 0 /\ Here.words[n] = Ret /\ stack[n] # Ret
           THEN label' = [label EXCEPT ![cur] = "lost"] /\ UNCHANGED <<flags, phase>>
           ELSE /\ flags' = [flags EXCEPT ![cur] = Sign(Compared)]
                /\ Goto("jump") /\ UNCHANGED label
  /\ UNCHANGED <<alive, cur, eax, stack, bss, child>>

jump ==
  /\ At("jump")
  /\ label' = [label EXCEPT ![cur] = Here.next[flags[cur]]]
  /\ Goto("push")
  /\ UNCHANGED <<alive, cur, eax, flags, stack, bss, child>>

(* The timer, in user code. *)
timer ==
  /\ cur \in alive
  /\ \E p \in alive \ {cur} : task_return(p)
  /\ UNCHANGED <<alive, label, phase, eax, stack, bss, child>>

halted == alive = {} /\ UNCHANGED vars

Next ==
  \/ push \/ trap \/ sys_readline \/ sys_fork \/ sys_wait \/ sys_exit
  \/ test \/ jump \/ timer \/ halted

Spec == Init /\ [][Next]_vars

-----------------------------------------------------------------------------
(***************************************************************************)
(* The shell says that the child exited, and prompts again, only when the  *)
(* child it forked is gone, as the comments and the message at the end of  *)
(* its wait loop have it.                                                  *)
(***************************************************************************)
ResumesAfterExit == label[0] = "resume" => child[0] \notin alive
=============================================================================
