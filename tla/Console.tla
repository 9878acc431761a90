------------------------------ MODULE Console ------------------------------
(***************************************************************************)
(* From key to line: the keyboard interrupt (keyboard/classic.c), the      *)
(* circular buffer each process has (keyboard/keyboard.c), sys_readline    *)
(* (isr80h/process.c) and the terminal it echoes to (kernel.c).            *)
(*                                                                         *)
(* Keys come in user code and while sys_readline halts, which is where it  *)
(* enables interrupts.  They go to the process that is current.  The timer *)
(* wakes sys_readline as well as a key does, so it looks at the buffer     *)
(* again and again; several keys may come in between.                      *)
(***************************************************************************)
EXTENDS Integers, SequencesExt

CONSTANTS
  Procs,     \* the processes
  Shell,     \* the one that is there from the start
  Size,      \* PEACHOS_KEYBOARD_BUFFER_SIZE
  Wrap,      \* the values of an int: head and tail wrap around there
  ScanSet,   \* keyboard_scan_set_one
  HighBit,   \* 0x80, set in the code of a release
  MaxLine,   \* the length a caller of sys_readline asks for
  Width,     \* VGA_WIDTH
  Height,    \* VGA_HEIGHT
  Output     \* the strings programs print

NUL  == "NUL"
BS   == "BS"
CR   == "CR"
LF   == "LF"
Sp   == " "

(* The characters a buffer holds.  '\n' is not on the keyboard; both loops *)
(* of sys_readline treat it as they treat '\r'.                            *)
Keys == {"a", BS, CR}

ASSUME ProcsAssumption    == Shell \in Procs
ASSUME BufferAssumption   == /\ Size \in Nat \ {0} /\ Wrap \in Nat \ {0}
                             /\ Wrap % Size = 0 /\ Wrap > Size
ASSUME KeyboardAssumption == /\ ScanSet \in Seq({NUL, "A"} \cup Keys)
                             /\ HighBit \in Nat /\ Len(ScanSet) < HighBit
ASSUME LineAssumption     == MaxLine \in Nat /\ MaxLine > 1   \* the shell's are 63 and 511
ASSUME ScreenAssumption   == Width \in Nat \ {0} /\ Height \in Nat \ {0}

(* What a cell may show: the prompt, and what can be typed. *)
Glyphs == Keys \cup {Sp, ">"}

ASSUME OutputAssumption   == Output \subseteq Seq(Glyphs \cup {LF})

Slots == 0 .. Size - 1
Cells == 0 .. Width * Height - 1

VARIABLES
  live,      \* the processes there are
  cur,       \* current_process
  buffer,    \* process->keyboard.buffer
  head,      \* process->keyboard.head
  tail,      \* process->keyboard.tail
  pc,        \* "user", or the loop of sys_readline: "drain" or "line"
  kbuf,      \* the line so far; its length is i
  screen,    \* video_mem, one row after the other
  row, col,  \* terminal_row, terminal_col
  unread,    \* ghost: the keys of a process it has not popped
  before,    \* ghost: the cells before the cursor when the line began
  stuck      \* ghost: a backspace came at column 0, or first of all

keyboard == <<buffer, head, tail, unread>>
terminal == <<screen, row, col>>
ghosts   == <<before, stuck>>
vars     == <<live, cur, keyboard, pc, kbuf, terminal, ghosts>>

-----------------------------------------------------------------------------
(* The terminal, as functions on its state t. *)

Put(t, c) == [t EXCEPT !.screen[t.row * Width + t.col] = c]

(* Mutant: the rows are moved down. *)
scroll_down(s) ==
  [p \in Cells |-> IF p >= Width THEN s[p - Width] ELSE Sp]

(* terminal_scroll: the rows move up, the last is cleared. *)
scroll(s) ==
  [p \in Cells |-> IF p + Width \in Cells THEN s[p + Width] ELSE Sp]

(* Mutant: the row past the last is not noticed. *)
new_row_past(t) == [t EXCEPT !.row = t.row + 1, !.col = 0]

(* The start of the next row, of the last again if there is none. *)
new_row(t) ==
  IF t.row + 1 < Height
  THEN [t EXCEPT !.row = t.row + 1, !.col = 0]
  ELSE [screen |-> scroll(t.screen), row |-> Height - 1, col |-> 0]

(* terminal_writechar: a backspace at column 0 stays there. *)
writechar(t, c) ==
  CASE c = BS -> LET u == [t EXCEPT !.col = IF t.col > 0 THEN t.col - 1 ELSE 0]
                 IN  Put(u, Sp)
    [] c = LF -> new_row(t)
    [] OTHER  -> IF t.col + 1 < Width THEN [Put(t, c) EXCEPT !.col = t.col + 1]
                                      ELSE new_row(Put(t, c))

Terminal   == [screen |-> screen, row |-> row, col |-> col]
Becomes(t) == screen' = t.screen /\ row' = t.row /\ col' = t.col

Echo(c) == Becomes(writechar(Terminal, c))

(* print writes a string, one character after the other. *)
Printed(t, s) ==
  LET at[n \in 0 .. Len(s)] == IF n = 0 THEN t ELSE writechar(at[n - 1], s[n])
  IN  at[Len(s)]

-----------------------------------------------------------------------------
(* The keyboard *)

(* classic_keyboard_scancode_to_char lets one code too many through: the   *)
(* byte behind the table can be anything.                                  *)
scancode_to_char(s) ==
  CASE s < Len(ScanSet) -> {ScanSet[s + 1]}
    [] s = Len(ScanSet) -> Keys \cup {NUL}
    [] OTHER            -> {NUL}

lowercase(c) == IF c = "A" THEN "a" ELSE c

keyboard_push(c) ==
  /\ buffer' = [buffer EXCEPT ![cur][tail[cur] % Size] = c]
  /\ tail'   = [tail EXCEPT ![cur] = (tail[cur] + 1) % Wrap]
  /\ unread' = [unread EXCEPT ![cur] = Append(unread[cur], c)]
  /\ UNCHANGED head

(* Mutants: the slot is not cleared; head does not go on. *)
keyboard_pop_keeps(c) ==
  /\ c # NUL
  /\ c = buffer[cur][head[cur] % Size]
  /\ head'   = [head EXCEPT ![cur] = (head[cur] + 1) % Wrap]
  /\ unread' = [unread EXCEPT ![cur] = IF @ = <<>> THEN @ ELSE Tail(@)]
  /\ UNCHANGED <<buffer, tail>>

keyboard_pop_stays(c) ==
  /\ c = buffer[cur][head[cur] % Size]
  /\ buffer' = [buffer EXCEPT ![cur][head[cur] % Size] = NUL]
  /\ unread' = [unread EXCEPT ![cur] = IF @ = <<>> THEN @ ELSE Tail(@)]
  /\ UNCHANGED <<head, tail>>

(* keyboard_pop returns c: an empty slot is 0. *)
keyboard_pop(c) ==
  /\ c = buffer[cur][head[cur] % Size]
  /\ \/ c = NUL /\ UNCHANGED keyboard
     \/ /\ c # NUL
        /\ buffer' = [buffer EXCEPT ![cur][head[cur] % Size] = NUL]
        /\ head'   = [head EXCEPT ![cur] = (head[cur] + 1) % Wrap]
        /\ unread' = [unread EXCEPT ![cur] = IF @ = <<>> THEN @ ELSE Tail(@)]
        /\ UNCHANGED tail

(* int21h_handler.  Nobody is assumed to type more ahead than the buffer   *)
(* holds: nothing in the code prevents it.                                 *)
key(s) ==
  /\ s < HighBit
  /\ Len(unread[cur]) < Size
  /\ \E c \in scancode_to_char(s) \ {NUL} : keyboard_push(lowercase(c))
  /\ UNCHANGED <<live, cur, pc, kbuf, terminal, ghosts>>

-----------------------------------------------------------------------------
(* sys_readline *)

readline ==
  /\ pc = "user"
  /\ pc'   = "drain"
  /\ kbuf' = <<>>
  /\ before' = [i \in 1 .. row * Width + col |-> screen[i - 1]]
  /\ stuck' = FALSE
  /\ UNCHANGED <<live, cur, keyboard, terminal>>

(* The line goes on, or is copied to the caller. *)
Collect(l, ended, off) ==
  IF ended \/ Len(l) >= MaxLine - 1
  THEN pc' = "user" /\ kbuf' = <<>> /\ before' = <<>> /\ stuck' = FALSE
  ELSE pc' = "line" /\ kbuf' = l /\ stuck' = (stuck \/ off) /\ UNCHANGED before

(* The first loop: ends of lines are dropped as long as nothing else was   *)
(* found.  Anything else is the first character, even a backspace.         *)
drain ==
  \E c \in Keys \cup {NUL} :
    /\ pc = "drain"
    /\ keyboard_pop(c)
    /\ \/ /\ c = CR
          /\ UNCHANGED <<pc, kbuf, terminal, ghosts>>
       \/ /\ c = NUL
          /\ Collect(<<>>, FALSE, FALSE)
          /\ UNCHANGED terminal
       \/ /\ c \notin {NUL, CR}
          /\ Collect(<<c>>, FALSE, c = BS)
          /\ Echo(c)
    /\ UNCHANGED <<live, cur>>

(* The second loop. *)
line ==
  \E c \in Keys \cup {NUL} :
    /\ pc = "line"
    /\ keyboard_pop(c)
    /\ \/ c = NUL /\ UNCHANGED <<pc, kbuf, terminal, ghosts>>
       \/ c = BS /\ kbuf = <<>> /\ UNCHANGED <<pc, kbuf, terminal, ghosts>>
       \/ /\ c = BS /\ kbuf # <<>>
          /\ Collect(Front(kbuf), FALSE, col = 0)
          /\ Echo(BS)
       \/ /\ c \notin {NUL, BS}
          /\ Collect(Append(kbuf, c), c = CR, FALSE)
          /\ Echo(IF c = CR THEN LF ELSE c)
    /\ UNCHANGED <<live, cur>>

-----------------------------------------------------------------------------
(* Programs *)

(* sys_print *)
print ==
  \E s \in Output :
    /\ pc = "user"
    /\ Becomes(Printed(Terminal, s))
    /\ UNCHANGED <<live, cur, keyboard, pc, kbuf, ghosts>>

Cleared(p) ==
  /\ buffer' = [buffer EXCEPT ![p] = [i \in Slots |-> NUL]]
  /\ head'   = [head EXCEPT ![p] = 0]
  /\ tail'   = [tail EXCEPT ![p] = 0]
  /\ unread' = [unread EXCEPT ![p] = <<>>]

(* sys_fork: process_init clears the child's buffer. *)
fork ==
  \E p \in Procs \ live :
    /\ pc = "user"
    /\ live' = live \cup {p}
    /\ Cleared(p)
    /\ UNCHANGED <<cur, pc, kbuf, terminal, ghosts>>

(* sys_exit of a child: what it did not read is gone. *)
exit ==
  /\ pc = "user" /\ cur # Shell
  /\ live' = live \ {cur}
  /\ cur'  \in live \ {cur}
  /\ Cleared(cur)
  /\ UNCHANGED <<pc, kbuf, terminal, ghosts>>

(* int20h_handler switches tasks, in user code only. *)
timer ==
  /\ pc = "user"
  /\ cur' \in live \ {cur}
  /\ UNCHANGED <<live, keyboard, pc, kbuf, terminal, ghosts>>

Init ==
  /\ live = {Shell} /\ cur = Shell
  /\ buffer = [p \in Procs |-> [i \in Slots |-> NUL]]
  /\ head = [p \in Procs |-> 0] /\ tail = head
  /\ pc = "user" /\ kbuf = <<>>
  /\ screen = [p \in Cells |-> Sp] /\ row = 0 /\ col = 0
  /\ unread = [p \in Procs |-> <<>>]
  /\ before = <<>> /\ stuck = FALSE

Next ==
  \/ \E s \in 0 .. 2 * HighBit - 1 : key(s)
  \/ readline \/ drain \/ line
  \/ print \/ fork \/ exit \/ timer

(* The timer wakes sys_readline.  That somebody types is not assumed. *)
Spec == Init /\ [][Next]_vars /\ WF_vars(drain) /\ WF_vars(line)

-----------------------------------------------------------------------------
TypeOK ==
  /\ live \subseteq Procs /\ cur \in live
  /\ buffer \in [Procs -> [Slots -> Keys \cup {NUL}]]
  /\ head \in [Procs -> 0 .. Wrap - 1] /\ tail \in [Procs -> 0 .. Wrap - 1]
  /\ pc \in {"user", "drain", "line"}
  /\ kbuf \in Seq(Keys) /\ Len(kbuf) < MaxLine
  /\ screen \in [Cells -> Glyphs]
  /\ row \in 0 .. Height - 1 /\ col \in 0 .. Width - 1
  /\ unread \in [Procs -> Seq(Keys)]
  /\ before \in Seq(Glyphs)
  /\ stuck \in BOOLEAN

(***************************************************************************)
(* A process pops the keys that came while it was current, each once and   *)
(* in their order, through every wrap of the buffer and of the counters,   *)
(* which are never compared: the empty slots alone tell keyboard_pop where *)
(* the keys end.                                                           *)
(***************************************************************************)
KeysInOrder ==
  \A p \in live :
    /\ tail[p] % Size = (head[p] + Len(unread[p])) % Size
    /\ \A i \in 1 .. Size :
         buffer[p][(head[p] + i - 1) % Size] =
           IF i <= Len(unread[p]) THEN unread[p][i] ELSE NUL

(***************************************************************************)
(* The user sees what the program will get: up to the cursor the screen    *)
(* shows what was there before and then the line, over the end of a row    *)
(* and through a scroll, and backspaces erase what was typed and no more.  *)
(* Only one at column 0, or as the first key of all, sets the two apart.   *)
(***************************************************************************)
ScreenShowsLine ==
  (pc \in {"drain", "line"} /\ ~stuck) =>
    LET cursor == row * Width + col
        text   == before \o kbuf
    IN  \A j \in 0 .. cursor - 1 :
          j < Len(text) => screen[cursor - 1 - j] = text[Len(text) - j]

(* A character and behind it an end of line are in the buffer. *)
Typed == \E i, j \in 1 .. Len(unread[cur]) :
           i < j /\ unread[cur][i] = "a" /\ unread[cur][j] = CR

(***************************************************************************)
(* A line that was typed is returned: with a character and an end of line  *)
(* in the buffer sys_readline comes back.  An end of line alone may be     *)
(* taken for the rest of the line before.                                  *)
(***************************************************************************)
LineReturned == (pc # "user" /\ Typed) ~> (pc = "user")
=============================================================================
