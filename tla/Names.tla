------------------------------- MODULE Names -------------------------------
(***************************************************************************)
(* From the name a user types to a directory entry: the path the shell     *)
(* builds (build_path), its copy in the kernel (copy_string_from_task),    *)
(* the path parser (fs/pparser.c), the checks of fopen and fdelete         *)
(* (fs/file.c), and the names of FAT16 (fat16_name_to_83 to write one,     *)
(* fat16_get_full_relative_filename to read one, istrncmp to compare).     *)
(*                                                                         *)
(* Fat16 takes names as they are and has all of the scans over the         *)
(* directory; here a slot is free or has a name, and that is all there is. *)
(* A system call is not preempted, so one runs at a time.                  *)
(***************************************************************************)
EXTENDS Integers, SequencesExt, FiniteSetsExt

CONSTANTS
  Args,      \* what is typed behind "cat ", "write " and "del "
  RawPaths,  \* paths of programs other than the shell
  Base,      \* 8
  Ext,       \* 3
  MaxPath,   \* PEACHOS_MAX_PATH
  NSlots     \* root_dir_entries

Slash == "/"
Dot   == "."
Sp    == " "
CR    == "CR"
Chars == {"a", "A", "0", "1", ":", Slash, Dot, Sp, CR}
Drive == <<"0", ":", Slash>>

ASSUME TypedAssumption == Args \subseteq Seq(Chars) /\ RawPaths \subseteq Seq(Chars)
ASSUME FieldAssumption == Base \in Nat \ {0} /\ Ext \in Nat \ {0}

(* The longest 8.3 name fits in a path with its drive. *)
ASSUME RoomAssumption == MaxPath \in Nat /\ MaxPath > Len(Drive) + Base + 1 + Ext

ASSUME SlotAssumption == NSlots \in Nat \ {0}

Slots == 1 .. NSlots
Free  == [free |-> TRUE]

Entries == [filename : [1 .. Base -> Chars], ext : [1 .. Ext -> Chars]]

VARIABLES
  pc,     \* "idle", "drive", "part" or "act": how far the call is
  path,   \* the path in the kernel
  rest,   \* tmp_path, what is left of it to parse
  parts,  \* the path_parts found
  res,    \* what the call returns: "ok" or "fail"
  root,   \* the names in the root directory
  made,   \* ghost: the 8.3 names written and not deleted since
  cut     \* ghost: the 8.3 names that came from names that are not

vars == <<pc, path, rest, parts, res, root, made, cut>>

-----------------------------------------------------------------------------
(* Strings. *)

Upper(c)   == IF c = "a" THEN "A" ELSE c
tolower(c) == IF c = "A" THEN "a" ELSE c

Uppercase(s) == [i \in DOMAIN s |-> Upper(s[i])]
Lowercase(s) == [i \in DOMAIN s |-> tolower(s[i])]

(* The characters in front of the first one in C, or all. *)
Until(s, C) ==
  LET i == SelectInSeq(s, LAMBDA c : c \in C)
  IN  IF i = 0 THEN s ELSE SubSeq(s, 1, i - 1)

(* istrncmp returned 0; no name is as long as its third argument. *)
istrncmp(s1, s2) ==
  Len(s1) = Len(s2) /\ \A i \in DOMAIN s1 : tolower(s1[i]) = tolower(s2[i])

(* Mutant: no place is left for the end of the string. *)
strncpy_full(src) == SubSeq(src, 1, Min({Len(src), MaxPath}))

(* strncpy of copy_string_from_task, there and back: one character less    *)
(* than the room there is.                                                 *)
strncpy(src) == SubSeq(src, 1, Min({Len(src), MaxPath - 1}))

(* The shell puts the drive in front and takes the line up to its end. *)
build_path(arg) == Drive \o Until(arg, {CR})

-----------------------------------------------------------------------------
(* Names in the directory. *)

Pad(s, n)     == [i \in 1 .. n |-> IF i <= Len(s) THEN s[i] ELSE Sp]
FirstOf(s, n) == SubSeq(s, 1, Min({n, Len(s)}))
From(s, i)    == SubSeq(s, i, Len(s))

(* Mutant: the dot is not skipped. *)
name_to_83_dot(name) ==
  LET base == FirstOf(Until(name, {Dot}), Base)
  IN  [filename |-> Pad(Uppercase(base), Base),
       ext      |-> Pad(Uppercase(FirstOf(From(name, Len(base) + 1), Ext)), Ext)]

(* The name up to a dot or Base characters, one dot if there is one, and   *)
(* the first Ext characters behind.                                        *)
name_to_83(name) ==
  LET base == FirstOf(Until(name, {Dot}), Base)
      tail == From(name, Len(base) + 1)
      ext  == IF tail # <<>> /\ Head(tail) = Dot THEN Tail(tail) ELSE tail
  IN  [filename |-> Pad(Uppercase(base), Base),
       ext      |-> Pad(Uppercase(FirstOf(ext, Ext)), Ext)]

to_proper_string(s) == Until(s, {Sp})

full_relative_filename(e) ==
  to_proper_string(e.filename)
    \o (IF e.ext[1] = Sp THEN <<>> ELSE <<Dot>> \o to_proper_string(e.ext))

Named(name) ==
  {s \in Slots : root[s] # Free /\ istrncmp(full_relative_filename(root[s]), name)}

(* fat16_get_directory_entry finds something.  Whatever it found is taken  *)
(* for a file, so that a path with a second part leads nowhere.            *)
get_directory_entry(p) == Named(Head(p)) # {} /\ Len(p) = 1

-----------------------------------------------------------------------------
(* A name of at most Base characters and at most Ext behind a dot. *)
Fits(x) ==
  /\ Sp \notin Range(x)
  /\ LET b == Until(x, {Dot})
     IN  /\ Len(b) <= Base
         /\ \/ x = b /\ x # <<>>
            \/ Len(x) - Len(b) \in 2 .. Ext + 1

-----------------------------------------------------------------------------
TypeOK ==
  /\ pc \in {"idle", "drive", "part", "act"}
  /\ path \in Seq(Chars) /\ Len(path) < MaxPath
  /\ rest \in Seq(Chars)
  /\ parts \in Seq(Seq(Chars))
  /\ res \in {"ok", "fail"}
  /\ root \in [Slots -> {Free} \cup Entries]

Init ==
  /\ pc = "idle" /\ path = <<>> /\ rest = <<>> /\ parts = <<>> /\ res = "ok"
  /\ root = [s \in Slots |-> Free]
  /\ made = {} /\ cut = {}

(* sys_open or sys_delete: the path is copied in. *)
call(p) ==
  /\ pc = "idle"
  /\ path' = strncpy(p) /\ rest' = strncpy(p) /\ parts' = <<>>
  /\ pc' = "drive"
  /\ UNCHANGED <<res, root, made, cut>>

Return(r) == pc' = "idle" /\ res' = r /\ path' = <<>> /\ rest' = <<>> /\ parts' = <<>>

valid_format(p) ==
  Len(p) >= 3 /\ p[1] \in {"0", "1"} /\ p[2] = ":" /\ p[3] = Slash

(* pathparser_get_drive_by_path; no path is longer than PEACHOS_MAX_PATH. *)
get_drive ==
  /\ pc = "drive"
  /\ IF valid_format(path)
       THEN pc' = "part" /\ rest' = From(path, 4) /\ UNCHANGED <<path, parts, res>>
       ELSE Return("fail")
  /\ UNCHANGED <<root, made, cut>>

(* Mutant: the slash behind a part is left there. *)
behind_at_slash(part) == From(rest, Len(part) + 1)

(* What is left behind a part and its slash. *)
behind(part) == From(rest, Len(part) + 2)

(* pathparser_parse_path_part; the first part that is empty ends the path. *)
parse_path_part ==
  /\ pc = "part"
  /\ LET part == Until(rest, {Slash})
     IN  /\ rest' = behind(part)
         /\ IF part = <<>>
              THEN pc' = "act" /\ UNCHANGED parts
              ELSE parts' = Append(parts, part) /\ UNCHANGED pc
  /\ UNCHANGED <<path, res, root, made, cut>>

(* fopen and fdelete refuse a path without parts, and have one disk. *)
Refused == parts = <<>> \/ path[1] # "0"

refuse ==
  /\ pc = "act" /\ Refused
  /\ Return("fail")
  /\ UNCHANGED <<root, made, cut>>

open_read ==
  /\ pc = "act" /\ ~Refused
  /\ Return(IF get_directory_entry(parts) THEN "ok" ELSE "fail")
  /\ UNCHANGED <<root, made, cut>>

Tell(name) ==
  /\ made' = IF Fits(name) THEN made \cup {Uppercase(name)} ELSE made
  /\ cut'  = IF Fits(name) THEN cut
                           ELSE cut \cup {full_relative_filename(name_to_83(name))}

(* The first part is all that counts.  An entry of that name is truncated, *)
(* else a new one is made in a free slot.                                  *)
open_write ==
  /\ pc = "act" /\ ~Refused
  /\ LET name == Head(parts)
         free == {s \in Slots : root[s] = Free}
     IN  \/ /\ Named(name) # {}
            /\ Return("ok") /\ Tell(name) /\ UNCHANGED root
         \/ /\ Named(name) = {} /\ free # {}
            /\ root' = [root EXCEPT ![Min(free)] = name_to_83(name)]
            /\ Return("ok") /\ Tell(name)
         \/ /\ Named(name) = {} /\ free = {}
            /\ Return("fail") /\ UNCHANGED <<root, made, cut>>

(* Here as well the first part is all that counts. *)
delete ==
  /\ pc = "act" /\ ~Refused
  /\ LET name == Head(parts)
     IN  \/ /\ Named(name) # {}
            /\ root' = [root EXCEPT ![Min(Named(name))] = Free]
            /\ made' = made \ {Uppercase(name)}
            /\ Return("ok") /\ UNCHANGED cut
         \/ /\ Named(name) = {}
            /\ Return("fail") /\ UNCHANGED <<root, made, cut>>

shell_call == \E x \in Args : call(build_path(x))
raw_call   == \E p \in RawPaths : call(p)

Next ==
  \/ shell_call \/ raw_call
  \/ get_drive \/ parse_path_part
  \/ refuse \/ open_read \/ open_write \/ delete

Spec == Init /\ [][Next]_vars

-----------------------------------------------------------------------------
Joined(p) == [i \in DOMAIN p |-> IF i = 1 THEN p[i] ELSE <<Slash>> \o p[i]]

(***************************************************************************)
(* What the parser hands on is the path: behind the drive, the parts in    *)
(* their order with a slash between each two, none of them empty and none  *)
(* with a slash in it; what is left out is at most one slash at the end,   *)
(* or begins with an empty part.                                           *)
(***************************************************************************)
ParsedRight ==
  pc = "act" =>
    LET joined == FlattenSeq(Joined(parts))
        name   == From(path, 4)
        left   == From(name, Len(joined) + 1)
    IN  /\ IsPrefix(Drive, path) \/ IsPrefix(<<"1", ":", Slash>>, path)
        /\ \A i \in DOMAIN parts : parts[i] # <<>> /\ Slash \notin Range(parts[i])
        /\ IsPrefix(joined, name)
        /\ \/ left \in {<<>>, <<Slash>>}
           \/ parts = <<>> /\ Head(left) = Slash
           \/ IsPrefix(<<Slash, Slash>>, left)

(***************************************************************************)
(* A file is found again under its name.  A name of the 8.3 form that was  *)
(* written and not deleted since is found by a later fopen for reading, in *)
(* whatever case it is typed; one that was not is not found, unless a name *)
(* that is not of that form was cut to it.                                 *)
(***************************************************************************)
FoundAgain ==
  /\ \A x \in made :
       get_directory_entry(<<x>>) /\ get_directory_entry(<<Lowercase(x)>>)
  /\ \A s \in Slots :
       root[s] # Free =>
         LET x == full_relative_filename(root[s])
         IN  x \in made \cup cut
=============================================================================
