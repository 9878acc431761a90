------------------------------ MODULE MCNames ------------------------------
(***************************************************************************)
(* TLC instance of Names: fields of one character and all names of up to   *)
(* four, so that there are names that are too long in front of the dot,    *)
(* behind it and for the path, names with spaces and names with parts.     *)
(***************************************************************************)
EXTENDS Names

Typed == {"a", "A", Slash, Dot, Sp}

AllArgs == {x \o <<CR>> : x \in SeqOf(Typed, 4)}

(* Paths without a drive, with one there is not, and with none at all. *)
Others == SeqOf({"0", "1", ":", Slash, "a"}, 3) \cup {<<"1", ":", Slash, "a">>}
=============================================================================
