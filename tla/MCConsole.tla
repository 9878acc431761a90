----------------------------- MODULE MCConsole -----------------------------
(***************************************************************************)
(* TLC instance of Console: two processes, buffers of two keys, a screen   *)
(* of two rows of two columns and lines of three characters, so that the   *)
(* buffer and its counters wrap and lines wrap and scroll.                 *)
(***************************************************************************)
EXTENDS Console

(* A code without a character, a letter, backspace and enter. *)
SmallSet == <<NUL, "A", BS, CR>>

Prompt == {<<">">>}
=============================================================================
