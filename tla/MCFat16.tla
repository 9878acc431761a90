------------------------------ MODULE MCFat16 ------------------------------
(***************************************************************************)
(* TLC instances of Fat16: two names and a disk of two or three clusters   *)
(* of one or two units, so that the disk, the directory and the descriptor *)
(* table all fill up and files cover part of a cluster, one and several.   *)
(***************************************************************************)
EXTENDS Fat16Store, TLC

CONSTANTS a, b

(* Names of eight characters and three, which directories keep. *)
ShortNames == [n \in Names |-> n]

(* Outside idle, the power fails only inside a write. *)
InsideWrites == {"idle", "alloc", "link", "write"}
=============================================================================
