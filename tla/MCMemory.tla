------------------------------ MODULE MCMemory ------------------------------
(***************************************************************************)
(* TLC instance of Memory: four tasks, four tables of five entries, pages  *)
(* of two units, a program of a page and a half and a stack of one page.   *)
(***************************************************************************)
EXTENDS Memory

(* The heap is at addresses from 8 on. *)
Programs == [t \in Tasks |-> 14 + 4 * t]
Stacks   == [t \in Tasks |-> 6 + 2 * t]
=============================================================================
