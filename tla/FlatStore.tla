----------------------------- MODULE FlatStore -----------------------------
(***************************************************************************)
(* What the file layer promises its callers: a store of files by name.     *)
(* Each operation changes one file, at one instant, and leaves the others  *)
(* alone; a file is opened or deleted as a whole, and grows by what a      *)
(* write put there or not at all.  Clusters, directory slots and           *)
(* descriptors do not show.                                                *)
(***************************************************************************)
EXTENDS Integers

CONSTANTS
  Names,       \* the names of files
  Unit(_, _)   \* what a caller writes at an offset of a file

VARIABLE files  \* the contents of each file there is, a function on its offsets

Exists(n) == n \in DOMAIN files
Empty     == [p \in {} |-> 0]

(* fopen for writing: the file is there and empty, whatever was before. *)
Open(n) == files' = [m \in DOMAIN files \cup {n} |-> IF m = n THEN Empty ELSE files[m]]

(* fwrite of the units first .. last.  What lies between the old end of    *)
(* the file and the first of them is not specified.                        *)
Write(n, first, last) ==
  LET old == files[n]
      new == files'[n]
  IN  /\ DOMAIN new = DOMAIN old \cup 0 .. last
      /\ \A p \in first .. last : new[p] = Unit(n, p)
      /\ \A p \in DOMAIN old \ (first .. last) : new[p] = old[p]
      /\ files' = [files EXCEPT ![n] = new]

Delete(n) ==
  /\ Exists(n)
  /\ files' = [m \in DOMAIN files \ {n} |-> files[m]]

(* An image holds files of written units. *)
Init ==
  /\ DOMAIN files \subseteq Names
  /\ \A n \in DOMAIN files : \A p \in DOMAIN files[n] :
       0 .. p \subseteq DOMAIN files[n] /\ files[n][p] = Unit(n, p)

Next == \E n \in Names :
  \/ Open(n)
  \/ Delete(n)
  \/ /\ Exists(n) /\ Exists(n)'
     /\ \E first, last \in DOMAIN files'[n] : first <= last /\ Write(n, first, last)

Spec == Init /\ [][Next]_files
=============================================================================
