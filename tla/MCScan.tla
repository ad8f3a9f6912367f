---------------------------------- MODULE MCScan --------------------------------
(***************************************************************************)
(* A small instance of Scan for TLC.                                       *)
(***************************************************************************)
EXTENDS Scan

CONSTANTS d1, d2, f1

\* A file below two folders, one beside them, and one to come.
MCShares ==
  {[i \in Items |-> IF i = d1 THEN Root ELSE IF i = d2 THEN d1 ELSE d2],
   [i \in Items |-> Root],
   [i \in Items |-> IF i \in Folders THEN Root ELSE Nowhere]}
================================================================================
