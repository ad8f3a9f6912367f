------------------------------- MODULE MCUpdater -------------------------------
(* Instances of Updater for TLC. *)
EXTENDS Updater, TLC

Symmetry == Permutations(Helpers)

================================================================================
