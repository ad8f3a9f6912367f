---------------------------- MODULE MCAccountLogin ----------------------------
(* Constants of the runs of AccountLogin: one login manager in each behaviour. *)
EXTENDS AccountLogin, TLC

CONSTANTS s1, s2, u, v

MCIds == 1..2
Symmetry == Permutations({s1, s2}) \cup Permutations({u, v})
AllKinds == QrKinds \cup {"pikpak"}
===============================================================================
