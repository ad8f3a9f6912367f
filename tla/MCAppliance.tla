------------------------------ MODULE MCAppliance ------------------------------
(* Constants of the runs of Appliance. *)
EXTENDS Appliance

Row(owned, attempts, runs) ==
  [status |-> "running", owned |-> owned, retries |-> 0, attempts |-> attempts, runs |-> runs]
MCLegacyRows == {Row(FALSE, 0, {}), Row(FALSE, 2, {"active"}), Row(TRUE, 1, {"active"})}
================================================================================
