---------------------------- MODULE MCTaskEngine ----------------------------
(***************************************************************************)
(* Small instances of TaskEngine for TLC: a download, which users cancel   *)
(* and resume, and a task of another type that outranks it.                *)
(***************************************************************************)
EXTENDS TaskEngine, TLC

CONSTANTS d1, t1, w1, w2

MCDownloads == Tasks \cap {d1}
MCPriority == [t \in Tasks |-> IF t = d1 THEN 0 ELSE 1]

WorkerSymmetry == Permutations({w1, w2})
=============================================================================
