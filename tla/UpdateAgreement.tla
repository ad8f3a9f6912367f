---------------------------- MODULE UpdateAgreement ----------------------------
(***************************************************************************)
(* What a one-click update promises, with no helper, container, file or    *)
(* crash in it (docs/architecture/adr/ADR-0006-updater-two-phase-commit):  *)
(* the updater decides once, commit or abort; the database records an      *)
(* outcome of that decision only; the old release never serves again after *)
(* a commit, the new one never after an abort was recorded, and never both *)
(* at once.                                                                *)
(***************************************************************************)
VARIABLES
  decision,  \* of the updater: "undecided", "commit" or "abort"
  outcome,   \* in the database: "open", "success", "rolled_back" or "failed"
  serving    \* the release that serves: "old", "new" or "none"

vars == <<decision, outcome, serving>>

Init ==
  /\ decision = "undecided"
  /\ outcome = "open"
  /\ serving = "old"

Decide(d) ==
  /\ decision = "undecided"
  /\ decision' = d
  /\ UNCHANGED <<outcome, serving>>

\* "failed" is recorded of an operation the updater never started on.
Record(o) ==
  /\ outcome = "open"
  /\ decision = CASE o = "success"     -> "commit"
                  [] o = "rolled_back" -> "abort"
                  [] o = "failed"      -> "undecided"
  /\ outcome' = o
  /\ UNCHANGED <<decision, serving>>

StopServing == serving' = "none" /\ UNCHANGED <<decision, outcome>>

Serve(r) ==
  /\ serving = "none"
  /\ \/ r = "old" /\ decision # "commit"
     \/ r = "new" /\ outcome \notin {"rolled_back", "failed"}
  /\ serving' = r
  /\ UNCHANGED <<decision, outcome>>

Next ==
  \/ \E d \in {"commit", "abort"} : Decide(d)
  \/ \E o \in {"success", "rolled_back", "failed"} : Record(o)
  \/ StopServing
  \/ \E r \in {"old", "new"} : Serve(r)

Spec == Init /\ [][Next]_vars

================================================================================
