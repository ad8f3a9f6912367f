-------------------------------- MODULE Updater --------------------------------
(***************************************************************************)
(* One operation of the one-click update, from the moment the running      *)
(* Appliance is drained: the installer that hands the operation to a       *)
(* helper container (update_install_service.py), the helper that replaces  *)
(* the Appliance's container and keeps a journal of checkpoints            *)
(* (updater_coordinator_service.py, updater_forward_v2.py,                 *)
(* updater_rollback_v2.py), and the Appliances - the old one, "source",    *)
(* and the new one, "candidate" - that reconcile the database with the     *)
(* journal (appliance/launcher.py, update_reconcile.py).                   *)
(*                                                                         *)
(* They share a Docker daemon and the /data volume and nothing else.  An   *)
(* action is one effect on a container, one file replaced, one             *)
(* transaction committed, or one decision taken on what was read; any      *)
(* process, or the daemon, may die between two of them.                    *)
(***************************************************************************)
EXTENDS Naturals

CONSTANTS
  Helpers,           \* containers running python -m app.updater
  NoHelper,          \* no container
  OriginalPolicy,    \* the restart policy the source was created with
  MaxGeneration,     \* MAX_RECOVERY_GENERATION
  StartMayTimeOut,   \* the Docker API may time out after starting a helper
  MaxDisruptions     \* bound: crashes, daemon restarts, failing Docker calls

ASSUME UpdaterAssumption ==
  /\ NoHelper \notin Helpers
  /\ OriginalPolicy \in {"no", "unless-stopped", "always"}
  /\ MaxGeneration \in Nat
  /\ StartMayTimeOut \in BOOLEAN
  /\ MaxDisruptions \in Nat

Appliances == {"source", "candidate"}
Lives == {"missing", "created", "booting", "starting", "serving", "exited",
          "stopped", "removed"}
Live == {"booting", "starting", "serving"}

(***************************************************************************)
(* The journal: updater statuses, checkpoints and what may follow what.    *)
(***************************************************************************)
ForwardNext == [
  initialized        |-> "old_restart_fenced",
  old_restart_fenced |-> "old_stopped",
  old_stopped        |-> "pending_ready",
  pending_ready      |-> "snapshot_verified",
  snapshot_verified  |-> "old_renamed",
  old_renamed        |-> "candidate_created",
  candidate_created  |-> "candidate_started",
  candidate_started  |-> "candidate_verified",
  candidate_verified |-> "commit_requested"]

\* Fault: the snapshot is restored before the candidate is stopped.
RollbackNextRestoresFirst == [
  rollback_started           |-> "candidate_removed",
  candidate_stopped          |-> "candidate_evidence_removed",
  candidate_removed          |-> "candidate_stopped",
  snapshot_restored          |-> "candidate_stopped",
  candidate_evidence_removed |-> "old_name_restored",
  old_name_restored          |-> "old_policy_restored",
  old_policy_restored        |-> "old_started",
  old_started                |-> "old_verified",
  old_verified               |-> "rollback_published"]

RollbackNext == [
  rollback_started           |-> "candidate_stopped",
  candidate_stopped          |-> "candidate_removed",
  candidate_removed          |-> "snapshot_restored",
  snapshot_restored          |-> "candidate_evidence_removed",
  candidate_evidence_removed |-> "old_name_restored",
  old_name_restored          |-> "old_policy_restored",
  old_policy_restored        |-> "old_started",
  old_started                |-> "old_verified",
  old_verified               |-> "rollback_published"]

ForwardCheckpoints == DOMAIN ForwardNext \cup {"commit_requested"}
RollbackCheckpoints == DOMAIN RollbackNext \cup {"rollback_published"}

JournalStatuses == {"none", "snapshotting", "switching", "verifying",
  "commit_requested", "success", "rolling_back", "rolled_back", "rollback_failed"}
TerminalJournal == {"success", "rolled_back", "rollback_failed"}

UpdaterTransitions == [s \in JournalStatuses |->
  CASE s = "none"             -> {"snapshotting"}
    [] s = "snapshotting"     -> {"snapshotting", "switching", "rolling_back"}
    [] s = "switching"        -> {"switching", "verifying", "rolling_back"}
    [] s = "verifying"        -> {"verifying", "commit_requested", "rolling_back"}
    [] s = "commit_requested" -> {"success"}
    [] s = "rolling_back"     -> {"rolling_back", "rolled_back", "rollback_failed"}
    [] s \in TerminalJournal  -> {}]

\* The status a forward checkpoint is written with.
StatusAt(checkpoint) ==
  CASE checkpoint \in {"old_renamed", "candidate_created", "candidate_started"}
         -> "switching"
    [] checkpoint = "candidate_verified" -> "verifying"
    [] checkpoint = "commit_requested"   -> "commit_requested"
    [] OTHER                             -> "snapshotting"

(***************************************************************************)
(* The update operation's row.  Its active_slot is released exactly when   *)
(* the status becomes terminal.                                            *)
(***************************************************************************)
ForwardOrder == {"handoff", "snapshotting", "switching", "verifying"}
Position == [handoff |-> 1, snapshotting |-> 2, switching |-> 3, verifying |-> 4]
TerminalOperation == {"success", "rolled_back", "failed"}
OperationStatuses == ForwardOrder \cup {"draining", "rolling_back"}
                                  \cup TerminalOperation

Database == [status : OperationStatuses, schema : {"old", "new"}]
NoSnapshot == [status |-> "none", schema |-> "none"]

VARIABLES
  (* The /data volume *)
  db,            \* mediasync.db: the operation's status and the schema revision
  journal,       \* <operation>.json, status "none" while it does not exist
  handoff,       \* <operation>.handoff.json exists
  marker,        \* pending.json exists
  evidence,      \* <operation>.candidate.json: "none", "fresh" or, written by
                 \* an earlier start of the candidate, "stale"
  snapshot,      \* backups/updates/<operation>: the database it holds
  (* The Docker daemon *)
  life,          \* the state of each Appliance's container
  sourceName,    \* the source's name: the business name, "main", or "previous"
  sourcePolicy,  \* its restart policy
  (* Processes *)
  helper,        \* of each helper: where it is, and whether the effect that
                 \* leads to the next checkpoint was confirmed
  installer,     \* the install request in the source's API process
  cached,        \* Appliances whose observer holds the handoff in memory
  (* Environment *)
  release,       \* whether the new release is able to boot
  disruptions

volume == <<db, journal, handoff, marker, evidence, snapshot>>
docker == <<life, sourceName, sourcePolicy>>
vars == <<volume, docker, helper, installer, cached, release, disruptions>>

Init ==
  /\ db = [status |-> "draining", schema |-> "old"]
  /\ journal = [status |-> "none", checkpoint |-> "initialized",
                generation |-> 0, owner |-> NoHelper]
  /\ handoff = FALSE
  /\ marker = FALSE
  /\ evidence = "none"
  /\ snapshot = NoSnapshot
  /\ life = [source |-> "serving", candidate |-> "missing"]
  /\ sourceName = "main"
  /\ sourcePolicy = OriginalPolicy
  /\ helper = [h \in Helpers |-> [pc |-> "absent", did |-> FALSE]]
  /\ installer = "drained"
  /\ cached = {}
  /\ release \in {"good", "bad"}
  /\ disruptions = 0

Disrupt == /\ disruptions < MaxDisruptions
           /\ disruptions' = disruptions + 1

(***************************************************************************)
(* Containers.                                                             *)
(***************************************************************************)
Running(a) == life[a] \in Live
Policy(a) == IF a = "source" THEN sourcePolicy ELSE OriginalPolicy

\* The processes in the containers A die: with the source the install request,
\* with each Appliance its memory, and the evidence no longer is of this start.
ProcessesDie(A) ==
  /\ installer' = IF "source" \in A /\ installer # "done" THEN "lost" ELSE installer
  /\ cached' = cached \ A
  /\ evidence' = IF "candidate" \in A /\ evidence = "fresh" THEN "stale" ELSE evidence

Keep == UNCHANGED <<installer, cached, evidence>>

Stop(a) ==
  IF Running(a) THEN /\ life' = [life EXCEPT ![a] = "stopped"]
                     /\ ProcessesDie({a})
                ELSE UNCHANGED life /\ Keep

StartIfStopped(a) ==
  /\ life' = [life EXCEPT ![a] = IF Running(a) THEN @ ELSE "booting"]
  /\ Keep

(***************************************************************************)
(* The installer, in the API process of the source.                        *)
(***************************************************************************)
\* UpdaterHandoffService.prepare: handoff.json, then the helper's container.
InstallPrepare(h) ==
  /\ installer = "drained"
  /\ helper[h].pc = "absent"
  /\ handoff' = TRUE
  /\ helper' = [helper EXCEPT ![h].pc = "created"]
  /\ installer' = "prepared"
  /\ UNCHANGED <<db, journal, marker, evidence, snapshot, docker, cached, release,
                 disruptions>>

InstallHandoff ==
  /\ installer = "prepared"
  /\ db' = [db EXCEPT !.status = "handoff"]
  /\ installer' = "starting"
  /\ UNCHANGED <<journal, handoff, marker, evidence, snapshot, docker, helper,
                 cached, release, disruptions>>

InstallStart(h) ==
  /\ installer = "starting"
  /\ helper[h].pc = "created"
  /\ helper' = [helper EXCEPT ![h].pc = "idle"]
  /\ installer' = "done"
  /\ UNCHANGED <<volume, docker, cached, release, disruptions>>

\* A step of the installer raises.  The start request may have taken effect
\* although its answer never came.
InstallRaises(h) ==
  /\ Disrupt
  /\ \/ /\ installer = "drained"
        /\ UNCHANGED helper
     \/ /\ installer \in {"prepared", "starting"}
        /\ UNCHANGED helper
     \/ /\ StartMayTimeOut
        /\ installer = "starting"
        /\ helper[h].pc = "created"
        /\ helper' = [helper EXCEPT ![h].pc = "idle"]
  /\ installer' = "failing"
  /\ UNCHANGED <<volume, docker, cached, release>>

\* The installer's exception handler: remove the helper (Docker refuses to
\* remove a running one), unlink the handoff, finish the operation as failed.
InstallCleanup ==
  /\ installer = "failing"
  /\ helper' = [h \in Helpers |->
                  IF helper[h].pc = "created" THEN [helper[h] EXCEPT !.pc = "removed"]
                                              ELSE helper[h]]
  /\ handoff' = FALSE
  /\ db' = IF db.status \in {"draining", "handoff"}
             THEN [db EXCEPT !.status = "failed"] ELSE db
  /\ installer' = "done"
  /\ UNCHANGED <<journal, marker, evidence, snapshot, docker, cached, release,
                 disruptions>>

\* An administrator starts a further helper for the operation.
StartReplacementHelper(h) ==
  /\ installer \in {"done", "lost"}
  /\ handoff
  /\ helper[h].pc = "absent"
  /\ helper' = [helper EXCEPT ![h].pc = "idle"]
  /\ UNCHANGED <<volume, docker, installer, cached, release, disruptions>>

(***************************************************************************)
(* The helper: the coordinator.                                            *)
(*                                                                         *)
(* A helper in "idle" has no lock and nothing in memory: it has just been  *)
(* started, by Docker again after an exception or a crash, or it sleeps    *)
(* between two attempts.                                                   *)
(***************************************************************************)
Outside == {"absent", "created", "idle", "completed", "manual", "removed"}
Holds(h) == helper[h].pc \notin Outside
LockFree(h) == \A g \in Helpers \ {h} : ~Holds(g)

Goto(h, pc) == helper' = [helper EXCEPT ![h] = [pc |-> pc, did |-> FALSE]]

\* source_identity_matches: the names the source may bear at a checkpoint.
ExpectedNames(checkpoint) ==
  CASE checkpoint \in {"old_renamed", "candidate_created", "candidate_started",
                       "candidate_verified", "commit_requested"} -> {"previous"}
    [] checkpoint \in {"rollback_started", "candidate_stopped", "candidate_removed",
                       "snapshot_restored", "candidate_evidence_removed"}
                       -> {"main", "previous"}
    [] OTHER -> {"main"}

SourceObserved ==
  IF life["source"] = "removed" THEN "missing"
  ELSE IF sourceName \in ExpectedNames(journal.checkpoint) THEN "matched"
  ELSE "conflict"

CandidateExists == life["candidate"] # "missing"

\* decide_recovery, for the journal of an operation that has not ended.
Decision ==
  CASE SourceObserved = "conflict" -> "giving_up"
    [] journal.status = "commit_requested" ->
         IF CandidateExists THEN "to_forward" ELSE "giving_up"
    [] SourceObserved = "missing" -> "giving_up"
    [] journal.status \in {"switching", "verifying", "rolling_back"} -> "to_rollback"
    [] OTHER -> IF Running("source") THEN "to_forward" ELSE "to_rollback"

MustTakeOver(h) == journal.owner # h
Exhausted(h) == MustTakeOver(h) /\ journal.generation >= MaxGeneration

\* Without a handoff read_handoff raises: the helper exits with an error, Docker
\* starts it again, and nothing else happens.
MayCoordinate(h) == helper[h].pc = "idle" /\ LockFree(h) /\ handoff

CoordinateEnded(h) ==
  /\ MayCoordinate(h)
  /\ \/ journal.status \in {"none", "success"} /\ Goto(h, "to_forward")
     \/ journal.status \in {"rolled_back", "rollback_failed"} /\ Goto(h, "finishing")
  /\ UNCHANGED <<volume, docker, installer, cached, release, disruptions>>

CoordinateRecovery(h) ==
  /\ MayCoordinate(h)
  /\ journal.status \notin {"none"} \cup TerminalJournal
  /\ ~Exhausted(h)
  /\ journal' = IF MustTakeOver(h)
                  THEN [journal EXCEPT !.owner = h, !.generation = @ + 1] ELSE journal
  /\ Goto(h, Decision)
  /\ IF journal.status = "commit_requested" /\ Decision = "to_forward"
       THEN StartIfStopped("candidate")
       ELSE UNCHANGED life /\ Keep
  /\ UNCHANGED <<db, handoff, marker, snapshot, sourceName, sourcePolicy, release,
                 disruptions>>

\* _mark_recovery_exhausted, then manual recovery.
CoordinateExhausted(h) ==
  /\ MayCoordinate(h)
  /\ journal.status \notin {"none"} \cup TerminalJournal
  /\ Exhausted(h)
  /\ IF journal.status = "commit_requested"
       THEN UNCHANGED <<journal, marker>>
       ELSE /\ marker' = (marker \/ journal.status # "rolling_back")
            /\ journal' = [journal EXCEPT
                 !.status = "rollback_failed",
                 !.checkpoint = IF journal.status = "rolling_back" THEN @
                                                          ELSE "rollback_started"]
  /\ Goto(h, "giving_up")
  /\ UNCHANGED <<db, handoff, evidence, snapshot, docker, installer, cached, release,
                 disruptions>>

\* The restart policy becomes "no" and the process exits.
Disarm(h) ==
  /\ \/ helper[h].pc = "finishing" /\ Goto(h, "completed")
     \/ helper[h].pc = "giving_up" /\ Goto(h, "manual")
  /\ UNCHANGED <<volume, docker, installer, cached, release, disruptions>>

\* The process dies, a Docker call of it fails, or its policy cannot be changed.
HelperFails(h) ==
  /\ Holds(h)
  /\ Disrupt
  /\ Goto(h, "idle")
  /\ UNCHANGED <<volume, docker, installer, cached, release>>

(***************************************************************************)
(* The helper: the forward path.                                           *)
(***************************************************************************)
EnterForward(h) ==
  /\ helper[h].pc = "to_forward"
  /\ IF ~handoff \/ (journal.status # "none" /\ MustTakeOver(h))
       THEN UNCHANGED journal /\ Goto(h, "idle")
       ELSE /\ journal' = IF journal.status = "none"
                            THEN [journal EXCEPT !.status = "snapshotting", !.owner = h]
                            ELSE journal
            /\ Goto(h, "forward")
  /\ UNCHANGED <<db, handoff, marker, evidence, snapshot, docker, installer, cached,
                 release, disruptions>>

At(h, pc, checkpoint) ==
  /\ helper[h].pc = pc
  /\ ~helper[h].did
  /\ journal.checkpoint = checkpoint

Confirm(h) == helper' = [helper EXCEPT ![h].did = TRUE]

\* Fault: only one of the policies is taken for a restart policy.
FenceOldRestartUnlessStopped(h) ==
  /\ At(h, "forward", "initialized")
  /\ sourceName = "main"
  /\ sourcePolicy' = IF sourcePolicy = "unless-stopped" THEN "no" ELSE sourcePolicy
  /\ Confirm(h)
  /\ UNCHANGED <<volume, life, sourceName, installer, cached, release, disruptions>>

FenceOldRestart(h) ==
  /\ At(h, "forward", "initialized")
  /\ sourceName = "main"
  /\ sourcePolicy' = "no"
  /\ Confirm(h)
  /\ UNCHANGED <<volume, life, sourceName, installer, cached, release, disruptions>>

StopOld(h) ==
  /\ At(h, "forward", "old_restart_fenced")
  /\ sourceName = "main"
  /\ Stop("source")
  /\ Confirm(h)
  /\ UNCHANGED <<db, journal, handoff, marker, snapshot, sourceName, sourcePolicy,
                 release, disruptions>>

PrepareCandidate(h) ==
  /\ At(h, "forward", "old_stopped")
  /\ marker' = TRUE
  /\ Confirm(h)
  /\ UNCHANGED <<db, journal, handoff, evidence, snapshot, docker, installer, cached,
                 release, disruptions>>

\* Without a handoff no snapshot can be created, and the helper raises.
EnsureSnapshot(h) ==
  /\ At(h, "forward", "pending_ready")
  /\ IF snapshot = NoSnapshot
       THEN IF handoff THEN snapshot' = db /\ Confirm(h)
                       ELSE UNCHANGED snapshot /\ Goto(h, "idle")
       ELSE UNCHANGED snapshot /\ Confirm(h)
  /\ UNCHANGED <<db, journal, handoff, marker, evidence, docker, installer, cached,
                 release, disruptions>>

RenameOld(h) ==
  /\ At(h, "forward", "snapshot_verified")
  /\ sourceName' = "previous"
  /\ Confirm(h)
  /\ UNCHANGED <<volume, life, sourcePolicy, installer, cached, release, disruptions>>

EnsureCandidate(h) ==
  /\ At(h, "forward", "old_renamed")
  /\ life' = [life EXCEPT !["candidate"] = IF CandidateExists THEN @ ELSE "created"]
  /\ Confirm(h)
  /\ UNCHANGED <<volume, sourceName, sourcePolicy, installer, cached, release,
                 disruptions>>

StartCandidate(h) ==
  /\ At(h, "forward", "candidate_created")
  /\ CandidateExists
  /\ StartIfStopped("candidate")
  /\ Confirm(h)
  /\ UNCHANGED <<db, journal, handoff, marker, snapshot, sourceName, sourcePolicy,
                 release, disruptions>>

\* The candidate stays healthy, with evidence of this start, for 30 seconds, or
\* the verifier raises: unhealthy, exited, restarted, or out of time.
VerifyCandidate(h) ==
  /\ At(h, "forward", "candidate_started")
  /\ journal.status = "verifying"
  /\ \/ life["candidate"] = "serving" /\ evidence = "fresh" /\ Confirm(h)
     \/ Goto(h, "idle")
  /\ UNCHANGED <<volume, docker, installer, cached, release, disruptions>>

CommitConfirmed ==
  /\ db.status = "success"
  /\ ~handoff /\ ~marker /\ evidence = "none"

\* Fault: the runtime files are not waited for.
AwaitCommitDatabaseOnly(h) ==
  /\ At(h, "forward", "commit_requested")
  /\ journal.status = "commit_requested"
  /\ IF db.status = "success" THEN Confirm(h) ELSE Goto(h, "idle")
  /\ UNCHANGED <<volume, docker, installer, cached, release, disruptions>>

\* The Appliance has committed and cleaned up, or 300 seconds have passed.
AwaitCommit(h) ==
  /\ At(h, "forward", "commit_requested")
  /\ journal.status = "commit_requested"
  /\ IF CommitConfirmed THEN Confirm(h) ELSE Goto(h, "idle")
  /\ UNCHANGED <<volume, docker, installer, cached, release, disruptions>>

NoForwardEffect ==
  \/ journal.checkpoint = "candidate_verified"
  \/ journal.checkpoint = "candidate_started" /\ journal.status = "switching"

ForwardTarget ==
  CASE journal.checkpoint = "candidate_started" /\ journal.status = "switching"
         -> [journal EXCEPT !.status = "verifying"]
    [] journal.checkpoint = "commit_requested"
         -> [journal EXCEPT !.status = "success"]
    [] OTHER
         -> LET next == ForwardNext[journal.checkpoint]
            IN  [journal EXCEPT !.checkpoint = next, !.status = StatusAt(next)]

CheckpointForward(h) ==
  /\ helper[h].pc = "forward"
  /\ journal.status # "success"
  /\ helper[h].did \/ NoForwardEffect
  /\ ForwardTarget.status \in UpdaterTransitions[journal.status]
  /\ journal' = ForwardTarget
  /\ Goto(h, "forward")
  /\ UNCHANGED <<db, handoff, marker, evidence, snapshot, docker, installer, cached,
                 release, disruptions>>

\* Docker refuses to remove a running container.
CleanupOld(h) ==
  /\ helper[h].pc = "forward"
  /\ journal.status = "success"
  /\ SourceObserved # "conflict"
  /\ ~Running("source")
  /\ life' = [life EXCEPT !["source"] = "removed"]
  /\ Goto(h, "finishing")
  /\ UNCHANGED <<volume, sourceName, sourcePolicy, installer, cached, release,
                 disruptions>>

(***************************************************************************)
(* The helper: the rollback path.                                          *)
(***************************************************************************)
\* An UpdaterStateMachineError during a rollback: rollback_failed is recorded
\* and the helper exits with an error.
RollbackFailed(h) ==
  /\ journal' = IF journal.status = "rolling_back"
                  THEN [journal EXCEPT !.status = "rollback_failed"] ELSE journal
  /\ Goto(h, "idle")

\* Fault: a rollback cannot begin while switching.
MayStartRollbackBeforeSwitch ==
  /\ journal.status \in {"snapshotting", "verifying"}
  /\ SourceObserved = "matched"
  /\ ~Running("source")

MayStartRollback ==
  /\ journal.status \in {"snapshotting", "switching", "verifying"}
  /\ SourceObserved = "matched"
  /\ ~Running("source")

EnterRollback(h) ==
  /\ helper[h].pc = "to_rollback"
  /\ IF ~handoff \/ MustTakeOver(h)
       THEN UNCHANGED <<journal, marker>> /\ Goto(h, "idle")
       ELSE /\ marker' = TRUE
            /\ IF journal.status = "rolling_back"
                 THEN UNCHANGED journal /\ Goto(h, "rollback")
               ELSE IF MayStartRollback
                 THEN /\ journal' = [journal EXCEPT !.status = "rolling_back",
                                                    !.checkpoint = "rollback_started"]
                      /\ Goto(h, "rollback")
               ELSE RollbackFailed(h)
  /\ UNCHANGED <<db, handoff, evidence, snapshot, docker, installer, cached, release,
                 disruptions>>

StopCandidate(h) ==
  /\ At(h, "rollback", "rollback_started")
  /\ Stop("candidate")
  /\ Confirm(h)
  /\ UNCHANGED <<db, journal, handoff, marker, snapshot, sourceName, sourcePolicy,
                 release, disruptions>>

RemoveCandidate(h) ==
  /\ At(h, "rollback", "candidate_stopped")
  /\ IF Running("candidate")
       THEN RollbackFailed(h) /\ UNCHANGED life
       ELSE /\ life' = [life EXCEPT !["candidate"] = "missing"]
            /\ Confirm(h)
            /\ UNCHANGED journal
  /\ UNCHANGED <<db, handoff, marker, evidence, snapshot, sourceName, sourcePolicy,
                 installer, cached, release, disruptions>>

RestoreSnapshot(h) ==
  /\ At(h, "rollback", "candidate_removed")
  /\ db' = IF snapshot = NoSnapshot THEN db ELSE snapshot
  /\ Confirm(h)
  /\ UNCHANGED <<journal, handoff, marker, evidence, snapshot, docker, installer,
                 cached, release, disruptions>>

RemoveCandidateEvidence(h) ==
  /\ At(h, "rollback", "snapshot_restored")
  /\ evidence' = "none"
  /\ Confirm(h)
  /\ UNCHANGED <<db, journal, handoff, marker, snapshot, docker, installer, cached,
                 release, disruptions>>

RestoreOldName(h) ==
  /\ At(h, "rollback", "candidate_evidence_removed")
  /\ sourceName' = "main"
  /\ Confirm(h)
  /\ UNCHANGED <<volume, life, sourcePolicy, installer, cached, release, disruptions>>

RestoreOldPolicy(h) ==
  /\ At(h, "rollback", "old_name_restored")
  /\ sourcePolicy' = OriginalPolicy
  /\ Confirm(h)
  /\ UNCHANGED <<volume, life, sourceName, installer, cached, release, disruptions>>

StartOld(h) ==
  /\ At(h, "rollback", "old_policy_restored")
  /\ StartIfStopped("source")
  /\ Confirm(h)
  /\ UNCHANGED <<db, journal, handoff, marker, snapshot, sourceName, sourcePolicy,
                 release, disruptions>>

\* Healthy for 30 seconds, or not within 180.
VerifyOld(h) ==
  /\ At(h, "rollback", "old_started")
  /\ IF life["source"] = "serving" THEN Confirm(h) /\ UNCHANGED journal
                                   ELSE RollbackFailed(h)
  /\ UNCHANGED <<db, handoff, marker, evidence, snapshot, docker, installer, cached,
                 release, disruptions>>

NoRollbackEffect == journal.checkpoint \in {"old_verified", "rollback_published"}

RollbackTarget ==
  IF journal.checkpoint = "rollback_published"
    THEN [journal EXCEPT !.status = "rolled_back"]
    ELSE [journal EXCEPT !.checkpoint = RollbackNext[@]]

CheckpointRollback(h) ==
  /\ helper[h].pc = "rollback"
  /\ helper[h].did \/ NoRollbackEffect
  /\ RollbackTarget.status \in UpdaterTransitions[journal.status]
  /\ journal' = RollbackTarget
  /\ Goto(h, IF RollbackTarget.status = "rolled_back" THEN "finishing" ELSE "rollback")
  /\ UNCHANGED <<db, handoff, marker, evidence, snapshot, docker, installer, cached,
                 release, disruptions>>

(***************************************************************************)
(* The Appliance: reconciliation of the database with the journal.         *)
(***************************************************************************)
SyncTarget == [snapshotting     |-> "snapshotting",
               switching        |-> "switching",
               verifying        |-> "verifying",
               commit_requested |-> "verifying",
               rolling_back     |-> "rolling_back"]

\* _synchronize_active_progress: the status the operation is brought to.
Synchronized ==
  LET current == db.status
      target  == SyncTarget[journal.status]
  IN  IF journal.status \notin DOMAIN SyncTarget THEN current
      ELSE IF target = current THEN current
      ELSE IF current \notin ForwardOrder THEN "error"
      ELSE IF target = "rolling_back" THEN "rolling_back"
      ELSE IF Position[target] < Position[current] THEN "error"
      ELSE target

\* Fault: a verified candidate is committed without a commit request.
ReconciledOnEvidence(allowCommit) ==
  IF ~marker \/ journal.status = "none" \/ db.status \in TerminalOperation
       \/ Synchronized = "error" THEN db.status
  ELSE IF journal.status = "rolled_back" THEN "rolled_back"
  ELSE IF Synchronized = "verifying" /\ allowCommit /\ evidence # "none" THEN "success"
  ELSE Synchronized

\* UpdateTerminalReconciler.reconcile, up to the commit of its transaction.
\* allowCommit distinguishes the running Appliance from the startup barrier.
Reconciled(allowCommit) ==
  IF ~marker \/ journal.status = "none" THEN db.status
  ELSE IF db.status \in TerminalOperation THEN
    CASE db.status = "success" /\ journal.status \in {"commit_requested", "success"}
           -> "success"
      [] db.status = "rolled_back" /\ journal.status = "rolled_back" -> "rolled_back"
      [] OTHER -> "error"
  ELSE
    CASE Synchronized = "error" -> "error"
      [] journal.status = "success" -> "error"
      [] journal.status = "commit_requested" ->
           IF allowCommit /\ evidence # "none" THEN "success" ELSE Synchronized
      [] journal.status = "rolled_back" ->
           IF db.status \in ForwardOrder \cup {"rolling_back"} THEN "rolled_back"
                                                               ELSE "error"
      [] OTHER -> Synchronized

\* Fault: an interrupted cleanup is resumed after a success only.
MayCleanUpSuccess == marker /\ db.status = "success"

MayCleanUp == marker /\ db.status \in {"success", "rolled_back"}

(***************************************************************************)
(* The Appliance: the launcher.                                            *)
(***************************************************************************)
\* The startup barriers: migrate, then reconcile (which, once the operation has
\* ended, also removes the runtime files).  The source's migration
\* fails on a database of the new release; a bad release fails after migrating.
RunBarriers(a) ==
  /\ life[a] = "booting"
  /\ LET schema  == IF a = "candidate" THEN "new" ELSE db.schema
         fails   == \/ a = "source" /\ db.schema = "new"
                    \/ a = "candidate" /\ release = "bad"
                    \/ Reconciled(FALSE) = "error"
         ended   == marker /\ Reconciled(FALSE) \in {"success", "rolled_back"}
     IN  IF fails
           THEN /\ db' = [db EXCEPT !.schema = schema]
                /\ life' = [life EXCEPT ![a] = "exited"]
                /\ UNCHANGED <<handoff, marker, evidence>>
           ELSE /\ db' = [status |-> Reconciled(FALSE), schema |-> schema]
                /\ life' = [life EXCEPT ![a] = "starting"]
                /\ handoff' = (handoff /\ ~ended)
                /\ marker' = (marker /\ ~ended)
                /\ evidence' = IF ended THEN "none" ELSE evidence
  /\ UNCHANGED <<journal, snapshot, sourceName, sourcePolicy, helper, installer, cached,
                 release, disruptions>>

\* The API answers, the other components are started, supervision begins.
Serve(a) ==
  /\ life[a] = "starting"
  /\ life' = [life EXCEPT ![a] = "serving"]
  /\ UNCHANGED <<volume, sourceName, sourcePolicy, helper, installer, cached, release,
                 disruptions>>

\* CandidateEvidenceService: written once by each start of the candidate.
WriteEvidence ==
  /\ life["candidate"] = "serving"
  /\ marker
  /\ db.status = "verifying"
  /\ evidence # "fresh"
  /\ evidence' = "fresh"
  /\ UNCHANGED <<db, journal, handoff, marker, snapshot, docker, helper, installer,
                 cached, release, disruptions>>

\* ExitedUpdaterCleanupObserver: the handoff is read while the marker names it,
\* and kept, because it is gone when the helper has exited.
CacheHandoff(a) ==
  /\ life[a] = "serving"
  /\ marker /\ handoff
  /\ cached' = cached \cup {a}
  /\ UNCHANGED <<volume, docker, helper, installer, release, disruptions>>

RemoveExitedHelper(a, h) ==
  /\ life[a] = "serving"
  /\ a \in cached
  /\ helper[h].pc \in {"completed", "manual"}
  /\ helper' = [helper EXCEPT ![h].pc = "removed"]
  /\ cached' = cached \ {a}
  /\ UNCHANGED <<volume, docker, installer, release, disruptions>>

\* One pass of the supervision loop looks for exited helpers before it reconciles.
Supervises(a) ==
  /\ life[a] = "serving"
  /\ marker
  /\ handoff => a \in cached

ReconcileActive(a) ==
  /\ Supervises(a)
  /\ db.status \notin TerminalOperation
  /\ Reconciled(TRUE) \notin {"error", db.status}
  /\ db' = [db EXCEPT !.status = Reconciled(TRUE)]
  /\ UNCHANGED <<journal, handoff, marker, evidence, snapshot, docker, helper,
                 installer, cached, release, disruptions>>

\* _cleanup: candidate.json, then handoff.json, then pending.json.
CleanUp(a) ==
  /\ Supervises(a)
  /\ MayCleanUp
  /\ Reconciled(TRUE) # "error"
  /\ \/ evidence # "none" /\ evidence' = "none" /\ UNCHANGED <<handoff, marker>>
     \/ evidence = "none" /\ handoff /\ handoff' = FALSE /\ UNCHANGED <<evidence, marker>>
     \/ evidence = "none" /\ ~handoff /\ marker' = FALSE /\ UNCHANGED <<evidence, handoff>>
  /\ UNCHANGED <<db, journal, snapshot, docker, helper, installer, cached, release,
                 disruptions>>

(***************************************************************************)
(* The Docker daemon.                                                      *)
(***************************************************************************)
\* A container whose process exited by itself is started again by its policy.
DockerRestart(a) ==
  /\ life[a] = "exited"
  /\ Policy(a) # "no"
  /\ life' = [life EXCEPT ![a] = "booting"]
  /\ UNCHANGED <<volume, sourceName, sourcePolicy, helper, installer, cached, release,
                 disruptions>>

ApplianceCrash(a) ==
  /\ Running(a)
  /\ Disrupt
  /\ life' = [life EXCEPT ![a] = "exited"]
  /\ ProcessesDie({a})
  /\ UNCHANGED <<db, journal, handoff, marker, snapshot, sourceName, sourcePolicy,
                 helper, release>>

\* The daemon, or the NAS, restarts.  What ran comes back by its policy; what
\* was stopped on request only under "always".
AfterDaemonRestart(a) ==
  IF life[a] \in Live \cup {"exited"}
    THEN IF Policy(a) = "no" THEN "exited" ELSE "booting"
  ELSE IF life[a] = "stopped" /\ Policy(a) = "always" THEN "booting"
  ELSE life[a]

DaemonRestart ==
  /\ Disrupt
  /\ life' = [a \in Appliances |-> AfterDaemonRestart(a)]
  /\ ProcessesDie(Appliances)
  /\ helper' = [h \in Helpers |->
                  IF Holds(h) THEN [pc |-> "idle", did |-> FALSE] ELSE helper[h]]
  /\ UNCHANGED <<db, journal, handoff, marker, snapshot, sourceName, sourcePolicy,
                 release>>

(***************************************************************************)
(* The specification.                                                      *)
(***************************************************************************)
InstallStep(h) == InstallPrepare(h) \/ InstallHandoff \/ InstallStart(h) \/ InstallCleanup

ForwardStep(h) ==
  \/ EnterForward(h) \/ FenceOldRestart(h) \/ StopOld(h) \/ PrepareCandidate(h)
  \/ EnsureSnapshot(h) \/ RenameOld(h) \/ EnsureCandidate(h) \/ StartCandidate(h)
  \/ VerifyCandidate(h) \/ AwaitCommit(h) \/ CheckpointForward(h) \/ CleanupOld(h)

RollbackStep(h) ==
  \/ EnterRollback(h) \/ StopCandidate(h) \/ RemoveCandidate(h) \/ RestoreSnapshot(h)
  \/ RemoveCandidateEvidence(h) \/ RestoreOldName(h) \/ RestoreOldPolicy(h)
  \/ StartOld(h) \/ VerifyOld(h) \/ CheckpointRollback(h)

HelperStep(h) ==
  \/ CoordinateEnded(h) \/ CoordinateRecovery(h) \/ CoordinateExhausted(h) \/ Disarm(h)
  \/ ForwardStep(h) \/ RollbackStep(h)

LauncherStep(a) ==
  \/ RunBarriers(a) \/ Serve(a) \/ CacheHandoff(a) \/ ReconcileActive(a) \/ CleanUp(a)
  \/ DockerRestart(a)

Next ==
  \/ \E h \in Helpers : \/ InstallStep(h) \/ InstallRaises(h) \/ StartReplacementHelper(h)
                        \/ HelperStep(h) \/ HelperFails(h)
  \/ \E a \in Appliances : \/ LauncherStep(a) \/ ApplianceCrash(a)
                           \/ \E h \in Helpers : RemoveExitedHelper(a, h)
  \/ WriteEvidence
  \/ DaemonRestart

Spec == Init /\ [][Next]_vars

\* Running processes make steps, and Docker restarts what its policy says; nothing
\* makes a step fail, a process crash or an administrator act.
FairSpec ==
  /\ Spec
  /\ \A h \in Helpers : WF_vars(InstallStep(h)) /\ WF_vars(HelperStep(h))
  /\ \A a \in Appliances : WF_vars(LauncherStep(a))
  /\ \A a \in Appliances, h \in Helpers : WF_vars(RemoveExitedHelper(a, h))
  /\ WF_vars(WriteEvidence)

(***************************************************************************)
(* Properties.                                                             *)
(***************************************************************************)
PCs == Outside \cup {"to_forward", "forward", "to_rollback", "rollback",
                     "finishing", "giving_up"}

\* Every variable stays in its range; the recovery generation within its limit.
TypeOK ==
  /\ db \in Database
  /\ journal \in [status : JournalStatuses,
                  checkpoint : ForwardCheckpoints \cup RollbackCheckpoints,
                  generation : 0..MaxGeneration, owner : Helpers \cup {NoHelper}]
  /\ handoff \in BOOLEAN /\ marker \in BOOLEAN
  /\ evidence \in {"none", "fresh", "stale"}
  /\ snapshot \in Database \cup {NoSnapshot}
  /\ life \in [Appliances -> Lives]
  /\ sourceName \in {"main", "previous"}
  /\ sourcePolicy \in {"no", OriginalPolicy}
  /\ helper \in [Helpers -> [pc : PCs, did : BOOLEAN]]
  /\ installer \in {"drained", "prepared", "starting", "failing", "done", "lost"}
  /\ cached \subseteq Appliances
  /\ release \in {"good", "bad"}
  /\ disruptions \in 0..MaxDisruptions

\* ADR-0006: the old and the new container never run together, whatever the
\* daemon restarts and wherever the helper was interrupted.
OneApplianceRuns == ~(Running("source") /\ Running("candidate"))

\* No Appliance serves from a database of the other release.
ServesItsSchema ==
  /\ life["source"] = "serving" => db.schema = "old"
  /\ life["candidate"] = "serving" => db.schema = "new"

\* The journal records "success" only of an operation the Appliance committed and
\* whose marker, evidence and handoff it removed (ADR-0006).
SuccessIsConfirmed == journal.status = "success" => CommitConfirmed

\* UpdateExecutionGate: Workers claim and the Scheduler enqueues only when open.
GateOpen == ~marker /\ db.status \notin ForwardOrder \cup {"draining", "rolling_back"}

\* Work is accepted only when no snapshot can overwrite it any more: not before
\* the helper has decided, and not before the database has recorded how.
GateOpensWhenDecided ==
  GateOpen /\ (\E a \in Appliances : life[a] = "serving")
    => /\ journal.status \in {"none", "commit_requested", "success", "rolled_back"}
       /\ db.status = "failed" => \A h \in Helpers : ~Holds(h)

\* Whatever the daemon restarts: one Appliance, on a database of its release, and
\* no work that a snapshot may still overwrite.
AppliancesAreSafe ==
  /\ TypeOK
  /\ OneApplianceRuns
  /\ ServesItsSchema
  /\ GateOpensWhenDecided

\* ADR-0006: a commit request cannot be rolled back.  From then on the snapshot is
\* not restored, the old container does not run, the candidate is not removed.
CommitIsFinal ==
  [][journal.status \in {"commit_requested", "success"} =>
       /\ db'.schema = "new"
       /\ ~Running("source")'
       /\ CandidateExists'
       /\ journal'.status \in {"commit_requested", "success"}]_vars

\* The database is overwritten with the snapshot only while no container runs.
RestoredAtRest ==
  [][db.schema = "new" /\ db'.schema = "old" =>
       \A a \in Appliances : ~Running(a)]_vars

\* The snapshot is restored at rest, and never after the commit request.
SnapshotIsSafe == CommitIsFinal /\ RestoredAtRest

\* What of the state UpdateAgreement speaks of: the updater's decision, the outcome
\* that the database records and the release that serves.
Decided ==
  CASE journal.status \in {"commit_requested", "success"} -> "commit"
    [] journal.status \in {"rolling_back", "rolled_back", "rollback_failed"} -> "abort"
    [] OTHER -> "undecided"
Recorded == IF db.status \in TerminalOperation THEN db.status ELSE "open"
Serving == IF life["source"] = "serving" THEN "old"
           ELSE IF life["candidate"] = "serving" THEN "new" ELSE "none"

\* The three agree as UpdateAgreement promises.
Agreement == INSTANCE UpdateAgreement
  WITH decision <- Decided, outcome <- Recorded, serving <- Serving
KeepsAgreement == Agreement!Spec

\* People are asked for: automatic recovery stopped on purpose.
ManualRecovery ==
  \/ journal.status = "rollback_failed"
  \/ \E h \in Helpers : helper[h].pc = "manual"

\* Once a helper has begun, the database records an outcome, or recovery is
\* handed to people; no crash leaves the operation open for ever.
OperationSettles ==
  journal.status # "none" ~> (db.status \in TerminalOperation \/ ManualRecovery)

\* An Appliance serves again after every interruption, or people are asked for.
ApplianceServesAgain ==
  []<>((\E a \in Appliances : life[a] = "serving") \/ ManualRecovery)

\* After any number of crashes an update is over, and an Appliance serves.
UpdateSettles == OperationSettles /\ ApplianceServesAgain

\* When the database has recorded the outcome the gate opens: the marker is
\* removed even if a cleanup was cut short.
GateReopens == db.status \in TerminalOperation ~> GateOpen

\* docs/architecture/docker-socket-one-click-update.md:405-407: a restarted updater
\* reads the database first; what is committed converges to SUCCESS and the old
\* container is removed.
CommittedConverges ==
  db.status = "success" ~> (journal.status = "success" /\ life["source"] = "removed")

\* updater-recovery-coordinator.md:209: SNAPSHOTTING with the old container stopped
\* goes on to the automatic rollback, so no helper ends there in manual recovery.
StoppedSourceIsRolledBack ==
  (\E h \in Helpers : helper[h].pc \in {"giving_up", "manual"})
    => journal.status # "snapshotting"

\* updater-recovery-coordinator.md:30-36: the coordinator exits when the operation
\* has ended and a healthy Appliance removes its container.
HelperIsRemoved ==
  \A h \in Helpers :
    (helper[h].pc = "completed" /\ db.status \in TerminalOperation)
      ~> helper[h].pc = "removed"

\* updater-recovery-coordinator.md:207: without a journal a helper begins only while
\* the source runs.
BeginsWithSourceRunning ==
  [][journal.status = "none" /\ journal'.status # "none" => Running("source")]_vars

\* docker-socket-one-click-update.md:52: a failed update restores the old image; a
\* source that was stopped does not stay down without anybody being asked.
FailureRestoresService ==
  life["source"] = "stopped"
    ~> ((\E a \in Appliances : life[a] = "serving") \/ ManualRecovery)

\* updater-recovery-coordinator.md:38: every new process that takes over an
\* operation that has not ended counts one recovery generation.
EveryTakeoverCounts ==
  [][\A h \in Helpers :
       (/\ helper[h].pc = "idle"
        /\ helper'[h].pc \in {"to_forward", "to_rollback"}
        /\ journal.status \notin {"none"} \cup TerminalJournal)
       => journal'.generation = journal.generation + 1]_vars

================================================================================
