---------------------------- MODULE UpdaterProofs ----------------------------
EXTENDS Updater, TLAPS

-------------------------------------------------------------------------------
(***************************************************************************)
(* The invariant.                                                          *)
(***************************************************************************)

\* What the journal's status says of its checkpoint.
JournalSound ==
  /\ journal.status \in {"none", "snapshotting"} =>
       journal.checkpoint \in {"initialized", "old_restart_fenced", "old_stopped",
                               "pending_ready", "snapshot_verified"}
  /\ journal.status = "none" => journal.checkpoint = "initialized"
  /\ journal.status = "switching" =>
       journal.checkpoint \in {"old_renamed", "candidate_created", "candidate_started"}
  /\ journal.status = "verifying" =>
       journal.checkpoint \in {"candidate_started", "candidate_verified"}
  /\ journal.status \in {"commit_requested", "success"} =>
       journal.checkpoint = "commit_requested"
  /\ journal.status \in {"rolling_back", "rolled_back", "rollback_failed"} =>
       journal.checkpoint \in RollbackCheckpoints
  /\ journal.status = "rolled_back" => journal.checkpoint = "rollback_published"

\* One helper holds the lock, and what it is about to do is what the journal asks for.
LockSound ==
  /\ \A g, h \in Helpers : Holds(g) /\ Holds(h) => g = h
  /\ \A h \in Helpers :
       /\ helper[h].did => helper[h].pc \in {"forward", "rollback"}
       /\ helper[h].pc = "to_forward" =>
            journal.status \in {"none", "snapshotting", "commit_requested", "success"}
       /\ helper[h].pc = "forward" =>
            journal.status \in {"snapshotting", "switching", "verifying",
                                "commit_requested", "success"}
       /\ helper[h].pc = "to_rollback" =>
            journal.status \in {"snapshotting", "switching", "verifying", "rolling_back"}
       /\ helper[h].pc = "rollback" => journal.status = "rolling_back"

Started(h) == helper[h].pc \notin {"absent", "created"}

\* The installer lives in the source.  Until it starts a helper nothing has begun; if it
\* gives up, one helper may run nevertheless, and has not come far.
InstallerSound ==
  /\ installer \notin {"done", "lost"} =>
       life["source"] = "serving" /\ snapshot = NoSnapshot
  /\ installer \in {"drained", "prepared"} => db.status = "draining"
  /\ installer = "starting" => db.status = "handoff"
  /\ installer \in {"drained", "prepared", "starting"}
       \/ (installer = "failing" /\ ~StartMayTimeOut)
     => journal.status = "none" /\ \A h \in Helpers : ~Started(h)
  /\ installer = "failing" =>
       /\ journal.status \in {"none", "snapshotting"}
       /\ \A g, h \in Helpers : Started(g) /\ Started(h) => g = h
       /\ \A h \in Helpers : Started(h) /\ journal.status # "none" => journal.owner = h

\* The source does not run, and nothing but a rollback starts it again.
Fenced == sourcePolicy = "no" /\ ~Running("source")

Fencing == {"initialized", "old_restart_fenced"}
Preparing == {"old_stopped", "pending_ready", "snapshot_verified"}
Switching == {"old_renamed", "candidate_created", "candidate_started",
              "candidate_verified", "commit_requested"}
Restoring == {"rollback_started", "candidate_stopped", "candidate_removed"}
Restarting == RollbackCheckpoints \ Restoring

\* The containers and the two databases, as the journal has them.
ContainersSound ==
  /\ CandidateExists \/ db.schema = "new" => Fenced /\ snapshot # NoSnapshot
  /\ life["candidate"] \in {"starting", "serving"} => db.schema = "new"
  /\ snapshot # NoSnapshot => snapshot.schema = "old"
  /\ journal.checkpoint \in Fencing \cup Preparing \cup Restarting =>
       ~CandidateExists /\ db.schema = "old"
  /\ journal.checkpoint = "candidate_removed" => ~CandidateExists
  /\ journal.checkpoint = "old_restart_fenced" => sourcePolicy = "no"
  /\ journal.checkpoint \in Preparing \cup Switching => Fenced
  /\ journal.checkpoint \in {"snapshot_verified"} \cup Switching => snapshot # NoSnapshot
  /\ journal.checkpoint \in Switching \ {"old_renamed"} => CandidateExists
  /\ journal.checkpoint \in {"candidate_verified", "commit_requested"} => db.schema = "new"

\* What the next checkpoint records is so once it was confirmed.
EffectSound ==
  \A h \in Helpers : helper[h].did =>
    /\ journal.checkpoint = "initialized" => sourcePolicy = "no"
    /\ journal.checkpoint = "old_restart_fenced" => ~Running("source")
    /\ journal.checkpoint = "pending_ready" => snapshot # NoSnapshot
    /\ journal.checkpoint = "old_renamed" => CandidateExists
    /\ journal.checkpoint = "candidate_started" => db.schema = "new"
    /\ journal.checkpoint = "commit_requested" => CommitConfirmed
    /\ journal.checkpoint = "candidate_stopped" => ~CandidateExists
    /\ journal.checkpoint = "candidate_removed" => db.schema = "old"

\* The database records the outcome of the decision that the journal holds.
OutcomeSound ==
  /\ db.status = "success" => journal.status \in {"commit_requested", "success"}
  /\ db.status = "rolled_back" => journal.status = "rolled_back"
  /\ journal.status \in {"none", "snapshotting"} =>
       db.status \in {"draining", "handoff", "snapshotting", "failed"}
  /\ snapshot # NoSnapshot =>
       snapshot.status \in {"draining", "handoff", "snapshotting", "failed"}
  /\ journal.status = "success" => CommitConfirmed

\* What the installer gave up never gets a snapshot, and unless its request to start
\* the helper took effect, no helper ever begins.
FailureSound ==
  /\ snapshot # NoSnapshot => snapshot.status # "failed"
  /\ db.status = "failed" =>
       /\ installer = "done"
       /\ ~handoff
       /\ snapshot = NoSnapshot
       /\ ~StartMayTimeOut =>
            /\ journal.status = "none"
            /\ \A h \in Helpers : helper[h].pc \in {"absent", "removed"}

\* The type invariant, by the parts of the state.
JournalType ==
  journal \in [status : JournalStatuses,
               checkpoint : ForwardCheckpoints \cup RollbackCheckpoints,
               generation : 0..MaxGeneration, owner : Helpers \cup {NoHelper}]
FilesType ==
  /\ db \in Database
  /\ handoff \in BOOLEAN /\ marker \in BOOLEAN
  /\ evidence \in {"none", "fresh", "stale"}
  /\ snapshot \in Database \cup {NoSnapshot}
DockerType ==
  /\ life \in [Appliances -> Lives]
  /\ sourceName \in {"main", "previous"}
  /\ sourcePolicy \in {"no", OriginalPolicy}
HelperType == helper \in [Helpers -> [pc : PCs, did : BOOLEAN]]
RestType ==
  /\ installer \in {"drained", "prepared", "starting", "failing", "done", "lost"}
  /\ cached \subseteq Appliances
  /\ release \in {"good", "bad"}
  /\ disruptions \in 0..MaxDisruptions

UpdaterInvariant ==
  /\ TypeOK
  /\ JournalSound
  /\ LockSound
  /\ InstallerSound
  /\ ContainersSound
  /\ EffectSound
  /\ OutcomeSound
  /\ FailureSound

(***************************************************************************)
(* The steps of the journal.                                               *)
(***************************************************************************)

\* A helper's next record in the journal.
Moves(checkpoint, status, nextCheckpoint, nextStatus) ==
  /\ journal.checkpoint = checkpoint /\ journal.status = status
  /\ journal'.checkpoint = nextCheckpoint /\ journal'.status = nextStatus

\* A record whose fields are replaced is a record of the same type.
LEMMA JournalWritten ==
  ASSUME TypeOK, NEW s \in JournalStatuses, NEW c \in ForwardCheckpoints \cup RollbackCheckpoints,
         \/ journal' = [journal EXCEPT !.status = s]
         \/ journal' = [journal EXCEPT !.checkpoint = c]
         \/ journal' = [journal EXCEPT !.checkpoint = c, !.status = s]
  PROVE  JournalType'
<1> DEFINE written(status, checkpoint) ==
             [status |-> status, checkpoint |-> checkpoint,
              generation |-> journal.generation, owner |-> journal.owner]
<1>1. journal = written(journal.status, journal.checkpoint)
      /\ journal.status \in JournalStatuses
      /\ journal.checkpoint \in ForwardCheckpoints \cup RollbackCheckpoints
      /\ journal.generation \in 0..MaxGeneration /\ journal.owner \in Helpers \cup {NoHelper}
  BY DEF TypeOK
<1>2. \/ journal' = written(s, journal.checkpoint)
      \/ journal' = written(journal.status, c)
      \/ journal' = written(s, c)
  BY <1>1
<1>3. QED
  BY <1>1, <1>2 DEF JournalType

\* So is a helper's, when it goes on or confirms an effect.
LEMMA GotoTyped ==
  ASSUME TypeOK, NEW h \in Helpers, NEW p \in PCs, Goto(h, p)
  PROVE  HelperType'
BY DEF TypeOK, Goto, HelperType

\* The same of the effect that it confirms.
LEMMA ConfirmTyped ==
  ASSUME TypeOK, NEW h \in Helpers, Confirm(h)
  PROVE  HelperType'
BY DEF TypeOK, Confirm, HelperType

\* The forward path records a checkpoint after the effect that leads to it.
LEMMA ForwardCheckpointed ==
  ASSUME TypeOK, JournalSound, LockSound, NEW h \in Helpers, CheckpointForward(h)
  PROVE  /\ journal'.generation = journal.generation /\ journal'.owner = journal.owner
         /\ \/ /\ helper[h].did
               /\ Moves("initialized", "snapshotting", "old_restart_fenced", "snapshotting")
            \/ /\ helper[h].did
               /\ Moves("old_restart_fenced", "snapshotting", "old_stopped", "snapshotting")
            \/ /\ helper[h].did
               /\ Moves("old_stopped", "snapshotting", "pending_ready", "snapshotting")
            \/ /\ helper[h].did
               /\ Moves("pending_ready", "snapshotting", "snapshot_verified", "snapshotting")
            \/ /\ helper[h].did
               /\ Moves("snapshot_verified", "snapshotting", "old_renamed", "switching")
            \/ /\ helper[h].did
               /\ Moves("old_renamed", "switching", "candidate_created", "switching")
            \/ /\ helper[h].did
               /\ Moves("candidate_created", "switching", "candidate_started", "switching")
            \/ Moves("candidate_started", "switching", "candidate_started", "verifying")
            \/ /\ helper[h].did
               /\ Moves("candidate_started", "verifying", "candidate_verified", "verifying")
            \/ Moves("candidate_verified", "verifying", "commit_requested", "commit_requested")
            \/ /\ helper[h].did
               /\ Moves("commit_requested", "commit_requested", "commit_requested", "success")
<1>0. /\ journal.status \in {"snapshotting", "switching", "verifying", "commit_requested"}
      /\ journal' = ForwardTarget /\ (helper[h].did \/ NoForwardEffect)
  BY DEF LockSound, CheckpointForward
<1>1. journal \in [status : JournalStatuses,
                  checkpoint : ForwardCheckpoints \cup RollbackCheckpoints,
                  generation : 0..MaxGeneration, owner : Helpers \cup {NoHelper}]
  BY DEF TypeOK
<1>2. CASE journal.status = "snapshotting"
  BY <1>0, <1>1, <1>2 DEF JournalSound, ForwardTarget, NoForwardEffect, StatusAt,
     ForwardNext, Moves
<1>3. CASE journal.status = "switching"
  BY <1>0, <1>1, <1>3 DEF JournalSound, ForwardTarget, NoForwardEffect, StatusAt,
     ForwardNext, Moves
<1>4. CASE journal.status = "verifying"
  BY <1>0, <1>1, <1>4 DEF JournalSound, ForwardTarget, NoForwardEffect, StatusAt,
     ForwardNext, Moves
<1>5. CASE journal.status = "commit_requested"
  BY <1>0, <1>1, <1>5 DEF JournalSound, ForwardTarget, NoForwardEffect, Moves
<1>6. QED
  BY <1>0, <1>2, <1>3, <1>4, <1>5

\* So does the rollback.
LEMMA RollbackCheckpointed ==
  ASSUME TypeOK, JournalSound, LockSound, NEW h \in Helpers, CheckpointRollback(h)
  PROVE  /\ journal'.generation = journal.generation /\ journal'.owner = journal.owner
         /\ \/ /\ helper[h].did
               /\ Moves("rollback_started", "rolling_back", "candidate_stopped", "rolling_back")
            \/ /\ helper[h].did
               /\ Moves("candidate_stopped", "rolling_back", "candidate_removed", "rolling_back")
            \/ /\ helper[h].did
               /\ Moves("candidate_removed", "rolling_back", "snapshot_restored", "rolling_back")
            \/ /\ journal.status = "rolling_back" /\ journal.checkpoint \in Restarting
               /\ journal'.status \in {"rolling_back", "rolled_back"}
               /\ journal'.checkpoint \in Restarting
               /\ journal'.status = "rolled_back" => journal'.checkpoint = "rollback_published"
<1>0. /\ journal.status = "rolling_back"
      /\ journal' = RollbackTarget /\ (helper[h].did \/ NoRollbackEffect)
  BY DEF LockSound, CheckpointRollback
<1>1. journal \in [status : JournalStatuses,
                  checkpoint : ForwardCheckpoints \cup RollbackCheckpoints,
                  generation : 0..MaxGeneration, owner : Helpers \cup {NoHelper}]
  BY DEF TypeOK
<1>2. QED
  BY <1>0, <1>1
  DEF JournalSound, RollbackTarget, NoRollbackEffect, RollbackNext, Moves, Restarting,
     Restoring, RollbackCheckpoints

\* The other records in the journal, and what the helper that made them does next.
LEMMA RecoveryDecided ==
  ASSUME TypeOK, NEW h \in Helpers, CoordinateRecovery(h)
  PROVE  /\ journal'.status = journal.status /\ journal'.checkpoint = journal.checkpoint
         /\ journal.owner = h => journal'.owner = h
         /\ \A g \in Helpers \ {h} : ~Holds(g) /\ helper'[g] = helper[g]
         /\ helper'[h].pc \in {"to_forward", "to_rollback", "giving_up"} /\ ~helper'[h].did
         /\ helper'[h].pc = "to_forward" => journal.status \in {"commit_requested", "snapshotting"}
         /\ helper'[h].pc = "to_rollback" =>
              journal.status \in {"snapshotting", "switching", "verifying", "rolling_back"}
<1>1. /\ journal.status \in JournalStatuses \ ({"none"} \cup TerminalJournal)
      /\ helper' = [helper EXCEPT ![h] = [pc |-> Decision, did |-> FALSE]]
      /\ \A g \in Helpers \ {h} : ~Holds(g)
  BY DEF CoordinateRecovery, MayCoordinate, LockFree, Goto, TypeOK
<1>2. /\ Decision \in {"to_forward", "to_rollback", "giving_up"}
      /\ Decision = "to_forward" => journal.status \in {"commit_requested", "snapshotting"}
      /\ Decision = "to_rollback" =>
           journal.status \in {"snapshotting", "switching", "verifying", "rolling_back"}
  BY <1>1 DEF Decision, JournalStatuses, TerminalJournal
<1>3. /\ journal'.status = journal.status /\ journal'.checkpoint = journal.checkpoint
      /\ journal.owner = h => journal'.owner = h
  BY DEF CoordinateRecovery, TypeOK
<1>4. QED
  BY <1>1, <1>2, <1>3 DEF TypeOK

\* A coordinator that finds its generations used up ends the operation, or leaves a commit alone.
LEMMA RecoveryExhausted ==
  ASSUME TypeOK, JournalSound, NEW h \in Helpers, CoordinateExhausted(h)
  PROVE  /\ \A g \in Helpers \ {h} : ~Holds(g) /\ helper'[g] = helper[g]
         /\ helper'[h].pc = "giving_up" /\ ~helper'[h].did
         /\ journal.owner # h
         /\ \/ journal' = journal /\ marker' = marker /\ journal.status = "commit_requested"
            \/ /\ journal.status \in {"snapshotting", "switching", "verifying", "rolling_back"}
               /\ journal'.status = "rollback_failed"
               /\ \/ journal.status = "rolling_back" /\ journal'.checkpoint = journal.checkpoint
                  \/ journal'.checkpoint = "rollback_started"
<1>1. /\ \A g \in Helpers \ {h} : ~Holds(g)
      /\ helper' = [helper EXCEPT ![h] = [pc |-> "giving_up", did |-> FALSE]]
      /\ journal.owner # h
      /\ journal.status \in {"snapshotting", "switching", "verifying",
                             "commit_requested", "rolling_back"}
  BY DEF CoordinateExhausted, MayCoordinate, LockFree, Goto, TypeOK, Exhausted,
     MustTakeOver, JournalStatuses, TerminalJournal
<1>2. \/ journal' = journal /\ marker' = marker /\ journal.status = "commit_requested"
      \/ /\ journal.status # "commit_requested"
         /\ journal'.status = "rollback_failed"
         /\ \/ journal.status = "rolling_back" /\ journal'.checkpoint = journal.checkpoint
            \/ journal'.checkpoint = "rollback_started"
  BY DEF CoordinateExhausted, TypeOK
<1>3. QED
  BY <1>1, <1>2 DEF TypeOK

\* A helper enters the forward path; the first to do so begins the journal.
LEMMA ForwardEntered ==
  ASSUME TypeOK, NEW h \in Helpers, EnterForward(h)
  PROVE  /\ \A g \in Helpers \ {h} : helper'[g] = helper[g]
         /\ helper[h].pc = "to_forward" /\ helper'[h].pc \in {"idle", "forward"} /\ ~helper'[h].did
         /\ \/ journal' = journal /\ (helper'[h].pc = "forward" => journal.status # "none")
            \/ /\ journal.status = "none" /\ journal'.status = "snapshotting"
               /\ journal'.checkpoint = journal.checkpoint /\ journal'.owner = h
               /\ handoff
<1>1. \/ journal' = journal
         /\ \/ helper' = [helper EXCEPT ![h] = [pc |-> "idle", did |-> FALSE]]
            \/ /\ helper' = [helper EXCEPT ![h] = [pc |-> "forward", did |-> FALSE]]
               /\ journal.status # "none"
      \/ /\ journal.status = "none" /\ journal'.status = "snapshotting"
         /\ journal'.checkpoint = journal.checkpoint /\ journal'.owner = h /\ handoff
         /\ helper' = [helper EXCEPT ![h] = [pc |-> "forward", did |-> FALSE]]
  BY DEF EnterForward, Goto, TypeOK
<1>2. QED
  BY <1>1 DEF TypeOK, EnterForward

\* A helper enters the rollback, which begins only while the source does not run.
LEMMA RollbackEntered ==
  ASSUME TypeOK, LockSound, NEW h \in Helpers, EnterRollback(h)
  PROVE  /\ \A g \in Helpers \ {h} : helper'[g] = helper[g]
         /\ helper[h].pc = "to_rollback"
         /\ helper'[h].pc \in {"idle", "rollback"} /\ ~helper'[h].did
         /\ \/ journal' = journal /\ (helper'[h].pc = "rollback" => journal.status = "rolling_back")
            \/ /\ journal.status \in {"snapshotting", "switching", "verifying"}
               /\ ~Running("source")
               /\ journal'.status = "rolling_back" /\ journal'.checkpoint = "rollback_started"
<1>1. \/ journal' = journal
         /\ \/ helper' = [helper EXCEPT ![h] = [pc |-> "idle", did |-> FALSE]]
            \/ /\ helper' = [helper EXCEPT ![h] = [pc |-> "rollback", did |-> FALSE]]
               /\ journal.status = "rolling_back"
      \/ /\ journal.status \in {"snapshotting", "switching", "verifying"} /\ ~Running("source")
         /\ journal'.status = "rolling_back" /\ journal'.checkpoint = "rollback_started"
         /\ helper' = [helper EXCEPT ![h] = [pc |-> "rollback", did |-> FALSE]]
  BY DEF EnterRollback, Goto, TypeOK, MayStartRollback, RollbackFailed
<1>2. QED
  BY <1>1 DEF TypeOK, EnterRollback

\* What the database is brought to.
LEMMA ReconciledIsStatus ==
  ASSUME TypeOK, NEW allowCommit \in BOOLEAN
  PROVE  Reconciled(allowCommit) \in OperationStatuses \cup {"error"}
<1>1. db.status \in OperationStatuses /\ journal.status \in JournalStatuses
  BY DEF TypeOK, Database
<1>2. Synchronized \in OperationStatuses \cup {"error"}
  BY <1>1 DEF Synchronized, SyncTarget, JournalStatuses, OperationStatuses, ForwardOrder
<1>3. QED
  BY <1>1, <1>2 DEF Reconciled, OperationStatuses, TerminalOperation, ForwardOrder

\* A terminal status is reconciled from a journal that has decided on it.
LEMMA ReconciledRecords ==
  ASSUME TypeOK, NEW allowCommit \in BOOLEAN, Reconciled(allowCommit) \in TerminalOperation
  PROVE  \/ Reconciled(allowCommit) = db.status
         \/ /\ db.status \notin TerminalOperation
            /\ \/ Reconciled(allowCommit) = "success" /\ journal.status = "commit_requested"
               \/ Reconciled(allowCommit) = "rolled_back" /\ journal.status = "rolled_back"
<1>1. db.status \in OperationStatuses /\ journal.status \in JournalStatuses
  BY DEF TypeOK, Database
<1>2. CASE ~marker \/ journal.status = "none"
  BY <1>2 DEF Reconciled
<1>3. CASE ~(~marker \/ journal.status = "none")
  <2>1. CASE db.status \in TerminalOperation
    BY <1>3, <2>1 DEF Reconciled, TerminalOperation
  <2>2. CASE db.status \notin TerminalOperation
    <3>1. Synchronized \notin TerminalOperation
      BY <1>1, <2>2 DEF Synchronized, SyncTarget, TerminalOperation
    <3>2. QED
      BY <1>1, <1>3, <2>2, <3>1 DEF Reconciled, TerminalOperation, JournalStatuses
  <2>3. QED
    BY <2>1, <2>2
<1>4. QED
  BY <1>2, <1>3

(***************************************************************************)
(* What a step may do to the decision, the record and the release that     *)
(* serves: the three kinds of steps of UpdateAgreement.                    *)
(***************************************************************************)
DecidesOnce ==
  \/ Decided' = Decided
  \/ /\ Decided = "undecided" /\ Decided' \in {"commit", "abort"}
     /\ Recorded' = Recorded /\ Serving' = Serving

RecordsDecision ==
  \/ Recorded' = Recorded
  \/ /\ Recorded = "open"
     /\ \/ Recorded' = "success" /\ Decided = "commit"
        \/ Recorded' = "rolled_back" /\ Decided = "abort"
        \/ Recorded' = "failed" /\ Decided = "undecided"
     /\ Decided' = Decided /\ Serving' = Serving

ServesAgreed ==
  \/ Serving' = Serving
  \/ /\ \/ Serving' = "none"
        \/ Serving = "none" /\ Serving' = "old" /\ Decided # "commit"
        \/ /\ Serving = "none" /\ Serving' = "new"
           /\ Recorded \notin {"rolled_back", "failed"}
     /\ Decided' = Decided /\ Recorded' = Recorded

\* What a step may do to the database's schema.
RestoresAtRest ==
  db.schema = "new" /\ db'.schema = "old" => \A a \in Appliances : ~Running(a)

\* The records of the journal keep their order: the two paths write one checkpoint after
\* another, and a decision of the coordinator leaves status and checkpoint in agreement.
LEMMA JournalPreserved ==
  ASSUME UpdaterInvariant, Next
  PROVE  JournalSound'
<1>0. /\ TypeOK /\ JournalSound /\ LockSound /\ InstallerSound /\ ContainersSound
      /\ EffectSound /\ OutcomeSound /\ FailureSound
  BY DEF UpdaterInvariant
<1>1. ASSUME NEW h \in Helpers,
             \/ InstallPrepare(h) \/ InstallStart(h) \/ InstallRaises(h)
             \/ StartReplacementHelper(h) \/ CoordinateEnded(h) \/ Disarm(h)
             \/ HelperFails(h) \/ FenceOldRestart(h) \/ StopOld(h)
             \/ PrepareCandidate(h) \/ EnsureSnapshot(h) \/ RenameOld(h)
             \/ EnsureCandidate(h) \/ StartCandidate(h) \/ VerifyCandidate(h)
             \/ AwaitCommit(h) \/ CleanupOld(h) \/ StopCandidate(h)
             \/ RestoreSnapshot(h) \/ RemoveCandidateEvidence(h) \/ RestoreOldName(h)
             \/ RestoreOldPolicy(h) \/ StartOld(h)
      PROVE  JournalSound'
  <2>1. UNCHANGED <<journal>>
    BY <1>1 DEF InstallPrepare, InstallStart, InstallRaises, StartReplacementHelper,
       CoordinateEnded, Disarm, HelperFails, FenceOldRestart, StopOld, Stop,
       PrepareCandidate, EnsureSnapshot, RenameOld, EnsureCandidate, StartCandidate,
       VerifyCandidate, AwaitCommit, CleanupOld, StopCandidate, RestoreSnapshot,
       RemoveCandidateEvidence, RestoreOldName, RestoreOldPolicy, StartOld, volume
  <2>2. QED
    BY <2>1, <1>0 DEF JournalSound
<1>2. ASSUME NEW a \in Appliances,
             \/ RunBarriers(a) \/ Serve(a) \/ CacheHandoff(a) \/ ReconcileActive(a)
             \/ CleanUp(a) \/ DockerRestart(a) \/ ApplianceCrash(a)
      PROVE  JournalSound'
  <2>1. UNCHANGED <<journal>>
    BY <1>2 DEF RunBarriers, Reconciled, Synchronized, SyncTarget, Serve, CacheHandoff,
       ReconcileActive, Supervises, CleanUp, MayCleanUp, DockerRestart, Policy,
       ApplianceCrash, volume
  <2>2. QED
    BY <2>1, <1>0 DEF JournalSound
<1>3. ASSUME NEW a \in Appliances, NEW h \in Helpers, RemoveExitedHelper(a, h)
      PROVE  JournalSound'
  <2>1. UNCHANGED <<journal>>
    BY <1>3 DEF RemoveExitedHelper, volume
  <2>2. QED
    BY <2>1, <1>0 DEF JournalSound
<1>4. CASE \/ InstallHandoff \/ InstallCleanup \/ WriteEvidence \/ DaemonRestart
  <2>1. UNCHANGED <<journal>>
    BY <1>4 DEF InstallHandoff, InstallCleanup, WriteEvidence, Policy, DaemonRestart,
       AfterDaemonRestart, volume
  <2>2. QED
    BY <2>1, <1>0 DEF JournalSound
<1>5. ASSUME NEW h \in Helpers, CoordinateRecovery(h) PROVE JournalSound'
  BY <1>5, <1>0, RecoveryDecided DEF CoordinateRecovery, Exhausted, Decision,
     SourceObserved, JournalSound
<1>6. ASSUME NEW h \in Helpers, CoordinateExhausted(h) PROVE JournalSound'
  BY <1>6, <1>0, RecoveryExhausted DEF CoordinateExhausted, Exhausted, JournalSound,
     RollbackCheckpoints, RollbackNext
<1>7. ASSUME NEW h \in Helpers, EnterForward(h) PROVE JournalSound'
  BY <1>7, <1>0, ForwardEntered DEF EnterForward, JournalSound
<1>8. ASSUME NEW h \in Helpers, CheckpointForward(h) PROVE JournalSound'
  BY <1>8, <1>0, ForwardCheckpointed DEF CheckpointForward, JournalSound, Moves
<1>9. ASSUME NEW h \in Helpers, EnterRollback(h) PROVE JournalSound'
  BY <1>9, <1>0, RollbackEntered DEF EnterRollback, MayStartRollback, SourceObserved,
     JournalSound, RollbackCheckpoints, RollbackNext
<1>10. ASSUME NEW h \in Helpers, RemoveCandidate(h) PROVE JournalSound'
  BY <1>10, <1>0 DEF RemoveCandidate, RollbackFailed, JournalSound, TypeOK
<1>11. ASSUME NEW h \in Helpers, VerifyOld(h) PROVE JournalSound'
  BY <1>11, <1>0 DEF VerifyOld, RollbackFailed, JournalSound, TypeOK
<1>12. ASSUME NEW h \in Helpers, CheckpointRollback(h) PROVE JournalSound'
  BY <1>12, <1>0, RollbackCheckpointed DEF CheckpointRollback, RollbackTarget,
     JournalSound, LockSound, RollbackCheckpoints, RollbackNext
<1>13. QED
  BY <1>1, <1>2, <1>3, <1>4, <1>5, <1>6, <1>7, <1>8, <1>9, <1>10, <1>11, <1>12 DEF Next,
     InstallStep, HelperStep, ForwardStep, RollbackStep, LauncherStep

\* A helper takes the lock only while no other holds it, and goes on with the path that
\* the journal asks for when it was entered.
LEMMA LockPreserved ==
  ASSUME UpdaterInvariant, Next
  PROVE  LockSound'
<1>0. /\ TypeOK /\ JournalSound /\ LockSound /\ InstallerSound /\ ContainersSound
      /\ EffectSound /\ OutcomeSound /\ FailureSound
  BY DEF UpdaterInvariant
<1>1. ASSUME NEW a \in Appliances,
             \/ RunBarriers(a) \/ Serve(a) \/ CacheHandoff(a) \/ ReconcileActive(a)
             \/ CleanUp(a) \/ DockerRestart(a) \/ ApplianceCrash(a)
      PROVE  LockSound'
  <2>1. UNCHANGED <<journal, helper>>
    BY <1>1 DEF RunBarriers, Reconciled, Synchronized, SyncTarget, Serve, CacheHandoff,
       ReconcileActive, Supervises, CleanUp, MayCleanUp, DockerRestart, Policy,
       ApplianceCrash, volume
  <2>2. QED
    BY <2>1, <1>0 DEF LockSound, Holds
<1>2. CASE \/ InstallHandoff \/ WriteEvidence
  <2>1. UNCHANGED <<journal, helper>>
    BY <1>2 DEF InstallHandoff, WriteEvidence, volume
  <2>2. QED
    BY <2>1, <1>0 DEF LockSound, Holds
<1>3. ASSUME NEW h \in Helpers, InstallPrepare(h) PROVE LockSound'
  BY <1>3, <1>0 DEF InstallPrepare, LockSound, Holds, Outside
<1>4. ASSUME NEW h \in Helpers, InstallStart(h) PROVE LockSound'
  BY <1>4, <1>0 DEF InstallStart, LockSound, Holds, Outside, InstallerSound, Started
<1>5. ASSUME NEW h \in Helpers, InstallRaises(h) PROVE LockSound'
  BY <1>5, <1>0 DEF InstallRaises, LockSound, TypeOK, Holds, PCs, InstallerSound,
     Started
<1>6. CASE InstallCleanup
  BY <1>6, <1>0 DEF InstallCleanup, LockSound, Holds, Outside
<1>7. ASSUME NEW h \in Helpers, StartReplacementHelper(h) PROVE LockSound'
  BY <1>7, <1>0 DEF StartReplacementHelper, LockSound, Holds, Outside, volume
<1>8. ASSUME NEW h \in Helpers, CoordinateEnded(h) PROVE LockSound'
  BY <1>8, <1>0 DEF CoordinateEnded, MayCoordinate, Goto, LockSound, TypeOK, Holds,
     LockFree, volume
<1>9. ASSUME NEW h \in Helpers, CoordinateRecovery(h) PROVE LockSound'
  BY <1>9, <1>0, RecoveryDecided DEF LockSound, Holds, Outside
<1>10. ASSUME NEW h \in Helpers, CoordinateExhausted(h) PROVE LockSound'
  BY <1>10, <1>0, RecoveryExhausted DEF CoordinateExhausted, Exhausted, LockSound,
     Holds, Outside
<1>11. ASSUME NEW h \in Helpers, Disarm(h) PROVE LockSound'
  BY <1>11, <1>0 DEF Disarm, Goto, LockSound, TypeOK, Holds, Outside
<1>12. ASSUME NEW h \in Helpers, HelperFails(h) PROVE LockSound'
  BY <1>12, <1>0 DEF HelperFails, Goto, Holds, Outside, LockSound, TypeOK
<1>13. ASSUME NEW h \in Helpers, EnterForward(h) PROVE LockSound'
  BY <1>13, <1>0, ForwardEntered DEF LockSound, Holds, Outside
<1>14. ASSUME NEW h \in Helpers, FenceOldRestart(h) PROVE LockSound'
  BY <1>14, <1>0 DEF FenceOldRestart, At, Confirm, LockSound, Holds, volume
<1>15. ASSUME NEW h \in Helpers, StopOld(h) PROVE LockSound'
  BY <1>15, <1>0 DEF StopOld, At, Confirm, Stop, LockSound, Holds
<1>16. ASSUME NEW h \in Helpers, PrepareCandidate(h) PROVE LockSound'
  BY <1>16, <1>0 DEF PrepareCandidate, At, Confirm, LockSound, Holds
<1>17. ASSUME NEW h \in Helpers, EnsureSnapshot(h) PROVE LockSound'
  BY <1>17, <1>0 DEF EnsureSnapshot, At, Confirm, Goto, LockSound, TypeOK, Holds,
     Outside
<1>18. ASSUME NEW h \in Helpers, RenameOld(h) PROVE LockSound'
  BY <1>18, <1>0 DEF RenameOld, At, Confirm, LockSound, Holds, volume
<1>19. ASSUME NEW h \in Helpers, EnsureCandidate(h) PROVE LockSound'
  BY <1>19, <1>0 DEF EnsureCandidate, At, Confirm, LockSound, Holds, volume
<1>20. ASSUME NEW h \in Helpers, StartCandidate(h) PROVE LockSound'
  BY <1>20, <1>0 DEF StartCandidate, At, Confirm, LockSound, Holds
<1>21. ASSUME NEW h \in Helpers, VerifyCandidate(h) PROVE LockSound'
  BY <1>21, <1>0 DEF VerifyCandidate, At, Confirm, Goto, LockSound, TypeOK, Holds,
     Outside, volume
<1>22. ASSUME NEW h \in Helpers, AwaitCommit(h) PROVE LockSound'
  BY <1>22, <1>0 DEF AwaitCommit, At, Confirm, Goto, LockSound, TypeOK, Holds, Outside,
     volume
<1>23. ASSUME NEW h \in Helpers, CheckpointForward(h) PROVE LockSound'
  <2>1. helper' = [helper EXCEPT ![h] = [pc |-> "forward", did |-> FALSE]]
        /\ helper[h].pc = "forward"
    BY <1>23 DEF CheckpointForward, Goto
  <2>2. \A g \in Helpers \ {h} : helper'[g] = helper[g] /\ ~Holds(g)
    BY <2>1, <1>0 DEF LockSound, Holds, Outside, TypeOK
  <2>3. helper'[h].pc = "forward" /\ ~helper'[h].did
    BY <2>1, <1>0 DEF TypeOK
  <2>4. journal'.status \in {"snapshotting", "switching", "verifying",
                             "commit_requested", "success"}
    BY <1>23, <1>0, ForwardCheckpointed DEF Moves
  <2>5. QED
    BY <2>2, <2>3, <2>4, <1>0 DEF LockSound, Holds, Outside
<1>24. ASSUME NEW h \in Helpers, CleanupOld(h) PROVE LockSound'
  BY <1>24, <1>0 DEF CleanupOld, Goto, LockSound, TypeOK, Holds, Outside
<1>25. ASSUME NEW h \in Helpers, EnterRollback(h) PROVE LockSound'
  BY <1>25, <1>0, RollbackEntered DEF LockSound, Holds, Outside
<1>26. ASSUME NEW h \in Helpers, StopCandidate(h) PROVE LockSound'
  BY <1>26, <1>0 DEF StopCandidate, At, Confirm, Stop, LockSound, Holds
<1>27. ASSUME NEW h \in Helpers, RemoveCandidate(h) PROVE LockSound'
  BY <1>27, <1>0 DEF RemoveCandidate, At, Confirm, RollbackFailed, Goto, LockSound,
     TypeOK, Holds, Outside
<1>28. ASSUME NEW h \in Helpers, RestoreSnapshot(h) PROVE LockSound'
  BY <1>28, <1>0 DEF RestoreSnapshot, At, Confirm, LockSound, Holds
<1>29. ASSUME NEW h \in Helpers, RemoveCandidateEvidence(h) PROVE LockSound'
  BY <1>29, <1>0 DEF RemoveCandidateEvidence, At, Confirm, LockSound, Holds
<1>30. ASSUME NEW h \in Helpers, RestoreOldName(h) PROVE LockSound'
  BY <1>30, <1>0 DEF RestoreOldName, At, Confirm, LockSound, Holds, volume
<1>31. ASSUME NEW h \in Helpers, RestoreOldPolicy(h) PROVE LockSound'
  BY <1>31, <1>0 DEF RestoreOldPolicy, At, Confirm, LockSound, Holds, volume
<1>32. ASSUME NEW h \in Helpers, StartOld(h) PROVE LockSound'
  BY <1>32, <1>0 DEF StartOld, At, Confirm, LockSound, Holds
<1>33. ASSUME NEW h \in Helpers, VerifyOld(h) PROVE LockSound'
  BY <1>33, <1>0 DEF VerifyOld, At, Confirm, RollbackFailed, Goto, LockSound, TypeOK,
     Holds, Outside
<1>34. ASSUME NEW h \in Helpers, CheckpointRollback(h) PROVE LockSound'
  BY <1>34, <1>0, RollbackCheckpointed DEF CheckpointRollback, Goto, RollbackTarget,
     LockSound, TypeOK, Holds, Outside
<1>35. ASSUME NEW a \in Appliances, NEW h \in Helpers, RemoveExitedHelper(a, h)
       PROVE  LockSound'
  BY <1>35, <1>0 DEF RemoveExitedHelper, LockSound, Holds, Outside, volume
<1>36. CASE DaemonRestart
  BY <1>36, <1>0 DEF DaemonRestart, AfterDaemonRestart, Policy, Holds, LockSound
<1>37. QED
  BY <1>1, <1>2, <1>3, <1>4, <1>5, <1>6, <1>7, <1>8, <1>9, <1>10, <1>11, <1>12, <1>13,
     <1>14, <1>15, <1>16, <1>17, <1>18, <1>19, <1>20, <1>21, <1>22, <1>23, <1>24, <1>25,
     <1>26, <1>27, <1>28, <1>29, <1>30, <1>31, <1>32, <1>33, <1>34, <1>35, <1>36 DEF
     Next, InstallStep, HelperStep, ForwardStep, RollbackStep, LauncherStep

\* Until the installer has started a helper, the source serves and nothing has begun; what
\* a start that was reported to fail began nevertheless is one helper's.
LEMMA InstallerPreserved ==
  ASSUME UpdaterInvariant, Next
  PROVE  InstallerSound'
<1>0. /\ TypeOK /\ JournalSound /\ LockSound /\ InstallerSound /\ ContainersSound
      /\ EffectSound /\ OutcomeSound /\ FailureSound
  BY DEF UpdaterInvariant
<1>1. ASSUME NEW a \in Appliances,
             \/ CacheHandoff(a) \/ CleanUp(a)
      PROVE  InstallerSound'
  <2>1. UNCHANGED <<installer, life, snapshot, db, journal, helper>>
    BY <1>1 DEF CacheHandoff, CleanUp, Supervises, MayCleanUp, volume, docker
  <2>2. QED
    BY <2>1, <1>0 DEF InstallerSound, Started, Running
<1>2. CASE WriteEvidence
  <2>1. UNCHANGED <<installer, life, snapshot, db, journal, helper>>
    BY <1>2 DEF WriteEvidence, volume, docker
  <2>2. QED
    BY <2>1, <1>0 DEF InstallerSound, Started, Running
<1>3. ASSUME NEW h \in Helpers, InstallPrepare(h) PROVE InstallerSound'
  BY <1>3, <1>0 DEF InstallPrepare, InstallerSound, Started, docker
<1>4. CASE InstallHandoff
  BY <1>4, <1>0 DEF InstallHandoff, InstallerSound, Started, docker
<1>5. ASSUME NEW h \in Helpers, InstallStart(h) PROVE InstallerSound'
  BY <1>5 DEF InstallStart, InstallerSound
<1>6. ASSUME NEW h \in Helpers, InstallRaises(h) PROVE InstallerSound'
  BY <1>6, <1>0 DEF InstallRaises, InstallerSound, Started, TypeOK, volume, docker
<1>7. CASE InstallCleanup
  BY <1>7 DEF InstallCleanup, InstallerSound
<1>8. ASSUME NEW h \in Helpers, StartReplacementHelper(h) PROVE InstallerSound'
  BY <1>8 DEF StartReplacementHelper, InstallerSound
<1>9. ASSUME NEW h \in Helpers, CoordinateEnded(h) PROVE InstallerSound'
  BY <1>9, <1>0 DEF CoordinateEnded, MayCoordinate, Goto, InstallerSound, Started,
     TypeOK, volume, docker
<1>10. ASSUME NEW h \in Helpers, CoordinateRecovery(h) PROVE InstallerSound'
  <2>1. /\ UNCHANGED <<db, installer, snapshot>> /\ life'["source"] = life["source"]
        /\ helper[h].pc = "idle"
    BY <1>10, <1>0 DEF CoordinateRecovery, MayCoordinate, StartIfStopped, Keep, TypeOK,
       Appliances, docker
  <2>2. QED
    BY <1>10, <1>0, <2>1, RecoveryDecided DEF InstallerSound, Started
<1>11. ASSUME NEW h \in Helpers, CoordinateExhausted(h) PROVE InstallerSound'
  BY <1>11, <1>0, RecoveryExhausted DEF CoordinateExhausted, MayCoordinate, Exhausted,
     InstallerSound, Started, TypeOK
<1>12. ASSUME NEW h \in Helpers, Disarm(h) PROVE InstallerSound'
  BY <1>12, <1>0 DEF Disarm, Goto, InstallerSound, Started, TypeOK, volume, docker
<1>13. ASSUME NEW h \in Helpers, HelperFails(h) PROVE InstallerSound'
  BY <1>13, <1>0 DEF HelperFails, Goto, Holds, Outside, InstallerSound, Started, volume,
     docker
<1>14. ASSUME NEW h \in Helpers, EnterForward(h) PROVE InstallerSound'
  <2>1. UNCHANGED <<db, installer, snapshot, life>>
    BY <1>14 DEF EnterForward, docker
  <2>2. QED
    BY <1>14, <1>0, <2>1, ForwardEntered DEF InstallerSound, Started
<1>15. ASSUME NEW h \in Helpers, FenceOldRestart(h) PROVE InstallerSound'
  BY <1>15, <1>0 DEF FenceOldRestart, Confirm, InstallerSound, Started, volume
<1>16. ASSUME NEW h \in Helpers, StopOld(h) PROVE InstallerSound'
  BY <1>16, <1>0 DEF StopOld, Confirm, Stop, ProcessesDie, Keep, InstallerSound, Started
<1>17. ASSUME NEW h \in Helpers, PrepareCandidate(h) PROVE InstallerSound'
  BY <1>17, <1>0 DEF PrepareCandidate, At, InstallerSound, ContainersSound, Fenced,
     Running, Live, Preparing
<1>18. ASSUME NEW h \in Helpers, EnsureSnapshot(h) PROVE InstallerSound'
  BY <1>18, <1>0 DEF EnsureSnapshot, At, InstallerSound, ContainersSound, Fenced,
     Running, Live, Preparing
<1>19. ASSUME NEW h \in Helpers, RenameOld(h) PROVE InstallerSound'
  BY <1>19, <1>0 DEF RenameOld, At, InstallerSound, ContainersSound
<1>20. ASSUME NEW h \in Helpers, EnsureCandidate(h) PROVE InstallerSound'
  BY <1>20, <1>0 DEF EnsureCandidate, At, InstallerSound, ContainersSound, Switching
<1>21. ASSUME NEW h \in Helpers, StartCandidate(h) PROVE InstallerSound'
  BY <1>21, <1>0 DEF StartCandidate, Confirm, StartIfStopped, Keep, InstallerSound,
     Started
<1>22. ASSUME NEW h \in Helpers, VerifyCandidate(h) PROVE InstallerSound'
  BY <1>22, <1>0 DEF VerifyCandidate, At, InstallerSound, ContainersSound, Switching
<1>23. ASSUME NEW h \in Helpers, AwaitCommit(h) PROVE InstallerSound'
  BY <1>23, <1>0 DEF AwaitCommit, At, InstallerSound, ContainersSound
<1>24. ASSUME NEW h \in Helpers, CheckpointForward(h) PROVE InstallerSound'
  BY <1>24, <1>0, ForwardCheckpointed DEF CheckpointForward, Goto, InstallerSound,
     Started, TypeOK, LockSound, ContainersSound, Running, Moves, docker
<1>25. ASSUME NEW h \in Helpers, CleanupOld(h) PROVE InstallerSound'
  BY <1>25, <1>0 DEF CleanupOld, InstallerSound, JournalSound, ContainersSound
<1>26. ASSUME NEW h \in Helpers, EnterRollback(h) PROVE InstallerSound'
  BY <1>26, <1>0, RollbackEntered DEF EnterRollback, MayStartRollback, SourceObserved,
     Running, Live, InstallerSound, Started, TypeOK, docker
<1>27. ASSUME NEW h \in Helpers, StopCandidate(h) PROVE InstallerSound'
  BY <1>27, <1>0 DEF StopCandidate, Confirm, Stop, ProcessesDie, Keep, InstallerSound,
     Started, TypeOK, Appliances
<1>28. ASSUME NEW h \in Helpers, RemoveCandidate(h) PROVE InstallerSound'
  BY <1>28, <1>0 DEF RemoveCandidate, At, Confirm, RollbackFailed, Goto, InstallerSound,
     Started, TypeOK, Appliances
<1>29. ASSUME NEW h \in Helpers, RestoreSnapshot(h) PROVE InstallerSound'
  BY <1>29, <1>0 DEF RestoreSnapshot, At, InstallerSound, TypeOK, LockSound
<1>30. ASSUME NEW h \in Helpers, RemoveCandidateEvidence(h) PROVE InstallerSound'
  BY <1>30, <1>0 DEF RemoveCandidateEvidence, At, InstallerSound, TypeOK, LockSound
<1>31. ASSUME NEW h \in Helpers, RestoreOldName(h) PROVE InstallerSound'
  BY <1>31, <1>0 DEF RestoreOldName, At, InstallerSound, TypeOK, LockSound
<1>32. ASSUME NEW h \in Helpers, RestoreOldPolicy(h) PROVE InstallerSound'
  BY <1>32, <1>0 DEF RestoreOldPolicy, At, InstallerSound, TypeOK, LockSound
<1>33. ASSUME NEW h \in Helpers, StartOld(h) PROVE InstallerSound'
  BY <1>33, <1>0 DEF StartOld, Confirm, StartIfStopped, Keep, Running, Live,
     InstallerSound, Started
<1>34. ASSUME NEW h \in Helpers, VerifyOld(h) PROVE InstallerSound'
  BY <1>34, <1>0 DEF VerifyOld, At, InstallerSound, TypeOK, LockSound
<1>35. ASSUME NEW h \in Helpers, CheckpointRollback(h) PROVE InstallerSound'
  BY <1>35, <1>0, RollbackCheckpointed DEF CheckpointRollback, RollbackTarget,
     InstallerSound, TypeOK, Moves
<1>36. ASSUME NEW a \in Appliances, RunBarriers(a) PROVE InstallerSound'
  <2>1. installer \in {"done", "lost"} /\ installer' = installer
    BY <1>36, <1>0 DEF RunBarriers, InstallerSound, ContainersSound, CandidateExists,
       TypeOK, Appliances
  <2>2. QED
    BY <2>1 DEF InstallerSound
<1>37. ASSUME NEW a \in Appliances, Serve(a) PROVE InstallerSound'
  BY <1>37, <1>0 DEF Serve, InstallerSound, ContainersSound, Appliances
<1>38. ASSUME NEW a \in Appliances, NEW h \in Helpers, RemoveExitedHelper(a, h)
       PROVE  InstallerSound'
  BY <1>38, <1>0 DEF RemoveExitedHelper, InstallerSound, Started, volume, docker
<1>39. ASSUME NEW a \in Appliances, ReconcileActive(a) PROVE InstallerSound'
  BY <1>39, <1>0 DEF ReconcileActive, Supervises, Reconciled, Synchronized, SyncTarget,
     InstallerSound, Started, docker
<1>40. ASSUME NEW a \in Appliances, DockerRestart(a) PROVE InstallerSound'
  BY <1>40, <1>0 DEF DockerRestart, Policy, InstallerSound, Started, volume
<1>41. ASSUME NEW a \in Appliances, ApplianceCrash(a) PROVE InstallerSound'
  BY <1>41, <1>0 DEF ApplianceCrash, ProcessesDie, InstallerSound, Started
<1>42. CASE DaemonRestart
  BY <1>42 DEF DaemonRestart, AfterDaemonRestart, Policy, ProcessesDie, InstallerSound,
     Appliances
<1>43. QED
  BY <1>1, <1>2, <1>3, <1>4, <1>5, <1>6, <1>7, <1>8, <1>9, <1>10, <1>11, <1>12, <1>13,
     <1>14, <1>15, <1>16, <1>17, <1>18, <1>19, <1>20, <1>21, <1>22, <1>23, <1>24, <1>25,
     <1>26, <1>27, <1>28, <1>29, <1>30, <1>31, <1>32, <1>33, <1>34, <1>35, <1>36, <1>37,
     <1>38, <1>39, <1>40, <1>41, <1>42 DEF Next, InstallStep, HelperStep, ForwardStep,
     RollbackStep, LauncherStep

\* The containers, the restart policy, the snapshot and the schema of the database are as
\* far as the checkpoint says, in either direction.
LEMMA ContainersPreserved ==
  ASSUME UpdaterInvariant, Next
  PROVE  ContainersSound'
<1>0. /\ TypeOK /\ JournalSound /\ LockSound /\ InstallerSound /\ ContainersSound
      /\ EffectSound /\ OutcomeSound /\ FailureSound
  BY DEF UpdaterInvariant
<1>1. ASSUME NEW h \in Helpers,
             \/ InstallPrepare(h) \/ InstallStart(h) \/ InstallRaises(h)
             \/ StartReplacementHelper(h) \/ CoordinateEnded(h) \/ Disarm(h)
             \/ HelperFails(h) \/ PrepareCandidate(h) \/ RenameOld(h)
             \/ VerifyCandidate(h) \/ AwaitCommit(h) \/ RemoveCandidateEvidence(h)
             \/ RestoreOldName(h)
      PROVE  ContainersSound'
  <2>1. UNCHANGED <<life, db, sourcePolicy, snapshot, journal>>
    BY <1>1 DEF InstallPrepare, InstallStart, InstallRaises, StartReplacementHelper,
       CoordinateEnded, Disarm, HelperFails, PrepareCandidate, RenameOld,
       VerifyCandidate, AwaitCommit, RemoveCandidateEvidence, RestoreOldName, volume,
       docker
  <2>2. QED
    BY <2>1, <1>0 DEF ContainersSound, Fenced, Running, CandidateExists
<1>2. ASSUME NEW a \in Appliances,
             \/ CacheHandoff(a) \/ CleanUp(a)
      PROVE  ContainersSound'
  <2>1. UNCHANGED <<life, db, sourcePolicy, snapshot, journal>>
    BY <1>2 DEF CacheHandoff, CleanUp, Supervises, MayCleanUp, volume, docker
  <2>2. QED
    BY <2>1, <1>0 DEF ContainersSound, Fenced, Running, CandidateExists
<1>3. ASSUME NEW a \in Appliances, NEW h \in Helpers, RemoveExitedHelper(a, h)
      PROVE  ContainersSound'
  <2>1. UNCHANGED <<life, db, sourcePolicy, snapshot, journal>>
    BY <1>3 DEF RemoveExitedHelper, volume, docker
  <2>2. QED
    BY <2>1, <1>0 DEF ContainersSound, Fenced, Running, CandidateExists
<1>4. CASE WriteEvidence
  <2>1. UNCHANGED <<life, db, sourcePolicy, snapshot, journal>>
    BY <1>4 DEF WriteEvidence, volume, docker
  <2>2. QED
    BY <2>1, <1>0 DEF ContainersSound, Fenced, Running, CandidateExists
<1>5. CASE InstallHandoff
  BY <1>5, <1>0 DEF InstallHandoff, ContainersSound, Fenced, Running, CandidateExists,
     docker
<1>6. CASE InstallCleanup
  BY <1>6, <1>0 DEF InstallCleanup, ContainersSound, Fenced, Running, CandidateExists,
     docker
<1>7. ASSUME NEW h \in Helpers, CoordinateRecovery(h) PROVE ContainersSound'
  <2>1. /\ UNCHANGED <<db, sourcePolicy, snapshot>>
        /\ life'["source"] = life["source"]
        /\ \/ life'["candidate"] = life["candidate"]
           \/ life["candidate"] # "missing" /\ life'["candidate"] = "booting"
    BY <1>7, <1>0 DEF CoordinateRecovery, StartIfStopped, Running, Live, Decision,
       CandidateExists, TypeOK, Appliances, docker
  <2>2. QED
    BY <1>7, <1>0, <2>1, RecoveryDecided
    DEF ContainersSound, Fenced, Running, CandidateExists
<1>8. ASSUME NEW h \in Helpers, CoordinateExhausted(h) PROVE ContainersSound'
  BY <1>8, <1>0, RecoveryExhausted DEF CoordinateExhausted, Exhausted, ContainersSound,
     Fenced, Running, CandidateExists, Fencing, Preparing, Switching, Restoring,
     Restarting, docker
<1>9. ASSUME NEW h \in Helpers, EnterForward(h) PROVE ContainersSound'
  BY <1>9, <1>0, ForwardEntered DEF EnterForward, ContainersSound, Fenced, Running,
     CandidateExists, docker
<1>10. ASSUME NEW h \in Helpers, FenceOldRestart(h) PROVE ContainersSound'
  BY <1>10, <1>0 DEF FenceOldRestart, At, ContainersSound, CandidateExists, Fencing,
     Preparing, volume
<1>11. ASSUME NEW h \in Helpers, StopOld(h) PROVE ContainersSound'
  BY <1>11, <1>0 DEF StopOld, At, Stop, ContainersSound, CandidateExists, Fencing,
     Preparing, TypeOK, Appliances
<1>12. ASSUME NEW h \in Helpers, EnsureSnapshot(h) PROVE ContainersSound'
  BY <1>12, <1>0 DEF EnsureSnapshot, At, ContainersSound, Fenced, Running,
     CandidateExists, Preparing, docker
<1>13. ASSUME NEW h \in Helpers, EnsureCandidate(h) PROVE ContainersSound'
  BY <1>13, <1>0 DEF EnsureCandidate, At, ContainersSound, Fenced, Running, Fencing,
     Preparing, Switching, Restarting, RollbackCheckpoints, RollbackNext, volume
<1>14. ASSUME NEW h \in Helpers, StartCandidate(h) PROVE ContainersSound'
  BY <1>14, <1>0 DEF StartCandidate, StartIfStopped, CandidateExists, Running,
     ContainersSound, Fenced
<1>15. ASSUME NEW h \in Helpers, CheckpointForward(h) PROVE ContainersSound'
  <2>1. UNCHANGED <<life, db, sourcePolicy, snapshot>>
    BY <1>15 DEF CheckpointForward, docker
  <2>2. QED
    BY <1>15, <1>0, <2>1, ForwardCheckpointed
    DEF ContainersSound, EffectSound, Moves, Fenced, Running, CandidateExists, Fencing,
       Preparing, Switching, Restoring, Restarting, RollbackCheckpoints, RollbackNext
<1>16. ASSUME NEW h \in Helpers, CleanupOld(h) PROVE ContainersSound'
  BY <1>16, <1>0 DEF CleanupOld, Running, Live, ContainersSound, Fenced,
     CandidateExists, volume
<1>17. ASSUME NEW h \in Helpers, EnterRollback(h) PROVE ContainersSound'
  BY <1>17, <1>0, RollbackEntered DEF EnterRollback, MayStartRollback, SourceObserved,
     Running, ContainersSound, Fenced, CandidateExists, Fencing, Preparing, Switching,
     Restoring, Restarting, docker
<1>18. ASSUME NEW h \in Helpers, StopCandidate(h) PROVE ContainersSound'
  BY <1>18, <1>0 DEF StopCandidate, Stop, Running, Live, ContainersSound, Fenced,
     CandidateExists, TypeOK, Appliances
<1>19. ASSUME NEW h \in Helpers, RemoveCandidate(h) PROVE ContainersSound'
  BY <1>19, <1>0 DEF RemoveCandidate, At, RollbackFailed, Running, ContainersSound,
     Fenced, CandidateExists, Switching, TypeOK, Appliances
<1>20. ASSUME NEW h \in Helpers, RestoreSnapshot(h) PROVE ContainersSound'
  BY <1>20, <1>0 DEF RestoreSnapshot, At, ContainersSound, CandidateExists, Preparing,
     docker
<1>21. ASSUME NEW h \in Helpers, RestoreOldPolicy(h) PROVE ContainersSound'
  BY <1>21, <1>0 DEF RestoreOldPolicy, At, ContainersSound, CandidateExists, Preparing,
     Restoring, Restarting, RollbackCheckpoints, RollbackNext, volume
<1>22. ASSUME NEW h \in Helpers, StartOld(h) PROVE ContainersSound'
  BY <1>22, <1>0 DEF StartOld, At, StartIfStopped, ContainersSound, CandidateExists,
     Preparing, Restoring, Restarting, RollbackCheckpoints, RollbackNext
<1>23. ASSUME NEW h \in Helpers, VerifyOld(h) PROVE ContainersSound'
  BY <1>23, <1>0 DEF VerifyOld, At, RollbackFailed, ContainersSound, CandidateExists,
     Preparing, Restoring, Restarting, RollbackCheckpoints, RollbackNext, TypeOK, docker
<1>24. ASSUME NEW h \in Helpers, CheckpointRollback(h) PROVE ContainersSound'
  <2>1. UNCHANGED <<life, db, sourcePolicy, snapshot>>
    BY <1>24 DEF CheckpointRollback, docker
  <2>2. QED
    BY <1>24, <1>0, <2>1, RollbackCheckpointed
    DEF ContainersSound, EffectSound, Moves, Fenced, Running, CandidateExists, Fencing,
       Preparing, Switching, Restoring, Restarting, RollbackCheckpoints, RollbackNext
<1>25. ASSUME NEW a \in Appliances, RunBarriers(a) PROVE ContainersSound'
  BY <1>25, <1>0 DEF RunBarriers, Reconciled, Synchronized, SyncTarget, ContainersSound,
     Fenced, Running, Live, CandidateExists, TypeOK, Appliances, Database
<1>26. ASSUME NEW a \in Appliances, Serve(a) PROVE ContainersSound'
  BY <1>26, <1>0 DEF Serve, ContainersSound, Fenced, Running, Live, CandidateExists,
     volume
<1>27. ASSUME NEW a \in Appliances, ReconcileActive(a) PROVE ContainersSound'
  BY <1>27, <1>0 DEF ReconcileActive, Supervises, Reconciled, Synchronized, SyncTarget,
     ContainersSound, Fenced, Running, CandidateExists, docker
<1>28. ASSUME NEW a \in Appliances, DockerRestart(a) PROVE ContainersSound'
  BY <1>28, <1>0 DEF DockerRestart, Policy, ContainersSound, Fenced, Running,
     CandidateExists, volume
<1>29. ASSUME NEW a \in Appliances, ApplianceCrash(a) PROVE ContainersSound'
  BY <1>29, <1>0 DEF ApplianceCrash, Running, Live, ContainersSound, Fenced,
     CandidateExists
<1>30. CASE DaemonRestart
  BY <1>30, <1>0 DEF DaemonRestart, AfterDaemonRestart, Policy, Live, ContainersSound,
     Fenced, Running, CandidateExists, Appliances
<1>31. QED
  BY <1>1, <1>2, <1>3, <1>4, <1>5, <1>6, <1>7, <1>8, <1>9, <1>10, <1>11, <1>12, <1>13,
     <1>14, <1>15, <1>16, <1>17, <1>18, <1>19, <1>20, <1>21, <1>22, <1>23, <1>24, <1>25,
     <1>26, <1>27, <1>28, <1>29, <1>30 DEF Next, InstallStep, HelperStep, ForwardStep,
     RollbackStep, LauncherStep

\* What a helper has confirmed remains so until it has recorded the checkpoint.
LEMMA EffectPreserved ==
  ASSUME UpdaterInvariant, Next
  PROVE  EffectSound'
<1>0. /\ TypeOK /\ JournalSound /\ LockSound /\ InstallerSound /\ ContainersSound
      /\ EffectSound /\ OutcomeSound /\ FailureSound
  BY DEF UpdaterInvariant
<1>1. ASSUME NEW a \in Appliances, CacheHandoff(a)
      PROVE  EffectSound'
  <2>1. UNCHANGED <<helper, journal, sourcePolicy, life, snapshot, db, handoff, marker, evidence>>
    BY <1>1 DEF CacheHandoff, volume, docker
  <2>2. QED
    BY <2>1, <1>0 DEF EffectSound, Running, CandidateExists, CommitConfirmed
<1>2. ASSUME NEW h \in Helpers, InstallPrepare(h) PROVE EffectSound'
  BY <1>2, <1>0 DEF InstallPrepare, EffectSound, LockSound, InstallerSound
<1>3. CASE InstallHandoff
  BY <1>3, <1>0 DEF InstallHandoff, EffectSound, LockSound, InstallerSound
<1>4. ASSUME NEW h \in Helpers, InstallStart(h) PROVE EffectSound'
  BY <1>4, <1>0 DEF InstallStart, EffectSound, LockSound, InstallerSound
<1>5. ASSUME NEW h \in Helpers, InstallRaises(h) PROVE EffectSound'
  BY <1>5, <1>0 DEF InstallRaises, EffectSound, LockSound, InstallerSound, TypeOK
<1>6. CASE InstallCleanup
  BY <1>6, <1>0 DEF InstallCleanup, EffectSound, Running, CandidateExists,
     CommitConfirmed, docker
<1>7. ASSUME NEW h \in Helpers, StartReplacementHelper(h) PROVE EffectSound'
  BY <1>7, <1>0 DEF StartReplacementHelper, EffectSound, Running, CandidateExists,
     CommitConfirmed, volume, docker
<1>8. ASSUME NEW h \in Helpers, CoordinateEnded(h) PROVE EffectSound'
  BY <1>8, <1>0 DEF CoordinateEnded, MayCoordinate, Goto, EffectSound, CommitConfirmed,
     LockSound, OutcomeSound, TypeOK
<1>9. ASSUME NEW h \in Helpers, CoordinateRecovery(h) PROVE EffectSound'
  <2>1. \A g \in Helpers : ~helper'[g].did
    BY <1>9, <1>0, RecoveryDecided DEF LockSound, Holds, Outside
  <2>2. QED
    BY <2>1 DEF EffectSound
<1>10. ASSUME NEW h \in Helpers, CoordinateExhausted(h) PROVE EffectSound'
  BY <1>10, <1>0, RecoveryExhausted DEF CoordinateExhausted, Exhausted, EffectSound,
     LockSound, Holds, Outside
<1>11. ASSUME NEW h \in Helpers, Disarm(h) PROVE EffectSound'
  BY <1>11, <1>0 DEF Disarm, Goto, EffectSound, LockSound, TypeOK, Holds, Outside
<1>12. ASSUME NEW h \in Helpers, HelperFails(h) PROVE EffectSound'
  BY <1>12, <1>0 DEF HelperFails, Goto, Holds, Outside, EffectSound, LockSound, TypeOK
<1>13. ASSUME NEW h \in Helpers, EnterForward(h) PROVE EffectSound'
  <2>1. \A g \in Helpers : ~helper'[g].did
    BY <1>13, <1>0, ForwardEntered DEF LockSound, Holds, Outside
  <2>2. QED
    BY <2>1 DEF EffectSound
<1>14. ASSUME NEW h \in Helpers, FenceOldRestart(h) PROVE EffectSound'
  BY <1>14 DEF FenceOldRestart, At, EffectSound, volume
<1>15. ASSUME NEW h \in Helpers, StopOld(h) PROVE EffectSound'
  BY <1>15, <1>0 DEF StopOld, At, Stop, Running, Live, EffectSound, TypeOK, Appliances
<1>16. ASSUME NEW h \in Helpers, PrepareCandidate(h) PROVE EffectSound'
  BY <1>16 DEF PrepareCandidate, At, EffectSound
<1>17. ASSUME NEW h \in Helpers, EnsureSnapshot(h) PROVE EffectSound'
  BY <1>17, <1>0 DEF EnsureSnapshot, At, Goto, EffectSound, TypeOK, Database, NoSnapshot
<1>18. ASSUME NEW h \in Helpers, RenameOld(h) PROVE EffectSound'
  BY <1>18 DEF RenameOld, At, EffectSound, volume
<1>19. ASSUME NEW h \in Helpers, EnsureCandidate(h) PROVE EffectSound'
  BY <1>19, <1>0 DEF EnsureCandidate, At, CandidateExists, EffectSound, TypeOK,
     Appliances, volume
<1>20. ASSUME NEW h \in Helpers, StartCandidate(h) PROVE EffectSound'
  BY <1>20 DEF StartCandidate, At, EffectSound
<1>21. ASSUME NEW h \in Helpers, VerifyCandidate(h) PROVE EffectSound'
  BY <1>21, <1>0 DEF VerifyCandidate, At, Goto, EffectSound, ContainersSound, TypeOK,
     volume
<1>22. ASSUME NEW h \in Helpers, AwaitCommit(h) PROVE EffectSound'
  BY <1>22, <1>0 DEF AwaitCommit, At, Goto, EffectSound, CommitConfirmed, TypeOK, volume
<1>23. ASSUME NEW h \in Helpers, CheckpointForward(h) PROVE EffectSound'
  BY <1>23, <1>0, ForwardCheckpointed DEF CheckpointForward, Goto, EffectSound,
     LockSound, TypeOK, Holds, Outside
<1>24. ASSUME NEW h \in Helpers, CleanupOld(h) PROVE EffectSound'
  BY <1>24, <1>0 DEF CleanupOld, Goto, EffectSound, LockSound, TypeOK, Holds, Outside
<1>25. ASSUME NEW h \in Helpers, EnterRollback(h) PROVE EffectSound'
  BY <1>25, <1>0, RollbackEntered DEF EnterRollback, MayStartRollback, SourceObserved,
     EffectSound, LockSound, TypeOK, Holds, Outside
<1>26. ASSUME NEW h \in Helpers, StopCandidate(h) PROVE EffectSound'
  BY <1>26 DEF StopCandidate, At, Stop, EffectSound
<1>27. ASSUME NEW h \in Helpers, RemoveCandidate(h) PROVE EffectSound'
  BY <1>27, <1>0 DEF RemoveCandidate, At, RollbackFailed, Goto, EffectSound,
     CandidateExists, TypeOK, Appliances
<1>28. ASSUME NEW h \in Helpers, RestoreSnapshot(h) PROVE EffectSound'
  BY <1>28, <1>0 DEF RestoreSnapshot, At, EffectSound, ContainersSound, TypeOK, Database
<1>29. ASSUME NEW h \in Helpers, RemoveCandidateEvidence(h) PROVE EffectSound'
  BY <1>29 DEF RemoveCandidateEvidence, At, EffectSound
<1>30. ASSUME NEW h \in Helpers, RestoreOldName(h) PROVE EffectSound'
  BY <1>30 DEF RestoreOldName, At, EffectSound, volume
<1>31. ASSUME NEW h \in Helpers, RestoreOldPolicy(h) PROVE EffectSound'
  BY <1>31 DEF RestoreOldPolicy, At, EffectSound, volume
<1>32. ASSUME NEW h \in Helpers, StartOld(h) PROVE EffectSound'
  BY <1>32 DEF StartOld, At, EffectSound
<1>33. ASSUME NEW h \in Helpers, VerifyOld(h) PROVE EffectSound'
  BY <1>33, <1>0 DEF VerifyOld, At, RollbackFailed, EffectSound, TypeOK
<1>34. ASSUME NEW h \in Helpers, CheckpointRollback(h) PROVE EffectSound'
  BY <1>34, <1>0, RollbackCheckpointed DEF CheckpointRollback, Goto, RollbackTarget,
     EffectSound, LockSound, TypeOK, Holds, Outside
<1>35. ASSUME NEW a \in Appliances, RunBarriers(a) PROVE EffectSound'
  BY <1>35, <1>0 DEF RunBarriers, Reconciled, Synchronized, SyncTarget, EffectSound,
     ContainersSound, Running, Live, CandidateExists, CommitConfirmed, TypeOK,
     Appliances, Database
<1>36. ASSUME NEW a \in Appliances, Serve(a) PROVE EffectSound'
  BY <1>36, <1>0 DEF Serve, EffectSound, Running, Live, CandidateExists,
     CommitConfirmed, volume
<1>37. CASE WriteEvidence
  BY <1>37, <1>0 DEF WriteEvidence, EffectSound, ContainersSound, CandidateExists,
     CommitConfirmed, Fencing, docker
<1>38. ASSUME NEW a \in Appliances, NEW h \in Helpers, RemoveExitedHelper(a, h)
       PROVE  EffectSound'
  BY <1>38, <1>0 DEF RemoveExitedHelper, EffectSound, Running, CandidateExists,
     CommitConfirmed, volume, docker
<1>39. ASSUME NEW a \in Appliances, ReconcileActive(a) PROVE EffectSound'
  BY <1>39, <1>0 DEF ReconcileActive, Supervises, Reconciled, Synchronized, SyncTarget,
     EffectSound, Running, CandidateExists, CommitConfirmed, docker
<1>40. ASSUME NEW a \in Appliances, CleanUp(a) PROVE EffectSound'
  BY <1>40, <1>0 DEF CleanUp, Supervises, MayCleanUp, EffectSound, CommitConfirmed,
     JournalSound, OutcomeSound
<1>41. ASSUME NEW a \in Appliances, DockerRestart(a) PROVE EffectSound'
  BY <1>41, <1>0 DEF DockerRestart, Policy, EffectSound, ContainersSound,
     CandidateExists, CommitConfirmed, Fencing, Appliances, volume
<1>42. ASSUME NEW a \in Appliances, ApplianceCrash(a) PROVE EffectSound'
  BY <1>42, <1>0 DEF ApplianceCrash, ProcessesDie, Running, Live, EffectSound,
     CandidateExists, CommitConfirmed
<1>43. CASE DaemonRestart
  BY <1>43, <1>0 DEF DaemonRestart, AfterDaemonRestart, Policy, Holds, Outside,
     EffectSound, LockSound
<1>44. QED
  BY <1>1, <1>2, <1>3, <1>4, <1>5, <1>6, <1>7, <1>8, <1>9, <1>10, <1>11, <1>12, <1>13,
     <1>14, <1>15, <1>16, <1>17, <1>18, <1>19, <1>20, <1>21, <1>22, <1>23, <1>24, <1>25,
     <1>26, <1>27, <1>28, <1>29, <1>30, <1>31, <1>32, <1>33, <1>34, <1>35, <1>36, <1>37,
     <1>38, <1>39, <1>40, <1>41, <1>42, <1>43 DEF Next, InstallStep, HelperStep,
     ForwardStep, RollbackStep, LauncherStep

\* The database gets a final status only from a journal that holds this decision, and a
\* snapshot never has one.
LEMMA OutcomePreserved ==
  ASSUME UpdaterInvariant, Next
  PROVE  OutcomeSound'
<1>0. /\ TypeOK /\ JournalSound /\ LockSound /\ InstallerSound /\ ContainersSound
      /\ EffectSound /\ OutcomeSound /\ FailureSound
  BY DEF UpdaterInvariant
<1>1. ASSUME NEW h \in Helpers,
             \/ InstallStart(h) \/ InstallRaises(h) \/ StartReplacementHelper(h)
             \/ CoordinateEnded(h) \/ Disarm(h) \/ HelperFails(h)
             \/ FenceOldRestart(h) \/ RenameOld(h) \/ EnsureCandidate(h)
             \/ VerifyCandidate(h) \/ AwaitCommit(h) \/ CleanupOld(h)
             \/ RestoreOldName(h) \/ RestoreOldPolicy(h)
      PROVE  OutcomeSound'
  <2>1. UNCHANGED <<journal, snapshot, db, handoff, marker, evidence>>
    BY <1>1 DEF InstallStart, InstallRaises, StartReplacementHelper, CoordinateEnded,
       Disarm, HelperFails, FenceOldRestart, RenameOld, EnsureCandidate,
       VerifyCandidate, AwaitCommit, CleanupOld, RestoreOldName, RestoreOldPolicy,
       volume
  <2>2. QED
    BY <2>1, <1>0 DEF OutcomeSound, CommitConfirmed
<1>2. ASSUME NEW a \in Appliances,
             \/ Serve(a) \/ CacheHandoff(a) \/ DockerRestart(a)
      PROVE  OutcomeSound'
  <2>1. UNCHANGED <<journal, snapshot, db, handoff, marker, evidence>>
    BY <1>2 DEF Serve, CacheHandoff, DockerRestart, Policy, volume
  <2>2. QED
    BY <2>1, <1>0 DEF OutcomeSound, CommitConfirmed
<1>3. ASSUME NEW a \in Appliances, NEW h \in Helpers, RemoveExitedHelper(a, h)
      PROVE  OutcomeSound'
  <2>1. UNCHANGED <<journal, snapshot, db, handoff, marker, evidence>>
    BY <1>3 DEF RemoveExitedHelper, volume
  <2>2. QED
    BY <2>1, <1>0 DEF OutcomeSound, CommitConfirmed
<1>4. ASSUME NEW h \in Helpers, InstallPrepare(h) PROVE OutcomeSound'
  BY <1>4, <1>0 DEF InstallPrepare, OutcomeSound, InstallerSound
<1>5. CASE InstallHandoff
  BY <1>5, <1>0 DEF InstallHandoff, OutcomeSound, InstallerSound
<1>6. CASE InstallCleanup
  BY <1>6, <1>0 DEF InstallCleanup, OutcomeSound, CommitConfirmed
<1>7. ASSUME NEW h \in Helpers, CoordinateRecovery(h) PROVE OutcomeSound'
  BY <1>7, <1>0, RecoveryDecided DEF CoordinateRecovery, Exhausted, Decision,
     SourceObserved, OutcomeSound, TerminalJournal
<1>8. ASSUME NEW h \in Helpers, CoordinateExhausted(h) PROVE OutcomeSound'
  BY <1>8, <1>0, RecoveryExhausted DEF CoordinateExhausted, Exhausted, OutcomeSound
<1>9. ASSUME NEW h \in Helpers, EnterForward(h) PROVE OutcomeSound'
  BY <1>9, <1>0, ForwardEntered DEF EnterForward, OutcomeSound, CommitConfirmed
<1>10. ASSUME NEW h \in Helpers, StopOld(h) PROVE OutcomeSound'
  BY <1>10, <1>0 DEF StopOld, Stop, ProcessesDie, Keep, OutcomeSound, CommitConfirmed
<1>11. ASSUME NEW h \in Helpers, PrepareCandidate(h) PROVE OutcomeSound'
  BY <1>11, <1>0 DEF PrepareCandidate, At, OutcomeSound, JournalSound
<1>12. ASSUME NEW h \in Helpers, EnsureSnapshot(h) PROVE OutcomeSound'
  BY <1>12, <1>0 DEF EnsureSnapshot, At, OutcomeSound, JournalSound, LockSound
<1>13. ASSUME NEW h \in Helpers, StartCandidate(h) PROVE OutcomeSound'
  BY <1>13, <1>0 DEF StartCandidate, StartIfStopped, Keep, OutcomeSound, CommitConfirmed
<1>14. ASSUME NEW h \in Helpers, CheckpointForward(h) PROVE OutcomeSound'
  BY <1>14, <1>0, ForwardCheckpointed DEF CheckpointForward, OutcomeSound,
     CommitConfirmed, EffectSound, Moves
<1>15. ASSUME NEW h \in Helpers, EnterRollback(h) PROVE OutcomeSound'
  BY <1>15, <1>0, RollbackEntered DEF EnterRollback, MayStartRollback, SourceObserved,
     OutcomeSound, CommitConfirmed
<1>16. ASSUME NEW h \in Helpers, StopCandidate(h) PROVE OutcomeSound'
  BY <1>16, <1>0 DEF StopCandidate, Stop, ProcessesDie, Keep, OutcomeSound,
     CommitConfirmed
<1>17. ASSUME NEW h \in Helpers, RemoveCandidate(h) PROVE OutcomeSound'
  BY <1>17, <1>0 DEF RemoveCandidate, RollbackFailed, OutcomeSound, CommitConfirmed,
     TypeOK
<1>18. ASSUME NEW h \in Helpers, RestoreSnapshot(h) PROVE OutcomeSound'
  BY <1>18, <1>0 DEF RestoreSnapshot, At, OutcomeSound, LockSound
<1>19. ASSUME NEW h \in Helpers, RemoveCandidateEvidence(h) PROVE OutcomeSound'
  BY <1>19, <1>0 DEF RemoveCandidateEvidence, OutcomeSound, CommitConfirmed
<1>20. ASSUME NEW h \in Helpers, StartOld(h) PROVE OutcomeSound'
  BY <1>20, <1>0 DEF StartOld, StartIfStopped, Keep, OutcomeSound, CommitConfirmed
<1>21. ASSUME NEW h \in Helpers, VerifyOld(h) PROVE OutcomeSound'
  BY <1>21, <1>0 DEF VerifyOld, RollbackFailed, OutcomeSound, CommitConfirmed, TypeOK
<1>22. ASSUME NEW h \in Helpers, CheckpointRollback(h) PROVE OutcomeSound'
  BY <1>22, <1>0, RollbackCheckpointed DEF CheckpointRollback, RollbackTarget,
     OutcomeSound, Moves
<1>23. ASSUME NEW a \in Appliances, RunBarriers(a) PROVE OutcomeSound'
  BY <1>23, <1>0 DEF RunBarriers, Reconciled, Synchronized, SyncTarget, OutcomeSound,
     CommitConfirmed, TypeOK, Database
<1>24. CASE WriteEvidence
  BY <1>24, <1>0 DEF WriteEvidence, OutcomeSound, CommitConfirmed
<1>25. ASSUME NEW a \in Appliances, ReconcileActive(a) PROVE OutcomeSound'
  BY <1>25, <1>0 DEF ReconcileActive, Supervises, Reconciled, Synchronized, SyncTarget,
     OutcomeSound
<1>26. ASSUME NEW a \in Appliances, CleanUp(a) PROVE OutcomeSound'
  BY <1>26, <1>0 DEF CleanUp, Supervises, MayCleanUp, OutcomeSound, CommitConfirmed
<1>27. ASSUME NEW a \in Appliances, ApplianceCrash(a) PROVE OutcomeSound'
  BY <1>27, <1>0 DEF ApplianceCrash, ProcessesDie, OutcomeSound, CommitConfirmed
<1>28. CASE DaemonRestart
  BY <1>28, <1>0 DEF DaemonRestart, AfterDaemonRestart, Policy, ProcessesDie,
     OutcomeSound, CommitConfirmed
<1>29. QED
  BY <1>1, <1>2, <1>3, <1>4, <1>5, <1>6, <1>7, <1>8, <1>9, <1>10, <1>11, <1>12, <1>13,
     <1>14, <1>15, <1>16, <1>17, <1>18, <1>19, <1>20, <1>21, <1>22, <1>23, <1>24, <1>25,
     <1>26, <1>27, <1>28 DEF Next, InstallStep, HelperStep, ForwardStep, RollbackStep,
     LauncherStep

\* An operation that the installer gave up has no snapshot, and no helper that could still
\* take one.
LEMMA FailurePreserved ==
  ASSUME UpdaterInvariant, Next
  PROVE  FailureSound'
<1>0. /\ TypeOK /\ JournalSound /\ LockSound /\ InstallerSound /\ ContainersSound
      /\ EffectSound /\ OutcomeSound /\ FailureSound
  BY DEF UpdaterInvariant
<1>1. ASSUME NEW a \in Appliances,
             \/ CacheHandoff(a) \/ Serve(a) \/ DockerRestart(a)
      PROVE  FailureSound'
  <2>1. UNCHANGED <<journal, snapshot, db, handoff, installer, helper>>
    BY <1>1 DEF CacheHandoff, Serve, DockerRestart, Policy, volume
  <2>2. QED
    BY <2>1, <1>0 DEF FailureSound
<1>2. CASE WriteEvidence
  <2>1. UNCHANGED <<journal, snapshot, db, handoff, installer, helper>>
    BY <1>2 DEF WriteEvidence, volume
  <2>2. QED
    BY <2>1, <1>0 DEF FailureSound
<1>3. ASSUME NEW h \in Helpers, InstallPrepare(h) PROVE FailureSound'
  BY <1>3, <1>0 DEF InstallPrepare, FailureSound
<1>4. CASE InstallHandoff
  BY <1>4, <1>0 DEF InstallHandoff, FailureSound
<1>5. ASSUME NEW h \in Helpers, InstallStart(h) PROVE FailureSound'
  BY <1>5, <1>0 DEF InstallStart, FailureSound, volume
<1>6. ASSUME NEW h \in Helpers, InstallRaises(h) PROVE FailureSound'
  BY <1>6, <1>0 DEF InstallRaises, FailureSound, volume
<1>7. CASE InstallCleanup
  BY <1>7, <1>0 DEF InstallCleanup, FailureSound, InstallerSound, Started
<1>8. ASSUME NEW h \in Helpers, StartReplacementHelper(h) PROVE FailureSound'
  BY <1>8, <1>0 DEF StartReplacementHelper, FailureSound, volume
<1>9. ASSUME NEW h \in Helpers, CoordinateEnded(h) PROVE FailureSound'
  BY <1>9, <1>0 DEF CoordinateEnded, MayCoordinate, FailureSound, volume
<1>10. ASSUME NEW h \in Helpers, CoordinateRecovery(h) PROVE FailureSound'
  BY <1>10, <1>0, RecoveryDecided DEF CoordinateRecovery, MayCoordinate, Exhausted,
     Decision, SourceObserved, FailureSound
<1>11. ASSUME NEW h \in Helpers, CoordinateExhausted(h) PROVE FailureSound'
  BY <1>11, <1>0, RecoveryExhausted DEF CoordinateExhausted, Exhausted, FailureSound
<1>12. ASSUME NEW h \in Helpers, Disarm(h) PROVE FailureSound'
  BY <1>12, <1>0 DEF Disarm, FailureSound, volume
<1>13. ASSUME NEW h \in Helpers, HelperFails(h) PROVE FailureSound'
  BY <1>13, <1>0 DEF HelperFails, Holds, Outside, FailureSound, volume
<1>14. ASSUME NEW h \in Helpers, EnterForward(h) PROVE FailureSound'
  BY <1>14, <1>0, ForwardEntered DEF EnterForward, FailureSound
<1>15. ASSUME NEW h \in Helpers, FenceOldRestart(h) PROVE FailureSound'
  BY <1>15, <1>0 DEF FenceOldRestart, Confirm, FailureSound, volume
<1>16. ASSUME NEW h \in Helpers, StopOld(h) PROVE FailureSound'
  BY <1>16, <1>0 DEF StopOld, Confirm, Stop, ProcessesDie, Keep, FailureSound
<1>17. ASSUME NEW h \in Helpers, PrepareCandidate(h) PROVE FailureSound'
  BY <1>17, <1>0 DEF PrepareCandidate, Confirm, FailureSound
<1>18. ASSUME NEW h \in Helpers, EnsureSnapshot(h) PROVE FailureSound'
  BY <1>18, <1>0 DEF EnsureSnapshot, At, FailureSound
<1>19. ASSUME NEW h \in Helpers, RenameOld(h) PROVE FailureSound'
  BY <1>19, <1>0 DEF RenameOld, Confirm, FailureSound, volume
<1>20. ASSUME NEW h \in Helpers, EnsureCandidate(h) PROVE FailureSound'
  BY <1>20, <1>0 DEF EnsureCandidate, Confirm, FailureSound, volume
<1>21. ASSUME NEW h \in Helpers, StartCandidate(h) PROVE FailureSound'
  BY <1>21, <1>0 DEF StartCandidate, Confirm, StartIfStopped, Keep, FailureSound
<1>22. ASSUME NEW h \in Helpers, VerifyCandidate(h) PROVE FailureSound'
  BY <1>22, <1>0 DEF VerifyCandidate, FailureSound, volume
<1>23. ASSUME NEW h \in Helpers, AwaitCommit(h) PROVE FailureSound'
  BY <1>23, <1>0 DEF AwaitCommit, FailureSound, volume
<1>24. ASSUME NEW h \in Helpers, CheckpointForward(h) PROVE FailureSound'
  BY <1>24, <1>0, ForwardCheckpointed DEF CheckpointForward, FailureSound
<1>25. ASSUME NEW h \in Helpers, CleanupOld(h) PROVE FailureSound'
  BY <1>25, <1>0 DEF CleanupOld, FailureSound, volume
<1>26. ASSUME NEW h \in Helpers, EnterRollback(h) PROVE FailureSound'
  BY <1>26, <1>0, RollbackEntered DEF EnterRollback, MayStartRollback, SourceObserved,
     FailureSound
<1>27. ASSUME NEW h \in Helpers, StopCandidate(h) PROVE FailureSound'
  BY <1>27, <1>0 DEF StopCandidate, Confirm, Stop, ProcessesDie, Keep, FailureSound
<1>28. ASSUME NEW h \in Helpers, RemoveCandidate(h) PROVE FailureSound'
  BY <1>28, <1>0 DEF RemoveCandidate, At, FailureSound
<1>29. ASSUME NEW h \in Helpers, RestoreSnapshot(h) PROVE FailureSound'
  BY <1>29, <1>0 DEF RestoreSnapshot, Confirm, FailureSound
<1>30. ASSUME NEW h \in Helpers, RemoveCandidateEvidence(h) PROVE FailureSound'
  BY <1>30, <1>0 DEF RemoveCandidateEvidence, Confirm, FailureSound
<1>31. ASSUME NEW h \in Helpers, RestoreOldName(h) PROVE FailureSound'
  BY <1>31, <1>0 DEF RestoreOldName, Confirm, FailureSound, volume
<1>32. ASSUME NEW h \in Helpers, RestoreOldPolicy(h) PROVE FailureSound'
  BY <1>32, <1>0 DEF RestoreOldPolicy, Confirm, FailureSound, volume
<1>33. ASSUME NEW h \in Helpers, StartOld(h) PROVE FailureSound'
  BY <1>33, <1>0 DEF StartOld, Confirm, StartIfStopped, Keep, FailureSound
<1>34. ASSUME NEW h \in Helpers, VerifyOld(h) PROVE FailureSound'
  BY <1>34, <1>0 DEF VerifyOld, At, FailureSound
<1>35. ASSUME NEW h \in Helpers, CheckpointRollback(h) PROVE FailureSound'
  BY <1>35, <1>0, RollbackCheckpointed DEF CheckpointRollback, RollbackTarget,
     FailureSound
<1>36. ASSUME NEW a \in Appliances, RunBarriers(a) PROVE FailureSound'
  BY <1>36, <1>0 DEF RunBarriers, Reconciled, Synchronized, SyncTarget, FailureSound,
     TypeOK, Database
<1>37. ASSUME NEW a \in Appliances, NEW h \in Helpers, RemoveExitedHelper(a, h)
       PROVE  FailureSound'
  BY <1>37, <1>0 DEF RemoveExitedHelper, FailureSound, volume
<1>38. ASSUME NEW a \in Appliances, ReconcileActive(a) PROVE FailureSound'
  BY <1>38, <1>0 DEF ReconcileActive, Supervises, Reconciled, Synchronized, SyncTarget,
     FailureSound
<1>39. ASSUME NEW a \in Appliances, CleanUp(a) PROVE FailureSound'
  BY <1>39, <1>0 DEF CleanUp, Supervises, MayCleanUp, FailureSound
<1>40. ASSUME NEW a \in Appliances, ApplianceCrash(a) PROVE FailureSound'
  BY <1>40, <1>0 DEF ApplianceCrash, ProcessesDie, FailureSound
<1>41. CASE DaemonRestart
  BY <1>41, <1>0 DEF DaemonRestart, AfterDaemonRestart, Policy, ProcessesDie, Holds,
     Outside, FailureSound
<1>42. QED
  BY <1>1, <1>2, <1>3, <1>4, <1>5, <1>6, <1>7, <1>8, <1>9, <1>10, <1>11, <1>12, <1>13,
     <1>14, <1>15, <1>16, <1>17, <1>18, <1>19, <1>20, <1>21, <1>22, <1>23, <1>24, <1>25,
     <1>26, <1>27, <1>28, <1>29, <1>30, <1>31, <1>32, <1>33, <1>34, <1>35, <1>36, <1>37,
     <1>38, <1>39, <1>40, <1>41 DEF Next, InstallStep, HelperStep, ForwardStep,
     RollbackStep, LauncherStep

\* The fields of the journal.
LEMMA JournalTyped ==
  ASSUME UpdaterInvariant, Next
  PROVE  JournalType'
<1>0. /\ TypeOK /\ JournalSound /\ LockSound /\ InstallerSound /\ ContainersSound
      /\ EffectSound /\ OutcomeSound /\ FailureSound
  BY DEF UpdaterInvariant
<1>1. ASSUME NEW h \in Helpers,
             \/ InstallPrepare(h) \/ InstallStart(h) \/ InstallRaises(h)
             \/ StartReplacementHelper(h) \/ CoordinateEnded(h) \/ Disarm(h)
             \/ HelperFails(h) \/ FenceOldRestart(h) \/ StopOld(h)
             \/ PrepareCandidate(h) \/ EnsureSnapshot(h) \/ RenameOld(h)
             \/ EnsureCandidate(h) \/ StartCandidate(h) \/ VerifyCandidate(h)
             \/ AwaitCommit(h) \/ CleanupOld(h) \/ StopCandidate(h)
             \/ RestoreSnapshot(h) \/ RemoveCandidateEvidence(h) \/ RestoreOldName(h)
             \/ RestoreOldPolicy(h) \/ StartOld(h)
      PROVE  JournalType'
  <2>1. UNCHANGED <<journal>>
    BY <1>1 DEF InstallPrepare, InstallStart, InstallRaises, StartReplacementHelper,
       CoordinateEnded, Disarm, HelperFails, FenceOldRestart, StopOld, Stop,
       PrepareCandidate, EnsureSnapshot, RenameOld, EnsureCandidate, StartCandidate,
       VerifyCandidate, AwaitCommit, CleanupOld, StopCandidate, RestoreSnapshot,
       RemoveCandidateEvidence, RestoreOldName, RestoreOldPolicy, StartOld, volume
  <2>2. QED
    BY <2>1, <1>0 DEF JournalType, TypeOK
<1>2. ASSUME NEW a \in Appliances,
             \/ RunBarriers(a) \/ Serve(a) \/ CacheHandoff(a) \/ ReconcileActive(a)
             \/ CleanUp(a) \/ DockerRestart(a) \/ ApplianceCrash(a)
      PROVE  JournalType'
  <2>1. UNCHANGED <<journal>>
    BY <1>2 DEF RunBarriers, Reconciled, Synchronized, SyncTarget, Serve, CacheHandoff,
       ReconcileActive, Supervises, CleanUp, MayCleanUp, DockerRestart, Policy,
       ApplianceCrash, volume
  <2>2. QED
    BY <2>1, <1>0 DEF JournalType, TypeOK
<1>3. ASSUME NEW a \in Appliances, NEW h \in Helpers, RemoveExitedHelper(a, h)
      PROVE  JournalType'
  <2>1. UNCHANGED <<journal>>
    BY <1>3 DEF RemoveExitedHelper, volume
  <2>2. QED
    BY <2>1, <1>0 DEF JournalType, TypeOK
<1>4. CASE \/ InstallHandoff \/ InstallCleanup \/ WriteEvidence \/ DaemonRestart
  <2>1. UNCHANGED <<journal>>
    BY <1>4 DEF InstallHandoff, InstallCleanup, WriteEvidence, Policy, DaemonRestart,
       AfterDaemonRestart, volume
  <2>2. QED
    BY <2>1, <1>0 DEF JournalType, TypeOK
<1>5. ASSUME NEW h \in Helpers, CoordinateRecovery(h) PROVE JournalType'
  <2> DEFINE written(generation, owner) ==
               [status |-> journal.status, checkpoint |-> journal.checkpoint,
                generation |-> generation, owner |-> owner]
  <2>1. journal = written(journal.generation, journal.owner)
        /\ journal.status \in JournalStatuses
        /\ journal.checkpoint \in ForwardCheckpoints \cup RollbackCheckpoints
        /\ journal.generation \in 0..MaxGeneration /\ journal.owner \in Helpers \cup {NoHelper}
    BY <1>0 DEF TypeOK
  <2>2. \/ journal' = journal
        \/ /\ ~(journal.generation >= MaxGeneration)
           /\ journal' = [journal EXCEPT !.owner = h, !.generation = @ + 1]
    BY <1>5 DEF CoordinateRecovery, Exhausted, MustTakeOver
  <2>3. CASE journal' = journal
    BY <2>1, <2>3 DEF JournalType
  <2>4. CASE ~(journal.generation >= MaxGeneration)
             /\ journal' = [journal EXCEPT !.owner = h, !.generation = @ + 1]
    <3>1. journal' = written(journal.generation + 1, h)
      BY <2>1, <2>4
    <3>2. journal.generation + 1 \in 0..MaxGeneration
      BY <2>1, <2>4, UpdaterAssumption
    <3>3. QED
      BY <2>1, <3>1, <3>2 DEF JournalType
  <2>5. QED
    BY <2>2, <2>3, <2>4
<1>6. ASSUME NEW h \in Helpers, CoordinateExhausted(h) PROVE JournalType'
  BY <1>6, <1>0, UpdaterAssumption DEF CoordinateExhausted, MayCoordinate, Exhausted,
     JournalType, TypeOK, ForwardCheckpoints, RollbackCheckpoints, ForwardNext,
     RollbackNext, JournalStatuses
<1>7. ASSUME NEW h \in Helpers, EnterForward(h) PROVE JournalType'
  BY <1>7, <1>0, UpdaterAssumption DEF EnterForward, JournalType, TypeOK,
     ForwardCheckpoints, ForwardNext, JournalStatuses
<1>8. ASSUME NEW h \in Helpers, CheckpointForward(h) PROVE JournalType'
  <2>1. /\ journal' = ForwardTarget /\ (helper[h].did \/ NoForwardEffect)
        /\ journal.status \in {"snapshotting", "switching", "verifying", "commit_requested"}
    BY <1>8, <1>0 DEF LockSound, CheckpointForward
  <2>2. CASE \/ journal.checkpoint = "commit_requested"
             \/ journal.checkpoint = "candidate_started" /\ journal.status = "switching"
    BY <1>0, <2>1, <2>2, JournalWritten DEF ForwardTarget, JournalStatuses,
       ForwardCheckpoints
  <2>3. CASE /\ journal.checkpoint # "commit_requested"
             /\ ~ (journal.checkpoint = "candidate_started" /\ journal.status = "switching")
    <3> DEFINE next == ForwardNext[journal.checkpoint]
    <3>1. next \in ForwardCheckpoints /\ StatusAt(next) \in JournalStatuses
      BY <1>0, <2>1, <2>3 DEF JournalSound, ForwardNext, ForwardCheckpoints, StatusAt,
         JournalStatuses
    <3>2. journal' = [journal EXCEPT !.checkpoint = next, !.status = StatusAt(next)]
      BY <2>1, <2>3 DEF ForwardTarget
    <3>3. QED
      BY <1>0, <3>1, <3>2, JournalWritten
  <2>4. QED
    BY <2>2, <2>3
<1>9. ASSUME NEW h \in Helpers, EnterRollback(h) PROVE JournalType'
  BY <1>9, <1>0, UpdaterAssumption DEF EnterRollback, MayStartRollback, SourceObserved,
     RollbackFailed, JournalType, TypeOK, ForwardCheckpoints, RollbackCheckpoints,
     ForwardNext, RollbackNext, JournalStatuses
<1>10. ASSUME NEW h \in Helpers, RemoveCandidate(h) PROVE JournalType'
  BY <1>10, <1>0, UpdaterAssumption DEF RemoveCandidate, RollbackFailed, JournalType,
     TypeOK, ForwardCheckpoints, ForwardNext, JournalStatuses
<1>11. ASSUME NEW h \in Helpers, VerifyOld(h) PROVE JournalType'
  BY <1>11, <1>0, UpdaterAssumption DEF VerifyOld, RollbackFailed, JournalType, TypeOK,
     ForwardCheckpoints, ForwardNext, JournalStatuses
<1>12. ASSUME NEW h \in Helpers, CheckpointRollback(h) PROVE JournalType'
  <2>1. journal' = RollbackTarget /\ journal.status = "rolling_back"
    BY <1>12, <1>0 DEF LockSound, CheckpointRollback
  <2>2. CASE journal.checkpoint = "rollback_published"
    BY <1>0, <2>1, <2>2, JournalWritten DEF RollbackTarget, JournalStatuses,
       RollbackCheckpoints
  <2>3. CASE journal.checkpoint # "rollback_published"
    <3>1. RollbackNext[journal.checkpoint] \in RollbackCheckpoints
      BY <1>0, <2>1, <2>3 DEF JournalSound, RollbackNext, RollbackCheckpoints
    <3>2. QED
      BY <1>0, <2>1, <2>3, <3>1, JournalWritten DEF RollbackTarget, JournalStatuses
  <2>4. QED
    BY <2>2, <2>3
<1>13. QED
  BY <1>1, <1>2, <1>3, <1>4, <1>5, <1>6, <1>7, <1>8, <1>9, <1>10, <1>11, <1>12 DEF Next,
     InstallStep, HelperStep, ForwardStep, RollbackStep, LauncherStep

\* The database, the files of the handoff and the snapshot.
LEMMA FilesTyped ==
  ASSUME UpdaterInvariant, Next
  PROVE  FilesType'
<1>0. /\ TypeOK /\ JournalSound /\ LockSound /\ InstallerSound /\ ContainersSound
      /\ EffectSound /\ OutcomeSound /\ FailureSound
  BY DEF UpdaterInvariant
<1>1. ASSUME NEW h \in Helpers,
             \/ InstallStart(h) \/ InstallRaises(h) \/ StartReplacementHelper(h)
             \/ CoordinateEnded(h) \/ Disarm(h) \/ HelperFails(h) \/ EnterForward(h)
             \/ FenceOldRestart(h) \/ RenameOld(h) \/ EnsureCandidate(h)
             \/ VerifyCandidate(h) \/ AwaitCommit(h) \/ CheckpointForward(h)
             \/ CleanupOld(h) \/ RemoveCandidate(h) \/ RestoreOldName(h)
             \/ RestoreOldPolicy(h) \/ VerifyOld(h) \/ CheckpointRollback(h)
      PROVE  FilesType'
  <2>1. UNCHANGED <<db, handoff, marker, evidence, snapshot>>
    BY <1>1 DEF InstallStart, InstallRaises, StartReplacementHelper, CoordinateEnded,
       Disarm, HelperFails, EnterForward, FenceOldRestart, RenameOld, EnsureCandidate,
       VerifyCandidate, AwaitCommit, CheckpointForward, CleanupOld, RemoveCandidate,
       RestoreOldName, RestoreOldPolicy, VerifyOld, CheckpointRollback, RollbackTarget,
       volume
  <2>2. QED
    BY <2>1, <1>0 DEF FilesType, TypeOK
<1>2. ASSUME NEW a \in Appliances,
             \/ Serve(a) \/ CacheHandoff(a) \/ DockerRestart(a)
      PROVE  FilesType'
  <2>1. UNCHANGED <<db, handoff, marker, evidence, snapshot>>
    BY <1>2 DEF Serve, CacheHandoff, DockerRestart, Policy, volume
  <2>2. QED
    BY <2>1, <1>0 DEF FilesType, TypeOK
<1>3. ASSUME NEW a \in Appliances, NEW h \in Helpers, RemoveExitedHelper(a, h)
      PROVE  FilesType'
  <2>1. UNCHANGED <<db, handoff, marker, evidence, snapshot>>
    BY <1>3 DEF RemoveExitedHelper, volume
  <2>2. QED
    BY <2>1, <1>0 DEF FilesType, TypeOK
<1>4. ASSUME NEW h \in Helpers, InstallPrepare(h) PROVE FilesType'
  BY <1>4, <1>0 DEF InstallPrepare, FilesType, TypeOK, OperationStatuses
<1>5. CASE InstallHandoff
  <2>1. db = [status |-> db.status, schema |-> db.schema]
        /\ db.schema \in {"old", "new"}
    BY <1>0 DEF TypeOK, Database
  <2>2. db' = [status |-> "handoff", schema |-> db.schema]
    BY <1>5, <2>1 DEF InstallHandoff
  <2>3. QED
    BY <1>5, <1>0, <2>1, <2>2 DEF FilesType, TypeOK, Database, OperationStatuses,
       ForwardOrder, InstallHandoff
<1>6. CASE InstallCleanup
  <2>1. db = [status |-> db.status, schema |-> db.schema]
        /\ db.schema \in {"old", "new"}
    BY <1>0 DEF TypeOK, Database
  <2>2. db' = db \/ db' = [status |-> "failed", schema |-> db.schema]
    BY <1>6, <2>1 DEF InstallCleanup
  <2>3. QED
    BY <1>6, <1>0, <2>1, <2>2 DEF FilesType, TypeOK, Database, OperationStatuses,
       TerminalOperation, InstallCleanup
<1>7. ASSUME NEW h \in Helpers, CoordinateRecovery(h) PROVE FilesType'
  BY <1>7, <1>0 DEF CoordinateRecovery, Exhausted, Decision, SourceObserved,
     StartIfStopped, Keep, FilesType, TypeOK, OperationStatuses
<1>8. ASSUME NEW h \in Helpers, CoordinateExhausted(h) PROVE FilesType'
  BY <1>8, <1>0 DEF CoordinateExhausted, Exhausted, FilesType, TypeOK, OperationStatuses
<1>9. ASSUME NEW h \in Helpers, StopOld(h) PROVE FilesType'
  BY <1>9, <1>0 DEF StopOld, Stop, ProcessesDie, Keep, FilesType, TypeOK,
     OperationStatuses
<1>10. ASSUME NEW h \in Helpers, PrepareCandidate(h) PROVE FilesType'
  BY <1>10, <1>0 DEF PrepareCandidate, FilesType, TypeOK, OperationStatuses
<1>11. ASSUME NEW h \in Helpers, EnsureSnapshot(h) PROVE FilesType'
  BY <1>11, <1>0 DEF EnsureSnapshot, FilesType, TypeOK, OperationStatuses
<1>12. ASSUME NEW h \in Helpers, StartCandidate(h) PROVE FilesType'
  BY <1>12, <1>0 DEF StartCandidate, StartIfStopped, Keep, FilesType, TypeOK,
     OperationStatuses
<1>13. ASSUME NEW h \in Helpers, EnterRollback(h) PROVE FilesType'
  BY <1>13, <1>0 DEF EnterRollback, MayStartRollback, SourceObserved, FilesType, TypeOK,
     OperationStatuses
<1>14. ASSUME NEW h \in Helpers, StopCandidate(h) PROVE FilesType'
  BY <1>14, <1>0 DEF StopCandidate, Stop, ProcessesDie, Keep, FilesType, TypeOK,
     OperationStatuses
<1>15. ASSUME NEW h \in Helpers, RestoreSnapshot(h) PROVE FilesType'
  BY <1>15, <1>0 DEF RestoreSnapshot, FilesType, TypeOK, OperationStatuses
<1>16. ASSUME NEW h \in Helpers, RemoveCandidateEvidence(h) PROVE FilesType'
  BY <1>16, <1>0 DEF RemoveCandidateEvidence, FilesType, TypeOK, OperationStatuses
<1>17. ASSUME NEW h \in Helpers, StartOld(h) PROVE FilesType'
  BY <1>17, <1>0 DEF StartOld, StartIfStopped, Keep, FilesType, TypeOK,
     OperationStatuses
<1>18. ASSUME NEW a \in Appliances, RunBarriers(a) PROVE FilesType'
  <2> DEFINE status == Reconciled(FALSE)
  <2>1. db = [status |-> db.status, schema |-> db.schema]
        /\ db.schema \in {"old", "new"} /\ db.status \in OperationStatuses
    BY <1>0 DEF TypeOK, Database
  <2>2. status \in OperationStatuses \cup {"error"}
    BY <1>0, ReconciledIsStatus
  <2>3. \E schema \in {"old", "new"} :
          \/ db' = [status |-> db.status, schema |-> schema]
          \/ status # "error" /\ db' = [status |-> status, schema |-> schema]
    BY <1>18, <2>1 DEF RunBarriers
  <2>4. db' \in Database
    <3> HIDE DEF status
    <3>1. QED
      BY <2>1, <2>2, <2>3 DEF Database
  <2>5. UNCHANGED snapshot /\ handoff' \in BOOLEAN /\ marker' \in BOOLEAN
        /\ evidence' \in {evidence, "none"}
    BY <1>18, <1>0 DEF RunBarriers, TypeOK
  <2>6. QED
    BY <2>4, <2>5, <1>0 DEF FilesType, TypeOK
<1>19. CASE WriteEvidence
  BY <1>19, <1>0 DEF WriteEvidence, FilesType, TypeOK, OperationStatuses
<1>20. ASSUME NEW a \in Appliances, ReconcileActive(a) PROVE FilesType'
  BY <1>20, <1>0, ReconciledIsStatus DEF ReconcileActive, Supervises, Reconciled,
     Synchronized, SyncTarget, FilesType, TypeOK, Database, OperationStatuses
<1>21. ASSUME NEW a \in Appliances, CleanUp(a) PROVE FilesType'
  BY <1>21, <1>0 DEF CleanUp, Supervises, MayCleanUp, FilesType, TypeOK,
     OperationStatuses
<1>22. ASSUME NEW a \in Appliances, ApplianceCrash(a) PROVE FilesType'
  BY <1>22, <1>0 DEF ApplianceCrash, ProcessesDie, FilesType, TypeOK, OperationStatuses
<1>23. CASE DaemonRestart
  BY <1>23, <1>0 DEF DaemonRestart, AfterDaemonRestart, Policy, ProcessesDie, FilesType,
     TypeOK, OperationStatuses
<1>24. QED
  BY <1>1, <1>2, <1>3, <1>4, <1>5, <1>6, <1>7, <1>8, <1>9, <1>10, <1>11, <1>12, <1>13,
     <1>14, <1>15, <1>16, <1>17, <1>18, <1>19, <1>20, <1>21, <1>22, <1>23 DEF Next,
     InstallStep, HelperStep, ForwardStep, RollbackStep, LauncherStep

\* The containers.
LEMMA DockerTyped ==
  ASSUME UpdaterInvariant, Next
  PROVE  DockerType'
<1>0. /\ TypeOK /\ JournalSound /\ LockSound /\ InstallerSound /\ ContainersSound
      /\ EffectSound /\ OutcomeSound /\ FailureSound
  BY DEF UpdaterInvariant
<1>1. ASSUME NEW h \in Helpers,
             \/ InstallPrepare(h) \/ InstallStart(h) \/ InstallRaises(h)
             \/ StartReplacementHelper(h) \/ CoordinateEnded(h)
             \/ CoordinateExhausted(h) \/ Disarm(h) \/ HelperFails(h)
             \/ EnterForward(h) \/ PrepareCandidate(h) \/ EnsureSnapshot(h)
             \/ VerifyCandidate(h) \/ AwaitCommit(h) \/ CheckpointForward(h)
             \/ EnterRollback(h) \/ RestoreSnapshot(h) \/ RemoveCandidateEvidence(h)
             \/ VerifyOld(h) \/ CheckpointRollback(h)
      PROVE  DockerType'
  <2>1. UNCHANGED <<life, sourceName, sourcePolicy>>
    BY <1>1 DEF InstallPrepare, InstallStart, InstallRaises, StartReplacementHelper,
       CoordinateEnded, CoordinateExhausted, Exhausted, Disarm, HelperFails,
       EnterForward, PrepareCandidate, EnsureSnapshot, VerifyCandidate, AwaitCommit,
       CheckpointForward, EnterRollback, MayStartRollback, SourceObserved,
       RestoreSnapshot, RemoveCandidateEvidence, VerifyOld, CheckpointRollback,
       RollbackTarget, docker
  <2>2. QED
    BY <2>1, <1>0 DEF DockerType, TypeOK
<1>2. ASSUME NEW a \in Appliances,
             \/ CacheHandoff(a) \/ ReconcileActive(a) \/ CleanUp(a)
      PROVE  DockerType'
  <2>1. UNCHANGED <<life, sourceName, sourcePolicy>>
    BY <1>2 DEF CacheHandoff, ReconcileActive, Supervises, Reconciled, Synchronized,
       SyncTarget, CleanUp, MayCleanUp, docker
  <2>2. QED
    BY <2>1, <1>0 DEF DockerType, TypeOK
<1>3. ASSUME NEW a \in Appliances, NEW h \in Helpers, RemoveExitedHelper(a, h)
      PROVE  DockerType'
  <2>1. UNCHANGED <<life, sourceName, sourcePolicy>>
    BY <1>3 DEF RemoveExitedHelper, docker
  <2>2. QED
    BY <2>1, <1>0 DEF DockerType, TypeOK
<1>4. CASE \/ InstallHandoff \/ InstallCleanup \/ WriteEvidence
  <2>1. UNCHANGED <<life, sourceName, sourcePolicy>>
    BY <1>4 DEF InstallHandoff, InstallCleanup, WriteEvidence, docker
  <2>2. QED
    BY <2>1, <1>0 DEF DockerType, TypeOK
<1>5. ASSUME NEW h \in Helpers, CoordinateRecovery(h) PROVE DockerType'
  BY <1>5, <1>0 DEF CoordinateRecovery, Exhausted, Decision, SourceObserved,
     StartIfStopped, DockerType, TypeOK, Lives
<1>6. ASSUME NEW h \in Helpers, FenceOldRestart(h) PROVE DockerType'
  BY <1>6, <1>0 DEF FenceOldRestart, DockerType, TypeOK
<1>7. ASSUME NEW h \in Helpers, StopOld(h) PROVE DockerType'
  BY <1>7, <1>0 DEF StopOld, Stop, DockerType, TypeOK, Lives
<1>8. ASSUME NEW h \in Helpers, RenameOld(h) PROVE DockerType'
  BY <1>8, <1>0 DEF RenameOld, DockerType, TypeOK
<1>9. ASSUME NEW h \in Helpers, EnsureCandidate(h) PROVE DockerType'
  BY <1>9, <1>0 DEF EnsureCandidate, DockerType, TypeOK, Lives
<1>10. ASSUME NEW h \in Helpers, StartCandidate(h) PROVE DockerType'
  BY <1>10, <1>0 DEF StartCandidate, StartIfStopped, DockerType, TypeOK, Lives
<1>11. ASSUME NEW h \in Helpers, CleanupOld(h) PROVE DockerType'
  BY <1>11, <1>0 DEF CleanupOld, DockerType, TypeOK, Lives
<1>12. ASSUME NEW h \in Helpers, StopCandidate(h) PROVE DockerType'
  BY <1>12, <1>0 DEF StopCandidate, Stop, DockerType, TypeOK, Lives
<1>13. ASSUME NEW h \in Helpers, RemoveCandidate(h) PROVE DockerType'
  BY <1>13, <1>0 DEF RemoveCandidate, DockerType, TypeOK, Lives
<1>14. ASSUME NEW h \in Helpers, RestoreOldName(h) PROVE DockerType'
  BY <1>14, <1>0 DEF RestoreOldName, DockerType, TypeOK
<1>15. ASSUME NEW h \in Helpers, RestoreOldPolicy(h) PROVE DockerType'
  BY <1>15, <1>0 DEF RestoreOldPolicy, DockerType, TypeOK
<1>16. ASSUME NEW h \in Helpers, StartOld(h) PROVE DockerType'
  BY <1>16, <1>0 DEF StartOld, StartIfStopped, DockerType, TypeOK, Lives
<1>17. ASSUME NEW a \in Appliances, RunBarriers(a) PROVE DockerType'
  BY <1>17, <1>0 DEF RunBarriers, Reconciled, Synchronized, SyncTarget, DockerType,
     TypeOK, Lives
<1>18. ASSUME NEW a \in Appliances, Serve(a) PROVE DockerType'
  BY <1>18, <1>0 DEF Serve, DockerType, TypeOK, Lives
<1>19. ASSUME NEW a \in Appliances, DockerRestart(a) PROVE DockerType'
  BY <1>19, <1>0 DEF DockerRestart, Policy, DockerType, TypeOK, Lives
<1>20. ASSUME NEW a \in Appliances, ApplianceCrash(a) PROVE DockerType'
  BY <1>20, <1>0 DEF ApplianceCrash, DockerType, TypeOK, Lives
<1>21. CASE DaemonRestart
  BY <1>21, <1>0 DEF DaemonRestart, AfterDaemonRestart, Policy, DockerType, TypeOK,
     Lives
<1>22. QED
  BY <1>1, <1>2, <1>3, <1>4, <1>5, <1>6, <1>7, <1>8, <1>9, <1>10, <1>11, <1>12, <1>13,
     <1>14, <1>15, <1>16, <1>17, <1>18, <1>19, <1>20, <1>21 DEF Next, InstallStep,
     HelperStep, ForwardStep, RollbackStep, LauncherStep

\* The helpers.
LEMMA HelperTyped ==
  ASSUME UpdaterInvariant, Next
  PROVE  HelperType'
<1>0. /\ TypeOK /\ JournalSound /\ LockSound /\ InstallerSound /\ ContainersSound
      /\ EffectSound /\ OutcomeSound /\ FailureSound
  BY DEF UpdaterInvariant
<1>1. ASSUME NEW a \in Appliances,
             \/ RunBarriers(a) \/ Serve(a) \/ CacheHandoff(a) \/ ReconcileActive(a)
             \/ CleanUp(a) \/ DockerRestart(a) \/ ApplianceCrash(a)
      PROVE  HelperType'
  <2>1. UNCHANGED <<helper>>
    BY <1>1 DEF RunBarriers, Reconciled, Synchronized, SyncTarget, Serve, CacheHandoff,
       ReconcileActive, Supervises, CleanUp, MayCleanUp, DockerRestart, Policy,
       ApplianceCrash
  <2>2. QED
    BY <2>1, <1>0 DEF HelperType, TypeOK
<1>2. CASE \/ InstallHandoff \/ WriteEvidence
  <2>1. UNCHANGED <<helper>>
    BY <1>2 DEF InstallHandoff, WriteEvidence
  <2>2. QED
    BY <2>1, <1>0 DEF HelperType, TypeOK
<1>3. ASSUME NEW h \in Helpers, InstallPrepare(h) PROVE HelperType'
  BY <1>3, <1>0 DEF InstallPrepare, HelperType, TypeOK, PCs, Outside
<1>4. ASSUME NEW h \in Helpers, InstallStart(h) PROVE HelperType'
  BY <1>4, <1>0 DEF InstallStart, HelperType, TypeOK, PCs, Outside
<1>5. ASSUME NEW h \in Helpers, InstallRaises(h) PROVE HelperType'
  BY <1>5, <1>0 DEF InstallRaises, HelperType, TypeOK, PCs, Outside
<1>6. CASE InstallCleanup
  BY <1>6, <1>0 DEF InstallCleanup, HelperType, TypeOK, PCs, Outside
<1>7. ASSUME NEW h \in Helpers, StartReplacementHelper(h) PROVE HelperType'
  BY <1>7, <1>0 DEF StartReplacementHelper, HelperType, TypeOK, PCs, Outside
<1>8. ASSUME NEW h \in Helpers, CoordinateEnded(h) PROVE HelperType'
  BY <1>8, <1>0, GotoTyped DEF CoordinateEnded, PCs, Outside
<1>9. ASSUME NEW h \in Helpers, CoordinateRecovery(h) PROVE HelperType'
  BY <1>9, <1>0 DEF CoordinateRecovery, Goto, Exhausted, Decision, SourceObserved,
     HelperType, TypeOK, PCs
<1>10. ASSUME NEW h \in Helpers, CoordinateExhausted(h) PROVE HelperType'
  BY <1>10, <1>0 DEF CoordinateExhausted, Goto, Exhausted, HelperType, TypeOK, PCs
<1>11. ASSUME NEW h \in Helpers, Disarm(h) PROVE HelperType'
  BY <1>11, <1>0, GotoTyped DEF Disarm, PCs, Outside
<1>12. ASSUME NEW h \in Helpers, HelperFails(h) PROVE HelperType'
  BY <1>12, <1>0 DEF HelperFails, Goto, Outside, HelperType, TypeOK, PCs
<1>13. ASSUME NEW h \in Helpers, EnterForward(h) PROVE HelperType'
  BY <1>13, <1>0, GotoTyped DEF EnterForward, PCs, Outside
<1>14. ASSUME NEW h \in Helpers, FenceOldRestart(h) PROVE HelperType'
  BY <1>14, <1>0 DEF FenceOldRestart, Confirm, HelperType, TypeOK
<1>15. ASSUME NEW h \in Helpers, StopOld(h) PROVE HelperType'
  BY <1>15, <1>0 DEF StopOld, Confirm, Stop, HelperType, TypeOK
<1>16. ASSUME NEW h \in Helpers, PrepareCandidate(h) PROVE HelperType'
  BY <1>16, <1>0 DEF PrepareCandidate, Confirm, HelperType, TypeOK
<1>17. ASSUME NEW h \in Helpers, EnsureSnapshot(h) PROVE HelperType'
  BY <1>17, <1>0, GotoTyped, ConfirmTyped DEF EnsureSnapshot, PCs, Outside
<1>18. ASSUME NEW h \in Helpers, RenameOld(h) PROVE HelperType'
  BY <1>18, <1>0 DEF RenameOld, Confirm, HelperType, TypeOK
<1>19. ASSUME NEW h \in Helpers, EnsureCandidate(h) PROVE HelperType'
  BY <1>19, <1>0 DEF EnsureCandidate, Confirm, HelperType, TypeOK
<1>20. ASSUME NEW h \in Helpers, StartCandidate(h) PROVE HelperType'
  BY <1>20, <1>0 DEF StartCandidate, Confirm, HelperType, TypeOK
<1>21. ASSUME NEW h \in Helpers, VerifyCandidate(h) PROVE HelperType'
  BY <1>21, <1>0, GotoTyped, ConfirmTyped DEF VerifyCandidate, PCs, Outside
<1>22. ASSUME NEW h \in Helpers, AwaitCommit(h) PROVE HelperType'
  BY <1>22, <1>0, GotoTyped, ConfirmTyped DEF AwaitCommit, PCs, Outside
<1>23. ASSUME NEW h \in Helpers, CheckpointForward(h) PROVE HelperType'
  BY <1>23, <1>0 DEF CheckpointForward, Goto, HelperType, TypeOK
<1>24. ASSUME NEW h \in Helpers, CleanupOld(h) PROVE HelperType'
  BY <1>24, <1>0 DEF CleanupOld, Goto, HelperType, TypeOK, PCs
<1>25. ASSUME NEW h \in Helpers, EnterRollback(h) PROVE HelperType'
  BY <1>25, <1>0, GotoTyped DEF EnterRollback, RollbackFailed, PCs, Outside
<1>26. ASSUME NEW h \in Helpers, StopCandidate(h) PROVE HelperType'
  BY <1>26, <1>0 DEF StopCandidate, Confirm, Stop, HelperType, TypeOK
<1>27. ASSUME NEW h \in Helpers, RemoveCandidate(h) PROVE HelperType'
  BY <1>27, <1>0, GotoTyped, ConfirmTyped DEF RemoveCandidate, RollbackFailed, PCs, Outside
<1>28. ASSUME NEW h \in Helpers, RestoreSnapshot(h) PROVE HelperType'
  BY <1>28, <1>0 DEF RestoreSnapshot, Confirm, HelperType, TypeOK
<1>29. ASSUME NEW h \in Helpers, RemoveCandidateEvidence(h) PROVE HelperType'
  BY <1>29, <1>0 DEF RemoveCandidateEvidence, Confirm, HelperType, TypeOK
<1>30. ASSUME NEW h \in Helpers, RestoreOldName(h) PROVE HelperType'
  BY <1>30, <1>0 DEF RestoreOldName, Confirm, HelperType, TypeOK
<1>31. ASSUME NEW h \in Helpers, RestoreOldPolicy(h) PROVE HelperType'
  BY <1>31, <1>0 DEF RestoreOldPolicy, Confirm, HelperType, TypeOK
<1>32. ASSUME NEW h \in Helpers, StartOld(h) PROVE HelperType'
  BY <1>32, <1>0 DEF StartOld, Confirm, HelperType, TypeOK
<1>33. ASSUME NEW h \in Helpers, VerifyOld(h) PROVE HelperType'
  BY <1>33, <1>0, GotoTyped, ConfirmTyped DEF VerifyOld, RollbackFailed, PCs, Outside
<1>34. ASSUME NEW h \in Helpers, CheckpointRollback(h) PROVE HelperType'
  BY <1>34, <1>0 DEF CheckpointRollback, Goto, RollbackTarget, HelperType, TypeOK, PCs
<1>35. ASSUME NEW a \in Appliances, NEW h \in Helpers, RemoveExitedHelper(a, h)
       PROVE  HelperType'
  BY <1>35, <1>0 DEF RemoveExitedHelper, HelperType, TypeOK, PCs, Outside
<1>36. CASE DaemonRestart
  BY <1>36, <1>0 DEF DaemonRestart, AfterDaemonRestart, Policy, Outside, HelperType,
     TypeOK, PCs
<1>37. QED
  BY <1>1, <1>2, <1>3, <1>4, <1>5, <1>6, <1>7, <1>8, <1>9, <1>10, <1>11, <1>12, <1>13,
     <1>14, <1>15, <1>16, <1>17, <1>18, <1>19, <1>20, <1>21, <1>22, <1>23, <1>24, <1>25,
     <1>26, <1>27, <1>28, <1>29, <1>30, <1>31, <1>32, <1>33, <1>34, <1>35, <1>36 DEF
     Next, InstallStep, HelperStep, ForwardStep, RollbackStep, LauncherStep

\* The installer, the image and the bounds.
LEMMA RestTyped ==
  ASSUME UpdaterInvariant, Next
  PROVE  RestType'
<1>0. /\ TypeOK /\ JournalSound /\ LockSound /\ InstallerSound /\ ContainersSound
      /\ EffectSound /\ OutcomeSound /\ FailureSound
  BY DEF UpdaterInvariant
<1>1. ASSUME NEW h \in Helpers,
             \/ StartReplacementHelper(h) \/ CoordinateEnded(h)
             \/ CoordinateExhausted(h) \/ Disarm(h) \/ EnterForward(h)
             \/ FenceOldRestart(h) \/ PrepareCandidate(h) \/ EnsureSnapshot(h)
             \/ RenameOld(h) \/ EnsureCandidate(h) \/ VerifyCandidate(h)
             \/ AwaitCommit(h) \/ CheckpointForward(h) \/ CleanupOld(h)
             \/ EnterRollback(h) \/ RemoveCandidate(h) \/ RestoreSnapshot(h)
             \/ RemoveCandidateEvidence(h) \/ RestoreOldName(h)
             \/ RestoreOldPolicy(h) \/ VerifyOld(h) \/ CheckpointRollback(h)
      PROVE  RestType'
  <2>1. UNCHANGED <<installer, cached, release, disruptions>>
    BY <1>1 DEF StartReplacementHelper, CoordinateEnded, CoordinateExhausted, Exhausted,
       Disarm, EnterForward, FenceOldRestart, PrepareCandidate, EnsureSnapshot,
       RenameOld, EnsureCandidate, VerifyCandidate, AwaitCommit, CheckpointForward,
       CleanupOld, EnterRollback, MayStartRollback, SourceObserved, RemoveCandidate,
       RestoreSnapshot, RemoveCandidateEvidence, RestoreOldName, RestoreOldPolicy,
       VerifyOld, CheckpointRollback, RollbackTarget
  <2>2. QED
    BY <2>1, <1>0 DEF RestType, TypeOK
<1>2. ASSUME NEW a \in Appliances,
             \/ RunBarriers(a) \/ Serve(a) \/ ReconcileActive(a) \/ CleanUp(a)
             \/ DockerRestart(a)
      PROVE  RestType'
  <2>1. UNCHANGED <<installer, cached, release, disruptions>>
    BY <1>2 DEF RunBarriers, Reconciled, Synchronized, SyncTarget, Serve,
       ReconcileActive, Supervises, CleanUp, MayCleanUp, DockerRestart, Policy
  <2>2. QED
    BY <2>1, <1>0 DEF RestType, TypeOK
<1>3. CASE WriteEvidence
  <2>1. UNCHANGED <<installer, cached, release, disruptions>>
    BY <1>3 DEF WriteEvidence
  <2>2. QED
    BY <2>1, <1>0 DEF RestType, TypeOK
<1>4. ASSUME NEW h \in Helpers, InstallPrepare(h) PROVE RestType'
  BY <1>4, <1>0, UpdaterAssumption DEF InstallPrepare, RestType, TypeOK
<1>5. CASE InstallHandoff
  BY <1>5, <1>0, UpdaterAssumption DEF InstallHandoff, RestType, TypeOK
<1>6. ASSUME NEW h \in Helpers, InstallStart(h) PROVE RestType'
  BY <1>6, <1>0, UpdaterAssumption DEF InstallStart, RestType, TypeOK
<1>7. ASSUME NEW h \in Helpers, InstallRaises(h) PROVE RestType'
  BY <1>7, <1>0, UpdaterAssumption DEF InstallRaises, Disrupt, RestType, TypeOK
<1>8. CASE InstallCleanup
  BY <1>8, <1>0, UpdaterAssumption DEF InstallCleanup, RestType, TypeOK
<1>9. ASSUME NEW h \in Helpers, CoordinateRecovery(h) PROVE RestType'
  BY <1>9, <1>0, UpdaterAssumption DEF CoordinateRecovery, Exhausted, Decision,
     SourceObserved, StartIfStopped, Keep, RestType, TypeOK
<1>10. ASSUME NEW h \in Helpers, HelperFails(h) PROVE RestType'
  BY <1>10, <1>0, UpdaterAssumption DEF HelperFails, Disrupt, RestType, TypeOK
<1>11. ASSUME NEW h \in Helpers, StopOld(h) PROVE RestType'
  BY <1>11, <1>0, UpdaterAssumption DEF StopOld, Stop, ProcessesDie, Keep, RestType,
     TypeOK
<1>12. ASSUME NEW h \in Helpers, StartCandidate(h) PROVE RestType'
  BY <1>12, <1>0, UpdaterAssumption DEF StartCandidate, StartIfStopped, Keep, RestType,
     TypeOK
<1>13. ASSUME NEW h \in Helpers, StopCandidate(h) PROVE RestType'
  BY <1>13, <1>0, UpdaterAssumption DEF StopCandidate, Stop, ProcessesDie, Keep,
     RestType, TypeOK
<1>14. ASSUME NEW h \in Helpers, StartOld(h) PROVE RestType'
  BY <1>14, <1>0, UpdaterAssumption DEF StartOld, StartIfStopped, Keep, RestType, TypeOK
<1>15. ASSUME NEW a \in Appliances, CacheHandoff(a) PROVE RestType'
  BY <1>15, <1>0, UpdaterAssumption DEF CacheHandoff, RestType, TypeOK
<1>16. ASSUME NEW a \in Appliances, NEW h \in Helpers, RemoveExitedHelper(a, h)
       PROVE  RestType'
  BY <1>16, <1>0, UpdaterAssumption DEF RemoveExitedHelper, RestType, TypeOK
<1>17. ASSUME NEW a \in Appliances, ApplianceCrash(a) PROVE RestType'
  BY <1>17, <1>0, UpdaterAssumption DEF ApplianceCrash, Disrupt, ProcessesDie, RestType,
     TypeOK
<1>18. CASE DaemonRestart
  BY <1>18, <1>0, UpdaterAssumption DEF DaemonRestart, Disrupt, AfterDaemonRestart,
     Policy, ProcessesDie, RestType, TypeOK
<1>19. QED
  BY <1>1, <1>2, <1>3, <1>4, <1>5, <1>6, <1>7, <1>8, <1>9, <1>10, <1>11, <1>12, <1>13,
     <1>14, <1>15, <1>16, <1>17, <1>18 DEF Next, InstallStep, HelperStep, ForwardStep,
     RollbackStep, LauncherStep

\* A helper decides at most once, and nothing else happens in that step.
LEMMA DecisionsMade ==
  ASSUME UpdaterInvariant, Next
  PROVE  DecidesOnce
<1>0. /\ TypeOK /\ JournalSound /\ LockSound /\ InstallerSound /\ ContainersSound
      /\ EffectSound /\ OutcomeSound /\ FailureSound
  BY DEF UpdaterInvariant
<1>1. ASSUME NEW h \in Helpers,
             \/ InstallPrepare(h) \/ InstallStart(h) \/ InstallRaises(h)
             \/ StartReplacementHelper(h) \/ CoordinateEnded(h) \/ Disarm(h)
             \/ HelperFails(h) \/ FenceOldRestart(h) \/ StopOld(h)
             \/ PrepareCandidate(h) \/ EnsureSnapshot(h) \/ RenameOld(h)
             \/ EnsureCandidate(h) \/ StartCandidate(h) \/ VerifyCandidate(h)
             \/ AwaitCommit(h) \/ CleanupOld(h) \/ StopCandidate(h)
             \/ RestoreSnapshot(h) \/ RemoveCandidateEvidence(h) \/ RestoreOldName(h)
             \/ RestoreOldPolicy(h) \/ StartOld(h)
      PROVE  DecidesOnce
  <2>1. UNCHANGED <<journal>>
    BY <1>1 DEF InstallPrepare, InstallStart, InstallRaises, StartReplacementHelper,
       CoordinateEnded, Disarm, HelperFails, FenceOldRestart, StopOld, Stop,
       PrepareCandidate, EnsureSnapshot, RenameOld, EnsureCandidate, StartCandidate,
       VerifyCandidate, AwaitCommit, CleanupOld, StopCandidate, RestoreSnapshot,
       RemoveCandidateEvidence, RestoreOldName, RestoreOldPolicy, StartOld, volume
  <2>2. QED
    BY <2>1 DEF DecidesOnce, Decided
<1>2. ASSUME NEW a \in Appliances,
             \/ RunBarriers(a) \/ Serve(a) \/ CacheHandoff(a) \/ ReconcileActive(a)
             \/ CleanUp(a) \/ DockerRestart(a) \/ ApplianceCrash(a)
      PROVE  DecidesOnce
  <2>1. UNCHANGED <<journal>>
    BY <1>2 DEF RunBarriers, Reconciled, Synchronized, SyncTarget, Serve, CacheHandoff,
       ReconcileActive, Supervises, CleanUp, MayCleanUp, DockerRestart, Policy,
       ApplianceCrash, volume
  <2>2. QED
    BY <2>1 DEF DecidesOnce, Decided
<1>3. ASSUME NEW a \in Appliances, NEW h \in Helpers, RemoveExitedHelper(a, h)
      PROVE  DecidesOnce
  <2>1. UNCHANGED <<journal>>
    BY <1>3 DEF RemoveExitedHelper, volume
  <2>2. QED
    BY <2>1 DEF DecidesOnce, Decided
<1>4. CASE \/ InstallHandoff \/ InstallCleanup \/ WriteEvidence \/ DaemonRestart
  <2>1. UNCHANGED <<journal>>
    BY <1>4 DEF InstallHandoff, InstallCleanup, WriteEvidence, Policy, DaemonRestart,
       AfterDaemonRestart, volume
  <2>2. QED
    BY <2>1 DEF DecidesOnce, Decided
<1>5. ASSUME NEW h \in Helpers, CoordinateRecovery(h) PROVE DecidesOnce
  BY <1>5, <1>0, RecoveryDecided DEF CoordinateRecovery, Exhausted, Decision,
     SourceObserved, DecidesOnce, Decided, Recorded, Serving
<1>6. ASSUME NEW h \in Helpers, CoordinateExhausted(h) PROVE DecidesOnce
  BY <1>6, <1>0, RecoveryExhausted DEF CoordinateExhausted, Exhausted, DecidesOnce,
     Decided, Recorded, Serving, docker
<1>7. ASSUME NEW h \in Helpers, EnterForward(h) PROVE DecidesOnce
  BY <1>7, <1>0, ForwardEntered DEF EnterForward, DecidesOnce, Decided, Recorded,
     Serving
<1>8. ASSUME NEW h \in Helpers, CheckpointForward(h) PROVE DecidesOnce
  BY <1>8, <1>0, ForwardCheckpointed DEF CheckpointForward, DecidesOnce, Decided,
     Recorded, Serving, Moves, docker
<1>9. ASSUME NEW h \in Helpers, EnterRollback(h) PROVE DecidesOnce
  BY <1>9, RollbackEntered DEF EnterRollback, MayStartRollback, SourceObserved,
     RollbackFailed, DecidesOnce, Decided, Recorded, Serving, docker
<1>10. ASSUME NEW h \in Helpers, RemoveCandidate(h) PROVE DecidesOnce
  BY <1>10, <1>0 DEF RemoveCandidate, RollbackFailed, DecidesOnce, Decided, Recorded,
     Serving, TypeOK
<1>11. ASSUME NEW h \in Helpers, VerifyOld(h) PROVE DecidesOnce
  BY <1>11, <1>0 DEF VerifyOld, RollbackFailed, DecidesOnce, Decided, Recorded, Serving,
     TypeOK
<1>12. ASSUME NEW h \in Helpers, CheckpointRollback(h) PROVE DecidesOnce
  BY <1>12, <1>0, RollbackCheckpointed DEF CheckpointRollback, RollbackTarget,
     DecidesOnce, Decided, Recorded, Serving, Moves
<1>13. QED
  BY <1>1, <1>2, <1>3, <1>4, <1>5, <1>6, <1>7, <1>8, <1>9, <1>10, <1>11, <1>12 DEF Next,
     InstallStep, HelperStep, ForwardStep, RollbackStep, LauncherStep

\* The database records the outcome of a decision that was taken.
LEMMA OutcomesRecorded ==
  ASSUME UpdaterInvariant, Next
  PROVE  RecordsDecision
<1>0. /\ TypeOK /\ JournalSound /\ LockSound /\ InstallerSound /\ ContainersSound
      /\ EffectSound /\ OutcomeSound /\ FailureSound
  BY DEF UpdaterInvariant
<1>1. ASSUME NEW h \in Helpers,
             \/ InstallPrepare(h) \/ InstallStart(h) \/ InstallRaises(h)
             \/ StartReplacementHelper(h) \/ CoordinateEnded(h)
             \/ CoordinateRecovery(h) \/ CoordinateExhausted(h) \/ Disarm(h)
             \/ HelperFails(h) \/ EnterForward(h) \/ FenceOldRestart(h) \/ StopOld(h)
             \/ PrepareCandidate(h) \/ EnsureSnapshot(h) \/ RenameOld(h)
             \/ EnsureCandidate(h) \/ StartCandidate(h) \/ VerifyCandidate(h)
             \/ AwaitCommit(h) \/ CheckpointForward(h) \/ CleanupOld(h)
             \/ EnterRollback(h) \/ StopCandidate(h) \/ RemoveCandidate(h)
             \/ RemoveCandidateEvidence(h) \/ RestoreOldName(h)
             \/ RestoreOldPolicy(h) \/ StartOld(h) \/ VerifyOld(h)
             \/ CheckpointRollback(h)
      PROVE  RecordsDecision
  <2>1. UNCHANGED <<db>>
    BY <1>1 DEF InstallPrepare, InstallStart, InstallRaises, StartReplacementHelper,
       CoordinateEnded, CoordinateRecovery, Exhausted, Decision, SourceObserved,
       CoordinateExhausted, Disarm, HelperFails, EnterForward, FenceOldRestart, StopOld,
       Stop, PrepareCandidate, EnsureSnapshot, RenameOld, EnsureCandidate,
       StartCandidate, VerifyCandidate, AwaitCommit, CheckpointForward, CleanupOld,
       EnterRollback, MayStartRollback, StopCandidate, RemoveCandidate,
       RemoveCandidateEvidence, RestoreOldName, RestoreOldPolicy, StartOld, VerifyOld,
       CheckpointRollback, RollbackTarget, volume
  <2>2. QED
    BY <2>1 DEF RecordsDecision, Recorded
<1>2. ASSUME NEW a \in Appliances,
             \/ Serve(a) \/ CacheHandoff(a) \/ CleanUp(a) \/ DockerRestart(a)
             \/ ApplianceCrash(a)
      PROVE  RecordsDecision
  <2>1. UNCHANGED <<db>>
    BY <1>2 DEF Serve, CacheHandoff, CleanUp, Supervises, MayCleanUp, DockerRestart,
       Policy, ApplianceCrash, volume
  <2>2. QED
    BY <2>1 DEF RecordsDecision, Recorded
<1>3. ASSUME NEW a \in Appliances, NEW h \in Helpers, RemoveExitedHelper(a, h)
      PROVE  RecordsDecision
  <2>1. UNCHANGED <<db>>
    BY <1>3 DEF RemoveExitedHelper, volume
  <2>2. QED
    BY <2>1 DEF RecordsDecision, Recorded
<1>4. CASE \/ WriteEvidence \/ DaemonRestart
  <2>1. UNCHANGED <<db>>
    BY <1>4 DEF WriteEvidence, Policy, DaemonRestart, AfterDaemonRestart, volume
  <2>2. QED
    BY <2>1 DEF RecordsDecision, Recorded
<1>5. CASE InstallHandoff
  BY <1>5, <1>0 DEF InstallHandoff, RecordsDecision, Decided, Recorded, Serving,
     InstallerSound, TerminalOperation
<1>6. CASE InstallCleanup
  BY <1>6, <1>0 DEF InstallCleanup, RecordsDecision, Decided, Recorded, Serving,
     InstallerSound, TerminalOperation, docker
<1>7. ASSUME NEW h \in Helpers, RestoreSnapshot(h) PROVE RecordsDecision
  BY <1>7, <1>0 DEF RestoreSnapshot, At, RecordsDecision, Decided, Recorded, Serving,
     LockSound, OutcomeSound, FailureSound, TerminalOperation
<1>8. ASSUME NEW a \in Appliances, RunBarriers(a) PROVE RecordsDecision
  BY <1>8, <1>0, ReconciledRecords DEF RunBarriers, Reconciled, Synchronized,
     SyncTarget, RecordsDecision, Decided, Recorded, Serving, TypeOK, Database,
     TerminalOperation, Appliances
<1>9. ASSUME NEW a \in Appliances, ReconcileActive(a) PROVE RecordsDecision
  BY <1>9, ReconciledRecords DEF ReconcileActive, Supervises, Reconciled, Synchronized,
     SyncTarget, RecordsDecision, Decided, Recorded, Serving, TerminalOperation, docker
<1>10. QED
  BY <1>1, <1>2, <1>3, <1>4, <1>5, <1>6, <1>7, <1>8, <1>9 DEF Next, InstallStep,
     HelperStep, ForwardStep, RollbackStep, LauncherStep

\* An Appliance begins to serve only where the decision and its record allow it.
LEMMA ServiceAgreed ==
  ASSUME UpdaterInvariant, Next
  PROVE  ServesAgreed
<1>0. /\ TypeOK /\ JournalSound /\ LockSound /\ InstallerSound /\ ContainersSound
      /\ EffectSound /\ OutcomeSound /\ FailureSound
  BY DEF UpdaterInvariant
<1>1. ASSUME NEW h \in Helpers,
             \/ InstallPrepare(h) \/ InstallStart(h) \/ InstallRaises(h)
             \/ StartReplacementHelper(h) \/ CoordinateEnded(h)
             \/ CoordinateExhausted(h) \/ Disarm(h) \/ HelperFails(h)
             \/ EnterForward(h) \/ FenceOldRestart(h) \/ PrepareCandidate(h)
             \/ EnsureSnapshot(h) \/ RenameOld(h) \/ VerifyCandidate(h)
             \/ AwaitCommit(h) \/ CheckpointForward(h) \/ EnterRollback(h)
             \/ RestoreSnapshot(h) \/ RemoveCandidateEvidence(h) \/ RestoreOldName(h)
             \/ RestoreOldPolicy(h) \/ VerifyOld(h) \/ CheckpointRollback(h)
      PROVE  ServesAgreed
  <2>1. UNCHANGED <<life>>
    BY <1>1 DEF InstallPrepare, InstallStart, InstallRaises, StartReplacementHelper,
       CoordinateEnded, CoordinateExhausted, Exhausted, Disarm, HelperFails,
       EnterForward, FenceOldRestart, PrepareCandidate, EnsureSnapshot, RenameOld,
       VerifyCandidate, AwaitCommit, CheckpointForward, EnterRollback, MayStartRollback,
       SourceObserved, RestoreSnapshot, RemoveCandidateEvidence, RestoreOldName,
       RestoreOldPolicy, VerifyOld, CheckpointRollback, RollbackTarget, docker
  <2>2. QED
    BY <2>1 DEF ServesAgreed, Serving
<1>2. ASSUME NEW a \in Appliances,
             \/ CacheHandoff(a) \/ ReconcileActive(a) \/ CleanUp(a)
      PROVE  ServesAgreed
  <2>1. UNCHANGED <<life>>
    BY <1>2 DEF CacheHandoff, ReconcileActive, Supervises, Reconciled, Synchronized,
       SyncTarget, CleanUp, MayCleanUp, docker
  <2>2. QED
    BY <2>1 DEF ServesAgreed, Serving
<1>3. ASSUME NEW a \in Appliances, NEW h \in Helpers, RemoveExitedHelper(a, h)
      PROVE  ServesAgreed
  <2>1. UNCHANGED <<life>>
    BY <1>3 DEF RemoveExitedHelper, docker
  <2>2. QED
    BY <2>1 DEF ServesAgreed, Serving
<1>4. CASE \/ InstallHandoff \/ InstallCleanup \/ WriteEvidence
  <2>1. UNCHANGED <<life>>
    BY <1>4 DEF InstallHandoff, InstallCleanup, WriteEvidence, docker
  <2>2. QED
    BY <2>1 DEF ServesAgreed, Serving
<1>5. ASSUME NEW h \in Helpers, CoordinateRecovery(h) PROVE ServesAgreed
  BY <1>5, <1>0 DEF CoordinateRecovery, Exhausted, Decision, SourceObserved,
     StartIfStopped, ServesAgreed, Decided, Recorded, Serving, TypeOK, Appliances
<1>6. ASSUME NEW h \in Helpers, StopOld(h) PROVE ServesAgreed
  BY <1>6, <1>0 DEF StopOld, Stop, ServesAgreed, Decided, Recorded, Serving,
     ContainersSound, Fenced, TypeOK, Appliances
<1>7. ASSUME NEW h \in Helpers, EnsureCandidate(h) PROVE ServesAgreed
  BY <1>7 DEF EnsureCandidate, CandidateExists, ServesAgreed, Decided, Recorded, Serving
<1>8. ASSUME NEW h \in Helpers, StartCandidate(h) PROVE ServesAgreed
  BY <1>8 DEF StartCandidate, StartIfStopped, ServesAgreed, Decided, Recorded, Serving
<1>9. ASSUME NEW h \in Helpers, CleanupOld(h) PROVE ServesAgreed
  BY <1>9 DEF CleanupOld, Running, Live, ServesAgreed, Decided, Recorded, Serving
<1>10. ASSUME NEW h \in Helpers, StopCandidate(h) PROVE ServesAgreed
  BY <1>10, <1>0 DEF StopCandidate, Stop, ServesAgreed, Decided, Recorded, Serving,
     TypeOK, Appliances
<1>11. ASSUME NEW h \in Helpers, RemoveCandidate(h) PROVE ServesAgreed
  BY <1>11, <1>0 DEF RemoveCandidate, ServesAgreed, Decided, Recorded, Serving, TypeOK,
     Appliances
<1>12. ASSUME NEW h \in Helpers, StartOld(h) PROVE ServesAgreed
  BY <1>12 DEF StartOld, StartIfStopped, Running, Live, ServesAgreed, Decided, Recorded,
     Serving
<1>13. ASSUME NEW a \in Appliances, RunBarriers(a) PROVE ServesAgreed
  BY <1>13, <1>0 DEF RunBarriers, Reconciled, Synchronized, SyncTarget, ServesAgreed,
     Decided, Recorded, Serving, TypeOK, Appliances
<1>14. ASSUME NEW a \in Appliances, Serve(a) PROVE ServesAgreed
  BY <1>14, <1>0 DEF Serve, ServesAgreed, Decided, Recorded, Serving, JournalSound,
     OutcomeSound, FailureSound, ContainersSound, Fenced, Running, Live, Restarting,
     Restoring, volume
<1>15. ASSUME NEW a \in Appliances, DockerRestart(a) PROVE ServesAgreed
  BY <1>15 DEF DockerRestart, Policy, ServesAgreed, Decided, Recorded, Serving
<1>16. ASSUME NEW a \in Appliances, ApplianceCrash(a) PROVE ServesAgreed
  BY <1>16, <1>0 DEF ApplianceCrash, ServesAgreed, Decided, Recorded, Serving,
     ContainersSound, Fenced
<1>17. CASE DaemonRestart
  BY <1>17 DEF DaemonRestart, AfterDaemonRestart, Policy, ServesAgreed, Decided,
     Recorded, Serving, Appliances
<1>18. QED
  BY <1>1, <1>2, <1>3, <1>4, <1>5, <1>6, <1>7, <1>8, <1>9, <1>10, <1>11, <1>12, <1>13,
     <1>14, <1>15, <1>16, <1>17 DEF Next, InstallStep, HelperStep, ForwardStep,
     RollbackStep, LauncherStep

\* The schema goes back only when the snapshot is restored.
LEMMA DatabaseRestored ==
  ASSUME UpdaterInvariant, Next
  PROVE  RestoresAtRest
<1>0. /\ TypeOK /\ JournalSound /\ LockSound /\ InstallerSound /\ ContainersSound
      /\ EffectSound /\ OutcomeSound /\ FailureSound
  BY DEF UpdaterInvariant
<1>1. ASSUME NEW h \in Helpers,
             \/ InstallPrepare(h) \/ InstallStart(h) \/ InstallRaises(h)
             \/ StartReplacementHelper(h) \/ CoordinateEnded(h)
             \/ CoordinateRecovery(h) \/ CoordinateExhausted(h) \/ Disarm(h)
             \/ HelperFails(h) \/ EnterForward(h) \/ FenceOldRestart(h) \/ StopOld(h)
             \/ PrepareCandidate(h) \/ EnsureSnapshot(h) \/ RenameOld(h)
             \/ EnsureCandidate(h) \/ StartCandidate(h) \/ VerifyCandidate(h)
             \/ AwaitCommit(h) \/ CheckpointForward(h) \/ CleanupOld(h)
             \/ EnterRollback(h) \/ StopCandidate(h) \/ RemoveCandidate(h)
             \/ RemoveCandidateEvidence(h) \/ RestoreOldName(h)
             \/ RestoreOldPolicy(h) \/ StartOld(h) \/ VerifyOld(h)
             \/ CheckpointRollback(h)
      PROVE  RestoresAtRest
  <2>1. UNCHANGED <<db>>
    BY <1>1 DEF InstallPrepare, InstallStart, InstallRaises, StartReplacementHelper,
       CoordinateEnded, CoordinateRecovery, Exhausted, Decision, SourceObserved,
       CoordinateExhausted, Disarm, HelperFails, EnterForward, FenceOldRestart, StopOld,
       Stop, PrepareCandidate, EnsureSnapshot, RenameOld, EnsureCandidate,
       StartCandidate, VerifyCandidate, AwaitCommit, CheckpointForward, CleanupOld,
       EnterRollback, MayStartRollback, StopCandidate, RemoveCandidate,
       RemoveCandidateEvidence, RestoreOldName, RestoreOldPolicy, StartOld, VerifyOld,
       CheckpointRollback, RollbackTarget, volume
  <2>2. QED
    BY <2>1 DEF RestoresAtRest
<1>2. ASSUME NEW a \in Appliances,
             \/ Serve(a) \/ CacheHandoff(a) \/ CleanUp(a) \/ DockerRestart(a)
             \/ ApplianceCrash(a)
      PROVE  RestoresAtRest
  <2>1. UNCHANGED <<db>>
    BY <1>2 DEF Serve, CacheHandoff, CleanUp, Supervises, MayCleanUp, DockerRestart,
       Policy, ApplianceCrash, volume
  <2>2. QED
    BY <2>1 DEF RestoresAtRest
<1>3. ASSUME NEW a \in Appliances, NEW h \in Helpers, RemoveExitedHelper(a, h)
      PROVE  RestoresAtRest
  <2>1. UNCHANGED <<db>>
    BY <1>3 DEF RemoveExitedHelper, volume
  <2>2. QED
    BY <2>1 DEF RestoresAtRest
<1>4. CASE \/ WriteEvidence \/ DaemonRestart
  <2>1. UNCHANGED <<db>>
    BY <1>4 DEF WriteEvidence, Policy, DaemonRestart, AfterDaemonRestart, volume
  <2>2. QED
    BY <2>1 DEF RestoresAtRest
<1>5. CASE InstallHandoff
  BY <1>5 DEF InstallHandoff, RestoresAtRest
<1>6. CASE InstallCleanup
  BY <1>6 DEF InstallCleanup, RestoresAtRest
<1>7. ASSUME NEW h \in Helpers, RestoreSnapshot(h) PROVE RestoresAtRest
  BY <1>7, <1>0 DEF RestoreSnapshot, At, RestoresAtRest, ContainersSound, Fenced,
     Running, Live, CandidateExists, Appliances
<1>8. ASSUME NEW a \in Appliances, RunBarriers(a) PROVE RestoresAtRest
  BY <1>8, <1>0 DEF RunBarriers, Reconciled, Synchronized, SyncTarget, RestoresAtRest,
     TypeOK, Database
<1>9. ASSUME NEW a \in Appliances, ReconcileActive(a) PROVE RestoresAtRest
  BY <1>9 DEF ReconcileActive, Supervises, Reconciled, Synchronized, SyncTarget,
     RestoresAtRest
<1>10. QED
  BY <1>1, <1>2, <1>3, <1>4, <1>5, <1>6, <1>7, <1>8, <1>9 DEF Next, InstallStep,
     HelperStep, ForwardStep, RollbackStep, LauncherStep

(***************************************************************************)
(* The invariant holds.                                                    *)
(***************************************************************************)

\* The installer has drained the source; nothing has begun.
LEMMA InitUpdaterInvariant == Init => UpdaterInvariant
<1> SUFFICES ASSUME Init PROVE UpdaterInvariant
  OBVIOUS
<1>1. TypeOK
  <2>1. JournalType
    BY UpdaterAssumption
    DEF Init, JournalType, JournalStatuses, ForwardCheckpoints, ForwardNext
  <2>2. FilesType
    BY DEF Init, FilesType, Database, OperationStatuses
  <2>3. DockerType
    BY DEF Init, DockerType, Appliances, Lives
  <2>4. HelperType
    BY DEF Init, HelperType, PCs, Outside
  <2>5. RestType
    BY UpdaterAssumption DEF Init, RestType
  <2>6. QED
    BY <2>1, <2>2, <2>3, <2>4, <2>5
    DEF TypeOK, JournalType, FilesType, DockerType, HelperType, RestType
<1>2. JournalSound /\ LockSound /\ InstallerSound
  BY DEF Init, JournalSound, LockSound, InstallerSound, Holds, Outside, Started
<1>3. ContainersSound /\ EffectSound
  BY DEF Init, ContainersSound, EffectSound, CandidateExists, NoSnapshot, Fencing,
         Preparing, Switching, Restarting, Restoring, RollbackCheckpoints
<1>4. OutcomeSound /\ FailureSound
  BY DEF Init, OutcomeSound, FailureSound, NoSnapshot
<1>5. QED
  BY <1>1, <1>2, <1>3, <1>4 DEF UpdaterInvariant

\* Every part of the invariant is of the state alone.
LEMMA StutterUpdaterInvariant ==
  ASSUME UpdaterInvariant, UNCHANGED vars
  PROVE  UpdaterInvariant'
<1>0. UNCHANGED <<db, journal, handoff, marker, evidence, snapshot, life, sourceName,
                  sourcePolicy, helper, installer, cached, release, disruptions>>
  BY DEF vars, volume, docker
<1>1. TypeOK'
  BY <1>0 DEF UpdaterInvariant, TypeOK
<1>2. JournalSound' /\ LockSound' /\ InstallerSound'
  BY <1>0 DEF UpdaterInvariant, JournalSound, LockSound, InstallerSound, Holds, Started
<1>3. ContainersSound' /\ EffectSound'
  BY <1>0 DEF UpdaterInvariant, ContainersSound, EffectSound, CandidateExists, Running,
              Fenced, CommitConfirmed
<1>4. OutcomeSound' /\ FailureSound'
  BY <1>0 DEF UpdaterInvariant, OutcomeSound, FailureSound, CommitConfirmed
<1>5. QED
  BY <1>1, <1>2, <1>3, <1>4 DEF UpdaterInvariant

\* Every step keeps every part.
LEMMA NextUpdaterInvariant ==
  ASSUME UpdaterInvariant, Next
  PROVE  UpdaterInvariant'
<1>1. TypeOK'
  BY JournalTyped, FilesTyped, DockerTyped, HelperTyped, RestTyped
  DEF TypeOK, JournalType, FilesType, DockerType, HelperType, RestType
<1>2. QED
  BY <1>1, JournalPreserved, LockPreserved, InstallerPreserved, ContainersPreserved,
     EffectPreserved, OutcomePreserved, FailurePreserved
  DEF UpdaterInvariant

\* Wherever helpers, Appliances and the daemon are interrupted: the containers, the two
\* databases and the processes are as the journal has them.
THEOREM UpdaterInvariantHolds == Spec => []UpdaterInvariant
<1>1. UpdaterInvariant /\ [Next]_vars => UpdaterInvariant'
  BY NextUpdaterInvariant, StutterUpdaterInvariant
<1>2. QED
  BY InitUpdaterInvariant, <1>1, PTL DEF Spec

(***************************************************************************)
(* The Appliances.                                                         *)
(***************************************************************************)

\* While the candidate exists the source is fenced, and a schema is served by its release.
LEMMA OneApplianceByInvariant == UpdaterInvariant => OneApplianceRuns /\ ServesItsSchema
<1> SUFFICES ASSUME UpdaterInvariant PROVE OneApplianceRuns /\ ServesItsSchema
  OBVIOUS
<1>1. Running("candidate") => CandidateExists
  BY DEF Running, Live, CandidateExists
<1>2. db.schema \in {"old", "new"}
  BY DEF UpdaterInvariant, TypeOK, Database
<1>3. QED
  BY <1>1, <1>2
  DEF UpdaterInvariant, ContainersSound, Fenced, OneApplianceRuns, ServesItsSchema,
      Running, Live

\* A final status in the database is of a decision in the journal, or of no operation.
LEMMA GateByInvariant ==
  ASSUME UpdaterInvariant, ~StartMayTimeOut
  PROVE  GateOpensWhenDecided
<1> SUFFICES ASSUME GateOpen
             PROVE  /\ journal.status \in {"none", "commit_requested", "success",
                                           "rolled_back"}
                    /\ db.status = "failed" => \A h \in Helpers : ~Holds(h)
  BY DEF GateOpensWhenDecided
<1>1. db.status \in TerminalOperation
  BY DEF GateOpen, UpdaterInvariant, TypeOK, Database, OperationStatuses
<1>2. CASE db.status \in {"success", "rolled_back"}
  BY <1>2 DEF UpdaterInvariant, OutcomeSound
<1>3. CASE db.status = "failed"
  BY <1>3 DEF UpdaterInvariant, FailureSound, Holds, Outside
<1>4. QED
  BY <1>1, <1>2, <1>3 DEF TerminalOperation

\* The two containers never run together and neither serves from a database of the other
\* release, even when the request that starts a helper times out.
THEOREM OneApplianceAtATime == Spec => [](OneApplianceRuns /\ ServesItsSchema)
BY UpdaterInvariantHolds, OneApplianceByInvariant, PTL

\* Unless a helper starts whose start was reported to fail (StartMayTimeOut: run_helper's
\* request is given up and its container runs nevertheless), an Appliance accepts work only
\* when no snapshot can overwrite it any more.
THEOREM AppliancesStaySafe ==
  ASSUME ~StartMayTimeOut
  PROVE  Spec => []AppliancesAreSafe
<1>1. UpdaterInvariant => AppliancesAreSafe
  BY OneApplianceByInvariant, GateByInvariant DEF AppliancesAreSafe, UpdaterInvariant
<1>2. QED
  BY UpdaterInvariantHolds, <1>1, PTL

\* The journal records a success only of an operation that the Appliance committed and
\* cleaned up.
THEOREM SuccessStaysConfirmed == Spec => []SuccessIsConfirmed
<1>1. UpdaterInvariant => SuccessIsConfirmed
  BY DEF UpdaterInvariant, OutcomeSound, SuccessIsConfirmed
<1>2. QED
  BY UpdaterInvariantHolds, <1>1, PTL

(***************************************************************************)
(* The snapshot.                                                           *)
(***************************************************************************)

\* A commit request is never taken back, and the database goes back to the old release
\* only while no container runs.
THEOREM SnapshotStaysSafe == Spec => SnapshotIsSafe
<1> DEFINE final == journal.status \in {"commit_requested", "success"} =>
                      /\ db'.schema = "new"
                      /\ ~Running("source")'
                      /\ CandidateExists'
                      /\ journal'.status \in {"commit_requested", "success"}
<1>1. UpdaterInvariant /\ UpdaterInvariant' /\ [Next]_vars => [final]_vars
  <2> SUFFICES ASSUME UpdaterInvariant, UpdaterInvariant', Next,
                      journal.status \in {"commit_requested", "success"}
               PROVE  final
    OBVIOUS
  <2>1. journal'.status \in {"commit_requested", "success"}
    BY DecisionsMade DEF DecidesOnce, Decided
  <2>2. (journal.status \in {"commit_requested", "success"})'
    BY <2>1
  <2>3. (db.schema = "new" /\ ~Running("source") /\ CandidateExists)'
    BY <2>2 DEF UpdaterInvariant, JournalSound, ContainersSound, Switching, Fenced
  <2>4. QED
    BY <2>1, <2>3
<1>2. UpdaterInvariant /\ [Next]_vars => [RestoresAtRest]_vars
  BY DatabaseRestored
<1>3. Spec => CommitIsFinal
  <2>1. CommitIsFinal <=> [][final]_vars
    BY DEF CommitIsFinal
  <2>2. QED
    BY UpdaterInvariantHolds, <1>1, <2>1, PTL DEF Spec
<1>4. Spec => RestoredAtRest
  <2>1. RestoredAtRest <=> [][RestoresAtRest]_vars
    BY DEF RestoredAtRest, RestoresAtRest
  <2>2. QED
    BY UpdaterInvariantHolds, <1>2, <2>1, PTL DEF Spec
<1>5. QED
  BY <1>3, <1>4 DEF SnapshotIsSafe

(***************************************************************************)
(* The refinement.                                                         *)
(***************************************************************************)

\* Nothing is decided, and the old release serves.
LEMMA InitAgrees == Init => Agreement!Init
BY DEF Init, Agreement!Init, Decided, Recorded, Serving, TerminalOperation

\* Every step decides, records, stops or begins to serve, or shows nothing.
LEMMA StepAgrees ==
  ASSUME UpdaterInvariant, Next
  PROVE  [Agreement!Next]_(Agreement!vars)
<1>1. DecidesOnce /\ RecordsDecision /\ ServesAgreed
  BY DecisionsMade, OutcomesRecorded, ServiceAgreed
<1>2. CASE Decided' # Decided
  <2>1. Agreement!Decide("commit") \/ Agreement!Decide("abort")
    BY <1>1, <1>2 DEF DecidesOnce, Agreement!Decide
  <2>2. QED
    BY <2>1 DEF Agreement!Next
<1>3. CASE Decided' = Decided /\ Recorded' # Recorded
  <2>1. \/ Agreement!Record("success") \/ Agreement!Record("rolled_back")
        \/ Agreement!Record("failed")
    BY <1>1, <1>3 DEF RecordsDecision, Agreement!Record
  <2>2. QED
    BY <2>1 DEF Agreement!Next
<1>4. CASE Decided' = Decided /\ Recorded' = Recorded /\ Serving' # Serving
  <2>1. Agreement!StopServing \/ Agreement!Serve("old") \/ Agreement!Serve("new")
    BY <1>1, <1>4 DEF ServesAgreed, Agreement!StopServing, Agreement!Serve
  <2>2. QED
    BY <2>1 DEF Agreement!Next
<1>5. CASE Decided' = Decided /\ Recorded' = Recorded /\ Serving' = Serving
  BY <1>5 DEF Agreement!vars
<1>6. QED
  BY <1>2, <1>3, <1>4, <1>5

\* The updater decides once, the database records that decision only, and no release
\* serves that the decision excludes.
THEOREM UpdaterKeepsAgreement == Spec => KeepsAgreement
<1>1. UpdaterInvariant /\ [Next]_vars => [Agreement!Next]_(Agreement!vars)
  <2>1. ASSUME UNCHANGED vars PROVE UNCHANGED Agreement!vars
    BY <2>1 DEF vars, volume, docker, Agreement!vars, Decided, Recorded, Serving
  <2>2. QED
    BY StepAgrees, <2>1
<1>2. QED
  BY InitAgrees, UpdaterInvariantHolds, <1>1, PTL DEF Spec, KeepsAgreement, Agreement!Spec

================================================================================
