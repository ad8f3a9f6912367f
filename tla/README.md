# MediaSync: TLA+ models, model checking and proofs

MediaSync watches share links of cloud drives, saves new files into the user's
own drive, downloads some of them to local disk, and updates its own container.
This directory holds TLA+ modules translated from its code, the TLC
configurations that check them on small instances, and theorems checked by
TLAPS. Paths below are relative to `src/backend/app/` unless they begin with
`docs/`, which is `src/docs/`.

- [1. The system](#1-the-system)
- [2. Modules](#2-modules)
- [3. The task engine](#3-the-task-engine)
- [4. A transfer, and the requests it makes](#4-a-transfer-and-the-requests-it-makes)
- [5. Subscriptions and scans](#5-subscriptions-and-scans)
- [6. Downloads](#6-downloads)
- [7. The update](#7-the-update)
- [8. The container](#8-the-container)
- [9. Accounts and logins](#9-accounts-and-logins)
- [10. Runs](#10-runs)
- [11. Proofs](#11-proofs)
- [12. Where code and documents disagree](#12-where-code-and-documents-disagree)
- [13. Not modelled](#13-not-modelled)
- [14. Plan](#14-plan)

## 1. The system

One appliance container runs several processes under a launcher
(`appliance/launcher.py`): the API, one Worker, one Scheduler and the web
server. They share nothing but one SQLite database and the files under `/data`.
A one-click update adds a helper container, the updater, that talks to the
Docker Engine and to the appliance through files of `/data/update`.

| Component | State | Operations | Interacts through | Hard behaviour | Correct when |
|---|---|---|---|---|---|
| Task queue: `repositories/tasks.py`, `task_engine/transitions.py`, `models/task.py` | `tasks`, `task_runs` | create, claim, heartbeat, finish, cancel, recover expired leases | SQLite statements of API, Workers, Scheduler | concurrent claims, leases, a decision taken from a row read earlier | one owner per task, runs end once, the policy of transitions holds, the budget is kept |
| Worker: `task_engine/worker.py` | claim, heartbeat, outcome (memory) | cycle | the queue, the handlers | crash anywhere, a heartbeat that dies silently | a task is never lost, never executed by two owners |
| Transfer handler: `task_engine/transfer_handler.py`, `services/transfer_operation.py` | file status, write intent, provider operation id | resolve, ensure folders, start save, query | the providers | a write whose answer is lost | a save is not submitted twice; a file's status follows its task |
| Providers: `providers/*/provider.py` and their clients | page cursor, retries of a request | list, search, create folder, save, query | HTTP | pages that shift, retries of writes, tokens that lead in a circle | nothing that is there is missed, an accepted write is not sent again |
| Subscriptions and Scheduler: `services/subscription_service.py`, `scheduler/*`, `services/task_enqueue_service.py` | `next_scan_at`, idempotency keys | create, edit, delete, claim a due time, enqueue | queue | edits that cross a cycle or each other, two Schedulers | each due time is served once, none is lost |
| Scan: `task_engine/scan_handler.py`, `services/scan_service.py` | files, checkpoints | list, record, prune, enqueue transfers | provider, queue | executions given up between pages, a share that changes | every new file gets one transfer, no old one does |
| Downloads: `services/download_*.py`, `api/v1/downloads.py` | partial file, checkpoint, target | reserve, stream, verify, publish, cancel, retry | queue, file system | cancel against publication, slices, locks | what is published is whole, and reported so |
| Update check and installation: `services/update_check_service.py`, `docker_capability_service.py`, `update_install_service.py`, `update_execution_gate.py`, `repositories/update_operations.py` | cached release and capability, the active operation | check, request, pull, drain, hand over | GitHub, Docker, gate, Workers | a gate read in one statement and acted on in another | one update at a time, only upgrades, nothing is interrupted |
| Updater: `services/updater_*.py`, `services/update_snapshot_service.py`, `updater/__main__.py` | result journal, containers | forward, rollback, recover | Docker, candidate appliance, files | crash between an effect and its checkpoint | old or new version runs in the end, never both, data restored on rollback |
| Commit handshake: `update_reconcile.py`, `services/candidate_evidence_service.py` | operation row, marker, evidence | reconcile | updater's journal | who commits first | the database and the journal agree |
| Launcher, secrets, sessions: `appliance/*`, `core/runtime_secrets.py`, `core/admin_credentials.py`, `api/v1/auth.py` | child processes, `runtime-secrets.json`, session revision | barriers, supervise, stop, change password | signals, `/data` | a kill or a power loss between two steps of a write | keys are never lost, old sessions end, no child is orphaned |
| Accounts and logins: `api/v1/cloud_accounts.py`, `services/account_service.py`, `providers/*/qr_login.py` | sessions, HTTP clients, account rows | start, poll, store, verify | providers | coroutines that await between reading and writing | no client leaks, no spent code is lost, credentials belong together |
| Database, front end, deployment | | | | | environment of the above |

## 2. Modules

| Module | What it is |
|---|---|
| `TaskEngine` | the queue and the Workers: database rows, the cycle of a Worker, the user's commands, time and crashes |
| `TaskLifecycle` | abstract specification: what a client of the queue is promised about one task |
| `Transfer` | one file: the tasks queued for it, the handler that executes them, the drive |
| `ProviderSave` | the requests of a transfer, one by one, as five providers answer them |
| `Subscriptions` | one subscription: edits, due times, the Scheduler, scans in the queue |
| `Scan` | what the scans of a subscription list, record and queue |
| `Download` | the downloads to one path: reservation, slices, verification, publication |
| `UpdateInstall` | an update up to the hand-over: check, request, pull, gate, drain, beside the Workers |
| `Updater` | an update from the drained Appliance on: helper, journal, both Appliances, Docker |
| `UpdateAgreement` | abstract specification: what the updater decides, the database records and the user is served |
| `Appliance` | the container: secrets, start-up barriers, supervision, password and sessions |
| `AccountLogin` | logins, accounts and the checks of their credentials |
| `MCTaskEngine`, `MCTransfer`, ... | instances for TLC: definitions of the constants, symmetry (`Download` and `Subscriptions` need none and are checked directly) |
| `TaskEngineProofs`, `TransferProofs`, `SubscriptionsProofs`, `DownloadProofs`, `UpdateInstallProofs`, `UpdaterProofs`, `ApplianceProofs`, `ProviderProofs` | theorems for all values of the constants |

How they fit together. `TaskEngine` has many tasks of any kind, several Workers
and opaque handlers; every other module that has a queue uses only what
`TaskEngine` shows of it: a task is owned by one execution at a time, an
execution that died gives it back, a late outcome is refused. `Transfer` is the
whole of one handler with a drive that answers in one step; `ProviderSave` opens
that step. `Subscriptions` says when scans run, `Scan` what they do. The state
at which `UpdateInstall` hands over is the one in which `Updater` begins.

A definition whose comment begins with "Fault:" stands for a plausible mistake
in the definition after it; `PROJECT.json` lists for every checked property such
a mistake that breaks it.

## 3. The task engine

### State

| Variable | In the code |
|---|---|
| `status`, `retryCount` | `Task.status` (`"absent"` before the row is inserted), `Task.retry_count` |
| `token` | `Task.lock_token`; stands for all four ownership columns, which the CHECK constraint of `models/task.py:52-69` keeps NULL or non-NULL together |
| `lease` | ticks left until `Task.lease_until`: a countdown, so the clock itself needs no bound |
| `due` | `next_attempt_at` is NULL or past |
| `runs` | the task's rows of `task_runs`, in order of `run_number`; `Len(runs)+1` is the next token, fresh as `secrets.token_hex(32)` is |
| `gateClosed` | what `UpdateExecutionGate.evaluate` would return |
| `pc`, `expiredLeases`, `age`, `claim`, `beat`, `sawCancel`, `result` | locals of one Worker cycle: the phase, the snapshot of expired leases, the age of the clock value read at its start, the `ClaimedTask`, the heartbeat coroutine, whether the handler's cancellation probe returned true, the outcome and the update derived from it |

### Atomicity

SQLite is used through pysqlite's legacy transaction mode: a `SELECT` runs in
autocommit, and each `begin_nested()` block of the repository commits by itself
(SAVEPOINT without BEGIN). So listing the expired leases, recovering each one,
reading the gate, claiming, a heartbeat, the read in `_finish` and the UPDATE
in `finish_run` are seven separate atomic steps, and every interleaving of
Workers, API and time happens between them. Inside one block the several
statements (the task row, then its run) are one action.

### Actions

`CreateTask`, `CancelQueued`, `RequestCancel`, `Resume` are the API's commands
(only downloads can be cancelled or resumed by a user). `BeginCycle`,
`RecoverExpiredLease`/`SkipLease`, `EvaluateGate`, `ClaimNext`/`ClaimNothing`
are `_recover_and_claim`. `Heartbeat`, `HeartbeatLost`, `HeartbeatRaises`,
`ObserveCancel`, `HandlerReturns`, `DiscardOutcome`,
`HeartbeatFailureEndsProcess` are `_execute_with_heartbeat`; the handler is the
environment and returns any outcome a registered handler can return (deferred
only from downloads; cancelled only after its probe returned true; a handler
that cannot be resolved fails). `ReadForFinish`, `FinishRun`, `FinishRejected`
are `_finish` and `finish_run`. `Crash`, `Restart`, `Tick`, `Stall`,
`BecomeDue` are the environment: a graceful stop is a crash of an idle Worker.

### Abstractions

- The claim order is by priority; among equals the code orders by time, the
  model leaves the choice open, which allows more behaviours.
- The backoff is abstracted to `due` becoming true some time later.
- `recovery_limit` (100 leases per cycle) is never reached by the instances.
- A tick that would take the lease from a Worker at work is a `Stall`, bounded
  by `MaxDisruptions`; without the distinction every run would be lost to an
  arbitrarily slow process, which the heartbeat exists to exclude.

### Properties

| Property | What could go wrong |
|---|---|
| `OwnedIffOneActiveRun` | two tables, updated by different statements, disagree about who executes a task |
| `RetryLedger` | an execution that failed or was lost is charged twice, or not at all |
| `EngineInvariant` | what a Worker remembers (its claim, its decision) contradicts the row by the time it writes |
| `StatusFollowsPolicy` | one of the conditional UPDATEs that bypass `validate_transition` takes a forbidden transition |
| `RunsEndOnce` | a late owner and recovery both end a run; a run is ended after its lease |
| `DrainHolds` | a claim slips in after the gate closed and the queue had drained |
| `ImplementsLifecycle` | any of these, seen by a client who knows only the promise of `TaskLifecycle` |
| `CancelSettles`, `TasksMoveOn` | a task stays owned for ever (`OwnershipEnds`), a queued one is never settled (`QueueSettles`), nor a requested cancellation |

`DrainHolds` says what is true: once no task is owned *and no Worker stands
between its reading of the gate and its claim*, nothing becomes owned while the
gate stays closed. The second conjunct is needed: the claim does not read the
gate again (`task_engine/worker.py:231`); `UpdateInstall` shows what follows.

## 4. A transfer, and the requests it makes

### `Transfer`

It follows one file of a subscription: the tasks that are queued for it, their
execution by `TransferTaskHandler`, and the copies of that name in the target
folder of the user's drive.

| Variable | In the code |
|---|---|
| `taskStatus`, `retryCount` | `Task.status`, `Task.retry_count` of the file's transfer tasks, in order of creation |
| `operation`, `operationStatus` | `Task.provider_operation_id` (a copy, or `NoCopy` for NULL), `Task.provider_operation_status` |
| `fileStatus`, `fileTarget`, `fileVersion` | `CloudFile.status`, `.target_file_id`, `.fingerprint` (contents are numbered in the order scans see them) |
| `credentialValid` | whether the drive accepts the stored credential |
| `copies` | the drive: which content each copy has (0: another file of the same name), and whether it is finished and hence visible in the folder |
| `pc`, `run` | the Worker: the next transaction or request, and the locals of `__call__`: what `TaskInvocation.from_task` read, the content of `_load_source`, how the attempt ended, `token_persisted` |
| `faults` | how often each fault has struck; bounded by `MaxFaults` |

`ScanRecordsFile` and `ScanRecordsBaseline` are a scan's `_record_item`;
`EnqueueTransferRetry` is the retry button. `ClaimTask`, `FinishRun` and
`RecoverExpiredLease` are what `TaskEngine` makes of the queue for a task that
cannot be cancelled. The handler is one action per transaction or request, in
the code's order: `LoadSource`, `MarkSaving`, `PrepareTarget`,
`FindTargetItem`/`FindNothing`, `RecordWriteIntent`, `SubmitCopy`,
`RecordProviderOperation`, `QueryOperation`, `PersistProviderToken`, then
`RecordProviderSuccess` and `MarkSuccess`, or `RecordProviderUncertain` and
`MarkFailure`. Each has its failures beside it: a refusal, a lost answer, a
write to the database that fails, an exception that leaves the handler. `Crash`
may come between any two.

`Resumable` and `Verified` choose the kind of provider by the two protocols the
code tests for: Quark, Baidu, PikPak and 123 are resumable, Aliyun copies in one
request, PikPak compares fingerprints.

Abstractions. One Worker, sequential with the scans it also executes: that is how
`docker-compose.yml` (`replicas: 1`) and the launcher run it; a stale owner
executing beside its successor is `TaskEngine`'s subject. A lease is recovered and
a retry is due whenever the Worker is idle. A refused request may be classified as
any error `_classify_failure` knows; "waiting for a credential" only while the
credential is invalid. The handler's cancellation branches are left out (only
downloads can be cancelled), and so is a missing file or subscription (a
subscription with active tasks is not deleted).

| Property | What could go wrong |
|---|---|
| `RetryContinuesOperation` | a task, or its successor, whose operation id is stored submits the copy again |
| `OneTaskOneCopy` | without a crash or a lost token, the drive ends up with two copies for one task, whatever answers and writes fail |
| `DoubtEndsRetries` | a write in doubt is repeated automatically |
| `OnlyFaultsLeaveFiles` | a file shown as pending or saving has no task that will settle it: the handler's prediction of an exhausted budget and the queue's decision differ |
| `SuccessIsSaved` | a task succeeds while its file is not marked as saved |

The conditions of these name the faults after which the plain statement
(`NoDuplicateCopy`, `UncertainEndsRetries`, `NoFileLeftBehind`) does not hold; a
crash between `RecordProviderUncertain` and the end of the run also leads to a
retry of a write in doubt.

### `ProviderSave`

`Transfer` treats "look, submit, query" as three steps. Here each is a sequence
of requests to Aliyun Drive, Quark, 123, Baidu or PikPak, with the drive and its
other users changing between any two.

| Variable | In the code |
|---|---|
| `drive` | all entries there ever were: parent, name, whether a directory, content, whether the copy is complete, for which job |
| `run` | the save under way: the request it waits for (`at`), folder, page marker, markers met, entries found, attempt |
| `operation` | the provider operation id |
| `answer`, `saved`, `made`, `shapeless` | history: how the last run of each job ended, the entry it reported, the copies made for it, whether an accepted save was answered without data |
| `provider`, `job`, `strange` | fixed: the provider, what the transfers are, whether PikPak's page tokens may lead back |

`Start`, `Resolve`, `ListPage` (with `Searched`, which says what each finished
search leads to), `FolderMissing`, `MakeFolder`, `Save`, `SaveShapeless`,
`SaveRefused`, `QueryTask` and `Move` are a run's own requests; `AnswerLost`,
`RequestTimesOut` and `RequestRefused` what can happen to each of them, with the
retries of the provider's request method (`AliyunRequest`, `QuarkRequest`, ...);
`CopyCompletes`, `OtherAdds` and `OtherRemoves` are the drive's.

Abstractions. The newest entry is listed first for every provider, which stands
for any fixed order: what matters is that entries that come or go shift the
later pages. Others' changes and failing requests share the bound `MaxEvents`,
and page tokens that lead back are tried without either. A name that is taken
makes Quark and 123 rename the copy. That a copy is made once per accepted
request, that it shows when it is complete (PikPak: before), and what others may
put there, are assumptions about the drives.

| Property | What could go wrong |
|---|---|
| `SubmittedOnce` | a save whose answer was lost, or a read repeated by a method that serves writes too, is sent again |
| `SavesAreRight` | a page is skipped and an entry that was there all the time is missed (`NothingIsMissed`); a save is reported for another entry, an incomplete one or one elsewhere (`DoneIsThere`) |
| `TransfersEnd` | a search goes round in a circle of page tokens (`RunEnds`); an undisturbed transfer is never saved (`UndisturbedIsSaved`) |

What the properties leave out is what the code does not promise: providers other
than PikPak accept any existing entry of the name; a search by page numbers may
miss an entry when another is removed during it; PikPak moves any only file of the
same fingerprint out of "Pack From Shared".

## 5. Subscriptions and scans

### `Subscriptions`

One subscription and the scans queued for it. SQLite begins a transaction at the
first write, and SQLAlchemy writes the columns that differ from what was read;
so every request, cycle and scan is split where it reads and where it writes,
and `Written(read, new, stored)` says which columns an edit touches.

| Variable | In the code |
|---|---|
| `sub` | the row of `subscriptions`: `enabled`, the interval, `next_scan_at` |
| `tasks` | its scans in the queue: status, the due time in the idempotency key, whether `subscription_id` is still set |
| `cycle`, `request`, `scan` | what a Scheduler cycle, a request, an execution has read, and where it is |
| `job` | in mode "legacy": whether APScheduler has a job for it |
| `now`, `clockRead` | the clock; no two processes read the same microsecond |
| `late` | history: whether a cycle wrote a due time that had passed, while intervals can be edited |

`CreateSubscription`, `ReadForEdit`/`EditSubscription`,
`LookForManualScan`/`InsertManualScan` and `LookForDeletion`/`DeleteSubscription`
are the API; `ReadDue`, `LookForActive`, `CommitCycle` the Scheduler's cycle;
`ClaimScan`, `StartScan`, `ScanSucceeds`, `ScanFails`, `FinishScan`, `WorkerDies`
and `RecoverScan` an execution of `ScanTaskHandler`; `RunLegacyScan` and
`RestartLegacy` the jobs of the API process in mode "legacy".

| Property | What could go wrong |
|---|---|
| `SlotsAreSound` | two Schedulers serve one due time, or a retried commit does (`SlotServedOnce`); a stale cycle or edit writes a due time that was served already, whose key then undoes every cycle (`DueIsFree`); two edits leave an enabled subscription without a due time (`EnabledHasSlot`) |
| `ScansSettle` | a due time is never served, or a paused subscription keeps a scan that nobody will end |

`EnabledHasSlot` is stated for two edits, `DueIsFree` for cycles that do not stall
past the due time they write while the interval is edited: otherwise they fail
(section 12).
`OneScanAtATime` and `PausedCanBeDeleted` are stated in the module and do not
hold in general either.

### `Scan`

The scans of one subscription, one at a time, over a share that changes.

| Variable | In the code |
|---|---|
| `parent`, `content` | the share: the folder of every item, the version of every file |
| `record`, `queued` | `cloud_files.fingerprint`, and the keys of the transfer tasks |
| `never`, `scanned` | the folder checkpoints without `last_scanned_at`, and the others, least recent first |
| `first`, `full` | `last_scanned_at` of the subscription is NULL, `last_full_scanned_at` is not |
| `scan` | the execution: the stack of folders, the page, the items met (`seen`), the markers given |

`StartScan`, `ListPage`, `Descend`, `Prune`, `FinishScan` are
`ScanService.scan`; `GiveUp` is an execution that fails, dies or is cancelled
between two pages, whose pages stay recorded; `ChangeShare` is the owner. An
honest provider lists what is there; a "flaky" one may answer the same page again
or more pages for ever, against which the code keeps what it was given. Under
`Folders` of two levels and batches of one folder, the order in which folders are
visited decides whether a deep one is ever reached.

| Property | What could go wrong |
|---|---|
| `ScanInvariant` | a first scan in mode "future_only" that takes several executions transfers what was there before (`BaselineNotTransferred`) |
| `NewIsQueued` | a new file is found by an execution that is given up, and is no longer new to the next; a folder is never its batch's turn |
| `ScanSettles` | a listing never ends (`ScanEnds`); the checkpoint of a folder that is gone stops all scans for ever (`StaleIsPruned`) |

The exceptions in `NewIsQueued` are the code's: the checkpoint of a folder that
is gone fails every partial scan until a full one has removed it.

## 6. Downloads

`Download` is one path of the local disk. Several files of the drive may be
wanted there; requests cross, and two Workers, or the legacy loop, execute.

| Variable | In the code |
|---|---|
| `tasks` | the download tasks of the path: file, status, the predecessor in their idempotency key, owner |
| `request` | of each API thread: what it will insert, from what it has read |
| `data`, `partial`, `target` | blocks of each inode, and which inode `.<name>.mediasync.part` and `<name>` name |
| `checkpoint` | `.<name>.mediasync.json`: identity, digests of verified blocks, the inode to be published |
| `pc`, `job`, `fd`, `memory`, `answer`, `outcome` | an execution: where it is, its task, its open file, the dictionary `state`, the range it receives, how it ended |
| `linked`, `delivered`, `broken` | history: tasks that published, files that were, tasks whose execution failed after it had published |

An execution is `OpenPartial`, `TryLock`, `InspectTarget` /
`InspectForeignProgress` / `InspectProgress`, `WriteCheckpoint`, `RangeHonoured`
or `RangeIgnored`, `ReceiveBlock`s, `DigestBlock`s and `CompareHash` (or
`SkipVerification`), `Seal`, `ConfirmOwnership`, `Link`, `Unlink`,
`ClosePartial`, `FinishTask`; `StopExecution`, `ExecutionFails`, `PublicationFails`
and `CloseFails` may take their place where the code has a probe or an operation
that raises. `ReadDestination`,
`ReadForRetry`, `CreateDownload`, `ResumeDownload`, `CancelDownload` are the API;
`ClaimTask`, `LoseLease`, `Crash` the queue; `UserRemovesTarget` and
`UserPlacesFile` the directory's other user.

Abstractions. A file has `Size` blocks; a digest of a block is the block. Two
files of one path have different identities and the same size. The lock belongs
to the inode, the name to the directory: executions that opened different files
under the partial's name lock different files. In mode "legacy" the tasks have no
leases and one instance of the job runs. Path checks and the choice of the root
are left out.

| Property | What could go wrong |
|---|---|
| `DownloadInvariant` | what is published is not whole, or not verified (`PublishedIsComplete`); the partial mixes two files (`ProgressBelongs`); success is recorded of nothing (`SuccessIsPublished`); two tasks share the path (`OneActivePerPath`) |
| `PublicationIsReported` | a published download is reported as cancelled or failed, other than by an execution that failed itself; after a crash or a failure the checkpoint no longer tells the next execution whose file is there |
| `TargetUntouched` | a publication, or a late write, changes what is under the target's name |
| `DownloadSettles` | a slice leaves the next one no less to do |

What follows `os.link` may fail like anything else: the removal of the partial, the
commit of the progress (`PublicationFails`), the flush, the fsync and the checkpoint
of the `finally`, the closing of the file (`CloseFails`). `execute_download` then
answers "failed" for a file that is published, without a crash or a lost lease; no
bound limits these failures. `broken` names the tasks, `PublicationIsReported` excepts
them, and says what the code keeps instead: the checkpoint still names the file under
the target's name as the task's own, so a retry by the user is answered with success.

The conditions in these properties name their exceptions: a second corrupted
block (stale digests), a directory the user changes while besides an execution
dies or loses its lease (`Orderly` excludes the two together), a crash after the
publication or a failure after it, mode "legacy". Each is an entry of section 12.

## 7. The update

### `UpdateInstall`: up to the hand-over

| Variable | In the code |
|---|---|
| `listed`, `engine` | what GitHub lists, what a probe of the Docker Engine would say |
| `latest`, `fresh`, `capability` | the API's caches: `_latest_release`, whether the last attempt is recent, the cached probe |
| `install` | of each request: where it and its installer are, the release it has read, the payload its page sent |
| `operation` | the rows of `update_operations`: status, source and target version; the active slot is taken while the status is not terminal |
| `task`, `worker` | the queue as the drain sees it, and the Workers: "claiming" is between their reading of the gate and their claim |
| `early`, `stragglers` | history: Workers that read the gate before it closed, and what they claimed after the drain |

`Check`, `CacheExpires`, `RequestInstall`, `Probe`, `Begin`/`Refuse`, `Drain`,
`PullFails`, `DrainEnds`, `DrainTimesOut`, `HandOver`, `HandOverFails` and
`StartHelper` are the API process; `ReadGate`, `Claim`, `Recover`, `FinishTask`
the Workers; `HelperStops` and `HelperEnds` summarise `Updater`; `Crash` is of the
whole Appliance. The exchanges with GitHub and the registry, and the comparison of
labels and digests, are outcomes: verified, or the operation fails.

| Property | What could go wrong |
|---|---|
| `UpdatesAreSound` | two requests begin (`OneUpdateAtATime`); what is installed is not newer, a draft, or a candidate on a stable Appliance, because flags and tag of a listing disagree or the check is stale (`InstallsUpgrades`) |
| `OnlyStragglersAreStopped` | the helper stops a task other than those the known gap lets through |
| `UpdatesSettle` | an operation waits for ever; the queue does not go on after a failed update |

### `Updater`: from the drained Appliance on

| Variable | In the code |
|---|---|
| `db` | `/data/mediasync.db`: the status of the operation's row and the schema revision, "old" or "new" |
| `journal` | `/data/update/operations/<id>.json`: status, checkpoint, `recovery_generation`, `coordinator_container_id`; replaced atomically (`os.replace`) |
| `handoff`, `marker`, `evidence` | `<id>.handoff.json`, `update/pending.json`, `<id>.candidate.json` |
| `snapshot` | `/data/backups/updates/<id>`: the database it holds |
| `life` | of each Appliance's container: missing, created, running ("booting" through the start-up barriers, "starting", "serving"), exited by itself, stopped on request, removed |
| `sourceName`, `sourcePolicy` | the old container's name and restart policy |
| `helper` | of each updater container: where its coordinator is, and whether the effect leading to the next checkpoint has been confirmed |
| `installer` | the install request in the old Appliance's API process |
| `cached` | `ExitedUpdaterCleanupObserver._document` is set |
| `release` | whether the new image can boot; chosen once |

`Install...` is `UpdateInstallService.execute` after the drain. `Coordinate...`
and `Disarm` are one `run_once` of the coordinator: read handoff and journal
under the process lock, take over, decide, act. The forward path
(`FenceOldRestart` ... `CleanupOld`) and the rollback path (`StopCandidate` ...
`VerifyOld`) alternate an effect with `CheckpointForward` or
`CheckpointRollback`; a helper's `did` is lost when it dies, the effect is not,
and the effects are written, as the code's are, to be repeatable. `RunBarriers`,
`Serve`, `WriteEvidence`, `CacheHandoff`, `RemoveExitedHelper`,
`ReconcileActive` and `CleanUp` are the launcher: barriers before the API
starts, then the supervision loop. `DockerRestart`, `ApplianceCrash`,
`DaemonRestart`, `HelperFails`, `InstallRaises` and `StartReplacementHelper` are
the environment. A helper that is started again by Docker is in `idle`, like one
that sleeps between two attempts: neither remembers anything.

Abstractions. Identities (container ids, candidate token, image digests) are
compared by the code and never wrong in the model, except the source's name,
whose agreement with the checkpoint is `SourceObserved`. A step's inspections, its
effect and the inspection that confirms it are one action; a crash before the
confirmation is `HelperFails` after an earlier step, and the effect without its
confirmation differs from it only in `did`. `RunBarriers` is migration and
reconciliation in one step, the installer's exception handler another,
`_mark_recovery_exhausted`'s two writes a third; `prepare` writes the file and
creates the container in one step. Snapshot files are one value; a partial restore
is repeated before anything runs, which `RestoredAtRest` is about.

| Property | What could go wrong |
|---|---|
| `AppliancesAreSafe` | a restart policy, or an unconfirmed stop, lets both containers run on one SQLite file (`OneApplianceRuns`); an Appliance serves from the other release's schema (`ServesItsSchema`); tasks are executed on data that a rollback will still overwrite (`GateOpensWhenDecided`) |
| `SuccessIsConfirmed` | the journal says success before the Appliance has committed and cleaned up |
| `SnapshotIsSafe` | anything rolls back after the commit request (`CommitIsFinal`), or the database is replaced under a running container (`RestoredAtRest`) |
| `KeepsAgreement` | the updater's decision, the record and the release that serves disagree |
| `UpdateSettles`, `GateReopens` | a crash leaves the operation open, nothing serving, or the gate closed |

`StartMayTimeOut` is FALSE in the registered runs: with it `GateOpensWhenDecided`
fails (the operation is recorded as failed while the helper works).

## 8. The container

`Appliance` is the launcher, the file `runtime-secrets.json`, the password and the
sessions of the API, and the row a v0.1 process left running.

| Variable | In the code |
|---|---|
| `disk`, `durable` | `runtime-secrets.json` as a process reads it, and as a power loss leaves it |
| `data`, `schema`, `legacy` | the key the database's credentials were encrypted with, its schema, a row of v0.1 |
| `env` | `ADMIN_PASSWORD` and `SECRET_KEY` of the container |
| `phase`, `alive`, `stop`, `wanted` | the launcher, its children, SIGTERM, Docker's restart policy |
| `memory`, `change`, `session` | `AdminCredentialStore`, an online change under way, a browser's cookie |
| `told`, `asked`, `again`, `torn` | history: the password the administrator has reason to believe in, and the two known exceptions |

`BootContainer` to `SyncSecretsFails` are `runtime_secrets.py` (replace, then
sync); `Migrate`, `ReconcileUpdate`, `ReconcileLegacy` the barriers; `StartApi` to
`LauncherExits` the supervision and the shutdown in `ShutdownOrder`; `Login`,
`ReplacePassword`, `SyncPassword`, `ConfirmPassword` the API. `Kill`, `PowerLoss`,
`ChildDies`, `DockerStop`, `DockerStart` and `Recreate` are the environment.

| Property | What could go wrong |
|---|---|
| `SecretsHold` | a power loss takes a key with which something was already encrypted (`DataHasItsKey`); a cookie outlives the password it was issued for (`RevisionNamesPassword`); a restart brings back an old password (`PasswordHolds`) |
| `LaunchIsOrdered` | the Worker meets an old schema or an orphaned v0.1 row (`WorkersFindReadyData`); a child survives its launcher (`NoOrphans`) |
| `ServesAgain` | a start that stops half-way leaves the container up and unhealthy |

`torn` marks a write that ended between `os.replace` and the sync of the
directory: no later start syncs it, so a power loss may still take it. A password
the first start generates is stored before it is logged; if the process dies in
between nobody knows it, which no property here says.

## 9. Accounts and logins

`AccountLogin` is one login manager (Aliyun Drive, Quark, 123, Baidu, or PikPak's
password login), with its sessions, their HTTP clients and the account rows.
Requests are coroutines: each await is a boundary between two actions.

| Variable | In the code |
|---|---|
| `session`, `client`, `code` | a session object, its HTTP client, the code at the provider |
| `poll`, `check`, `signin` | the coroutines of a poll, of a verification, of a PikPak login |
| `accounts` | `cloud_accounts`: provider, name, private credential, bound OpenAPI credential and their status |
| `told`, `stored` | history: the last final answer of a session, and whether an account has had its credential |
| `replaced`, `seen` in `accounts` | history: a credential changed after the check that marked the OpenAPI one usable; whether that check knew both users, or which check it was |

`BeginStart` to `StartAliyun`, `BeginPoll`, the `Ask...` of each provider,
`ExchangeDone`, `StoreRenewal`, `StoreNew`, `PollVerified` are the logins;
`AddAccount`, `RenameAccount`, `PasteToken`, `BindOpen`, `RemoveOpen`,
`DeleteAccount` the page's other requests; `BeginCheck` to `OpenInvalid` the
verification and the list of drives. `Restart` forgets every session. SQLite
gives a new row the number above the greatest in use (`FreshId`), so the numbers
of deleted rows come back.

| Property | What could go wrong |
|---|---|
| `LoginInvariant` | a client leaks, or is closed under a poll (`ClientsAreOwned`); a code that works once is spent and its credential lost (`CredentialKept`); a check that other requests cross marks an OpenAPI credential usable for credentials it did not see, although both profiles named a user, or at Aliyun Drive although one did not (`OpenChecked`) |
| `ExpiredIsFinal` | a login answered as expired stores a credential later |

A profile may name no user: the private one of Quark normally does not, those of 123,
Baidu and Aliyun Drive need not, nor the OpenAPI one of Aliyun Drive
(`PrivateUsers`, `OpenUsers`); PikPak's and the other OpenAPI profiles always do, or
are refused. The code compares only known users (`SameUser`), and only
`verify_open_credential` insists on both, for Aliyun Drive; `list_drives` does not.
So a usable OpenAPI credential may be another person's: `OpenChecked` says when it is
not, and `OpenMatches`, which README.md:169 lets one expect, is in section 12.

Encryption, the field rules of a binding and the providers' response formats are
data. The page polls a session again only after an answer, hence one poll each.

## 10. Runs

All runs finish with `tlc -workers 2` in about two and a half minutes or less each.

| Run (configuration) | Instance | Distinct states | What it shows |
|---|---|---|---|
| `task_engine_fencing` (`MCTaskEngineFencing.cfg`) | one download, two interchangeable Workers, two disruptions | 578 348 | all safety properties of the queue with two owners contending: crash, stall, recovery and a late finish of the same task |
| `task_engine_queue` (`MCTaskEngineQueue.cfg`) | a download and a task of higher priority, one Worker, one disruption, `FairSpec` | 179 956 | that `TaskLifecycle` is implemented, and what must eventually happen |
| `transfer` (`MCTransfer.cfg`) | two tasks of one content, two retries, a resumable provider that compares fingerprints; one crash, two lost answers, two failing writes, one lost token, one expiry | 2 198 904 | `Transfer` under every combination of the faults |
| `provider_save` (`MCProviderSave.cfg`) | two jobs in two assignments (one content into two folders, two contents into one), five providers, pages of two, one event, `LiveSpec` | 102 397 | `ProviderSave` with an answer lost or another user of the drive between any two requests |
| `subscriptions` (`MCSubscriptions.cfg`) | two Schedulers, two API threads, one Worker, both modes, two events, `FairSpec` | 1 226 345 | due times under crossing edits, cycles and deaths of a process |
| `scan` (`MCScan.cfg`) | two folders, one file, three initial shares, two versions, batches of one folder; one change of the share, one execution given up, `FairScanSpec` | 285 953 | completeness of scans |
| `downloads` (`MCDownload.cfg`) | two files for one path, one with a hash, two Workers, two API threads, both modes, files of two blocks received one by one; one disturbance, `FairSpec` | 1 435 555 | `Download` |
| `update_install` (`MCUpdateInstall.cfg`) | two requests, one task, one Worker, three versions in three listings; one crash, one change | 455 434 | `UpdateInstall` |
| `updater_safety` (`MCUpdaterSafety.cfg`) | two interchangeable helpers, policy "always", both kinds of release, eight disruptions | 386 096 | the safety of an update and that `UpdateAgreement` is implemented |
| `updater_liveness` (`MCUpdaterLiveness.cfg`) | one helper, policy "unless-stopped", five disruptions, `FairSpec` | 21 018 | that an update is settled |
| `appliance` (`MCAppliance.cfg`) | two passwords, three values of `ADMIN_PASSWORD`, two keys, three rows of v0.1; two faults, three changes by the user | 841 431 | `Appliance` |
| `account_login` (`MCAccountLogin.cfg`) | two account numbers, two names, two users, two sessions, every provider; four changes, one fault | 3 737 250 | `AccountLogin` |

Why the bounds are enough.

- *Task engine.* `MaxRetries = 1` reaches every side of the budget comparison (0,
  at, beyond). `LeaseDuration = 2` is the least that separates a fresh lease from
  one about to end, and the least with which `Tick` can be fair. Two disruptions
  allow a crash of the owner and another of the Worker that recovered its task;
  one continuation allows a deferred or resumed task to be executed again. Two
  Workers are what it takes to race; the appliance runs one, and a restarted one
  overlaps with the old only through the lease. Rows are independent except for
  the priority order, and the proofs cover any number of rows and Workers.
- *Transfer.* Two tasks are a transfer and its retry; two retries have a first, a
  middle and a last attempt; each fault is allowed as often as it may matter to a
  write (before and after the request). The providers that are not resumable or
  do not compare differ in `Transfer` by branches that are left out;
  `ProviderSave` has all five.
- *ProviderSave.* Pages of two with up to fifteen entries make a search of several
  pages, which an entry that comes or goes can shift.
- *Subscriptions.* Two times of one interval each are a due time and the next; two
  events are two crossing edits, or an edit and a process that dies. The third
  edit is what `MCSubscriptionsEdits.cfg` adds.
- *Scan.* Nested folders with batches of one make the order of visits matter; one
  change lets a folder move, vanish or gain a file between two pages.
- *Download.* Two blocks are the least with a resumed slice; two files and two
  threads contend for the path. The safety properties were also checked with one
  file and three disturbances.
- *UpdateInstall.* Three versions are the installed one, an upgrade and a candidate.
- *Updater.* `MaxGeneration = 3` is the code's constant. The second helper is what a
  takeover needs. Eight disruptions allow four failures forward and four back,
  among them all takeovers; "always" is the harshest policy, as a daemon restart
  brings back even what was stopped on request; under "unless-stopped" it does not.
- *Appliance.* Two faults: a kill during the recovery from a kill; three changes: a
  change of the password, a stop and a new container.
- *AccountLogin.* Two sessions of one account and of two are what it takes to cross.

Deadlock is checked where the system always has a step (the task engine); the
other instances really come to rest: a transfer that is settled and not retried,
an update that ended.

Fairness, and why the code justifies it.

| Module | Fair | Because |
|---|---|---|
| `TaskEngine` | a Worker's own steps, a handler's return, restart, time, the loss of a heartbeat | processes are scheduled; handlers are bounded by HTTP timeouts and finite listings; `restart: unless-stopped` and the launcher's supervision. Not: users, the gate, heartbeats, stalls |
| `Updater` | each running process, Docker's restart policy | a process that runs makes steps. Not: the administrator, crashes, the success of a health check |
| `UpdateInstall` | each request's next step, the Workers' steps, the end of the helper | bounded waits (pull and drain have timeouts). Not: checks, changes of GitHub or Docker, crashes |
| `Download` | the Workers' claims, each execution's next step, the recovery of a lease whose owner died | as the task engine. Not: API threads, disturbances |
| `Subscriptions` | time, the Schedulers and Workers taken together, recovery | at least one process of each kind runs |
| `Scan` | the start of the next scan, a step of the execution | the Scheduler enqueues for ever (`Subscriptions`) |
| `Appliance` | the launcher, the children's end on a signal, Docker's restart | `terminate` is followed by `kill` after a timeout |
| `ProviderSave` | a step of the run or its failure, the completion of a copy; strongly, the start of each job | the queue hands out every task of equal priority in turn, so a job ready again and again is started |
| `AccountLogin`, `Transfer` | none in the runs | only safety is checked; `Transfer` has `WF(Worker)` for `MCTransferBlocked.cfg` |

The liveness of the updater is stated for one helper: with two, takeovers that are
not counted (`EveryTakeoverCounts` in `MCUpdaterExceptions.cfg`) let it go on for ever.

## 11. Proofs

Eight modules hold theorems. Each proves an inductive invariant and then the
properties of the runs from it, for every value of the constants that the
module's `...Assumption` allows.

`TaskEngineProofs`, for any set of tasks and Workers:

- `TypeCorrect`, `EngineInvariantHolds`. None of the safety properties is inductive
  alone: that a late Worker cannot finish somebody else's run needs that every
  claim in memory names a run that exists (`ClaimRecorded`), hence that no later
  token equals it (`RunsNumbered`); that a decision is still legal when written
  needs its relation to the row it was read from (`DecisionSound`).
- `Ownership`, `Budget`, `OutcomesAreValid`, `LedgerBalances`: the invariants.
- `PolicyFollowed`, `RunsEnd`, `DrainIsStable`: the action properties.
- `EngineImplementsLifecycle`: every step is a step of `TaskLifecycle` or none.

The argument goes through the rows: `RowStep` shows that a step writes at most one
row, in one of six ways, and the later proofs argue from those cases rather than
from the twenty-odd actions. `ClaimKept` is the corresponding fact about what a
Worker remembers.

`TransferProofs`, for any number of tasks, contents, retries and faults and either
kind of provider:

- `TransferInvariantHolds`. What is submitted depends on the operation id the
  execution read at its claim, so the invariant keeps that in step with the row
  (`ExecutionSound`), and every id in a row a copy that was asked for
  (`RowsSound`). For one content, `TransfersChained` says that an operation is
  handed from task to task.
- `RowsOKHolds`, `SavedIsCopiedHolds`: the invariants.
- `NeverResubmits`: a task with a stored operation id is never submitted again.
- `RetriesContinue`: nor is the file by a later task, as long as its content stays;
  with changing contents a new task rightly starts a new operation, hence the
  hypothesis `MaxVersions = 1`.
- `OutcomeInvariantHolds`: a second invariant, on top of the first, of how
  executions end. It relates what each phase of the handler has done to the row,
  the file and the copies: which accepted request a copy is of, that the prediction
  the handler makes of an exhausted budget is the queue's decision, and that the
  file follows the task while no fault has come between.
- `OneTaskAsksOnce`, `DoubtsEndRetries`, `FilesAreNotLeft`, `SuccessesAreSaved`: the
  remaining properties of the run, from it.

`SubscriptionsProofs`, for any numbers of Schedulers, API threads, Workers and
events and any intervals:

- `SubscriptionInvariantHolds`. That a due time which was served does not come back
  rests on the clock: what is written is a reading plus an interval, readings of
  cycles and edits differ (`CyclesSound`), and every scan was made for a due time of
  the past (`SlotsPast`); with one interval the values a cycle may still write are
  told apart from all others (`NextIsFree`). With several intervals that argument
  fails, and so did the property: hence `late`, and `DueIsAlwaysFree` in section 12.
  That it takes three edits to lose the due time is followed edit by edit
  (`EditsSound`): the first finds no due time left over on a paused row, the second
  may read one, the third may cross it.
- `SlotsAreSoundHolds`: the property. `SlotStep` is what a step does to the keys, by
  which the later proofs argue.

`DownloadProofs`, for any files, Workers, API threads, sizes and disturbances:

- `PathInvariantHolds`. Its parts follow a download through the code: the queue of
  the path is a chain (`QueueSound`), an execution has its task to itself until a
  fault (`ExecutionSound`, `OwnersExecute`), the lock is of one inode (`LocksSound`)
  and who holds it writes to the file that has the partial's name (`WriterSound`),
  what it remembers is the checkpoint (`MemorySound`), digests never vouch for a
  block that was corrupted (`BlocksSound`, `DigestsSound`), the evidence is of what
  was published (`EvidenceSound`), and success follows delivery (`DeliverySound`,
  `ReportSound`). `PublicationSound` keeps the evidence of a publication in place from
  the link on, whatever dies or fails after it. `WriterSound` was false without `Orderly`: that is how the entry
  of section 12 was found.
- `DownloadsAreSound`, `PublicationsAreReported`, `TargetStays`: the properties.
- `Moves` is what a step of an execution may do, `Apart` what a step of the queue
  leaves alone; most preservation proofs argue from these two. `SomeInodeIsUnused`
  shows by counting that the file system's choice of an inode exists.

`UpdateInstallProofs`, for any requests, tasks, Workers, listings and any set of
versions ordered as `UpdateInstallAssumption` says:

- `NewestExists`: the release that `max()` picks exists and is the newest of those
  left over by the filters; the finite set of versions makes the strict order well
  founded on sets, so no induction is needed. `SelectionIsOffered` follows.
- `UpdateInvariantHolds`: the slot is held by one request (`SlotHeld`), what is
  cached fits the channel and is an upgrade until the Appliance ends (`OffersFit`),
  and every Worker that claims under a closed gate read it before
  (`StragglersKnown`).
- `UpdatesAreSoundHolds`, `OnlyStragglersAreStoppedHolds`: the properties.

`UpdaterProofs`, for any number of helpers, any restart policy, generation limit
and number of disruptions:

- The invariant relates the three parties that may each die: the journal's records
  keep their order on both paths (`JournalSound`); one helper has the process lock
  and follows the path that the journal asks for (`LockSound`); what the installer
  was told (`InstallerSound`); containers, restart policies, snapshot and schema are
  as far as the checkpoint says, in either direction (`ContainersSound`); an effect a
  helper has confirmed is in place until it is recorded (`EffectSound`); the database
  has the journal's decision (`OutcomeSound`); an operation the installer gave up
  has no helper that could still act (`FailureSound`).
- From it the safety properties of the run, and that the updater implements
  `UpdateAgreement`: a step decides once, records what was decided, and serves the
  release agreed upon, or leaves the mapped state alone. `OneApplianceAtATime` holds
  whatever Docker answers; `AppliancesStaySafe` under `~StartMayTimeOut`, without
  which it is false (section 12).

`ApplianceProofs`, for any passwords, keys, rows of v0.1 and any number of faults,
containers and changes:

- `ApplianceInvariantHolds`. That the keys survive a loss of power needs to know
  where the file may differ from its durable form: between its replacement and
  the sync, in the launcher or in an online change (`FileSound`). That a cookie
  ends with its password needs that revisions only grow, in the file, which is the
  authority across restarts, and in the process, which is one behind during a
  change (`MemorySound`, `SessionSound`). `PhasesSound` is what each phase of the
  launcher may rely on, `BeliefSound` what the administrator was told.
- `LaunchIsOrderedHolds`, `SecretsHoldHolds`: the properties.

`ProviderProofs`, about the two modules in which providers answer. `AccountLogin`, for
any numbers of sessions, people, accounts, changes and
faults and each of the five login managers:

- `LoginIsSoundHolds`. A credential for which a code was spent is in the session
  before the poll stores it, and a session that ends has been stored or is past its
  time (`SessionsSound`, `PollsSound`); a login that was answered as expired has no
  session left and no poll (`AnswersFinal`). A check of two credentials reads a row
  at its beginning and writes it at its end: what it read is still what the row has,
  unless a credential was replaced meanwhile, and the user it compares is that of the
  token it read, or none (`CheckSound`).
- `LoginInvariantHolds`, `ExpiredIsFinalHolds`: the properties. `RowStep` is what a
  step may make of a row; what the mark of a usable OpenAPI credential tells follows
  from it (`RightlyUsable`).
- `FreshIdIsFree`: SQLite's next row number exists and is free, by the least-number
  principle; no induction is needed.

`ProviderSave` (also in `ProviderProofs`), for each of the five providers, any drive,
jobs, page size, number of retries and of looks, and any number of failures and of
changes by others:

- `CursorPages`, `NumberedPages`: an entry that the pages so far have not reached is
  on the next one, or the next one does not look like the last: it has entries, and
  is full if the pages are numbered. They rest on counting how many entries are newer
  (`AheadTakesAll`), again by the least-number principle. `PageOrRest` draws the
  conclusion for the drive.
- `SaveIsSoundHolds`. `SubmittedOnce` is not inductive: a save is not sent again because
  a job with an operation only queries it (`CourseSound`: who may still save has no
  operation) and one whose answer was lost is in doubt (`NotSentAgain`). Aliyun Drive
  knows no operations; there the copy itself prevents another one, since a search of
  the root and of the folder finds what stays in them (`CopyStays`). That needs
  `SearchSound`: what was in the folder all the time is found or lies ahead of the
  page, also while entries come, and with cursors also while they go. `FoundSound` says
  that what was found is what was looked for, `OperationsSound` that an operation names
  the file or the folder of its job.
- `SubmittedOnceHolds`, `SavesAreRightHold`: the properties.

The argument goes through what a step does to the drive (`DriveSteps`: it grows, or one
entry is completed, moved or removed) and to the run (`RunSteps`).

The assumption about the drives, `SaveAssumption`, is that a folder is there as a whole
and that at first no two entries of the root have one name.

About `Scan` (also in `TransferProofs`, since `Transfer` executes what a scan queues), for
any share of the model's depth, versions, size of the batch, changes and executions
given up, and either kind of provider:

- `ScanIsSoundHolds`. `BaselineNotTransferred` is not inductive: a later scan creates
  transfers of what is not recorded with its fingerprint, so it rests on the first one
  having recorded all that was there, which may have taken several executions over a
  share that changes. `BaselineKnown` says so: a file that was in the share all the
  time is recorded, or is still to come in this execution (`ToCome`): in the folder it
  lists, below a folder it was given there, or below one that waits on its stack.
  `FirstIsFull` says that the first scan is full and creates no transfers, however
  often it starts again; `TableTyped` that a folder has one checkpoint.
- `ScanInvariantHolds`: the property.
- `ExistsIs` gives the recursive function `Exists` its value: with two levels of
  folders it can be written out, so no induction is needed. That is also the limit of
  the theorem: the depth of the tree is the model's (`Tree`).

Nothing is assumed but the named assumptions. Only model-checked is liveness: the
prover treats neither fairness nor ENABLED.

## 12. Where code and documents disagree

Each registered run passes: where the code falls short of what a document, a
comment or an answer of the program says, the property of the run names the
exception, and the plain statement is in the module too. The configurations below
show it violated, one property at a time; they are not part of the regular runs.
`PROJECT.json` describes each disagreement under `findings`.

| Configuration | Violated | Because |
|---|---|---|
| `MCTransferCrash.cfg`, `MCTransferTwoScans.cfg` | `NoDuplicateCopy` | the intent to write is stored and never read; two tasks for two contents copy the newest one |
| `MCTransferToken.cfg` | `UncertainEndsRetries` | a token that cannot be stored overrides an uncertain outcome |
| `MCTransferBlocked.cfg` | `BlockedTransferResumes` | nothing moves a transfer out of the wait for a credential |
| `MCUpdateInstallStraggler.cfg` | `NoTaskIsStopped` | gate and claim are separate statements, and the drain counts once |
| `MCUpdateInstallLost.cfg` | `DrainIsBounded` | the installer dies with the API process and nobody fails its operation |
| `MCUpdaterStartTimeout.cfg` | `FailureRestoresService` | a start whose answer is lost took effect |
| `MCUpdaterExceptions.cfg` | `CommittedConverges` | after the commit, exhausted recovery leaves the operation to the administrator |
| | `BeginsWithSourceRunning` | a helper may begin after the source was stopped |
| | `StoppedSourceIsRolledBack` | a failed look at the source's name ends the rollback |
| | `EveryTakeoverCounts` | a takeover during recovery is not counted |
| | `HelperIsRemoved` | a helper that exits before the hand-off is cached is never removed |
| `MCDownloadRestarts.cfg` | `DownloadSettles` | a server without ranges restarts a download in each slice |
| `MCDownloadStaleDigests.cfg` | `PublishedIsVerified` | the digests of discarded blocks survive a crash in the checkpoint |
| `MCSubscriptionsEdits.cfg` | `EnabledIsScheduled` | three crossing edits leave an enabled subscription without a due time |
| `MCSubscriptionsStalled.cfg` | `DueIsAlwaysFree` | a stalled cycle brings back a due time that was served under an edited interval |
| `MCApplianceRestart.cfg` | `OnlineChangeHolds` | every start applies an explicit `ADMIN_PASSWORD` again |
| `MCApplianceTorn.cfg` | `FailedChangeHolds` | the answer "the old password is still valid" after the file was replaced |
| `MCAccountLoginExceptions.cfg` | `OpenMatches` | users are not compared when a profile names none; a login of another user leaves the bound OpenAPI credential active |
| | `LoginStaysWithItsProvider` | numbers of deleted accounts come back while a login awaits |
| | `OwnNameIsNoConflict` | a login whose verification failed conflicts with its own account |
| | `RenewalHolds` | a check writes an older rotated token over a renewed one |

Others are seen by changing a registered configuration or property:
`ProgressBelongs`, `PublishedIsComplete`, `SuccessIsPublished` and `TargetUntouched`
without `Orderly`, with three disturbances (two partial files, one checkpoint and
one name), `PublicationIsReported` without its condition on faults (a published
download reported as cancelled after a crash) or without `broken` (reported as failed
when its last steps fail), `DownloadSettles` in mode "legacy"
(a cancellation requested before the process died), `OneScanAtATime` and
`PausedCanBeDeleted` in `MCSubscriptions.cfg`, `NeverSubmittedTwice` and
`AllAreSaved` in `MCProviderSave.cfg`.

## 13. Not modelled

- *Database and migrations.* SQLite's settings and Alembic's scripts. Their commit
  granularity is an assumption of every module (section 3); that a migration is
  applied or not is `schema` in `Appliance` and `Updater`.
- *Front end.* It presents the API and keeps no state of its own that matters to
  it; that the page polls a login again only after an answer is assumed.
- *Deployment.* Restart policies and single replicas are the fairness and the
  instances above.
- *Providers.* The OpenAPI-only providers of Quark and 123 and the official one of
  Aliyun Drive, which refuse shares; folder pickers; the command-line probes; wire
  formats, signatures and captcha tokens.
- *Task engine.* Validation of payloads, texts of errors, the order by time among
  tasks of one priority, `recovery_limit`.
- *Transfer.* Contents that return to an earlier fingerprint, the creation of the
  folder path (`ProviderSave` has one folder), what section 4 names.
- *Downloads.* Path and root checks, listings, the choice among download URLs.
- *Subscriptions and tasks.* Lists, filters, the parsing of share links.
- *Update.* HTTP with GitHub and the registry, labels and digests (outcomes); the
  fields of the marker; the v1 updater, which nothing starts any more; the format
  of the snapshot files.
- *Container.* The wire format of the health socket; the thread executor of v0.1,
  which no entry point starts.
- *Accounts.* Encryption, the field rules of a binding, account deletion's check of
  references beyond the accounts table.

## 14. Plan

1. `Scan` for trees of any depth; its theorem is for two levels of folders.
2. The composition of `Subscriptions` and `Scan`, now related by assumptions.
3. Liveness of the updater with two helpers under a bound on uncounted takeovers.
