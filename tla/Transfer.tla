------------------------------- MODULE Transfer -------------------------------
(***************************************************************************)
(* The transfer of one shared file into the user's cloud drive: the        *)
(* handler task_engine/transfer_handler.py, the provider protocol of       *)
(* services/transfer_operation.py, and those who queue transfers of the    *)
(* file: a scan (services/scan_service.py) and the retry button            *)
(* (services/task_enqueue_service.py).                                     *)
(*                                                                         *)
(* The Worker is one process, as docker-compose.yml runs it, and executes  *)
(* scans and transfers one after the other; the API, the cloud drive and   *)
(* crashes interleave with every step of it.  Each action is one           *)
(* transaction of the database or one request to the drive.  The queue is  *)
(* what TaskEngine makes of it for a task nobody may cancel: a claim, an   *)
(* outcome, and the recovery of a lease whose owner is gone.               *)
(***************************************************************************)
EXTENDS Naturals, Sequences

CONSTANTS
  MaxTasks,     \* bound: transfer tasks the file may get
  MaxVersions,  \* bound: contents the shared file may have, one after another
  MaxRetries,   \* Task.max_retries
  Resumable,    \* the provider is a ResumableSaveProvider (else it copies directly)
  Verified,     \* the provider is a VerifiedExistingSaveProvider
  MaxFaults     \* bound: how often each of Faults may strike

Faults == {"crash", "answer", "write", "token", "credential"}

ASSUME TransferAssumption ==
  /\ MaxTasks \in Nat \ {0}
  /\ MaxVersions \in Nat \ {0}
  /\ MaxRetries \in Nat
  /\ Resumable \in BOOLEAN
  /\ Verified \in BOOLEAN
  /\ MaxFaults \in [Faults -> Nat]

Tasks == 1 .. MaxTasks    \* by order of creation
Absent == "absent"        \* the row has not been inserted
NoTask == 0
NoCopy == 0               \* of a column: NULL

Terminal == {"success", "failed"}
Queued == {"pending", "retry"}
TaskStatuses == {Absent, "running", "waiting_credential"} \cup Queued \cup Terminal
FileStatuses == {"unknown", "discovered", "pending", "saving", "saved", "failed"}
OperationStatuses == {"none", "intent", "pending", "succeeded", "uncertain"}

\* How an attempt on the drive ended, and the outcomes of the handler.
Answers == {"none", "done", "retry", "failed", "waiting_credential", "uncertain", "success"}

Phases == {"idle", "load", "mark", "prepare", "lookup", "intent", "submit", "record",
           "query", "token", "uncertain", "settle", "succeeded", "saved", "finish"}

VARIABLES
  (* The database *)
  taskStatus,       \* Task.status
  retryCount,       \* Task.retry_count
  operation,        \* Task.provider_operation_id: the copy the drive was asked for
  operationStatus,  \* Task.provider_operation_status
  fileStatus,       \* CloudFile.status
  fileTarget,       \* CloudFile.target_file_id
  fileVersion,      \* CloudFile.fingerprint: which content the last scan saw
  credentialValid,  \* the drive accepts the account's credential
  (* The drive: the copies of that name in the target folder *)
  copies,
  (* The Worker *)
  pc,
  run,              \* the execution, with what it read when it was claimed
  faults            \* how often each fault has struck

taskVars == <<taskStatus, retryCount>>
operationVars == <<operation, operationStatus>>
fileVars == <<fileStatus, fileTarget, fileVersion>>
vars == <<taskVars, operationVars, fileVars, credentialValid, copies, pc, run, faults>>

\* Version 0 is somebody else's file of the same name.
Copy == [version : 0 .. MaxVersions, done : BOOLEAN]
CopyIds == Nat
Execution == [task : Tasks \cup {NoTask}, copy : CopyIds, retryCount : Nat,
              version : 0 .. MaxVersions, answer : Answers, tokenKept : BOOLEAN]
NoExecution == [task |-> NoTask, copy |-> NoCopy, retryCount |-> 0, version |-> 0,
                answer |-> "none", tokenKept |-> TRUE]

Init ==
  /\ taskStatus = [t \in Tasks |-> Absent]
  /\ retryCount = [t \in Tasks |-> 0]
  /\ operation = [t \in Tasks |-> NoCopy]
  /\ operationStatus = [t \in Tasks |-> "none"]
  /\ fileStatus = "unknown"
  /\ fileTarget = NoCopy
  /\ fileVersion = 0
  /\ credentialValid = TRUE
  /\ copies \in {<< >>, <<[version |-> 0, done |-> TRUE]>>}
  /\ pc = "idle"
  /\ run = NoExecution
  /\ faults = [f \in Faults |-> 0]

Strike(f) ==
  /\ faults[f] < MaxFaults[f]
  /\ faults' = [faults EXCEPT ![f] = @ + 1]

Active(t) == taskStatus[t] \notin Terminal \cup {Absent}

-------------------------------------------------------------------------------
(***************************************************************************)
(* Who queues a transfer.                                                  *)
(***************************************************************************)

\* The next row of tasks, with the operation it takes over.
CreateTask(t, copy, status) ==
  /\ taskStatus[t] = Absent
  /\ \A u \in Tasks : u < t => taskStatus[u] # Absent
  /\ taskStatus' = [taskStatus EXCEPT ![t] = "pending"]
  /\ operation' = [operation EXCEPT ![t] = copy]
  /\ operationStatus' = [operationStatus EXCEPT ![t] = status]
  /\ UNCHANGED retryCount

\* _queue_transfer.  Its key is new with every fingerprint the file takes on.
QueueTransfer(t) ==
  /\ CreateTask(t, NoCopy, "none")
  /\ fileStatus' = "pending"

\* _record_item of a file that is new, or has a new fingerprint.  A scan is a
\* task of the same Worker, so no transfer executes meanwhile.
ScanRecordsFile(t) ==
  /\ pc = "idle"
  /\ fileVersion < MaxVersions
  /\ QueueTransfer(t)
  /\ fileVersion' = fileVersion + 1
  /\ UNCHANGED <<fileTarget, credentialValid, copies, pc, run, faults>>

\* The first scan of a subscription that wants future files only.
ScanRecordsBaseline ==
  /\ pc = "idle"
  /\ fileVersion = 0
  /\ fileVersion' = 1
  /\ fileStatus' = "discovered"
  /\ UNCHANGED <<taskVars, operationVars, fileTarget, credentialValid, copies, pc, run, faults>>

\* Fault: the successor starts without the operation of its predecessor.
PredecessorOperationForgotten(t) == NoCopy

\* All tasks of the file are over, so the predecessor is the one created last.
PredecessorOperation(t) == IF t = 1 THEN NoCopy ELSE operation[t - 1]
PredecessorOperationStatus(t) == IF t = 1 THEN "none" ELSE operationStatus[t - 1]

\* enqueue_transfer_retry: with an active task it returns that task, and does
\* nothing, whatever the task waits for.
EnqueueTransferRetry(t) ==
  /\ fileVersion > 0
  /\ \A u \in Tasks : ~Active(u)
  /\ CreateTask(t, PredecessorOperation(t), PredecessorOperationStatus(t))
  /\ fileStatus' = "pending"
  /\ UNCHANGED <<fileTarget, fileVersion, credentialValid, copies, pc, run, faults>>

\* The provider revokes the credential; the user stores a valid one.
CredentialExpires ==
  /\ credentialValid
  /\ Strike("credential")
  /\ credentialValid' = FALSE
  /\ UNCHANGED <<taskVars, operationVars, fileVars, copies, pc, run>>

CredentialRenewed ==
  /\ ~credentialValid
  /\ credentialValid' = TRUE
  /\ UNCHANGED <<taskVars, operationVars, fileVars, copies, pc, run, faults>>

-------------------------------------------------------------------------------
(***************************************************************************)
(* The queue.                                                              *)
(***************************************************************************)

\* A pending task waits for those created before it; when a retry is due is open.
NextInQueue(t) ==
  \/ taskStatus[t] = "retry"
  \/ taskStatus[t] = "pending" /\ \A u \in Tasks : u < t => taskStatus[u] # "pending"

\* TaskInvocation.from_task is all the handler will know of the task.
ClaimTask(t) ==
  /\ pc = "idle"
  /\ NextInQueue(t)
  /\ taskStatus' = [taskStatus EXCEPT ![t] = "running"]
  /\ pc' = "load"
  /\ run' = [NoExecution EXCEPT !.task = t, !.copy = operation[t], !.retryCount = retryCount[t]]
  /\ UNCHANGED <<retryCount, operationVars, fileVars, credentialValid, copies, faults>>

\* What an outcome, or the loss of the lease, makes of a task.
StatusAfter(t, outcome) ==
  IF outcome = "retry" /\ retryCount[t] + 1 > MaxRetries THEN "failed" ELSE outcome

EndRun(t, outcome) ==
  /\ taskStatus' = [taskStatus EXCEPT ![t] = StatusAfter(t, outcome)]
  /\ retryCount' = IF outcome \in {"retry", "failed"}
                   THEN [retryCount EXCEPT ![t] = @ + 1] ELSE retryCount

FinishRun ==
  /\ pc = "finish"
  /\ EndRun(run.task, run.answer)
  /\ pc' = "idle"
  /\ run' = NoExecution
  /\ UNCHANGED <<operationVars, fileVars, credentialValid, copies, faults>>

\* The process dies, or loses its lease: the outcome of the run is not recorded.
Crash ==
  /\ pc # "idle"
  /\ Strike("crash")
  /\ pc' = "idle"
  /\ run' = NoExecution
  /\ UNCHANGED <<taskVars, operationVars, fileVars, credentialValid, copies>>

RecoverExpiredLease(t) ==
  /\ pc = "idle"
  /\ taskStatus[t] = "running"
  /\ EndRun(t, "retry")
  /\ UNCHANGED <<operationVars, fileVars, credentialValid, copies, pc, run, faults>>

-------------------------------------------------------------------------------
(***************************************************************************)
(* The handler up to the drive: TransferTaskHandler.__call__.              *)
(***************************************************************************)

\* The execution goes on at a phase, with an answer.
Goto(phase) ==
  /\ pc' = phase
  /\ UNCHANGED run

Conclude(phase, answer) ==
  /\ pc' = phase
  /\ run' = [run EXCEPT !.answer = answer]

\* An exception leaves the handler: the runtime makes it the outcome failed,
\* and nothing is written about the file.
HandlerRaises ==
  /\ pc \in {"load", "mark", "uncertain", "settle"}
  /\ Strike("write")
  /\ Conclude("finish", "failed")
  /\ UNCHANGED <<taskVars, operationVars, fileVars, credentialValid, copies>>

\* _load_source: the specification of the copy is that of the latest scan.
LoadSource ==
  /\ pc = "load"
  /\ pc' = "mark"
  /\ run' = [run EXCEPT !.version = fileVersion]
  /\ UNCHANGED <<taskVars, operationVars, fileVars, credentialValid, copies, faults>>

LoadSourceFails ==
  /\ pc = "load"
  /\ \/ ~credentialValid /\ Conclude("settle", "waiting_credential") /\ UNCHANGED faults
     \/ Strike("write") /\ Conclude("settle", "retry")
  /\ UNCHANGED <<taskVars, operationVars, fileVars, credentialValid, copies>>

MarkSaving ==
  /\ pc = "mark"
  /\ fileStatus' = "saving"
  /\ Goto("prepare")
  /\ UNCHANGED <<taskVars, operationVars, fileTarget, fileVersion, credentialValid, copies,
                 faults>>

\* The drive refuses a request; nothing happened there.  How the exception is
\* classified depends on what the drive says.
ProviderRefuses ==
  /\ pc \in {"prepare", "lookup", "submit", "query"}
  /\ \E answer \in {"retry", "failed"} \cup IF credentialValid THEN {} ELSE {"waiting_credential"} :
       Conclude("token", answer)
  /\ UNCHANGED <<taskVars, operationVars, fileVars, credentialValid, copies, faults>>

\* A write of a folder, or the check of a copy, whose result cannot be told.
ProviderUncertain ==
  /\ pc \in {"prepare", "query"}
  /\ Strike("answer")
  /\ Conclude("token", "uncertain")
  /\ UNCHANGED <<taskVars, operationVars, fileVars, credentialValid, copies>>

AfterPrepare == IF run.copy = NoCopy THEN "lookup" ELSE "query"

\* resolve_share and ensure_target_folder.
PrepareTarget ==
  /\ pc = "prepare"
  /\ credentialValid
  /\ Goto(AfterPrepare)
  /\ UNCHANGED <<taskVars, operationVars, fileVars, credentialValid, copies, faults>>

\* What a look at the target folder shows: finished copies, by their name.
Visible == {k \in DOMAIN copies : copies[k].done}

Acceptable(k) == Verified => copies[k].version = run.version

FindTargetItem ==
  /\ pc = "lookup"
  /\ credentialValid
  /\ \E k \in Visible :
       IF Acceptable(k)
       THEN /\ pc' = "token"
            /\ run' = [run EXCEPT !.answer = "done", !.copy = k]
       ELSE Conclude("token", "retry")
  /\ UNCHANGED <<taskVars, operationVars, fileVars, credentialValid, copies, faults>>

FindNothing ==
  /\ pc = "lookup"
  /\ credentialValid
  /\ Visible = {}
  /\ Goto(IF Resumable THEN "intent" ELSE "submit")
  /\ UNCHANGED <<taskVars, operationVars, fileVars, credentialValid, copies, faults>>

RecordWriteIntent ==
  /\ pc = "intent"
  /\ operationStatus' = IF operation[run.task] # NoCopy THEN operationStatus
                        ELSE [operationStatus EXCEPT ![run.task] = "intent"]
  /\ Goto("submit")
  /\ UNCHANGED <<taskVars, operation, fileVars, credentialValid, copies, faults>>

RecordWriteIntentFails ==
  /\ pc = "intent"
  /\ Strike("write")
  /\ Conclude("token", "retry")
  /\ UNCHANGED <<taskVars, operationVars, fileVars, credentialValid, copies>>

\* The drive takes on a copy; a direct provider answers when it is made.
AcceptCopy == copies' = Append(copies, [version |-> run.version, done |-> ~Resumable])

SubmitCopy ==
  /\ pc = "submit"
  /\ credentialValid
  /\ AcceptCopy
  /\ IF Resumable
     THEN /\ pc' = "record"
          /\ run' = [run EXCEPT !.copy = Len(copies) + 1]
     ELSE /\ pc' = "token"
          /\ run' = [run EXCEPT !.answer = "done", !.copy = Len(copies) + 1]
  /\ UNCHANGED <<taskVars, operationVars, fileVars, credentialValid, faults>>

\* The answer is lost, whether the request arrived or not.  Direct providers
\* report an error like any other.
SubmitAnswerLost ==
  /\ pc = "submit"
  /\ credentialValid
  /\ Strike("answer")
  /\ AcceptCopy \/ UNCHANGED copies
  /\ Conclude("token", IF Resumable THEN "uncertain" ELSE "retry")
  /\ UNCHANGED <<taskVars, operationVars, fileVars, credentialValid>>

RecordProviderOperation ==
  /\ pc = "record"
  /\ operation[run.task] \in {NoCopy, run.copy}
  /\ operation' = [operation EXCEPT ![run.task] = run.copy]
  /\ operationStatus' = [operationStatus EXCEPT ![run.task] = "pending"]
  /\ Goto("query")
  /\ UNCHANGED <<taskVars, fileVars, credentialValid, copies, faults>>

\* Fault: the failure to store the operation is retried like any other.
OperationUnstoredRetries == "retry"

OperationUnstored == "uncertain"

\* The copy was accepted, its id is not stored.
RecordProviderOperationFails ==
  /\ pc = "record"
  /\ Strike("write")
  /\ Conclude("token", OperationUnstored)
  /\ UNCHANGED <<taskVars, operationVars, fileVars, credentialValid, copies>>

\* ProviderOperationPendingError is an error that is retried.
CopyAnswer == IF copies[run.copy].done THEN "done" ELSE "retry"

QueryOperation ==
  /\ pc = "query"
  /\ credentialValid
  /\ Conclude("token", CopyAnswer)
  /\ UNCHANGED <<taskVars, operationVars, fileVars, credentialValid, copies, faults>>

\* The drive completes a copy, at any time or never.
CopyCompletes(k) ==
  /\ k \in DOMAIN copies
  /\ ~copies[k].done
  /\ copies' = [copies EXCEPT ![k].done = TRUE]
  /\ UNCHANGED <<taskVars, operationVars, fileVars, credentialValid, pc, run, faults>>

-------------------------------------------------------------------------------
(***************************************************************************)
(* The handler after the drive.                                            *)
(***************************************************************************)

AfterToken ==
  CASE run.answer = "done"      -> "succeeded"
    [] run.answer = "uncertain" -> "uncertain"
    [] OTHER                    -> "settle"

PersistProviderToken ==
  /\ pc = "token"
  /\ Goto(AfterToken)
  /\ UNCHANGED <<taskVars, operationVars, fileVars, credentialValid, copies, faults>>

PersistProviderTokenFails ==
  /\ pc = "token"
  /\ Strike("token")
  /\ pc' = AfterToken
  /\ run' = [run EXCEPT !.tokenKept = FALSE]
  /\ UNCHANGED <<taskVars, operationVars, fileVars, credentialValid, copies>>

RecordProviderUncertain ==
  /\ pc = "uncertain"
  /\ operationStatus' = IF operation[run.task] # NoCopy THEN operationStatus
                        ELSE [operationStatus EXCEPT ![run.task] = "uncertain"]
  /\ Goto("settle")
  /\ UNCHANGED <<taskVars, operation, fileVars, credentialValid, copies, faults>>

\* Fault: an uncertain result is one more request that failed.
DispositionUncertainRetries ==
  IF ~run.tokenKept \/ run.answer = "uncertain" THEN "retry" ELSE run.answer

\* A credential that could not be stored overrides what the drive said.
Disposition ==
  CASE ~run.tokenKept           -> "retry"
    [] run.answer = "uncertain" -> "failed"
    [] OTHER                    -> run.answer

\* Fault: the budget is taken for spent one attempt too late.
RetryExhaustedLate == run.retryCount > MaxRetries

RetryExhausted == run.retryCount >= MaxRetries

\* _mark_failure, with the disposition of the failure.
MarkFailure ==
  /\ pc = "settle"
  /\ fileStatus' = IF Disposition = "failed" \/ (Disposition = "retry" /\ RetryExhausted)
                   THEN "failed" ELSE "pending"
  /\ Conclude("finish", Disposition)
  /\ UNCHANGED <<taskVars, operationVars, fileTarget, fileVersion, credentialValid, copies,
                 faults>>

RecordProviderSuccess ==
  /\ pc = "succeeded"
  /\ operationStatus' = IF operation[run.task] = NoCopy THEN operationStatus
                        ELSE [operationStatus EXCEPT ![run.task] = "succeeded"]
  /\ Goto("saved")
  /\ UNCHANGED <<taskVars, operation, fileVars, credentialValid, copies, faults>>

MarkSuccess ==
  /\ pc = "saved"
  /\ fileStatus' = "saved"
  /\ fileTarget' = run.copy
  /\ Conclude("finish", IF run.tokenKept THEN "success" ELSE "retry")
  /\ UNCHANGED <<taskVars, operationVars, fileVersion, credentialValid, copies, faults>>

\* Fault: the copy is made, so the transfer is reported done.
OutcomeWhenUnsavedSuccess == "success"

OutcomeWhenUnsaved == "retry"

\* Remote transfer succeeded but local state was not persisted.
SuccessNotPersisted ==
  /\ pc \in {"succeeded", "saved"}
  /\ Strike("write")
  /\ Conclude("finish", OutcomeWhenUnsaved)
  /\ UNCHANGED <<taskVars, operationVars, fileVars, credentialValid, copies>>

-------------------------------------------------------------------------------
Request == \E t \in Tasks : ScanRecordsFile(t) \/ EnqueueTransferRetry(t)

Environment ==
  \/ Request \/ ScanRecordsBaseline
  \/ CredentialExpires \/ CredentialRenewed
  \/ \E k \in DOMAIN copies : CopyCompletes(k)
  \/ Crash

Queue == \E t \in Tasks : ClaimTask(t) \/ RecoverExpiredLease(t)

Drive ==
  \/ PrepareTarget \/ FindTargetItem \/ FindNothing
  \/ RecordWriteIntent \/ RecordWriteIntentFails
  \/ SubmitCopy \/ SubmitAnswerLost
  \/ RecordProviderOperation \/ RecordProviderOperationFails
  \/ QueryOperation \/ ProviderRefuses \/ ProviderUncertain

Handler ==
  \/ HandlerRaises \/ LoadSource \/ LoadSourceFails \/ MarkSaving
  \/ PersistProviderToken \/ PersistProviderTokenFails
  \/ RecordProviderUncertain \/ MarkFailure
  \/ RecordProviderSuccess \/ MarkSuccess \/ SuccessNotPersisted

Worker == Queue \/ Drive \/ Handler \/ FinishRun

Next == Environment \/ Worker

Spec == Init /\ [][Next]_vars

\* A Worker that runs takes its next step, and one that stopped is started
\* again; users, scans and the drive owe nothing.
FairSpec == Spec /\ WF_vars(Worker)

-------------------------------------------------------------------------------
(***************************************************************************)
(* Properties.                                                             *)
(***************************************************************************)

TypeOK ==
  /\ taskStatus \in [Tasks -> TaskStatuses]
  /\ retryCount \in [Tasks -> Nat]
  /\ operation \in [Tasks -> CopyIds]
  /\ operationStatus \in [Tasks -> OperationStatuses]
  /\ fileStatus \in FileStatuses
  /\ fileTarget \in CopyIds
  /\ fileVersion \in 0 .. MaxVersions
  /\ credentialValid \in BOOLEAN
  /\ copies \in Seq(Copy)
  /\ pc \in Phases
  /\ run \in Execution
  /\ faults \in [Faults -> Nat]

\* The program's types: counters never leave what the constants allow, and
\* whatever an execution is about exists (retry_count <= max_retries + 1, and
\* every stored operation id was handed out by the drive).
RowsOK ==
  /\ TypeOK
  /\ \A t \in Tasks : retryCount[t] <= MaxRetries + 1
  /\ \A t \in Tasks : operation[t] \in DOMAIN copies \cup {NoCopy}
  /\ pc # "idle" => run.task # NoTask /\ taskStatus[run.task] = "running"

\* The drive is asked to make a copy.
Submission == Len(copies') > Len(copies)

\* "A retry with an operation id may only query" (ADR-0003): no execution of a
\* task submits the copy again once its operation id is stored, through
\* crashes, lost answers, failing writes and retries.
ResumesWithoutResubmission == [][Submission => operation[run.task] = NoCopy]_vars

\* The same across tasks: a user's retry continues the operation of its
\* predecessor, whichever task first had it (enqueue_transfer_retry copies it).
RetryContinuesOperation ==
  [][Submission => \A t \in Tasks : operation[t] = NoCopy]_vars

\* A file shown as saved has a finished copy at its target id, and with a
\* provider that compares fingerprints it is a copy of this very file.
SavedIsCopied ==
  fileStatus = "saved" =>
    /\ fileTarget \in Visible
    /\ Verified => copies[fileTarget].version > 0

\* "A task is SUCCESS only when the domain record is committed": it succeeds
\* with its file saved.
SuccessIsSaved ==
  [][\A t \in Tasks :
       taskStatus[t] # "success" /\ taskStatus'[t] = "success" => fileStatus = "saved"]_vars

\* An uncertain result ends the automatic retries (ADR-0003): no task waits
\* for another attempt with its write in doubt.
UncertainEndsRetries ==
  \A t \in Tasks : taskStatus[t] = "retry" => operationStatus[t] # "uncertain"

\* The drive never holds, or makes, two copies of one content of the file.
NoDuplicateCopy ==
  \A j, k \in DOMAIN copies :
    j # k => copies[j].version # copies[k].version

\* A file shown as waiting or being saved has a task that will settle it:
\* the handler's idea of an exhausted budget is that of the queue.
NoFileLeftBehind ==
  fileStatus \in {"pending", "saving"} => \E t \in Tasks : Active(t)

\* Unless the Worker crashes or a rotated credential is lost, one task asks for one
\* copy, whatever answers and writes fail: the retry of a transfer finds its copy.
OneTaskOneCopy ==
  /\ faults["crash"] + faults["token"] = 0
  /\ \A t \in Tasks \ {1} : taskStatus[t] = Absent
  => NoDuplicateCopy

\* A write in doubt ends its task's retries, but for a crash before the task is
\* finished, a rotated credential that is lost at the same time, and a task that the
\* user queued to go on from the doubt of the one before.
DoubtEndsRetries ==
  faults["crash"] + faults["token"] = 0 =>
    \A t \in Tasks : taskStatus[t] = "retry" /\ operationStatus[t] = "uncertain" =>
      t > 1 /\ operationStatus[t - 1] = "uncertain"

\* A file is left behind by a crash or a failing database only.
OnlyFaultsLeaveFiles == faults["crash"] + faults["write"] = 0 => NoFileLeftBehind

\* What the target folder has under the file's name is a copy of the file.
SavedIsThisFile ==
  fileStatus = "saved" /\ fileTarget \in DOMAIN copies => copies[fileTarget].version > 0

\* A transfer that waits for a credential goes on once the user stored one.
BlockedTransferResumes ==
  \A t \in Tasks :
    (taskStatus[t] = "waiting_credential" /\ [](credentialValid))
      ~> taskStatus[t] # "waiting_credential"

-------------------------------------------------------------------------------
(***************************************************************************)
(* What the properties rest on, for the proofs.                            *)
(***************************************************************************)

\* The copies the drive was asked for on behalf of this file.
Requested == {k \in DOMAIN copies : copies[k].version > 0}

\* The copies the drive made, of this file if the provider can tell.
Made == {k \in Visible : Verified => copies[k].version > 0}

\* The rows: the retry budget, and operations that exist.
RowsSound ==
  \A t \in Tasks :
    /\ taskStatus[t] \notin Terminal => retryCount[t] <= MaxRetries
    /\ retryCount[t] <= MaxRetries + 1
    /\ taskStatus[t] # Absent => fileVersion > 0
    /\ taskStatus[t] = Absent => operation[t] = NoCopy
    /\ operation[t] # NoCopy => operation[t] \in Requested

\* What the execution read at its claim is still so, and it is about a copy
\* that exists.
ExecutionSound ==
  /\ pc # "idle" => run.task # NoTask /\ taskStatus[run.task] = "running"
  /\ pc \notin {"idle", "load"} /\ run.answer = "none" => run.version > 0
  /\ pc \in {"load", "mark", "prepare"} => run.copy = operation[run.task]
  /\ pc \in {"lookup", "intent", "submit"} => operation[run.task] = NoCopy
  /\ pc \in {"load", "mark", "prepare", "lookup", "intent", "submit", "record", "query"} =>
       run.answer = "none"
  /\ pc \in {"record", "query"} => run.copy \in Requested
  /\ pc = "token" /\ run.answer = "done" => run.copy \in Made
  /\ pc \in {"succeeded", "saved"} => run.copy \in Made
  /\ pc = "token" =>
       run.answer \in {"done", "retry", "failed", "waiting_credential", "uncertain"}
  /\ pc = "uncertain" => run.answer = "uncertain"
  /\ pc = "settle" => run.answer \in {"retry", "failed", "waiting_credential", "uncertain"}
  /\ pc = "finish" => run.answer \in {"success", "retry", "failed", "waiting_credential"}

\* With a content that does not change, transfers of the file come one after
\* the other, and an operation is handed down.
TransfersChained ==
  MaxVersions = 1 =>
    \A t, u \in Tasks : t < u /\ taskStatus[u] # Absent =>
      /\ taskStatus[t] \in Terminal
      /\ operation[t] # NoCopy => operation[u] # NoCopy

\* Every row, every step of an execution and every saved file is as above:
\* this is what each action preserves.
TransferInvariant ==
  /\ TypeOK
  /\ RowsSound
  /\ ExecutionSound
  /\ TransfersChained
  /\ fileStatus = "saved" => fileTarget \in Made
=============================================================================
