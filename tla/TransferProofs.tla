---------------------------- MODULE TransferProofs ----------------------------
(***************************************************************************)
(* Proofs about Transfer, for any number of tasks, contents and retries,   *)
(* either kind of provider and any bound on the faults; then about Scan,   *)
(* which queues the transfers, for any share, size of the batch and bound  *)
(* on the changes.                                                         *)
(***************************************************************************)
EXTENDS Transfer, Scan, FiniteSetTheorems, NaturalsInduction, WellFoundedInduction,
        SequenceTheorems, TLAPS

-------------------------------------------------------------------------------
(***************************************************************************)
(* What the common parts of the actions do.                                *)
(***************************************************************************)

\* A fault is counted, whichever it is.
LEMMA FaultStruck ==
  ASSUME TypeOK, NEW f \in Faults, Strike(f)
  PROVE  faults' \in [Faults -> Nat]
BY DEF TypeOK, Strike

\* An answer is all a step changes in the execution it ends.
LEMMA Concluded ==
  ASSUME TypeOK, NEW phase \in Phases, NEW answer \in Answers, Conclude(phase, answer)
  PROVE  /\ pc' = phase /\ pc' \in Phases /\ run' \in Execution
         /\ run'.answer = answer /\ run'.task = run.task /\ run'.copy = run.copy
         /\ run'.version = run.version
BY DEF TypeOK, Conclude, Execution

\* The drive keeps what it has been asked for, and what it has made.
Kept == Requested \subseteq Requested' /\ Made \subseteq Made'

\* A copy that is accepted is one more, of the content of the execution; a
\* direct provider has made it at once.
LEMMA CopyAccepted ==
  ASSUME TypeOK, AcceptCopy
  PROVE  /\ copies' \in Seq(Copy) /\ Kept
         /\ Len(copies) + 1 \in Nat \ {NoCopy}
         /\ run.version > 0 => Len(copies) + 1 \in Requested'
         /\ run.version > 0 /\ ~Resumable => Len(copies) + 1 \in Made'
<1> DEFINE new == [version |-> run.version, done |-> ~Resumable]
<1>1. new \in Copy /\ copies \in Seq(Copy) /\ copies' = Append(copies, new)
  BY TransferAssumption DEF TypeOK, AcceptCopy, Execution, Copy
<1>2. /\ copies' \in Seq(Copy)
      /\ DOMAIN copies = 1 .. Len(copies)
      /\ DOMAIN copies' = 1 .. Len(copies) + 1
      /\ \A k \in 1 .. Len(copies) : copies'[k] = copies[k]
      /\ copies'[Len(copies) + 1] = new
      /\ Len(copies) \in Nat
  BY <1>1
<1>3. Kept
  BY <1>2 DEF Kept, Requested, Made, Visible
<1>4. Len(copies) + 1 \in DOMAIN copies' /\ Len(copies) + 1 \in Nat \ {NoCopy}
  BY <1>2 DEF NoCopy
<1>5. copies'[Len(copies) + 1].version = run.version
      /\ copies'[Len(copies) + 1].done = ~Resumable
  BY <1>2
<1>6. run.version > 0 => Len(copies) + 1 \in Requested'
  BY <1>4, <1>5 DEF Requested
<1>7. run.version > 0 /\ ~Resumable => Len(copies) + 1 \in Made'
  BY <1>4, <1>5 DEF Made, Visible
<1>8. QED
  BY <1>2, <1>3, <1>4, <1>6, <1>7

\* A copy that is completed is the same copy.
LEMMA CopyCompleted ==
  ASSUME TypeOK, NEW k \in DOMAIN copies, CopyCompletes(k)
  PROVE  copies' \in Seq(Copy) /\ Kept
<1> DEFINE n == Len(copies)
<1>1. /\ n \in Nat /\ DOMAIN copies = 1 .. n
      /\ copies \in [1 .. n -> Copy] /\ k \in 1 .. n
      /\ copies' = [copies EXCEPT ![k] = [@ EXCEPT !.done = TRUE]]
  BY DEF TypeOK, CopyCompletes
<1> HIDE DEF n
<1>2. copies[k] \in Copy
  BY <1>1
<1>3. [copies[k] EXCEPT !.done = TRUE] \in Copy
      /\ [copies[k] EXCEPT !.done = TRUE].version = copies[k].version
      /\ [copies[k] EXCEPT !.done = TRUE].done
  BY <1>2 DEF Copy
<1>4. /\ copies' \in [1 .. n -> Copy]
      /\ \A j \in 1 .. n :
           copies'[j] = IF j = k THEN [copies[k] EXCEPT !.done = TRUE] ELSE copies[j]
  BY <1>1, <1>3
<1>5. copies' \in Seq(Copy)
  BY <1>1, <1>4
<1>6. DOMAIN copies' = DOMAIN copies
  BY <1>1, <1>4
<1>7. Kept
  BY <1>1, <1>3, <1>4, <1>6 DEF Kept, Requested, Made, Visible
<1>8. QED
  BY <1>5, <1>7

\* The end of a run, or its loss, changes the status and the retry count of
\* one task as _finish and recover_expired_lease do.
LEMMA RunEnded ==
  ASSUME TypeOK, NEW t \in Tasks, retryCount[t] <= MaxRetries,
         NEW outcome \in {"success", "retry", "failed", "waiting_credential"},
         EndRun(t, outcome)
  PROVE  /\ taskStatus' \in [Tasks -> TaskStatuses] /\ retryCount' \in [Tasks -> Nat]
         /\ \A u \in Tasks \ {t} :
              taskStatus'[u] = taskStatus[u] /\ retryCount'[u] = retryCount[u]
         /\ taskStatus'[t] \in TaskStatuses \ {Absent, "pending", "running"}
         /\ retryCount'[t] <= MaxRetries + 1
         /\ taskStatus'[t] \notin Terminal => retryCount'[t] <= MaxRetries
<1>1. StatusAfter(t, outcome) \in TaskStatuses \ {Absent, "pending", "running"}
  BY DEF StatusAfter, TaskStatuses, Absent, Queued, Terminal
<1>2. /\ taskStatus \in [Tasks -> TaskStatuses] /\ retryCount \in [Tasks -> Nat]
      /\ retryCount[t] \in Nat /\ MaxRetries \in Nat
  BY TransferAssumption DEF TypeOK
<1>3. /\ taskStatus' \in [Tasks -> TaskStatuses]
      /\ \A u \in Tasks \ {t} : taskStatus'[u] = taskStatus[u]
      /\ taskStatus'[t] = StatusAfter(t, outcome)
  BY <1>1, <1>2 DEF EndRun
<1>4. /\ retryCount' \in [Tasks -> Nat]
      /\ \A u \in Tasks \ {t} : retryCount'[u] = retryCount[u]
      /\ retryCount'[t] = IF outcome \in {"retry", "failed"} THEN retryCount[t] + 1
                          ELSE retryCount[t]
  BY <1>2 DEF EndRun
<1>5. retryCount'[t] <= MaxRetries + 1
  BY <1>2, <1>4
<1>6. StatusAfter(t, outcome) \notin Terminal => retryCount'[t] <= MaxRetries
  BY <1>2, <1>4 DEF StatusAfter, Terminal
<1>7. QED
  BY <1>1, <1>3, <1>4, <1>5, <1>6

\* A row that is inserted is the next one; the others stay as they are.
LEMMA TaskCreated ==
  ASSUME TypeOK, RowsSound, NEW t \in Tasks, NEW copy \in CopyIds,
         NEW status \in OperationStatuses, CreateTask(t, copy, status)
  PROVE  /\ taskStatus' \in [Tasks -> TaskStatuses] /\ operation' \in [Tasks -> CopyIds]
         /\ operationStatus' \in [Tasks -> OperationStatuses] /\ retryCount' = retryCount
         /\ \A u \in Tasks \ {t} :
              taskStatus'[u] = taskStatus[u] /\ operation'[u] = operation[u]
         /\ taskStatus[t] = Absent /\ taskStatus'[t] = "pending" /\ operation'[t] = copy
         /\ \A u \in Tasks : u < t => taskStatus[u] # Absent
BY DEF TypeOK, CreateTask, TaskStatuses, Queued

-------------------------------------------------------------------------------
(***************************************************************************)
(* Types.                                                                  *)
(***************************************************************************)

\* Every step keeps the types, and the drive keeps its copies.
LEMMA TypesPreserved ==
  ASSUME TransferInvariant, Next
  PROVE  TypeOK' /\ Kept
<1>0. TypeOK /\ RowsSound /\ ExecutionSound
  BY DEF TransferInvariant
<1>a. copies' = copies => Kept
  BY DEF Kept, Requested, Made, Visible
<1>b. NoExecution \in Execution
  BY TransferAssumption DEF NoExecution, Execution, Tasks, NoTask, NoCopy, CopyIds, Answers
<1>1. ASSUME NEW t \in Tasks, ScanRecordsFile(t) PROVE TypeOK' /\ Kept
  <2>1. CreateTask(t, NoCopy, "none") /\ NoCopy \in CopyIds /\ "none" \in OperationStatuses
    BY <1>1 DEF ScanRecordsFile, QueueTransfer, NoCopy, CopyIds, OperationStatuses
  <2>2. QED
    BY <1>0, <1>a, <2>1, <1>1, TaskCreated, TransferAssumption
    DEF ScanRecordsFile, QueueTransfer, TypeOK, FileStatuses
<1>2. ASSUME NEW t \in Tasks, EnqueueTransferRetry(t) PROVE TypeOK' /\ Kept
  <2>1. /\ PredecessorOperation(t) \in CopyIds
        /\ PredecessorOperationStatus(t) \in OperationStatuses
    <3>1. t # 1 => t - 1 \in Tasks
      BY TransferAssumption DEF Tasks
    <3>2. QED
      BY <1>0, <3>1 DEF PredecessorOperation, PredecessorOperationStatus, TypeOK, NoCopy,
         CopyIds, OperationStatuses
  <2>2. QED
    BY <1>0, <1>a, <2>1, <1>2, TaskCreated DEF EnqueueTransferRetry, TypeOK, FileStatuses
<1>3. CASE ScanRecordsBaseline
  BY <1>0, <1>a, <1>b, <1>3, TransferAssumption
  DEF ScanRecordsBaseline, taskVars, operationVars, fileVars, TypeOK, FileStatuses
<1>4. CASE CredentialExpires
  BY <1>0, <1>a, <1>b, <1>4, FaultStruck
  DEF CredentialExpires, taskVars, operationVars, fileVars, TypeOK, Faults
<1>5. CASE CredentialRenewed
  BY <1>0, <1>a, <1>b, <1>5
  DEF CredentialRenewed, taskVars, operationVars, fileVars, TypeOK
<1>6. ASSUME NEW k \in DOMAIN copies, CopyCompletes(k) PROVE TypeOK' /\ Kept
  BY <1>0, <1>a, <1>b, <1>6, CopyCompleted
  DEF CopyCompletes, taskVars, operationVars, fileVars, TypeOK
<1>7. CASE Crash
  BY <1>0, <1>a, <1>b, <1>7, FaultStruck
  DEF Crash, taskVars, operationVars, fileVars, TypeOK, Faults, Phases
<1>8. ASSUME NEW t \in Tasks, ClaimTask(t) PROVE TypeOK' /\ Kept
  <2>1. run' \in Execution
    BY <1>0, <1>b, <1>8 DEF ClaimTask, TypeOK, Execution, CopyIds
  <2>2. QED
    BY <1>0, <1>a, <1>b, <2>1, <1>8
    DEF ClaimTask, taskVars, operationVars, fileVars, TypeOK, TaskStatuses, Phases
<1>9. ASSUME NEW t \in Tasks, RecoverExpiredLease(t) PROVE TypeOK' /\ Kept
  <2>1. retryCount[t] <= MaxRetries /\ EndRun(t, "retry")
    BY <1>0, <1>9 DEF RecoverExpiredLease, RowsSound, Terminal
  <2>2. QED
        BY <1>0, <1>a, <2>1, <1>9, RunEnded DEF RecoverExpiredLease, taskVars,
           operationVars,
       fileVars, TypeOK
<1>10. CASE PrepareTarget
  BY <1>0, <1>a, <1>b, <1>10
  DEF PrepareTarget, taskVars, operationVars, fileVars, TypeOK, AfterPrepare, Goto, Phases
<1>11. CASE FindNothing
  BY <1>0, <1>a, <1>b, <1>11
  DEF FindNothing, taskVars, operationVars, fileVars, TypeOK, Goto, Phases
<1>12. CASE RecordWriteIntent
  BY <1>0, <1>a, <1>b, <1>12
    DEF RecordWriteIntent, taskVars, operationVars, fileVars, TypeOK, Goto, Phases,
     OperationStatuses
<1>13. CASE RecordWriteIntentFails
  BY <1>0, <1>a, <1>b, <1>13, Concluded, FaultStruck
  DEF RecordWriteIntentFails, taskVars, operationVars, fileVars, TypeOK, Phases, Answers,
     Faults
<1>14. CASE FindTargetItem
  <2>1. PICK k \in Visible :
           IF Acceptable(k)
           THEN pc' = "token" /\ run' = [run EXCEPT !.answer = "done", !.copy = k]
           ELSE Conclude("token", "retry")
    BY <1>14 DEF FindTargetItem
  <2>2. k \in CopyIds
    BY <1>0 DEF Visible, TypeOK, CopyIds
  <2>3. pc' \in Phases /\ run' \in Execution
    <3>1. CASE Acceptable(k)
      BY <1>0, <2>1, <2>2, <3>1 DEF TypeOK, Execution, Phases, Answers
    <3>2. CASE ~Acceptable(k)
      BY <1>0, <2>1, <3>2, Concluded DEF Phases, Answers
    <3>3. QED
      BY <3>1, <3>2
  <2>4. QED
    BY <1>0, <1>a, <2>3, <1>14 DEF FindTargetItem, taskVars, operationVars, fileVars, TypeOK
<1>15. CASE SubmitCopy
  <2>1. AcceptCopy
    BY <1>15 DEF SubmitCopy
  <2>2. copies' \in Seq(Copy) /\ Kept /\ Len(copies) + 1 \in CopyIds
    BY <1>0, <2>1, CopyAccepted DEF CopyIds
  <2>3. pc' \in Phases /\ run' \in Execution
    BY <1>0, <2>2, <1>15 DEF SubmitCopy, TypeOK, Execution, Phases, Answers
  <2>4. QED
    BY <1>0, <2>2, <2>3, <1>15 DEF SubmitCopy, taskVars, operationVars, fileVars, TypeOK
<1>16. CASE SubmitAnswerLost
  <2>1. copies' \in Seq(Copy) /\ Kept
    BY <1>0, <1>a, <1>16, CopyAccepted DEF SubmitAnswerLost, TypeOK
  <2>2. pc' \in Phases /\ run' \in Execution
    BY <1>0, <1>16, Concluded DEF SubmitAnswerLost, Phases, Answers
  <2>3. QED
        BY <1>0, <2>1, <2>2, <1>16, FaultStruck DEF SubmitAnswerLost, taskVars,
           operationVars,
       fileVars, TypeOK, Faults
<1>17. CASE RecordProviderOperation
  BY <1>0, <1>a, <1>b, <1>17
    DEF RecordProviderOperation, taskVars, operationVars, fileVars, TypeOK, Goto, Phases,
     Execution, OperationStatuses
<1>18. CASE RecordProviderOperationFails
  BY <1>0, <1>a, <1>b, <1>18, Concluded, FaultStruck
    DEF RecordProviderOperationFails, taskVars, operationVars, fileVars, TypeOK,
     OperationUnstored, Phases, Answers, Faults
<1>19. CASE QueryOperation
  BY <1>0, <1>a, <1>b, <1>19, Concluded
  DEF QueryOperation, taskVars, operationVars, fileVars, TypeOK, CopyAnswer, Phases, Answers
<1>20. CASE ProviderRefuses
  BY <1>0, <1>a, <1>b, <1>20, Concluded
  DEF ProviderRefuses, taskVars, operationVars, fileVars, TypeOK, Phases, Answers
<1>21. CASE ProviderUncertain
  BY <1>0, <1>a, <1>b, <1>21, Concluded, FaultStruck
  DEF ProviderUncertain, taskVars, operationVars, fileVars, TypeOK, Phases, Answers, Faults
<1>22. CASE HandlerRaises
  BY <1>0, <1>a, <1>b, <1>22, Concluded, FaultStruck
  DEF HandlerRaises, taskVars, operationVars, fileVars, TypeOK, Phases, Answers, Faults
<1>23. CASE LoadSource
  BY <1>0, <1>a, <1>b, <1>23
  DEF LoadSource, taskVars, operationVars, fileVars, TypeOK, Phases, Execution
<1>24. CASE LoadSourceFails
  BY <1>0, <1>a, <1>b, <1>24, Concluded, FaultStruck
  DEF LoadSourceFails, taskVars, operationVars, fileVars, TypeOK, Phases, Answers, Faults
<1>25. CASE MarkSaving
  BY <1>0, <1>a, <1>b, <1>25
  DEF MarkSaving, taskVars, operationVars, fileVars, TypeOK, Goto, Phases, FileStatuses
<1>26. CASE PersistProviderToken
  BY <1>0, <1>a, <1>b, <1>26
  DEF PersistProviderToken, taskVars, operationVars, fileVars, TypeOK, Goto, AfterToken,
     Phases
<1>27. CASE PersistProviderTokenFails
  <2>1. pc' \in Phases /\ run' \in Execution
    BY <1>0, <1>27 DEF PersistProviderTokenFails, AfterToken, TypeOK, Phases, Execution
  <2>2. QED
        BY <1>0, <1>a, <2>1, <1>27, FaultStruck DEF PersistProviderTokenFails, taskVars,
       operationVars, fileVars, TypeOK, Faults
<1>28. CASE RecordProviderUncertain
  BY <1>0, <1>a, <1>b, <1>28
    DEF RecordProviderUncertain, taskVars, operationVars, fileVars, TypeOK, Goto, Phases,
     OperationStatuses
<1>29. CASE MarkFailure
  <2>1. Disposition \in Answers
    BY <1>0 DEF Disposition, TypeOK, Execution, Answers
  <2>2. QED
        BY <1>0, <1>a, <2>1, <1>29, Concluded DEF MarkFailure, taskVars, operationVars,
       fileVars, TypeOK, Phases, FileStatuses
<1>30. CASE RecordProviderSuccess
  BY <1>0, <1>a, <1>b, <1>30
    DEF RecordProviderSuccess, taskVars, operationVars, fileVars, TypeOK, Goto, Phases,
     OperationStatuses
<1>31. CASE MarkSuccess
  BY <1>0, <1>a, <1>b, <1>31, Concluded
    DEF MarkSuccess, taskVars, operationVars, fileVars, TypeOK, Execution, Phases, Answers,
     FileStatuses
<1>32. CASE SuccessNotPersisted
  BY <1>0, <1>a, <1>b, <1>32, Concluded, FaultStruck
    DEF SuccessNotPersisted, taskVars, operationVars, fileVars, TypeOK, OutcomeWhenUnsaved,
     Phases, Answers, Faults
<1>33. CASE FinishRun
  <2>1. /\ run.task \in Tasks /\ taskStatus[run.task] = "running"
        /\ run.answer \in {"success", "retry", "failed", "waiting_credential"}
    BY <1>0, <1>33 DEF FinishRun, ExecutionSound, TypeOK, Execution
  <2>2. retryCount[run.task] <= MaxRetries
    BY <1>0, <2>1 DEF RowsSound, Terminal
  <2>3. QED
        BY <1>0, <1>a, <1>b, <2>1, <2>2, <1>33, RunEnded DEF FinishRun, taskVars,
       operationVars, fileVars, TypeOK, Phases
<1>34. QED
    BY <1>1, <1>2, <1>3, <1>4, <1>5, <1>6, <1>7, <1>8, <1>9, <1>10, <1>11, <1>12, <1>13,
     <1>14, <1>15, <1>16, <1>17, <1>18, <1>19, <1>20, <1>21, <1>22, <1>23, <1>24, <1>25,
     <1>26, <1>27, <1>28, <1>29, <1>30, <1>31, <1>32, <1>33
  DEF Next, Environment, Request, Worker, Queue, Drive, Handler

-------------------------------------------------------------------------------
(***************************************************************************)
(* The rows of tasks.                                                      *)
(***************************************************************************)

\* What the rows are judged by.
RowsKept ==
  taskStatus' = taskStatus /\ retryCount' = retryCount /\ operation' = operation
    /\ fileVersion' = fileVersion

\* A step that leaves the rows alone keeps them as they should be.
LEMMA RowsFrame ==
  ASSUME TypeOK, RowsSound, TransfersChained, RowsKept, Kept
  PROVE  RowsSound' /\ TransfersChained'
BY DEF RowsSound, TransfersChained, RowsKept, Kept

\* A new task starts within its budget, after those that are over, with the
\* operation of the last of them.
LEMMA CreationPreservesRows ==
  ASSUME TransferInvariant, TypeOK', Kept,
         NEW t \in Tasks, ScanRecordsFile(t) \/ EnqueueTransferRetry(t)
  PROVE  RowsSound' /\ TransfersChained'
<1>0. TypeOK /\ RowsSound /\ TransfersChained
  BY DEF TransferInvariant
<1>1. PICK copy \in CopyIds, status \in OperationStatuses :
        /\ CreateTask(t, copy, status)
        /\ copy = NoCopy \/ (EnqueueTransferRetry(t) /\ copy = PredecessorOperation(t))
  <2>1. CASE ScanRecordsFile(t)
    <3>1. CreateTask(t, NoCopy, "none") /\ NoCopy \in CopyIds /\ "none" \in OperationStatuses
      BY <2>1 DEF ScanRecordsFile, QueueTransfer, NoCopy, CopyIds, OperationStatuses
    <3>2. QED
      BY <3>1
  <2>2. CASE EnqueueTransferRetry(t)
    <3>1. t # 1 => t - 1 \in Tasks
      BY TransferAssumption DEF Tasks
    <3>2. PredecessorOperation(t) \in CopyIds
            /\ PredecessorOperationStatus(t) \in OperationStatuses
      BY <1>0, <3>1 DEF PredecessorOperation, PredecessorOperationStatus, TypeOK, NoCopy,
         CopyIds, OperationStatuses
    <3>3. CreateTask(t, PredecessorOperation(t), PredecessorOperationStatus(t))
      BY <2>2 DEF EnqueueTransferRetry
    <3>4. QED
      BY <2>2, <3>2, <3>3
  <2>3. QED
    BY <2>1, <2>2
<1>2. /\ retryCount' = retryCount
      /\ \A u \in Tasks \ {t} : taskStatus'[u] = taskStatus[u] /\ operation'[u] = operation[u]
      /\ taskStatus[t] = Absent /\ taskStatus'[t] = "pending" /\ operation'[t] = copy
      /\ \A u \in Tasks : u < t => taskStatus[u] # Absent
  BY <1>0, <1>1, TaskCreated
<1>3. fileVersion' > 0 /\ fileVersion' >= fileVersion
  BY <1>0 DEF ScanRecordsFile, EnqueueTransferRetry, TypeOK
<1>4. copy # NoCopy => t # 1 /\ t - 1 \in Tasks /\ copy = operation[t - 1]
  BY <1>1, TransferAssumption DEF PredecessorOperation, Tasks
<1>5. copy # NoCopy => copy \in Requested'
  BY <1>0, <1>4 DEF RowsSound, Kept
<1>6. RowsSound'
  BY <1>0, <1>2, <1>3, <1>5 DEF RowsSound, Kept, Terminal, Absent
<1>7. ASSUME MaxVersions = 1, NEW u \in Tasks, NEW v \in Tasks, u < v, taskStatus'[v] # Absent
      PROVE  taskStatus'[u] \in Terminal /\ (operation'[u] # NoCopy => operation'[v] # NoCopy)
  <2>1. u \in Nat /\ v \in Nat /\ t \in Nat
    BY DEF Tasks
  <2>2. CASE v = t
    <3>1. u # t /\ taskStatus[u] # Absent
      BY <1>2, <1>7, <2>1, <2>2
    <3>2. EnqueueTransferRetry(t)
      <4>1. fileVersion > 0
        BY <1>0, <3>1 DEF RowsSound
      <4>2. QED
        BY <1>0, <1>7, <4>1 DEF ScanRecordsFile, TypeOK
    <3>3. taskStatus[u] \in Terminal
      BY <3>1, <3>2 DEF EnqueueTransferRetry, Active
    <3>4. copy = NoCopy => operation[u] = NoCopy
      <4>1. t # 1 /\ t - 1 \in Tasks /\ (u = t - 1 \/ u < t - 1)
        BY <1>7, <2>1, <2>2, TransferAssumption DEF Tasks
      <4>2. copy = operation[t - 1]
        BY <1>1, <3>2, <4>1 DEF EnqueueTransferRetry, CreateTask, PredecessorOperation,
           TypeOK
      <4>3. taskStatus[t - 1] # Absent
        BY <1>2, <2>1, <4>1
      <4>4. QED
        BY <1>0, <1>7, <4>1, <4>2, <4>3 DEF TransfersChained
    <3>5. QED
      BY <1>2, <2>2, <3>1, <3>3, <3>4
  <2>3. CASE v # t
    <3>1. taskStatus[v] # Absent
      BY <1>2, <1>7, <2>3
    <3>2. u # t
      BY <1>0, <1>2, <1>7, <3>1 DEF TransfersChained, Terminal, Absent
    <3>3. QED
      BY <1>0, <1>2, <1>7, <2>3, <3>1, <3>2 DEF TransfersChained
  <2>4. QED
    BY <2>2, <2>3
<1>8. TransfersChained'
  BY <1>7 DEF TransfersChained
<1>9. QED
  BY <1>6, <1>8

\* A task that is not over and changes its status is still the last one.
LEMMA StatusPreservesRows ==
  ASSUME TransferInvariant, TypeOK', Kept, NEW t \in Tasks,
         operation' = operation, fileVersion' = fileVersion,
         taskStatus[t] \notin Terminal \cup {Absent}, taskStatus'[t] # Absent,
         \A u \in Tasks \ {t} : taskStatus'[u] = taskStatus[u]
           /\ retryCount'[u] = retryCount[u],
         retryCount'[t] <= MaxRetries + 1,
         taskStatus'[t] \notin Terminal => retryCount'[t] <= MaxRetries
  PROVE  RowsSound' /\ TransfersChained'
<1>0. TypeOK /\ RowsSound /\ TransfersChained
  BY DEF TransferInvariant
<1>1. RowsSound'
  BY <1>0 DEF RowsSound, Kept
<1>2. ASSUME MaxVersions = 1, NEW u \in Tasks, NEW v \in Tasks, u < v, taskStatus'[v] # Absent
      PROVE  taskStatus'[u] \in Terminal /\ (operation'[u] # NoCopy => operation'[v] # NoCopy)
  <2>1. taskStatus[v] # Absent
    BY <1>2
  <2>2. taskStatus[u] \in Terminal /\ (operation[u] # NoCopy => operation[v] # NoCopy)
    BY <1>0, <1>2, <2>1 DEF TransfersChained
  <2>3. QED
    BY <2>2
<1>3. TransfersChained'
  BY <1>2 DEF TransfersChained
<1>4. QED
  BY <1>1, <1>3

\* Storing the operation id of the running task leaves it the last one.
LEMMA OperationPreservesRows ==
  ASSUME TransferInvariant, TypeOK', Kept, RecordProviderOperation
  PROVE  RowsSound' /\ TransfersChained'
<1>0. TypeOK /\ RowsSound /\ TransfersChained /\ ExecutionSound
  BY DEF TransferInvariant
<1>1. /\ run.task \in Tasks /\ taskStatus[run.task] = "running" /\ run.copy \in Requested
      /\ run.copy # NoCopy
  BY <1>0 DEF RecordProviderOperation, ExecutionSound, TypeOK, Execution, Requested, NoCopy
<1>2. /\ taskStatus' = taskStatus /\ retryCount' = retryCount /\ fileVersion' = fileVersion
      /\ operation'[run.task] = run.copy
      /\ \A u \in Tasks \ {run.task} : operation'[u] = operation[u]
  BY <1>0, <1>1 DEF RecordProviderOperation, TypeOK, taskVars, fileVars
<1>3. RowsSound'
  BY <1>0, <1>1, <1>2 DEF RowsSound, Kept, Absent
<1>4. ASSUME MaxVersions = 1, NEW u \in Tasks, NEW v \in Tasks, u < v, taskStatus[v] # Absent
      PROVE  taskStatus[u] \in Terminal /\ (operation'[u] # NoCopy => operation'[v] # NoCopy)
  <2>1. taskStatus[u] \in Terminal /\ (operation[u] # NoCopy => operation[v] # NoCopy)
    BY <1>0, <1>4 DEF TransfersChained
  <2>2. u # run.task
    BY <1>1, <2>1 DEF Terminal
  <2>3. QED
    BY <1>1, <1>2, <2>1, <2>2
<1>5. TransfersChained'
  BY <1>2, <1>4 DEF TransfersChained
<1>6. QED
  BY <1>3, <1>5

\* Every step keeps the rows as they should be.
LEMMA RowsPreserved ==
  ASSUME TransferInvariant, Next, TypeOK', Kept
  PROVE  RowsSound' /\ TransfersChained'
<1>0. TypeOK /\ RowsSound /\ TransfersChained /\ ExecutionSound
  BY DEF TransferInvariant
<1>1. CASE Request
  BY <1>1, CreationPreservesRows DEF Request
<1>2. CASE ScanRecordsBaseline
  BY <1>0, <1>2 DEF ScanRecordsBaseline, RowsSound, TransfersChained, taskVars,
     operationVars,
     Kept, TypeOK
<1>3. ASSUME NEW t \in Tasks, ClaimTask(t)
      PROVE  RowsSound' /\ TransfersChained'
  <2>1. /\ taskStatus[t] \notin Terminal \cup {Absent} /\ taskStatus'[t] = "running"
        /\ \A u \in Tasks \ {t} : taskStatus'[u] = taskStatus[u]
        /\ retryCount' = retryCount /\ operation' = operation /\ fileVersion' = fileVersion
    BY <1>0, <1>3 DEF ClaimTask, NextInQueue, TypeOK, Terminal, Absent, operationVars,
       fileVars
  <2>2. retryCount[t] <= MaxRetries /\ retryCount[t] <= MaxRetries + 1
    BY <1>0, <2>1 DEF RowsSound
  <2>3. QED
    BY <2>1, <2>2, StatusPreservesRows DEF Absent
<1>4. ASSUME NEW t \in Tasks, NEW outcome \in {"success", "retry", "failed",
             "waiting_credential"},
             taskStatus[t] = "running", EndRun(t, outcome),
             operation' = operation, fileVersion' = fileVersion
      PROVE  RowsSound' /\ TransfersChained'
  <2>1. retryCount[t] <= MaxRetries
    BY <1>0, <1>4 DEF RowsSound, Terminal
  <2>2. /\ \A u \in Tasks \ {t} :
             taskStatus'[u] = taskStatus[u] /\ retryCount'[u] = retryCount[u]
        /\ taskStatus'[t] \in TaskStatuses \ {Absent, "pending", "running"}
        /\ retryCount'[t] <= MaxRetries + 1
        /\ taskStatus'[t] \notin Terminal => retryCount'[t] <= MaxRetries
    BY <1>0, <1>4, <2>1, RunEnded
  <2>3. taskStatus[t] \notin Terminal \cup {Absent} /\ taskStatus'[t] # Absent
    BY <1>4, <2>2 DEF Terminal, Absent
  <2>4. QED
    BY <1>4, <2>2, <2>3, StatusPreservesRows
<1>5. ASSUME NEW t \in Tasks, RecoverExpiredLease(t)
      PROVE  RowsSound' /\ TransfersChained'
  BY <1>4, <1>5 DEF RecoverExpiredLease, operationVars, fileVars
<1>6. CASE FinishRun
  <2>1. /\ run.task \in Tasks /\ taskStatus[run.task] = "running"
        /\ run.answer \in {"success", "retry", "failed", "waiting_credential"}
    BY <1>0, <1>6 DEF FinishRun, ExecutionSound, TypeOK, Execution
  <2>2. QED
    BY <1>4, <1>6, <2>1 DEF FinishRun, operationVars, fileVars
<1>7. CASE RecordProviderOperation
  BY <1>7, OperationPreservesRows
<1>8. CASE RowsKept
  BY <1>0, <1>8, RowsFrame
<1>9. Handler \/ CredentialExpires \/ CredentialRenewed \/ Crash
        \/ (\E k \in DOMAIN copies : CopyCompletes(k)) => RowsKept
  BY DEF Handler, HandlerRaises, LoadSource, LoadSourceFails, MarkSaving,
     PersistProviderToken,
     PersistProviderTokenFails, RecordProviderUncertain, MarkFailure, RecordProviderSuccess,
     MarkSuccess, SuccessNotPersisted, CredentialExpires, CredentialRenewed, Crash,
     CopyCompletes, RowsKept, taskVars, operationVars, fileVars
<1>10. Drive => RowsKept \/ RecordProviderOperation
  BY DEF Drive, PrepareTarget, FindTargetItem, FindNothing, RecordWriteIntent,
     RecordWriteIntentFails, SubmitCopy, SubmitAnswerLost, RecordProviderOperationFails,
     QueryOperation, ProviderRefuses, ProviderUncertain, RowsKept, taskVars, operationVars,
     fileVars
<1>11. QED
  BY <1>1, <1>2, <1>3, <1>5, <1>6, <1>7, <1>8, <1>9, <1>10
  DEF Next, Environment, Worker, Queue

-------------------------------------------------------------------------------
(***************************************************************************)
(* The execution and the file.                                             *)
(***************************************************************************)

\* Every step keeps the execution as it should be.
LEMMA ExecutionPreserved ==
  ASSUME TransferInvariant, Next, TypeOK', Kept
  PROVE  ExecutionSound'
<1>0. TypeOK /\ RowsSound /\ ExecutionSound
  BY DEF TransferInvariant
<1>a. pc # "idle" => /\ run.task \in Tasks /\ run.copy \in CopyIds
                     /\ taskStatus[run.task] = "running"
  BY <1>0 DEF ExecutionSound, TypeOK, Execution
<1>1. ASSUME NEW t \in Tasks, ScanRecordsFile(t) PROVE ExecutionSound'
  BY <1>0, <1>a, <1>1
  DEF ScanRecordsFile, taskVars, operationVars, fileVars, ExecutionSound, TypeOK, Kept
<1>2. ASSUME NEW t \in Tasks, EnqueueTransferRetry(t) PROVE ExecutionSound'
  <2>1. pc # "idle" => Active(run.task) /\ run.task \in Tasks
    BY <1>a DEF Active, Terminal, Absent
  <2>2. pc = "idle" /\ pc' = "idle"
    BY <2>1, <1>2 DEF EnqueueTransferRetry
  <2>3. QED
    BY <2>2 DEF ExecutionSound
<1>3. CASE ScanRecordsBaseline
  BY <1>0, <1>a, <1>3
  DEF ScanRecordsBaseline, taskVars, operationVars, fileVars, ExecutionSound, TypeOK, Kept
<1>4. CASE CredentialExpires
  BY <1>0, <1>a, <1>4
  DEF CredentialExpires, taskVars, operationVars, fileVars, ExecutionSound, TypeOK, Kept
<1>5. CASE CredentialRenewed
  BY <1>0, <1>a, <1>5
  DEF CredentialRenewed, taskVars, operationVars, fileVars, ExecutionSound, TypeOK, Kept
<1>6. ASSUME NEW k \in DOMAIN copies, CopyCompletes(k) PROVE ExecutionSound'
  BY <1>0, <1>a, <1>6
  DEF CopyCompletes, taskVars, operationVars, fileVars, ExecutionSound, TypeOK, Kept
<1>7. CASE Crash
  BY <1>0, <1>a, <1>7
  DEF Crash, taskVars, operationVars, fileVars, ExecutionSound, TypeOK, Kept
<1>8. ASSUME NEW t \in Tasks, ClaimTask(t) PROVE ExecutionSound'
  <2>1. /\ run' = [NoExecution EXCEPT !.task = t, !.copy = operation[t],
                                       !.retryCount = retryCount[t]]
        /\ taskStatus'[t] = "running" /\ pc' = "load" /\ operation' = operation
    BY <1>0, <1>8 DEF ClaimTask, TypeOK, operationVars
  <2>2. run'.task = t /\ run'.copy = operation[t] /\ run'.answer = "none" /\ t # NoTask
    BY <2>1 DEF NoExecution, Tasks, NoTask
  <2>3. QED
    BY <2>1, <2>2 DEF ExecutionSound
<1>9. ASSUME NEW t \in Tasks, RecoverExpiredLease(t) PROVE ExecutionSound'
  BY <1>9 DEF RecoverExpiredLease, ExecutionSound
<1>10. CASE PrepareTarget
  <2>1. /\ pc = "prepare" /\ run' = run /\ pc' = AfterPrepare
        /\ taskStatus' = taskStatus /\ operation' = operation /\ copies' = copies
    BY <1>10 DEF PrepareTarget, Goto, taskVars, operationVars
  <2>2. /\ run.task \in Tasks /\ run.task # NoTask /\ taskStatus[run.task] = "running"
        /\ run.copy = operation[run.task] /\ run.answer = "none" /\ run.version > 0
    BY <1>0, <1>a, <2>1 DEF ExecutionSound
  <2>3. CASE run.copy = NoCopy
    <3>1. pc' = "lookup"
      BY <2>1, <2>3 DEF AfterPrepare
    <3>2. QED
      BY <2>1, <2>2, <2>3, <3>1 DEF ExecutionSound
  <2>4. CASE run.copy # NoCopy
    <3>1. pc' = "query"
      BY <2>1, <2>4 DEF AfterPrepare
    <3>2. run.copy \in Requested
      BY <1>0, <2>2, <2>4 DEF RowsSound
    <3>3. Requested' = Requested
      BY <2>1 DEF Requested
    <3>4. QED
      BY <2>1, <2>2, <3>1, <3>2, <3>3 DEF ExecutionSound
  <2>5. QED
    BY <2>3, <2>4
<1>11. CASE FindNothing
  BY <1>0, <1>a, <1>11
  DEF FindNothing, taskVars, operationVars, fileVars, ExecutionSound, TypeOK, Kept, Goto
<1>12. CASE RecordWriteIntent
  BY <1>0, <1>a, <1>12
  DEF RecordWriteIntent, taskVars, operationVars, fileVars, ExecutionSound, TypeOK, Kept,
     Goto
<1>13. CASE RecordWriteIntentFails
  BY <1>0, <1>a, <1>13, Concluded
    DEF RecordWriteIntentFails, taskVars, operationVars, fileVars, ExecutionSound, TypeOK,
     Kept, Phases, Answers
<1>14. CASE FindTargetItem
  <2>1. PICK k \in Visible :
           IF Acceptable(k)
           THEN pc' = "token" /\ run' = [run EXCEPT !.answer = "done", !.copy = k]
           ELSE Conclude("token", "retry")
    BY <1>14 DEF FindTargetItem
  <2>2. CASE Acceptable(k)
    <3>1. run.version > 0
      BY <1>0, <1>14 DEF FindTargetItem, ExecutionSound
    <3>2. k \in Made
      BY <2>2, <3>1 DEF Acceptable, Made
    <3>3. /\ run'.answer = "done" /\ run'.copy = k /\ run'.task = run.task
          /\ pc' = "token" /\ taskStatus' = taskStatus
      BY <1>0, <2>1, <2>2, <1>14 DEF FindTargetItem, TypeOK, Execution, taskVars
    <3>4. QED
      BY <1>0, <3>2, <3>3, <1>14 DEF FindTargetItem, ExecutionSound, Kept
  <2>3. CASE ~Acceptable(k)
    BY <1>0, <2>1, <2>3, <1>14, Concluded
    DEF FindTargetItem, taskVars, operationVars, fileVars, ExecutionSound, Phases, Answers
  <2>4. QED
    BY <2>2, <2>3
<1>15. CASE SubmitCopy
  <2>1. /\ AcceptCopy /\ pc = "submit" /\ run.answer = "none" /\ run.version > 0
        /\ taskStatus' = taskStatus
    BY <1>0, <1>15 DEF SubmitCopy, ExecutionSound, taskVars
  <2>2. /\ Len(copies) + 1 \in Requested'
        /\ ~Resumable => Len(copies) + 1 \in Made'
    BY <1>0, <2>1, CopyAccepted
  <2>3. CASE Resumable
    <3>1. /\ run'.copy = Len(copies) + 1 /\ run'.answer = run.answer /\ pc' = "record"
          /\ run'.task = run.task /\ run'.version = run.version
      BY <1>0, <2>3, <1>15 DEF SubmitCopy, TypeOK, Execution
    <3>2. QED
      BY <1>0, <2>1, <2>2, <3>1 DEF ExecutionSound
  <2>4. CASE ~Resumable
    <3>1. /\ run'.copy = Len(copies) + 1 /\ run'.answer = "done" /\ pc' = "token"
          /\ run'.task = run.task
      BY <1>0, <2>4, <1>15 DEF SubmitCopy, TypeOK, Execution
    <3>2. QED
      BY <1>0, <2>1, <2>2, <2>4, <3>1 DEF ExecutionSound
  <2>5. QED
    BY <2>3, <2>4
<1>16. CASE SubmitAnswerLost
  BY <1>0, <1>a, <1>16, Concluded
    DEF SubmitAnswerLost, taskVars, operationVars, fileVars, ExecutionSound, TypeOK, Kept,
     Phases, Answers
<1>17. CASE RecordProviderOperation
  BY <1>0, <1>a, <1>17
    DEF RecordProviderOperation, taskVars, operationVars, fileVars, ExecutionSound, TypeOK,
     Kept, Goto
<1>18. CASE RecordProviderOperationFails
  BY <1>0, <1>a, <1>18, Concluded
    DEF RecordProviderOperationFails, taskVars, operationVars, fileVars, ExecutionSound,
     TypeOK, Kept, Phases, Answers, OperationUnstored
<1>19. CASE QueryOperation
  <2>1. /\ run.copy \in Requested /\ run.version > 0 /\ taskStatus' = taskStatus
        /\ copies' = copies /\ pc = "query"
    BY <1>0, <1>19 DEF QueryOperation, ExecutionSound, taskVars
  <2>2. CopyAnswer = "done" => run.copy \in Made
    BY <2>1 DEF CopyAnswer, Made, Visible, Requested
  <2>3. CopyAnswer \in {"done", "retry"}
    BY DEF CopyAnswer
  <2>4. /\ pc' = "token" /\ run'.answer = CopyAnswer /\ run'.task = run.task
        /\ run'.copy = run.copy
    BY <1>0, <2>3, <1>19, Concluded DEF QueryOperation, Phases, Answers
  <2>5. QED
    BY <1>0, <2>1, <2>2, <2>3, <2>4 DEF ExecutionSound, Kept
<1>20. CASE ProviderRefuses
  <2>1. PICK answer \in {"retry", "failed", "waiting_credential"} : Conclude("token", answer)
    BY <1>20 DEF ProviderRefuses
  <2>2. pc' = "token" /\ run'.answer = answer /\ run'.task = run.task
    BY <1>0, <2>1, Concluded DEF Phases, Answers
  <2>3. QED
    BY <1>0, <2>2, <1>20 DEF ProviderRefuses, ExecutionSound, taskVars
<1>21. CASE ProviderUncertain
  BY <1>0, <1>a, <1>21, Concluded
    DEF ProviderUncertain, taskVars, operationVars, fileVars, ExecutionSound, TypeOK, Kept,
     Phases, Answers
<1>22. CASE HandlerRaises
  BY <1>0, <1>a, <1>22, Concluded
    DEF HandlerRaises, taskVars, operationVars, fileVars, ExecutionSound, TypeOK, Kept,
     Phases, Answers
<1>23. CASE LoadSource
  <2>1. fileVersion > 0
    BY <1>0, <1>a, <1>23 DEF LoadSource, RowsSound, Absent
  <2>2. /\ run'.version = fileVersion /\ run'.task = run.task /\ run'.copy = run.copy
        /\ run'.answer = run.answer
    BY <1>0, <1>23 DEF LoadSource, TypeOK, Execution
  <2>3. QED
    BY <1>0, <2>1, <2>2, <1>23 DEF LoadSource, ExecutionSound, taskVars, operationVars,
       fileVars
<1>24. CASE LoadSourceFails
  BY <1>0, <1>a, <1>24, Concluded
    DEF LoadSourceFails, taskVars, operationVars, fileVars, ExecutionSound, TypeOK, Kept,
     Phases, Answers
<1>25. CASE MarkSaving
  BY <1>0, <1>a, <1>25
  DEF MarkSaving, taskVars, operationVars, fileVars, ExecutionSound, TypeOK, Kept, Goto
<1>26. CASE PersistProviderToken
  BY <1>0, <1>a, <1>26
    DEF PersistProviderToken, taskVars, operationVars, fileVars, ExecutionSound, TypeOK,
       Kept,
     Goto, AfterToken
<1>27. CASE PersistProviderTokenFails
  <2>1. /\ run'.task = run.task /\ run'.copy = run.copy /\ run'.answer = run.answer
        /\ run'.version = run.version
    BY <1>0, <1>27 DEF PersistProviderTokenFails, TypeOK, Execution
  <2>2. QED
        BY <1>0, <2>1, <1>27 DEF PersistProviderTokenFails, AfterToken, ExecutionSound,
           Kept,
       taskVars, operationVars, fileVars
<1>28. CASE RecordProviderUncertain
  <2>1. pc = "uncertain" /\ pc' = "settle" /\ run' = run /\ taskStatus' = taskStatus
    BY <1>28 DEF RecordProviderUncertain, Goto, taskVars
  <2>2. QED
    BY <1>0, <2>1 DEF ExecutionSound
<1>29. CASE MarkFailure
  <2>1. Disposition \in {"retry", "failed", "waiting_credential"}
    BY <1>0, <1>29 DEF MarkFailure, Disposition, ExecutionSound
  <2>2. pc' = "finish" /\ run'.answer = Disposition /\ run'.task = run.task
    BY <1>0, <2>1, <1>29, Concluded DEF MarkFailure, Phases, Answers
  <2>3. QED
    BY <1>0, <2>1, <2>2, <1>29 DEF MarkFailure, ExecutionSound, taskVars
<1>30. CASE RecordProviderSuccess
  BY <1>0, <1>a, <1>30
    DEF RecordProviderSuccess, taskVars, operationVars, fileVars, ExecutionSound, TypeOK,
     Kept, Goto
<1>31. CASE MarkSuccess
  BY <1>0, <1>a, <1>31, Concluded
    DEF MarkSuccess, taskVars, operationVars, fileVars, ExecutionSound, TypeOK, Kept,
       Phases,
     Answers
<1>32. CASE SuccessNotPersisted
  BY <1>0, <1>a, <1>32, Concluded
    DEF SuccessNotPersisted, taskVars, operationVars, fileVars, ExecutionSound, TypeOK,
       Kept,
     Phases, Answers, OutcomeWhenUnsaved
<1>33. CASE FinishRun
  BY <1>33 DEF FinishRun, ExecutionSound
<1>34. QED
    BY <1>1, <1>2, <1>3, <1>4, <1>5, <1>6, <1>7, <1>8, <1>9, <1>10, <1>11, <1>12, <1>13,
     <1>14, <1>15, <1>16, <1>17, <1>18, <1>19, <1>20, <1>21, <1>22, <1>23, <1>24, <1>25,
     <1>26, <1>27, <1>28, <1>29, <1>30, <1>31, <1>32, <1>33
  DEF Next, Environment, Request, Worker, Queue, Drive, Handler

\* A file becomes saved with a copy that was made, and stays with it.
LEMMA SavedPreserved ==
  ASSUME TransferInvariant, Next, Kept
  PROVE  fileStatus' = "saved" => fileTarget' \in Made'
<1>0. ExecutionSound /\ (fileStatus = "saved" => fileTarget \in Made)
  BY DEF TransferInvariant
<1>1. CASE MarkSuccess
  BY <1>0, <1>1 DEF MarkSuccess, ExecutionSound, Kept
<1>2. CASE ~MarkSuccess
  <2>1. fileStatus' = "saved" => fileStatus = "saved" /\ fileTarget' = fileTarget
    BY <1>2
    DEF Next, Environment, Request, Worker, Queue, Drive, Handler, ScanRecordsFile,
        QueueTransfer, EnqueueTransferRetry, ScanRecordsBaseline, CredentialExpires,
        CredentialRenewed, CopyCompletes, Crash, ClaimTask, RecoverExpiredLease,
        PrepareTarget, FindTargetItem, FindNothing, RecordWriteIntent,
        RecordWriteIntentFails, SubmitCopy, SubmitAnswerLost, RecordProviderOperation,
        RecordProviderOperationFails, QueryOperation, ProviderRefuses, ProviderUncertain,
        HandlerRaises, LoadSource, LoadSourceFails, MarkSaving, PersistProviderToken,
        PersistProviderTokenFails, RecordProviderUncertain, MarkFailure,
        RecordProviderSuccess, SuccessNotPersisted, FinishRun, fileVars
  <2>2. QED
    BY <1>0, <2>1 DEF Kept
<1>3. QED
  BY <1>1, <1>2

-------------------------------------------------------------------------------
(***************************************************************************)
(* The invariant, and what follows from it.                                *)
(***************************************************************************)

\* The empty database satisfies the invariant.
LEMMA InitInvariant == Init => TransferInvariant
<1> SUFFICES ASSUME Init PROVE TransferInvariant
  OBVIOUS
<1>1. copies \in Seq(Copy)
  <2>1. [version |-> 0, done |-> TRUE] \in Copy
    BY TransferAssumption DEF Copy
  <2>2. << >> \in Seq(Copy) /\ <<[version |-> 0, done |-> TRUE]>> \in Seq(Copy)
    BY <2>1
  <2>3. QED
    BY <2>2 DEF Init
<1>2. TypeOK
  BY <1>1, TransferAssumption
  DEF Init, TypeOK, TaskStatuses, Absent, CopyIds, NoCopy, OperationStatuses, FileStatuses,
      Phases, Execution, NoExecution, NoTask, Answers
<1>3. RowsSound /\ ExecutionSound /\ TransfersChained /\ fileStatus # "saved"
  BY TransferAssumption
  DEF Init, RowsSound, ExecutionSound, TransfersChained, Absent, NoCopy
<1>4. QED
  BY <1>2, <1>3 DEF TransferInvariant

\* A step that changes nothing preserves it.
LEMMA StutterInvariant ==
  ASSUME TransferInvariant, UNCHANGED vars
  PROVE  TransferInvariant'
BY DEF TransferInvariant, TypeOK, RowsSound, ExecutionSound, TransfersChained, Made,
   Requested,
   Visible, vars, taskVars, operationVars, fileVars

\* TransferInvariant holds throughout, whatever fails: the handler, those who
\* queue transfers, and the recovery of its lease all preserve it.
THEOREM TransferInvariantHolds == Spec => []TransferInvariant
<1>1. ASSUME TransferInvariant, Next PROVE TransferInvariant'
  <2>1. TypeOK' /\ Kept
    BY <1>1, TypesPreserved
  <2>2. RowsSound' /\ TransfersChained'
    BY <1>1, <2>1, RowsPreserved
  <2>3. ExecutionSound'
    BY <1>1, <2>1, ExecutionPreserved
  <2>4. fileStatus' = "saved" => fileTarget' \in Made'
    BY <1>1, <2>1, SavedPreserved
  <2>5. QED
    BY <2>1, <2>2, <2>3, <2>4 DEF TransferInvariant
<1>2. TransferInvariant /\ [Next]_vars => TransferInvariant'
  BY <1>1, StutterInvariant
<1>3. QED
  BY InitInvariant, <1>2, PTL DEF Spec

\* No task exceeds its retry budget (_finish and recover_expired_lease agree),
\* and the drive knows every operation id that is stored.
THEOREM RowsOKHolds == Spec => []RowsOK
<1>1. TransferInvariant => RowsOK
  BY DEF TransferInvariant, RowsOK, RowsSound, ExecutionSound, Requested
<1>2. QED
  BY <1>1, TransferInvariantHolds, PTL

\* The file id that _mark_success stores is that of a finished copy, and of a
\* copy of this very file where the provider can tell (execute_transfer).
THEOREM SavedIsCopiedHolds == Spec => []SavedIsCopied
<1>1. TransferInvariant => SavedIsCopied
  BY DEF TransferInvariant, SavedIsCopied, Made
<1>2. QED
  BY <1>1, TransferInvariantHolds, PTL

\* Only an execution that has passed the look at the target submits a copy.
LEMMA OnlySubmitSubmits ==
  ASSUME TransferInvariant, [Next]_vars, Submission
  PROVE  pc = "submit"
<1>1. CASE SubmitCopy \/ SubmitAnswerLost
  BY <1>1 DEF SubmitCopy, SubmitAnswerLost
<1>2. CASE \E k \in DOMAIN copies : CopyCompletes(k)
  <2>1. PICK k \in DOMAIN copies : CopyCompletes(k)
    BY <1>2
  <2>2. copies \in Seq(Copy) /\ copies' = [copies EXCEPT ![k].done = TRUE]
    BY <2>1 DEF TransferInvariant, TypeOK, CopyCompletes
  <2>3. copies' \in Seq(Copy) /\ DOMAIN copies' = DOMAIN copies
    BY <2>1, <2>2, CopyCompleted DEF TransferInvariant
  <2>4. Len(copies') = Len(copies)
    BY <2>2, <2>3
  <2>5. Len(copies) \in Nat
    BY <2>2
  <2>6. QED
    BY <2>4, <2>5 DEF Submission
<1>3. CASE copies' = copies
  <2>1. Len(copies) \in Nat
    BY DEF TransferInvariant, TypeOK
  <2>2. QED
    BY <1>3, <2>1 DEF Submission
<1>4. [Next]_vars => \/ SubmitCopy \/ SubmitAnswerLost
                     \/ \E k \in DOMAIN copies : CopyCompletes(k)
                     \/ copies' = copies
  BY DEF Next, Environment, Request, Worker, Queue, Drive, Handler, ScanRecordsFile,
     EnqueueTransferRetry, ScanRecordsBaseline, CredentialExpires, CredentialRenewed, Crash,
     ClaimTask, RecoverExpiredLease, PrepareTarget, FindTargetItem, FindNothing,
     RecordWriteIntent, RecordWriteIntentFails, RecordProviderOperation,
     RecordProviderOperationFails, QueryOperation, ProviderRefuses, ProviderUncertain,
     HandlerRaises, LoadSource, LoadSourceFails, MarkSaving, PersistProviderToken,
     PersistProviderTokenFails, RecordProviderUncertain, MarkFailure, RecordProviderSuccess,
     MarkSuccess, SuccessNotPersisted, FinishRun, vars
<1>5. QED
  BY <1>1, <1>2, <1>3, <1>4

\* A task with a stored operation id is never submitted again (ADR-0003).
THEOREM NeverResubmits == Spec => ResumesWithoutResubmission
<1>1. TransferInvariant /\ [Next]_vars => [Submission => operation[run.task] = NoCopy]_vars
  BY OnlySubmitSubmits DEF TransferInvariant, ExecutionSound
<1>2. QED
  BY <1>1, TransferInvariantHolds, PTL DEF Spec, ResumesWithoutResubmission

\* Neither is the file, by whatever later task, while its content stays.
THEOREM RetriesContinue == ASSUME MaxVersions = 1 PROVE Spec => RetryContinuesOperation
<1>1. ASSUME TransferInvariant, [Next]_vars, Submission, NEW t \in Tasks
      PROVE  operation[t] = NoCopy
  <2>1. pc = "submit"
    BY <1>1, OnlySubmitSubmits
  <2>2. /\ run.task \in Tasks /\ taskStatus[run.task] = "running"
        /\ operation[run.task] = NoCopy
    BY <1>1, <2>1 DEF TransferInvariant, ExecutionSound, TypeOK, Execution
  <2>3. CASE t < run.task
    BY <1>1, <2>2, <2>3 DEF TransferInvariant, TransfersChained, Absent
  <2>4. CASE run.task < t
    <3>1. taskStatus[t] = Absent
      BY <1>1, <2>2, <2>4 DEF TransferInvariant, TransfersChained, Terminal
    <3>2. QED
      BY <1>1, <3>1 DEF TransferInvariant, RowsSound
  <2>5. t \in Nat /\ run.task \in Nat
    BY <2>2 DEF Tasks
  <2>6. QED
    BY <2>2, <2>3, <2>4, <2>5
<1>2. TransferInvariant /\ [Next]_vars
        => [Submission => \A t \in Tasks : operation[t] = NoCopy]_vars
  BY <1>1
<1>3. QED
  BY <1>2, TransferInvariantHolds, PTL DEF Spec, RetryContinuesOperation

-------------------------------------------------------------------------------
(***************************************************************************)
(* How transfers end: what the state keeps about answers, doubts, the file *)
(* and the copies.                                                         *)
(***************************************************************************)

\* What the handler has answered "success" for is saved.
AnswerSound == pc = "finish" /\ run.answer = "success" => fileStatus = "saved"

\* An execution on its way to "failed", with its write in doubt.
Doubting(t) ==
  /\ run.task = t
  /\ \/ pc = "settle" /\ run.answer = "uncertain"
     \/ pc = "finish" /\ run.answer = "failed"

\* A task that took its doubt over from one that is over, which keeps it.
Inherited(t) ==
  t > 1 /\ taskStatus[t - 1] \in Terminal /\ operationStatus[t - 1] = "uncertain"

\* Every doubt is inherited, about to end its task, or has ended it.
DoubtSound ==
  /\ faults["token"] = 0 => run.tokenKept
  /\ faults["crash"] + faults["token"] = 0 =>
       \A t \in Tasks : operationStatus[t] = "uncertain" =>
         taskStatus[t] = "failed" \/ Doubting(t) \/ Inherited(t)

Unsettled == {"pending", "saving"}

\* Will the queue end the task with the answer of the execution?
Ends == \/ run.answer \in {"success", "failed"}
        \/ run.answer = "retry" /\ run.retryCount >= MaxRetries

\* Without a crash or a failing write the handler and the queue count alike, and
\* the file is settled before its task is.
FilesSound ==
  faults["crash"] + faults["write"] = 0 =>
    /\ \A t \in Tasks : taskStatus[t] = "running" => pc # "idle" /\ run.task = t
    /\ pc # "idle" => run.retryCount = retryCount[run.task]
    /\ pc = "finish" /\ Ends => fileStatus \notin Unsettled
    /\ fileStatus \in Unsettled => \E t \in Tasks : Active(t)

Alone == \A t \in Tasks \ {1} : taskStatus[t] = Absent

\* Why the only task does not submit again: its copy is known, or its execution
\* is bound to end it, or the copy of a direct provider is there to be seen.
Bound ==
  \/ operation[1] # NoCopy
  \/ taskStatus[1] \in Terminal
  \/ pc = "record"
  \/ pc \in {"token", "uncertain", "settle"} /\ run.answer = "uncertain"
  \/ pc = "finish" /\ run.answer = "failed"
  \/ ~Resumable

CopiesSound ==
  /\ pc = "intent" => Resumable
  /\ ~Resumable => DOMAIN copies \subseteq Visible
  /\ ~Resumable /\ pc = "submit" => Visible = {}
  /\ faults["crash"] + faults["token"] = 0 /\ Alone =>
       NoDuplicateCopy /\ (Requested # {} => Bound)

OutcomeInvariant == AnswerSound /\ DoubtSound /\ FilesSound /\ CopiesSound

(***************************************************************************)
(* Parts of the steps.                                                     *)
(***************************************************************************)

\* enqueue_transfer_retry finds an active task while one is executed; the
\* predecessor of the task it creates is over.
LEMMA RetryFindsNoExecution ==
  ASSUME TransferInvariant, NEW t \in Tasks, EnqueueTransferRetry(t)
  PROVE  /\ pc = "idle" /\ pc' = "idle"
         /\ t > 1 => t - 1 \in Tasks \ {t} /\ taskStatus[t - 1] \in Terminal
<1>0. TypeOK /\ ExecutionSound
  BY DEF TransferInvariant
<1>1. pc # "idle" => run.task \in Tasks /\ Active(run.task)
  BY <1>0 DEF ExecutionSound, TypeOK, Execution, Active, Terminal, Absent
<1>2. pc = "idle" /\ pc' = "idle"
  BY <1>1 DEF EnqueueTransferRetry
<1>3. t > 1 => t - 1 \in Tasks \ {t} /\ t - 1 < t
  BY TransferAssumption DEF Tasks
<1>4. t > 1 => taskStatus[t - 1] # Absent /\ ~Active(t - 1)
  BY <1>3 DEF EnqueueTransferRetry, CreateTask
<1>5. QED
  BY <1>2, <1>3, <1>4 DEF Active

\* A direct provider has made every copy that it was asked for.
LEMMA DirectIsVisible ==
  ASSUME TypeOK, ~Resumable => DOMAIN copies \subseteq Visible, AcceptCopy
  PROVE  ~Resumable => DOMAIN copies' \subseteq Visible'
<1> DEFINE new == [version |-> run.version, done |-> ~Resumable]
<1>1. new \in Copy /\ copies \in Seq(Copy) /\ copies' = Append(copies, new)
  BY TransferAssumption DEF TypeOK, AcceptCopy, Execution, Copy
<1>2. /\ DOMAIN copies = 1 .. Len(copies) /\ Len(copies) \in Nat
      /\ DOMAIN copies' = 1 .. Len(copies) + 1
      /\ \A k \in 1 .. Len(copies) : copies'[k] = copies[k]
      /\ copies'[Len(copies) + 1] = new
  BY <1>1
<1>3. copies'[Len(copies) + 1].done = ~Resumable
  BY <1>2
<1>4. ASSUME ~Resumable, NEW k \in DOMAIN copies' PROVE copies'[k].done
  <2>1. CASE k \in DOMAIN copies
    BY <1>2, <1>4, <2>1 DEF Visible
  <2>2. CASE k = Len(copies) + 1
    BY <1>3, <1>4, <2>2
  <2>3. QED
    BY <1>2, <1>4, <2>1, <2>2
<1>5. QED
  BY <1>4 DEF Visible

\* What the only task submits is the first copy of the file that is asked for.
LEMMA FirstSubmission ==
  ASSUME TransferInvariant, CopiesSound, pc = "submit", AcceptCopy,
         faults["crash"] + faults["token"] = 0, Alone
  PROVE  NoDuplicateCopy'
<1>0. TypeOK /\ ExecutionSound /\ run \in Execution
  BY DEF TransferInvariant, TypeOK
<1>1. run.task = 1 /\ taskStatus[1] = "running" /\ operation[1] = NoCopy /\ run.version > 0
  BY <1>0 DEF Alone, ExecutionSound, Execution, Absent
<1>2. Requested = {}
  BY <1>1 DEF CopiesSound, Bound, Terminal, Requested, Visible
<1> DEFINE new == [version |-> run.version, done |-> ~Resumable]
<1>3. new \in Copy /\ copies \in Seq(Copy) /\ copies' = Append(copies, new)
  BY <1>0, TransferAssumption DEF TypeOK, AcceptCopy, Execution, Copy
<1>4. /\ DOMAIN copies = 1 .. Len(copies) /\ Len(copies) \in Nat
      /\ DOMAIN copies' = 1 .. Len(copies) + 1
      /\ \A k \in 1 .. Len(copies) : copies'[k] = copies[k]
      /\ copies'[Len(copies) + 1].version = run.version
  BY <1>3
<1>5. \A k \in 1 .. Len(copies) : copies[k].version \in Nat /\ ~(copies[k].version > 0)
  <2> SUFFICES ASSUME NEW k \in 1 .. Len(copies)
               PROVE  copies[k].version \in Nat /\ ~(copies[k].version > 0)
    OBVIOUS
  <2>1. copies[k] \in Copy /\ k \in DOMAIN copies
    BY <1>3, <1>4
  <2>2. QED
    BY <2>1, <1>2, TransferAssumption DEF Requested, Copy
<1>6. \A j, k \in DOMAIN copies : j # k => copies[j].version # copies[k].version
  BY DEF CopiesSound, NoDuplicateCopy
<1>7. QED
  BY <1>1, <1>4, <1>5, <1>6 DEF NoDuplicateCopy

(***************************************************************************)
(* Every step preserves every part of the invariant.                       *)
(***************************************************************************)

\* The handler answers "success" only after the file was saved, and nothing touches
\* the file before the answer is recorded.
LEMMA AnswerPreserved ==
  ASSUME TransferInvariant, AnswerSound, Next
  PROVE  AnswerSound'
<1>0. /\ TypeOK /\ RowsSound /\ ExecutionSound
      /\ run \in Execution /\ faults \in [Faults -> Nat] /\ MaxRetries \in Nat
  BY TransferAssumption DEF TransferInvariant, TypeOK
<1>1. CASE CredentialExpires \/ CredentialRenewed \/ (\E k \in DOMAIN copies :
          CopyCompletes(k)) \/ (\E t \in Tasks : RecoverExpiredLease(t))
  <2>1. UNCHANGED <<pc, run, fileStatus>>
    BY <1>1 DEF CredentialExpires, CredentialRenewed, CopyCompletes,
       RecoverExpiredLease, fileVars
  <2>2. QED
    BY <2>1 DEF AnswerSound
<1>2. ASSUME NEW t \in Tasks, ScanRecordsFile(t) PROVE AnswerSound'
  BY <1>2 DEF ScanRecordsFile, AnswerSound
<1>3. ASSUME NEW t \in Tasks, EnqueueTransferRetry(t) PROVE AnswerSound'
  <2>1. pc' = "idle"
    BY <1>3, RetryFindsNoExecution
  <2>2. QED
    BY <2>1 DEF AnswerSound
<1>4. CASE ScanRecordsBaseline
  BY <1>4 DEF ScanRecordsBaseline, AnswerSound
<1>5. CASE Crash
  BY <1>5 DEF Crash, AnswerSound
<1>6. ASSUME NEW t \in Tasks, ClaimTask(t) PROVE AnswerSound'
  BY <1>6 DEF ClaimTask, AnswerSound
<1>7. CASE PrepareTarget
  BY <1>7 DEF PrepareTarget, Goto, AfterPrepare, AnswerSound
<1>8. CASE FindTargetItem
  BY <1>8 DEF FindTargetItem, Conclude, AnswerSound
<1>9. CASE FindNothing
  BY <1>9 DEF FindNothing, Goto, AnswerSound
<1>10. CASE RecordWriteIntent
  BY <1>10 DEF RecordWriteIntent, Goto, AnswerSound
<1>11. CASE RecordWriteIntentFails
  BY <1>11 DEF RecordWriteIntentFails, Conclude, AnswerSound
<1>12. CASE SubmitCopy
  BY <1>12 DEF SubmitCopy, AnswerSound
<1>13. CASE SubmitAnswerLost
  BY <1>13 DEF SubmitAnswerLost, Conclude, AnswerSound
<1>14. CASE RecordProviderOperation
  BY <1>14 DEF RecordProviderOperation, Goto, AnswerSound
<1>15. CASE RecordProviderOperationFails
  BY <1>15 DEF RecordProviderOperationFails, Conclude, AnswerSound
<1>16. CASE QueryOperation
  BY <1>16 DEF QueryOperation, Conclude, AnswerSound
<1>17. CASE ProviderRefuses
  BY <1>17 DEF ProviderRefuses, Conclude, AnswerSound
<1>18. CASE ProviderUncertain
  BY <1>18 DEF ProviderUncertain, Conclude, AnswerSound
<1>19. CASE HandlerRaises
  BY <1>19 DEF HandlerRaises, Conclude, AnswerSound
<1>20. CASE LoadSource
  BY <1>20 DEF LoadSource, AnswerSound
<1>21. CASE LoadSourceFails
  BY <1>21 DEF LoadSourceFails, Conclude, AnswerSound
<1>22. CASE MarkSaving
  BY <1>22 DEF MarkSaving, Goto, AnswerSound
<1>23. CASE PersistProviderToken
  BY <1>23 DEF PersistProviderToken, Goto, AfterToken, AnswerSound
<1>24. CASE PersistProviderTokenFails
  BY <1>24 DEF PersistProviderTokenFails, AfterToken, AnswerSound
<1>25. CASE RecordProviderUncertain
  BY <1>25 DEF RecordProviderUncertain, Goto, AnswerSound
<1>26. CASE MarkFailure
  BY <1>26, <1>0 DEF MarkFailure, Conclude, Disposition, AnswerSound, ExecutionSound
<1>27. CASE RecordProviderSuccess
  BY <1>27 DEF RecordProviderSuccess, Goto, AnswerSound
<1>28. CASE MarkSuccess
  BY <1>28 DEF MarkSuccess, AnswerSound
<1>29. CASE SuccessNotPersisted
  BY <1>29 DEF SuccessNotPersisted, Conclude, OutcomeWhenUnsaved, AnswerSound
<1>30. CASE FinishRun
  BY <1>30 DEF FinishRun, AnswerSound
<1>31. QED
  BY <1>1, <1>2, <1>3, <1>4, <1>5, <1>6, <1>7, <1>8, <1>9, <1>10, <1>11, <1>12, <1>13,
     <1>14, <1>15, <1>16, <1>17, <1>18, <1>19, <1>20, <1>21, <1>22, <1>23, <1>24, <1>25,
     <1>26, <1>27, <1>28, <1>29, <1>30 DEF Next, Environment, Request, Worker, Queue,
     Drive, Handler

\* A doubt ends its task, or was inherited.
LEMMA DoubtPreserved ==
  ASSUME TransferInvariant, DoubtSound, Next
  PROVE  DoubtSound'
<1>0. /\ TypeOK /\ RowsSound /\ ExecutionSound
      /\ run \in Execution /\ faults \in [Faults -> Nat] /\ MaxRetries \in Nat
  BY TransferAssumption DEF TransferInvariant, TypeOK
<1>1. CASE ScanRecordsBaseline \/ CredentialRenewed \/ (\E k \in DOMAIN copies :
          CopyCompletes(k))
  <2>1. UNCHANGED <<pc, run, taskStatus, operationStatus, faults>>
    BY <1>1 DEF ScanRecordsBaseline, CredentialRenewed, CopyCompletes, taskVars,
       operationVars
  <2>2. QED
    BY <2>1 DEF DoubtSound, Doubting, Inherited
<1>2. ASSUME NEW t \in Tasks, ScanRecordsFile(t) PROVE DoubtSound'
  BY <1>2 DEF ScanRecordsFile, QueueTransfer, CreateTask, DoubtSound, Doubting,
     Inherited, Terminal, Absent
<1>3. ASSUME NEW t \in Tasks, EnqueueTransferRetry(t) PROVE DoubtSound'
  <2>1. /\ pc = "idle" /\ pc' = "idle" /\ run' = run /\ faults' = faults
        /\ t > 1 => t - 1 \in Tasks \ {t} /\ taskStatus[t - 1] \in Terminal
    BY <1>3, RetryFindsNoExecution DEF EnqueueTransferRetry
  <2>2. /\ \A u \in Tasks \ {t} : taskStatus'[u] = taskStatus[u]
                                 /\ operationStatus'[u] = operationStatus[u]
        /\ operationStatus'[t] = PredecessorOperationStatus(t)
        /\ taskStatus[t] = Absent
    BY <1>3, <1>0 DEF EnqueueTransferRetry, CreateTask, TypeOK
  <2>3. operationStatus'[t] = "uncertain" => Inherited(t)'
    BY <2>1, <2>2 DEF PredecessorOperationStatus, Inherited, Tasks
  <2>4. \A u \in Tasks \ {t} : Inherited(u) => Inherited(u)'
    <3> SUFFICES ASSUME NEW u \in Tasks \ {t}, Inherited(u) PROVE Inherited(u)'
      OBVIOUS
    <3>1. u - 1 \in Tasks
      BY TransferAssumption DEF Inherited, Tasks
    <3>2. u - 1 # t
      BY <2>2 DEF Inherited, Absent, Terminal
    <3>3. QED
      BY <2>2, <3>1, <3>2 DEF Inherited
  <2>5. \A u \in Tasks : ~Doubting(u)
    BY <2>1 DEF Doubting
  <2>6. QED
    BY <2>1, <2>2, <2>3, <2>4, <2>5 DEF DoubtSound
<1>4. CASE CredentialExpires
  BY <1>4 DEF CredentialExpires, Strike, DoubtSound, Doubting, Inherited, taskVars,
     operationVars
<1>5. CASE Crash
  BY <1>5, <1>0 DEF Crash, Strike, Faults, NoExecution, DoubtSound
<1>6. ASSUME NEW t \in Tasks, ClaimTask(t) PROVE DoubtSound'
  BY <1>6 DEF ClaimTask, NoExecution, NextInQueue, DoubtSound, Doubting, Inherited,
     Terminal, operationVars
<1>7. ASSUME NEW t \in Tasks, RecoverExpiredLease(t) PROVE DoubtSound'
  BY <1>7 DEF RecoverExpiredLease, EndRun, DoubtSound, Doubting, Inherited, Terminal,
     operationVars
<1>8. CASE PrepareTarget
  BY <1>8 DEF PrepareTarget, Goto, DoubtSound, Doubting, Inherited, taskVars,
     operationVars
<1>9. CASE FindTargetItem
  BY <1>9, <1>0 DEF FindTargetItem, Conclude, DoubtSound, Doubting, Inherited,
     Execution, taskVars, operationVars
<1>10. CASE FindNothing
  BY <1>10 DEF FindNothing, Goto, DoubtSound, Doubting, Inherited, taskVars,
     operationVars
<1>11. CASE RecordWriteIntent
  BY <1>11, <1>0 DEF RecordWriteIntent, Goto, DoubtSound, Doubting, Inherited,
     ExecutionSound, Terminal, taskVars
<1>12. CASE RecordWriteIntentFails
  BY <1>12 DEF RecordWriteIntentFails, Conclude, Strike, DoubtSound, Doubting,
     Inherited, taskVars, operationVars
<1>13. CASE SubmitCopy
  BY <1>13, <1>0 DEF SubmitCopy, DoubtSound, Doubting, Inherited, Execution, taskVars,
     operationVars
<1>14. CASE SubmitAnswerLost
  BY <1>14 DEF SubmitAnswerLost, Conclude, Strike, DoubtSound, Doubting, Inherited,
     taskVars, operationVars
<1>15. CASE RecordProviderOperation
  BY <1>15, <1>0 DEF RecordProviderOperation, Goto, DoubtSound, Doubting, Inherited,
     ExecutionSound, Terminal, taskVars
<1>16. CASE RecordProviderOperationFails
  BY <1>16 DEF RecordProviderOperationFails, Conclude, Strike, DoubtSound, Doubting,
     Inherited, taskVars, operationVars
<1>17. CASE QueryOperation
  BY <1>17 DEF QueryOperation, Conclude, DoubtSound, Doubting, Inherited, taskVars,
     operationVars
<1>18. CASE ProviderRefuses
  BY <1>18 DEF ProviderRefuses, Conclude, DoubtSound, Doubting, Inherited, taskVars,
     operationVars
<1>19. CASE ProviderUncertain
  BY <1>19 DEF ProviderUncertain, Conclude, Strike, DoubtSound, Doubting, Inherited,
     taskVars, operationVars
<1>20. CASE HandlerRaises
  BY <1>20 DEF HandlerRaises, Conclude, Strike, DoubtSound, Doubting, Inherited,
     taskVars, operationVars
<1>21. CASE LoadSource
  BY <1>21 DEF LoadSource, DoubtSound, Doubting, Inherited, taskVars, operationVars
<1>22. CASE LoadSourceFails
  BY <1>22, <1>0 DEF LoadSourceFails, Conclude, Strike, Faults, DoubtSound, Doubting,
     Inherited, Execution, taskVars, operationVars
<1>23. CASE MarkSaving
  BY <1>23 DEF MarkSaving, Goto, DoubtSound, Doubting, Inherited, taskVars,
     operationVars
<1>24. CASE PersistProviderToken
  BY <1>24 DEF PersistProviderToken, Goto, DoubtSound, Doubting, Inherited, taskVars,
     operationVars
<1>25. CASE PersistProviderTokenFails
  BY <1>25, <1>0 DEF PersistProviderTokenFails, Strike, Faults, DoubtSound
<1>26. CASE RecordProviderUncertain
  BY <1>26, <1>0 DEF RecordProviderUncertain, Goto, DoubtSound, Doubting, Inherited,
     ExecutionSound, taskVars
<1>27. CASE MarkFailure
  BY <1>27 DEF MarkFailure, Conclude, Disposition, DoubtSound, Doubting, Inherited,
     taskVars, operationVars
<1>28. CASE RecordProviderSuccess
  BY <1>28, <1>0 DEF RecordProviderSuccess, Goto, DoubtSound, Doubting, Inherited,
     ExecutionSound, Terminal, taskVars
<1>29. CASE MarkSuccess
  BY <1>29 DEF MarkSuccess, Conclude, DoubtSound, Doubting, Inherited, taskVars,
     operationVars
<1>30. CASE SuccessNotPersisted
  BY <1>30 DEF SuccessNotPersisted, Conclude, Strike, DoubtSound, Doubting, Inherited,
     taskVars, operationVars
<1>31. CASE FinishRun
  BY <1>31, <1>0 DEF FinishRun, EndRun, StatusAfter, NoExecution, DoubtSound, Doubting,
     Inherited, ExecutionSound, TypeOK, Terminal, operationVars
<1>32. QED
  BY <1>1, <1>2, <1>3, <1>4, <1>5, <1>6, <1>7, <1>8, <1>9, <1>10, <1>11, <1>12, <1>13,
     <1>14, <1>15, <1>16, <1>17, <1>18, <1>19, <1>20, <1>21, <1>22, <1>23, <1>24, <1>25,
     <1>26, <1>27, <1>28, <1>29, <1>30, <1>31 DEF Next, Environment, Request, Worker,
     Queue, Drive, Handler

\* The handler settles the file as the queue will settle the task.
LEMMA FilesPreserved ==
  ASSUME TransferInvariant, FilesSound, Next
  PROVE  FilesSound'
<1>0. /\ TypeOK /\ RowsSound /\ ExecutionSound
      /\ run \in Execution /\ faults \in [Faults -> Nat] /\ MaxRetries \in Nat
  BY TransferAssumption DEF TransferInvariant, TypeOK
<1>1. CASE CredentialRenewed \/ (\E k \in DOMAIN copies : CopyCompletes(k))
  <2>1. UNCHANGED <<taskStatus, retryCount, pc, run, fileStatus, faults>>
    BY <1>1 DEF CredentialRenewed, CopyCompletes, taskVars, fileVars
  <2>2. QED
    BY <2>1 DEF FilesSound, Ends, Active
<1>2. ASSUME NEW t \in Tasks, ScanRecordsFile(t) PROVE FilesSound'
  BY <1>2, <1>0 DEF ScanRecordsFile, QueueTransfer, CreateTask, FilesSound, TypeOK,
     Terminal, Active, Absent
<1>3. ASSUME NEW t \in Tasks, EnqueueTransferRetry(t) PROVE FilesSound'
  BY <1>3, <1>0 DEF EnqueueTransferRetry, CreateTask, FilesSound, ExecutionSound,
     TypeOK, Execution, Terminal, Active, Absent
<1>4. CASE ScanRecordsBaseline
  BY <1>4 DEF ScanRecordsBaseline, FilesSound, Unsettled, taskVars
<1>5. CASE CredentialExpires
  BY <1>5 DEF CredentialExpires, Strike, FilesSound, Ends, Active, taskVars, fileVars
<1>6. CASE Crash
  BY <1>6, <1>0 DEF Crash, Strike, Faults, FilesSound
<1>7. ASSUME NEW t \in Tasks, ClaimTask(t) PROVE FilesSound'
  BY <1>7 DEF ClaimTask, NextInQueue, FilesSound, Terminal, Active, Absent
<1>8. ASSUME NEW t \in Tasks, RecoverExpiredLease(t) PROVE FilesSound'
  BY <1>8 DEF RecoverExpiredLease, FilesSound
<1>9. CASE PrepareTarget
  BY <1>9, <1>0 DEF PrepareTarget, Goto, AfterPrepare, FilesSound, ExecutionSound,
     Execution, Terminal, Active, Absent, taskVars
<1>10. CASE FindTargetItem
  <2>1. /\ pc = "lookup" /\ pc' = "token"
        /\ run'.task = run.task /\ run'.retryCount = run.retryCount
    BY <1>10, <1>0 DEF FindTargetItem, Conclude, Execution
  <2>2. UNCHANGED <<taskStatus, retryCount, fileStatus, faults>>
    BY <1>10 DEF FindTargetItem, taskVars, fileVars
  <2>3. QED
    BY <2>1, <2>2 DEF FilesSound, Active
<1>11. CASE FindNothing
  BY <1>11, <1>0 DEF FindNothing, Goto, FilesSound, ExecutionSound, Execution, Terminal,
     Active, Absent, taskVars
<1>12. CASE RecordWriteIntent
  BY <1>12, <1>0 DEF RecordWriteIntent, Goto, FilesSound, ExecutionSound, Execution,
     Terminal, Active, Absent, taskVars
<1>13. CASE RecordWriteIntentFails
  BY <1>13, <1>0 DEF RecordWriteIntentFails, Strike, Faults, FilesSound
<1>14. CASE SubmitCopy
  <2>1. /\ pc = "submit" /\ pc' \in {"record", "token"}
        /\ run'.task = run.task /\ run'.retryCount = run.retryCount
    BY <1>14, <1>0 DEF SubmitCopy, Execution
  <2>2. UNCHANGED <<taskStatus, retryCount, fileStatus, faults>>
    BY <1>14 DEF SubmitCopy, taskVars, fileVars
  <2>3. QED
    BY <2>1, <2>2 DEF FilesSound, Active
<1>15. CASE SubmitAnswerLost
  BY <1>15, <1>0 DEF SubmitAnswerLost, Conclude, Strike, FilesSound, ExecutionSound,
     Execution, Terminal, Active, Absent, taskVars
<1>16. CASE RecordProviderOperation
  BY <1>16, <1>0 DEF RecordProviderOperation, Goto, FilesSound, ExecutionSound,
     Execution, Terminal, Active, Absent, taskVars
<1>17. CASE RecordProviderOperationFails
  BY <1>17, <1>0 DEF RecordProviderOperationFails, Strike, Faults, FilesSound
<1>18. CASE QueryOperation
  BY <1>18, <1>0 DEF QueryOperation, Conclude, FilesSound, ExecutionSound, Execution,
     Terminal, Active, Absent, taskVars
<1>19. CASE ProviderRefuses
  BY <1>19 DEF ProviderRefuses, Conclude, FilesSound, Active, taskVars, fileVars
<1>20. CASE ProviderUncertain
  BY <1>20, <1>0 DEF ProviderUncertain, Conclude, Strike, FilesSound, ExecutionSound,
     Execution, Terminal, Active, Absent, taskVars
<1>21. CASE HandlerRaises
  BY <1>21, <1>0 DEF HandlerRaises, Strike, Faults, FilesSound
<1>22. CASE LoadSource
  BY <1>22, <1>0 DEF LoadSource, FilesSound, ExecutionSound, Execution, Terminal,
     Active, Absent, taskVars
<1>23. CASE LoadSourceFails
  <2>1. /\ pc = "load" /\ pc' = "settle"
        /\ run'.task = run.task /\ run'.retryCount = run.retryCount
    BY <1>23, <1>0 DEF LoadSourceFails, Conclude, Execution
  <2>2. /\ UNCHANGED <<taskStatus, retryCount, fileStatus>>
        /\ faults'["crash"] = faults["crash"] /\ faults["write"] \in Nat
        /\ faults' = faults \/ faults'["write"] = faults["write"] + 1
    BY <1>23, <1>0 DEF LoadSourceFails, taskVars, fileVars, Strike, Faults
  <2>3. QED
    BY <2>1, <2>2, <1>0 DEF FilesSound, Active, Faults
<1>24. CASE MarkSaving
  BY <1>24, <1>0 DEF MarkSaving, Goto, FilesSound, ExecutionSound, Execution, Terminal,
     Active, Absent, taskVars
<1>25. CASE PersistProviderToken
  BY <1>25, <1>0 DEF PersistProviderToken, Goto, AfterToken, FilesSound, ExecutionSound,
     Execution, Terminal, Active, Absent, taskVars
<1>26. CASE PersistProviderTokenFails
  BY <1>26, <1>0 DEF PersistProviderTokenFails, AfterToken, Strike, FilesSound,
     ExecutionSound, Execution, Terminal, Active, Absent, taskVars
<1>27. CASE RecordProviderUncertain
  BY <1>27, <1>0 DEF RecordProviderUncertain, Goto, FilesSound, ExecutionSound,
     Execution, Terminal, Active, Absent, taskVars
<1>28. CASE MarkFailure
  BY <1>28, <1>0 DEF MarkFailure, Conclude, Disposition, RetryExhausted, FilesSound,
     Ends, Unsettled, ExecutionSound, Execution, Terminal, Active, Absent, taskVars
<1>29. CASE RecordProviderSuccess
  BY <1>29, <1>0 DEF RecordProviderSuccess, Goto, FilesSound, ExecutionSound, Execution,
     Terminal, Active, Absent, taskVars
<1>30. CASE MarkSuccess
  BY <1>30 DEF MarkSuccess, Conclude, FilesSound, Unsettled, taskVars
<1>31. CASE SuccessNotPersisted
  BY <1>31, <1>0 DEF SuccessNotPersisted, Strike, Faults, FilesSound
<1>32. CASE FinishRun
  BY <1>32, <1>0 DEF FinishRun, EndRun, StatusAfter, FilesSound, Ends, ExecutionSound,
     TypeOK, Terminal, Active, Absent, fileVars
<1>33. QED
  BY <1>1, <1>2, <1>3, <1>4, <1>5, <1>6, <1>7, <1>8, <1>9, <1>10, <1>11, <1>12, <1>13,
     <1>14, <1>15, <1>16, <1>17, <1>18, <1>19, <1>20, <1>21, <1>22, <1>23, <1>24, <1>25,
     <1>26, <1>27, <1>28, <1>29, <1>30, <1>31, <1>32 DEF Next, Environment, Request,
     Worker, Queue, Drive, Handler

\* The only task submits once.
LEMMA CopiesPreserved ==
  ASSUME TransferInvariant, DoubtSound, CopiesSound, Next
  PROVE  CopiesSound'
<1>0. /\ TypeOK /\ RowsSound /\ ExecutionSound
      /\ run \in Execution /\ faults \in [Faults -> Nat] /\ MaxRetries \in Nat
  BY TransferAssumption DEF TransferInvariant, TypeOK
<1>1. CASE ScanRecordsBaseline \/ CredentialRenewed
  <2>1. UNCHANGED <<copies, pc, run, taskStatus, operation, faults>>
    BY <1>1 DEF ScanRecordsBaseline, CredentialRenewed, taskVars, operationVars
  <2>2. QED
    BY <2>1 DEF CopiesSound, Alone, Bound, NoDuplicateCopy, Requested, Visible
<1>2. ASSUME NEW t \in Tasks, ScanRecordsFile(t) PROVE CopiesSound'
  <2>1. /\ pc = "idle" /\ pc' = pc /\ copies' = copies /\ faults' = faults
        /\ taskStatus[t] = Absent
        /\ \A u \in Tasks \ {t} : taskStatus'[u] = taskStatus[u]
                                 /\ operation'[u] = operation[u]
        /\ \A u \in Tasks : u < t => taskStatus[u] # Absent
        /\ taskStatus'[t] # Absent
    BY <1>2, <1>0, RetryFindsNoExecution
    DEF ScanRecordsFile, CreateTask, TypeOK, QueueTransfer, Absent
  <2>2. ASSUME Alone' PROVE t = 1 /\ Alone
    BY <2>1, <2>2, TransferAssumption DEF Alone, Tasks
  <2>3. t = 1 => operation[1] = NoCopy /\ taskStatus[1] \notin Terminal
    BY <2>1, <1>0 DEF RowsSound, Absent, Terminal
  <2>4. QED
    BY <2>1, <2>2, <2>3 DEF CopiesSound, Bound, NoDuplicateCopy, Requested, Visible
<1>3. ASSUME NEW t \in Tasks, EnqueueTransferRetry(t) PROVE CopiesSound'
  <2>1. /\ pc = "idle" /\ pc' = pc /\ copies' = copies /\ faults' = faults
        /\ taskStatus[t] = Absent
        /\ \A u \in Tasks \ {t} : taskStatus'[u] = taskStatus[u]
                                 /\ operation'[u] = operation[u]
        /\ \A u \in Tasks : u < t => taskStatus[u] # Absent
        /\ taskStatus'[t] # Absent
    BY <1>3, <1>0, RetryFindsNoExecution
    DEF EnqueueTransferRetry, CreateTask, TypeOK, QueueTransfer, Absent
  <2>2. ASSUME Alone' PROVE t = 1 /\ Alone
    BY <2>1, <2>2, TransferAssumption DEF Alone, Tasks
  <2>3. t = 1 => operation[1] = NoCopy /\ taskStatus[1] \notin Terminal
    BY <2>1, <1>0 DEF RowsSound, Absent, Terminal
  <2>4. QED
    BY <2>1, <2>2, <2>3 DEF CopiesSound, Bound, NoDuplicateCopy, Requested, Visible
<1>4. CASE CredentialExpires
  BY <1>4 DEF CredentialExpires, Strike, CopiesSound, Alone, Bound, NoDuplicateCopy,
     Requested, Visible, taskVars, operationVars
<1>5. ASSUME NEW k \in DOMAIN copies, CopyCompletes(k) PROVE CopiesSound'
  BY <1>5 DEF CopyCompletes, CopiesSound, Alone, Bound, NoDuplicateCopy, Requested,
     Visible, taskVars, operationVars
<1>6. CASE Crash
  BY <1>6, <1>0 DEF Crash, Strike, Faults, CopiesSound, Visible
<1>7. ASSUME NEW t \in Tasks, ClaimTask(t) PROVE CopiesSound'
  BY <1>7 DEF ClaimTask, NextInQueue, CopiesSound, Alone, Bound, NoDuplicateCopy,
     Requested, Visible, Terminal, Absent, operationVars
<1>8. ASSUME NEW t \in Tasks, RecoverExpiredLease(t) PROVE CopiesSound'
  BY <1>8 DEF RecoverExpiredLease, EndRun, StatusAfter, CopiesSound, Alone, Bound,
     NoDuplicateCopy, Requested, Visible, Terminal, Absent, operationVars
<1>9. CASE PrepareTarget
  BY <1>9 DEF PrepareTarget, Goto, AfterPrepare, CopiesSound, Alone, Bound,
     NoDuplicateCopy, Requested, Visible, taskVars, operationVars
<1>10. CASE FindTargetItem
  BY <1>10, <1>0 DEF FindTargetItem, Conclude, CopiesSound, Alone, Bound,
     NoDuplicateCopy, Requested, Visible, ExecutionSound, Execution, Absent, taskVars
<1>11. CASE FindNothing
  BY <1>11, <1>0 DEF FindNothing, Goto, CopiesSound, Alone, Bound, NoDuplicateCopy,
     Requested, Visible, ExecutionSound, Execution, Absent, taskVars
<1>12. CASE RecordWriteIntent
  BY <1>12 DEF RecordWriteIntent, CopiesSound, Alone, Bound, NoDuplicateCopy, Requested,
     taskVars
<1>13. CASE RecordWriteIntentFails
  BY <1>13, <1>0 DEF RecordWriteIntentFails, Strike, CopiesSound, Alone, Bound,
     NoDuplicateCopy, Requested, ExecutionSound, Execution, Absent, taskVars
<1>14. CASE SubmitCopy
  <2>1. AcceptCopy /\ pc' \in {"record", "token"} /\ (Resumable => pc' = "record")
    BY <1>14 DEF SubmitCopy
  <2>2. UNCHANGED <<taskStatus, operation, faults>>
    BY <1>14 DEF SubmitCopy, taskVars, operationVars
  <2>3. ASSUME faults'["crash"] + faults'["token"] = 0, Alone'
        PROVE NoDuplicateCopy' /\ Bound'
    BY <2>1, <2>2, <2>3, <1>14, FirstSubmission DEF Alone, Bound, SubmitCopy
  <2>4. QED
    BY <2>1, <2>3, DirectIsVisible, <1>0 DEF CopiesSound
<1>15. CASE SubmitAnswerLost
  <2>1. /\ AcceptCopy \/ UNCHANGED copies
        /\ pc = "submit" /\ pc' = "token"
        /\ run'.answer = IF Resumable THEN "uncertain" ELSE "retry"
    BY <1>15, <1>0 DEF SubmitAnswerLost, Conclude, Execution
  <2>2. UNCHANGED <<taskStatus, operation>> /\ faults'["crash"] = faults["crash"]
        /\ faults'["token"] = faults["token"]
    BY <1>15, <1>0 DEF SubmitAnswerLost, taskVars, operationVars, Strike, Faults
  <2>3. Bound'
    BY <2>1 DEF Bound
  <2>4. CASE UNCHANGED copies
    BY <2>1, <2>2, <2>3, <2>4 DEF CopiesSound, Alone, NoDuplicateCopy, Requested, Visible
  <2>5. CASE AcceptCopy
    <3>1. ASSUME faults'["crash"] + faults'["token"] = 0, Alone' PROVE NoDuplicateCopy'
      BY <2>1, <2>2, <2>5, <3>1, FirstSubmission DEF Alone
    <3>2. QED
      BY <2>1, <2>3, <2>5, <3>1, DirectIsVisible, <1>0 DEF CopiesSound
  <2>6. QED
    BY <2>1, <2>4, <2>5
<1>16. CASE RecordProviderOperation
  <2>1. /\ UNCHANGED <<copies, run, taskStatus, faults>>
        /\ pc = "record" /\ pc' = "query"
        /\ operation' = [operation EXCEPT ![run.task] = run.copy]
    BY <1>16 DEF RecordProviderOperation, Goto, taskVars
  <2>2. run.task \in Tasks /\ taskStatus[run.task] # Absent /\ run.copy # NoCopy
    BY <1>0, <2>1 DEF ExecutionSound, Execution, TypeOK, Requested, Absent, NoCopy, NoTask
  <2>3. Alone => operation'[1] # NoCopy
    BY <1>0, <2>1, <2>2 DEF Alone, TypeOK
  <2>4. QED
    BY <2>1, <2>3 DEF CopiesSound, Alone, Bound, NoDuplicateCopy, Requested, Visible
<1>17. CASE RecordProviderOperationFails
  BY <1>17 DEF RecordProviderOperationFails, Conclude, Strike, OperationUnstored,
     CopiesSound, Alone, Bound, NoDuplicateCopy, Visible, taskVars
<1>18. CASE QueryOperation
  BY <1>18 DEF QueryOperation, Conclude, CopiesSound, Alone, Bound, NoDuplicateCopy,
     Requested, Visible, taskVars, operationVars
<1>19. CASE ProviderRefuses
  BY <1>19 DEF ProviderRefuses, Conclude, CopiesSound, Alone, Bound, NoDuplicateCopy,
     Requested, Visible, taskVars, operationVars
<1>20. CASE ProviderUncertain
  BY <1>20 DEF ProviderUncertain, Conclude, Strike, CopiesSound, Alone, Bound,
     NoDuplicateCopy, Visible, taskVars
<1>21. CASE HandlerRaises
  BY <1>21 DEF HandlerRaises, Conclude, Strike, CopiesSound, Alone, Bound,
     NoDuplicateCopy, Visible, taskVars
<1>22. CASE LoadSource
  BY <1>22 DEF LoadSource, CopiesSound, Alone, Bound, NoDuplicateCopy, Requested,
     Visible, taskVars, operationVars
<1>23. CASE LoadSourceFails
  <2>1. /\ pc \in {"load", "succeeded", "saved"} /\ pc' \in {"settle", "finish"}
        /\ UNCHANGED <<taskStatus, operation, copies>>
        /\ faults'["crash"] = faults["crash"] /\ faults'["token"] = faults["token"]
    BY <1>23, <1>0 DEF LoadSourceFails, Conclude, taskVars, operationVars, Strike, Faults
  <2>2. QED
    BY <2>1 DEF CopiesSound, Alone, Bound, NoDuplicateCopy, Requested, Visible
<1>24. CASE MarkSaving
  BY <1>24 DEF MarkSaving, Goto, CopiesSound, Alone, Bound, NoDuplicateCopy, Requested,
     Visible, taskVars, operationVars
<1>25. CASE PersistProviderToken
  BY <1>25 DEF PersistProviderToken, Goto, AfterToken, CopiesSound, Alone, Bound,
     NoDuplicateCopy, Requested, Visible, taskVars, operationVars
<1>26. CASE PersistProviderTokenFails
  BY <1>26, <1>0 DEF PersistProviderTokenFails, AfterToken, Strike, Faults, CopiesSound,
     Visible
<1>27. CASE RecordProviderUncertain
  BY <1>27 DEF RecordProviderUncertain, Goto, CopiesSound, Alone, Bound,
     NoDuplicateCopy, Requested, Visible, taskVars
<1>28. CASE MarkFailure
  BY <1>28 DEF MarkFailure, Conclude, Disposition, CopiesSound, Alone, Bound,
     NoDuplicateCopy, Requested, Visible, taskVars, operationVars
<1>29. CASE RecordProviderSuccess
  BY <1>29 DEF RecordProviderSuccess, Goto, CopiesSound, Alone, Bound, NoDuplicateCopy,
     Requested, Visible, taskVars
<1>30. CASE MarkSuccess
  BY <1>30 DEF MarkSuccess, Conclude, CopiesSound, Alone, Bound, NoDuplicateCopy,
     Requested, Visible, taskVars, operationVars
<1>31. CASE SuccessNotPersisted
  <2>1. /\ pc \in {"load", "succeeded", "saved"} /\ pc' \in {"settle", "finish"}
        /\ UNCHANGED <<taskStatus, operation, copies>>
        /\ faults'["crash"] = faults["crash"] /\ faults'["token"] = faults["token"]
    BY <1>31, <1>0 DEF SuccessNotPersisted, Conclude, taskVars, operationVars, Strike,
       Faults
  <2>2. QED
    BY <2>1 DEF CopiesSound, Alone, Bound, NoDuplicateCopy, Requested, Visible
<1>32. CASE FinishRun
  BY <1>32, <1>0 DEF FinishRun, EndRun, StatusAfter, CopiesSound, Alone, Bound,
     NoDuplicateCopy, Requested, Visible, ExecutionSound, TypeOK, Execution, Terminal,
     Absent, operationVars
<1>33. QED
  BY <1>1, <1>2, <1>3, <1>4, <1>5, <1>6, <1>7, <1>8, <1>9, <1>10, <1>11, <1>12, <1>13,
     <1>14, <1>15, <1>16, <1>17, <1>18, <1>19, <1>20, <1>21, <1>22, <1>23, <1>24, <1>25,
     <1>26, <1>27, <1>28, <1>29, <1>30, <1>31, <1>32 DEF Next, Environment, Request,
     Worker, Queue, Drive, Handler

-------------------------------------------------------------------------------
(***************************************************************************)
(* Theorems.                                                               *)
(***************************************************************************)

\* Before the first scan nothing was asked for, answered or queued.
LEMMA InitialOutcomes == Init => OutcomeInvariant
<1> SUFFICES ASSUME Init PROVE OutcomeInvariant
  OBVIOUS
<1>1. AnswerSound
  BY DEF Init, AnswerSound
<1>2. run.tokenKept /\ \A t \in Tasks : operationStatus[t] # "uncertain"
  BY DEF Init, NoExecution
<1>3. DoubtSound
  BY <1>2 DEF DoubtSound
<1>4. FilesSound
  BY DEF Init, FilesSound, Unsettled, Absent
<1>5. /\ \A k \in DOMAIN copies : copies[k].version = 0 /\ copies[k].done
      /\ \A j, k \in DOMAIN copies : j = k
  BY DEF Init
<1>6. CopiesSound
  BY <1>5 DEF Init, CopiesSound, NoDuplicateCopy, Requested, Visible
<1>7. QED
  BY <1>1, <1>3, <1>4, <1>6 DEF OutcomeInvariant

\* A step of no action keeps the invariant.
LEMMA StutterOutcomes ==
  ASSUME OutcomeInvariant, UNCHANGED vars
  PROVE  OutcomeInvariant'
<1>1. UNCHANGED <<taskStatus, retryCount, operation, operationStatus, fileStatus, copies, pc,
                  run, faults>>
  BY DEF vars, taskVars, operationVars, fileVars
<1>2. AnswerSound' /\ DoubtSound'
  BY <1>1 DEF OutcomeInvariant, AnswerSound, DoubtSound, Doubting, Inherited
<1>3. FilesSound'
  BY <1>1 DEF OutcomeInvariant, FilesSound, Ends, Active
<1>4. CopiesSound'
  BY <1>1
  DEF OutcomeInvariant, CopiesSound, Alone, Bound, NoDuplicateCopy, Requested, Visible
<1>5. QED
  BY <1>2, <1>3, <1>4 DEF OutcomeInvariant

\* What the handler leaves in the file, in the operation and on the drive agrees with
\* what the queue makes of the task, after any number of attempts and faults.
THEOREM OutcomeInvariantHolds == Spec => []OutcomeInvariant
<1>1. Init => OutcomeInvariant
  BY InitialOutcomes
<1>2. TransferInvariant /\ OutcomeInvariant /\ [Next]_vars => OutcomeInvariant'
  <2> SUFFICES ASSUME TransferInvariant, OutcomeInvariant, [Next]_vars
               PROVE  OutcomeInvariant'
    OBVIOUS
  <2>1. CASE Next
    <3>1. AnswerSound /\ DoubtSound /\ FilesSound /\ CopiesSound
      BY DEF OutcomeInvariant
    <3>2. AnswerSound' /\ DoubtSound' /\ FilesSound' /\ CopiesSound'
      BY <2>1, <3>1, AnswerPreserved, DoubtPreserved, FilesPreserved, CopiesPreserved
    <3>3. QED
      BY <3>2 DEF OutcomeInvariant
  <2>2. CASE UNCHANGED vars
    BY <2>2, StutterOutcomes
  <2>3. QED
    BY <2>1, <2>2
<1>3. QED
  BY <1>1, <1>2, TransferInvariantHolds, PTL DEF Spec

\* One task asks the drive for one copy, whatever answers and writes fail, unless the
\* Worker crashes or a rotated credential is lost (transfer_operation.py).
THEOREM OneTaskAsksOnce == Spec => []OneTaskOneCopy
<1>1. OutcomeInvariant => OneTaskOneCopy
  BY DEF OutcomeInvariant, CopiesSound, OneTaskOneCopy, Alone
<1>2. QED
  BY <1>1, OutcomeInvariantHolds, PTL

\* A write in doubt is not repeated automatically (ADR-0003), with the exceptions that
\* the property names.
THEOREM DoubtsEndRetries == Spec => []DoubtEndsRetries
<1>1. TransferInvariant /\ OutcomeInvariant => DoubtEndsRetries
  <2> SUFFICES ASSUME TransferInvariant, OutcomeInvariant,
                      faults["crash"] + faults["token"] = 0,
                      NEW t \in Tasks, taskStatus[t] = "retry",
                      operationStatus[t] = "uncertain"
               PROVE  t > 1 /\ operationStatus[t - 1] = "uncertain"
    BY DEF DoubtEndsRetries
  <2>1. QED
    BY DEF TransferInvariant, ExecutionSound, OutcomeInvariant, DoubtSound, Doubting,
       Inherited
<1>2. QED
  BY <1>1, OutcomeInvariantHolds, TransferInvariantHolds, PTL

\* A file that waits or is being saved has a task that will settle it, unless the Worker
\* crashed or the database failed: _mark_failure predicts what finish_run decides.
THEOREM FilesAreNotLeft == Spec => []OnlyFaultsLeaveFiles
<1>1. OutcomeInvariant => OnlyFaultsLeaveFiles
  BY DEF OutcomeInvariant, FilesSound, Unsettled, OnlyFaultsLeaveFiles, NoFileLeftBehind
<1>2. QED
  BY <1>1, OutcomeInvariantHolds, PTL

\* A task becomes a success by the answer of its execution only.
LEMMA SuccessIsAnswered ==
  ASSUME TransferInvariant, Next,
         NEW t \in Tasks, taskStatus[t] # "success", taskStatus'[t] = "success"
  PROVE  FinishRun /\ run.answer = "success"
<1>0. TypeOK /\ ExecutionSound
  BY DEF TransferInvariant
<1>1. ASSUME NEW u \in Tasks, ScanRecordsFile(u) \/ EnqueueTransferRetry(u) PROVE FALSE
  BY <1>0, <1>1 DEF TypeOK, ScanRecordsFile, EnqueueTransferRetry, QueueTransfer, CreateTask
<1>2. ASSUME NEW u \in Tasks, ClaimTask(u) \/ RecoverExpiredLease(u) PROVE FALSE
  BY <1>0, <1>2 DEF TypeOK, ClaimTask, RecoverExpiredLease, EndRun, StatusAfter
<1>3. taskStatus' # taskStatus
  OBVIOUS
<1>4. ~(ScanRecordsBaseline \/ CredentialExpires \/ CredentialRenewed \/ Crash)
  BY <1>3 DEF ScanRecordsBaseline, CredentialExpires, CredentialRenewed, Crash, taskVars
<1>5. ~(\E k \in DOMAIN copies : CopyCompletes(k))
  BY <1>3 DEF CopyCompletes, taskVars
<1>6. ~Drive
  BY <1>3
  DEF Drive, PrepareTarget, FindTargetItem, FindNothing, RecordWriteIntent,
      RecordWriteIntentFails, SubmitCopy, SubmitAnswerLost, RecordProviderOperation,
      RecordProviderOperationFails, QueryOperation, ProviderRefuses, ProviderUncertain,
      taskVars
<1>7. ~Handler
  BY <1>3
  DEF Handler, HandlerRaises, LoadSource, LoadSourceFails, MarkSaving, PersistProviderToken,
      PersistProviderTokenFails, RecordProviderUncertain, MarkFailure,
      RecordProviderSuccess, MarkSuccess, SuccessNotPersisted, taskVars
<1>8. FinishRun
  BY <1>1, <1>2, <1>4, <1>5, <1>6, <1>7 DEF Next, Environment, Request, Worker, Queue
<1>9. run.answer = "success"
  BY <1>0, <1>8 DEF TypeOK, FinishRun, EndRun, StatusAfter
<1>10. QED
  BY <1>8, <1>9

\* No task succeeds before its file is saved, whatever fails in between.
THEOREM SuccessesAreSaved == Spec => SuccessIsSaved
<1> DEFINE Saves == \A t \in Tasks :
                      taskStatus[t] # "success" /\ taskStatus'[t] = "success"
                        => fileStatus = "saved"
<1>1. TransferInvariant /\ OutcomeInvariant /\ [Next]_vars => [Saves]_vars
  <2> SUFFICES ASSUME TransferInvariant, OutcomeInvariant, Next,
                      NEW t \in Tasks, taskStatus[t] # "success", taskStatus'[t] = "success"
               PROVE  fileStatus = "saved"
    OBVIOUS
  <2>1. FinishRun /\ run.answer = "success"
    BY SuccessIsAnswered
  <2>2. QED
    BY <2>1 DEF OutcomeInvariant, AnswerSound, FinishRun
<1>2. QED
  BY <1>1, OutcomeInvariantHolds, TransferInvariantHolds, PTL DEF Spec, SuccessIsSaved,
     Saves

-------------------------------------------------------------------------------
(*****************************************************************************)
(* Sequences of ids, which the table and the stack of a scan are made of.    *)
(* (The library states induction over sequences with an operator as its      *)
(* parameter; what follows needs none.)                                      *)
(*****************************************************************************)

\* A set of numbers has a least one.
LEMMA LeastNumber ==
  ASSUME NEW T, T \subseteq Nat, T # {}
  PROVE  \E x \in T : \A y \in T : x <= y
<1> DEFINE Less == {p \in Nat \X Nat : p[1] < p[2]}
<1>1. IsWellFoundedOn(Less, Nat)
  BY NatLessThanWellFounded DEF OpToRel
<1>2. PICK x \in T : \A y \in T : <<y, x>> \notin Less
  BY <1>1, WFMin
<1>3. ASSUME NEW y \in T, y < x PROVE <<y, x>> \in Less
  BY <1>3
<1>4. \A y \in T : ~(y < x)
  BY <1>2, <1>3, Zenon
<1>5. QED
  BY <1>4

\* What a sequence is a function of, and what its range is.
LEMMA SeqBasics ==
  ASSUME NEW T, NEW s \in Seq(T)
  PROVE  /\ Len(s) \in Nat /\ DOMAIN s = 1 .. Len(s) /\ \A i \in 1 .. Len(s) : s[i] \in T
         /\ s # << >> <=> Len(s) >= 1
         /\ ToSet(s) \subseteq T
         /\ \A i \in 1 .. Len(s) : s[i] \in ToSet(s)
BY DEF ToSet

\* A set put in some order gives each of its elements once.
LEMMA SetToSeqIs ==
  ASSUME NEW T, NEW S \in SUBSET T, IsFiniteSet(S)
  PROVE  /\ SetToSeq(S) \in Seq(T) /\ IsInjective(SetToSeq(S))
         /\ ToSet(SetToSeq(S)) = S
<1> DEFINE n == Cardinality(S)
           f == SetToSeq(S)
<1>1. n \in Nat /\ ExistsBijection(1 .. n, S)
  BY FS_CardinalityType
<1>2. PICK g \in [1 .. n -> S] : IsInjective(g)
  BY <1>1, Zenon DEF ExistsBijection, Bijection, Injection
<1>3. f \in [1 .. n -> S] /\ IsInjective(f)
  BY <1>2 DEF SetToSeq
<1>4. f \in Injection(1 .. n, S)
  BY <1>3 DEF Injection
<1>5. Cardinality(1 .. n) = n
  BY <1>1, FS_Interval
<1>6. f \in Surjection(1 .. n, S)
  BY <1>4, <1>5, FS_Injection
<1> HIDE DEF f
<1>7. \A x \in S : \E i \in 1 .. n : f[i] = x
  BY <1>6 DEF Surjection
<1>8. ToSet(f) = S
  BY <1>3, <1>7 DEF ToSet
<1>9. f \in Seq(T)
  BY <1>1, <1>3
<1>10. QED
  BY <1>3, <1>8, <1>9 DEF f

\* Sequences one after the other: no element twice if in neither, nor in both.
LEMMA ConcatInjective ==
  ASSUME NEW T, NEW s \in Seq(T), NEW t \in Seq(T)
  PROVE  /\ s \o t \in Seq(T)
         /\ ToSet(s \o t) = ToSet(s) \cup ToSet(t)
         /\ IsInjective(s \o t) <=> /\ IsInjective(s) /\ IsInjective(t)
                                    /\ ToSet(s) \cap ToSet(t) = {}
<1> DEFINE u == s \o t
           m == Len(s)
           n == Len(t)
<1>1. /\ u \in Seq(T) /\ Len(u) = m + n
      /\ \A i \in 1 .. m + n : u[i] = IF i <= m THEN s[i] ELSE t[i - m]
  BY ConcatProperties
<1>2. /\ m \in Nat /\ n \in Nat
      /\ DOMAIN u = 1 .. m + n /\ DOMAIN s = 1 .. m /\ DOMAIN t = 1 .. n
  BY <1>1
<1> HIDE DEF u, m, n
<1>3. \A i \in 1 .. m : i \in 1 .. m + n /\ u[i] = s[i]
  BY <1>1, <1>2
<1>4. \A i \in 1 .. n : i + m \in 1 .. m + n /\ u[i + m] = t[i]
  BY <1>1, <1>2
<1>5. ToSet(u) = ToSet(s) \cup ToSet(t)
  <2>1. ASSUME NEW x \in ToSet(u) PROVE x \in ToSet(s) \cup ToSet(t)
    <3>1. PICK i \in 1 .. m + n : u[i] = x
      BY <1>2 DEF ToSet
    <3>2. CASE i <= m
      <4>1. i \in 1 .. m /\ s[i] = x
        BY <1>1, <1>2, <3>1, <3>2
      <4>2. QED
        BY <1>2, <4>1 DEF ToSet
    <3>3. CASE ~(i <= m)
      <4>1. i - m \in 1 .. n /\ t[i - m] = x
        BY <1>1, <1>2, <3>1, <3>3
      <4>2. QED
        BY <1>2, <4>1 DEF ToSet
    <3>4. QED
      BY <3>2, <3>3
  <2>2. ToSet(s) \subseteq ToSet(u)
    BY <1>2, <1>3 DEF ToSet
  <2>3. ToSet(t) \subseteq ToSet(u)
    BY <1>2, <1>4 DEF ToSet
  <2>4. QED
    BY <2>1, <2>2, <2>3
<1>6. ASSUME IsInjective(u)
      PROVE  IsInjective(s) /\ IsInjective(t) /\ ToSet(s) \cap ToSet(t) = {}
  <2>1. \A i, k \in 1 .. m + n : u[i] = u[k] => i = k
    BY <1>2, <1>6 DEF IsInjective
  <2>2. \A i, k \in 1 .. m : s[i] = s[k] => i = k
    BY <1>3, <2>1
  <2>3. ASSUME NEW i \in 1 .. n, NEW k \in 1 .. n, t[i] = t[k] PROVE i = k
    <3>1. i + m = k + m
      BY <1>4, <2>1, <2>3
    <3>2. QED
      BY <1>2, <3>1
  <2>4. ASSUME NEW i \in 1 .. m, NEW k \in 1 .. n, s[i] = t[k] PROVE FALSE
    <3>1. i = k + m
      BY <1>3, <1>4, <2>1, <2>4
    <3>2. QED
      BY <1>2, <3>1
  <2>5. QED
    BY <1>2, <2>2, <2>3, <2>4 DEF IsInjective, ToSet
<1>7. ASSUME IsInjective(s), IsInjective(t), ToSet(s) \cap ToSet(t) = {}
      PROVE  IsInjective(u)
  <2>1. ASSUME NEW i \in 1 .. m + n, NEW k \in 1 .. m + n, u[i] = u[k] PROVE i = k
    <3>1. CASE i <= m /\ k <= m
      <4>1. i \in 1 .. m /\ k \in 1 .. m /\ s[i] = s[k]
        BY <1>1, <1>2, <2>1, <3>1
      <4>2. QED
        BY <1>2, <1>7, <4>1 DEF IsInjective
    <3>2. CASE ~(i <= m) /\ ~(k <= m)
      <4>1. i - m \in 1 .. n /\ k - m \in 1 .. n /\ t[i - m] = t[k - m]
        BY <1>1, <1>2, <2>1, <3>2
      <4>2. i - m = k - m
        BY <1>2, <1>7, <4>1 DEF IsInjective
      <4>3. QED
        BY <1>2, <4>2
    <3>3. ASSUME NEW a \in 1 .. m + n, NEW b \in 1 .. m + n, a <= m, ~(b <= m), u[a] = u[b]
          PROVE  FALSE
      <4>1. a \in 1 .. m /\ b - m \in 1 .. n /\ u[a] = s[a] /\ u[b] = t[b - m]
        BY <1>1, <1>2, <3>3
      <4>2. s[a] \in ToSet(s) /\ t[b - m] \in ToSet(t)
        BY <1>2, <4>1 DEF ToSet
      <4>3. QED
        BY <1>7, <3>3, <4>1, <4>2
    <3>4. QED
      BY <2>1, <3>1, <3>2, <3>3
  <2>2. QED
    BY <1>2, <2>1 DEF IsInjective
<1>8. QED
  BY <1>1, <1>5, <1>6, <1>7 DEF u

\* The place of the k-th element that is in a set (Place picks the first such).
LEMMA PlaceIs ==
  ASSUME NEW T, NEW s \in Seq(T), NEW S, NEW k \in 1 .. Cardinality({j \in DOMAIN s :
           s[j] \in S})
  PROVE  /\ Place(s, S, k) \in DOMAIN s /\ s[Place(s, S, k)] \in S
         /\ Cardinality({j \in 1 .. Place(s, S, k) : s[j] \in S}) = k
<1> DEFINE n == Len(s)
           U(i) == {j \in 1 .. i : s[j] \in S}
           M == {i \in 0 .. n : k <= Cardinality(U(i))}
<1>1. n \in Nat /\ DOMAIN s = 1 .. n
  BY SeqBasics
<1>2. \A i \in Nat : IsFiniteSet(U(i)) /\ Cardinality(U(i)) \in Nat
  <2>1. ASSUME NEW i \in Nat PROVE IsFiniteSet(U(i)) /\ Cardinality(U(i)) \in Nat
    <3>1. IsFiniteSet(1 .. i) /\ U(i) \in SUBSET (1 .. i)
      BY FS_Interval
    <3>2. IsFiniteSet(U(i))
      BY <3>1, FS_Subset
    <3>3. QED
      BY <3>2, FS_CardinalityType
  <2>2. QED
    BY <2>1
<1>3. U(0) = {} /\ Cardinality(U(0)) = 0
  <2>1. U(0) = {}
    OBVIOUS
  <2>2. QED
    BY <2>1, FS_EmptySet
<1>4. n \in M /\ 0 \notin M /\ M \subseteq Nat
  <2>1. U(n) = {j \in DOMAIN s : s[j] \in S}
    BY <1>1
  <2>4. Cardinality(U(n)) \in Nat
    BY <1>1, <1>2
  <2>5. k \in 1 .. Cardinality(U(n))
    BY <2>1, Zenon
  <2>2. k <= Cardinality(U(n)) /\ k >= 1 /\ k \in Nat
    <3> HIDE DEF U
    <3> QED
      BY <2>4, <2>5
  <2> HIDE DEF U
  <2>3. QED
    BY <1>1, <1>3, <2>2
<1>5. PICK i \in M : \A j \in M : i <= j
  BY <1>4, LeastNumber
<1>6. i \in 1 .. n /\ i - 1 \in 0 .. n /\ i - 1 \notin M
  <2>1. i \in 0 .. n /\ i # 0
    BY <1>4, <1>5
  <2>2. i \in 1 .. n /\ i - 1 \in 0 .. n /\ ~(i <= i - 1)
    BY <1>1, <2>1
  <2> HIDE DEF M
  <2>3. QED
    BY <1>5, <2>2
<1>7. U(i) = IF s[i] \in S THEN U(i - 1) \cup {i} ELSE U(i - 1)
  BY <1>6
<1>8. i \notin U(i - 1)
  BY <1>6
<1>9. Cardinality(U(i)) = IF s[i] \in S THEN Cardinality(U(i - 1)) + 1
                          ELSE Cardinality(U(i - 1))
  <2>1. IsFiniteSet(U(i - 1))
    BY <1>2, <1>6
  <2>2. Cardinality(U(i - 1) \cup {i}) = Cardinality(U(i - 1)) + 1
    BY <1>8, <2>1, FS_AddElement
  <2> HIDE DEF U
  <2>3. QED
    BY <1>7, <2>2
<1>10. Cardinality(U(i - 1)) < k /\ k <= Cardinality(U(i))
       /\ Cardinality(U(i - 1)) \in Nat /\ Cardinality(U(i)) \in Nat /\ k \in Nat
  <2>1. i \in Nat /\ i - 1 \in Nat /\ k \in Nat
    BY <1>6, <1>4, <1>1
  <2>2. Cardinality(U(i - 1)) \in Nat /\ Cardinality(U(i)) \in Nat
    BY <1>2, <2>1
  <2> HIDE DEF U
  <2>3. QED
    BY <1>5, <1>6, <2>1, <2>2
<1>11. s[i] \in S /\ Cardinality(U(i)) = k
  <2> HIDE DEF U
  <2> QED
    BY <1>9, <1>10
<1>12. \E x \in DOMAIN s : s[x] \in S /\ Cardinality({j \in 1 .. x : s[j] \in S}) = k
  BY <1>1, <1>6, <1>11
<1>13. QED
  BY <1>12 DEF Place

\* Rows that are dropped from the table leave the others, each once.
LEMMA OnlyIs ==
  ASSUME NEW T, NEW s \in Seq(T), NEW S
  PROVE  /\ Only(s, S) \in Seq(T) /\ ToSet(Only(s, S)) \subseteq ToSet(s) \cap S
         /\ IsInjective(s) => IsInjective(Only(s, S))
<1> DEFINE n == Cardinality({j \in DOMAIN s : s[j] \in S})
           t == Only(s, S)
<1>1. n \in Nat
  <2>1. IsFiniteSet(DOMAIN s)
    BY SeqBasics, FS_Interval
  <2>2. IsFiniteSet({j \in DOMAIN s : s[j] \in S})
    BY <2>1, FS_Subset
  <2>3. QED
    BY <2>2, FS_CardinalityType
<1>2. DOMAIN t = 1 .. n /\ \A k \in 1 .. n : t[k] = s[Place(s, S, k)]
  BY DEF Only
<1>3. ASSUME NEW k \in 1 .. n
      PROVE  /\ Place(s, S, k) \in DOMAIN s /\ s[Place(s, S, k)] \in S
             /\ Cardinality({j \in 1 .. Place(s, S, k) : s[j] \in S}) = k
  BY PlaceIs
<1> HIDE DEF n
<1>4. \A k \in 1 .. n : t[k] \in ToSet(s) \cap S
  BY <1>2, <1>3 DEF ToSet
<1>5. t = [k \in 1 .. n |-> s[Place(s, S, k)]]
  BY DEF Only, n
<1>6. t \in Seq(T)
  BY <1>1, <1>4, <1>5, SeqBasics
<1>7. ToSet(t) \subseteq ToSet(s) \cap S
  BY <1>2, <1>4 DEF ToSet
<1>8. ASSUME IsInjective(s), NEW k \in 1 .. n, NEW l \in 1 .. n, t[k] = t[l] PROVE k = l
  <2>1. Place(s, S, k) = Place(s, S, l)
    BY <1>2, <1>3, <1>8 DEF IsInjective
  <2>2. Cardinality({j \in 1 .. Place(s, S, k) : s[j] \in S}) = k
    BY <1>3
  <2>3. Cardinality({j \in 1 .. Place(s, S, l) : s[j] \in S}) = l
    BY <1>3
  <2>4. QED
    BY <2>1, <2>2, <2>3
<1>9. QED
  BY <1>2, <1>6, <1>7, <1>8 DEF IsInjective

\* A folder that is taken out of the table is no longer there.
LEMMA WithoutIs ==
  ASSUME NEW T, NEW s \in Seq(T), NEW d
  PROVE  /\ Without(s, d) \in Seq(T) /\ ToSet(Without(s, d)) \subseteq ToSet(s) \ {d}
         /\ IsInjective(s) => IsInjective(Without(s, d))
BY OnlyIs DEF Without

\* A folder that is put at the end of the table.
LEMMA OneEntry ==
  ASSUME NEW T, NEW s \in Seq(T), NEW d \in T
  PROVE  /\ Append(s, d) \in Seq(T) /\ ToSet(Append(s, d)) = ToSet(s) \cup {d}
         /\ IsInjective(s) /\ d \notin ToSet(s) => IsInjective(Append(s, d))
<1>1. <<d>> \in Seq(T) /\ Append(s, d) = s \o <<d>>
  OBVIOUS
<1>2. ToSet(<<d>>) = {d} /\ IsInjective(<<d>>)
  BY DEF ToSet, IsInjective
<1>3. /\ s \o <<d>> \in Seq(T)
      /\ ToSet(s \o <<d>>) = ToSet(s) \cup ToSet(<<d>>)
      /\ IsInjective(s \o <<d>>) <=> /\ IsInjective(s) /\ IsInjective(<<d>>)
                                      /\ ToSet(s) \cap ToSet(<<d>>) = {}
  BY <1>1, ConcatInjective
<1>4. QED
  BY <1>1, <1>2, <1>3

-------------------------------------------------------------------------------
(*****************************************************************************)
(* The scans of a subscription (Scan): an inductive invariant that says      *)
(* where every file that has not been touched is found, while the first      *)
(* scan goes on and afterwards.                                              *)
(*****************************************************************************)

\* A folder on the way down, with the folders below it that are still to be listed.
Frames == [folder : {Root} \cup Folders, todo : Seq(Folders)]
\* An execution.
Scans ==
  [pc : {"list", "descend", "prune", "finish"}, folder : {Root} \cup Folders, marker : {0, 1},
   given : SUBSET Items, children : Seq(Folders), stack : Seq(Frames), isFull : BOOLEAN,
   create : BOOLEAN, seen : SUBSET Folders]

\* The parts of the inductive invariant.  First: types; the share has no cycle.
ShareTyped ==
  /\ mode \in Modes /\ provider \in Providers
  /\ parent \in [Items -> {Root, Nowhere} \cup Folders] /\ Tree(parent)
  /\ content \in [Files -> Versions] /\ touched \subseteq Files

\* What is recorded and queued.
RecordsTyped ==
  /\ record \in [Files -> Versions \cup {Unknown}]
  /\ queued \subseteq Files \X Versions
  /\ first \in BOOLEAN /\ full \in BOOLEAN

\* The checkpoints: every folder once.
TableTyped ==
  /\ never \in Seq(Folders) /\ scanned \in Seq(Folders)
  /\ IsInjective(never \o scanned)

\* The execution: below the root there are only folders on its stack.
ScanOnCourse ==
  /\ scan \in {Idle} \cup Scans
  /\ scan.pc = "descend" => scan.stack # << >>
  /\ scan.pc = "list" /\ scan.stack # << >> => scan.folder \in Folders
  /\ scan # Idle => \A k \in DOMAIN scan.stack : k > 1 => scan.stack[k].folder \in Folders

\* The first scan is full, and the first scan of a subscription to future files, and only
\* this one, creates no transfers, however often it is started again.
FirstIsFull ==
  /\ first => ~full
  /\ scan # Idle => /\ first => scan.isFull
                    /\ scan.create <=> ~(first /\ mode = "future_only")

\* A file is still to come in a scan: in the folder it lists, below a folder it has listed
\* there, or below one that waits on its stack.
ToCome(f) ==
  \/ /\ scan.pc = "list"
     /\ \E i \in Children(scan.folder) :
          Under(f, i) /\ (i \notin scan.given \/ i \in ToSet(scan.children))
  \/ /\ scan.pc \in {"list", "descend"}
     /\ \E k \in DOMAIN scan.stack : \E d \in ToSet(scan.stack[k].todo) : Under(f, d)

\* What has been in the share all the time is recorded after the first scan; during it,
\* recorded or to come.  BaselineNotTransferred is not inductive without this.
BaselineKnown ==
  provider = "honest" /\ mode = "future_only" =>
    \A f \in Files \ touched : Exists[f] =>
      /\ ~first => record[f] = content[f]
      /\ first /\ scan # Idle => record[f] = content[f] \/ ToCome(f)

\* The inductive invariant of ScanSpec.
ScanIsSound ==
  /\ ShareTyped /\ RecordsTyped /\ TableTyped /\ ScanOnCourse
  /\ FirstIsFull /\ BaselineNotTransferred /\ BaselineKnown

-------------------------------------------------------------------------------
(*****************************************************************************)
(* The tree of the share.                                                    *)
(*****************************************************************************)

\* What of the share an item is under decides whether it is there.
Reached(p, i) ==
  \/ p[i] = Root
  \/ p[i] \in Folders /\ p[p[i]] = Root
  \/ p[i] \in Folders /\ p[p[i]] \in Folders /\ p[p[p[i]]] = Root

\* Folders are at most two deep, so that Exists, a recursive function, has a value: an
\* item is in the share when Root is reached from it in three steps.
LEMMA ExistsIs ==
  ASSUME NEW p \in [Items -> {Root, Nowhere} \cup Folders], Tree(p),
         NEW E, E = CHOOSE e : e = [i \in Items |-> p[i] = Root
           \/ (p[i] \in Folders /\ e[p[i]])]
  PROVE  /\ \A i \in Items : E[i] <=> Reached(p, i)
         /\ \A i \in Items : E[i] <=> \/ p[i] = Root
                                      \/ p[i] \in Folders /\ E[p[i]]
<1> DEFINE g == [i \in Items |-> Reached(p, i)]
           B(e) == [i \in Items |-> p[i] = Root \/ (p[i] \in Folders /\ e[p[i]])]
<1>1. Root \notin Folders /\ Nowhere \notin Folders /\ Folders \subseteq Items
  BY ScanAssumption DEF Items
<1>2. ASSUME NEW i \in Items
      PROVE  Reached(p, i) <=> (p[i] = Root \/ (p[i] \in Folders /\ g[p[i]]))
  <2>1. CASE p[i] \in Folders
    <3>1. g[p[i]] <=> Reached(p, p[i])
      BY <1>1, <2>1
    <3>2. p[p[i]] \in Folders => p[p[p[i]]] \in {Root, Nowhere}
      BY <2>1 DEF Tree
    <3>3. Reached(p, p[i]) <=> p[p[i]] = Root \/ (p[p[i]] \in Folders /\ p[p[p[i]]] = Root)
      BY <1>1, <3>2 DEF Reached
    <3>4. QED
      BY <1>1, <2>1, <3>1, <3>3 DEF Reached
  <2>2. CASE p[i] \notin Folders
    BY <2>2 DEF Reached
  <2>3. QED
    BY <2>1, <2>2
<1>3. g = B(g)
  <2>1. ASSUME NEW i \in Items
        PROVE  Reached(p, i) = (p[i] = Root \/ (p[i] \in Folders /\ g[p[i]]))
    <3>1. Reached(p, i) \in BOOLEAN
      BY DEF Reached
    <3>2. (p[i] = Root \/ (p[i] \in Folders /\ g[p[i]])) \in BOOLEAN
      OBVIOUS
    <3> HIDE DEF g
    <3>3. QED
      BY <1>2, <3>1, <3>2, Zenon
  <2>2. [i \in Items |-> Reached(p, i)] = [i \in Items |-> p[i] = Root
          \/ (p[i] \in Folders /\ g[p[i]])]
    <3> HIDE DEF g
    <3> QED
      BY <2>1, Zenon
  <2>3. QED
    BY <2>2, Zenon
<1>4. E = B(E)
  <2>1. \E e : e = B(e)
    BY <1>3
  <2>2. E = CHOOSE e : e = B(e)
    OBVIOUS
  <2> HIDE DEF B
  <2>3. QED
    BY <2>1, <2>2, Zenon
<1>5. \A i \in Items : E[i] = (p[i] = Root \/ (p[i] \in Folders /\ E[p[i]]))
  BY <1>4
<1>6. ASSUME NEW i \in Items, p[i] \in Folders => ~(p[p[i]] \in Folders)
      PROVE  E[i] <=> Reached(p, i)
  <2>1. p[i] \in Folders => (E[p[i]] <=> p[p[i]] = Root)
    BY <1>1, <1>5, <1>6
  <2>2. QED
    BY <1>5, <1>6, <2>1 DEF Reached
<1>7. \A d \in Folders : E[d] <=> Reached(p, d)
  <2>1. ASSUME NEW d \in Folders PROVE E[d] <=> Reached(p, d)
    <3>1. p[d] \in Folders => ~(p[p[d]] \in Folders)
      BY <1>1 DEF Tree
    <3>2. QED
      BY <1>1, <1>6, <3>1
  <2>2. QED
    BY <2>1
<1>8. ASSUME NEW i \in Items PROVE E[i] <=> Reached(p, i)
  <2>1. p[i] \in Folders => (E[p[i]] <=> g[p[i]])
    BY <1>1, <1>7
  <2>2. QED
    BY <1>2, <1>5, <2>1
<1>9. QED
  BY <1>5, <1>8

\* So it is with the share as it is ...
LEMMA ExistsNow ==
  ASSUME ShareTyped
  PROVE  /\ \A i \in Items : Exists[i] <=> Reached(parent, i)
         /\ \A i \in Items : Exists[i] <=> \/ parent[i] = Root
                                           \/ parent[i] \in Folders /\ Exists[parent[i]]
<1>1. parent \in [Items -> {Root, Nowhere} \cup Folders] /\ Tree(parent)
  BY DEF ShareTyped
<1>2. Exists = CHOOSE e : e = [i \in Items |-> parent[i] = Root
        \/ (parent[i] \in Folders /\ e[parent[i]])]
  BY Zenon DEF Exists
<1> HIDE DEF Exists
<1>3. QED
  BY <1>1, <1>2, ExistsIs

\* ... and after a step.
LEMMA ExistsNext ==
  ASSUME ShareTyped'
  PROVE  \A i \in Items : Exists'[i] <=> Reached(parent', i)
<1>1. parent' \in [Items -> {Root, Nowhere} \cup Folders] /\ Tree(parent')
  BY DEF ShareTyped
<1>2. Exists' = CHOOSE e : e = [i \in Items |-> parent'[i] = Root
        \/ (parent'[i] \in Folders /\ e[parent'[i]])]
  BY Zenon DEF Exists
<1>3. QED
  BY <1>1, <1>2, ExistsIs

\* All that is above a file of the share is in the share, and one of these is in Root.
LEMMA UnderIs ==
  ASSUME ShareTyped, NEW f \in Files, Exists[f]
  PROVE  /\ \A i \in Items : Under(f, i) => Exists[i] /\ (i = f \/ i \in Folders)
         /\ \E i \in Children(Root) : Under(f, i)
<1>1. parent \in [Items -> {Root, Nowhere} \cup Folders] /\ f \in Items
        /\ Folders \subseteq Items
      /\ Root \notin Items /\ Nowhere \notin Items
  BY ScanAssumption DEF ShareTyped, Items
<1>2. \A i \in Items : Exists[i] <=> \/ parent[i] = Root
                                     \/ parent[i] \in Folders /\ Exists[parent[i]]
  BY ExistsNow
<1>3. Reached(parent, f)
  BY <1>1, ExistsNow
<1>4. ASSUME NEW i \in Items, Under(f, i) PROVE Exists[i] /\ (i = f \/ i \in Folders)
  <2>1. CASE f = i
    BY <2>1
  <2>2. CASE parent[f] = i
    <3>1. i \in Folders
      BY <1>1, <2>2
    <3>2. QED
      BY <1>1, <1>2, <2>2, <3>1
  <2>3. CASE parent[f] \in Folders /\ parent[parent[f]] = i
    <3>1. i \in Folders
      BY <1>1, <2>3
    <3>2. Exists[parent[f]] /\ parent[f] \in Items
      BY <1>1, <1>2, <2>3
    <3>3. QED
      BY <1>1, <1>2, <2>3, <3>1, <3>2
  <2>4. QED
    BY <1>4, <2>1, <2>2, <2>3 DEF Under
<1>5. \E i \in Items : parent[i] = Root /\ Under(f, i)
  <2>1. CASE parent[f] = Root
    BY <1>1, <2>1 DEF Under
  <2>2. CASE parent[f] \in Folders /\ parent[parent[f]] = Root
    BY <1>1, <2>2 DEF Under
  <2>3. CASE parent[f] \in Folders /\ parent[parent[f]] \in Folders
             /\ parent[parent[parent[f]]] = Root
    BY <1>1, <2>3 DEF Under
  <2>4. QED
    BY <1>3, <2>1, <2>2, <2>3 DEF Reached
<1>6. QED
  BY <1>4, <1>5 DEF Children

\* Between a folder and a file below it there is a child of that folder.
LEMMA NextUnder ==
  ASSUME ShareTyped, NEW f \in Files, NEW h \in Folders, Under(f, h)
  PROVE  \E i \in Children(h) : Under(f, i)
<1>1. parent \in [Items -> {Root, Nowhere} \cup Folders] /\ f \in Items
        /\ Folders \subseteq Items /\ f # h
  BY ScanAssumption DEF ShareTyped, Items
<1>2. \E i \in Items : parent[i] = h /\ Under(f, i)
  <2>1. CASE parent[f] = h
    BY <1>1, <2>1 DEF Under
  <2>2. CASE parent[f] \in Folders /\ parent[parent[f]] = h
    BY <1>1, <2>2 DEF Under
  <2>3. QED
    BY <1>1, <2>1, <2>2 DEF Under
<1>3. QED
  BY <1>2 DEF Children

-------------------------------------------------------------------------------
(*****************************************************************************)
(* The steps, one by one.                                                    *)
(*****************************************************************************)

\* The subscription is made.
LEMMA StartIsSound ==
  ASSUME ScanInit PROVE ScanIsSound
<1>1. ShareTyped
  <2>1. parent \in [Items -> {Root, Nowhere} \cup Folders] /\ Tree(parent)
    BY ScanAssumption DEF ScanInit
  <2>2. (CHOOSE v \in Versions : TRUE) \in Versions
    BY ScanAssumption
  <2>3. QED
    BY <2>1, <2>2 DEF ScanInit, ShareTyped
<1>2. RecordsTyped
  BY DEF ScanInit, RecordsTyped
<1>3. TableTyped
  <2>1. << >> \in Seq(Folders) /\ << >> \o << >> = << >> /\ IsInjective(<< >>)
    BY DEF IsInjective
  <2>2. QED
    BY <2>1 DEF ScanInit, TableTyped
<1>4. ScanOnCourse
  BY DEF ScanInit, ScanOnCourse, Idle
<1>5. FirstIsFull /\ BaselineNotTransferred /\ BaselineKnown
  BY DEF ScanInit, FirstIsFull, BaselineNotTransferred, BaselineKnown
<1>6. QED
  BY <1>1, <1>2, <1>3, <1>4, <1>5 DEF ScanIsSound

\* Steps of other components change nothing.
LEMMA UnchangedScanIsSound ==
  ASSUME ScanIsSound, UNCHANGED scanVars PROVE ScanIsSound'
<1>1. UNCHANGED <<mode, provider, parent, content, touched, record, queued, never, scanned,
      first, full, scan>>
  BY DEF scanVars, share, database
<1>2. ShareTyped' /\ RecordsTyped' /\ TableTyped' /\ ScanOnCourse' /\ FirstIsFull'
        /\ BaselineNotTransferred'
  BY <1>1 DEF ScanIsSound, ShareTyped, RecordsTyped, TableTyped, ScanOnCourse, FirstIsFull,
              BaselineNotTransferred
<1>3. Exists' = Exists
  BY <1>1 DEF Exists
<1>4. \A f : ToCome(f)' <=> ToCome(f)
  BY <1>1 DEF ToCome, Children, Under
<1>5. BaselineKnown'
  BY <1>1, <1>3, <1>4 DEF ScanIsSound, BaselineKnown
<1>6. QED
  BY <1>2, <1>5 DEF ScanIsSound

\* The owner's change: an untouched file that is in the share then was there before, and
\* what was to come of it still is (ChangeShare).
LEMMA ChangeShareIsSound ==
  ASSUME ScanIsSound, ChangeShare PROVE ScanIsSound'
<1>1. ShareTyped /\ FirstIsFull /\ BaselineKnown /\ BaselineNotTransferred
  BY DEF ScanIsSound
<1>2. UNCHANGED <<mode, provider, record, queued, never, scanned, first, full, scan>>
  BY DEF ChangeShare, database
<1>3. ShareTyped'
  <2>1. CASE \E i \in Items, d \in {Root, Nowhere} \cup Folders :
               /\ parent' = [parent EXCEPT ![i] = d]
               /\ Tree(parent')
               /\ touched' = touched \cup {f \in Files : Under(f, i)}
               /\ UNCHANGED content
    BY <1>1, <1>2, <2>1 DEF ShareTyped
  <2>2. CASE \E f \in Files, v \in Versions :
               /\ content' = [content EXCEPT ![f] = v]
               /\ touched' = touched \cup {f}
               /\ UNCHANGED parent
    BY <1>1, <1>2, <2>2 DEF ShareTyped
  <2>3. QED
    BY <2>1, <2>2 DEF ChangeShare
<1>4. RecordsTyped' /\ TableTyped' /\ ScanOnCourse' /\ FirstIsFull'
  BY <1>2 DEF ScanIsSound, RecordsTyped, TableTyped, ScanOnCourse, FirstIsFull
<1>5. touched \subseteq touched'
  BY DEF ChangeShare
<1>6. BaselineNotTransferred'
  BY <1>1, <1>2, <1>5 DEF BaselineNotTransferred
<1>7. ASSUME NEW f \in Files \ touched', Exists'[f]
      PROVE  /\ f \notin touched /\ content'[f] = content[f] /\ Exists[f]
             /\ ToCome(f) => ToCome(f)'
  <2> DEFINE q == parent'
  <2>1. /\ parent \in [Items -> {Root, Nowhere} \cup Folders]
        /\ q \in [Items -> {Root, Nowhere} \cup Folders]
        /\ f \in Items /\ Folders \subseteq Items
    BY <1>1, <1>3 DEF ShareTyped, Items
  <2>2. f \notin touched
    BY <1>5, <1>7
  <2>3. CASE UNCHANGED parent /\ content'[f] = content[f]
    <3>1. Exists' = Exists
      BY <2>3 DEF Exists
    <3>2. ToCome(f)' <=> ToCome(f)
      BY <1>2, <2>3 DEF ToCome, Children, Under
    <3>3. QED
      BY <1>7, <2>2, <2>3, <3>1, <3>2
  <2>4. CASE \E i \in Items, d \in {Root, Nowhere} \cup Folders :
               /\ parent' = [parent EXCEPT ![i] = d]
               /\ touched' = touched \cup {g \in Files : Under(g, i)}
               /\ UNCHANGED content
    <3>1. PICK i \in Items, d \in {Root, Nowhere} \cup Folders :
               /\ parent' = [parent EXCEPT ![i] = d]
               /\ touched' = touched \cup {g \in Files : Under(g, i)}
               /\ UNCHANGED content
      BY <2>4
    <3>2. ~Under(f, i)
      BY <1>7, <3>1
    <3>3. \A j \in Items : j # i => q[j] = parent[j]
      BY <2>1, <3>1
    <3>4. /\ f # i /\ parent[f] # i
          /\ parent[f] \in Folders => parent[parent[f]] # i
      BY <3>2 DEF Under
    <3>5. /\ q[f] = parent[f]
          /\ parent[f] \in Folders => q[parent[f]] = parent[parent[f]]
          /\ parent[f] \in Folders /\ parent[parent[f]] \in Folders
               => q[parent[parent[f]]] = parent[parent[parent[f]]]
      BY <2>1, <3>3, <3>4
    <3> HIDE DEF q
    <3>6. Reached(q, f) <=> Reached(parent, f)
      BY <3>5 DEF Reached
    <3>7. Exists[f]
      BY <1>1, <1>3, <1>7, <2>1, <3>6, ExistsNow, ExistsNext DEF q
    <3>8. \A j \in Items : Under(f, j) => Under(f, j)' /\ q[j] = parent[j]
      <4>1. ASSUME NEW j \in Items, Under(f, j)
            PROVE  \/ f = j \/ q[f] = j
                   \/ q[f] \in Folders /\ q[q[f]] = j
        BY <3>5, <4>1 DEF Under
      <4>2. \A j \in Items : Under(f, j) => q[j] = parent[j]
        BY <2>1, <3>3, <3>4 DEF Under
      <4>3. QED
        BY <4>1, <4>2 DEF Under, q
    <3>9. ToCome(f) => ToCome(f)'
      <4>1. CASE /\ scan.pc = "list"
                 /\ \E j \in Children(scan.folder) :
                      Under(f, j) /\ (j \notin scan.given \/ j \in ToSet(scan.children))
        <5>1. PICK j \in Items : /\ parent[j] = scan.folder /\ Under(f, j)
                                 /\ (j \notin scan.given \/ j \in ToSet(scan.children))
          BY <4>1 DEF Children
        <5>2. j \in Children(scan.folder)' /\ Under(f, j)'
          BY <1>2, <3>8, <5>1 DEF Children, q
        <5>3. QED
          BY <1>2, <4>1, <5>1, <5>2 DEF ToCome
      <4>2. CASE /\ scan.pc \in {"list", "descend"}
                 /\ \E k \in DOMAIN scan.stack : \E h \in ToSet(scan.stack[k].todo) :
                      Under(f, h)
        <5>1. PICK k \in DOMAIN scan.stack : \E h \in ToSet(scan.stack[k].todo) : Under(f, h)
          BY <4>2
        <5>2. PICK h \in ToSet(scan.stack[k].todo) : Under(f, h)
          BY <5>1
        <5>3. Under(f, h)'
          BY <3>5, <5>2 DEF Under, q
        <5>4. QED
          BY <1>2, <4>2, <5>1, <5>2, <5>3 DEF ToCome
      <4>3. QED
        BY <4>1, <4>2 DEF ToCome
    <3>10. QED
      BY <2>2, <3>1, <3>7, <3>9
  <2>5. CASE \E g \in Files, v \in Versions :
               /\ content' = [content EXCEPT ![g] = v]
               /\ touched' = touched \cup {g}
               /\ UNCHANGED parent
    <3>1. content'[f] = content[f] /\ UNCHANGED parent
      BY <1>1, <1>7, <2>5 DEF ShareTyped
    <3>2. QED
      BY <2>3, <3>1
  <2>6. QED
    BY <2>4, <2>5 DEF ChangeShare
<1>8. BaselineKnown'
  <2>1. ASSUME provider = "honest", mode = "future_only", NEW f \in Files \ touched',
               Exists'[f]
        PROVE  /\ ~first => record[f] = content'[f]
               /\ first /\ scan # Idle => record[f] = content'[f] \/ ToCome(f)'
    BY <1>1, <1>7, <2>1 DEF BaselineKnown
  <2>2. QED
    BY <1>2, <2>1 DEF BaselineKnown
<1>9. QED
  BY <1>3, <1>4, <1>6, <1>8 DEF ScanIsSound

\* A step of the scan leaves the share alone, so that Exists, Under and Children stay.
LEMMA SameShareSound ==
  ASSUME ScanIsSound, UNCHANGED <<mode, provider, parent, content, touched>>
  PROVE  /\ ShareTyped' /\ Exists' = Exists
         /\ \A f, i : Under(f, i)' <=> Under(f, i)
         /\ \A d : Children(d)' = Children(d)
BY DEF ScanIsSound, ShareTyped, Exists, Under, Children

\* When the records stay, what was to come must: then BaselineKnown does, too.
LEMMA SameRecordsSound ==
  ASSUME ScanIsSound, UNCHANGED <<mode, provider, parent, content, touched, record, queued,
         first>>,
         \A f \in Files : provider = "honest" /\ mode = "future_only" /\ Exists[f]
                          /\ first /\ scan' # Idle
                          => scan # Idle /\ (ToCome(f) => ToCome(f)')
  PROVE  BaselineKnown' /\ BaselineNotTransferred'
<1>1. BaselineKnown /\ BaselineNotTransferred
  BY DEF ScanIsSound
<1>2. Exists' = Exists
  BY SameShareSound
<1>3. BaselineNotTransferred'
  BY <1>1 DEF BaselineNotTransferred
<1>4. BaselineKnown'
  BY <1>1, <1>2 DEF BaselineKnown
<1>5. QED
  BY <1>3, <1>4

\* A scan starts from the root, where every file of the share is to come (StartScan).
LEMMA StartScanIsSound ==
  ASSUME ScanIsSound, NEW wanted \in BOOLEAN, StartScan(wanted) PROVE ScanIsSound'
<1>1. ShareTyped /\ RecordsTyped /\ TableTyped /\ ScanOnCourse /\ FirstIsFull /\ BaselineKnown
      /\ BaselineNotTransferred
  BY DEF ScanIsSound
<1>2. /\ UNCHANGED <<mode, provider, parent, content, touched, record, queued, never,
         scanned, first, full>>
      /\ scan.pc = "idle" /\ (wanted \/ full)
      /\ scan' = [pc |-> "list", folder |-> Root, marker |-> 0, given |-> {},
                  children |-> << >>, stack |-> << >>, isFull |-> wanted,
                  create |-> ~(first /\ mode = "future_only"), seen |-> {}]
  BY DEF StartScan, share, database
<1>3. ShareTyped' /\ RecordsTyped' /\ TableTyped'
  BY <1>1, <1>2 DEF ShareTyped, RecordsTyped, TableTyped
<1>4. ScanOnCourse'
  <2>1. << >> \in Seq(Folders) /\ << >> \in Seq(Frames)
    OBVIOUS
  <2>2. scan' \in Scans
    BY <1>2, <2>1 DEF Scans
  <2>3. QED
    BY <1>2, <2>2 DEF ScanOnCourse
<1>5. FirstIsFull'
  BY <1>1, <1>2 DEF FirstIsFull
<1>6. scan' # Idle
  BY <1>2 DEF Idle
<1>7. BaselineNotTransferred'
  BY <1>1, <1>2 DEF BaselineNotTransferred
<1>8. /\ Exists' = Exists
      /\ \A f, i : Under(f, i)' <=> Under(f, i)
      /\ \A d : Children(d)' = Children(d)
  BY <1>2, SameShareSound
<1>9. ASSUME NEW f \in Files, Exists[f] PROVE ToCome(f)'
  <2>1. PICK i \in Children(Root) : Under(f, i)
    BY <1>1, <1>9, UnderIs
  <2>2. i \in Children(scan.folder)'
    BY <1>2, <2>1 DEF Children
  <2>4. Under(f, i)' /\ i \notin scan'.given /\ scan'.pc = "list"
    BY <1>2, <1>8, <2>1
  <2>3. QED
    BY <2>2, <2>4 DEF ToCome
<1>10. BaselineKnown'
  BY <1>1, <1>2, <1>8, <1>9 DEF BaselineKnown
<1>11. QED
  BY <1>3, <1>4, <1>5, <1>7, <1>10 DEF ScanIsSound

\* Checkpoints of folders that were not seen are dropped (Prune).
LEMMA PruneIsSound ==
  ASSUME ScanIsSound, Prune PROVE ScanIsSound'
<1>1. ShareTyped /\ RecordsTyped /\ TableTyped /\ ScanOnCourse /\ FirstIsFull
  BY DEF ScanIsSound
<1>2. /\ UNCHANGED <<mode, provider, parent, content, touched, record, queued, first, full>>
      /\ scan.pc = "prune" /\ scan' = [scan EXCEPT !.pc = "finish"]
  BY DEF Prune, share
<1>3. ShareTyped' /\ RecordsTyped'
  BY <1>1, <1>2 DEF ShareTyped, RecordsTyped
<1>4. TableTyped'
  <2> DEFINE S == {d \in Folders : ~NotSeen(d)}
  <2>1. never' = Only(never, S) /\ scanned' = Only(scanned, S)
    BY DEF Prune
  <2> HIDE DEF S
  <2>2. /\ never \in Seq(Folders) /\ scanned \in Seq(Folders)
        /\ IsInjective(never) /\ IsInjective(scanned) /\ ToSet(never) \cap ToSet(scanned) = {}
    BY <1>1, ConcatInjective DEF TableTyped
  <2>3. /\ never' \in Seq(Folders) /\ ToSet(never') \subseteq ToSet(never)
             /\ IsInjective(never')
    BY <2>1, <2>2, OnlyIs
  <2>4. /\ scanned' \in Seq(Folders) /\ ToSet(scanned') \subseteq ToSet(scanned)
             /\ IsInjective(scanned')
    BY <2>1, <2>2, OnlyIs
  <2>5. IsInjective(never' \o scanned')
    BY <2>2, <2>3, <2>4, ConcatInjective
  <2>6. QED
    BY <2>3, <2>4, <2>5 DEF TableTyped
<1>5. scan \in Scans
  BY <1>1, <1>2 DEF ScanOnCourse, Idle
<1>6. scan' \in Scans
  BY <1>2, <1>5 DEF Scans
<1>7. scan # Idle /\ scan' # Idle /\ scan'.pc = "finish" /\ scan'.isFull = scan.isFull
      /\ scan'.create = scan.create /\ scan'.stack = scan.stack
  BY <1>2, <1>5 DEF Scans, Idle
<1>8. ScanOnCourse'
  BY <1>1, <1>6, <1>7 DEF ScanOnCourse
<1>9. FirstIsFull'
  BY <1>1, <1>2, <1>7 DEF FirstIsFull
<1>10. \A f : ~ToCome(f)
  BY <1>2 DEF ToCome
<1>11. BaselineKnown' /\ BaselineNotTransferred'
  BY <1>2, <1>7, <1>10, SameRecordsSound
<1>12. QED
  BY <1>3, <1>4, <1>8, <1>9, <1>11 DEF ScanIsSound

\* An execution that is given up leaves what it has committed (GiveUp).
LEMMA GiveUpIsSound ==
  ASSUME ScanIsSound, GiveUp PROVE ScanIsSound'
<1>1. ShareTyped /\ RecordsTyped /\ TableTyped /\ FirstIsFull
  BY DEF ScanIsSound
<1>2. /\ UNCHANGED <<mode, provider, parent, content, touched, record, queued, never,
         scanned, first, full>>
      /\ scan' = Idle
  BY DEF GiveUp, share, database
<1>3. ShareTyped' /\ RecordsTyped' /\ TableTyped'
  BY <1>1, <1>2 DEF ShareTyped, RecordsTyped, TableTyped
<1>4. ScanOnCourse' /\ FirstIsFull'
  BY <1>1, <1>2 DEF ScanOnCourse, FirstIsFull, Idle
<1>5. BaselineKnown' /\ BaselineNotTransferred'
  BY <1>2, SameRecordsSound
<1>6. QED
  BY <1>3, <1>4, <1>5 DEF ScanIsSound

\* A scan that finishes has nothing to come: what was there is recorded (FinishScan).
LEMMA FinishScanIsSound ==
  ASSUME ScanIsSound, FinishScan PROVE ScanIsSound'
<1>1. ShareTyped /\ RecordsTyped /\ TableTyped /\ ScanOnCourse /\ FirstIsFull /\ BaselineKnown
      /\ BaselineNotTransferred
  BY DEF ScanIsSound
<1>2. /\ UNCHANGED <<mode, provider, parent, content, touched, record, queued, never,
         scanned>>
      /\ scan.pc = "finish" /\ scan' = Idle /\ first' = FALSE /\ full' = (full \/ scan.isFull)
  BY DEF FinishScan, share
<1>3. scan \in Scans /\ scan # Idle
  BY <1>1, <1>2 DEF ScanOnCourse, Idle
<1>4. ShareTyped' /\ TableTyped'
  BY <1>1, <1>2 DEF ShareTyped, TableTyped
<1>5. RecordsTyped'
  BY <1>1, <1>2 DEF RecordsTyped
<1>6. ScanOnCourse' /\ FirstIsFull'
  BY <1>1, <1>2 DEF ScanOnCourse, FirstIsFull, Idle
<1>7. BaselineNotTransferred'
  BY <1>1, <1>2 DEF BaselineNotTransferred
<1>8. Exists' = Exists
  BY <1>2, SameShareSound
<1>9. \A f : ~ToCome(f)
  BY <1>2 DEF ToCome
<1>10. first \in BOOLEAN
  BY <1>1 DEF RecordsTyped
<1>11. BaselineKnown'
  BY <1>1, <1>2, <1>3, <1>8, <1>9, <1>10 DEF BaselineKnown
<1>12. QED
  BY <1>4, <1>5, <1>6, <1>7, <1>11 DEF ScanIsSound

\* The frame on top of the stack, and those below it.
LEMMA StackIs ==
  ASSUME NEW T, NEW s \in Seq(T), s # << >>
  PROVE  /\ Front(s) \in Seq(T) /\ Last(s) \in T
         /\ Len(s) \in DOMAIN s /\ Last(s) = s[Len(s)]
         /\ DOMAIN Front(s) = 1 .. Len(s) - 1
         /\ \A k \in DOMAIN Front(s) : k \in DOMAIN s /\ Front(s)[k] = s[k]
         /\ \A k \in DOMAIN s : k \in DOMAIN Front(s) \/ k = Len(s)
<1>1. Len(s) \in Nat /\ Len(s) >= 1 /\ DOMAIN s = 1 .. Len(s)
  BY SeqBasics
<1>2. Front(s) = [i \in 1 .. Len(s) - 1 |-> s[i]]
  BY <1>1 DEF Front
<1>3. Last(s) = s[Len(s)]
  BY DEF Last
<1>4. QED
  BY <1>1, <1>2, <1>3

\* The first of the folders to come, and the others.
LEMMA HeadAndTail ==
  ASSUME NEW T, NEW s \in Seq(T), s # << >>
  PROVE  /\ Head(s) \in T /\ Tail(s) \in Seq(T)
         /\ \A x \in ToSet(s) : x = Head(s) \/ x \in ToSet(Tail(s))
<1>1. /\ Head(s) = s[1] /\ Tail(s) \in Seq(T) /\ Len(Tail(s)) = Len(s) - 1
      /\ \A i \in 1 .. Len(s) - 1 : Tail(s)[i] = s[i + 1]
      /\ Len(s) \in Nat /\ Len(s) >= 1 /\ DOMAIN s = 1 .. Len(s)
      /\ DOMAIN Tail(s) = 1 .. Len(s) - 1
  BY SeqBasics, HeadTailProperties
<1>2. ASSUME NEW x \in ToSet(s) PROVE x = Head(s) \/ x \in ToSet(Tail(s))
  <2>1. PICK i \in 1 .. Len(s) : s[i] = x
    BY <1>1 DEF ToSet
  <2>2. CASE i = 1
    BY <1>1, <2>1, <2>2
  <2>3. CASE i # 1
    <3>1. i - 1 \in 1 .. Len(s) - 1 /\ Tail(s)[i - 1] = x
      BY <1>1, <2>1, <2>3
    <3>2. QED
      BY <1>1, <3>1 DEF ToSet
  <2>4. QED
    BY <2>2, <2>3
<1>3. QED
  BY <1>1, <1>2

\* A frame that is put on the stack leaves those below it.
LEMMA AppendIs ==
  ASSUME NEW T, NEW s \in Seq(T), NEW x \in T
  PROVE  /\ Append(s, x) \in Seq(T) /\ Append(s, x) # << >>
         /\ Len(s) + 1 \in DOMAIN Append(s, x) /\ Append(s, x)[Len(s) + 1] = x
         /\ \A k \in DOMAIN s : k \in DOMAIN Append(s, x) /\ Append(s, x)[k] = s[k]
         /\ \A k \in DOMAIN Append(s, x) : k \in DOMAIN s \/ k = Len(s) + 1
<1>1. Len(s) \in Nat /\ DOMAIN s = 1 .. Len(s)
  BY SeqBasics
<1>2. QED
  BY <1>1, AppendProperties

\* Descent: a folder that is taken from its frame is listed at once, and one that is done
\* has nothing to come (_scan_folder_full).
LEMMA DescendIsSound ==
  ASSUME ScanIsSound, Descend PROVE ScanIsSound'
<1> DEFINE top == Last(scan.stack)
           rest == Front(scan.stack)
<1>1. ShareTyped /\ RecordsTyped /\ TableTyped /\ ScanOnCourse /\ FirstIsFull
  BY DEF ScanIsSound
<1>2. /\ UNCHANGED <<mode, provider, parent, content, touched, record, queued, first, full>>
      /\ scan.pc = "descend"
  BY DEF Descend, share
<1>3. scan \in Scans /\ scan # Idle /\ scan.stack \in Seq(Frames) /\ scan.stack # << >>
      /\ \A k \in DOMAIN scan.stack : k > 1 => scan.stack[k].folder \in Folders
  BY <1>1, <1>2 DEF ScanOnCourse, Idle, Scans
<1>4. /\ rest \in Seq(Frames) /\ top \in Frames
      /\ Len(scan.stack) \in DOMAIN scan.stack /\ top = scan.stack[Len(scan.stack)]
      /\ DOMAIN rest = 1 .. Len(scan.stack) - 1
      /\ \A k \in DOMAIN rest : k \in DOMAIN scan.stack /\ rest[k] = scan.stack[k]
      /\ \A k \in DOMAIN scan.stack : k \in DOMAIN rest \/ k = Len(scan.stack)
  BY <1>3, StackIs
<1>5. top.folder \in {Root} \cup Folders /\ top.todo \in Seq(Folders)
  BY <1>4 DEF Frames
<1>6. Len(scan.stack) \in Nat /\ DOMAIN scan.stack = 1 .. Len(scan.stack)
      /\ Len(rest) \in Nat /\ DOMAIN rest = 1 .. Len(rest) /\ (rest # << >> => Len(rest) >= 1)
      /\ Len(rest) = Len(scan.stack) - 1
  <2>1. Len(scan.stack) \in Nat /\ DOMAIN scan.stack = 1 .. Len(scan.stack)
          /\ Len(scan.stack) >= 1
    BY <1>3, SeqBasics
  <2>2. Len(rest) \in Nat /\ DOMAIN rest = 1 .. Len(rest) /\ (rest # << >> => Len(rest) >= 1)
    BY <1>4, SeqBasics
  <2>3. Len(rest) = Len(scan.stack) - 1
    BY <1>3 DEF Front
  <2>4. QED
    BY <2>1, <2>2, <2>3
<1>7. ShareTyped' /\ RecordsTyped'
  BY <1>1, <1>2 DEF ShareTyped, RecordsTyped
<1>8. \A f, i : Under(f, i)' <=> Under(f, i)
  BY <1>2, SameShareSound
<1>9. \A f : ToCome(f) => \E k \in DOMAIN scan.stack : \E d \in ToSet(scan.stack[k].todo) :
        Under(f, d)
  BY <1>2 DEF ToCome
<1>10. CASE /\ top.todo # << >>
            /\ scan' = List(Head(top.todo), Append(rest, [top EXCEPT !.todo = Tail(@)]))
            /\ UNCHANGED <<never, scanned>>
  <2> DEFINE new == [top EXCEPT !.todo = Tail(@)]
  <2>1. Head(top.todo) \in Folders /\ Tail(top.todo) \in Seq(Folders)
        /\ \A x \in ToSet(top.todo) : x = Head(top.todo) \/ x \in ToSet(Tail(top.todo))
    BY <1>5, <1>10, HeadAndTail
  <2>2. new \in Frames /\ new.folder = top.folder /\ new.todo = Tail(top.todo)
    BY <1>4, <2>1 DEF Frames
  <2> HIDE DEF new, top, rest
  <2>3. /\ Append(rest, new) \in Seq(Frames) /\ Append(rest, new) # << >>
        /\ Len(rest) + 1 \in DOMAIN Append(rest, new)
             /\ Append(rest, new)[Len(rest) + 1] = new
        /\ \A k \in DOMAIN rest : k \in DOMAIN Append(rest, new)
             /\ Append(rest, new)[k] = rest[k]
        /\ \A k \in DOMAIN Append(rest, new) : k \in DOMAIN rest \/ k = Len(rest) + 1
    BY <1>4, <2>2, AppendIs
  <2>4. scan' = [scan EXCEPT !.pc = "list", !.folder = Head(top.todo), !.marker = 0,
        !.given = {},
                             !.children = << >>, !.stack = Append(rest, new)]
    BY <1>10 DEF List, new
  <2>5. << >> \in Seq(Folders)
    OBVIOUS
  <2>6. scan' \in Scans
    BY <1>3, <2>1, <2>3, <2>4, <2>5 DEF Scans
  <2>7. /\ scan'.pc = "list" /\ scan'.folder = Head(top.todo) /\ scan'.given = {}
        /\ scan'.stack = Append(rest, new) /\ scan'.isFull = scan.isFull
             /\ scan'.create = scan.create
        /\ scan' # Idle
    BY <1>3, <2>4 DEF Scans, Idle
  <2>8. \A k \in DOMAIN scan'.stack : k > 1 => scan'.stack[k].folder \in Folders
    <3>1. ASSUME NEW k \in DOMAIN Append(rest, new), k > 1
          PROVE Append(rest, new)[k].folder \in Folders
      <4>1. CASE k \in DOMAIN rest
        BY <1>3, <1>4, <2>3, <3>1, <4>1
      <4>2. CASE k = Len(rest) + 1
        <5>1. k = Len(scan.stack) /\ k \in DOMAIN scan.stack
                /\ scan.stack[k].folder = top.folder
          BY <1>4, <1>6, <4>2
        <5>2. top.folder \in Folders
          BY <1>3, <3>1, <5>1
        <5>3. QED
          BY <2>2, <2>3, <4>2, <5>2
      <4>3. QED
        BY <2>3, <3>1, <4>1, <4>2
    <3>2. QED
      BY <2>7, <3>1
  <2>9. ScanOnCourse'
    BY <2>1, <2>6, <2>7, <2>8 DEF ScanOnCourse
  <2>10. TableTyped' /\ FirstIsFull'
    BY <1>1, <1>2, <1>3, <1>10, <2>7 DEF TableTyped, FirstIsFull
  <2>11. ASSUME NEW f \in Files, ToCome(f) PROVE ToCome(f)'
    <3>1. PICK k \in DOMAIN scan.stack : \E d \in ToSet(scan.stack[k].todo) : Under(f, d)
      BY <1>9, <2>11
    <3>2. PICK d \in ToSet(scan.stack[k].todo) : Under(f, d)
      BY <3>1
    <3>3. CASE k \in DOMAIN rest
      <4>1. k \in DOMAIN scan'.stack /\ d \in ToSet(scan'.stack[k].todo) /\ Under(f, d)'
        BY <1>4, <1>8, <2>3, <2>7, <3>2, <3>3
      <4>2. QED
        BY <2>7, <4>1 DEF ToCome
    <3>4. CASE k = Len(scan.stack)
      <4>1. d = Head(top.todo) \/ d \in ToSet(Tail(top.todo))
        BY <1>4, <2>1, <3>2, <3>4
      <4>2. CASE d = Head(top.todo)
        <5>1. PICK i \in Children(d) : Under(f, i)
          BY <1>1, <2>1, <3>2, <4>2, NextUnder
        <5>2. i \in Children(scan.folder)'
          BY <1>2, <2>7, <4>2, <5>1 DEF Children
        <5>3. Under(f, i)' /\ i \notin scan'.given /\ scan'.pc = "list"
          BY <1>8, <2>7, <5>1
        <5>4. QED
          BY <5>2, <5>3 DEF ToCome
      <4>3. CASE d \in ToSet(Tail(top.todo))
        <5>1. /\ Len(rest) + 1 \in DOMAIN scan'.stack
              /\ d \in ToSet(scan'.stack[Len(rest) + 1].todo) /\ Under(f, d)'
          BY <1>8, <2>2, <2>3, <2>7, <3>2, <4>3
        <5>2. QED
          BY <2>7, <5>1 DEF ToCome
      <4>4. QED
        BY <4>1, <4>2, <4>3
    <3>5. QED
      BY <1>4, <3>1, <3>3, <3>4
  <2>12. BaselineKnown' /\ BaselineNotTransferred'
    BY <1>2, <1>3, <2>11, SameRecordsSound
  <2>13. QED
    BY <1>7, <2>9, <2>10, <2>12 DEF ScanIsSound
<1>11. CASE /\ top.todo = << >> /\ rest # << >>
            /\ scan' = [scan EXCEPT !.stack = rest]
            /\ never' = Without(never, top.folder)
            /\ scanned' = Append(Without(scanned, top.folder), top.folder)
  <2> HIDE DEF top, rest
  <2>1. top.folder \in Folders
    BY <1>3, <1>4, <1>6, <1>11
  <2>2. scan' \in Scans
    BY <1>3, <1>4, <1>11 DEF Scans
  <2>3. /\ scan'.pc = "descend" /\ scan'.stack = rest /\ scan'.isFull = scan.isFull
        /\ scan'.create = scan.create /\ scan' # Idle
    BY <1>2, <1>3, <1>11 DEF Scans, Idle
  <2>4. ScanOnCourse'
    BY <1>3, <1>4, <1>11, <2>2, <2>3 DEF ScanOnCourse
  <2>5. FirstIsFull'
    BY <1>1, <1>2, <1>3, <2>3 DEF FirstIsFull
  <2>6. TableTyped'
    <3> DEFINE d == top.folder
               a == Without(never, d)
               b == Without(scanned, d)
    <3>1. /\ never \in Seq(Folders) /\ scanned \in Seq(Folders)
          /\ IsInjective(never) /\ IsInjective(scanned)
               /\ ToSet(never) \cap ToSet(scanned) = {}
      BY <1>1, ConcatInjective DEF TableTyped
    <3>2. a \in Seq(Folders) /\ ToSet(a) \subseteq ToSet(never) \ {d} /\ IsInjective(a)
      BY <3>1, WithoutIs
    <3>3. b \in Seq(Folders) /\ ToSet(b) \subseteq ToSet(scanned) \ {d} /\ IsInjective(b)
      BY <3>1, WithoutIs
    <3> HIDE DEF a, b
    <3>4. d \in Folders /\ d \notin ToSet(b)
      BY <2>1, <3>3
    <3>5. /\ Append(b, d) \in Seq(Folders) /\ ToSet(Append(b, d)) = ToSet(b) \cup {d}
          /\ IsInjective(Append(b, d))
      BY <3>3, <3>4, OneEntry
    <3>6. ToSet(a) \cap ToSet(Append(b, d)) = {}
      BY <3>1, <3>2, <3>3, <3>5
    <3>7. IsInjective(a \o Append(b, d))
      BY <3>2, <3>5, <3>6, ConcatInjective
    <3>8. never' = a /\ scanned' = Append(b, d)
      BY <1>11 DEF a, b
    <3>9. QED
      BY <3>2, <3>5, <3>7, <3>8 DEF TableTyped
  <2>7. ASSUME NEW f \in Files, ToCome(f) PROVE ToCome(f)'
    <3>1. PICK k \in DOMAIN scan.stack : \E d \in ToSet(scan.stack[k].todo) : Under(f, d)
      BY <1>9, <2>7
    <3>2. PICK d \in ToSet(scan.stack[k].todo) : Under(f, d)
      BY <3>1
    <3>3. k \in DOMAIN rest
      <4>1. ToSet(<< >>) = {}
        BY DEF ToSet
      <4>2. QED
        BY <1>4, <1>11, <3>2, <4>1
    <3>4. k \in DOMAIN scan'.stack /\ d \in ToSet(scan'.stack[k].todo) /\ Under(f, d)'
      BY <1>4, <1>8, <2>3, <3>2, <3>3
    <3>5. QED
      BY <2>3, <3>4 DEF ToCome
  <2>8. BaselineKnown' /\ BaselineNotTransferred'
    BY <1>2, <1>3, <2>7, SameRecordsSound
  <2>9. QED
    BY <1>7, <2>4, <2>5, <2>6, <2>8 DEF ScanIsSound
<1>12. CASE /\ top.todo = << >> /\ rest = << >>
            /\ scan' = [scan EXCEPT !.stack = << >>, !.pc = IF scan.isFull THEN "prune"
                                                            ELSE "finish"]
            /\ UNCHANGED <<never, scanned>>
  <2> HIDE DEF top, rest
  <2>1. << >> \in Seq(Frames)
    OBVIOUS
  <2>2. scan' \in Scans
    BY <1>3, <1>12, <2>1 DEF Scans
  <2>3. /\ scan'.pc \in {"prune", "finish"} /\ scan'.stack = << >>
             /\ scan'.isFull = scan.isFull
        /\ scan'.create = scan.create /\ scan' # Idle
    BY <1>2, <1>3, <1>12 DEF Scans, Idle
  <2>4. ScanOnCourse'
    BY <2>2, <2>3 DEF ScanOnCourse
  <2>5. TableTyped' /\ FirstIsFull'
    BY <1>1, <1>2, <1>3, <1>12, <2>3 DEF TableTyped, FirstIsFull
  <2>6. \A f : ~ToCome(f)
    <3>1. ToSet(<< >>) = {}
      BY DEF ToSet
    <3>2. \A k \in DOMAIN scan.stack : scan.stack[k].todo = << >>
      BY <1>4, <1>6, <1>12
    <3>3. QED
      BY <1>9, <3>1, <3>2
  <2>7. BaselineKnown' /\ BaselineNotTransferred'
    BY <1>2, <1>3, <2>6, SameRecordsSound
  <2>8. QED
    BY <1>7, <2>4, <2>5, <2>7 DEF ScanIsSound
<1>13. QED
  BY <1>10, <1>11, <1>12 DEF Descend

\* A full scan goes on with all the folders it has listed (_scan_folder_batch).
LEMMA BelowIs ==
  ASSUME NEW c \in Seq(Folders), never' \in Seq(Folders), scanned \in Seq(Folders)
  PROVE  Below(c) \in Seq(Folders) /\ (scan.isFull => Below(c) = c)
<1>1. BatchOrder \in Seq(Folders)
  BY ConcatInjective DEF BatchOrder
<1>2. BatchSize \in Nat /\ Len(BatchOrder) \in Nat
  BY <1>1, ScanAssumption, SeqBasics
<1> DEFINE m == IF Len(BatchOrder) < BatchSize THEN Len(BatchOrder) ELSE BatchSize
<1>3. m \in 0 .. Len(BatchOrder)
  BY <1>2
<1>4. SubSeq(BatchOrder, 1, m) \in Seq(Folders)
  <2>1. \A i \in 1 .. m : BatchOrder[i] \in Folders
    BY <1>1, <1>2, <1>3, SeqBasics
  <2> HIDE DEF m
  <2>2. QED
    BY <1>1, <1>2, <1>3, <2>1, SubSeqProperties
<1>5. << >> \in Seq(Folders)
  OBVIOUS
<1>6. QED
  BY <1>4, <1>5 DEF Below

\* A folder has been listed: what was to come in its children is to come in its frame.
LEMMA ListedIsSound ==
  ASSUME ScanIsSound, scan.pc = "list", UNCHANGED <<mode, parent, scanned, first, full>>,
         never' \in Seq(Folders), NEW c \in Seq(Folders), NEW S \in SUBSET Folders,
         scan' = [Listed(c) EXCEPT !.seen = S]
  PROVE  /\ ScanOnCourse' /\ FirstIsFull' /\ scan' # Idle
         /\ \A f : (\E k \in DOMAIN scan.stack : \E d \in ToSet(scan.stack[k].todo) :
              Under(f, d))
                   => ToCome(f)'
         /\ first => \A f, i : i \in ToSet(c) /\ Under(f, i) => ToCome(f)'
<1> DEFINE new == [folder |-> scan.folder, todo |-> Below(c)]
<1>1. TableTyped /\ ScanOnCourse /\ FirstIsFull
  BY DEF ScanIsSound
<1>2. scan \in Scans /\ scan # Idle /\ scan.stack \in Seq(Frames)
  BY <1>1 DEF ScanOnCourse, Idle, Scans
<1>3. Below(c) \in Seq(Folders) /\ (scan.isFull => Below(c) = c)
  BY <1>1, BelowIs DEF TableTyped
<1>4. new \in Frames /\ new.todo = Below(c) /\ new.folder = scan.folder
  BY <1>2, <1>3 DEF Frames, Scans
<1>5. scan' = [[scan EXCEPT !.pc = "descend",
      !.stack = Append(scan.stack, new)] EXCEPT !.seen = S]
  BY <1>2 DEF Listed
<1> HIDE DEF new
<1>6. /\ Append(scan.stack, new) \in Seq(Frames) /\ Append(scan.stack, new) # << >>
      /\ Len(scan.stack) + 1 \in DOMAIN Append(scan.stack, new)
      /\ Append(scan.stack, new)[Len(scan.stack) + 1] = new
      /\ \A k \in DOMAIN scan.stack : /\ k \in DOMAIN Append(scan.stack, new)
                                      /\ Append(scan.stack, new)[k] = scan.stack[k]
      /\ \A k \in DOMAIN Append(scan.stack, new) : k \in DOMAIN scan.stack
           \/ k = Len(scan.stack) + 1
  BY <1>2, <1>4, AppendIs
<1>7. scan' \in Scans
  BY <1>2, <1>5, <1>6 DEF Scans
<1>8. /\ scan'.pc = "descend" /\ scan'.stack = Append(scan.stack, new)
           /\ scan'.isFull = scan.isFull
      /\ scan'.create = scan.create /\ scan' # Idle
  BY <1>2, <1>5 DEF Scans, Idle
<1>9. ASSUME NEW k \in DOMAIN scan'.stack, k > 1 PROVE scan'.stack[k].folder \in Folders
  <2>1. CASE k \in DOMAIN scan.stack
    BY <1>1, <1>2, <1>6, <1>8, <1>9, <2>1 DEF ScanOnCourse
  <2>2. CASE k = Len(scan.stack) + 1
    <3>1. Len(scan.stack) \in Nat /\ scan.stack # << >>
      BY <1>2, <1>9, <2>2, SeqBasics
    <3>2. scan.folder \in Folders
      BY <1>1, <3>1 DEF ScanOnCourse
    <3>3. QED
      BY <1>4, <1>6, <1>8, <2>2, <3>2
  <2>3. QED
    BY <1>6, <1>8, <1>9, <2>1, <2>2
<1>10. ScanOnCourse'
  BY <1>6, <1>7, <1>8, <1>9 DEF ScanOnCourse
<1>11. FirstIsFull'
  BY <1>1, <1>2, <1>8 DEF FirstIsFull
<1>12. \A f, i : Under(f, i)' <=> Under(f, i)
  BY DEF Under
<1>13. ASSUME NEW f, NEW k \in DOMAIN scan.stack, NEW d \in ToSet(scan.stack[k].todo),
              Under(f, d)
       PROVE  ToCome(f)'
  <2>1. k \in DOMAIN scan'.stack /\ d \in ToSet(scan'.stack[k].todo) /\ Under(f, d)'
    BY <1>6, <1>8, <1>12, <1>13
  <2>2. QED
    BY <1>8, <2>1 DEF ToCome
<1>14. ASSUME first, NEW f, NEW i \in ToSet(c), Under(f, i) PROVE ToCome(f)'
  <2>1. scan.isFull
    BY <1>1, <1>2, <1>14 DEF FirstIsFull
  <2>2. /\ Len(scan.stack) + 1 \in DOMAIN scan'.stack
        /\ i \in ToSet(scan'.stack[Len(scan.stack) + 1].todo) /\ Under(f, i)'
    BY <1>3, <1>4, <1>6, <1>8, <1>12, <1>14, <2>1
  <2>3. QED
    BY <1>8, <2>2 DEF ToCome
<1>15. QED
  BY <1>8, <1>10, <1>11, <1>13, <1>14

\* What a page records: each file with its fingerprint, each folder once, and a transfer
\* of a file only when transfers are created (_record_item).
LEMMA RecordPageIsSound ==
  ASSUME ScanIsSound, NEW page, page.items \subseteq Items, RecordPage(page),
         UNCHANGED <<content, scanned, first, full>>
  PROVE  /\ RecordsTyped' /\ TableTyped'
         /\ \A f \in Files : record'[f] = IF f \in page.items THEN content[f] ELSE record[f]
         /\ \A k \in queued' : k \in queued
              \/ (/\ k[1] \in page.items \cap Files /\ scan.create
                                                /\ record[k[1]] # content[k[1]])
<1>1. ShareTyped /\ RecordsTyped /\ TableTyped
  BY DEF ScanIsSound
<1>2. /\ record' = [f \in Files |-> IF f \in page.items \cap Files THEN content[f]
                                    ELSE record[f]]
      /\ queued' = queued \cup {<<f, content[f]>> :
           f \in {g \in page.items \cap Files : scan.create /\ record[g] # content[g]}}
      /\ never' = never \o SetToSeq({d \in page.items \cap Folders : d \notin Checkpoints})
  BY DEF RecordPage, Known, Creates, NewOrChanged
<1>3. RecordsTyped'
  BY <1>1, <1>2 DEF RecordsTyped, ShareTyped
<1>4. TableTyped'
  <2> DEFINE F == {d \in page.items \cap Folders : d \notin Checkpoints}
             t == SetToSeq(F)
  <2>1. F \in SUBSET Folders /\ F \cap (ToSet(never) \cup ToSet(scanned)) = {}
    BY DEF Checkpoints
  <2>2. IsFiniteSet(F)
    <3>1. F \in SUBSET Items /\ IsFiniteSet(Items)
      BY ScanAssumption DEF Items
    <3>2. QED
      BY <3>1, FS_Subset
  <2> HIDE DEF F
  <2>3. t \in Seq(Folders) /\ IsInjective(t) /\ ToSet(t) = F
    BY <2>1, <2>2, SetToSeqIs
  <2> HIDE DEF t
  <2>4. /\ never \in Seq(Folders) /\ scanned \in Seq(Folders)
        /\ IsInjective(never) /\ IsInjective(scanned) /\ ToSet(never) \cap ToSet(scanned) = {}
    BY <1>1, ConcatInjective DEF TableTyped
  <2>5. /\ never \o t \in Seq(Folders) /\ ToSet(never \o t) = ToSet(never) \cup ToSet(t)
        /\ IsInjective(never \o t)
    <3>1. ToSet(never) \cap ToSet(t) = {}
      BY <2>1, <2>3
    <3>2. QED
      BY <2>3, <2>4, <3>1, ConcatInjective
  <2>6. ToSet(never \o t) \cap ToSet(scanned) = {}
    BY <2>1, <2>3, <2>4, <2>5
  <2>7. IsInjective((never \o t) \o scanned)
    BY <2>4, <2>5, <2>6, ConcatInjective
  <2>8. never' = never \o t
    BY <1>2 DEF F, t
  <2>9. QED
    BY <2>4, <2>5, <2>7, <2>8 DEF TableTyped
<1>5. \A f \in Files : record'[f] = IF f \in page.items THEN content[f] ELSE record[f]
  BY <1>2
<1>6. ASSUME NEW k \in queued', k \notin queued
      PROVE  k[1] \in page.items \cap Files /\ scan.create /\ record[k[1]] # content[k[1]]
  <2>1. PICK f \in page.items \cap Files : /\ scan.create /\ record[f] # content[f]
                                           /\ k = <<f, content[f]>>
    BY <1>2, <1>6
  <2>2. k[1] = f
    BY <2>1
  <2>3. QED
    BY <2>1, <2>2
<1>7. QED
  BY <1>3, <1>4, <1>5, <1>6

\* What an honest provider answers.
Honest(page) ==
  provider = "honest" =>
    /\ page.items \subseteq Children(scan.folder) \ scan.given
    /\ page.items # {} => Present(scan.folder)
    /\ (page.next = "none" \/ page.items = {}) /\ Present(scan.folder)
         => Children(scan.folder) \ scan.given \subseteq page.items

\* The items of a page are items of the share; an honest provider keeps to Honest.
LEMMA PageIs ==
  ASSUME NEW page \in Pages
  PROVE  page.items \subseteq Items /\ Honest(page)
<1> DEFINE all == IF Present(scan.folder) THEN Children(scan.folder) ELSE {}
           rest == all \ scan.given
<1>1. all \subseteq Items
  BY DEF Children
<1>2. CASE provider = "honest"
  <2>1. page \in {[items |-> s, next |-> IF s = rest THEN "none" ELSE "fresh"] :
                    s \in (SUBSET rest) \ (IF rest = {} THEN {} ELSE {{}})}
    BY <1>2 DEF Pages
  <2> HIDE DEF rest
  <2>2. PICK s \in (SUBSET rest) \ (IF rest = {} THEN {} ELSE {{}}) :
               page = [items |-> s, next |-> IF s = rest THEN "none" ELSE "fresh"]
    BY <2>1
  <2>3. page.items \subseteq rest /\ (page.next = "none" \/ page.items = {}
          => page.items = rest)
    <3>1. page.items = s
      BY <2>2
    <3>2. s \subseteq rest /\ (s = {} => rest = {})
      BY <2>2
    <3>3. s # rest => page.next = "fresh"
      BY <2>2
    <3>4. QED
      BY <3>1, <3>2, <3>3
  <2>4. page.items \subseteq Items
    BY <1>1, <2>3 DEF rest
  <2>5. Honest(page)
    BY <2>3 DEF rest, Honest
  <2>6. QED
    BY <2>4, <2>5
<1>3. CASE provider # "honest"
  <2>1. page.items \subseteq all
    BY <1>3 DEF Pages
  <2>2. QED
    BY <1>1, <1>3, <2>1 DEF Honest
<1>4. QED
  BY <1>2, <1>3

\* A page: an untouched file that was to come in this folder is on the page, is below one
\* of the folders on it, or still is to come (_scan_folder_contents).
LEMMA ListPageIsSound ==
  ASSUME ScanIsSound, ListPage PROVE ScanIsSound'
<1>1. ShareTyped /\ RecordsTyped /\ TableTyped /\ ScanOnCourse /\ FirstIsFull /\ BaselineKnown
      /\ BaselineNotTransferred
  BY DEF ScanIsSound
<1>2. /\ UNCHANGED <<mode, provider, parent, content, touched, scanned, first, full>>
      /\ scan.pc = "list"
  BY DEF ListPage, share
<1>3. scan \in Scans /\ scan # Idle /\ scan.children \in Seq(Folders)
      /\ scan.seen \in SUBSET Folders /\ scan.folder \in {Root} \cup Folders
  BY <1>1, <1>2 DEF ScanOnCourse, Idle, Scans
<1>4. PICK page \in Pages :
        IF page.items = {}
        THEN UNCHANGED <<record, queued, never>> /\ scan' = Listed(scan.children)
        ELSE IF Repeats(page)
        THEN UNCHANGED <<record, queued, never>> /\ scan' = Idle
        ELSE /\ RecordPage(page)
             /\ scan' = [IF page.next = "none"
                         THEN Listed(scan.children \o SetToSeq(page.items \cap Folders))
                         ELSE [scan EXCEPT !.marker = 1 - @, !.given = @ \cup page.items,
                                 !.children = scan.children \o SetToSeq(page.items \cap Folders)]
                         EXCEPT !.seen = scan.seen \cup (page.items \cap Folders)]
  BY Zenon DEF ListPage
<1>5. page.items \subseteq Items /\ Honest(page)
  BY PageIs
<1>6. ShareTyped' /\ Exists' = Exists
      /\ (\A f, i : Under(f, i)' <=> Under(f, i))
      /\ (\A d : Children(d)' = Children(d))
  BY <1>2, SameShareSound
<1>7. ASSUME NEW f \in Files, Exists[f], NEW i \in Children(scan.folder), Under(f, i)
      PROVE  Present(scan.folder) /\ (i = f \/ i \in Folders)
  <2>1. i \in Items /\ parent[i] = scan.folder
    BY DEF Children
  <2>2. Exists[i] /\ (i = f \/ i \in Folders)
    BY <1>1, <1>7, <2>1, UnderIs
  <2>3. Exists[i] <=> \/ parent[i] = Root
                      \/ parent[i] \in Folders /\ Exists[parent[i]]
    BY <1>1, <2>1, ExistsNow
  <2>4. QED
    BY <2>1, <2>2, <2>3 DEF Present
<1>8. CASE page.items = {}
  <2>1. UNCHANGED <<record, queued, never>> /\ scan' = Listed(scan.children)
    BY <1>4, <1>8
  <2>2. scan' = [Listed(scan.children) EXCEPT !.seen = scan.seen]
    BY <1>3, <2>1 DEF Listed, Scans
  <2>3. never' \in Seq(Folders)
    BY <1>1, <2>1 DEF TableTyped
  <2>4. /\ ScanOnCourse' /\ FirstIsFull' /\ scan' # Idle
        /\ \A f : (\E k \in DOMAIN scan.stack : \E d \in ToSet(scan.stack[k].todo) :
             Under(f, d))
                  => ToCome(f)'
        /\ first => \A f, i : i \in ToSet(scan.children) /\ Under(f, i) => ToCome(f)'
    BY <1>2, <1>3, <2>2, <2>3, ListedIsSound
  <2>5. RecordsTyped' /\ TableTyped'
    BY <1>1, <1>2, <2>1 DEF RecordsTyped, TableTyped
  <2>6. ASSUME NEW f \in Files, provider = "honest", mode = "future_only", Exists[f], first,
               ToCome(f)
        PROVE  ToCome(f)'
    <3>1. CASE \E i \in Children(scan.folder) :
                 Under(f, i) /\ (i \notin scan.given \/ i \in ToSet(scan.children))
      <4>1. PICK i \in Children(scan.folder) :
                 Under(f, i) /\ (i \notin scan.given \/ i \in ToSet(scan.children))
        BY <3>1
      <4>2. Present(scan.folder)
        BY <1>7, <2>6, <4>1
      <4>3. i \in scan.given
        BY <1>5, <1>8, <2>6, <4>1, <4>2 DEF Honest
      <4>4. QED
        BY <2>4, <2>6, <4>1, <4>3
    <3>2. CASE \E k \in DOMAIN scan.stack : \E d \in ToSet(scan.stack[k].todo) : Under(f, d)
      BY <2>4, <3>2
    <3>3. QED
      BY <2>6, <3>1, <3>2 DEF ToCome
  <2>7. BaselineKnown' /\ BaselineNotTransferred'
    BY <1>2, <1>3, <2>1, <2>6, SameRecordsSound
  <2>8. QED
    BY <1>6, <2>4, <2>5, <2>7 DEF ScanIsSound
<1>9. CASE page.items # {} /\ Repeats(page)
  <2>1. UNCHANGED <<record, queued, never>> /\ scan' = Idle
    BY <1>4, <1>9
  <2>2. RecordsTyped' /\ TableTyped'
    BY <1>1, <1>2, <2>1 DEF RecordsTyped, TableTyped
  <2>3. ScanOnCourse' /\ FirstIsFull'
    BY <1>1, <1>2, <2>1 DEF ScanOnCourse, FirstIsFull, Idle
  <2>4. BaselineKnown' /\ BaselineNotTransferred'
    BY <1>2, <2>1, SameRecordsSound
  <2>5. QED
    BY <1>6, <2>2, <2>3, <2>4 DEF ScanIsSound
<1>10. CASE page.items # {} /\ ~Repeats(page)
  <2> DEFINE t == SetToSeq(page.items \cap Folders)
             children == scan.children \o t
             seen == scan.seen \cup (page.items \cap Folders)
  <2>1. t \in Seq(Folders) /\ ToSet(t) = page.items \cap Folders
    <3>1. page.items \cap Folders \in SUBSET Items
            /\ page.items \cap Folders \in SUBSET Folders
      BY <1>5
    <3>2. IsFiniteSet(page.items \cap Folders)
      BY <3>1, ScanAssumption, FS_Subset
    <3>3. QED
      BY <3>1, <3>2, SetToSeqIs
  <2>2. /\ RecordPage(page)
        /\ scan' = [IF page.next = "none" THEN Listed(children)
                    ELSE [scan EXCEPT !.marker = 1 - @, !.given = @ \cup page.items,
                                      !.children = children]
                    EXCEPT !.seen = seen]
    BY <1>4, <1>10
  <2> HIDE DEF t
  <2>3. children \in Seq(Folders) /\ ToSet(children) = ToSet(scan.children) \cup (page.items \cap Folders)
        /\ seen \in SUBSET Folders
    BY <1>3, <2>1, ConcatInjective
  <2> HIDE DEF children, seen
  <2>4. /\ RecordsTyped' /\ TableTyped'
        /\ \A f \in Files : record'[f] = IF f \in page.items THEN content[f] ELSE record[f]
        /\ \A k \in queued' : k \in queued
             \/ (/\ k[1] \in page.items \cap Files /\ scan.create
                                               /\ record[k[1]] # content[k[1]])
    BY <1>2, <1>5, <2>2, RecordPageIsSound
  <2>5. BaselineNotTransferred'
    <3>1. ASSUME provider = "honest", mode = "future_only", NEW k \in queued',
                 k \notin queued,
                 k[1] \notin touched
          PROVE  FALSE
      <4>1. k[1] \in page.items \cap Files /\ scan.create /\ record[k[1]] # content[k[1]]
        BY <2>4, <3>1
      <4>2. k[1] \in Children(scan.folder) /\ Present(scan.folder)
        BY <1>5, <3>1, <4>1 DEF Honest
      <4>3. Exists[k[1]]
        <5>1. k[1] \in Items /\ parent[k[1]] = scan.folder
          BY <4>2 DEF Children
        <5>2. Exists[k[1]] <=> \/ parent[k[1]] = Root
                               \/ parent[k[1]] \in Folders /\ Exists[parent[k[1]]]
          BY <1>1, <5>1, ExistsNow
        <5>3. QED
          BY <1>3, <4>2, <5>1, <5>2 DEF Present
      <4>4. ~first
        BY <1>1, <1>3, <3>1, <4>1 DEF FirstIsFull
      <4>5. record[k[1]] = content[k[1]]
        BY <1>1, <3>1, <4>1, <4>3, <4>4 DEF BaselineKnown
      <4>6. QED
        BY <4>1, <4>5
    <3>2. QED
      BY <1>1, <1>2, <3>1 DEF BaselineNotTransferred
  <2>6. ASSUME ScanOnCourse', FirstIsFull', scan' # Idle,
               \A f \in Files : provider = "honest" /\ mode = "future_only" /\ Exists[f]
                 /\ first /\ ToCome(f)
                                => f \in page.items \/ ToCome(f)'
        PROVE  ScanIsSound'
    <3>1. ASSUME provider = "honest", mode = "future_only", NEW f \in Files \ touched,
                 Exists[f]
          PROVE  /\ ~first => record'[f] = content[f]
                 /\ first => record'[f] = content[f] \/ ToCome(f)'
      <4>1. /\ ~first => record[f] = content[f]
            /\ first => record[f] = content[f] \/ ToCome(f)
        BY <1>1, <1>3, <3>1 DEF BaselineKnown
      <4>2. QED
        BY <2>4, <2>6, <3>1, <4>1
    <3>2. BaselineKnown'
      BY <1>2, <1>6, <3>1 DEF BaselineKnown
    <3>3. QED
      BY <1>6, <2>4, <2>5, <2>6, <3>2 DEF ScanIsSound
  <2>7. CASE page.next = "none"
    <3>1. scan' = [Listed(children) EXCEPT !.seen = seen]
      BY <2>2, <2>7
    <3>2. never' \in Seq(Folders)
      BY <2>4 DEF TableTyped
    <3>3. /\ ScanOnCourse' /\ FirstIsFull' /\ scan' # Idle
          /\ \A f : (\E k \in DOMAIN scan.stack : \E d \in ToSet(scan.stack[k].todo) :
               Under(f, d))
                    => ToCome(f)'
          /\ first => \A f, i : i \in ToSet(children) /\ Under(f, i) => ToCome(f)'
      BY <1>2, <2>3, <3>1, <3>2, ListedIsSound
    <3>4. ASSUME NEW f \in Files, provider = "honest", mode = "future_only", Exists[f],
                 first, ToCome(f)
          PROVE  f \in page.items \/ ToCome(f)'
      <4>1. CASE \E i \in Children(scan.folder) :
                   Under(f, i) /\ (i \notin scan.given \/ i \in ToSet(scan.children))
        <5>1. PICK i \in Children(scan.folder) :
                   Under(f, i) /\ (i \notin scan.given \/ i \in ToSet(scan.children))
          BY <4>1
        <5>2. Present(scan.folder) /\ (i = f \/ i \in Folders)
          BY <1>7, <3>4, <5>1
        <5>3. i \in page.items \/ i \in ToSet(scan.children)
          BY <1>5, <2>7, <3>4, <5>1, <5>2 DEF Honest
        <5>4. i \in ToSet(children) \/ f \in page.items
          BY <2>3, <5>2, <5>3
        <5>5. QED
          BY <3>3, <3>4, <5>1, <5>4
      <4>2. CASE \E k \in DOMAIN scan.stack : \E d \in ToSet(scan.stack[k].todo) : Under(f, d)
        BY <3>3, <4>2
      <4>3. QED
        BY <3>4, <4>1, <4>2 DEF ToCome
    <3>5. QED
      BY <2>6, <3>3, <3>4
  <2>8. CASE page.next # "none"
    <3>1. scan' = [[scan EXCEPT !.marker = 1 - @, !.given = @ \cup page.items,
          !.children = children]
                   EXCEPT !.seen = seen]
      BY <2>2, <2>8
    <3>2. scan' \in Scans
      <4>1. 1 - scan.marker \in {0, 1} /\ scan.given \cup page.items \in SUBSET Items
        BY <1>3, <1>5 DEF Scans
      <4>2. scan' = [scan EXCEPT !.marker = 1 - scan.marker,
            !.given = scan.given \cup page.items,
                                 !.children = children, !.seen = seen]
        BY <1>3, <3>1 DEF Scans
      <4>3. QED
        BY <1>3, <2>3, <4>1, <4>2 DEF Scans
    <3>3. /\ scan'.pc = "list" /\ scan'.folder = scan.folder
               /\ scan'.given = scan.given \cup page.items
          /\ scan'.children = children /\ scan'.stack = scan.stack
               /\ scan'.isFull = scan.isFull
          /\ scan'.create = scan.create /\ scan' # Idle
      BY <1>2, <1>3, <3>1 DEF Scans, Idle
    <3>4. ScanOnCourse'
      BY <1>1, <1>2, <1>3, <3>2, <3>3 DEF ScanOnCourse
    <3>5. FirstIsFull'
      BY <1>1, <1>2, <1>3, <3>3 DEF FirstIsFull
    <3>6. ASSUME NEW f \in Files, provider = "honest", mode = "future_only", Exists[f],
                 first, ToCome(f)
          PROVE  f \in page.items \/ ToCome(f)'
      <4>1. CASE \E i \in Children(scan.folder) :
                   Under(f, i) /\ (i \notin scan.given \/ i \in ToSet(scan.children))
        <5>1. PICK i \in Children(scan.folder) :
                   Under(f, i) /\ (i \notin scan.given \/ i \in ToSet(scan.children))
          BY <4>1
        <5>2. i = f \/ i \in Folders
          BY <1>7, <3>6, <5>1
        <5>3. i \in Children(scan.folder)' /\ Under(f, i)'
          BY <1>2, <1>6, <3>3, <5>1 DEF Children
        <5>4. CASE i \in page.items /\ i = f
          BY <5>4
        <5>5. CASE i \notin page.items \/ i # f
          <6>1. i \notin scan'.given \/ i \in ToSet(scan'.children)
            BY <2>3, <3>3, <5>1, <5>2, <5>5
          <6>2. QED
            BY <3>3, <5>3, <6>1 DEF ToCome
        <5>6. QED
          BY <5>4, <5>5
      <4>2. CASE \E k \in DOMAIN scan.stack : \E d \in ToSet(scan.stack[k].todo) : Under(f, d)
        <5>1. PICK k \in DOMAIN scan.stack : \E d \in ToSet(scan.stack[k].todo) : Under(f, d)
          BY <4>2
        <5>2. PICK d \in ToSet(scan.stack[k].todo) : Under(f, d)
          BY <5>1
        <5>3. k \in DOMAIN scan'.stack /\ d \in ToSet(scan'.stack[k].todo) /\ Under(f, d)'
          BY <1>6, <3>3, <5>2
        <5>4. QED
          BY <3>3, <5>3 DEF ToCome
      <4>3. QED
        BY <3>6, <4>1, <4>2 DEF ToCome
    <3>7. QED
      BY <2>6, <3>3, <3>4, <3>5, <3>6
  <2>9. QED
    BY <2>7, <2>8
<1>11. QED
  BY <1>8, <1>9, <1>10

-------------------------------------------------------------------------------
(*****************************************************************************)
(* The theorems.                                                             *)
(*****************************************************************************)

\* Every step of the scans and of the share.
LEMMA ScanStep ==
  ASSUME ScanIsSound, [ScanNext]_scanVars PROVE ScanIsSound'
<1>1. CASE ChangeShare
  BY <1>1, ChangeShareIsSound
<1>2. CASE \E wanted \in BOOLEAN : StartScan(wanted)
  BY <1>2, StartScanIsSound
<1>3. CASE ListPage
  BY <1>3, ListPageIsSound
<1>4. CASE Descend
  BY <1>4, DescendIsSound
<1>5. CASE Prune
  BY <1>5, PruneIsSound
<1>6. CASE FinishScan
  BY <1>6, FinishScanIsSound
<1>7. CASE GiveUp
  BY <1>7, GiveUpIsSound
<1>8. CASE UNCHANGED scanVars
  BY <1>8, UnchangedScanIsSound
<1>9. QED
  BY <1>1, <1>2, <1>3, <1>4, <1>5, <1>6, <1>7, <1>8 DEF ScanNext, Execute

\* The inductive invariant holds, for any tree two folders deep, any number of files,
\* versions, changes, executions given up, and any size of the batch.
THEOREM ScanIsSoundHolds == ScanSpec => []ScanIsSound
<1>1. ScanInit => ScanIsSound
  BY StartIsSound
<1>2. ScanIsSound /\ [ScanNext]_scanVars => ScanIsSound'
  BY ScanStep
<1>3. QED
  BY <1>1, <1>2, PTL DEF ScanSpec

\* ScanInvariant: types, each checkpoint once, and of a subscription to future files no
\* transfer of what was in the share all the time (create_transfers of
\* execute_scan_domain), however many executions the first scan takes.
THEOREM ScanInvariantHolds == ScanSpec => []ScanInvariant
<1>1. ScanIsSound => ScanInvariant
  <2>1. ASSUME ScanIsSound PROVE ScanTyped
    <3>1. ShareTyped /\ RecordsTyped /\ TableTyped /\ ScanOnCourse
      BY <2>1 DEF ScanIsSound
    <3>2. Checkpoints \subseteq Folders
      BY <3>1, SeqBasics DEF TableTyped, Checkpoints
    <3>3. scan.pc \in {"idle", "list", "descend", "prune", "finish"}
      BY <3>1 DEF ScanOnCourse, Idle, Scans
    <3>4. QED
      BY <3>1, <3>2, <3>3 DEF ScanTyped, ShareTyped, RecordsTyped, TableTyped
  <2>2. QED
    BY <2>1 DEF ScanInvariant, ScanIsSound
<1>2. QED
  BY <1>1, ScanIsSoundHolds, PTL
===============================================================================
