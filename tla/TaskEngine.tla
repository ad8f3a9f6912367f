------------------------------ MODULE TaskEngine ------------------------------
(***************************************************************************)
(* The durable task queue of MediaSync and the Worker processes that       *)
(* execute it: repositories/tasks.py (the tasks and task_runs tables),     *)
(* task_engine/worker.py (one cycle of a Worker: recover expired leases,   *)
(* read the update gate, claim, heartbeat, execute, finish), and the       *)
(* commands the API gives the queue (enqueue, cancel, resume).             *)
(*                                                                         *)
(* Every action is one committed SQLite statement or SAVEPOINT block, or   *)
(* one step of a Worker between two of them; Workers, the API and the      *)
(* passage of time interleave freely.  The handler a Worker runs is the    *)
(* environment: it returns any outcome the registered handlers can return. *)
(***************************************************************************)
EXTENDS Naturals, Sequences, FiniteSets

CONSTANTS
  Tasks,             \* the rows the tasks table may come to hold
  Downloads,         \* those of type "download", the only type users cancel
  Priority,          \* Task.priority of each task
  Workers,           \* Worker processes
  MaxRetries,        \* Task.max_retries
  LeaseDuration,     \* lease_duration, in ticks
  MaxDisruptions,    \* bound: crashes, stalls and failing heartbeats
  MaxContinuations,  \* bound: deferred outcomes and resumed tasks
  NoClaim            \* no claimed execution

ASSUME TaskEngineAssumption ==
  /\ Downloads \subseteq Tasks
  /\ Priority \in [Tasks -> Nat]
  /\ MaxRetries \in Nat
  /\ LeaseDuration \in Nat \ {0}
  /\ MaxDisruptions \in Nat
  /\ MaxContinuations \in Nat
  /\ NoClaim \notin [task : Tasks, token : Nat]

(***************************************************************************)
(* The persisted statuses and the policy of task_engine/transitions.py.    *)
(***************************************************************************)
TaskStatuses == {"pending", "running", "retry", "waiting_credential",
                 "cancel_requested", "success", "failed", "cancelled"}
TerminalStatuses == {"success", "failed", "cancelled"}
LeasedStatuses == {"running", "cancel_requested"}
QueueStatuses == {"pending", "retry"}
RunStatuses == {"running", "success", "failed", "blocked", "lost", "cancelled"}
Outcomes == {"success", "failed", "retry", "deferred", "waiting_credential",
             "cancelled"}

AllowedTransitions == [s \in TaskStatuses |->
  CASE s \in {"pending", "retry"}  -> {"running", "cancelled"}
    [] s = "running"               -> {"pending", "success", "failed", "retry",
                                       "waiting_credential", "cancel_requested"}
    [] s = "waiting_credential"    -> {"pending", "cancelled"}
    [] s = "cancel_requested"      -> {"cancel_requested", "cancelled", "success"}
    [] s \in TerminalStatuses      -> {}]

\* The run status a task status must be recorded with when its run ends.
TaskToRunStatus == [s \in TaskStatuses \ LeasedStatuses |->
  CASE s \in {"pending", "success"} -> "success"
    [] s \in {"failed", "retry"}    -> "failed"
    [] s = "waiting_credential"     -> "blocked"
    [] s = "cancelled"              -> "cancelled"]

Absent == "absent"    \* the row has not been inserted
NoToken == 0          \* lock_token IS NULL

Run == [token : Nat, status : RunStatuses]
Claim == [task : Tasks, token : Nat]
Lease == [task : Tasks, status : LeasedStatuses, token : Nat \ {NoToken}]
Result == [outcome : Outcomes \cup {"none"},
           from : TaskStatuses \cup {"none", Absent},
           to : TaskStatuses \cup {"none"}]
NoResult == [outcome |-> "none", from |-> "none", to |-> "none"]

VARIABLES
  (* The database *)
  status,         \* Task.status, or Absent
  token,          \* Task.lock_token, or NoToken; with it locked_by and locked_at
  lease,          \* ticks left until Task.lease_until
  due,            \* Task.next_attempt_at is NULL or has passed
  retryCount,     \* Task.retry_count
  runs,           \* the task's rows of task_runs, by run_number
  gateClosed,     \* what UpdateExecutionGate.evaluate would find
  (* The Worker processes *)
  pc,             \* where a Worker is in its cycle
  expiredLeases,  \* list_expired_leases, what is left of the snapshot
  age,            \* ticks since the cycle read its clock
  claim,          \* the claimed execution
  beat,           \* the heartbeat loop: running, ownership lost, or dead
  sawCancel,      \* the handler's probe has returned True
  result,         \* the outcome, and the update _finish derived from it
  (* The bounded environment *)
  disruptions,
  continuations

taskVars == <<status, token, lease, due, retryCount, runs>>
workerVars == <<pc, expiredLeases, age, claim, beat, sawCancel, result>>
budgetVars == <<disruptions, continuations>>
vars == <<taskVars, gateClosed, workerVars, budgetVars>>

Phases == {"idle", "recover", "claim", "execute", "finish", "write", "down"}

\* A Worker with a claim.
Working(w) == pc[w] \in {"execute", "finish", "write"}

DatabaseTypeOK ==
  /\ status \in [Tasks -> TaskStatuses \cup {Absent}]
  /\ token \in [Tasks -> Nat]
  /\ lease \in [Tasks -> 0 .. LeaseDuration]
  /\ due \in [Tasks -> BOOLEAN]
  /\ retryCount \in [Tasks -> Nat]
  /\ runs \in [Tasks -> Seq(Run)]
  /\ gateClosed \in BOOLEAN

WorkerTypeOK ==
  /\ pc \in [Workers -> Phases]
  /\ expiredLeases \in [Workers -> SUBSET Lease]
  /\ age \in [Workers -> 0 .. LeaseDuration]
  /\ claim \in [Workers -> Claim \cup {NoClaim}]
  /\ \A w \in Workers : Working(w) => claim[w] \in Claim
  /\ beat \in [Workers -> {"on", "lost", "dead"}]
  /\ sawCancel \in [Workers -> BOOLEAN]
  /\ result \in [Workers -> Result]
  /\ \A w \in Workers : pc[w] \in {"finish", "write"} => result[w].outcome \in Outcomes
  /\ \A w \in Workers : pc[w] = "write" => result[w].to \in TaskStatuses \ LeasedStatuses

TypeOK ==
  /\ DatabaseTypeOK
  /\ WorkerTypeOK
  /\ disruptions \in 0 .. MaxDisruptions
  /\ continuations \in 0 .. MaxContinuations

Init ==
  /\ status = [t \in Tasks |-> Absent]
  /\ token = [t \in Tasks |-> NoToken]
  /\ lease = [t \in Tasks |-> 0]
  /\ due = [t \in Tasks |-> TRUE]
  /\ retryCount = [t \in Tasks |-> 0]
  /\ runs = [t \in Tasks |-> << >>]
  /\ gateClosed = FALSE
  /\ pc = [w \in Workers |-> "idle"]
  /\ expiredLeases = [w \in Workers |-> {}]
  /\ age = [w \in Workers |-> 0]
  /\ claim = [w \in Workers |-> NoClaim]
  /\ beat = [w \in Workers |-> "on"]
  /\ sawCancel = [w \in Workers |-> FALSE]
  /\ result = [w \in Workers |-> NoResult]
  /\ disruptions = 0
  /\ continuations = 0

-------------------------------------------------------------------------------
(***************************************************************************)
(* Commands of the API, and the update gate.                               *)
(***************************************************************************)

\* create_task: a new row starts in pending, with next_attempt_at NULL.
CreateTask(t) ==
  /\ status[t] = Absent
  /\ status' = [status EXCEPT ![t] = "pending"]
  /\ UNCHANGED <<token, lease, due, retryCount, runs, gateClosed, workerVars, budgetVars>>

\* cancel_download of a task nobody executes: it is over at once.
CancelQueued(t) ==
  /\ t \in Downloads
  /\ status[t] \in {"pending", "retry", "waiting_credential"}
  /\ status' = [status EXCEPT ![t] = "cancelled"]
  /\ due' = [due EXCEPT ![t] = TRUE]
  /\ UNCHANGED <<token, lease, retryCount, runs, gateClosed, workerVars, budgetVars>>

\* cancel_download of a running task: the owner keeps its lease and is asked.
RequestCancel(t) ==
  /\ t \in Downloads
  /\ status[t] = "running"
  /\ status' = [status EXCEPT ![t] = "cancel_requested"]
  /\ UNCHANGED <<token, lease, due, retryCount, runs, gateClosed, workerVars, budgetVars>>

\* retry_download of a blocked download, after the user renewed the credential.
Resume(t) ==
  /\ t \in Downloads
  /\ status[t] = "waiting_credential"
  /\ continuations < MaxContinuations
  /\ status' = [status EXCEPT ![t] = "pending"]
  /\ continuations' = continuations + 1
  /\ UNCHANGED <<token, lease, due, retryCount, runs, gateClosed, workerVars, disruptions>>

\* An update operation enters or leaves the gated statuses.
SwitchGate ==
  /\ gateClosed' = ~gateClosed
  /\ UNCHANGED <<taskVars, workerVars, budgetVars>>

-------------------------------------------------------------------------------
(***************************************************************************)
(* A Worker's cycle up to the claim: _recover_and_claim.                   *)
(***************************************************************************)

Expired(t) == status[t] \in LeasedStatuses /\ token[t] # NoToken /\ lease[t] = 0

\* The clock is read once, and the expired leases are listed.
BeginCycle(w) ==
  /\ pc[w] = "idle"
  /\ pc' = [pc EXCEPT ![w] = "recover"]
  /\ expiredLeases' = [expiredLeases EXCEPT ![w] =
       {[task |-> t, status |-> status[t], token |-> token[t]] :
          t \in {u \in Tasks : Expired(u)}}]
  /\ age' = [age EXCEPT ![w] = 0]
  /\ UNCHANGED <<taskVars, gateClosed, claim, beat, sawCancel, result, budgetVars>>

StillExpired(l) ==
  /\ status[l.task] = l.status
  /\ token[l.task] = l.token
  /\ lease[l.task] = 0

\* What becomes of a task whose lease ran out.
RecoveredStatus(t) ==
  IF status[t] = "cancel_requested" THEN "cancel_requested"
  ELSE IF retryCount[t] + 1 > MaxRetries THEN "failed"
  ELSE "retry"

\* UPDATE task_runs ... WHERE status = 'running' AND lock_token = k.
CloseRun(rs, k, s) ==
  [n \in 1 .. Len(rs) |->
     IF rs[n].status = "running" /\ rs[n].token = k
     THEN [rs[n] EXCEPT !.status = s] ELSE rs[n]]

\* The four ownership columns are cleared.
ReleaseOwnership(t) ==
  /\ token' = [token EXCEPT ![t] = NoToken]
  /\ lease' = [lease EXCEPT ![t] = 0]

RecoverExpiredLease(w, l) ==
  /\ pc[w] = "recover"
  /\ l \in expiredLeases[w]
  /\ StillExpired(l)
  /\ status' = [status EXCEPT ![l.task] = RecoveredStatus(l.task)]
  /\ retryCount' = [retryCount EXCEPT ![l.task] = @ + 1]
  /\ due' = [due EXCEPT ![l.task] = RecoveredStatus(l.task) # "retry"]
  /\ ReleaseOwnership(l.task)
  /\ runs' = [runs EXCEPT ![l.task] = CloseRun(@, l.token, "lost")]
  /\ expiredLeases' = [expiredLeases EXCEPT ![w] = @ \ {l}]
  /\ UNCHANGED <<gateClosed, pc, age, claim, beat, sawCancel, result, budgetVars>>

\* recover_expired_lease returns None: someone else moved the task meanwhile.
SkipLease(w, l) ==
  /\ pc[w] = "recover"
  /\ l \in expiredLeases[w]
  /\ ~StillExpired(l)
  /\ expiredLeases' = [expiredLeases EXCEPT ![w] = @ \ {l}]
  /\ UNCHANGED <<taskVars, gateClosed, pc, age, claim, beat, sawCancel, result, budgetVars>>

\* Fault: the gate is read and not heeded.
EvaluateGateUnheeded(w) ==
  /\ pc[w] = "recover"
  /\ expiredLeases[w] = {}
  /\ pc' = [pc EXCEPT ![w] = "claim"]
  /\ UNCHANGED <<taskVars, gateClosed, expiredLeases, age, claim, beat, sawCancel,
                 result, budgetVars>>

\* The gate is read in a statement of its own, before the claim.
EvaluateGate(w) ==
  /\ pc[w] = "recover"
  /\ expiredLeases[w] = {}
  /\ pc' = [pc EXCEPT ![w] = IF gateClosed THEN "idle" ELSE "claim"]
  /\ UNCHANGED <<taskVars, gateClosed, expiredLeases, age, claim, beat, sawCancel,
                 result, budgetVars>>

\* Faults: ownership_is_clear is dropped; requested cancellations, or retries,
\* are not claimed.
ClaimableWhileOwned(t) ==
  \/ status[t] \in QueueStatuses /\ due[t]
  \/ status[t] = "cancel_requested"
ClaimableUnlessCancelled(t) ==
  token[t] = NoToken /\ status[t] \in QueueStatuses /\ due[t]
ClaimableUnlessRetry(t) ==
  /\ token[t] = NoToken
  /\ \/ status[t] = "pending" /\ due[t]
     \/ status[t] = "cancel_requested"

Claimable(t) ==
  /\ token[t] = NoToken
  /\ \/ status[t] \in QueueStatuses /\ due[t]
     \/ status[t] = "cancel_requested"

\* The candidate of the ORDER BY; the model leaves the order by time open.
NextInQueue(t) ==
  /\ Claimable(t)
  /\ \A u \in Tasks : Claimable(u) => Priority[u] <= Priority[t]

\* secrets.token_hex(32): a value no run of the task carries.
FreshToken(t) == Len(runs[t]) + 1

\* claim_next with create_run.  The lease counts from the cycle's own clock.
ClaimNext(w, t) ==
  /\ pc[w] = "claim"
  /\ NextInQueue(t)
  /\ status' = [status EXCEPT ![t] =
       IF @ = "cancel_requested" THEN "cancel_requested" ELSE "running"]
  /\ token' = [token EXCEPT ![t] = FreshToken(t)]
  /\ lease' = [lease EXCEPT ![t] = LeaseDuration - age[w]]
  /\ due' = [due EXCEPT ![t] = TRUE]
  /\ runs' = [runs EXCEPT ![t] = Append(@, [token |-> FreshToken(t), status |-> "running"])]
  /\ claim' = [claim EXCEPT ![w] = [task |-> t, token |-> FreshToken(t)]]
  /\ pc' = [pc EXCEPT ![w] = "execute"]
  /\ age' = [age EXCEPT ![w] = 0]
  /\ UNCHANGED <<retryCount, gateClosed, expiredLeases, beat, sawCancel, result, budgetVars>>

ClaimNothing(w) ==
  /\ pc[w] = "claim"
  /\ \A t \in Tasks : ~Claimable(t)
  /\ pc' = [pc EXCEPT ![w] = "idle"]
  /\ UNCHANGED <<taskVars, gateClosed, expiredLeases, age, claim, beat, sawCancel,
                 result, budgetVars>>

-------------------------------------------------------------------------------
(***************************************************************************)
(* Execution: the handler runs, the heartbeat loop renews the lease.       *)
(***************************************************************************)

\* The row still names this execution.
HoldsToken(w) == token[claim[w].task] = claim[w].token
OwnsLease(w) == HoldsToken(w) /\ lease[claim[w].task] > 0

Heartbeat(w) ==
  /\ pc[w] = "execute"
  /\ beat[w] = "on"
  /\ OwnsLease(w)
  /\ lease' = [lease EXCEPT ![claim[w].task] = LeaseDuration]
  /\ UNCHANGED <<status, token, due, retryCount, runs, gateClosed, workerVars, budgetVars>>

\* TaskOwnershipLostError: the loop ends, the handler is not interrupted.
HeartbeatLost(w) ==
  /\ pc[w] = "execute"
  /\ beat[w] = "on"
  /\ ~OwnsLease(w)
  /\ beat' = [beat EXCEPT ![w] = "lost"]
  /\ UNCHANGED <<taskVars, gateClosed, pc, expiredLeases, age, claim, sawCancel, result,
                 budgetVars>>

\* Any other exception (a locked database) ends the loop until it is awaited.
HeartbeatRaises(w) ==
  /\ pc[w] = "execute"
  /\ beat[w] = "on"
  /\ disruptions < MaxDisruptions
  /\ beat' = [beat EXCEPT ![w] = "dead"]
  /\ disruptions' = disruptions + 1
  /\ UNCHANGED <<taskVars, gateClosed, pc, expiredLeases, age, claim, sawCancel, result,
                 continuations>>

\* The cancellation probe returns True to the handler.
ObserveCancel(w) ==
  /\ pc[w] = "execute"
  /\ OwnsLease(w)
  /\ status[claim[w].task] = "cancel_requested"
  /\ sawCancel' = [sawCancel EXCEPT ![w] = TRUE]
  /\ UNCHANGED <<taskVars, gateClosed, pc, expiredLeases, age, claim, beat, result, budgetVars>>

\* The worker is done with its claim.
Forget(w, next) ==
  /\ pc' = [pc EXCEPT ![w] = next]
  /\ claim' = [claim EXCEPT ![w] = NoClaim]
  /\ beat' = [beat EXCEPT ![w] = "on"]
  /\ sawCancel' = [sawCancel EXCEPT ![w] = FALSE]
  /\ result' = [result EXCEPT ![w] = NoResult]
  /\ UNCHANGED <<expiredLeases, age>>

\* The handler returns, or raises (outcome failed); only a handler that saw
\* the cancellation returns cancelled, only downloads are deferred.
HandlerReturns(w, o) ==
  /\ pc[w] = "execute"
  /\ beat[w] = "on"
  /\ o = "cancelled" => sawCancel[w]
  /\ o = "deferred" => claim[w].task \in Downloads /\ continuations < MaxContinuations
  /\ pc' = [pc EXCEPT ![w] = "finish"]
  /\ result' = [result EXCEPT ![w].outcome = o]
  /\ continuations' = IF o = "deferred" THEN continuations + 1 ELSE continuations
  /\ UNCHANGED <<taskVars, gateClosed, expiredLeases, age, claim, beat, sawCancel, disruptions>>

\* The outcome of an execution whose heartbeat lost the task is discarded.
DiscardOutcome(w) ==
  /\ pc[w] = "execute"
  /\ beat[w] = "lost"
  /\ Forget(w, "idle")
  /\ UNCHANGED <<taskVars, gateClosed, budgetVars>>

\* Awaiting the dead heartbeat loop raises its exception out of run.
HeartbeatFailureEndsProcess(w) ==
  /\ pc[w] = "execute"
  /\ beat[w] = "dead"
  /\ Forget(w, "down")
  /\ UNCHANGED <<taskVars, gateClosed, budgetVars>>

-------------------------------------------------------------------------------
(***************************************************************************)
(* The end of an execution: _finish reads the row, then finish_run writes. *)
(***************************************************************************)

\* A cancelled download ends cancelled unless it had succeeded.
Reconciled(t, o) ==
  IF status[t] = "cancel_requested" /\ t \in Downloads /\ o # "success"
  THEN "cancelled" ELSE o

\* Fault: the retry is not counted before the comparison.
TargetStatusOffByOne(t, o) ==
  IF o = "deferred" THEN "pending"
  ELSE IF o = "retry" /\ retryCount[t] > MaxRetries THEN "failed"
  ELSE o

TargetStatus(t, o) ==
  IF o = "deferred" THEN "pending"
  ELSE IF o = "retry" /\ retryCount[t] + 1 > MaxRetries THEN "failed"
  ELSE o

\* InvalidTaskOutcomeError: nothing catches it.
InvalidOutcome(t, o) == status[t] = "cancel_requested" /\ o \notin {"success", "cancelled"}

ReadForFinish(w) ==
  LET t == claim[w].task
      o == Reconciled(t, result[w].outcome)
  IN
  /\ pc[w] = "finish"
  /\ IF ~HoldsToken(w) THEN Forget(w, "idle")
     ELSE IF InvalidOutcome(t, o) THEN Forget(w, "down")
     ELSE /\ pc' = [pc EXCEPT ![w] = "write"]
          /\ result' = [result EXCEPT ![w] =
               [outcome |-> o, from |-> status[t], to |-> TargetStatus(t, o)]]
          /\ UNCHANGED <<expiredLeases, age, claim, beat, sawCancel>>
  /\ UNCHANGED <<taskVars, gateClosed, budgetVars>>

\* Faults: the UPDATE forgets the token, the expected status, or the lease.
MayFinishAnyToken(w) ==
  lease[claim[w].task] > 0 /\ status[claim[w].task] = result[w].from
MayFinishAnyStatus(w) == OwnsLease(w)
MayFinishLate(w) == HoldsToken(w) /\ status[claim[w].task] = result[w].from

\* The WHERE clause of finish_run.
MayFinish(w) == OwnsLease(w) /\ status[claim[w].task] = result[w].from

FinishRun(w) ==
  LET t == claim[w].task
      to == result[w].to
  IN
  /\ pc[w] = "write"
  /\ MayFinish(w)
  /\ status' = [status EXCEPT ![t] = to]
  /\ retryCount' = [retryCount EXCEPT ![t] =
       IF result[w].outcome \in {"retry", "failed"} THEN @ + 1 ELSE @]
  /\ due' = [due EXCEPT ![t] = to \notin {"pending", "retry"}]
  /\ ReleaseOwnership(t)
  /\ runs' = [runs EXCEPT ![t] = CloseRun(@, claim[w].token, TaskToRunStatus[to])]
  /\ Forget(w, "idle")
  /\ UNCHANGED <<gateClosed, budgetVars>>

\* TaskOwnershipLostError: the cycle ends and nothing is written.
FinishRejected(w) ==
  /\ pc[w] = "write"
  /\ ~MayFinish(w)
  /\ Forget(w, "idle")
  /\ UNCHANGED <<taskVars, gateClosed, budgetVars>>

-------------------------------------------------------------------------------
(***************************************************************************)
(* Processes die and time passes.                                          *)
(***************************************************************************)

Crash(w) ==
  /\ pc[w] # "down"
  /\ disruptions < MaxDisruptions
  /\ disruptions' = disruptions + 1
  /\ pc' = [pc EXCEPT ![w] = "down"]
  /\ claim' = [claim EXCEPT ![w] = NoClaim]
  /\ beat' = [beat EXCEPT ![w] = "on"]
  /\ sawCancel' = [sawCancel EXCEPT ![w] = FALSE]
  /\ result' = [result EXCEPT ![w] = NoResult]
  /\ expiredLeases' = [expiredLeases EXCEPT ![w] = {}]
  /\ age' = [age EXCEPT ![w] = 0]
  /\ UNCHANGED <<taskVars, gateClosed, continuations>>

\* restart: unless-stopped; the new process has a new worker_id.
Restart(w) ==
  /\ pc[w] = "down"
  /\ pc' = [pc EXCEPT ![w] = "idle"]
  /\ UNCHANGED <<taskVars, gateClosed, expiredLeases, age, claim, beat, sawCancel, result,
                 budgetVars>>

\* next_attempt_at passes.
BecomeDue(t) ==
  /\ ~due[t]
  /\ due' = [due EXCEPT ![t] = TRUE]
  /\ UNCHANGED <<status, token, lease, retryCount, runs, gateClosed, workerVars, budgetVars>>

BeforeClaim(w) == pc[w] \in {"recover", "claim"}

\* One more tick would take the lease from a Worker that is still at work.
Overdue(w) ==
  \/ Working(w) /\ HoldsToken(w) /\ lease[claim[w].task] = 1
  \/ BeforeClaim(w) /\ age[w] = LeaseDuration - 1

TimePasses ==
  /\ lease' = [t \in Tasks |-> IF lease[t] > 0 THEN lease[t] - 1 ELSE 0]
  /\ age' = [w \in Workers |->
       IF BeforeClaim(w) /\ age[w] < LeaseDuration THEN age[w] + 1 ELSE age[w]]
  /\ UNCHANGED <<status, token, due, retryCount, runs, gateClosed, pc, expiredLeases,
                 claim, beat, sawCancel, result, continuations>>

Tick ==
  /\ \A w \in Workers : ~Overdue(w)
  /\ TimePasses
  /\ UNCHANGED disruptions

\* A suspended host, a blocked event loop or a long wait for the database.
Stall ==
  /\ \E w \in Workers : Overdue(w)
  /\ disruptions < MaxDisruptions
  /\ TimePasses
  /\ disruptions' = disruptions + 1

-------------------------------------------------------------------------------
(***************************************************************************)
(* The specification.                                                      *)
(***************************************************************************)

\* The steps a Worker takes by itself, one enabled at a time.
Cycle(w) ==
  \/ BeginCycle(w)
  \/ \E l \in expiredLeases[w] : RecoverExpiredLease(w, l) \/ SkipLease(w, l)
  \/ EvaluateGate(w)
  \/ \E t \in Tasks : ClaimNext(w, t)
  \/ ClaimNothing(w)
  \/ DiscardOutcome(w)
  \/ HeartbeatFailureEndsProcess(w)
  \/ ReadForFinish(w)
  \/ FinishRun(w)
  \/ FinishRejected(w)

Return(w) == \E o \in Outcomes : HandlerReturns(w, o)

Command(t) == CreateTask(t) \/ CancelQueued(t) \/ RequestCancel(t) \/ Resume(t)

Next ==
  \/ \E t \in Tasks : Command(t) \/ BecomeDue(t)
  \/ SwitchGate
  \/ \E w \in Workers :
       \/ Cycle(w)
       \/ Return(w)
       \/ Heartbeat(w)
       \/ HeartbeatLost(w)
       \/ HeartbeatRaises(w)
       \/ ObserveCancel(w)
       \/ Crash(w)
       \/ Restart(w)
  \/ Tick
  \/ Stall

Spec == Init /\ [][Next]_vars

(***************************************************************************)
(* A live Worker takes its steps and beats, its handler returns, a dead    *)
(* process is restarted and time passes.  Users, the gate, crashes and     *)
(* stalls owe nothing.                                                     *)
(***************************************************************************)
Fairness ==
  /\ \A w \in Workers :
       /\ WF_vars(Cycle(w))
       /\ WF_vars(Return(w))
       /\ WF_vars(HeartbeatLost(w))
       /\ WF_vars(Restart(w))
  /\ \A t \in Tasks : WF_vars(BecomeDue(t))
  /\ WF_vars(Tick)

FairSpec == Spec /\ Fairness

-------------------------------------------------------------------------------
(***************************************************************************)
(* Invariants.                                                             *)
(***************************************************************************)

ActiveRuns(t) == {n \in 1 .. Len(runs[t]) : runs[t][n].status = "running"}
FailedRuns(t) == {n \in 1 .. Len(runs[t]) : runs[t][n].status \in {"failed", "lost"}}

WithinBudget(t) ==
  /\ status[t] \in {"pending", "retry", "running", "waiting_credential"} =>
       retryCount[t] <= MaxRetries
  /\ status[t] = "failed" => retryCount[t] <= MaxRetries + 1

\* The ownership columns of a task and its execution history agree: a task is
\* owned exactly when one run of it is running, and that run carries the
\* owner's token.  create_run raises ActiveTaskRunExistsError, finish_run and
\* recover_expired_lease raise TaskRunNotFoundError where this fails.
OwnedIffOneActiveRun ==
  \A t \in Tasks :
    IF token[t] = NoToken
    THEN ActiveRuns(t) = {} /\ status[t] # "running"
    ELSE /\ status[t] \in LeasedStatuses
         /\ \E n \in 1 .. Len(runs[t]) :
              ActiveRuns(t) = {n} /\ runs[t][n].token = token[t]

\* retry_count is the number of executions that failed or were lost: the two
\* tables are updated by different statements of finish_run and
\* recover_expired_lease, and no outcome is charged twice or for free.
RetryLedger ==
  \A t \in Tasks :
    retryCount[t] = Cardinality(FailedRuns(t))

\* The retry budget: a task that may still run has not used more than
\* max_retries, whichever of _finish and recover_expired_lease charged it; only
\* a task whose cancellation was requested may be charged beyond the last one.
RetryBudget == \A t \in Tasks : WithinBudget(t)

\* _finish never raises InvalidTaskOutcomeError, and finish_run never raises
\* InvalidTaskTransitionError: either would end the Worker process.
FinishNeverRaises ==
  \A w \in Workers :
    /\ pc[w] = "finish" /\ HoldsToken(w) =>
         LET t == claim[w].task
         IN  ~InvalidOutcome(t, Reconciled(t, result[w].outcome))
    /\ pc[w] = "write" => result[w].to \in AllowedTransitions[result[w].from]

\* The induction hypothesis: first the rows of one task,
RunsNumbered(t) ==
  \A n \in 1 .. Len(runs[t]) : runs[t][n].token = n

OwnershipRecorded(t) ==
  /\ token[t] \in 0 .. Len(runs[t])
  /\ \A n \in 1 .. Len(runs[t]) : runs[t][n].status = "running" <=> token[t] = n
  /\ token[t] # NoToken => status[t] \in LeasedStatuses
  /\ status[t] = "running" => token[t] # NoToken
  /\ status[t] = "cancel_requested" => t \in Downloads
  /\ status[t] = Absent => retryCount[t] = 0

\* then the claim in a Worker's memory: its run exists, so a token handed out
\* later never equals it; a cancellation its owner saw is still requested;
ClaimRecorded(w) ==
  /\ Working(w) => claim[w].token \in 1 .. Len(runs[claim[w].task])
  /\ sawCancel[w] => Working(w)
  /\ sawCancel[w] /\ HoldsToken(w) => status[claim[w].task] = "cancel_requested"
  /\ pc[w] = "finish" /\ result[w].outcome = "cancelled" => sawCancel[w]

\* and what _finish decided from the row it read, until it is written.
DecisionSound(w) ==
  pc[w] = "write" =>
    /\ result[w].from \in LeasedStatuses
    /\ result[w].to \in AllowedTransitions[result[w].from] \ LeasedStatuses
    /\ result[w].outcome \in {"retry", "failed"} <=> result[w].to \in {"retry", "failed"}
    /\ HoldsToken(w) /\ result[w].to = "retry" => retryCount[claim[w].task] < MaxRetries

\* Rows, claims held in memory and decisions not yet written stay consistent
\* with each other, whoever else moved the row since: what every guarded UPDATE
\* of the repository relies on.
EngineInvariant ==
  /\ \A t \in Tasks : RunsNumbered(t) /\ OwnershipRecorded(t) /\ WithinBudget(t)
  /\ \A w \in Workers : ClaimRecorded(w) /\ DecisionSound(w)

(***************************************************************************)
(* What a step may never do.                                               *)
(***************************************************************************)

\* Every change of Task.status, those of the conditional updates that bypass
\* validate_transition included, follows ALLOWED_TASK_TRANSITIONS: terminal
\* statuses are final and a requested cancellation is never lost to an
\* outcome that was decided before it.
LegalStatusStep ==
  \A t \in Tasks :
    status'[t] # status[t] =>
      IF status[t] = Absent THEN status'[t] = "pending"
      ELSE status'[t] \in AllowedTransitions[status[t]]
StatusFollowsPolicy == [][LegalStatusStep]_vars

\* A run ends once, and only by those entitled to end it: with an outcome, by
\* the Worker that claimed it while its lease lasts; as lost, when the lease is
\* over.  Rows are appended and closed rows never change.
EntitledToEnd(t, n) ==
  IF runs'[t][n].status = "lost" THEN lease[t] = 0
  ELSE /\ lease[t] > 0
       /\ \E w \in Workers :
            pc[w] = "write" /\ claim[w] = [task |-> t, token |-> runs[t][n].token]
LegalHistoryChange(t) ==
  /\ Len(runs'[t]) \in {Len(runs[t]), Len(runs[t]) + 1}
  /\ \A n \in 1 .. Len(runs[t]) :
       runs'[t][n] # runs[t][n] =>
         /\ runs[t][n].status = "running"
         /\ runs'[t][n].token = runs[t][n].token
         /\ EntitledToEnd(t, n)
LegalRunStep == \A t \in Tasks : LegalHistoryChange(t)
RunsEndOnce == [][LegalRunStep]_vars

\* While the gate is closed, once no task is owned and no Worker is between
\* its reading of the gate and its claim, no task becomes owned.  (The gate
\* and the claim are separate statements of _recover_and_claim.)
Drained ==
  /\ gateClosed
  /\ \A t \in Tasks : token[t] = NoToken
  /\ \A w \in Workers : pc[w] # "claim"
DrainHolds == [][Drained /\ gateClosed' => Drained']_vars

(***************************************************************************)
(* What must eventually happen.                                            *)
(***************************************************************************)

\* Nothing stays owned: an execution ends or its lease is recovered, also while
\* the gate is closed, whatever crashes happened.
OwnershipEnds == \A t \in Tasks : token[t] # NoToken ~> token[t] = NoToken

\* A requested cancellation is settled, unless an update closes the gate.
CancelSettles ==
  \A t \in Tasks :
    status[t] = "cancel_requested" ~> status[t] \in TerminalStatuses \/ gateClosed

\* A queued task gets an end or waits for its credential, unless an update
\* closes the gate.
QueueSettles ==
  \A t \in Tasks :
    status[t] \in QueueStatuses ~>
      status[t] \in TerminalStatuses \cup {"waiting_credential"} \/ gateClosed

\* So neither an owner nor the queue keeps a task for ever.
TasksMoveOn == OwnershipEnds /\ QueueSettles

-------------------------------------------------------------------------------
(***************************************************************************)
(* The engine implements the abstract life of a task.  Whether an attempt  *)
(* is under way, and how many failed, is read off the execution history    *)
(* (task_runs), not off the columns the engine decides by.                 *)
(***************************************************************************)
AbstractState(t) ==
  CASE status[t] \in QueueStatuses          -> "queued"
    [] status[t] = "waiting_credential"     -> "blocked"
    [] status[t] = "cancel_requested"       -> "stopping"
    [] OTHER                                -> status[t]

Lifecycle == INSTANCE TaskLifecycle WITH
  state <- [t \in Tasks |-> AbstractState(t)],
  attempting <- [t \in Tasks |-> ActiveRuns(t) # {}],
  failures <- [t \in Tasks |-> Cardinality(FailedRuns(t))]

\* Every step of the queue, its Workers and its users is a step in the life of
\* one task, or none.
ImplementsLifecycle == Lifecycle!Spec

===============================================================================
