--------------------------- MODULE TaskEngineProofs ---------------------------
(***************************************************************************)
(* Proofs about TaskEngine, for any number of tasks and Workers, any retry *)
(* budget, lease duration and bound on the environment.                    *)
(***************************************************************************)
EXTENDS TaskEngine, FiniteSetTheorems, TLAPS

-------------------------------------------------------------------------------
(***************************************************************************)
(* The execution history.                                                  *)
(***************************************************************************)

\* Closing a run replaces its status and keeps the others: the UPDATE of task_runs.
LEMMA CloseRunProperties ==
  ASSUME NEW rs \in Seq(Run), NEW k \in Nat, NEW s \in RunStatuses
  PROVE  /\ CloseRun(rs, k, s) \in Seq(Run)
         /\ Len(CloseRun(rs, k, s)) = Len(rs)
         /\ \A n \in 1 .. Len(rs) :
              CloseRun(rs, k, s)[n] =
                IF rs[n].status = "running" /\ rs[n].token = k
                THEN [rs[n] EXCEPT !.status = s] ELSE rs[n]
<1>1. \A n \in 1 .. Len(rs) : rs[n] \in Run
  OBVIOUS
<1>2. \A n \in 1 .. Len(rs) :
        (IF rs[n].status = "running" /\ rs[n].token = k
         THEN [rs[n] EXCEPT !.status = s] ELSE rs[n]) \in Run
  BY <1>1 DEF Run
<1>3. CloseRun(rs, k, s) \in [1 .. Len(rs) -> Run]
  BY <1>2 DEF CloseRun
<1>4. Len(rs) \in Nat
  OBVIOUS
<1>5. CloseRun(rs, k, s) \in Seq(Run)
  BY <1>3, <1>4
<1>6. Len(CloseRun(rs, k, s)) = Len(rs)
  BY <1>3, <1>4, <1>5
<1>7. QED
  BY <1>5, <1>6 DEF CloseRun

\* A task given back has ended its run, with a status other than lost: the map of finish_run.
LEMMA RunStatusTypes ==
  \A s \in TaskStatuses \ LeasedStatuses :
    TaskToRunStatus[s] \in RunStatuses \ {"running", "lost"}
BY DEF TaskToRunStatus, TaskStatuses, LeasedStatuses, RunStatuses

\* A claim inserts one run at the end of the history and keeps the rest.
LEMMA AppendRunProperties ==
  ASSUME NEW rs \in Seq(Run), NEW r \in Run
  PROVE  /\ Append(rs, r) \in Seq(Run)
         /\ Len(Append(rs, r)) = Len(rs) + 1
         /\ \A n \in 1 .. Len(rs) : Append(rs, r)[n] = rs[n]
         /\ Append(rs, r)[Len(rs) + 1] = r
  OBVIOUS

-------------------------------------------------------------------------------
(***************************************************************************)
(* Types.                                                                  *)
(***************************************************************************)

\* The empty database and the starting Workers have their types.
LEMMA InitTypeOK == Init => TypeOK
<1> SUFFICES ASSUME Init PROVE TypeOK
  OBVIOUS
<1>1. DatabaseTypeOK
  <2>1. << >> \in Seq(Run)
    OBVIOUS
  <2>2. runs \in [Tasks -> Seq(Run)]
    BY <2>1 DEF Init
  <2>3. lease \in [Tasks -> 0 .. LeaseDuration]
    BY TaskEngineAssumption DEF TaskEngineAssumption, Init
  <2>4. QED
    BY <2>2, <2>3 DEF Init, DatabaseTypeOK, Absent, NoToken
<1>2. NoResult \in Result
  BY DEF NoResult, Result
<1>3. WorkerTypeOK
  BY <1>2, TaskEngineAssumption
  DEF TaskEngineAssumption, Init, WorkerTypeOK, Working, Phases
<1>4. QED
  BY <1>1, <1>3, TaskEngineAssumption DEF TaskEngineAssumption, Init, TypeOK

\* Every action keeps every variable within its type.
LEMMA StepTypeOK == TypeOK /\ [Next]_vars => TypeOK'
<1> SUFFICES ASSUME TypeOK, [Next]_vars PROVE TypeOK'
  OBVIOUS
<1> USE DEF TypeOK, DatabaseTypeOK, WorkerTypeOK, Working
<1>1. ASSUME NEW t \in Tasks, Command(t) PROVE TypeOK'
  <2>1. CASE CreateTask(t)
    BY <2>1 DEF CreateTask, workerVars, budgetVars, TaskStatuses
  <2>2. CASE CancelQueued(t)
    BY <2>2 DEF CancelQueued, workerVars, budgetVars, TaskStatuses
  <2>3. CASE RequestCancel(t)
    BY <2>3 DEF RequestCancel, workerVars, budgetVars, TaskStatuses
  <2>4. CASE Resume(t)
    <3>1. continuations' \in 0 .. MaxContinuations
      BY <2>4, TaskEngineAssumption DEF TaskEngineAssumption, Resume
    <3>2. QED
      BY <2>4, <3>1 DEF Resume, workerVars, TaskStatuses
  <2>5. QED
    BY <1>1, <2>1, <2>2, <2>3, <2>4 DEF Command
<1>2. ASSUME NEW t \in Tasks, BecomeDue(t) PROVE TypeOK'
  BY <1>2 DEF BecomeDue, workerVars, budgetVars
<1>3. CASE SwitchGate
  BY <1>3 DEF SwitchGate, taskVars, workerVars, budgetVars
<1>4. ASSUME NEW w \in Workers, BeginCycle(w) PROVE TypeOK'
  BY <1>4, TaskEngineAssumption
  DEF TaskEngineAssumption, BeginCycle, Expired, Lease, taskVars, budgetVars, Phases, NoToken
<1>5. ASSUME NEW w \in Workers, NEW l \in expiredLeases[w], RecoverExpiredLease(w, l)
      PROVE  TypeOK'
  <2>1. l \in Lease
    OBVIOUS
  <2>2. l.task \in Tasks /\ l.token \in Nat
    BY <2>1 DEF Lease
  <2>3. RecoveredStatus(l.task) \in TaskStatuses
    BY DEF RecoveredStatus, TaskStatuses
  <2>4. CloseRun(runs[l.task], l.token, "lost") \in Seq(Run)
    BY <2>2, CloseRunProperties DEF RunStatuses
  <2>5. DatabaseTypeOK'
    BY <1>5, <2>2, <2>3, <2>4, TaskEngineAssumption
    DEF TaskEngineAssumption, RecoverExpiredLease, ReleaseOwnership, NoToken
  <2>6. QED
    BY <1>5, <2>5 DEF RecoverExpiredLease, budgetVars
<1>6. ASSUME NEW w \in Workers, NEW l \in expiredLeases[w], SkipLease(w, l) PROVE TypeOK'
  BY <1>6 DEF SkipLease, taskVars, budgetVars
<1>7. ASSUME NEW w \in Workers, EvaluateGate(w) PROVE TypeOK'
  BY <1>7 DEF EvaluateGate, taskVars, budgetVars, Phases
<1>8. ASSUME NEW w \in Workers, NEW t \in Tasks, ClaimNext(w, t) PROVE TypeOK'
  <2>1. FreshToken(t) \in Nat
    BY DEF FreshToken
  <2>2. [token |-> FreshToken(t), status |-> "running"] \in Run
    BY <2>1 DEF Run, RunStatuses
  <2>3. Append(runs[t], [token |-> FreshToken(t), status |-> "running"]) \in Seq(Run)
    BY <2>2, AppendRunProperties
  <2>4. LeaseDuration - age[w] \in 0 .. LeaseDuration
    BY TaskEngineAssumption DEF TaskEngineAssumption
  <2>5. DatabaseTypeOK'
    BY <1>8, <2>1, <2>3, <2>4 DEF ClaimNext, TaskStatuses
  <2>6. [task |-> t, token |-> FreshToken(t)] \in Claim
    BY <2>1 DEF Claim
  <2>7. QED
    BY <1>8, <2>5, <2>6, TaskEngineAssumption
    DEF TaskEngineAssumption, ClaimNext, budgetVars, Phases
<1>9. ASSUME NEW w \in Workers, ClaimNothing(w) PROVE TypeOK'
  BY <1>9 DEF ClaimNothing, taskVars, budgetVars, Phases
<1>10. ASSUME NEW w \in Workers, Heartbeat(w) PROVE TypeOK'
  <2> HIDE DEF WorkerTypeOK
  <2>1. LeaseDuration \in 0 .. LeaseDuration
    BY TaskEngineAssumption DEF TaskEngineAssumption
  <2>2. lease' = [lease EXCEPT ![claim[w].task] = LeaseDuration]
    BY <1>10 DEF Heartbeat
  <2>3. lease' \in [Tasks -> 0 .. LeaseDuration]
    BY <2>1, <2>2
  <2>4. WorkerTypeOK'
    BY <1>10 DEF Heartbeat, WorkerTypeOK, workerVars
  <2>5. QED
    BY <1>10, <2>3, <2>4 DEF Heartbeat, budgetVars
<1>11. ASSUME NEW w \in Workers, HeartbeatLost(w) \/ HeartbeatRaises(w) PROVE TypeOK'
  <2>1. CASE HeartbeatLost(w)
    BY <2>1 DEF HeartbeatLost, taskVars, budgetVars
  <2>2. CASE HeartbeatRaises(w)
    <3>1. disruptions' \in 0 .. MaxDisruptions
      BY <2>2, TaskEngineAssumption DEF TaskEngineAssumption, HeartbeatRaises
    <3>2. QED
      BY <2>2, <3>1 DEF HeartbeatRaises, taskVars
  <2>3. QED
    BY <1>11, <2>1, <2>2
<1>12. ASSUME NEW w \in Workers, ObserveCancel(w) PROVE TypeOK'
  BY <1>12 DEF ObserveCancel, taskVars, budgetVars
<1>13. ASSUME NEW w \in Workers, NEW o \in Outcomes, HandlerReturns(w, o) PROVE TypeOK'
  <2>1. \A r \in Result : [r EXCEPT !.outcome = o] \in Result
    BY DEF Result
  <2>2. result' \in [Workers -> Result] /\ result'[w].outcome = o
    BY <1>13, <2>1 DEF HandlerReturns, Result
  <2>3. continuations' \in 0 .. MaxContinuations
    BY <1>13, TaskEngineAssumption DEF TaskEngineAssumption, HandlerReturns
  <2>4. QED
    BY <1>13, <2>2, <2>3 DEF HandlerReturns, taskVars, Phases
<1>14. NoResult \in Result
  BY DEF NoResult, Result
<1>15. ASSUME NEW w \in Workers, NEW next \in {"idle", "down"}, Forget(w, next),
              UNCHANGED budgetVars, DatabaseTypeOK'
       PROVE  TypeOK'
  BY <1>14, <1>15 DEF Forget, budgetVars, Phases
<1>16. ASSUME NEW w \in Workers, DiscardOutcome(w) \/ HeartbeatFailureEndsProcess(w)
       PROVE  TypeOK'
  BY <1>15, <1>16 DEF DiscardOutcome, HeartbeatFailureEndsProcess, taskVars
<1>17. ASSUME NEW w \in Workers, ReadForFinish(w) PROVE TypeOK'
  <2> DEFINE t == claim[w].task
             o == Reconciled(t, result[w].outcome)
             r == [outcome |-> o, from |-> status[t], to |-> TargetStatus(t, o)]
  <2>1. CASE Forget(w, "idle") \/ Forget(w, "down")
    BY <1>15, <1>17, <2>1 DEF ReadForFinish, taskVars
  <2>2. CASE /\ pc[w] = "finish"
             /\ pc' = [pc EXCEPT ![w] = "write"]
             /\ result' = [result EXCEPT ![w] = r]
             /\ UNCHANGED <<expiredLeases, age, claim, beat, sawCancel>>
    <3>1. t \in Tasks /\ result[w].outcome \in Outcomes
      BY <2>2 DEF Claim
    <3>2. o \in Outcomes /\ TargetStatus(t, o) \in TaskStatuses \ LeasedStatuses
      BY <3>1 DEF Reconciled, TargetStatus, Outcomes, TaskStatuses, LeasedStatuses
    <3>3. r \in Result
      BY <3>1, <3>2 DEF Result
    <3>4. QED
      BY <1>17, <2>2, <3>2, <3>3 DEF ReadForFinish, taskVars, budgetVars, Phases
  <2>3. QED
    BY <1>17, <2>1, <2>2 DEF ReadForFinish
<1>18. ASSUME NEW w \in Workers, FinishRun(w) PROVE TypeOK'
  <2> DEFINE t == claim[w].task
             to == result[w].to
  <2>1. /\ t \in Tasks /\ claim[w].token \in Nat
        /\ to \in TaskStatuses \ LeasedStatuses
    BY <1>18 DEF FinishRun, Claim
  <2>2. CloseRun(runs[t], claim[w].token, TaskToRunStatus[to]) \in Seq(Run)
    BY <2>1, RunStatusTypes, CloseRunProperties
  <2>3. DatabaseTypeOK'
    BY <1>18, <2>1, <2>2, TaskEngineAssumption
    DEF TaskEngineAssumption, FinishRun, ReleaseOwnership, NoToken
  <2>4. QED
    BY <1>15, <1>18, <2>3 DEF FinishRun
<1>19. ASSUME NEW w \in Workers, FinishRejected(w) PROVE TypeOK'
  BY <1>15, <1>19 DEF FinishRejected, taskVars
<1>20. ASSUME NEW w \in Workers, Crash(w) PROVE TypeOK'
  BY <1>14, <1>20, TaskEngineAssumption DEF TaskEngineAssumption, Crash, taskVars, Phases
<1>21. ASSUME NEW w \in Workers, Restart(w) PROVE TypeOK'
  BY <1>21 DEF Restart, taskVars, budgetVars, Phases
<1>22. CASE Tick \/ Stall
  <2>1. disruptions' \in 0 .. MaxDisruptions
    BY <1>22, TaskEngineAssumption DEF TaskEngineAssumption, Tick, Stall
  <2>2. /\ lease' = [t \in Tasks |-> IF lease[t] > 0 THEN lease[t] - 1 ELSE 0]
        /\ age' = [w \in Workers |->
             IF BeforeClaim(w) /\ age[w] < LeaseDuration THEN age[w] + 1 ELSE age[w]]
    BY <1>22 DEF Tick, Stall, TimePasses
  <2>3. \A t \in Tasks : lease[t] \in 0 .. LeaseDuration
    OBVIOUS
  <2>4. \A w \in Workers : age[w] \in 0 .. LeaseDuration
    OBVIOUS
  <2>5. lease' \in [Tasks -> 0 .. LeaseDuration]
    <3> HIDE DEF DatabaseTypeOK, WorkerTypeOK
    <3>1. QED
      BY <2>2, <2>3, TaskEngineAssumption DEF TaskEngineAssumption
  <2>6. age' \in [Workers -> 0 .. LeaseDuration]
    <3> HIDE DEF DatabaseTypeOK, WorkerTypeOK
    <3>1. QED
      BY <2>2, <2>4, TaskEngineAssumption DEF TaskEngineAssumption
  <2>7. QED
    BY <1>22, <2>1, <2>5, <2>6 DEF Tick, Stall, TimePasses
<1>23. CASE UNCHANGED vars
  BY <1>23 DEF vars, taskVars, workerVars, budgetVars
<1>24. QED
  BY <1>1, <1>2, <1>3, <1>4, <1>5, <1>6, <1>7, <1>8, <1>9, <1>10, <1>11, <1>12, <1>13,
     <1>16, <1>17, <1>18, <1>19, <1>20, <1>21, <1>22, <1>23
  DEF Next, Cycle, Return

\* The variables keep their types in every execution of the engine.
THEOREM TypeCorrect == Spec => []TypeOK
<1>1. QED
  BY InitTypeOK, StepTypeOK, PTL DEF Spec

-------------------------------------------------------------------------------
(***************************************************************************)
(* The inductive invariant, first what it says of the rows of a task.      *)
(***************************************************************************)

TaskInvariant(t) == RunsNumbered(t) /\ OwnershipRecorded(t) /\ WithinBudget(t)
WorkerInvariant(w) == ClaimRecorded(w) /\ DecisionSound(w)

rowVars == <<status, token, retryCount, runs>>

\* Closing the owner's run changes the status of that run and nothing else.
LEMMA CloseOwnRun ==
  ASSUME TypeOK, NEW t \in Tasks, RunsNumbered(t), OwnershipRecorded(t),
         token[t] # NoToken, NEW s \in RunStatuses \ {"running"}
  PROVE  LET rs == CloseRun(runs[t], token[t], s)
         IN  /\ token[t] \in 1 .. Len(runs[t])
             /\ rs \in Seq(Run)
             /\ Len(rs) = Len(runs[t])
             /\ \A n \in 1 .. Len(runs[t]) :
                  /\ rs[n].token = n
                  /\ rs[n].status = IF n = token[t] THEN s ELSE runs[t][n].status
                  /\ n # token[t] => rs[n] = runs[t][n]
<1> DEFINE rs == CloseRun(runs[t], token[t], s)
<1>1. runs[t] \in Seq(Run) /\ token[t] \in Nat
  BY DEF TypeOK, DatabaseTypeOK
<1>2. token[t] \in 1 .. Len(runs[t])
  BY <1>1 DEF OwnershipRecorded, NoToken
<1>3. /\ rs \in Seq(Run)
      /\ Len(rs) = Len(runs[t])
      /\ \A n \in 1 .. Len(runs[t]) :
           rs[n] = IF runs[t][n].status = "running" /\ runs[t][n].token = token[t]
                   THEN [runs[t][n] EXCEPT !.status = s] ELSE runs[t][n]
  BY <1>1, CloseRunProperties
<1>4. ASSUME NEW n \in 1 .. Len(runs[t])
      PROVE  /\ rs[n].token = n
             /\ rs[n].status = IF n = token[t] THEN s ELSE runs[t][n].status
             /\ n # token[t] => rs[n] = runs[t][n]
  <2>1. runs[t][n] \in Run
    BY <1>1
  <2>2. runs[t][n].token = n /\ (runs[t][n].status = "running" <=> token[t] = n)
    BY DEF RunsNumbered, OwnershipRecorded
  <2>3. rs[n] = IF n = token[t] THEN [runs[t][n] EXCEPT !.status = s] ELSE runs[t][n]
    BY <1>3, <2>2
  <2>4. QED
    BY <2>1, <2>2, <2>3 DEF Run
<1>5. QED
  BY <1>2, <1>3, <1>4

\* The statements that write a row of tasks or of task_runs.
LEMMA RowWriters ==
  ASSUME [Next]_vars
  PROVE  \/ UNCHANGED rowVars
         \/ \E t \in Tasks : Command(t)
         \/ \E w \in Workers : \E l \in expiredLeases[w] : RecoverExpiredLease(w, l)
         \/ \E w \in Workers, t \in Tasks : ClaimNext(w, t)
         \/ \E w \in Workers : FinishRun(w)
<1>1. ASSUME NEW t \in Tasks, BecomeDue(t) PROVE UNCHANGED rowVars
  BY <1>1 DEF BecomeDue, rowVars
<1>2. ASSUME NEW w \in Workers, Cycle(w)
      PROVE  \/ UNCHANGED rowVars
             \/ \E l \in expiredLeases[w] : RecoverExpiredLease(w, l)
             \/ \E t \in Tasks : ClaimNext(w, t)
             \/ FinishRun(w)
  BY <1>2 DEF Cycle, BeginCycle, SkipLease, EvaluateGate, ClaimNothing, DiscardOutcome,
     HeartbeatFailureEndsProcess, ReadForFinish, FinishRejected, taskVars, rowVars
<1>3. ASSUME NEW w \in Workers,
             \/ Return(w) \/ Heartbeat(w) \/ HeartbeatLost(w) \/ HeartbeatRaises(w)
             \/ ObserveCancel(w) \/ Crash(w) \/ Restart(w)
      PROVE  UNCHANGED rowVars
  BY <1>3 DEF Return, HandlerReturns, Heartbeat, HeartbeatLost, HeartbeatRaises,
     ObserveCancel, Crash, Restart, taskVars, rowVars
<1>4. CASE SwitchGate \/ Tick \/ Stall \/ UNCHANGED vars
  BY <1>4 DEF SwitchGate, Tick, Stall, TimePasses, vars, taskVars, rowVars
<1>5. QED
  BY <1>1, <1>2, <1>3, <1>4 DEF Next

-------------------------------------------------------------------------------
(***************************************************************************)
(* What a step does to the one row it writes.                              *)
(***************************************************************************)

SameRow(u) ==
  /\ status'[u] = status[u] /\ token'[u] = token[u]
  /\ retryCount'[u] = retryCount[u] /\ runs'[u] = runs[u]

Commanded(t) ==
  /\ token'[t] = token[t] /\ retryCount'[t] = retryCount[t] /\ runs'[t] = runs[t]
  /\ \/ /\ token[t] = NoToken /\ status[t] = Absent /\ status'[t] = "pending"
     \/ /\ token[t] = NoToken /\ status[t] \in {"pending", "retry", "waiting_credential"}
        /\ status'[t] = "cancelled"
     \/ /\ token[t] = NoToken /\ status[t] = "waiting_credential" /\ status'[t] = "pending"
     \/ /\ token[t] # NoToken /\ t \in Downloads
        /\ status[t] = "running" /\ status'[t] = "cancel_requested"

Recovered(t) ==
  /\ token[t] # NoToken /\ lease[t] = 0 /\ token'[t] = NoToken
  /\ status[t] \in LeasedStatuses /\ status'[t] = RecoveredStatus(t)
  /\ retryCount'[t] = retryCount[t] + 1
  /\ runs'[t] = CloseRun(runs[t], token[t], "lost")

Claimed(t) ==
  /\ \E w \in Workers : pc[w] = "claim"
  /\ token[t] = NoToken /\ token'[t] = Len(runs[t]) + 1
  /\ \/ status[t] \in QueueStatuses /\ status'[t] = "running"
     \/ status[t] = "cancel_requested" /\ status'[t] = "cancel_requested"
  /\ retryCount'[t] = retryCount[t]
  /\ runs'[t] = Append(runs[t], [token |-> Len(runs[t]) + 1, status |-> "running"])

Finished(t, w) ==
  /\ pc[w] = "write" /\ claim[w] = [task |-> t, token |-> token[t]]
  /\ token[t] # NoToken /\ lease[t] > 0 /\ token'[t] = NoToken
  /\ \/ status[t] = "running" /\ status'[t] \in {"pending", "success", "failed", "retry",
                                                "waiting_credential"}
     \/ status[t] = "cancel_requested" /\ status'[t] \in {"cancelled", "success"}
  /\ status'[t] = "retry" => retryCount[t] < MaxRetries
  /\ retryCount'[t] = IF status'[t] \in {"retry", "failed"} THEN retryCount[t] + 1
                      ELSE retryCount[t]
  /\ runs'[t] = CloseRun(runs[t], token[t], TaskToRunStatus[status'[t]])

\* A step writes the row of at most one task, in one of the six ways the
\* repository's statements write it.
LEMMA RowStep ==
  ASSUME TypeOK, EngineInvariant, [Next]_vars
  PROVE  \/ UNCHANGED rowVars
         \/ \E t \in Tasks :
              /\ \A u \in Tasks \ {t} : SameRow(u)
              /\ \/ Commanded(t) \/ Recovered(t) \/ Claimed(t)
                 \/ \E w \in Workers : Finished(t, w)
<1> DEFINE Others(t) == \A u \in Tasks \ {t} : SameRow(u)
<1>1. ASSUME NEW t \in Tasks, Command(t) PROVE Others(t) /\ Commanded(t)
  <2>1. OwnershipRecorded(t)
    BY DEF EngineInvariant
  <2>2. Others(t)
    BY <1>1 DEF Command, CreateTask, CancelQueued, RequestCancel, Resume, SameRow, TypeOK,
       DatabaseTypeOK
  <2>3. Commanded(t)
    BY <1>1, <2>1
    DEF Command, CreateTask, CancelQueued, RequestCancel, Resume, Commanded,
        OwnershipRecorded, LeasedStatuses, NoToken, Absent, TypeOK, DatabaseTypeOK
  <2>4. QED
    BY <2>2, <2>3
<1>2. ASSUME NEW w \in Workers, NEW l \in expiredLeases[w], RecoverExpiredLease(w, l)
      PROVE  \E t \in Tasks : Others(t) /\ Recovered(t)
  <2>1. l.task \in Tasks /\ l.status \in LeasedStatuses /\ l.token \in Nat \ {NoToken}
    BY DEF TypeOK, WorkerTypeOK, Lease
  <2>2. Others(l.task)
    BY <1>2, <2>1 DEF RecoverExpiredLease, ReleaseOwnership, SameRow, TypeOK, DatabaseTypeOK
  <2>3. Recovered(l.task)
    BY <1>2, <2>1
    DEF RecoverExpiredLease, StillExpired, ReleaseOwnership, Recovered, TypeOK, DatabaseTypeOK
  <2>4. QED
    BY <2>1, <2>2, <2>3
<1>3. ASSUME NEW w \in Workers, NEW t \in Tasks, ClaimNext(w, t)
      PROVE  Others(t) /\ Claimed(t)
  BY <1>3
  DEF ClaimNext, NextInQueue, Claimable, QueueStatuses, FreshToken, Claimed, SameRow, TypeOK,
      DatabaseTypeOK
<1>4. ASSUME NEW w \in Workers, FinishRun(w)
      PROVE  \E t \in Tasks : Others(t) /\ Finished(t, w)
  <2> DEFINE t == claim[w].task
             to == result[w].to
  <2>1. t \in Tasks /\ claim[w] \in Claim /\ pc[w] = "write"
    BY <1>4 DEF FinishRun, TypeOK, WorkerTypeOK, Working, Claim
  <2>2. ClaimRecorded(w) /\ DecisionSound(w)
    BY DEF EngineInvariant
  <2>3. claim[w].token = token[t] /\ lease[t] > 0 /\ status[t] = result[w].from
    BY <1>4 DEF FinishRun, MayFinish, OwnsLease, HoldsToken
  <2>4. token[t] # NoToken /\ claim[w] = [task |-> t, token |-> token[t]]
    BY <2>1, <2>2, <2>3 DEF ClaimRecorded, Working, NoToken, Claim
  <2>5. /\ status' = [status EXCEPT ![t] = to] /\ token' = [token EXCEPT ![t] = NoToken]
        /\ retryCount' = [retryCount EXCEPT ![t] =
             IF result[w].outcome \in {"retry", "failed"} THEN @ + 1 ELSE @]
        /\ runs' = [runs EXCEPT ![t] = CloseRun(@, token[t], TaskToRunStatus[to])]
    BY <1>4, <2>3 DEF FinishRun, ReleaseOwnership
  <2>6. Others(t)
    BY <2>5 DEF SameRow, TypeOK, DatabaseTypeOK
  <2>7. /\ to \in AllowedTransitions[status[t]] \ LeasedStatuses
        /\ status[t] \in LeasedStatuses
        /\ result[w].outcome \in {"retry", "failed"} <=> to \in {"retry", "failed"}
        /\ to = "retry" => retryCount[t] < MaxRetries
    BY <2>1, <2>2, <2>3 DEF DecisionSound, HoldsToken
  <2>8. \/ status[t] = "running" /\ to \in {"pending", "success", "failed", "retry",
                                           "waiting_credential"}
        \/ status[t] = "cancel_requested" /\ to \in {"cancelled", "success"}
    BY <2>7 DEF AllowedTransitions, TaskStatuses, LeasedStatuses, TerminalStatuses
  <2>9. /\ status'[t] = to /\ token'[t] = NoToken
        /\ retryCount'[t] = IF to \in {"retry", "failed"} THEN retryCount[t] + 1
                            ELSE retryCount[t]
        /\ runs'[t] = CloseRun(runs[t], token[t], TaskToRunStatus[to])
    BY <2>1, <2>5, <2>7 DEF TypeOK, DatabaseTypeOK
  <2>10. Finished(t, w)
    BY <2>1, <2>3, <2>4, <2>7, <2>8, <2>9 DEF Finished
  <2>11. QED
    BY <2>1, <2>6, <2>10
<1>5. QED
  BY <1>1, <1>2, <1>3, <1>4, RowWriters

\* What the rows of a task say stays true whoever writes them.
LEMMA StepTaskInvariant ==
  ASSUME TypeOK, EngineInvariant, [Next]_vars, NEW u \in Tasks
  PROVE  TaskInvariant(u)'
<1> USE DEF TaskInvariant
<1>1. TaskInvariant(u)
  BY DEF EngineInvariant
<1>2. /\ token[u] \in Nat /\ retryCount[u] \in Nat /\ runs[u] \in Seq(Run)
      /\ MaxRetries \in Nat
  BY TaskEngineAssumption DEF TaskEngineAssumption, TypeOK, DatabaseTypeOK
<1>3. CASE SameRow(u)
  BY <1>1, <1>3 DEF SameRow, RunsNumbered, OwnershipRecorded, WithinBudget
<1>4. CASE Commanded(u)
  BY <1>1, <1>2, <1>4
  DEF Commanded, RunsNumbered, OwnershipRecorded, WithinBudget, LeasedStatuses, NoToken,
      Absent
<1>5. CASE Recovered(u)
  <2>1. RunsNumbered(u)' /\ (OwnershipRecorded(u)' <=>
           /\ status'[u] # "running" /\ status'[u] # Absent
           /\ status'[u] = "cancel_requested" => u \in Downloads)
    <3>1. "lost" \in RunStatuses \ {"running"}
      BY DEF RunStatuses
    <3>2. QED
      BY <1>1, <1>2, <1>5, <3>1, CloseOwnRun
      DEF Recovered, RunsNumbered, OwnershipRecorded, NoToken
  <2>2. QED
    BY <1>1, <1>2, <1>5, <2>1
    DEF Recovered, RecoveredStatus, OwnershipRecorded, WithinBudget, LeasedStatuses, Absent
<1>6. CASE Claimed(u)
  <2> DEFINE r == [token |-> Len(runs[u]) + 1, status |-> "running"]
  <2>1. r \in Run
    BY <1>2 DEF Run, RunStatuses
  <2>2. /\ Len(runs'[u]) = Len(runs[u]) + 1
        /\ \A n \in 1 .. Len(runs[u]) : runs'[u][n] = runs[u][n]
        /\ runs'[u][Len(runs[u]) + 1] = r
    BY <1>2, <1>6, <2>1, AppendRunProperties DEF Claimed
  <2>3. RunsNumbered(u)'
    BY <1>1, <1>2, <2>2 DEF RunsNumbered
  <2>4. \A n \in 1 .. Len(runs'[u]) : runs'[u][n].status = "running" <=> token'[u] = n
    BY <1>1, <1>2, <1>6, <2>2 DEF Claimed, OwnershipRecorded, NoToken
  <2>5. OwnershipRecorded(u)'
    BY <1>1, <1>2, <1>6, <2>2, <2>4
    DEF Claimed, OwnershipRecorded, NoToken, LeasedStatuses, QueueStatuses, Absent
  <2>6. QED
    BY <1>1, <1>6, <2>3, <2>5 DEF Claimed, QueueStatuses, WithinBudget
<1>7. ASSUME NEW w \in Workers, Finished(u, w) PROVE TaskInvariant(u)'
  <2>1. TaskToRunStatus[status'[u]] \in RunStatuses \ {"running"}
    BY <1>7, RunStatusTypes DEF Finished, TaskStatuses, LeasedStatuses
  <2>2. RunsNumbered(u)' /\ OwnershipRecorded(u)'
    BY <1>1, <1>2, <1>7, <2>1, CloseOwnRun
    DEF Finished, RunsNumbered, OwnershipRecorded, NoToken, Absent
  <2>3. QED
    BY <1>1, <1>2, <1>7, <2>2 DEF Finished, WithinBudget
<1>8. QED
  BY <1>3, <1>4, <1>5, <1>6, <1>7, RowStep DEF SameRow, rowVars

-------------------------------------------------------------------------------
(***************************************************************************)
(* What it says of a Worker, while others move the rows under its feet.    *)
(***************************************************************************)

\* A token already handed out is never handed out again, and while it is held
\* only a request to cancel changes the row.
LEMMA RowsKept ==
  ASSUME TypeOK, EngineInvariant, [Next]_vars, NEW t \in Tasks, NEW k \in 1 .. Len(runs[t])
  PROVE  /\ k \in 1 .. Len(runs'[t])
         /\ token'[t] = k => /\ token[t] = k
                            /\ status'[t] \in {status[t], "cancel_requested"}
                            /\ retryCount'[t] = retryCount[t]
<1>1. token[t] \in Nat /\ runs[t] \in Seq(Run) /\ k \in Nat \ {0}
  BY DEF TypeOK, DatabaseTypeOK
<1>2. CASE SameRow(t) \/ Commanded(t)
  BY <1>1, <1>2 DEF SameRow, Commanded, NoToken
<1>3. CASE Recovered(t)
  <2>1. Len(runs'[t]) = Len(runs[t])
    BY <1>1, <1>3, CloseRunProperties DEF Recovered, RunStatuses
  <2>2. QED
    BY <1>1, <1>3, <2>1 DEF Recovered, NoToken
<1>4. CASE Claimed(t)
  <2>1. Len(runs'[t]) = Len(runs[t]) + 1
    BY <1>1, <1>4, AppendRunProperties DEF Claimed, Run, RunStatuses
  <2>2. QED
    BY <1>1, <1>4, <2>1 DEF Claimed
<1>5. ASSUME NEW w \in Workers, Finished(t, w)
      PROVE  token'[t] = NoToken /\ Len(runs'[t]) = Len(runs[t])
  <2>1. TaskToRunStatus[status'[t]] \in RunStatuses
    BY <1>5, RunStatusTypes DEF Finished, TaskStatuses, LeasedStatuses
  <2>2. QED
    BY <1>1, <1>5, <2>1, CloseRunProperties DEF Finished
<1>6. \/ SameRow(t) \/ Commanded(t) \/ Recovered(t) \/ Claimed(t)
      \/ \E w \in Workers : Finished(t, w)
  BY RowStep DEF SameRow, rowVars
<1>7. QED
  BY <1>1, <1>2, <1>3, <1>4, <1>5, <1>6 DEF NoToken

\* Where a Worker has no claim.
Resting == {"idle", "recover", "claim", "down"}

\* A Worker's claim and decision survive whatever the others do.
LEMMA ClaimKept ==
  ASSUME TypeOK, EngineInvariant, [Next]_vars, NEW v \in Workers,
         pc'[v] = pc[v] \/ {pc[v], pc'[v]} \subseteq Resting,
         claim'[v] = claim[v], sawCancel'[v] = sawCancel[v], result'[v] = result[v]
  PROVE  WorkerInvariant(v)'
<1>1. ClaimRecorded(v) /\ DecisionSound(v)
  BY DEF EngineInvariant
<1>2. CASE ~Working(v)
  BY <1>1, <1>2 DEF WorkerInvariant, ClaimRecorded, DecisionSound, Working, Resting
<1>3. CASE Working(v)
  <2> DEFINE c == claim[v]
  <2>1. pc'[v] = pc[v] /\ c.task \in Tasks /\ c.token \in 1 .. Len(runs[c.task])
    BY <1>1, <1>3 DEF Resting, Working, TypeOK, WorkerTypeOK, Claim, ClaimRecorded
  <2>2. /\ c.token \in 1 .. Len(runs'[c.task])
        /\ HoldsToken(v)' => /\ HoldsToken(v)
                             /\ status'[c.task] \in {status[c.task], "cancel_requested"}
                             /\ retryCount'[c.task] = retryCount[c.task]
    BY <2>1, RowsKept DEF HoldsToken
  <2>3. ClaimRecorded(v)'
    BY <1>1, <1>3, <2>1, <2>2 DEF ClaimRecorded, Working
  <2>4. DecisionSound(v)'
    BY <1>1, <2>1, <2>2 DEF DecisionSound
  <2>5. QED
    BY <2>3, <2>4 DEF WorkerInvariant
<1>4. QED
  BY <1>2, <1>3

\* What a Worker remembers of its claim stays true through every step of the
\* engine, its own and the others'.
LEMMA StepWorkerInvariant ==
  ASSUME TypeOK, EngineInvariant, [Next]_vars, NEW v \in Workers
  PROVE  WorkerInvariant(v)'
<1>1. ClaimRecorded(v) /\ DecisionSound(v)
  BY DEF EngineInvariant
<1>2. CASE /\ pc'[v] = pc[v] \/ {pc[v], pc'[v]} \subseteq Resting
           /\ claim'[v] = claim[v] /\ sawCancel'[v] = sawCancel[v] /\ result'[v] = result[v]
  BY <1>2, ClaimKept
<1>3. CASE pc'[v] \in {"idle", "down"} /\ sawCancel'[v] = FALSE
  BY <1>3 DEF WorkerInvariant, ClaimRecorded, DecisionSound, Working
<1>4. ASSUME NEW w \in Workers, Crash(w) \/ Forget(w, "idle") \/ Forget(w, "down")
      PROVE  WorkerInvariant(v)'
  <2>1. CASE v = w
    BY <1>3, <1>4, <2>1 DEF Crash, Forget, TypeOK, WorkerTypeOK
  <2>2. CASE v # w
    BY <1>2, <1>4, <2>2 DEF Crash, Forget, TypeOK, WorkerTypeOK
  <2>3. QED
    BY <2>1, <2>2
<1>5. ASSUME NEW w \in Workers, NEW t \in Tasks, ClaimNext(w, t) PROVE WorkerInvariant(v)'
  <2>1. CASE v = w
    <3>1. /\ pc[v] = "claim" /\ pc'[v] = "execute" /\ sawCancel'[v] = sawCancel[v]
          /\ claim'[v] = [task |-> t, token |-> Len(runs[t]) + 1]
      BY <1>5, <2>1 DEF ClaimNext, FreshToken, TypeOK, WorkerTypeOK
    <3>2. ~sawCancel[v]
      BY <1>1, <3>1 DEF ClaimRecorded, Working
    <3>3. runs[t] \in Seq(Run) /\ [token |-> FreshToken(t), status |-> "running"] \in Run
      BY DEF TypeOK, DatabaseTypeOK, FreshToken, Run, RunStatuses
    <3>4. Len(runs'[t]) = Len(runs[t]) + 1 /\ Len(runs[t]) \in Nat
      BY <1>5, <3>3, AppendRunProperties DEF ClaimNext, TypeOK, DatabaseTypeOK
    <3>5. QED
      BY <3>1, <3>2, <3>4 DEF WorkerInvariant, ClaimRecorded, DecisionSound
  <2>2. CASE v # w
    BY <1>2, <1>5, <2>2 DEF ClaimNext, TypeOK, WorkerTypeOK
  <2>3. QED
    BY <2>1, <2>2
<1>6. ASSUME NEW w \in Workers, ObserveCancel(w) PROVE WorkerInvariant(v)'
  <2>1. CASE v = w
    <3>1. /\ pc[v] = "execute" /\ pc'[v] = pc[v]
          /\ status[claim[v].task] = "cancel_requested"
          /\ UNCHANGED <<claim, status, token, runs>>
      BY <1>6, <2>1 DEF ObserveCancel, taskVars
    <3>2. QED
      BY <1>1, <3>1 DEF WorkerInvariant, ClaimRecorded, DecisionSound, Working
  <2>2. CASE v # w
    BY <1>2, <1>6, <2>2 DEF ObserveCancel, TypeOK, WorkerTypeOK
  <2>3. QED
    BY <2>1, <2>2
<1>7. ASSUME NEW w \in Workers, NEW o \in Outcomes, HandlerReturns(w, o)
      PROVE  WorkerInvariant(v)'
  <2>1. CASE v = w
    <3>1. /\ pc[v] = "execute" /\ pc'[v] = "finish" /\ result'[v].outcome = o
          /\ o = "cancelled" => sawCancel[v]
          /\ UNCHANGED <<claim, sawCancel, status, token, runs>>
      BY <1>7, <2>1 DEF HandlerReturns, taskVars, TypeOK, WorkerTypeOK, Result
    <3>2. QED
      BY <1>1, <3>1
      DEF WorkerInvariant, ClaimRecorded, DecisionSound, Working, HoldsToken
  <2>2. CASE v # w
    BY <1>2, <1>7, <2>2 DEF HandlerReturns, TypeOK, WorkerTypeOK
  <2>3. QED
    BY <2>1, <2>2
<1>8. ASSUME NEW w \in Workers, ReadForFinish(w) PROVE WorkerInvariant(v)'
  <2> DEFINE t == claim[w].task
             o == Reconciled(t, result[w].outcome)
             r == [outcome |-> o, from |-> status[t], to |-> TargetStatus(t, o)]
  <2>1. CASE Forget(w, "idle") \/ Forget(w, "down")
    BY <1>4, <2>1
  <2>2. CASE /\ pc[w] = "finish" /\ HoldsToken(w) /\ ~InvalidOutcome(t, o)
             /\ pc' = [pc EXCEPT ![w] = "write"]
             /\ result' = [result EXCEPT ![w] = r]
             /\ UNCHANGED <<claim, sawCancel>>
    <3>1. CASE v = w
      <4>1. /\ pc'[v] = "write" /\ result'[v] = r /\ t \in Tasks
            /\ UNCHANGED <<claim, sawCancel, status, token, runs, retryCount>>
            /\ result[v].outcome \in Outcomes
            /\ retryCount[t] \in Nat /\ MaxRetries \in Nat
        BY <1>8, <2>2, <3>1, TaskEngineAssumption
        DEF TaskEngineAssumption, ReadForFinish, taskVars, TypeOK, DatabaseTypeOK,
            WorkerTypeOK, Working, Claim
      <4>2. status[t] \in LeasedStatuses /\ token[t] # NoToken
        BY <1>1, <2>2, <3>1, <4>1
        DEF EngineInvariant, OwnershipRecorded, ClaimRecorded, Working, HoldsToken, NoToken
      <4>3. o \in Outcomes /\ (status[t] = "cancel_requested" => o \in {"success", "cancelled"})
        BY <2>2, <3>1, <4>1 DEF InvalidOutcome, Reconciled, Outcomes
      <4>4. status[t] = "running" => o # "cancelled"
        BY <1>1, <2>2, <3>1 DEF Reconciled, ClaimRecorded
      <4>5. r.to \in AllowedTransitions[status[t]] \ LeasedStatuses
        BY <4>2, <4>3, <4>4
        DEF TargetStatus, Outcomes, AllowedTransitions, TaskStatuses, LeasedStatuses,
            TerminalStatuses
      <4>6. /\ o \in {"retry", "failed"} <=> r.to \in {"retry", "failed"}
            /\ r.to = "retry" => retryCount[t] < MaxRetries
        BY <4>1, <4>3 DEF TargetStatus, Outcomes
      <4>7. DecisionSound(v)'
        BY <3>1, <4>1, <4>2, <4>5, <4>6 DEF DecisionSound
      <4>8. ClaimRecorded(v)'
        BY <1>1, <2>2, <3>1, <4>1 DEF ClaimRecorded, Working, HoldsToken
      <4>9. QED
        BY <4>7, <4>8 DEF WorkerInvariant
    <3>2. CASE v # w
      BY <1>2, <2>2, <3>2 DEF TypeOK, WorkerTypeOK
    <3>3. QED
      BY <3>1, <3>2
  <2>3. QED
    BY <1>8, <2>1, <2>2 DEF ReadForFinish
<1>9. ASSUME NEW w \in Workers, Cycle(w) PROVE WorkerInvariant(v)'
  <2>1. CASE BeginCycle(w) \/ EvaluateGate(w) \/ ClaimNothing(w)
    BY <1>2, <2>1
    DEF BeginCycle, EvaluateGate, ClaimNothing, Resting, TypeOK, WorkerTypeOK
  <2>2. CASE \E l \in expiredLeases[w] : RecoverExpiredLease(w, l) \/ SkipLease(w, l)
    BY <1>2, <2>2 DEF RecoverExpiredLease, SkipLease
  <2>3. CASE \/ DiscardOutcome(w) \/ HeartbeatFailureEndsProcess(w)
             \/ FinishRun(w) \/ FinishRejected(w)
    BY <1>4, <2>3
    DEF DiscardOutcome, HeartbeatFailureEndsProcess, FinishRun, FinishRejected
  <2>4. QED
    BY <1>5, <1>8, <1>9, <2>1, <2>2, <2>3 DEF Cycle
<1>10. ASSUME NEW w \in Workers,
              Heartbeat(w) \/ HeartbeatLost(w) \/ HeartbeatRaises(w) \/ Restart(w)
       PROVE  WorkerInvariant(v)'
  BY <1>2, <1>10
  DEF Heartbeat, HeartbeatLost, HeartbeatRaises, Restart, workerVars, Resting, TypeOK,
      WorkerTypeOK
<1>11. ASSUME NEW t \in Tasks, Command(t) \/ BecomeDue(t) PROVE WorkerInvariant(v)'
  BY <1>2, <1>11
  DEF Command, CreateTask, CancelQueued, RequestCancel, Resume, BecomeDue, workerVars
<1>12. CASE SwitchGate \/ Tick \/ Stall \/ UNCHANGED vars
  BY <1>2, <1>12 DEF SwitchGate, Tick, Stall, TimePasses, vars, workerVars
<1>13. QED
  BY <1>4, <1>6, <1>7, <1>9, <1>10, <1>11, <1>12 DEF Next, Return

\* With no task enqueued and no claim held the inductive invariant holds.
LEMMA InitEngineInvariant == Init => EngineInvariant
  BY TaskEngineAssumption
  DEF TaskEngineAssumption, Init, EngineInvariant, RunsNumbered, OwnershipRecorded,
      WithinBudget, ClaimRecorded, DecisionSound, Working, NoToken, Absent

\* Rows, claims in memory and undelivered decisions agree in every execution.
THEOREM EngineInvariantHolds == Spec => []EngineInvariant
<1>1. TypeOK /\ EngineInvariant /\ [Next]_vars => EngineInvariant'
  BY StepTaskInvariant, StepWorkerInvariant
  DEF EngineInvariant, TaskInvariant, WorkerInvariant
<1>2. QED
  BY <1>1, InitEngineInvariant, TypeCorrect, PTL DEF Spec

-------------------------------------------------------------------------------
(***************************************************************************)
(* The execution history of the row a step writes.                         *)
(***************************************************************************)

\* The two ways an execution history changes.
LEMMA HistoryClosed ==
  ASSUME TypeOK, NEW t \in Tasks, RunsNumbered(t), OwnershipRecorded(t),
         token[t] # NoToken, NEW s \in RunStatuses \ {"running"},
         runs'[t] = CloseRun(runs[t], token[t], s)
  PROVE  /\ ActiveRuns(t) # {} /\ ActiveRuns(t)' = {}
         /\ token[t] \notin FailedRuns(t)
         /\ FailedRuns(t)' = IF s \in {"failed", "lost"} THEN FailedRuns(t) \cup {token[t]}
                             ELSE FailedRuns(t)
<1>1. /\ token[t] \in 1 .. Len(runs[t])
      /\ Len(runs'[t]) = Len(runs[t])
      /\ \A n \in 1 .. Len(runs[t]) :
           runs'[t][n].status = IF n = token[t] THEN s ELSE runs[t][n].status
  BY CloseOwnRun
<1>2. \A n \in 1 .. Len(runs[t]) : runs[t][n].status = "running" <=> token[t] = n
  BY DEF OwnershipRecorded
<1>3. QED
  BY <1>1, <1>2 DEF ActiveRuns, FailedRuns

\* A claim opens the only running run and leaves the failed ones as they are.
LEMMA HistoryAppended ==
  ASSUME TypeOK, NEW t \in Tasks, OwnershipRecorded(t), token[t] = NoToken,
         runs'[t] = Append(runs[t], [token |-> Len(runs[t]) + 1, status |-> "running"])
  PROVE  /\ ActiveRuns(t) = {} /\ ActiveRuns(t)' # {}
         /\ FailedRuns(t)' = FailedRuns(t)
<1> DEFINE r == [token |-> Len(runs[t]) + 1, status |-> "running"]
<1>1. runs[t] \in Seq(Run) /\ Len(runs[t]) \in Nat /\ r \in Run
  BY DEF TypeOK, DatabaseTypeOK, Run, RunStatuses
<1>2. /\ Len(runs'[t]) = Len(runs[t]) + 1
      /\ \A n \in 1 .. Len(runs[t]) : runs'[t][n] = runs[t][n]
      /\ runs'[t][Len(runs[t]) + 1] = r
  BY <1>1, AppendRunProperties
<1>3. ActiveRuns(t) = {}
  BY <1>1 DEF ActiveRuns, OwnershipRecorded, NoToken
<1>4. Len(runs[t]) + 1 \in ActiveRuns(t)'
  BY <1>1, <1>2 DEF ActiveRuns
<1>5. FailedRuns(t)' = FailedRuns(t)
  BY <1>1, <1>2 DEF FailedRuns
<1>6. QED
  BY <1>3, <1>4, <1>5

-------------------------------------------------------------------------------
(***************************************************************************)
(* The safety properties.                                                  *)
(***************************************************************************)

\* At most one Worker owns a task, and its run is the one that is running.
THEOREM Ownership == Spec => []OwnedIffOneActiveRun
<1>1. TypeOK /\ EngineInvariant => OwnedIffOneActiveRun
  <2> SUFFICES ASSUME TypeOK, EngineInvariant, NEW t \in Tasks
               PROVE  IF token[t] = NoToken
                      THEN ActiveRuns(t) = {} /\ status[t] # "running"
                      ELSE /\ status[t] \in LeasedStatuses
                           /\ \E n \in 1 .. Len(runs[t]) :
                                ActiveRuns(t) = {n} /\ runs[t][n].token = token[t]
    BY DEF OwnedIffOneActiveRun
  <2>1. RunsNumbered(t) /\ OwnershipRecorded(t) /\ token[t] \in Nat
    BY DEF EngineInvariant, TypeOK, DatabaseTypeOK
  <2>2. CASE token[t] = NoToken
    BY <2>1, <2>2 DEF OwnershipRecorded, ActiveRuns, NoToken
  <2>3. CASE token[t] # NoToken
    <3>1. token[t] \in 1 .. Len(runs[t])
      BY <2>1, <2>3 DEF OwnershipRecorded, NoToken
    <3>2. ActiveRuns(t) = {token[t]} /\ runs[t][token[t]].token = token[t]
      BY <2>1, <3>1 DEF RunsNumbered, OwnershipRecorded, ActiveRuns
    <3>3. QED
      BY <2>1, <2>3, <3>1, <3>2 DEF OwnershipRecorded
  <2>4. QED
    BY <2>2, <2>3
<1>2. QED
  BY <1>1, TypeCorrect, EngineInvariantHolds, PTL

\* No task that may run again has used more than its budget.
THEOREM Budget == Spec => []RetryBudget
<1>1. EngineInvariant => RetryBudget
  BY DEF EngineInvariant, RetryBudget
<1>2. QED
  BY <1>1, EngineInvariantHolds, PTL

\* No outcome a handler may return ends the Worker process.
THEOREM OutcomesAreValid == Spec => []FinishNeverRaises
<1>1. TypeOK /\ EngineInvariant => FinishNeverRaises
  <2> SUFFICES ASSUME TypeOK, EngineInvariant, NEW w \in Workers
               PROVE  /\ pc[w] = "finish" /\ HoldsToken(w) =>
                           ~InvalidOutcome(claim[w].task,
                                           Reconciled(claim[w].task, result[w].outcome))
                      /\ pc[w] = "write" =>
                           result[w].to \in AllowedTransitions[result[w].from]
    BY DEF FinishNeverRaises
  <2>1. pc[w] = "write" => result[w].to \in AllowedTransitions[result[w].from]
    BY DEF EngineInvariant, DecisionSound
  <2>2. ASSUME pc[w] = "finish", status[claim[w].task] = "cancel_requested"
        PROVE  Reconciled(claim[w].task, result[w].outcome) \in {"success", "cancelled"}
    <3>1. claim[w].task \in Tasks
      BY <2>2 DEF TypeOK, WorkerTypeOK, Working, Claim
    <3>2. claim[w].task \in Downloads
      BY <2>2, <3>1 DEF EngineInvariant, OwnershipRecorded
    <3>3. QED
      BY <2>2, <3>2 DEF Reconciled
  <2>3. QED
    BY <2>1, <2>2 DEF InvalidOutcome
<1>2. QED
  BY <1>1, TypeCorrect, EngineInvariantHolds, PTL

\* Every change of a status follows the transition policy.
THEOREM PolicyFollowed == Spec => StatusFollowsPolicy
<1>1. TypeOK /\ EngineInvariant /\ [Next]_vars => LegalStatusStep
  <2> SUFFICES ASSUME TypeOK, EngineInvariant, [Next]_vars, NEW t \in Tasks,
                      status'[t] # status[t]
               PROVE  IF status[t] = Absent THEN status'[t] = "pending"
                      ELSE status'[t] \in AllowedTransitions[status[t]]
    BY DEF LegalStatusStep
  <2>1. \/ Commanded(t) \/ Recovered(t) \/ Claimed(t)
        \/ \E w \in Workers : Finished(t, w)
    BY RowStep DEF rowVars, SameRow
  <2>2. QED
    BY <2>1
    DEF Commanded, Recovered, RecoveredStatus, Claimed, Finished, AllowedTransitions,
        TaskStatuses, TerminalStatuses, LeasedStatuses, QueueStatuses, Absent
<1>2. QED
  BY <1>1, TypeCorrect, EngineInvariantHolds, PTL DEF Spec, StatusFollowsPolicy

\* A run ends once: by its owner within the lease, or as lost after it.
THEOREM RunsEnd == Spec => RunsEndOnce
<1>1. TypeOK /\ EngineInvariant /\ [Next]_vars => LegalRunStep
  <2> SUFFICES ASSUME TypeOK, EngineInvariant, [Next]_vars, NEW t \in Tasks
               PROVE  LegalHistoryChange(t)
    BY DEF LegalRunStep
  <2>1. RunsNumbered(t) /\ OwnershipRecorded(t) /\ runs[t] \in Seq(Run)
    BY DEF EngineInvariant, TypeOK, DatabaseTypeOK
  <2>2. CASE SameRow(t) \/ Commanded(t)
    BY <2>1, <2>2 DEF SameRow, Commanded, LegalHistoryChange
  <2>3. CASE Claimed(t)
    <3>1. [token |-> Len(runs[t]) + 1, status |-> "running"] \in Run
      BY <2>1 DEF Run, RunStatuses
    <3>2. QED
      BY <2>1, <2>3, <3>1, AppendRunProperties DEF Claimed, LegalHistoryChange
  <2>4. CASE Recovered(t)
    <3>1. "lost" \in RunStatuses \ {"running"}
      BY DEF RunStatuses
    <3>2. QED
      BY <2>1, <2>4, <3>1, CloseOwnRun
      DEF Recovered, RunsNumbered, OwnershipRecorded, LegalHistoryChange, EntitledToEnd
  <2>5. ASSUME NEW w \in Workers, Finished(t, w) PROVE LegalHistoryChange(t)
    <3>1. TaskToRunStatus[status'[t]] \in RunStatuses \ {"running", "lost"}
      BY <2>5, RunStatusTypes DEF Finished, TaskStatuses, LeasedStatuses
    <3>2. /\ token[t] \in 1 .. Len(runs[t]) /\ Len(runs'[t]) = Len(runs[t])
          /\ \A n \in 1 .. Len(runs[t]) :
               /\ runs'[t][n].token = n
               /\ runs'[t][n].status = IF n = token[t] THEN TaskToRunStatus[status'[t]]
                                       ELSE runs[t][n].status
               /\ n # token[t] => runs'[t][n] = runs[t][n]
      BY <2>1, <2>5, <3>1, CloseOwnRun DEF Finished
    <3>3. EntitledToEnd(t, token[t])
      BY <2>1, <2>5, <3>1, <3>2 DEF Finished, RunsNumbered, EntitledToEnd
    <3>4. QED
      BY <2>1, <3>2, <3>3 DEF RunsNumbered, OwnershipRecorded, LegalHistoryChange
  <2>6. QED
    BY <2>2, <2>3, <2>4, <2>5, RowStep DEF rowVars, SameRow
<1>2. QED
  BY <1>1, TypeCorrect, EngineInvariantHolds, PTL DEF Spec, RunsEndOnce

\* Under a closed gate a drained queue stays drained.
THEOREM DrainIsStable == Spec => DrainHolds
<1>1. TypeOK /\ EngineInvariant /\ [Next]_vars => (Drained /\ gateClosed' => Drained')
  <2> SUFFICES ASSUME TypeOK, EngineInvariant, [Next]_vars, Drained, gateClosed'
               PROVE  Drained'
    OBVIOUS
  <2>1. ASSUME NEW v \in Workers PROVE pc'[v] # "claim"
    <3>1. pc[v] # "claim" /\ pc \in [Workers -> Phases]
      BY DEF Drained, TypeOK, WorkerTypeOK
    <3>2. ASSUME NEW w \in Workers, EvaluateGate(w) PROVE pc'[v] # "claim"
      BY <3>1, <3>2 DEF EvaluateGate, Drained
    <3>3. ASSUME NEW w \in Workers, Cycle(w) PROVE pc'[v] # "claim"
      BY <3>1, <3>2, <3>3
      DEF Cycle, BeginCycle, RecoverExpiredLease, SkipLease, ClaimNext, ClaimNothing,
          DiscardOutcome, HeartbeatFailureEndsProcess, ReadForFinish, FinishRun,
          FinishRejected, Forget
    <3>4. ASSUME NEW w \in Workers,
                 \/ Return(w) \/ Heartbeat(w) \/ HeartbeatLost(w) \/ HeartbeatRaises(w)
                 \/ ObserveCancel(w) \/ Crash(w) \/ Restart(w)
          PROVE  pc'[v] # "claim"
      BY <3>1, <3>4
      DEF Return, HandlerReturns, Heartbeat, HeartbeatLost, HeartbeatRaises, ObserveCancel,
          Crash, Restart, workerVars
    <3>5. ASSUME NEW t \in Tasks, Command(t) \/ BecomeDue(t) PROVE pc' = pc
      BY <3>5 DEF Command, CreateTask, CancelQueued, RequestCancel, Resume, BecomeDue, workerVars
    <3>6. CASE SwitchGate \/ Tick \/ Stall \/ UNCHANGED vars
      BY <3>1, <3>6 DEF SwitchGate, Tick, Stall, TimePasses, vars, workerVars
    <3>7. QED
      BY <3>1, <3>3, <3>4, <3>5, <3>6 DEF Next
  <2>2. \A t \in Tasks : token'[t] = NoToken
    BY RowStep
    DEF Drained, rowVars, SameRow, Commanded, Recovered, Claimed, Finished
  <2>3. QED
    BY <2>1, <2>2 DEF Drained
<1>2. QED
  BY <1>1, TypeCorrect, EngineInvariantHolds, PTL DEF Spec, DrainHolds

-------------------------------------------------------------------------------
(***************************************************************************)
(* The retry ledger: two tables count the same failures.                   *)
(***************************************************************************)

\* The number of failed or lost runs after a step, in terms of the row.
LEMMA FailuresStep ==
  ASSUME TypeOK, EngineInvariant, [Next]_vars, NEW t \in Tasks
  PROVE  /\ Cardinality(FailedRuns(t)) \in Nat
         /\ SameRow(t) \/ Commanded(t) \/ Claimed(t) =>
              Cardinality(FailedRuns(t))' = Cardinality(FailedRuns(t))
         /\ Recovered(t) =>
              Cardinality(FailedRuns(t))' = Cardinality(FailedRuns(t)) + 1
         /\ \A w \in Workers : Finished(t, w) =>
              Cardinality(FailedRuns(t))' =
                IF status'[t] \in {"retry", "failed"} THEN Cardinality(FailedRuns(t)) + 1
                ELSE Cardinality(FailedRuns(t))
<1>1. RunsNumbered(t) /\ OwnershipRecorded(t) /\ runs[t] \in Seq(Run)
  BY DEF EngineInvariant, TypeOK, DatabaseTypeOK
<1>2. IsFiniteSet(FailedRuns(t))
  <2>1. IsFiniteSet(1 .. Len(runs[t]))
    BY <1>1, FS_Interval
  <2>2. FailedRuns(t) \subseteq 1 .. Len(runs[t])
    BY DEF FailedRuns
  <2>3. QED
    BY <2>1, <2>2, FS_Subset
<1>3. Cardinality(FailedRuns(t)) \in Nat
  BY <1>2, FS_CardinalityType
<1>4. SameRow(t) \/ Commanded(t) => FailedRuns(t)' = FailedRuns(t)
  BY DEF SameRow, Commanded, FailedRuns
<1>5. Claimed(t) => FailedRuns(t)' = FailedRuns(t)
  BY <1>1, HistoryAppended DEF Claimed
<1>6. ASSUME NEW s \in RunStatuses \ {"running"}, token[t] # NoToken,
             runs'[t] = CloseRun(runs[t], token[t], s)
      PROVE  Cardinality(FailedRuns(t))' =
               IF s \in {"failed", "lost"} THEN Cardinality(FailedRuns(t)) + 1
               ELSE Cardinality(FailedRuns(t))
  <2>1. /\ token[t] \notin FailedRuns(t)
        /\ FailedRuns(t)' = IF s \in {"failed", "lost"} THEN FailedRuns(t) \cup {token[t]}
                            ELSE FailedRuns(t)
    BY <1>1, <1>6, HistoryClosed
  <2>2. Cardinality(FailedRuns(t) \cup {token[t]}) = Cardinality(FailedRuns(t)) + 1
    BY <1>2, <2>1, FS_AddElement
  <2>3. QED
    BY <2>1, <2>2
<1>7. Recovered(t) => Cardinality(FailedRuns(t))' = Cardinality(FailedRuns(t)) + 1
  BY <1>6 DEF Recovered, RunStatuses
<1>8. ASSUME NEW w \in Workers, Finished(t, w)
      PROVE  Cardinality(FailedRuns(t))' =
               IF status'[t] \in {"retry", "failed"} THEN Cardinality(FailedRuns(t)) + 1
               ELSE Cardinality(FailedRuns(t))
  <2> DEFINE s == TaskToRunStatus[status'[t]]
  <2>1. /\ s \in RunStatuses \ {"running"}
        /\ s \in {"failed", "lost"} <=> status'[t] \in {"retry", "failed"}
    BY <1>8 DEF Finished, TaskToRunStatus, TaskStatuses, LeasedStatuses, RunStatuses
  <2>2. QED
    BY <1>6, <1>8, <2>1 DEF Finished
<1>9. QED
  BY <1>3, <1>4, <1>5, <1>7, <1>8

\* retry_count is exactly the number of runs that failed or were lost.
THEOREM LedgerBalances == Spec => []RetryLedger
<1>1. Init => RetryLedger
  <2> SUFFICES ASSUME Init, NEW t \in Tasks PROVE retryCount[t] = Cardinality(FailedRuns(t))
    BY DEF RetryLedger
  <2>1. FailedRuns(t) = {}
    BY DEF Init, FailedRuns
  <2>2. QED
    BY <2>1, FS_EmptySet DEF Init
<1>2. TypeOK /\ EngineInvariant /\ RetryLedger /\ [Next]_vars => RetryLedger'
  <2> SUFFICES ASSUME TypeOK, EngineInvariant, RetryLedger, [Next]_vars, NEW t \in Tasks
               PROVE  retryCount'[t] = Cardinality(FailedRuns(t))'
    BY DEF RetryLedger
  <2>1. retryCount[t] = Cardinality(FailedRuns(t))
    BY DEF RetryLedger
  <2>2. \/ SameRow(t) \/ Commanded(t) \/ Recovered(t) \/ Claimed(t)
        \/ \E w \in Workers : Finished(t, w)
    BY RowStep DEF rowVars, SameRow
  <2>3. QED
    BY <2>1, <2>2, FailuresStep DEF SameRow, Commanded, Recovered, Claimed, Finished
<1>3. QED
  BY <1>1, <1>2, TypeCorrect, EngineInvariantHolds, PTL DEF Spec

-------------------------------------------------------------------------------
(***************************************************************************)
(* The engine implements the abstract life of a task.                      *)
(***************************************************************************)

\* The empty database is an initial state of the lifecycle.
LEMMA InitRefines == Init => Lifecycle!Init
<1> SUFFICES ASSUME Init PROVE Lifecycle!Init
  OBVIOUS
<1>1. ASSUME NEW t \in Tasks
      PROVE  /\ AbstractState(t) = "absent"
             /\ ActiveRuns(t) = {}
             /\ Cardinality(FailedRuns(t)) = 0
  <2>1. FailedRuns(t) = {} /\ ActiveRuns(t) = {}
    BY DEF Init, FailedRuns, ActiveRuns
  <2>2. QED
    BY <2>1, FS_EmptySet DEF Init, AbstractState, QueueStatuses, Absent
<1>2. QED
  BY <1>1 DEF Lifecycle!Init

\* A step that writes the row of t is a step in the life of t; any other step
\* is none.
LEMMA StepRefines ==
  ASSUME TypeOK, EngineInvariant, RetryLedger, [Next]_vars
  PROVE  [Lifecycle!Next]_(Lifecycle!vars)
<1> DEFINE state == [t \in Tasks |-> AbstractState(t)]
           attempting == [t \in Tasks |-> ActiveRuns(t) # {}]
           failures == [t \in Tasks |-> Cardinality(FailedRuns(t))]
<1>1. ASSUME NEW u \in Tasks, SameRow(u)
      PROVE  /\ AbstractState(u)' = AbstractState(u)
             /\ (ActiveRuns(u) # {})' = (ActiveRuns(u) # {})
             /\ Cardinality(FailedRuns(u))' = Cardinality(FailedRuns(u))
  BY <1>1 DEF SameRow, AbstractState, ActiveRuns, FailedRuns
<1>2. CASE UNCHANGED rowVars
  <2>1. state' = state /\ attempting' = attempting /\ failures' = failures
    BY <1>1, <1>2 DEF rowVars, SameRow
  <2>2. QED
    BY <2>1 DEF Lifecycle!vars
<1>3. ASSUME NEW t \in Tasks, \A u \in Tasks \ {t} : SameRow(u)
      PROVE  /\ state' = [state EXCEPT ![t] = AbstractState(t)']
             /\ attempting' = [attempting EXCEPT ![t] = (ActiveRuns(t) # {})']
             /\ failures' = [failures EXCEPT ![t] = Cardinality(FailedRuns(t))']
  BY <1>1, <1>3
<1>4. ASSUME NEW t \in Tasks
      PROVE  /\ RunsNumbered(t) /\ OwnershipRecorded(t)
             /\ retryCount[t] = Cardinality(FailedRuns(t))
             /\ retryCount[t] \in Nat /\ MaxRetries \in Nat
             /\ token[t] # NoToken => ActiveRuns(t) # {}
             /\ token[t] = NoToken => ActiveRuns(t) = {}
  <2>1. RunsNumbered(t) /\ OwnershipRecorded(t) /\ token[t] \in Nat
    BY DEF EngineInvariant, TypeOK, DatabaseTypeOK
  <2>2. token[t] # NoToken => token[t] \in ActiveRuns(t)
    BY <2>1 DEF OwnershipRecorded, ActiveRuns, NoToken
  <2>3. token[t] = NoToken => ActiveRuns(t) = {}
    BY <2>1 DEF OwnershipRecorded, ActiveRuns, NoToken
  <2>4. QED
    BY <2>1, <2>2, <2>3, TaskEngineAssumption
    DEF TaskEngineAssumption, RetryLedger, TypeOK, DatabaseTypeOK
<1>5. ASSUME NEW t \in Tasks, \A u \in Tasks \ {t} : SameRow(u), Commanded(t)
      PROVE  Lifecycle!Next
  <2>1. attempting' = attempting /\ failures' = failures
    <3>1. ActiveRuns(t)' = ActiveRuns(t)
      BY <1>5 DEF Commanded, ActiveRuns
    <3>2. Cardinality(FailedRuns(t))' = Cardinality(FailedRuns(t))
      BY <1>5, FailuresStep
    <3>3. QED
      BY <1>3, <1>5, <3>1, <3>2
  <2>2. state' = [state EXCEPT ![t] = AbstractState(t)']
    BY <1>3, <1>5
  <2>3. \/ /\ token[t] = NoToken /\ state[t] = "absent" /\ AbstractState(t)' = "queued"
        \/ /\ token[t] = NoToken /\ state[t] \in {"queued", "blocked"}
           /\ AbstractState(t)' = "cancelled"
        \/ /\ token[t] = NoToken /\ state[t] = "blocked" /\ AbstractState(t)' = "queued"
        \/ /\ token[t] # NoToken /\ state[t] = "running" /\ AbstractState(t)' = "stopping"
    BY <1>5 DEF Commanded, AbstractState, QueueStatuses, Absent
  <2>4. QED
    BY <1>4, <2>1, <2>2, <2>3
    DEF Lifecycle!Next, Lifecycle!Submit, Lifecycle!Unblock, Lifecycle!Withdraw,
        Lifecycle!AskToStop, Lifecycle!Move
<1>6. ASSUME NEW t \in Tasks, \A u \in Tasks \ {t} : SameRow(u), Claimed(t)
      PROVE  Lifecycle!Next
  <2>1. ActiveRuns(t) = {} /\ ActiveRuns(t)' # {} /\ FailedRuns(t)' = FailedRuns(t)
    BY <1>4, <1>6, HistoryAppended DEF Claimed
  <2>2. attempting' = [attempting EXCEPT ![t] = TRUE] /\ failures' = failures
    BY <1>3, <1>6, <2>1
  <2>3. state' = [state EXCEPT ![t] = AbstractState(t)']
    BY <1>3, <1>6
  <2>4. \/ state[t] = "queued" /\ AbstractState(t)' = "running"
        \/ state[t] = "stopping" /\ AbstractState(t)' = "stopping"
    BY <1>6 DEF Claimed, AbstractState, QueueStatuses
  <2>5. Lifecycle!Start(t)
    BY <2>1, <2>2, <2>3, <2>4 DEF Lifecycle!Start, Lifecycle!Move
  <2>6. QED
    BY <2>5 DEF Lifecycle!Next
<1>7. ASSUME NEW t \in Tasks, NEW s \in RunStatuses \ {"running"}, token[t] # NoToken,
             \A u \in Tasks \ {t} : SameRow(u),
             runs'[t] = CloseRun(runs[t], token[t], s)
      PROVE  /\ Lifecycle!EndAttempt(t)
             /\ state' = [state EXCEPT ![t] = AbstractState(t)']
  <2>1. ActiveRuns(t) # {} /\ ActiveRuns(t)' = {}
    BY <1>4, <1>7, HistoryClosed
  <2>2. attempting[t] /\ attempting' = [attempting EXCEPT ![t] = FALSE]
    BY <1>3, <1>7, <2>1
  <2>3. QED
    BY <1>3, <1>7, <2>2 DEF Lifecycle!EndAttempt
<1>8. ASSUME NEW t \in Tasks, \A u \in Tasks \ {t} : SameRow(u), Recovered(t)
      PROVE  Lifecycle!Next
  <2>1. /\ Lifecycle!EndAttempt(t)
        /\ state' = [state EXCEPT ![t] = AbstractState(t)']
    BY <1>7, <1>8 DEF Recovered, RunStatuses
  <2>2. failures' = [failures EXCEPT ![t] = failures[t] + 1]
    BY <1>3, <1>8, FailuresStep
  <2>3. \/ /\ state[t] = "running"
           /\ AbstractState(t)' = IF failures[t] < MaxRetries THEN "queued" ELSE "failed"
        \/ state[t] = "stopping" /\ AbstractState(t)' = "stopping"
    BY <1>4, <1>8
    DEF Recovered, RecoveredStatus, AbstractState, LeasedStatuses, QueueStatuses
  <2>4. Lifecycle!Lose(t)
    BY <2>1, <2>2, <2>3 DEF Lifecycle!Lose, Lifecycle!Move
  <2>5. QED
    BY <2>4 DEF Lifecycle!Next
<1>9. ASSUME NEW t \in Tasks, NEW w \in Workers, \A u \in Tasks \ {t} : SameRow(u),
             Finished(t, w)
      PROVE  Lifecycle!Next
  <2>1. /\ Lifecycle!EndAttempt(t)
        /\ state' = [state EXCEPT ![t] = AbstractState(t)']
    <3>1. TaskToRunStatus[status'[t]] \in RunStatuses \ {"running"}
      BY <1>9, RunStatusTypes DEF Finished, TaskStatuses, LeasedStatuses
    <3>2. QED
      BY <1>7, <1>9, <3>1 DEF Finished
  <2>2. failures' = [failures EXCEPT ![t] = IF status'[t] \in {"retry", "failed"}
                                           THEN failures[t] + 1 ELSE failures[t]]
    BY <1>3, <1>9, FailuresStep
  <2>3. CASE status'[t] \in {"retry", "failed"}
    <3>1. /\ state[t] = "running"
          /\ \/ AbstractState(t)' = "failed"
             \/ AbstractState(t)' = "queued" /\ failures[t] < MaxRetries
      BY <1>4, <1>9, <2>3 DEF Finished, AbstractState, QueueStatuses
    <3>2. failures' = [failures EXCEPT ![t] = failures[t] + 1]
      BY <2>2, <2>3
    <3>3. Lifecycle!Fail(t)
      BY <2>1, <3>1, <3>2 DEF Lifecycle!Fail, Lifecycle!Move
    <3>4. QED
      BY <3>3 DEF Lifecycle!Next
  <2>4. CASE status'[t] \notin {"retry", "failed"}
    <3>1. \/ /\ state[t] = "running"
             /\ AbstractState(t)' \in {"queued", "success", "blocked"}
          \/ state[t] = "stopping" /\ AbstractState(t)' \in {"cancelled", "success"}
      BY <1>9, <2>4 DEF Finished, AbstractState, QueueStatuses
    <3>2. failures' = failures
      BY <2>2, <2>4
    <3>3. \/ Lifecycle!Succeed(t) \/ Lifecycle!Stop(t) \/ Lifecycle!Yield(t)
          \/ Lifecycle!Block(t)
      BY <2>1, <3>1, <3>2
      DEF Lifecycle!Succeed, Lifecycle!Stop, Lifecycle!Yield, Lifecycle!Block, Lifecycle!Move
    <3>4. QED
      BY <3>3 DEF Lifecycle!Next
  <2>5. QED
    BY <2>3, <2>4
<1>10. QED
  BY <1>2, <1>5, <1>6, <1>8, <1>9, RowStep

\* The queue, its Workers and its users implement the life of a task: one
\* attempt at a time, a bounded number of failures, ends that are final.
THEOREM EngineImplementsLifecycle == Spec => ImplementsLifecycle
<1>1. QED
  BY InitRefines, StepRefines, TypeCorrect, EngineInvariantHolds, LedgerBalances, PTL
  DEF Spec, ImplementsLifecycle, Lifecycle!Spec

===============================================================================
