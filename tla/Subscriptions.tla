----------------------------- MODULE Subscriptions -----------------------------
(***************************************************************************)
(* One subscription and its scans: requests of the API create, edit, scan  *)
(* and delete it, the Scheduler queues a scan whenever it is due, Workers  *)
(* execute the scans (mode "process"), or the API process does so itself   *)
(* (mode "legacy").                                                        *)
(*                                                                         *)
(* The database begins a transaction at the first write, so that what a    *)
(* request, a Scheduler cycle or a scan has read may be old when it        *)
(* writes; each reads and writes in steps of its own.  A session writes    *)
(* only the columns it changed, compared with the row as it read it.  The  *)
(* queue is reduced to what TaskEngine shows of it, and what a scan finds  *)
(* is the matter of Scan.                                                  *)
(***************************************************************************)
EXTENDS Naturals, Sequences, FiniteSets

CONSTANTS
  Schedulers,   \* Scheduler processes, which overlap when one is replaced
  Clients,      \* threads of the API
  Workers,      \* whatever executes scans
  Modes,        \* background_execution_mode: some of "process", "legacy"
  Intervals,    \* what a schedule may ask for
  MaxTime,      \* bound: the clock
  MaxTasks,     \* bound: rows of the tasks table
  MaxEvents     \* bound: edits of the subscription and deaths of a process

ASSUME SubscriptionsAssumption ==
  /\ Modes \subseteq {"process", "legacy"}
  /\ Schedulers \cup Clients \subseteq Nat
  /\ Intervals \subseteq Nat \ {0}
  /\ {MaxTime, MaxTasks, MaxEvents} \subseteq Nat

TaskStatuses == {"pending", "running", "retry", "waiting_credential", "success", "failed"}
Terminal == {"success", "failed"}
Failures == {"retry", "failed", "waiting_credential"}

\* A NULL, of next_scan_at for instance.
None == 0

\* next is next_scan_at.  The status that is shown is left out: it is written, and
\* read by no decision.
Subscription ==
  [state : {"absent", "present", "deleted"}, enabled : BOOLEAN,
   interval : Intervals, next : Nat]

\* slot is the due time in the key of a scheduled scan; linked is FALSE once
\* the deletion of the subscription has cleared subscription_id.
Task == [status : TaskStatuses, slot : Nat, linked : BOOLEAN]

\* A PATCH: what it leaves unset is "keep", or None.
Patch == [enabled : {"keep", "on", "off"}, interval : Intervals \cup {None}]

VARIABLES
  mode, now,
  sub,          \* the row of the subscription
  tasks,        \* its scans
  job,          \* legacy: whether APScheduler has a job for it
  clockRead,    \* whether a Scheduler or a request has read the clock as it is now
  cycle,        \* of each Scheduler: how far its cycle is, and what it read
  request,      \* of each client: likewise
  scan,         \* of each Worker: likewise
  events,       \* edits, and processes that died
  late          \* history: whether a cycle wrote a due time of the past, see DueIsFree

vars == <<mode, now, sub, tasks, job, clockRead, cycle, request, scan, events, late>>

NoRow == [state |-> "absent", enabled |-> FALSE, interval |-> None, next |-> None]
NoCycle == [pc |-> "idle", row |-> [next |-> None, interval |-> None], at |-> 0, active |-> FALSE]
NoRequest == [pc |-> "idle", row |-> NoRow]
NoScan == [pc |-> "idle", task |-> 0, outcome |-> "none"]

Active == {t \in DOMAIN tasks : tasks[t].linked /\ tasks[t].status \notin Terminal}

TypeOK ==
  /\ mode \in Modes /\ now \in 0 .. MaxTime
  /\ {job, clockRead, late} \subseteq BOOLEAN
  /\ sub \in Subscription
  /\ tasks \in Seq(Task) /\ Len(tasks) <= MaxTasks
  /\ cycle \in [Schedulers ->
       [pc : {"idle", "due", "looked"}, row : [next : Nat, interval : Intervals \cup {None}],
        at : 0 .. MaxTime, active : BOOLEAN]]
  /\ request \in [Clients ->
       [pc : {"idle", "scan", "edit", "delete"}, row : Subscription \cup {NoRow}]]
  /\ scan \in [Workers ->
       [pc : {"idle", "start", "scanning", "finish"}, task : 0 .. MaxTasks,
        outcome : Failures \cup {"none", "success"}]]
  /\ events \in 0 .. MaxEvents

Init ==
  /\ mode \in Modes
  /\ now = 0
  /\ clockRead = FALSE
  /\ sub \in [state : {"absent"}, enabled : {FALSE}, interval : Intervals, next : {None}]
  /\ tasks = << >>
  /\ job = FALSE
  /\ cycle = [s \in Schedulers |-> NoCycle]
  /\ request = [c \in Clients |-> NoRequest]
  /\ scan = [w \in Workers |-> NoScan]
  /\ events = 0
  /\ late = FALSE

Present == sub.state = "present"
\* Which of several threads or processes does something does not matter.
FirstIdle(i, all, state) ==
  state[i].pc = "idle" /\ \A j \in all : j < i => state[j].pc # "idle"
NewTask(slot) == [status |-> "pending", slot |-> slot, linked |-> TRUE]
SetStatus(t, s) == tasks' = [tasks EXCEPT ![t].status = s]

\* Two processes never read the clock at the same microsecond; at the bound of
\* the clock it does no harm, as what they compute is never due.
NewInstant == now < MaxTime => ~clockRead

-------------------------------------------------------------------------------
(***************************************************************************)
(* The API.                                                                *)
(***************************************************************************)

\* add_subscription
CreateSubscription(enabled, i) ==
  /\ sub.state = "absent"
  /\ sub' = [state |-> "present", enabled |-> enabled, interval |-> i,
             next |-> IF enabled THEN now + i ELSE None]
  /\ job' = (mode = "legacy" /\ enabled)
  /\ UNCHANGED <<mode, now, tasks, clockRead, cycle, request, scan, events, late>>

\* patch_subscription reads the row ...
ReadForEdit(c) ==
  /\ FirstIdle(c, Clients, request)
  /\ Present
  /\ events < MaxEvents
  /\ events' = events + 1
  /\ request' = [request EXCEPT ![c] = [pc |-> "edit", row |-> sub]]
  /\ UNCHANGED <<mode, now, sub, tasks, job, clockRead, cycle, scan, late>>

\* What a session writes: a column that has changed since it was read.
Written(read, new, stored) == IF new = read THEN stored ELSE new

\* An edit that leaves the subscription enabled starts its interval anew.
NextAfterEdit(row, p, enabled, every) == IF enabled THEN now + every ELSE None

\* ... and update_subscription computes the new one from it.
EditSubscription(c, p) ==
  LET row     == request[c].row
      enabled == IF p.enabled = "keep" THEN row.enabled ELSE p.enabled = "on"
      every   == IF p.interval = None THEN row.interval ELSE p.interval
      next    == NextAfterEdit(row, p, enabled, every)
  IN
  /\ request[c].pc = "edit"
  /\ NewInstant
  /\ clockRead' = TRUE
  /\ request' = [request EXCEPT ![c] = NoRequest]
  /\ IF Present
     THEN /\ sub' = [sub EXCEPT !.enabled  = Written(row.enabled, enabled, @),
                                !.interval = Written(row.interval, every, @),
                                !.next     = Written(row.next, next, @)]
          /\ job' = (mode = "legacy" /\ enabled)
     ELSE UNCHANGED <<sub, job>>
  /\ UNCHANGED <<mode, now, tasks, cycle, scan, events, late>>

\* enqueue_manual_scan looks for an active scan, which would answer ...
LookForManualScan(c) ==
  /\ FirstIdle(c, Clients, request)
  /\ Present /\ sub.enabled
  /\ Active = {}
  /\ request' = [request EXCEPT ![c] = [pc |-> "scan", row |-> NoRow]]
  /\ UNCHANGED <<mode, now, sub, tasks, job, clockRead, cycle, scan, events, late>>

\* ... and inserts one, unless the subscription is gone: a foreign key.
InsertManualScan(c) ==
  /\ request[c].pc = "scan"
  /\ request' = [request EXCEPT ![c] = NoRequest]
  /\ IF Present
     THEN Len(tasks) < MaxTasks /\ tasks' = Append(tasks, NewTask(None))
     ELSE UNCHANGED tasks
  /\ UNCHANGED <<mode, now, sub, job, clockRead, cycle, scan, events, late>>

\* delete_subscription looks for active tasks ...
LookForDeletion(c) ==
  /\ FirstIdle(c, Clients, request)
  /\ Present
  /\ Active = {}
  /\ request' = [request EXCEPT ![c] = [pc |-> "delete", row |-> NoRow]]
  /\ UNCHANGED <<mode, now, sub, tasks, job, clockRead, cycle, scan, events, late>>

\* ... and detaches the history, whatever has been queued since.
DeleteSubscription(c) ==
  /\ request[c].pc = "delete"
  /\ request' = [request EXCEPT ![c] = NoRequest]
  /\ IF Present
     THEN /\ tasks' = [t \in DOMAIN tasks |-> [tasks[t] EXCEPT !.linked = FALSE]]
          /\ sub' = [sub EXCEPT !.state = "deleted", !.enabled = FALSE, !.next = None]
          /\ job' = FALSE
     ELSE UNCHANGED <<tasks, sub, job>>
  /\ UNCHANGED <<mode, now, clockRead, cycle, scan, events, late>>

-------------------------------------------------------------------------------
(***************************************************************************)
(* The Scheduler: one cycle, as far as it concerns this subscription.      *)
(***************************************************************************)

\* The due rows are read, after the gate and the clock.
ReadDue(s) ==
  /\ mode = "process"
  /\ FirstIdle(s, Schedulers, cycle)
  /\ Present /\ sub.enabled
  /\ sub.next # None /\ sub.next <= now
  /\ NewInstant
  /\ clockRead' = TRUE
  /\ cycle' = [cycle EXCEPT ![s] =
       [pc |-> "due", row |-> [next |-> sub.next, interval |-> sub.interval],
        at |-> now, active |-> FALSE]]
  /\ UNCHANGED <<mode, now, sub, tasks, job, request, scan, events, late>>

LookForActive(s) ==
  /\ cycle[s].pc = "due"
  /\ cycle' = [cycle EXCEPT ![s].pc = "looked", ![s].active = Active # {}]
  /\ UNCHANGED <<mode, now, sub, tasks, job, clockRead, request, scan, events, late>>

\* _scheduled_scan_key: scan:<id>:scheduled:<due>, unique.
KeyTaken(due) == \E t \in DOMAIN tasks : tasks[t].slot = due

\* Fault: the next scan is due an interval after the last due time.
NextDueFromSlot(c) == c.row.next + c.row.interval

\* now + delta: slots missed meanwhile are not made up for.
NextDue(c) == c.at + c.row.interval

\* No edit changes the interval.
OneInterval == \A i, j \in Intervals : i = j

\* The cycle is one transaction, which a taken key, or a row that is gone,
\* undoes altogether.
CommitCycle(s) ==
  LET c == cycle[s]
  IN
  /\ c.pc = "looked"
  /\ cycle' = [cycle EXCEPT ![s] = NoCycle]
  /\ IF ~Present \/ (~c.active /\ KeyTaken(c.row.next))
     THEN UNCHANGED <<sub, tasks, late>>
     ELSE /\ sub' = [sub EXCEPT !.next = NextDue(c)]
          /\ late' = (late \/ (~OneInterval /\ NextDue(c) <= now))
          /\ IF c.active THEN UNCHANGED tasks
             ELSE Len(tasks) < MaxTasks /\ tasks' = Append(tasks, NewTask(c.row.next))
  /\ UNCHANGED <<mode, now, job, clockRead, request, scan, events>>

Tick ==
  /\ now < MaxTime
  /\ now' = now + 1
  /\ clockRead' = FALSE
  /\ UNCHANGED <<mode, sub, tasks, job, cycle, request, scan, events, late>>

-------------------------------------------------------------------------------
(***************************************************************************)
(* The execution of a scan by a Worker.                                    *)
(***************************************************************************)
Scanning(t) == \E w \in Workers : scan[w].task = t /\ scan[w].pc # "idle"
Goto(w, p, o) == scan' = [scan EXCEPT ![w].pc = p, ![w].outcome = o]

ClaimScan(w, t) ==
  /\ mode = "process"
  /\ scan[w].pc = "idle"
  /\ tasks[t].status \in {"pending", "retry"}
  /\ SetStatus(t, "running")
  /\ scan' = [scan EXCEPT ![w] = [pc |-> "start", task |-> t, outcome |-> "none"]]
  /\ UNCHANGED <<mode, now, sub, job, clockRead, cycle, request, events, late>>

\* Fault: a paused subscription is tried again later.
RefusalLater == "retry"

\* A subscription that is paused, or gone, is not scanned.
Refusal == "failed"

StartScan(w) ==
  /\ mode = "process"
  /\ scan[w].pc = "start"
  /\ IF Present /\ sub.enabled /\ tasks[scan[w].task].linked
     THEN Goto(w, "scanning", "none")
     ELSE Goto(w, "finish", Refusal)
  /\ UNCHANGED <<mode, now, sub, tasks, job, clockRead, cycle, request, events, late>>

\* A Worker leaves the due time to the Scheduler.
ScanSucceeds(w) ==
  /\ scan[w].pc = "scanning"
  /\ Present
  /\ sub' = [sub EXCEPT !.next = IF mode = "legacy" THEN now + sub.interval ELSE @]
  /\ Goto(w, "finish", "success")
  /\ UNCHANGED <<mode, now, tasks, job, clockRead, cycle, request, events, late>>

\* In legacy mode a failed scan is over.
ScanFails(w, o) ==
  /\ scan[w].pc = "scanning"
  /\ mode = "legacy" => o = "failed"
  /\ Goto(w, "finish", o)
  /\ UNCHANGED <<mode, now, sub, tasks, job, clockRead, cycle, request, events, late>>

\* _finish; a retry may have used up the budget.
FinishScan(w) ==
  /\ scan[w].pc = "finish"
  /\ \E s \in {scan[w].outcome} \cup (IF scan[w].outcome = "retry" THEN {"failed"} ELSE {}) :
       SetStatus(scan[w].task, s)
  /\ scan' = [scan EXCEPT ![w] = NoScan]
  /\ UNCHANGED <<mode, now, sub, job, clockRead, cycle, request, events, late>>

\* The Worker dies; nothing touches the subscription.
WorkerDies(w) ==
  /\ mode = "process"
  /\ scan[w].pc # "idle"
  /\ events < MaxEvents
  /\ events' = events + 1
  /\ scan' = [scan EXCEPT ![w] = NoScan]
  /\ UNCHANGED <<mode, now, sub, tasks, job, clockRead, cycle, request, late>>

\* recover_expired_lease
RecoverScan(t) ==
  /\ mode = "process"
  /\ tasks[t].status = "running"
  /\ ~Scanning(t)
  /\ \E s \in {"retry", "failed"} : SetStatus(t, s)
  /\ UNCHANGED <<mode, now, sub, job, clockRead, cycle, request, scan, events, late>>

-------------------------------------------------------------------------------
(***************************************************************************)
(* Legacy execution, in the API process.                                   *)
(***************************************************************************)

\* run_scan_by_id, from the job or behind a manual request: the latest scan
\* that waits is executed, or a new one; a running one answers.
RunLegacyScan(w) ==
  LET waiting == {t \in Active : tasks[t].status \in {"pending", "running"}}
  IN
  /\ mode = "legacy"
  /\ scan[w].pc = "idle"
  /\ Present /\ sub.enabled
  /\ job \/ waiting # {}
  /\ IF waiting # {}
     THEN \E latest \in waiting :
            /\ \A u \in waiting : u <= latest
            /\ tasks[latest].status = "pending"
            /\ SetStatus(latest, "running")
            /\ scan' = [scan EXCEPT ![w] = [pc |-> "scanning", task |-> latest, outcome |-> "none"]]
     ELSE /\ Len(tasks) < MaxTasks
          /\ tasks' = Append(tasks, [NewTask(None) EXCEPT !.status = "running"])
          /\ scan' = [scan EXCEPT ![w] =
               [pc |-> "scanning", task |-> Len(tasks) + 1, outcome |-> "none"]]
  /\ UNCHANGED <<mode, now, sub, job, clockRead, cycle, request, events, late>>

\* The process restarts: start_scheduler gives up the scans that were running
\* and makes the jobs anew; requests and executions are gone.
RestartLegacy ==
  /\ mode = "legacy"
  /\ events < MaxEvents
  /\ events' = events + 1
  /\ tasks' = [t \in DOMAIN tasks |->
       IF tasks[t].status = "running" THEN [tasks[t] EXCEPT !.status = "failed"] ELSE tasks[t]]
  /\ job' = (Present /\ sub.enabled)
  /\ scan' = [w \in Workers |-> NoScan]
  /\ request' = [c \in Clients |-> NoRequest]
  /\ UNCHANGED <<mode, now, sub, clockRead, cycle, late>>

-------------------------------------------------------------------------------
(***************************************************************************)
(* The specification.                                                      *)
(***************************************************************************)
Serve(c) ==
  \/ \E p \in Patch : EditSubscription(c, p)
  \/ InsertManualScan(c)
  \/ DeleteSubscription(c)

Schedule(s) == ReadDue(s) \/ LookForActive(s) \/ CommitCycle(s)

Execute(w) ==
  \/ StartScan(w)
  \/ ScanSucceeds(w)
  \/ \E o \in Failures : ScanFails(w, o)
  \/ FinishScan(w)

\* What a Worker, or a job of the legacy process, does by itself.
Work(w) ==
  \/ \E t \in DOMAIN tasks : ClaimScan(w, t)
  \/ Execute(w)
  \/ RunLegacyScan(w)

Next ==
  \/ \E enabled \in BOOLEAN, i \in Intervals : CreateSubscription(enabled, i)
  \/ \E c \in Clients :
       Serve(c) \/ ReadForEdit(c) \/ LookForManualScan(c) \/ LookForDeletion(c)
  \/ \E s \in Schedulers : Schedule(s)
  \/ \E w \in Workers : Work(w) \/ WorkerDies(w)
  \/ \E t \in DOMAIN tasks : RecoverScan(t)
  \/ RestartLegacy
  \/ Tick

Spec == Init /\ [][Next]_vars

(***************************************************************************)
(* Cycles, Workers and recoveries go on, a legacy job fires, time passes.  *)
(* A request may stop half-way, and one Scheduler while another goes on.   *)
(***************************************************************************)
Fairness ==
  /\ WF_vars(Tick)
  /\ WF_vars(\E s \in Schedulers : Schedule(s))
  /\ WF_vars(\E w \in Workers : Work(w))
  /\ WF_vars(\E t \in DOMAIN tasks : RecoverScan(t))

FairSpec == Spec /\ Fairness

-------------------------------------------------------------------------------
(***************************************************************************)
(* Invariants.                                                             *)
(***************************************************************************)

\* An enabled subscription has a time at which it is due, although two edits, or
\* an edit and a cycle, cross: without one the Scheduler would never look at it
\* again.  A third edit may take it away: see EnabledIsScheduled.
EnabledHasSlot == events <= 2 /\ Present /\ sub.enabled => sub.next # None

\* The same of any number of edits does not hold: a pause that crosses a cycle
\* leaves a due time behind, and of two edits that read it so, one enables the
\* subscription and the other, which finds it paused, clears the due time.
EnabledIsScheduled == Present /\ sub.enabled => sub.next # None

\* Of one due time at most one scan is made, by however many Schedulers.
SlotServedOnce ==
  \A t, u \in DOMAIN tasks :
    tasks[t].slot # None /\ tasks[t].slot = tasks[u].slot => t = u

\* The next due time of a subscription is never one that has been served: its
\* key would undo every cycle from then on, those of other subscriptions too.  A
\* cycle that stalls for longer than its interval may bring one back, if the
\* interval was edited meanwhile: see DueIsAlwaysFree.
DueIsFree ==
  ~late /\ Present /\ sub.enabled /\ sub.next \in 1 .. MaxTime => ~KeyTaken(sub.next)

\* Without the condition: a Scheduler that was stopped between its reading and its
\* commit, while another one served the new due times, writes an old one.
DueIsAlwaysFree ==
  Present /\ sub.enabled /\ sub.next \in 1 .. MaxTime => ~KeyTaken(sub.next)

\* The same subscription is not scanned by two executions at a time.
OneScanAtATime ==
  \A v, w \in Workers : scan[v].pc = "scanning" /\ scan[w].pc = "scanning" => v = w

\* What the Scheduler relies on: each enabled subscription has a due time, and
\* one that no scan has been made for.
SlotsAreSound ==
  /\ TypeOK
  /\ EnabledHasSlot
  /\ SlotServedOnce
  /\ DueIsFree

(***************************************************************************)
(* What must eventually happen.                                            *)
(***************************************************************************)

\* Time and again nothing is due (it is served, skipped or moved, while the
\* table has room for a scan), and a paused subscription has no scan left but one
\* that waits for a credential.
Served == Len(tasks) = MaxTasks \/ ~(Present /\ sub.enabled /\ sub.next <= now)
Drained ==
  ~Present \/ sub.enabled \/ \A t \in Active : tasks[t].status = "waiting_credential"
ScansSettle == mode = "process" => []<>(Served /\ Drained)

\* So that it can be deleted, as the answer to an early deletion says.
PausedCanBeDeleted ==
  mode = "process" /\ Present /\ ~sub.enabled ~> ~Present \/ sub.enabled \/ Active = {}
===============================================================================
