-------------------------- MODULE SubscriptionsProofs --------------------------
(***************************************************************************)
(* Proofs about Subscriptions.  A due time comes from a clock that nobody  *)
(* else read at that instant, or lies ahead of everything that was ever    *)
(* due: so none that has been served comes back.  And that an enabled      *)
(* subscription loses its due time takes three edits, which the invariant  *)
(* follows one by one.                                                     *)
(***************************************************************************)
EXTENDS Subscriptions, TLAPS

-------------------------------------------------------------------------------
(***************************************************************************)
(* The invariant.                                                          *)
(***************************************************************************)
\* A Scheduler cycle under way, and an edit.
InCycle(s) == cycle[s].pc # "idle"
Pending(c) == request[c].pc = "edit"

\* A cycle works on a due time of the past, and no two of them, or a cycle and an edit,
\* have read the clock at the same instant; at the bound of the clock they may.
CyclesSound ==
  \A s \in Schedulers : InCycle(s) =>
    /\ mode = "process" /\ sub.state # "absent"
    /\ cycle[s].row.interval \in Intervals
    /\ cycle[s].row.next \in 1 .. cycle[s].at /\ cycle[s].at <= now
    /\ cycle[s].at = now /\ now < MaxTime => clockRead
    /\ \A r \in Schedulers \ {s} :
         InCycle(r) /\ cycle[r].at = cycle[s].at => cycle[s].at = MaxTime

\* Scans were made for due times of the past, and by the Scheduler only.
SlotsPast ==
  \A t \in DOMAIN tasks :
    tasks[t].slot <= now /\ (mode = "legacy" => tasks[t].slot = None)

\* The due time has not been served, as long as no cycle stalled beyond the one that
\* it wrote, or all intervals are the same; in the latter case the due time that a
\* cycle is going to write is no other's.
NextIsFree ==
  /\ OneInterval \/ ~late =>
       (Present /\ sub.next \in 1 .. MaxTime => ~KeyTaken(sub.next))
  /\ OneInterval =>
       \A s \in Schedulers : InCycle(s) /\ NextDue(cycle[s]) <= MaxTime =>
         /\ sub.next # NextDue(cycle[s])
         /\ ~KeyTaken(NextDue(cycle[s]))
         /\ \A r \in Schedulers \ {s} :
              InCycle(r) => cycle[r].row.next # NextDue(cycle[s])

\* A scan is of a subscription that there was, and ends in one way.
ScansSound ==
  \A w \in Workers :
    /\ scan[w].pc = "scanning" => sub.state # "absent"
    /\ scan[w].pc = "finish" => scan[w].outcome \in TaskStatuses

\* A due time left on a paused subscription, which a later edit may clear.
LeftOver(row) == ~row.enabled /\ row.next # None

\* Nothing is under way that would write a due time.
NothingWrites ==
  /\ \A s \in Schedulers : ~InCycle(s)
  /\ mode = "legacy" => \A w \in Workers : scan[w].pc # "scanning"

\* Each edit is an event.  The first one meets a subscription that is paused without
\* a due time, or enabled; so it takes a second to read one left over, and a third to
\* cross that.
EditsSound ==
  /\ \A c \in Clients : Pending(c) =>
       sub.state # "absent" /\ request[c].row.interval \in Intervals
  /\ events = 0 => \A c \in Clients : ~Pending(c)
  /\ events <= 1 =>
       \A c \in Clients : Pending(c) =>
         ~LeftOver(request[c].row) /\ \A d \in Clients \ {c} : ~Pending(d)
  /\ events = 0 \/ (events = 1 /\ \E c \in Clients : Pending(c)) =>
       (Present /\ ~sub.enabled => sub.next = None /\ NothingWrites)
  /\ events <= 2 =>
       \A c \in Clients : Pending(c) /\ LeftOver(request[c].row) =>
         /\ \A d \in Clients \ {c} : ~Pending(d)
         /\ Present => ~sub.enabled /\ sub.next # None

\* What the subscription, its scans, the cycles and the edits owe each other.
SubscriptionInvariant ==
  /\ TypeOK
  /\ CyclesSound
  /\ SlotsPast
  /\ SlotServedOnce
  /\ NextIsFree
  /\ ScansSound
  /\ EditsSound
  /\ EnabledHasSlot

-------------------------------------------------------------------------------
(***************************************************************************)
(* What the steps do to the kinds of state.                                *)
(***************************************************************************)
\* TypeOK by kinds of state.
RowType ==
  /\ mode \in Modes /\ now \in 0 .. MaxTime
  /\ {job, clockRead, late} \subseteq BOOLEAN
  /\ sub \in Subscription
  /\ events \in 0 .. MaxEvents
TasksType == tasks \in Seq(Task) /\ Len(tasks) <= MaxTasks
CycleType ==
  cycle \in [Schedulers ->
    [pc : {"idle", "due", "looked"}, row : [next : Nat, interval : Intervals \cup {None}],
     at : 0 .. MaxTime, active : BOOLEAN]]
RequestType ==
  request \in [Clients ->
    [pc : {"idle", "scan", "edit", "delete"}, row : Subscription \cup {NoRow}]]
ScanType ==
  scan \in [Workers ->
    [pc : {"idle", "start", "scanning", "finish"}, task : 0 .. MaxTasks,
     outcome : Failures \cup {"none", "success"}]]

\* What TypeOK says of the numbers.
LEMMA Numbers ==
  ASSUME TypeOK
  PROVE  /\ now \in Nat /\ events \in Nat
         /\ MaxTime \in Nat /\ MaxTasks \in Nat /\ MaxEvents \in Nat
         /\ now <= MaxTime /\ events <= MaxEvents
         /\ Intervals \subseteq Nat \ {0} /\ None = 0 /\ mode \in {"process", "legacy"}
         /\ job \in BOOLEAN /\ clockRead \in BOOLEAN /\ late \in BOOLEAN
BY SubscriptionsAssumption DEF SubscriptionsAssumption, TypeOK, None

\* Nor are the rows anything but rows.
LEMMA Rows ==
  ASSUME TypeOK
  PROVE  /\ sub.enabled \in BOOLEAN /\ sub.next \in Nat /\ sub.interval \in Intervals
         /\ sub.state \in {"absent", "present", "deleted"}
         /\ tasks \in Seq(Task) /\ Len(tasks) \in Nat /\ DOMAIN tasks = 1 .. Len(tasks)
         /\ \A t \in DOMAIN tasks : tasks[t] \in Task
         /\ \A t \in DOMAIN tasks : tasks[t].slot \in Nat
<1>1. tasks \in Seq(Task)
  BY DEF TypeOK
<1>2. \A t \in DOMAIN tasks : tasks[t] \in Task
  BY <1>1
<1>3. \A t \in DOMAIN tasks : tasks[t].slot \in Nat
  BY <1>2 DEF Task
<1>4. QED
  BY <1>1, <1>2, <1>3 DEF TypeOK, Subscription

\* Edits, deletions and cycles write these columns only.
LEMMA RowChanged ==
  ASSUME NEW r \in Subscription, NEW x \in {"absent", "present", "deleted"},
         NEW e \in BOOLEAN, NEW n \in Nat
  PROVE  [r EXCEPT !.state = x, !.enabled = e, !.next = n] \in Subscription
BY DEF Subscription

\* What a cycle, an edit and a scan remember is of the rows that they have read.
LEMMA Processes ==
  ASSUME TypeOK
  PROVE  /\ \A s \in Schedulers :
              /\ cycle[s].row.next \in Nat /\ cycle[s].row.interval \in Nat
              /\ cycle[s].at \in Nat /\ cycle[s].at <= MaxTime /\ cycle[s].active \in BOOLEAN
         /\ \A c \in Clients : request[c].row \in Subscription \cup {NoRow}
         /\ \A c \in Clients :
              /\ request[c].row.enabled \in BOOLEAN /\ request[c].row.next \in Nat
              /\ request[c].row.interval \in Intervals \cup {None}
         /\ \A w \in Workers : scan[w].outcome \in Failures \cup {"none", "success"}
<1>1. NoRow.enabled = FALSE /\ NoRow.next = 0 /\ NoRow.interval = None
  BY DEF NoRow, None
<1>2. \A c \in Clients : request[c].row \in Subscription \cup {NoRow}
  BY DEF TypeOK
<1>3. ASSUME NEW c \in Clients
      PROVE  /\ request[c].row.enabled \in BOOLEAN /\ request[c].row.next \in Nat
             /\ request[c].row.interval \in Intervals \cup {None}
  <2>1. CASE request[c].row = NoRow
    BY <2>1, <1>1, 0 \in Nat
  <2>2. CASE request[c].row \in Subscription
    BY <2>2 DEF Subscription
  <2>3. QED
    BY <1>2, <2>1, <2>2
<1>4. ASSUME NEW s \in Schedulers
      PROVE  /\ cycle[s].row.next \in Nat /\ cycle[s].row.interval \in Nat
             /\ cycle[s].at \in Nat /\ cycle[s].at <= MaxTime /\ cycle[s].active \in BOOLEAN
  <2>1. cycle[s] \in [pc : {"idle", "due", "looked"},
                     row : [next : Nat, interval : Intervals \cup {None}],
                     at : 0 .. MaxTime, active : BOOLEAN]
    BY DEF TypeOK
  <2>2. /\ cycle[s].row \in [next : Nat, interval : Intervals \cup {None}]
        /\ cycle[s].at \in 0 .. MaxTime /\ cycle[s].active \in BOOLEAN
    BY <2>1
  <2>3. QED
    BY <2>2, Numbers
<1>5. \A w \in Workers : scan[w].outcome \in Failures \cup {"none", "success"}
  BY DEF TypeOK
<1>6. QED
  BY <1>2, <1>3, <1>4, <1>5

\* The slots of the scans stay; or a scan with this slot is added.
SlotsStay ==
  DOMAIN tasks' = DOMAIN tasks /\ \A t \in DOMAIN tasks : tasks'[t].slot = tasks[t].slot

Adds(slot) ==
  /\ DOMAIN tasks' = DOMAIN tasks \cup {Len(tasks) + 1} /\ Len(tasks) + 1 \notin DOMAIN tasks
  /\ tasks'[Len(tasks) + 1].slot = slot
  /\ \A t \in DOMAIN tasks : tasks'[t].slot = tasks[t].slot

\* Of the scans with a slot, a cycle adds one for the due time that it has read, when
\* there is none of it.
SlotStep ==
  \/ SlotsStay
  \/ Adds(None)
  \/ \E s \in Schedulers :
       /\ InCycle(s) /\ ~InCycle(s)'
       /\ ~KeyTaken(cycle[s].row.next) /\ Adds(cycle[s].row.next)

\* All tasks are changed, but for their slots; a status is written; a task is added.
LEMMA TasksMapped ==
  ASSUME TypeOK, NEW f, tasks' = [t \in DOMAIN tasks |-> f[t]],
         \A t \in DOMAIN tasks : f[t] \in Task /\ f[t].slot = tasks[t].slot
  PROVE  TasksType' /\ SlotsStay
<1>1. tasks' \in Seq(Task) /\ Len(tasks') = Len(tasks) /\ \A t \in DOMAIN tasks : tasks'[t] = f[t]
  BY Rows
<1>2. Len(tasks') <= MaxTasks /\ DOMAIN tasks' = DOMAIN tasks
  BY <1>1, Rows DEF TypeOK
<1>3. QED
  BY <1>1, <1>2 DEF TasksType, SlotsStay

\* A status is written.
LEMMA StatusSet ==
  ASSUME TypeOK, NEW u, NEW s \in TaskStatuses, SetStatus(u, s)
  PROVE  TasksType' /\ SlotsStay
<1> DEFINE f == [t \in DOMAIN tasks |-> IF t = u THEN [tasks[t] EXCEPT !.status = s] ELSE tasks[t]]
<1>1. \A t \in DOMAIN tasks :
        /\ [tasks[t] EXCEPT !.status = s] \in Task
        /\ [tasks[t] EXCEPT !.status = s].slot = tasks[t].slot
  BY Rows DEF Task
<1>2. \A t \in DOMAIN tasks : f[t] \in Task /\ f[t].slot = tasks[t].slot
  BY <1>1, Rows
<1>3. tasks' = [t \in DOMAIN tasks |-> f[t]]
  <2>1. tasks' = [t \in DOMAIN tasks |-> IF t = u THEN [tasks[u] EXCEPT !.status = s] ELSE tasks[t]]
    BY DEF SetStatus
  <2>2. QED
    BY <2>1
<1>4. QED
  BY <1>2, <1>3, TasksMapped

\* A task is added, at the end.
LEMMA TaskAdded ==
  ASSUME TypeOK, NEW r \in Task, Len(tasks) < MaxTasks, tasks' = Append(tasks, r)
  PROVE  /\ TasksType'
         /\ DOMAIN tasks' = DOMAIN tasks \cup {Len(tasks) + 1} /\ Len(tasks) + 1 \notin DOMAIN tasks
         /\ tasks'[Len(tasks) + 1] = r
         /\ \A t \in DOMAIN tasks : tasks'[t] = tasks[t]
<1>1. /\ tasks' \in Seq(Task) /\ Len(tasks') = Len(tasks) + 1
      /\ \A t \in 1 .. Len(tasks) : tasks'[t] = tasks[t]
      /\ tasks'[Len(tasks) + 1] = r
  BY Rows
<1>2. QED
  BY <1>1, Rows, Numbers DEF TasksType

-------------------------------------------------------------------------------
(***************************************************************************)
(* Each part of the invariant is preserved.                                *)
(***************************************************************************)
\* The mode is a setting, and a subscription that was there leaves its row.
LEMMA StaysKnown ==
  ASSUME SubscriptionInvariant, Next
  PROVE  mode' = mode /\ now <= now' /\ (sub.state # "absent" => sub'.state # "absent")
<1>0. /\ TypeOK /\ CyclesSound /\ SlotsPast /\ SlotServedOnce /\ NextIsFree
      /\ ScansSound /\ EditsSound /\ EnabledHasSlot
  BY DEF SubscriptionInvariant
<1>1. ASSUME NEW c \in Clients,
             \/ ReadForEdit(c) \/ LookForManualScan(c) \/ InsertManualScan(c)
             \/ LookForDeletion(c)
      PROVE  mode' = mode /\ now <= now' /\ (sub.state # "absent" => sub'.state # "absent")
  <2>1. UNCHANGED <<mode, now, sub>>
    BY <1>1 DEF ReadForEdit, LookForManualScan, InsertManualScan, LookForDeletion
  <2>2. QED
    BY <2>1, <1>0, Numbers DEF Present
<1>2. ASSUME NEW w \in Workers,
             \/ StartScan(w) \/ FinishScan(w) \/ WorkerDies(w) \/ RunLegacyScan(w)
      PROVE  mode' = mode /\ now <= now' /\ (sub.state # "absent" => sub'.state # "absent")
  <2>1. UNCHANGED <<mode, now, sub>>
    BY <1>2 DEF StartScan, FinishScan, WorkerDies, RunLegacyScan
  <2>2. QED
    BY <2>1, <1>0, Numbers DEF Present
<1>3. ASSUME NEW s \in Schedulers,
             \/ ReadDue(s) \/ LookForActive(s)
      PROVE  mode' = mode /\ now <= now' /\ (sub.state # "absent" => sub'.state # "absent")
  <2>1. UNCHANGED <<mode, now, sub>>
    BY <1>3 DEF ReadDue, LookForActive
  <2>2. QED
    BY <2>1, <1>0, Numbers DEF Present
<1>4. ASSUME NEW w \in Workers, NEW t \in DOMAIN tasks, ClaimScan(w, t)
      PROVE  mode' = mode /\ now <= now' /\ (sub.state # "absent" => sub'.state # "absent")
  <2>1. UNCHANGED <<mode, now, sub>>
    BY <1>4 DEF ClaimScan
  <2>2. QED
    BY <2>1, <1>0, Numbers DEF Present
<1>5. ASSUME NEW w \in Workers, NEW o \in Failures, ScanFails(w, o)
      PROVE  mode' = mode /\ now <= now' /\ (sub.state # "absent" => sub'.state # "absent")
  <2>1. UNCHANGED <<mode, now, sub>>
    BY <1>5 DEF ScanFails
  <2>2. QED
    BY <2>1, <1>0, Numbers DEF Present
<1>6. ASSUME NEW t \in DOMAIN tasks, RecoverScan(t)
      PROVE  mode' = mode /\ now <= now' /\ (sub.state # "absent" => sub'.state # "absent")
  <2>1. UNCHANGED <<mode, now, sub>>
    BY <1>6 DEF RecoverScan
  <2>2. QED
    BY <2>1, <1>0, Numbers DEF Present
<1>7. CASE RestartLegacy
  <2>1. UNCHANGED <<mode, now, sub>>
    BY <1>7 DEF RestartLegacy
  <2>2. QED
    BY <2>1, <1>0, Numbers DEF Present
<1>8. ASSUME NEW enabled \in BOOLEAN, NEW i \in Intervals, CreateSubscription(enabled, i)
      PROVE  mode' = mode /\ now <= now' /\ (sub.state # "absent" => sub'.state # "absent")
  BY <1>8, <1>0 DEF CreateSubscription, TypeOK
<1>9. ASSUME NEW c \in Clients, NEW p \in Patch, EditSubscription(c, p)
      PROVE  mode' = mode /\ now <= now' /\ (sub.state # "absent" => sub'.state # "absent")
  <2>1. /\ UNCHANGED <<mode, now>>
        /\ sub' = sub \/ Present
    BY <1>9 DEF EditSubscription
  <2>2. sub' = sub \/ sub'.state # "absent"
    BY <1>9, <1>0 DEF EditSubscription, TypeOK, Subscription, Present
  <2>3. QED
    BY <2>1, <2>2, <1>0, Numbers
<1>10. ASSUME NEW c \in Clients, DeleteSubscription(c)
       PROVE  mode' = mode /\ now <= now' /\ (sub.state # "absent" => sub'.state # "absent")
  <2>1. /\ UNCHANGED <<mode, now>>
        /\ sub' = sub \/ Present
    BY <1>10 DEF DeleteSubscription
  <2>2. sub' = sub \/ sub'.state # "absent"
    BY <1>10, <1>0 DEF DeleteSubscription, TypeOK, Subscription, Present
  <2>3. QED
    BY <2>1, <2>2, <1>0, Numbers
<1>11. ASSUME NEW s \in Schedulers, CommitCycle(s)
       PROVE  mode' = mode /\ now <= now' /\ (sub.state # "absent" => sub'.state # "absent")
  BY <1>11, <1>0, Numbers DEF CommitCycle, NoCycle, NextDue, NewTask, TypeOK,
     Subscription, Present
<1>12. CASE Tick
  BY <1>12, <1>0 DEF Tick, TypeOK
<1>13. ASSUME NEW w \in Workers, ScanSucceeds(w)
       PROVE  mode' = mode /\ now <= now' /\ (sub.state # "absent" => sub'.state # "absent")
  BY <1>13, <1>0, Numbers DEF ScanSucceeds, Goto, TypeOK, Subscription, Present
<1>14. QED
  BY <1>1, <1>2, <1>3, <1>4, <1>5, <1>6, <1>7, <1>8, <1>9, <1>10, <1>11, <1>12, <1>13
     DEF Next, Serve, Schedule, Work, Execute

\* The mode, the clock and the row of the subscription.
LEMMA RowTyped ==
  ASSUME SubscriptionInvariant, Next
  PROVE  RowType'
<1>0. /\ TypeOK /\ CyclesSound /\ SlotsPast /\ SlotServedOnce /\ NextIsFree
      /\ ScansSound /\ EditsSound /\ EnabledHasSlot
  BY DEF SubscriptionInvariant
<1>1. ASSUME NEW c \in Clients,
             \/ LookForManualScan(c) \/ InsertManualScan(c) \/ LookForDeletion(c)
      PROVE  RowType'
  <2>1. UNCHANGED <<mode, now, job, clockRead, late, sub, events>>
    BY <1>1 DEF LookForManualScan, InsertManualScan, LookForDeletion
  <2>2. QED
    BY <2>1, <1>0 DEF RowType, TypeOK
<1>2. ASSUME NEW w \in Workers,
             \/ StartScan(w) \/ FinishScan(w) \/ RunLegacyScan(w)
      PROVE  RowType'
  <2>1. UNCHANGED <<mode, now, job, clockRead, late, sub, events>>
    BY <1>2 DEF StartScan, FinishScan, RunLegacyScan
  <2>2. QED
    BY <2>1, <1>0 DEF RowType, TypeOK
<1>3. ASSUME NEW s \in Schedulers, LookForActive(s)
      PROVE  RowType'
  <2>1. UNCHANGED <<mode, now, job, clockRead, late, sub, events>>
    BY <1>3 DEF LookForActive
  <2>2. QED
    BY <2>1, <1>0 DEF RowType, TypeOK
<1>4. ASSUME NEW w \in Workers, NEW t \in DOMAIN tasks, ClaimScan(w, t)
      PROVE  RowType'
  <2>1. UNCHANGED <<mode, now, job, clockRead, late, sub, events>>
    BY <1>4 DEF ClaimScan
  <2>2. QED
    BY <2>1, <1>0 DEF RowType, TypeOK
<1>5. ASSUME NEW w \in Workers, NEW o \in Failures, ScanFails(w, o)
      PROVE  RowType'
  <2>1. UNCHANGED <<mode, now, job, clockRead, late, sub, events>>
    BY <1>5 DEF ScanFails
  <2>2. QED
    BY <2>1, <1>0 DEF RowType, TypeOK
<1>6. ASSUME NEW t \in DOMAIN tasks, RecoverScan(t)
      PROVE  RowType'
  <2>1. UNCHANGED <<mode, now, job, clockRead, late, sub, events>>
    BY <1>6 DEF RecoverScan
  <2>2. QED
    BY <2>1, <1>0 DEF RowType, TypeOK
<1>7. ASSUME NEW enabled \in BOOLEAN, NEW i \in Intervals, CreateSubscription(enabled, i)
      PROVE  RowType'
  <2>1. sub' \in Subscription
    BY <1>7, <1>0, Numbers DEF CreateSubscription, Subscription, None
  <2>2. job' \in BOOLEAN /\ clockRead' \in BOOLEAN /\ late' \in BOOLEAN
    BY <1>7, <1>0, Numbers DEF CreateSubscription
  <2>3. QED
    BY <1>7, <1>0, Numbers, <2>1, <2>2 DEF CreateSubscription, RowType, TypeOK
<1>8. ASSUME NEW c \in Clients, ReadForEdit(c) PROVE RowType'
  BY <1>8, <1>0, Numbers DEF ReadForEdit, RowType, TypeOK
<1>9. ASSUME NEW c \in Clients, NEW p \in Patch, EditSubscription(c, p) PROVE RowType'
  <2> DEFINE row     == request[c].row
             enabled == IF p.enabled = "keep" THEN row.enabled ELSE p.enabled = "on"
             every   == IF p.interval = None THEN row.interval ELSE p.interval
             next    == NextAfterEdit(row, p, enabled, every)
  <2>1. enabled \in BOOLEAN /\ every \in Intervals \cup {None}
    BY <1>9, <1>0, Processes DEF Patch
  <2>2. next \in Nat
    BY <2>1, <1>0, Numbers DEF NextAfterEdit
  <2>3. /\ job' \in BOOLEAN /\ clockRead' \in BOOLEAN /\ late' \in BOOLEAN
        /\ UNCHANGED <<mode, now, events>>
    BY <1>9, <2>1, <1>0, Numbers DEF EditSubscription
  <2>4. sub' \in Subscription
    BY <1>9, <2>1, <2>2, <1>0, Rows, Numbers DEF EditSubscription, Written, Subscription,
       TypeOK
  <2>5. QED
    BY <2>3, <2>4, <1>0 DEF RowType, TypeOK
<1>10. ASSUME NEW c \in Clients, DeleteSubscription(c) PROVE RowType'
  <2>1. sub \in Subscription /\ None = 0
    BY <1>0, Numbers DEF TypeOK
  <2>2. [sub EXCEPT !.state = "deleted", !.enabled = FALSE, !.next = 0] \in Subscription
    BY <2>1, RowChanged
  <2>3. sub' \in Subscription
    BY <1>10, <2>1, <2>2 DEF DeleteSubscription
  <2>4. job' \in BOOLEAN /\ UNCHANGED <<mode, now, clockRead, late, events>>
    BY <1>10, <1>0, Numbers DEF DeleteSubscription
  <2>5. QED
    BY <1>0, <2>3, <2>4 DEF RowType, TypeOK
<1>11. ASSUME NEW s \in Schedulers, ReadDue(s) PROVE RowType'
  BY <1>11, <1>0 DEF ReadDue, RowType, TypeOK
<1>12. ASSUME NEW s \in Schedulers, CommitCycle(s) PROVE RowType'
  <2>1. NextDue(cycle[s]) \in Nat
    BY <1>0, Processes DEF NextDue
  <2>2. UNCHANGED sub \/ \E n \in Nat : sub' = [sub EXCEPT !.next = n]
    BY <1>12, <2>1 DEF CommitCycle
  <2>3. sub' \in Subscription
    BY <2>2, <1>0 DEF TypeOK, Subscription
  <2>4. job' \in BOOLEAN /\ clockRead' \in BOOLEAN /\ late' \in BOOLEAN
    BY <1>12, <1>0, Numbers DEF CommitCycle
  <2>5. QED
    BY <1>12, <1>0, <2>3, <2>4 DEF CommitCycle, RowType, TypeOK
<1>13. CASE Tick
  <2>1. job' \in BOOLEAN /\ clockRead' \in BOOLEAN /\ late' \in BOOLEAN
    BY <1>13, <1>0, Numbers DEF Tick
  <2>2. QED
    BY <1>13, <1>0, Numbers, <2>1 DEF Tick, RowType, TypeOK
<1>14. ASSUME NEW w \in Workers, ScanSucceeds(w) PROVE RowType'
  <2>1. (IF mode = "legacy" THEN now + sub.interval ELSE sub.next) \in Nat
    BY <1>0, Rows, Numbers
  <2>2. UNCHANGED sub \/ \E n \in Nat : sub' = [sub EXCEPT !.next = n]
    BY <1>14, <2>1 DEF ScanSucceeds
  <2>3. sub' \in Subscription
    BY <2>2, <1>0 DEF TypeOK, Subscription
  <2>4. job' \in BOOLEAN /\ clockRead' \in BOOLEAN /\ late' \in BOOLEAN
    BY <1>14, <1>0, Numbers DEF ScanSucceeds
  <2>5. QED
    BY <1>14, <1>0, <2>3, <2>4 DEF ScanSucceeds, RowType, TypeOK
<1>15. ASSUME NEW w \in Workers, WorkerDies(w) PROVE RowType'
  BY <1>15, <1>0, Numbers DEF WorkerDies, RowType, TypeOK
<1>16. CASE RestartLegacy
  BY <1>16, <1>0, Numbers, Rows, Processes DEF RestartLegacy, NoScan, NoRequest,
     RowType, TypeOK, Subscription, Present
<1>17. QED
  BY <1>1, <1>2, <1>3, <1>4, <1>5, <1>6, <1>7, <1>8, <1>9, <1>10, <1>11, <1>12, <1>13,
     <1>14, <1>15, <1>16 DEF Next, Serve, Schedule, Work, Execute

\* The table of tasks.
LEMMA TasksTyped ==
  ASSUME SubscriptionInvariant, Next
  PROVE  TasksType' /\ SlotStep
<1>0. /\ TypeOK /\ CyclesSound /\ SlotsPast /\ SlotServedOnce /\ NextIsFree
      /\ ScansSound /\ EditsSound /\ EnabledHasSlot
  BY DEF SubscriptionInvariant
<1>1. ASSUME NEW c \in Clients,
             \/ ReadForEdit(c) \/ LookForManualScan(c) \/ LookForDeletion(c)
      PROVE  TasksType' /\ SlotStep
  <2>1. UNCHANGED <<tasks>>
    BY <1>1 DEF ReadForEdit, LookForManualScan, LookForDeletion
  <2>2. QED
    BY <2>1, <1>0 DEF TasksType, TypeOK, SlotStep, SlotsStay
<1>2. ASSUME NEW w \in Workers,
             \/ StartScan(w) \/ ScanSucceeds(w) \/ WorkerDies(w)
      PROVE  TasksType' /\ SlotStep
  <2>1. UNCHANGED <<tasks>>
    BY <1>2 DEF StartScan, ScanSucceeds, WorkerDies
  <2>2. QED
    BY <2>1, <1>0 DEF TasksType, TypeOK, SlotStep, SlotsStay
<1>3. ASSUME NEW s \in Schedulers,
             \/ ReadDue(s) \/ LookForActive(s)
      PROVE  TasksType' /\ SlotStep
  <2>1. UNCHANGED <<tasks>>
    BY <1>3 DEF ReadDue, LookForActive
  <2>2. QED
    BY <2>1, <1>0 DEF TasksType, TypeOK, SlotStep, SlotsStay
<1>4. ASSUME NEW enabled \in BOOLEAN, NEW i \in Intervals, CreateSubscription(enabled, i)
      PROVE  TasksType' /\ SlotStep
  <2>1. UNCHANGED <<tasks>>
    BY <1>4 DEF CreateSubscription
  <2>2. QED
    BY <2>1, <1>0 DEF TasksType, TypeOK, SlotStep, SlotsStay
<1>5. ASSUME NEW c \in Clients, NEW p \in Patch, EditSubscription(c, p)
      PROVE  TasksType' /\ SlotStep
  <2>1. UNCHANGED <<tasks>>
    BY <1>5 DEF EditSubscription
  <2>2. QED
    BY <2>1, <1>0 DEF TasksType, TypeOK, SlotStep, SlotsStay
<1>6. ASSUME NEW w \in Workers, NEW o \in Failures, ScanFails(w, o)
      PROVE  TasksType' /\ SlotStep
  <2>1. UNCHANGED <<tasks>>
    BY <1>6 DEF ScanFails
  <2>2. QED
    BY <2>1, <1>0 DEF TasksType, TypeOK, SlotStep, SlotsStay
<1>7. CASE Tick
  <2>1. UNCHANGED <<tasks>>
    BY <1>7 DEF Tick
  <2>2. QED
    BY <2>1, <1>0 DEF TasksType, TypeOK, SlotStep, SlotsStay
<1>8. ASSUME NEW c \in Clients, InsertManualScan(c) PROVE TasksType' /\ SlotStep
  <2>1. NewTask(None) \in Task /\ NewTask(None).slot = None
    BY DEF NewTask, Task, TaskStatuses, None
  <2>2. UNCHANGED tasks \/ (Len(tasks) < MaxTasks /\ tasks' = Append(tasks, NewTask(None)))
    BY <1>8 DEF InsertManualScan
  <2>3. CASE UNCHANGED tasks
    BY <2>3, <1>0 DEF TasksType, TypeOK, SlotsStay, SlotStep
  <2>4. CASE Len(tasks) < MaxTasks /\ tasks' = Append(tasks, NewTask(None))
    BY <2>1, <2>4, <1>0, TaskAdded DEF Adds, SlotStep
  <2>5. QED
    BY <2>2, <2>3, <2>4
<1>9. ASSUME NEW c \in Clients, DeleteSubscription(c) PROVE TasksType' /\ SlotStep
  <2> DEFINE f == [t \in DOMAIN tasks |-> [tasks[t] EXCEPT !.linked = FALSE]]
  <2>1. \A t \in DOMAIN tasks : f[t] \in Task /\ f[t].slot = tasks[t].slot
    BY <1>0, Rows DEF Task, TaskStatuses
  <2>2. UNCHANGED tasks \/ tasks' = [t \in DOMAIN tasks |-> f[t]]
    BY <1>9 DEF DeleteSubscription
  <2>3. CASE UNCHANGED tasks
    BY <2>3, <1>0 DEF TasksType, TypeOK, SlotsStay, SlotStep
  <2>4. CASE tasks' = [t \in DOMAIN tasks |-> f[t]]
    BY <2>1, <2>4, <1>0, TasksMapped DEF SlotStep
  <2>5. QED
    BY <2>2, <2>3, <2>4
<1>10. ASSUME NEW s \in Schedulers, CommitCycle(s) PROVE TasksType' /\ SlotStep
  <2> DEFINE due == cycle[s].row.next
  <2>1. NewTask(due) \in Task /\ NewTask(due).slot = due
    BY <1>0, Processes DEF NewTask, Task, TaskStatuses
  <2>2. \/ UNCHANGED tasks
        \/ Len(tasks) < MaxTasks /\ tasks' = Append(tasks, NewTask(due)) /\ ~KeyTaken(due)
    BY <1>10 DEF CommitCycle
  <2>3. CASE UNCHANGED tasks
    BY <2>3, <1>0 DEF TasksType, TypeOK, SlotsStay, SlotStep
  <2>4. CASE Len(tasks) < MaxTasks /\ tasks' = Append(tasks, NewTask(due)) /\ ~KeyTaken(due)
    <3>1. InCycle(s) /\ ~InCycle(s)'
      BY <1>10, <1>0 DEF CommitCycle, InCycle, NoCycle, TypeOK
    <3>2. Adds(due) /\ TasksType'
      BY <2>1, <2>4, <1>0, TaskAdded DEF Adds
    <3>3. QED
      BY <2>4, <3>1, <3>2 DEF SlotStep
  <2>5. QED
    BY <2>2, <2>3, <2>4
<1>11. ASSUME NEW w \in Workers, NEW t \in DOMAIN tasks, ClaimScan(w, t)
       PROVE  TasksType' /\ SlotStep
  <2>1. "running" \in TaskStatuses /\ SetStatus(t, "running")
    BY <1>11 DEF ClaimScan, TaskStatuses
  <2>2. QED
    BY <2>1, <1>0, StatusSet DEF SlotStep
<1>12. ASSUME NEW w \in Workers, FinishScan(w) PROVE TasksType' /\ SlotStep
  <2>1. PICK s \in TaskStatuses : SetStatus(scan[w].task, s)
    BY <1>12, <1>0 DEF FinishScan, ScansSound, TaskStatuses
  <2>2. QED
    BY <2>1, <1>0, StatusSet DEF SlotStep
<1>13. ASSUME NEW t \in DOMAIN tasks, RecoverScan(t) PROVE TasksType' /\ SlotStep
  <2>1. PICK s \in TaskStatuses : SetStatus(t, s)
    BY <1>13 DEF RecoverScan, TaskStatuses
  <2>2. QED
    BY <2>1, <1>0, StatusSet DEF SlotStep
<1>14. ASSUME NEW w \in Workers, RunLegacyScan(w) PROVE TasksType' /\ SlotStep
  <2> DEFINE new == [NewTask(None) EXCEPT !.status = "running"]
  <2>1. new \in Task /\ new.slot = None
    BY DEF NewTask, Task, TaskStatuses, None
  <2>2. \/ \E t : SetStatus(t, "running")
        \/ Len(tasks) < MaxTasks /\ tasks' = Append(tasks, new)
    BY <1>14 DEF RunLegacyScan
  <2>3. CASE \E t : SetStatus(t, "running")
    <3>1. "running" \in TaskStatuses
      BY DEF TaskStatuses
    <3>2. QED
      BY <2>3, <3>1, <1>0, StatusSet DEF SlotStep
  <2>4. CASE Len(tasks) < MaxTasks /\ tasks' = Append(tasks, new)
    BY <2>1, <2>4, <1>0, TaskAdded DEF Adds, SlotStep
  <2>5. QED
    BY <2>2, <2>3, <2>4
<1>15. CASE RestartLegacy
  <2> DEFINE f == [t \in DOMAIN tasks |->
                     IF tasks[t].status = "running" THEN [tasks[t] EXCEPT !.status = "failed"]
                     ELSE tasks[t]]
  <2>1. \A t \in DOMAIN tasks : f[t] \in Task /\ f[t].slot = tasks[t].slot
    BY <1>0, Rows DEF Task, TaskStatuses
  <2>2. tasks' = [t \in DOMAIN tasks |-> f[t]]
    BY <1>15 DEF RestartLegacy
  <2>3. QED
    BY <2>1, <2>2, <1>0, TasksMapped DEF SlotStep
<1>16. QED
  BY <1>1, <1>2, <1>3, <1>4, <1>5, <1>6, <1>7, <1>8, <1>9, <1>10, <1>11, <1>12, <1>13,
     <1>14, <1>15 DEF Next, Serve, Schedule, Work, Execute

\* The cycles of the Schedulers.
LEMMA CycleTyped ==
  ASSUME SubscriptionInvariant, Next
  PROVE  CycleType'
<1>0. /\ TypeOK /\ CyclesSound /\ SlotsPast /\ SlotServedOnce /\ NextIsFree
      /\ ScansSound /\ EditsSound /\ EnabledHasSlot
  BY DEF SubscriptionInvariant
<1>1. ASSUME NEW c \in Clients,
             \/ ReadForEdit(c) \/ LookForManualScan(c) \/ InsertManualScan(c)
             \/ LookForDeletion(c) \/ DeleteSubscription(c)
      PROVE  CycleType'
  <2>1. UNCHANGED <<cycle>>
    BY <1>1 DEF ReadForEdit, LookForManualScan, InsertManualScan, LookForDeletion,
       DeleteSubscription
  <2>2. QED
    BY <2>1, <1>0 DEF CycleType, TypeOK
<1>2. ASSUME NEW w \in Workers,
             \/ StartScan(w) \/ ScanSucceeds(w) \/ FinishScan(w) \/ WorkerDies(w)
             \/ RunLegacyScan(w)
      PROVE  CycleType'
  <2>1. UNCHANGED <<cycle>>
    BY <1>2 DEF StartScan, ScanSucceeds, FinishScan, WorkerDies, RunLegacyScan
  <2>2. QED
    BY <2>1, <1>0 DEF CycleType, TypeOK
<1>3. ASSUME NEW enabled \in BOOLEAN, NEW i \in Intervals, CreateSubscription(enabled, i)
      PROVE  CycleType'
  <2>1. UNCHANGED <<cycle>>
    BY <1>3 DEF CreateSubscription
  <2>2. QED
    BY <2>1, <1>0 DEF CycleType, TypeOK
<1>4. ASSUME NEW c \in Clients, NEW p \in Patch, EditSubscription(c, p)
      PROVE  CycleType'
  <2>1. UNCHANGED <<cycle>>
    BY <1>4 DEF EditSubscription
  <2>2. QED
    BY <2>1, <1>0 DEF CycleType, TypeOK
<1>5. ASSUME NEW w \in Workers, NEW t \in DOMAIN tasks, ClaimScan(w, t)
      PROVE  CycleType'
  <2>1. UNCHANGED <<cycle>>
    BY <1>5 DEF ClaimScan
  <2>2. QED
    BY <2>1, <1>0 DEF CycleType, TypeOK
<1>6. ASSUME NEW w \in Workers, NEW o \in Failures, ScanFails(w, o)
      PROVE  CycleType'
  <2>1. UNCHANGED <<cycle>>
    BY <1>6 DEF ScanFails
  <2>2. QED
    BY <2>1, <1>0 DEF CycleType, TypeOK
<1>7. ASSUME NEW t \in DOMAIN tasks, RecoverScan(t)
      PROVE  CycleType'
  <2>1. UNCHANGED <<cycle>>
    BY <1>7 DEF RecoverScan
  <2>2. QED
    BY <2>1, <1>0 DEF CycleType, TypeOK
<1>8. CASE \/ Tick \/ RestartLegacy
  <2>1. UNCHANGED <<cycle>>
    BY <1>8 DEF Tick, RestartLegacy
  <2>2. QED
    BY <2>1, <1>0 DEF CycleType, TypeOK
<1>9. ASSUME NEW s \in Schedulers, ReadDue(s) PROVE CycleType'
  BY <1>9, <1>0, Rows DEF ReadDue, CycleType, TypeOK
<1>10. ASSUME NEW s \in Schedulers, LookForActive(s) PROVE CycleType'
  <2> DEFINE Cycle == [pc : {"idle", "due", "looked"},
                        row : [next : Nat, interval : Intervals \cup {None}],
                        at : 0 .. MaxTime, active : BOOLEAN]
  <2>1. ASSUME NEW b \in BOOLEAN
        PROVE  [cycle[s] EXCEPT !.pc = "looked", !.active = b] \in Cycle
    <3>1. cycle[s] \in Cycle
      BY <1>0 DEF TypeOK
    <3>2. QED
      BY <3>1
  <2>2. PICK b \in BOOLEAN :
          cycle' = [cycle EXCEPT ![s] = [cycle[s] EXCEPT !.pc = "looked", !.active = b]]
    BY <1>10 DEF LookForActive
  <2>3. [cycle[s] EXCEPT !.pc = "looked", !.active = b] \in Cycle
    BY <2>1
  <2>4. QED
    BY <2>2, <2>3, <1>0 DEF CycleType, TypeOK
<1>11. ASSUME NEW s \in Schedulers, CommitCycle(s) PROVE CycleType'
  <2>1. cycle' = [cycle EXCEPT ![s] = NoCycle]
    BY <1>11 DEF CommitCycle
  <2>2. QED
    BY <2>1, <1>0, Numbers DEF CycleType, TypeOK, NoCycle, None
<1>12. QED
  BY <1>1, <1>2, <1>3, <1>4, <1>5, <1>6, <1>7, <1>8, <1>9, <1>10, <1>11 DEF Next, Serve,
     Schedule, Work, Execute

\* The requests.
LEMMA RequestTyped ==
  ASSUME SubscriptionInvariant, Next
  PROVE  RequestType'
<1>0. /\ TypeOK /\ CyclesSound /\ SlotsPast /\ SlotServedOnce /\ NextIsFree
      /\ ScansSound /\ EditsSound /\ EnabledHasSlot
  BY DEF SubscriptionInvariant
<1>1. ASSUME NEW w \in Workers,
             \/ StartScan(w) \/ ScanSucceeds(w) \/ FinishScan(w) \/ WorkerDies(w)
             \/ RunLegacyScan(w)
      PROVE  RequestType'
  <2>1. UNCHANGED <<request>>
    BY <1>1 DEF StartScan, ScanSucceeds, FinishScan, WorkerDies, RunLegacyScan
  <2>2. QED
    BY <2>1, <1>0 DEF RequestType, TypeOK
<1>2. ASSUME NEW s \in Schedulers,
             \/ ReadDue(s) \/ LookForActive(s) \/ CommitCycle(s)
      PROVE  RequestType'
  <2>1. UNCHANGED <<request>>
    BY <1>2 DEF ReadDue, LookForActive, CommitCycle
  <2>2. QED
    BY <2>1, <1>0 DEF RequestType, TypeOK
<1>3. ASSUME NEW enabled \in BOOLEAN, NEW i \in Intervals, CreateSubscription(enabled, i)
      PROVE  RequestType'
  <2>1. UNCHANGED <<request>>
    BY <1>3 DEF CreateSubscription
  <2>2. QED
    BY <2>1, <1>0 DEF RequestType, TypeOK
<1>4. ASSUME NEW w \in Workers, NEW t \in DOMAIN tasks, ClaimScan(w, t)
      PROVE  RequestType'
  <2>1. UNCHANGED <<request>>
    BY <1>4 DEF ClaimScan
  <2>2. QED
    BY <2>1, <1>0 DEF RequestType, TypeOK
<1>5. ASSUME NEW w \in Workers, NEW o \in Failures, ScanFails(w, o)
      PROVE  RequestType'
  <2>1. UNCHANGED <<request>>
    BY <1>5 DEF ScanFails
  <2>2. QED
    BY <2>1, <1>0 DEF RequestType, TypeOK
<1>6. ASSUME NEW t \in DOMAIN tasks, RecoverScan(t)
      PROVE  RequestType'
  <2>1. UNCHANGED <<request>>
    BY <1>6 DEF RecoverScan
  <2>2. QED
    BY <2>1, <1>0 DEF RequestType, TypeOK
<1>7. CASE Tick
  <2>1. UNCHANGED <<request>>
    BY <1>7 DEF Tick
  <2>2. QED
    BY <2>1, <1>0 DEF RequestType, TypeOK
<1>8. ASSUME NEW c \in Clients, ReadForEdit(c) PROVE RequestType'
  BY <1>8, <1>0 DEF ReadForEdit, RequestType, TypeOK
<1>9. ASSUME NEW c \in Clients, NEW p \in Patch, EditSubscription(c, p) PROVE RequestType'
  BY <1>9, <1>0 DEF EditSubscription, NoRequest, RequestType, TypeOK
<1>10. ASSUME NEW c \in Clients, LookForManualScan(c) PROVE RequestType'
  BY <1>10, <1>0 DEF LookForManualScan, RequestType, TypeOK
<1>11. ASSUME NEW c \in Clients, InsertManualScan(c) PROVE RequestType'
  BY <1>11, <1>0 DEF InsertManualScan, NoRequest, RequestType, TypeOK
<1>12. ASSUME NEW c \in Clients, LookForDeletion(c) PROVE RequestType'
  BY <1>12, <1>0 DEF LookForDeletion, RequestType, TypeOK
<1>13. ASSUME NEW c \in Clients, DeleteSubscription(c) PROVE RequestType'
  BY <1>13, <1>0 DEF DeleteSubscription, NoRequest, RequestType, TypeOK
<1>14. CASE RestartLegacy
  BY <1>14 DEF RestartLegacy, NoRequest, RequestType
<1>15. QED
  BY <1>1, <1>2, <1>3, <1>4, <1>5, <1>6, <1>7, <1>8, <1>9, <1>10, <1>11, <1>12, <1>13,
     <1>14 DEF Next, Serve, Schedule, Work, Execute

\* The scans under way.
LEMMA ScanTyped ==
  ASSUME SubscriptionInvariant, Next
  PROVE  ScanType'
<1>0. /\ TypeOK /\ CyclesSound /\ SlotsPast /\ SlotServedOnce /\ NextIsFree
      /\ ScansSound /\ EditsSound /\ EnabledHasSlot
  BY DEF SubscriptionInvariant
<1>1. ASSUME NEW c \in Clients,
             \/ ReadForEdit(c) \/ LookForManualScan(c) \/ InsertManualScan(c)
             \/ LookForDeletion(c) \/ DeleteSubscription(c)
      PROVE  ScanType'
  <2>1. UNCHANGED <<scan>>
    BY <1>1 DEF ReadForEdit, LookForManualScan, InsertManualScan, LookForDeletion,
       DeleteSubscription
  <2>2. QED
    BY <2>1, <1>0 DEF ScanType, TypeOK
<1>2. ASSUME NEW s \in Schedulers,
             \/ ReadDue(s) \/ LookForActive(s) \/ CommitCycle(s)
      PROVE  ScanType'
  <2>1. UNCHANGED <<scan>>
    BY <1>2 DEF ReadDue, LookForActive, CommitCycle
  <2>2. QED
    BY <2>1, <1>0 DEF ScanType, TypeOK
<1>3. ASSUME NEW enabled \in BOOLEAN, NEW i \in Intervals, CreateSubscription(enabled, i)
      PROVE  ScanType'
  <2>1. UNCHANGED <<scan>>
    BY <1>3 DEF CreateSubscription
  <2>2. QED
    BY <2>1, <1>0 DEF ScanType, TypeOK
<1>4. ASSUME NEW c \in Clients, NEW p \in Patch, EditSubscription(c, p)
      PROVE  ScanType'
  <2>1. UNCHANGED <<scan>>
    BY <1>4 DEF EditSubscription
  <2>2. QED
    BY <2>1, <1>0 DEF ScanType, TypeOK
<1>5. ASSUME NEW t \in DOMAIN tasks, RecoverScan(t)
      PROVE  ScanType'
  <2>1. UNCHANGED <<scan>>
    BY <1>5 DEF RecoverScan
  <2>2. QED
    BY <2>1, <1>0 DEF ScanType, TypeOK
<1>6. CASE Tick
  <2>1. UNCHANGED <<scan>>
    BY <1>6 DEF Tick
  <2>2. QED
    BY <2>1, <1>0 DEF ScanType, TypeOK
<1>7. ASSUME NEW w \in Workers, NEW t \in DOMAIN tasks, ClaimScan(w, t) PROVE ScanType'
  BY <1>7, <1>0, Numbers, Rows, Processes DEF ClaimScan, SetStatus, ScanType, TypeOK,
     NoScan, Failures
<1>8. ASSUME NEW w \in Workers, StartScan(w) PROVE ScanType'
  <2>1. PICK p \in {"finish", "scanning"}, o \in Failures \cup {"none", "success"} : Goto(w, p, o)
    BY <1>8 DEF StartScan, Failures, Refusal
  <2>2. [scan[w] EXCEPT !.pc = p, !.outcome = o] \in
           [pc : {"idle", "start", "scanning", "finish"}, task : 0 .. MaxTasks,
            outcome : Failures \cup {"none", "success"}]
    BY <2>1, <1>0 DEF TypeOK
  <2>3. scan' = [scan EXCEPT ![w] = [scan[w] EXCEPT !.pc = p, !.outcome = o]]
    BY <2>1 DEF Goto
  <2>4. QED
    BY <2>2, <2>3, <1>0 DEF ScanType, TypeOK
<1>9. ASSUME NEW w \in Workers, ScanSucceeds(w) PROVE ScanType'
  <2>1. PICK p \in {"finish", "scanning"}, o \in Failures \cup {"none", "success"} : Goto(w, p, o)
    BY <1>9 DEF ScanSucceeds, Failures, Refusal
  <2>2. [scan[w] EXCEPT !.pc = p, !.outcome = o] \in
           [pc : {"idle", "start", "scanning", "finish"}, task : 0 .. MaxTasks,
            outcome : Failures \cup {"none", "success"}]
    BY <2>1, <1>0 DEF TypeOK
  <2>3. scan' = [scan EXCEPT ![w] = [scan[w] EXCEPT !.pc = p, !.outcome = o]]
    BY <2>1 DEF Goto
  <2>4. QED
    BY <2>2, <2>3, <1>0 DEF ScanType, TypeOK
<1>10. ASSUME NEW w \in Workers, NEW o \in Failures, ScanFails(w, o) PROVE ScanType'
  <2>1. PICK p \in {"finish", "scanning"}, x \in Failures \cup {"none", "success"} : Goto(w, p, x)
    BY <1>10 DEF ScanFails, Failures, Refusal
  <2>2. [scan[w] EXCEPT !.pc = p, !.outcome = x] \in
           [pc : {"idle", "start", "scanning", "finish"}, task : 0 .. MaxTasks,
            outcome : Failures \cup {"none", "success"}]
    BY <2>1, <1>0 DEF TypeOK
  <2>3. scan' = [scan EXCEPT ![w] = [scan[w] EXCEPT !.pc = p, !.outcome = x]]
    BY <2>1 DEF Goto
  <2>4. QED
    BY <2>2, <2>3, <1>0 DEF ScanType, TypeOK
<1>11. ASSUME NEW w \in Workers, FinishScan(w) PROVE ScanType'
  BY <1>11, <1>0, Numbers DEF FinishScan, NoScan, ScanType, TypeOK
<1>12. ASSUME NEW w \in Workers, WorkerDies(w) PROVE ScanType'
  BY <1>12, <1>0, Numbers DEF WorkerDies, NoScan, ScanType, TypeOK
<1>13. ASSUME NEW w \in Workers, RunLegacyScan(w) PROVE ScanType'
  <2>1. PICK u \in 0 .. MaxTasks :
               scan' = [scan EXCEPT ![w] = [pc |-> "scanning", task |-> u, outcome |-> "none"]]
    BY <1>13, <1>0, Rows, Numbers DEF RunLegacyScan, Active, TypeOK
  <2>2. QED
    BY <2>1, <1>0 DEF ScanType, TypeOK
<1>14. CASE RestartLegacy
  BY <1>14, <1>0, Numbers DEF RestartLegacy, NoScan, ScanType
<1>15. QED
  BY <1>1, <1>2, <1>3, <1>4, <1>5, <1>6, <1>7, <1>8, <1>9, <1>10, <1>11, <1>12, <1>13,
     <1>14 DEF Next, Serve, Schedule, Work, Execute

\* A cycle begins with a due time of the past, at an instant at which nobody else reads
\* the clock.
LEMMA CyclesPreserved ==
  ASSUME SubscriptionInvariant, Next
  PROVE  CyclesSound'
<1>0. /\ TypeOK /\ CyclesSound /\ SlotsPast /\ SlotServedOnce /\ NextIsFree
      /\ ScansSound /\ EditsSound /\ EnabledHasSlot
  BY DEF SubscriptionInvariant
<1>1. ASSUME NEW c \in Clients,
             \/ ReadForEdit(c) \/ LookForManualScan(c) \/ InsertManualScan(c)
             \/ LookForDeletion(c)
      PROVE  CyclesSound'
  <2>1. UNCHANGED <<mode, sub, cycle, now, clockRead>>
    BY <1>1 DEF ReadForEdit, LookForManualScan, InsertManualScan, LookForDeletion
  <2>2. QED
    BY <2>1, <1>0 DEF CyclesSound, InCycle
<1>2. ASSUME NEW w \in Workers,
             \/ StartScan(w) \/ FinishScan(w) \/ WorkerDies(w) \/ RunLegacyScan(w)
      PROVE  CyclesSound'
  <2>1. UNCHANGED <<mode, sub, cycle, now, clockRead>>
    BY <1>2 DEF StartScan, FinishScan, WorkerDies, RunLegacyScan
  <2>2. QED
    BY <2>1, <1>0 DEF CyclesSound, InCycle
<1>3. ASSUME NEW w \in Workers, NEW t \in DOMAIN tasks, ClaimScan(w, t)
      PROVE  CyclesSound'
  <2>1. UNCHANGED <<mode, sub, cycle, now, clockRead>>
    BY <1>3 DEF ClaimScan
  <2>2. QED
    BY <2>1, <1>0 DEF CyclesSound, InCycle
<1>4. ASSUME NEW w \in Workers, NEW o \in Failures, ScanFails(w, o)
      PROVE  CyclesSound'
  <2>1. UNCHANGED <<mode, sub, cycle, now, clockRead>>
    BY <1>4 DEF ScanFails
  <2>2. QED
    BY <2>1, <1>0 DEF CyclesSound, InCycle
<1>5. ASSUME NEW t \in DOMAIN tasks, RecoverScan(t)
      PROVE  CyclesSound'
  <2>1. UNCHANGED <<mode, sub, cycle, now, clockRead>>
    BY <1>5 DEF RecoverScan
  <2>2. QED
    BY <2>1, <1>0 DEF CyclesSound, InCycle
<1>6. CASE RestartLegacy
  <2>1. UNCHANGED <<mode, sub, cycle, now, clockRead>>
    BY <1>6 DEF RestartLegacy
  <2>2. QED
    BY <2>1, <1>0 DEF CyclesSound, InCycle
<1>7. ASSUME NEW enabled \in BOOLEAN, NEW i \in Intervals, CreateSubscription(enabled, i)
      PROVE  CyclesSound'
  BY <1>7, <1>0 DEF CreateSubscription, CyclesSound, InCycle
<1>8. ASSUME NEW c \in Clients, NEW p \in Patch, EditSubscription(c, p) PROVE CyclesSound'
  <2>1. UNCHANGED <<cycle, now>> /\ (clockRead => clockRead')
    BY <1>8 DEF EditSubscription
  <2>2. QED
    BY <2>1, <1>0, StaysKnown DEF CyclesSound, InCycle
<1>9. ASSUME NEW c \in Clients, DeleteSubscription(c) PROVE CyclesSound'
  <2>1. UNCHANGED <<cycle, now>> /\ (clockRead => clockRead')
    BY <1>9 DEF DeleteSubscription
  <2>2. QED
    BY <2>1, <1>0, StaysKnown DEF CyclesSound, InCycle
<1>10. ASSUME NEW s \in Schedulers, ReadDue(s) PROVE CyclesSound'
  <2>1. /\ mode = "process" /\ Present /\ sub.next \in 1 .. now
        /\ now < MaxTime => ~clockRead
        /\ clockRead' = TRUE /\ UNCHANGED <<mode, sub, now>>
        /\ cycle' = [cycle EXCEPT ![s] =
             [pc |-> "due", row |-> [next |-> sub.next, interval |-> sub.interval],
              at |-> now, active |-> FALSE]]
    BY <1>10, <1>0, Rows, Numbers DEF ReadDue, NewInstant
  <2>2. /\ cycle'[s].row.next = sub.next /\ cycle'[s].row.interval = sub.interval
        /\ cycle'[s].at = now
        /\ \A r \in Schedulers \ {s} : cycle'[r] = cycle[r]
    BY <2>1, <1>0 DEF TypeOK
  <2>3. \A r \in Schedulers \ {s} : InCycle(r) /\ cycle[r].at = now => now = MaxTime
    BY <2>1, <1>0, Numbers DEF CyclesSound
  <2>4. QED
    BY <2>1, <2>2, <2>3, <1>0, Rows, Numbers DEF CyclesSound, InCycle, Present
<1>11. ASSUME NEW s \in Schedulers, LookForActive(s) PROVE CyclesSound'
  BY <1>11, <1>0, Numbers, Rows, Processes DEF LookForActive, CyclesSound, InCycle,
     TypeOK, Present
<1>12. ASSUME NEW s \in Schedulers, CommitCycle(s) PROVE CyclesSound'
  <2>1. cycle' = [cycle EXCEPT ![s] = NoCycle] /\ UNCHANGED <<now, clockRead>>
    BY <1>12 DEF CommitCycle
  <2>2. \A r \in Schedulers : InCycle(r)' => r # s /\ InCycle(r) /\ cycle'[r] = cycle[r]
    BY <2>1, <1>0 DEF InCycle, NoCycle, TypeOK
  <2>3. QED
    BY <2>1, <2>2, <1>0, StaysKnown DEF CyclesSound
<1>13. CASE Tick
  <2>1. UNCHANGED <<mode, sub, cycle>> /\ now' = now + 1
    BY <1>13 DEF Tick
  <2>2. QED
    BY <2>1, <1>0, Numbers, Processes DEF CyclesSound, InCycle
<1>14. ASSUME NEW w \in Workers, ScanSucceeds(w) PROVE CyclesSound'
  <2>1. UNCHANGED <<cycle, now>> /\ (clockRead => clockRead')
    BY <1>14 DEF ScanSucceeds
  <2>2. QED
    BY <2>1, <1>0, StaysKnown DEF CyclesSound, InCycle
<1>15. QED
  BY <1>1, <1>2, <1>3, <1>4, <1>5, <1>6, <1>7, <1>8, <1>9, <1>10, <1>11, <1>12, <1>13,
     <1>14 DEF Next, Serve, Schedule, Work, Execute

\* A key is taken for good, and only that of a cycle's due time is taken anew.
LEMMA KeysKept ==
  ASSUME SubscriptionInvariant, Next, NEW v \in Nat \ {0}, KeyTaken(v)'
  PROVE  \/ KeyTaken(v)
         \/ \E s \in Schedulers : InCycle(s) /\ ~InCycle(s)' /\ v = cycle[s].row.next
<1>1. SlotStep
  BY TasksTyped
<1>2. PICK t \in DOMAIN tasks' : tasks'[t].slot = v
  BY DEF KeyTaken
<1>3. CASE SlotsStay
  BY <1>2, <1>3 DEF SlotsStay, KeyTaken
<1>4. CASE Adds(None)
  BY <1>2, <1>4 DEF Adds, KeyTaken, None
<1>5. ASSUME NEW s \in Schedulers, InCycle(s), ~InCycle(s)', Adds(cycle[s].row.next)
      PROVE  KeyTaken(v) \/ v = cycle[s].row.next
  BY <1>2, <1>5 DEF Adds, KeyTaken
<1>6. QED
  BY <1>1, <1>3, <1>4, <1>5 DEF SlotStep

\* A scan is made for the due time that a cycle has read, unless there is one.
LEMMA SlotsPreserved ==
  ASSUME SubscriptionInvariant, Next
  PROVE  SlotsPast' /\ SlotServedOnce'
<1>0. /\ TypeOK /\ CyclesSound /\ SlotsPast /\ SlotServedOnce
      /\ mode' = mode /\ now <= now'
  BY StaysKnown DEF SubscriptionInvariant
<1>1. /\ now \in Nat /\ now' \in Nat /\ None = 0
      /\ \A t \in DOMAIN tasks : tasks[t].slot \in Nat /\ tasks[t].slot <= now'
  BY <1>0, Numbers, Rows, RowTyped DEF RowType, SlotsPast
<1>2. SlotStep
  BY TasksTyped
<1>3. CASE SlotsStay
  BY <1>0, <1>1, <1>3 DEF SlotsStay, SlotsPast, SlotServedOnce
<1>4. CASE Adds(None)
  BY <1>0, <1>1, <1>4 DEF Adds, SlotsPast, SlotServedOnce
<1>5. ASSUME NEW s \in Schedulers, InCycle(s), ~KeyTaken(cycle[s].row.next),
             Adds(cycle[s].row.next)
      PROVE  SlotsPast' /\ SlotServedOnce'
  <2>1. mode = "process" /\ cycle[s].row.next <= now /\ cycle[s].row.next \in Nat \ {0}
    BY <1>0, <1>5, Processes, Numbers DEF CyclesSound
  <2>2. SlotsPast'
    BY <1>0, <1>1, <1>5, <2>1 DEF Adds, SlotsPast
  <2>3. SlotServedOnce'
    BY <1>0, <1>5, <2>1 DEF Adds, SlotServedOnce, KeyTaken, None
  <2>4. QED
    BY <2>2, <2>3
<1>6. QED
  BY <1>2, <1>3, <1>4, <1>5 DEF SlotStep

\* Whoever writes a due time writes one that has not been served: ahead of the clock, or
\* the instant of its own.
LEMMA NextPreserved ==
  ASSUME SubscriptionInvariant, Next
  PROVE  NextIsFree'
<1>0. /\ TypeOK /\ CyclesSound /\ SlotsPast /\ SlotServedOnce /\ NextIsFree
      /\ ScansSound /\ EditsSound /\ EnabledHasSlot
  BY DEF SubscriptionInvariant
<1>1. ASSUME NEW c \in Clients,
             \/ ReadForEdit(c) \/ LookForManualScan(c) \/ LookForDeletion(c)
      PROVE  NextIsFree'
  <2>1. UNCHANGED <<sub, tasks, cycle, late>>
    BY <1>1 DEF ReadForEdit, LookForManualScan, LookForDeletion
  <2>2. QED
    BY <2>1, <1>0 DEF NextIsFree, Present, KeyTaken, InCycle, NextDue
<1>2. ASSUME NEW w \in Workers,
             \/ StartScan(w) \/ WorkerDies(w)
      PROVE  NextIsFree'
  <2>1. UNCHANGED <<sub, tasks, cycle, late>>
    BY <1>2 DEF StartScan, WorkerDies
  <2>2. QED
    BY <2>1, <1>0 DEF NextIsFree, Present, KeyTaken, InCycle, NextDue
<1>3. ASSUME NEW w \in Workers, NEW o \in Failures, ScanFails(w, o)
      PROVE  NextIsFree'
  <2>1. UNCHANGED <<sub, tasks, cycle, late>>
    BY <1>3 DEF ScanFails
  <2>2. QED
    BY <2>1, <1>0 DEF NextIsFree, Present, KeyTaken, InCycle, NextDue
<1>4. CASE Tick
  <2>1. UNCHANGED <<sub, tasks, cycle, late>>
    BY <1>4 DEF Tick
  <2>2. QED
    BY <2>1, <1>0 DEF NextIsFree, Present, KeyTaken, InCycle, NextDue
<1>5. ASSUME NEW enabled \in BOOLEAN, NEW i \in Intervals, CreateSubscription(enabled, i)
      PROVE  NextIsFree'
  <2>1. /\ UNCHANGED <<cycle, late, now>> /\ sub.state = "absent"
        /\ sub'.next = None \/ sub'.next > now
    BY <1>5, <1>0, Numbers DEF CreateSubscription
  <2>2. \A s \in Schedulers : ~InCycle(s) /\ ~InCycle(s)'
    BY <2>1, <1>0 DEF CyclesSound, InCycle
  <2>3. \A v \in Nat \ {0} : KeyTaken(v)' => v <= now
    BY <2>1, SlotsPreserved, Numbers DEF SlotsPast, KeyTaken
  <2>4. QED
    BY <2>1, <2>2, <2>3, <1>0, Numbers DEF NextIsFree
<1>6. ASSUME NEW c \in Clients, NEW p \in Patch, EditSubscription(c, p) PROVE NextIsFree'
  <2>1. /\ UNCHANGED <<cycle, late, now, tasks>> /\ (now < MaxTime => ~clockRead)
        /\ Pending(c)
    BY <1>6 DEF EditSubscription, NewInstant, Pending
  <2>2. request[c].row.interval \in Intervals
    BY <2>1, <1>0 DEF EditsSound
  <2>3. \/ sub' = sub \/ sub'.next = None \/ (sub'.next = sub.next /\ Present)
        \/ \E i \in Intervals : sub'.next = now + i
    <3> DEFINE row     == request[c].row
               enabled == IF p.enabled = "keep" THEN row.enabled ELSE p.enabled = "on"
               every   == IF p.interval = None THEN row.interval ELSE p.interval
               next    == NextAfterEdit(row, p, enabled, every)
    <3>1. every \in Intervals
      BY <2>2 DEF Patch
    <3>2. next = None \/ next = now + every
      BY DEF NextAfterEdit
    <3>3. sub' = sub \/ (Present /\ sub'.next = Written(row.next, next, sub.next))
      BY <1>6, <1>0 DEF EditSubscription, TypeOK, Subscription
    <3>4. Written(row.next, next, sub.next) \in {sub.next, next}
      BY DEF Written
    <3> HIDE DEF next, every, enabled, row
    <3>5. CASE sub'.next = now + every
      BY <3>1, <3>5
    <3>6. QED
      BY <3>2, <3>3, <3>4, <3>5
  <2>4. \A v \in Nat \ {0} : (KeyTaken(v)' => KeyTaken(v)) /\ (KeyTaken(v) => v <= now)
    BY <2>1, <1>0 DEF SlotsPast, KeyTaken
  <2>5. CASE sub' = sub \/ sub'.next = None \/ (sub'.next = sub.next /\ Present)
    BY <2>5, <2>1, <2>4, <1>0, Numbers, Processes DEF NextIsFree, CyclesSound, NextDue,
       InCycle, Present
  <2>6. ASSUME NEW i \in Intervals, sub'.next = now + i PROVE NextIsFree'
    <3>1. \A v \in Nat \ {0} : KeyTaken(v)' => v # now + i
      BY <2>4, Numbers, <1>0
    <3>2. ASSUME OneInterval, NEW s \in Schedulers, InCycle(s), NextDue(cycle[s]) <= MaxTime
          PROVE  now + i # NextDue(cycle[s])
      <4>1. cycle[s].row.interval = i /\ i > 0
        BY <3>2, <1>0, Numbers DEF CyclesSound, OneInterval
      <4>2. cycle[s].at # now
        BY <2>1, <3>2, <4>1, <1>0, Numbers, Processes DEF CyclesSound, NextDue
      <4>3. QED
        BY <4>1, <4>2, <1>0, Numbers, Processes DEF NextDue
    <3>3. QED
      BY <2>1, <2>4, <2>6, <3>1, <3>2, <1>0, Numbers, Processes DEF NextIsFree,
         CyclesSound, NextDue, InCycle
  <2>7. QED
    BY <2>3, <2>5, <2>6
<1>7. ASSUME NEW c \in Clients, InsertManualScan(c) PROVE NextIsFree'
  <2>1. UNCHANGED <<cycle, late>> /\ sub' = sub
    BY <1>7, <1>0 DEF InsertManualScan, Present
  <2>2. \A v \in Nat \ {0} : KeyTaken(v)' => KeyTaken(v)
    BY <2>1, KeysKept DEF InCycle
  <2>3. QED
    BY <2>1, <2>2, <1>0, Numbers, Processes DEF NextIsFree, CyclesSound, NextDue, InCycle,
       Present
<1>8. ASSUME NEW c \in Clients, DeleteSubscription(c) PROVE NextIsFree'
  <2>1. UNCHANGED <<cycle, late>> /\ (sub' = sub \/ (sub'.state = "deleted" /\ sub'.next = None))
    BY <1>8, <1>0 DEF DeleteSubscription, Present, TypeOK, Subscription
  <2>2. \A v \in Nat \ {0} : KeyTaken(v)' => KeyTaken(v)
    BY <2>1, KeysKept DEF InCycle
  <2>3. QED
    BY <2>1, <2>2, <1>0, Numbers, Processes DEF NextIsFree, CyclesSound, NextDue, InCycle,
       Present
<1>9. ASSUME NEW s \in Schedulers, ReadDue(s) PROVE NextIsFree'
  <2>1. /\ UNCHANGED <<sub, tasks, late>> /\ sub.next \in 1 .. now
        /\ cycle' = [cycle EXCEPT ![s] =
             [pc |-> "due", row |-> [next |-> sub.next, interval |-> sub.interval],
              at |-> now, active |-> FALSE]]
    BY <1>9, <1>0, Rows, Numbers DEF ReadDue, None
  <2>2. /\ cycle'[s].row.next = sub.next /\ NextDue(cycle'[s]) = now + sub.interval
        /\ \A r \in Schedulers \ {s} : cycle'[r] = cycle[r]
    BY <2>1, <1>0 DEF TypeOK, NextDue
  <2>3. \A v \in Nat \ {0} : (KeyTaken(v)' => KeyTaken(v)) /\ (KeyTaken(v) => v <= now)
    BY <2>1, <1>0 DEF SlotsPast, KeyTaken
  <2>4. \A r \in Schedulers \ {s} : InCycle(r) => cycle[r].row.next <= now
    BY <1>0, Processes, Numbers DEF CyclesSound
  <2>5. sub.interval > 0 /\ sub.interval \in Nat
    BY <1>0, Rows, Numbers
  <2>6. \A r \in Schedulers \ {s} : InCycle(r)' = InCycle(r)
    BY <2>2 DEF InCycle
  <2>7. (OneInterval \/ ~late => (Present /\ sub.next \in 1 .. MaxTime => ~KeyTaken(sub.next)))'
    BY <2>1, <1>0 DEF NextIsFree, Present, KeyTaken
  <2>8. ASSUME OneInterval, NEW r \in Schedulers, InCycle(r)', NextDue(cycle'[r]) <= MaxTime
        PROVE  /\ sub.next # NextDue(cycle'[r]) /\ ~KeyTaken(NextDue(cycle'[r]))
               /\ \A x \in Schedulers \ {r} : InCycle(x)' => cycle'[x].row.next # NextDue(cycle'[r])
    <3>1. CASE r = s
      <4>1. NextDue(cycle'[r]) = now + sub.interval
        BY <3>1, <2>2
      <4>2. /\ now + sub.interval \in Nat \ {0} /\ now + sub.interval > now
            /\ sub.next # now + sub.interval
        BY <2>1, <2>5, <1>0, Numbers, Rows
      <4>3. ~KeyTaken(now + sub.interval)
        BY <2>3, <4>2, <1>0, Numbers
      <4>4. \A x \in Schedulers \ {r} : InCycle(x)' => cycle'[x].row.next # now + sub.interval
        BY <3>1, <2>2, <2>4, <2>6, <4>2, <1>0, Numbers, Processes
      <4>5. QED
        BY <4>1, <4>2, <4>3, <4>4
    <3>2. CASE r # s
      BY <3>2, <2>1, <2>2, <2>6, <2>8, <1>0 DEF NextIsFree
    <3>3. QED
      BY <3>1, <3>2
  <2>9. QED
    BY <2>1, <2>7, <2>8 DEF NextIsFree, NextDue, KeyTaken
<1>10. ASSUME NEW s \in Schedulers, LookForActive(s) PROVE NextIsFree'
  <2>1. /\ UNCHANGED <<sub, tasks, late>> /\ InCycle(s)
        /\ cycle' = [cycle EXCEPT ![s].pc = "looked", ![s].active = Active # {}]
    BY <1>10 DEF LookForActive, InCycle
  <2>2. \A r \in Schedulers : /\ cycle'[r].row = cycle[r].row /\ cycle'[r].at = cycle[r].at
                              /\ InCycle(r)' => InCycle(r)
    BY <2>1, <1>0 DEF TypeOK, InCycle
  <2>3. QED
    BY <2>1, <2>2, <1>0 DEF NextIsFree, NextDue, Present, KeyTaken
<1>11. ASSUME NEW s \in Schedulers, CommitCycle(s) PROVE NextIsFree'
  <2>1. /\ cycle' = [cycle EXCEPT ![s] = NoCycle] /\ InCycle(s) /\ now' = now
        /\ \/ UNCHANGED <<sub, tasks, late>>
           \/ /\ sub' = [sub EXCEPT !.next = NextDue(cycle[s])]
              /\ late' = (late \/ (~OneInterval /\ NextDue(cycle[s]) <= now))
    BY <1>11 DEF CommitCycle, InCycle
  <2>2. /\ \A r \in Schedulers : InCycle(r)' => r # s /\ InCycle(r) /\ cycle'[r] = cycle[r]
        /\ \A r \in Schedulers \ {s} : InCycle(r) => InCycle(r)'
    BY <2>1, <1>0 DEF InCycle, NoCycle, TypeOK
  <2>3. /\ cycle[s].row.next < NextDue(cycle[s]) /\ cycle[s].row.next <= now
        /\ NextDue(cycle[s]) \in Nat /\ NextDue(cycle[s]) > cycle[s].at
    BY <2>1, <1>0, Numbers, Processes DEF CyclesSound, NextDue
  <2>4. \A v \in Nat \ {0} : KeyTaken(v)' => KeyTaken(v) \/ v = cycle[s].row.next
    BY <2>2, KeysKept DEF InCycle
  <2>5. \A v \in Nat \ {0} : KeyTaken(v)' => v <= now
    BY <2>1, SlotsPreserved, <1>0, Numbers DEF SlotsPast, KeyTaken
  <2>6. CASE UNCHANGED <<sub, tasks, late>>
    BY <2>1, <2>2, <2>6, <1>0 DEF NextIsFree, NextDue, Present, KeyTaken
  <2>7. CASE /\ sub' = [sub EXCEPT !.next = NextDue(cycle[s])]
             /\ late' = (late \/ (~OneInterval /\ NextDue(cycle[s]) <= now))
    <3>1. sub'.next = NextDue(cycle[s])
      BY <2>7, <1>0 DEF TypeOK, Subscription
    <3>2. ASSUME OneInterval \/ ~late', NEW v \in 1 .. MaxTime, v = NextDue(cycle[s])
          PROVE  ~KeyTaken(v)'
      <4>0. v \in Nat \ {0} /\ v <= MaxTime /\ v # cycle[s].row.next
        BY <3>2, <2>3, <1>0, Numbers, Processes
      <4>1. CASE OneInterval
        <5>1. ~KeyTaken(v)
          <6>1. ~KeyTaken(NextDue(cycle[s]))
            BY <4>0, <4>1, <3>2, <2>1, <1>0 DEF NextIsFree
          <6>2. QED
            BY <6>1, <3>2
        <5>2. QED
          BY <5>1, <4>0, <2>4
      <4>2. CASE ~late' /\ ~OneInterval
        <5>1. v > now
          <6>1. ~ (NextDue(cycle[s]) <= now)
            BY <4>2, <2>7, Zenon
          <6>2. QED
            BY <6>1, <3>2, <2>3, <1>0, Numbers
        <5>2. QED
          BY <5>1, <4>0, <2>5, <1>0, Numbers
      <4>3. QED
        BY <3>2, <4>1, <4>2
    <3>3. ASSUME OneInterval, NEW r \in Schedulers, InCycle(r)', NextDue(cycle[r]) <= MaxTime
          PROVE  /\ NextDue(cycle[s]) # NextDue(cycle[r]) /\ ~KeyTaken(NextDue(cycle[r]))'
                 /\ \A x \in Schedulers \ {r} :
                      InCycle(x)' => cycle[x].row.next # NextDue(cycle[r])
      <4>1. r # s /\ InCycle(r) /\ NextDue(cycle[r]) \in Nat \ {0}
        BY <2>2, <3>3, <1>0, Processes, Numbers DEF NextDue, CyclesSound
      <4>2. cycle[r].row.interval = cycle[s].row.interval /\ cycle[r].row.interval > 0
        BY <4>1, <2>1, <3>3, <1>0, Numbers DEF CyclesSound, OneInterval
      <4>3. cycle[r].at # cycle[s].at
        BY <4>1, <4>2, <2>1, <3>3, <1>0, Numbers, Processes DEF CyclesSound, NextDue
      <4>4. NextDue(cycle[s]) # NextDue(cycle[r])
        BY <4>2, <4>3, <1>0, Processes DEF NextDue
      <4>5. /\ ~KeyTaken(NextDue(cycle[r]))
            /\ \A x \in Schedulers \ {r} : InCycle(x) => cycle[x].row.next # NextDue(cycle[r])
        BY <4>1, <3>3, <1>0 DEF NextIsFree
      <4>6. QED
        BY <4>1, <4>4, <4>5, <2>1, <2>2, <2>4
    <3>4. QED
      BY <2>2, <3>1, <3>2, <3>3 DEF NextIsFree, NextDue
  <2>8. QED
    BY <2>1, <2>6, <2>7
<1>12. ASSUME NEW w \in Workers, NEW t \in DOMAIN tasks, ClaimScan(w, t) PROVE NextIsFree'
  <2>1. UNCHANGED <<cycle, late>> /\ sub' = sub
    BY <1>12, <1>0 DEF ClaimScan, Present
  <2>2. \A v \in Nat \ {0} : KeyTaken(v)' => KeyTaken(v)
    BY <2>1, KeysKept DEF InCycle
  <2>3. QED
    BY <2>1, <2>2, <1>0, Numbers, Processes DEF NextIsFree, CyclesSound, NextDue, InCycle,
       Present
<1>13. ASSUME NEW w \in Workers, ScanSucceeds(w) PROVE NextIsFree'
  <2>1. /\ UNCHANGED <<cycle, late, tasks, now>> /\ Present
        /\ sub' = [sub EXCEPT !.next = IF mode = "legacy" THEN now + sub.interval ELSE @]
    BY <1>13 DEF ScanSucceeds
  <2>2. CASE mode = "legacy"
    <3>1. \A s \in Schedulers : ~InCycle(s)
      BY <2>2, <1>0 DEF CyclesSound
    <3>2. \A v \in Nat \ {0} : ~KeyTaken(v)
      BY <2>2, <1>0 DEF SlotsPast, KeyTaken, None
    <3>3. QED
      BY <2>1, <3>1, <3>2, <1>0, Numbers DEF NextIsFree, KeyTaken, InCycle
  <2>3. CASE mode # "legacy"
    <3>1. sub'.next = sub.next
      BY <2>1, <2>3, <1>0 DEF TypeOK, Subscription
    <3>2. QED
      BY <2>1, <3>1, <1>0 DEF NextIsFree, NextDue, InCycle, KeyTaken, Present
  <2>4. QED
    BY <2>2, <2>3
<1>14. ASSUME NEW w \in Workers, FinishScan(w) PROVE NextIsFree'
  <2>1. UNCHANGED <<cycle, late>> /\ sub' = sub
    BY <1>14, <1>0 DEF FinishScan, Present
  <2>2. \A v \in Nat \ {0} : KeyTaken(v)' => KeyTaken(v)
    BY <2>1, KeysKept DEF InCycle
  <2>3. QED
    BY <2>1, <2>2, <1>0, Numbers, Processes DEF NextIsFree, CyclesSound, NextDue, InCycle,
       Present
<1>15. ASSUME NEW t \in DOMAIN tasks, RecoverScan(t) PROVE NextIsFree'
  <2>1. UNCHANGED <<cycle, late>> /\ sub' = sub
    BY <1>15, <1>0 DEF RecoverScan, Present
  <2>2. \A v \in Nat \ {0} : KeyTaken(v)' => KeyTaken(v)
    BY <2>1, KeysKept DEF InCycle
  <2>3. QED
    BY <2>1, <2>2, <1>0, Numbers, Processes DEF NextIsFree, CyclesSound, NextDue, InCycle,
       Present
<1>16. ASSUME NEW w \in Workers, RunLegacyScan(w) PROVE NextIsFree'
  <2>1. UNCHANGED <<cycle, late>> /\ sub' = sub
    BY <1>16, <1>0 DEF RunLegacyScan, Present
  <2>2. \A v \in Nat \ {0} : KeyTaken(v)' => KeyTaken(v)
    BY <2>1, KeysKept DEF InCycle
  <2>3. QED
    BY <2>1, <2>2, <1>0, Numbers, Processes DEF NextIsFree, CyclesSound, NextDue, InCycle,
       Present
<1>17. CASE RestartLegacy
  <2>1. UNCHANGED <<cycle, late>> /\ sub' = sub
    BY <1>17, <1>0 DEF RestartLegacy, Present
  <2>2. \A v \in Nat \ {0} : KeyTaken(v)' => KeyTaken(v)
    BY <2>1, KeysKept DEF InCycle
  <2>3. QED
    BY <2>1, <2>2, <1>0, Numbers, Processes DEF NextIsFree, CyclesSound, NextDue, InCycle,
       Present
<1>18. QED
  BY <1>1, <1>2, <1>3, <1>4, <1>5, <1>6, <1>7, <1>8, <1>9, <1>10, <1>11, <1>12, <1>13,
     <1>14, <1>15, <1>16, <1>17 DEF Next, Serve, Schedule, Work, Execute

\* A subscription outlives its scans, and a scan ends in one way.
LEMMA ScansPreserved ==
  ASSUME SubscriptionInvariant, Next
  PROVE  ScansSound'
<1>0. /\ TypeOK /\ CyclesSound /\ SlotsPast /\ SlotServedOnce /\ NextIsFree
      /\ ScansSound /\ EditsSound /\ EnabledHasSlot
  BY DEF SubscriptionInvariant
<1>1. ASSUME NEW c \in Clients,
             \/ ReadForEdit(c) \/ LookForManualScan(c) \/ InsertManualScan(c)
             \/ LookForDeletion(c)
      PROVE  ScansSound'
  <2>1. UNCHANGED <<scan, sub>>
    BY <1>1 DEF ReadForEdit, LookForManualScan, InsertManualScan, LookForDeletion
  <2>2. QED
    BY <2>1, <1>0 DEF ScansSound
<1>2. ASSUME NEW s \in Schedulers,
             \/ ReadDue(s) \/ LookForActive(s)
      PROVE  ScansSound'
  <2>1. UNCHANGED <<scan, sub>>
    BY <1>2 DEF ReadDue, LookForActive
  <2>2. QED
    BY <2>1, <1>0 DEF ScansSound
<1>3. ASSUME NEW t \in DOMAIN tasks, RecoverScan(t)
      PROVE  ScansSound'
  <2>1. UNCHANGED <<scan, sub>>
    BY <1>3 DEF RecoverScan
  <2>2. QED
    BY <2>1, <1>0 DEF ScansSound
<1>4. CASE Tick
  <2>1. UNCHANGED <<scan, sub>>
    BY <1>4 DEF Tick
  <2>2. QED
    BY <2>1, <1>0 DEF ScansSound
<1>5. ASSUME NEW enabled \in BOOLEAN, NEW i \in Intervals, CreateSubscription(enabled, i)
      PROVE  ScansSound'
  BY <1>5, <1>0 DEF CreateSubscription, ScansSound
<1>6. ASSUME NEW c \in Clients, NEW p \in Patch, EditSubscription(c, p) PROVE ScansSound'
  <2>1. UNCHANGED scan
    BY <1>6 DEF EditSubscription
  <2>2. QED
    BY <2>1, <1>0, StaysKnown DEF ScansSound
<1>7. ASSUME NEW c \in Clients, DeleteSubscription(c) PROVE ScansSound'
  <2>1. UNCHANGED scan
    BY <1>7 DEF DeleteSubscription
  <2>2. QED
    BY <2>1, <1>0, StaysKnown DEF ScansSound
<1>8. ASSUME NEW s \in Schedulers, CommitCycle(s) PROVE ScansSound'
  <2>1. UNCHANGED scan
    BY <1>8 DEF CommitCycle
  <2>2. QED
    BY <2>1, <1>0, StaysKnown DEF ScansSound
<1>9. ASSUME NEW w \in Workers, NEW t \in DOMAIN tasks, ClaimScan(w, t) PROVE ScansSound'
  BY <1>9, <1>0 DEF ClaimScan, ScansSound
<1>10. ASSUME NEW w \in Workers, StartScan(w) PROVE ScansSound'
  <2>1. PICK p \in {"finish", "scanning"}, o \in TaskStatuses \cup {"none"} :
         /\ Goto(w, p, o) /\ (p = "finish" => o \in TaskStatuses)
         /\ (p = "scanning" => Present) /\ UNCHANGED sub
    BY <1>10 DEF StartScan, Refusal, TaskStatuses
  <2>2. QED
    BY <2>1, <1>0 DEF Goto, ScansSound, TypeOK, Present
<1>11. ASSUME NEW w \in Workers, ScanSucceeds(w) PROVE ScansSound'
  BY <1>11, <1>0 DEF ScanSucceeds, Goto, ScansSound, TypeOK, TaskStatuses
<1>12. ASSUME NEW w \in Workers, NEW o \in Failures, ScanFails(w, o) PROVE ScansSound'
  BY <1>12, <1>0 DEF ScanFails, Goto, ScansSound, TypeOK, TaskStatuses, Failures
<1>13. ASSUME NEW w \in Workers, FinishScan(w) PROVE ScansSound'
  BY <1>13, <1>0 DEF FinishScan, NoScan, ScansSound
<1>14. ASSUME NEW w \in Workers, WorkerDies(w) PROVE ScansSound'
  BY <1>14, <1>0 DEF WorkerDies, NoScan, ScansSound
<1>15. ASSUME NEW w \in Workers, RunLegacyScan(w) PROVE ScansSound'
  <2>1. /\ sub' = sub /\ Present
        /\ \E u : scan' = [scan EXCEPT ![w] = [pc |-> "scanning", task |-> u, outcome |-> "none"]]
    BY <1>15 DEF RunLegacyScan
  <2>2. QED
    BY <2>1, <1>0 DEF ScansSound, TypeOK, Present
<1>16. CASE RestartLegacy
  BY <1>16 DEF RestartLegacy, NoScan, ScansSound
<1>17. QED
  BY <1>1, <1>2, <1>3, <1>4, <1>5, <1>6, <1>7, <1>8, <1>9, <1>10, <1>11, <1>12, <1>13,
     <1>14, <1>15, <1>16 DEF Next, Serve, Schedule, Work, Execute

\* The first edit leaves no due time on a paused subscription; only what a second and a
\* third cross leaves one.
LEMMA EditsPreserved ==
  ASSUME SubscriptionInvariant, Next
  PROVE  EditsSound'
<1>0. /\ TypeOK /\ CyclesSound /\ SlotsPast /\ SlotServedOnce /\ NextIsFree
      /\ ScansSound /\ EditsSound /\ EnabledHasSlot
  BY DEF SubscriptionInvariant
<1>1. ASSUME NEW t \in DOMAIN tasks, RecoverScan(t)
      PROVE  EditsSound'
  <2>1. UNCHANGED <<mode, sub, events, request, cycle, scan>>
    BY <1>1 DEF RecoverScan
  <2>2. QED
    BY <2>1, <1>0 DEF EditsSound, Pending, LeftOver, NothingWrites, InCycle, Present
<1>2. CASE Tick
  <2>1. UNCHANGED <<mode, sub, events, request, cycle, scan>>
    BY <1>2 DEF Tick
  <2>2. QED
    BY <2>1, <1>0 DEF EditsSound, Pending, LeftOver, NothingWrites, InCycle, Present
<1>3. ASSUME NEW enabled \in BOOLEAN, NEW i \in Intervals, CreateSubscription(enabled, i)
      PROVE  EditsSound'
  <2>1. /\ sub.state = "absent" /\ UNCHANGED <<mode, events, request, cycle, scan>>
        /\ sub'.state = "present" /\ (~sub'.enabled => sub'.next = None)
    BY <1>3 DEF CreateSubscription
  <2>2. /\ \A d \in Clients : ~Pending(d)
        /\ \A s \in Schedulers : ~InCycle(s)
        /\ \A w \in Workers : scan[w].pc # "scanning"
    BY <2>1, <1>0 DEF EditsSound, CyclesSound, ScansSound
  <2>3. (\A d \in Clients : ~Pending(d))' /\ NothingWrites'
    BY <2>1, <2>2 DEF Pending, NothingWrites, InCycle
  <2>4. QED
    BY <2>1, <2>3 DEF EditsSound
<1>4. ASSUME NEW c \in Clients, ReadForEdit(c) PROVE EditsSound'
  BY <1>4, <1>0, Numbers, Rows DEF ReadForEdit, EditsSound, Pending, LeftOver,
     NothingWrites, InCycle, Present
<1>5. ASSUME NEW c \in Clients, NEW p \in Patch, EditSubscription(c, p) PROVE EditsSound'
  <2>1. /\ UNCHANGED <<mode, events, cycle, scan>> /\ Pending(c)
        /\ request' = [request EXCEPT ![c] = NoRequest]
    BY <1>5 DEF EditSubscription, Pending
  <2>2. /\ ~Pending(c)'
        /\ \A d \in Clients \ {c} : Pending(d)' => Pending(d) /\ request'[d] = request[d]
    BY <2>1, <1>0 DEF Pending, NoRequest, TypeOK
  <2>3. events # 0 /\ (events <= 1 => \A d \in Clients : ~Pending(d)')
    BY <2>1, <2>2, <1>0 DEF EditsSound
  <2>4. events <= 2 => \A d \in Clients : Pending(d)' => ~LeftOver(request'[d].row)
    BY <2>1, <2>2, <1>0 DEF EditsSound
  <2>5. QED
    BY <2>1, <2>2, <2>3, <2>4, <1>0, StaysKnown, Numbers DEF EditsSound
<1>6. ASSUME NEW c \in Clients, LookForManualScan(c) PROVE EditsSound'
  BY <1>6, <1>0 DEF LookForManualScan, EditsSound, Pending
<1>7. ASSUME NEW c \in Clients, InsertManualScan(c) PROVE EditsSound'
  BY <1>7, <1>0 DEF InsertManualScan, NoRequest, EditsSound, Pending, NothingWrites,
     InCycle, Present
<1>8. ASSUME NEW c \in Clients, LookForDeletion(c) PROVE EditsSound'
  BY <1>8, <1>0 DEF LookForDeletion, EditsSound, Pending, NothingWrites, InCycle
<1>9. ASSUME NEW c \in Clients, DeleteSubscription(c) PROVE EditsSound'
  <2>1. /\ UNCHANGED <<mode, events, cycle, scan>>
        /\ request' = [request EXCEPT ![c] = NoRequest]
        /\ sub' = sub \/ sub'.state = "deleted"
    BY <1>9, <1>0 DEF DeleteSubscription, TypeOK, Subscription
  <2>2. /\ \A d \in Clients : Pending(d)' => Pending(d) /\ request'[d] = request[d]
        /\ \A d \in Clients : Pending(d) => Pending(d)'
    BY <1>9, <2>1, <1>0 DEF DeleteSubscription, Pending, NoRequest, TypeOK
  <2>3. NothingWrites' = NothingWrites
    BY <2>1 DEF NothingWrites, InCycle
  <2>4. CASE sub' = sub
    BY <2>1, <2>2, <2>3, <2>4, <1>0 DEF EditsSound, LeftOver, Present
  <2>5. CASE sub'.state = "deleted"
    BY <2>1, <2>2, <2>5, <1>0 DEF EditsSound, LeftOver, Present
  <2>6. QED
    BY <2>1, <2>4, <2>5
<1>10. ASSUME NEW s \in Schedulers, ReadDue(s) PROVE EditsSound'
  BY <1>10, <1>0 DEF ReadDue, EditsSound, Pending
<1>11. ASSUME NEW s \in Schedulers, LookForActive(s) PROVE EditsSound'
  BY <1>11, <1>0 DEF LookForActive, EditsSound, Pending, NothingWrites, InCycle, Present
<1>12. ASSUME NEW s \in Schedulers, CommitCycle(s) PROVE EditsSound'
  <2>1. /\ UNCHANGED <<mode, events, request, scan>> /\ InCycle(s)
        /\ cycle' = [cycle EXCEPT ![s] = NoCycle]
        /\ \/ sub' = sub
           \/ Present /\ sub' = [sub EXCEPT !.next = NextDue(cycle[s])]
    BY <1>12 DEF CommitCycle, InCycle
  <2>2. ~NothingWrites
    BY <2>1 DEF NothingWrites
  <2>3. \A d \in Clients : Pending(d)' = Pending(d)
    BY <2>1 DEF Pending
  <2>4. /\ sub'.state = sub.state /\ sub'.enabled = sub.enabled
        /\ sub' = sub \/ sub'.next # None
    BY <2>1, <1>0, Numbers, Processes DEF TypeOK, Subscription, NextDue, CyclesSound
  <2>5. QED
    BY <2>1, <2>2, <2>3, <2>4, <1>0 DEF EditsSound, LeftOver, Present
<1>13. ASSUME NEW w \in Workers, NEW t \in DOMAIN tasks, ClaimScan(w, t) PROVE EditsSound'
  BY <1>13, <1>0 DEF ClaimScan, EditsSound, Pending, NothingWrites, InCycle, Present
<1>14. ASSUME NEW w \in Workers, StartScan(w) PROVE EditsSound'
  BY <1>14, <1>0 DEF StartScan, EditsSound, Pending, NothingWrites, InCycle, Present
<1>15. ASSUME NEW w \in Workers, ScanSucceeds(w) PROVE EditsSound'
  BY <1>15, <1>0, Numbers, Rows DEF ScanSucceeds, EditsSound, Pending, NothingWrites,
     InCycle
<1>16. ASSUME NEW w \in Workers, NEW o \in Failures, ScanFails(w, o) PROVE EditsSound'
  BY <1>16, <1>0 DEF ScanFails, EditsSound, Pending, NothingWrites, InCycle, Present
<1>17. ASSUME NEW w \in Workers, FinishScan(w) PROVE EditsSound'
  BY <1>17, <1>0 DEF FinishScan, NoScan, EditsSound, Pending, NothingWrites, InCycle,
     Present
<1>18. ASSUME NEW w \in Workers, WorkerDies(w) PROVE EditsSound'
  BY <1>18, <1>0, Numbers DEF WorkerDies, EditsSound, Pending
<1>19. ASSUME NEW w \in Workers, RunLegacyScan(w) PROVE EditsSound'
  BY <1>19, <1>0 DEF RunLegacyScan, EditsSound, Pending
<1>20. CASE RestartLegacy
  BY <1>20, <1>0, Numbers DEF RestartLegacy, NoRequest, EditsSound, Pending
<1>21. QED
  BY <1>1, <1>2, <1>3, <1>4, <1>5, <1>6, <1>7, <1>8, <1>9, <1>10, <1>11, <1>12, <1>13,
     <1>14, <1>15, <1>16, <1>17, <1>18, <1>19, <1>20 DEF Next, Serve, Schedule, Work,
     Execute

\* Whoever enables the subscription gives it a due time, until three edits have crossed.
LEMMA SlotsKept ==
  ASSUME SubscriptionInvariant, Next
  PROVE  EnabledHasSlot'
<1>0. /\ TypeOK /\ CyclesSound /\ SlotsPast /\ SlotServedOnce /\ NextIsFree
      /\ ScansSound /\ EditsSound /\ EnabledHasSlot
  BY DEF SubscriptionInvariant
<1>1. ASSUME NEW c \in Clients,
             \/ LookForManualScan(c) \/ InsertManualScan(c) \/ LookForDeletion(c)
      PROVE  EnabledHasSlot'
  <2>1. UNCHANGED <<sub, events>>
    BY <1>1 DEF LookForManualScan, InsertManualScan, LookForDeletion
  <2>2. QED
    BY <2>1, <1>0 DEF EnabledHasSlot, Present
<1>2. ASSUME NEW w \in Workers,
             \/ StartScan(w) \/ FinishScan(w) \/ RunLegacyScan(w)
      PROVE  EnabledHasSlot'
  <2>1. UNCHANGED <<sub, events>>
    BY <1>2 DEF StartScan, FinishScan, RunLegacyScan
  <2>2. QED
    BY <2>1, <1>0 DEF EnabledHasSlot, Present
<1>3. ASSUME NEW s \in Schedulers,
             \/ ReadDue(s) \/ LookForActive(s)
      PROVE  EnabledHasSlot'
  <2>1. UNCHANGED <<sub, events>>
    BY <1>3 DEF ReadDue, LookForActive
  <2>2. QED
    BY <2>1, <1>0 DEF EnabledHasSlot, Present
<1>4. ASSUME NEW w \in Workers, NEW t \in DOMAIN tasks, ClaimScan(w, t)
      PROVE  EnabledHasSlot'
  <2>1. UNCHANGED <<sub, events>>
    BY <1>4 DEF ClaimScan
  <2>2. QED
    BY <2>1, <1>0 DEF EnabledHasSlot, Present
<1>5. ASSUME NEW w \in Workers, NEW o \in Failures, ScanFails(w, o)
      PROVE  EnabledHasSlot'
  <2>1. UNCHANGED <<sub, events>>
    BY <1>5 DEF ScanFails
  <2>2. QED
    BY <2>1, <1>0 DEF EnabledHasSlot, Present
<1>6. ASSUME NEW t \in DOMAIN tasks, RecoverScan(t)
      PROVE  EnabledHasSlot'
  <2>1. UNCHANGED <<sub, events>>
    BY <1>6 DEF RecoverScan
  <2>2. QED
    BY <2>1, <1>0 DEF EnabledHasSlot, Present
<1>7. CASE Tick
  <2>1. UNCHANGED <<sub, events>>
    BY <1>7 DEF Tick
  <2>2. QED
    BY <2>1, <1>0 DEF EnabledHasSlot, Present
<1>8. ASSUME NEW enabled \in BOOLEAN, NEW i \in Intervals, CreateSubscription(enabled, i)
      PROVE  EnabledHasSlot'
  BY <1>8, <1>0, Numbers DEF CreateSubscription, EnabledHasSlot
<1>9. ASSUME NEW c \in Clients, ReadForEdit(c) PROVE EnabledHasSlot'
  BY <1>9, <1>0, Numbers DEF ReadForEdit, EnabledHasSlot
<1>10. ASSUME NEW c \in Clients, NEW p \in Patch, EditSubscription(c, p)
       PROVE  EnabledHasSlot'
  <2> DEFINE row     == request[c].row
             enabled == IF p.enabled = "keep" THEN row.enabled ELSE p.enabled = "on"
             every   == IF p.interval = None THEN row.interval ELSE p.interval
             next    == NextAfterEdit(row, p, enabled, every)
  <2>1. /\ events' = events /\ Pending(c)
        /\ \/ sub' = sub
           \/ /\ Present /\ sub'.state = sub.state
              /\ sub'.enabled = Written(row.enabled, enabled, sub.enabled)
              /\ sub'.next = Written(row.next, next, sub.next)
    BY <1>10, <1>0 DEF EditSubscription, Pending, TypeOK, Subscription
  <2>2. every \in Nat \ {0}
    BY <2>1, <1>0, Numbers DEF EditsSound, Patch
  <2>3. IF enabled THEN next # None ELSE next = None
    BY <2>2, <1>0, Numbers DEF NextAfterEdit
  <2>4. row.enabled \in BOOLEAN /\ enabled \in BOOLEAN /\ sub.enabled \in BOOLEAN
    BY <1>0, Rows, Processes
  <2>5. events <= 2 /\ LeftOver(row) => (Present => ~sub.enabled /\ sub.next # None)
    BY <2>1, <1>0 DEF EditsSound
  <2> HIDE DEF row, enabled, every, next
  <2>6. ASSUME events <= 2, Present, sub'.enabled,
               sub'.enabled = Written(row.enabled, enabled, sub.enabled),
               sub'.next = Written(row.next, next, sub.next)
        PROVE  sub'.next # None
    <3>1. CASE ~row.enabled /\ row.next # None
      BY <3>1, <2>3, <2>4, <2>5, <2>6 DEF Written, LeftOver
    <3>2. CASE row.enabled \/ row.next = None
      BY <3>2, <2>3, <2>4, <2>6, <1>0 DEF Written, EnabledHasSlot
    <3>3. QED
      BY <3>1, <3>2
  <2>7. QED
    BY <2>1, <2>6, <1>0 DEF EnabledHasSlot, Present
<1>11. ASSUME NEW c \in Clients, DeleteSubscription(c) PROVE EnabledHasSlot'
  <2>1. events' = events /\ (sub' = sub \/ sub'.state = "deleted")
    BY <1>11, <1>0 DEF DeleteSubscription, TypeOK, Subscription
  <2>2. QED
    BY <2>1, <1>0 DEF EnabledHasSlot, Present
<1>12. ASSUME NEW s \in Schedulers, CommitCycle(s) PROVE EnabledHasSlot'
  <2>1. /\ events' = events /\ InCycle(s)
        /\ \/ sub' = sub
           \/ sub' = [sub EXCEPT !.next = NextDue(cycle[s])]
    BY <1>12 DEF CommitCycle, InCycle
  <2>2. sub' = sub \/ sub'.next # None
    BY <2>1, <1>0, Numbers, Processes DEF TypeOK, Subscription, NextDue, CyclesSound
  <2>3. QED
    BY <2>1, <2>2, <1>0 DEF EnabledHasSlot, Present
<1>13. ASSUME NEW w \in Workers, ScanSucceeds(w) PROVE EnabledHasSlot'
  BY <1>13, <1>0, Numbers, Rows DEF ScanSucceeds, EnabledHasSlot
<1>14. ASSUME NEW w \in Workers, WorkerDies(w) PROVE EnabledHasSlot'
  BY <1>14, <1>0, Numbers DEF WorkerDies, EnabledHasSlot, Present
<1>15. CASE RestartLegacy
  BY <1>15, <1>0, Numbers DEF RestartLegacy, EnabledHasSlot, Present
<1>16. QED
  BY <1>1, <1>2, <1>3, <1>4, <1>5, <1>6, <1>7, <1>8, <1>9, <1>10, <1>11, <1>12, <1>13,
     <1>14, <1>15 DEF Next, Serve, Schedule, Work, Execute

-------------------------------------------------------------------------------
(***************************************************************************)
(* Theorems.                                                               *)
(***************************************************************************)

\* There is no subscription yet, and nothing is under way.
LEMMA InitialSubscription == Init => SubscriptionInvariant
<1> SUFFICES ASSUME Init PROVE SubscriptionInvariant
  OBVIOUS
<1>0. /\ None = 0 /\ MaxTime \in Nat /\ MaxTasks \in Nat /\ MaxEvents \in Nat
      /\ tasks = << >> /\ DOMAIN tasks = {} /\ Len(tasks) = 0 /\ << >> \in Seq(Task)
      /\ events = 0 /\ now = 0 /\ sub.state = "absent"
      /\ \A s \in Schedulers : cycle[s] = NoCycle
      /\ \A c \in Clients : request[c] = NoRequest
      /\ \A w \in Workers : scan[w] = NoScan
  BY SubscriptionsAssumption DEF Init, None
<1>1. RowType /\ TasksType
  <2>1. sub \in Subscription
    <3>1. PICK i \in Intervals :
            sub = [state |-> "absent", enabled |-> FALSE, interval |-> i, next |-> 0]
      BY <1>0 DEF Init
    <3>2. QED
      BY <3>1 DEF Subscription
  <2>2. job \in BOOLEAN /\ clockRead \in BOOLEAN /\ late \in BOOLEAN /\ mode \in Modes
    BY DEF Init
  <2>3. QED
    BY <1>0, <2>1, <2>2 DEF RowType, TasksType
<1>2. CycleType /\ RequestType /\ ScanType
  BY <1>0 DEF Init, CycleType, RequestType, ScanType, NoCycle, NoRequest, NoScan, Failures
<1>3. TypeOK
  BY <1>1, <1>2 DEF TypeOK, RowType, TasksType, CycleType, RequestType, ScanType
<1>4. \A s \in Schedulers : ~InCycle(s)
  BY <1>0 DEF InCycle, NoCycle
<1>5. CyclesSound /\ SlotsPast /\ SlotServedOnce /\ ScansSound
  BY <1>0, <1>4 DEF CyclesSound, SlotsPast, SlotServedOnce, ScansSound, NoScan
<1>6. NextIsFree /\ EnabledHasSlot
  BY <1>0, <1>4 DEF NextIsFree, EnabledHasSlot, Present
<1>7. EditsSound
  BY <1>0 DEF EditsSound, Pending, NoRequest, Present
<1>8. QED
  BY <1>3, <1>5, <1>6, <1>7 DEF SubscriptionInvariant

\* The invariant is of the state alone.
LEMMA StutterSubscription ==
  ASSUME SubscriptionInvariant, UNCHANGED vars
  PROVE  SubscriptionInvariant'
<1> USE DEF vars
<1>1. TypeOK'
  BY DEF SubscriptionInvariant, TypeOK
<1>2. CyclesSound' /\ SlotsPast' /\ SlotServedOnce' /\ ScansSound'
  BY DEF SubscriptionInvariant, CyclesSound, SlotsPast, SlotServedOnce, ScansSound, InCycle
<1>3. NextIsFree'
  BY DEF SubscriptionInvariant, NextIsFree, InCycle, NextDue, KeyTaken, Present
<1>4. EditsSound' /\ EnabledHasSlot'
  BY DEF SubscriptionInvariant, EditsSound, EnabledHasSlot, Pending, LeftOver,
     NothingWrites,
     InCycle, Present
<1>5. QED
  BY <1>1, <1>2, <1>3, <1>4 DEF SubscriptionInvariant

\* The subscription, its scans, the cycles and the edits stay in step, however many
\* Schedulers, Workers and requests cross and processes die.
THEOREM SubscriptionInvariantHolds == Spec => []SubscriptionInvariant
<1>1. SubscriptionInvariant /\ Next => SubscriptionInvariant'
  <2> SUFFICES ASSUME SubscriptionInvariant, Next PROVE SubscriptionInvariant'
    OBVIOUS
  <2>1. TypeOK'
    BY RowTyped, TasksTyped, CycleTyped, RequestTyped, ScanTyped
    DEF TypeOK, RowType, TasksType, CycleType, RequestType, ScanType
  <2>2. QED
    BY <2>1, CyclesPreserved, SlotsPreserved, NextPreserved, ScansPreserved, EditsPreserved,
       SlotsKept DEF SubscriptionInvariant
<1>2. QED
  BY <1>1, InitialSubscription, StutterSubscription, PTL DEF Spec

\* SlotsAreSound: of one due time one scan is made at most, by however many Schedulers;
\* until the third edit or death an enabled subscription has a due time; and that is
\* not one that has been served, if all intervals are the same or no cycle stalled
\* beyond the due time that it wrote.
THEOREM SlotsAreSoundHolds == Spec => []SlotsAreSound
<1>1. SubscriptionInvariant => SlotsAreSound
  BY DEF SubscriptionInvariant, SlotsAreSound, NextIsFree, DueIsFree
<1>2. QED
  BY <1>1, SubscriptionInvariantHolds, PTL
===============================================================================
