---------------------------- MODULE DownloadProofs ----------------------------
EXTENDS Download, FiniteSetTheorems, TLAPS

-------------------------------------------------------------------------------
(***************************************************************************)
(* The invariant.                                                          *)
(***************************************************************************)

\* Each task succeeds the one before it, which has ended; a request that has read the
\* latest task has read that none is active.
QueueSound ==
  /\ \A t \in DOMAIN tasks :
       /\ tasks[t].predecessor = t - 1
       /\ t < Len(tasks) => tasks[t].status \in TerminalStatuses
       /\ tasks[t].owner # NoWorker =>
            mode = "process" /\ tasks[t].status \in {"running", "cancel_requested"}
  /\ \A c \in Clients : request[c] # NoRequest =>
       /\ request[c].file \in Files
       /\ request[c].predecessor <= Len(tasks)
       /\ request[c].predecessor = Len(tasks) =>
            \A t \in DOMAIN tasks : tasks[t].status \in TerminalStatuses

\* An execution has a task.  In mode "legacy", and while no lease is lost, there is one
\* execution at a time, of a task that is running.
ExecutionSound ==
  \A w \in Workers : pc[w] # "idle" =>
    /\ job[w] \in DOMAIN tasks
    /\ pc[w] \in {"close", "finish"} => outcome[w] # NoOutcome
    /\ mode = "legacy" \/ faults = 0 =>
         /\ tasks[job[w]].status \in {"running", "cancel_requested"}
         /\ mode = "process" => tasks[job[w]].owner = w
         /\ \A v \in Workers \ {w} : pc[v] = "idle"

\* Until a fault, the owner of a task executes it.
OwnersExecute ==
  faults = 0 => \A t \in DOMAIN tasks :
    tasks[t].owner # NoWorker => pc[tasks[t].owner] # "idle" /\ job[tasks[t].owner] = t

\* Who has the lock of an inode is alone to write to it.
LocksSound ==
  /\ \A i \in Inodes : Len(data[i]) <= Size
  /\ \A w \in Workers :
       /\ pc[w] \in {"idle", "open"} => fd[w] = NoInode
       /\ pc[w] \in {"lock"} \cup Locking => fd[w] \in Inodes
       /\ \A v \in Workers \ {w} :
            pc[v] \in Locking /\ pc[w] \in Locking => fd[v] # fd[w]
       /\ pc[w] = "request" => Len(data[fd[w]]) < Size
       /\ pc[w] = "receive" => /\ answer[w].next = Len(data[fd[w]]) + 1
                               /\ answer[w].next <= answer[w].end
       /\ pc[w] \in {"verify", "seal", "confirm", "link"} => Len(data[fd[w]]) = Size

\* From the inspection to the end; up to the link.
Writing == Locking \ {"inspect"}
Filling == Writing \ {"unlink", "close"}

\* One execution writes, to the file that has the partial's name and not the target's.
WriterSound ==
  Orderly =>
    /\ \A v, w \in Workers : pc[v] \in Writing /\ pc[w] \in Writing => v = w
    /\ \A w \in Workers :
         /\ pc[w] \in Filling \cup {"unlink"} => fd[w] = partial
         /\ pc[w] \in Filling /\ target # NoInode =>
              userSteps > 0 /\ target # partial /\ target # checkpoint.published
         /\ faults = 0 /\ pc[w] \in {"lock", "inspect"} => fd[w] = partial
         /\ userSteps = 0 /\ pc[w] = "unlink" => target # NoInode
    /\ userSteps = 0 /\ target \in {NoInode, partial} =>
         \A w \in Workers : fd[w] \in {NoInode, partial}

\* Who writes keeps a checkpoint of its own file.
MemorySound ==
  Orderly =>
    \A w \in Workers : pc[w] \in Writing =>
      /\ memory[w].identity = File(w)
      /\ memory[w].published \in {checkpoint.published, NoInode}
      /\ IF pc[w] = "prepare" THEN checkpoint.identity = File(w) \/ data[fd[w]] = << >>
                              ELSE checkpoint.identity = File(w)
      /\ pc[w] \in {"confirm", "link", "unlink"} =>
           checkpoint = memory[w] /\ checkpoint.digests = << >> /\ checkpoint.published = fd[w]

\* A block that differs from the file's was corrupted, or placed by the user.
BlocksSound ==
  corruptions = 0 => \A i \in Inodes : \A n \in 1 .. Len(data[i]) : data[i][n] # Bad

\* Digests are of blocks of the file, and never vouch for a corrupted block in the
\* partial: while one block at most was corrupted, digests that outlived their blocks
\* are of a partial that had this block.
Vouches(m) ==
  /\ m.identity = NoFile => m.digests = << >>
  /\ Len(m.digests) <= Size
  /\ \A n \in 1 .. Len(m.digests) :
       \/ m.digests[n] = <<m.identity, n>>
       \/ m.digests[n] = Bad /\ corruptions > 0
  /\ partial = NoInode => m.digests = << >>
  /\ partial # NoInode =>
       /\ corruptions = 0 /\ m.digests # << >> => Len(data[partial]) = Size
       /\ corruptions <= 1 =>
            \A n \in 1 .. Len(m.digests) :
              n <= Len(data[partial]) /\ data[partial][n] = Bad => m.digests[n] = Bad
DigestsSound ==
  Orderly => /\ Vouches(checkpoint)
             /\ \A w \in Workers : pc[w] \in Writing => Vouches(memory[w])

\* The evidence in the checkpoint is of what was published.
EvidenceSound ==
  Orderly /\ target # NoInode /\ checkpoint.published = target =>
    /\ checkpoint.digests = << >>
    /\ corruptions <= 1 => checkpoint.identity \in delivered
    /\ \A w \in Workers : pc[w] \in Writing => memory[w].digests = << >>

\* After its verification an execution has the whole of its file; after its link, has
\* delivered it.
DeliverySound ==
  Orderly /\ corruptions <= 1 =>
    \A w \in Workers :
      /\ pc[w] \in {"seal", "confirm", "link"} => Complete(File(w), data[fd[w]])
      /\ pc[w] = "unlink" \/ (pc[w] \in {"close", "finish"} /\ outcome[w] = "success") =>
           File(w) \in delivered

\* An execution that has published goes on to succeed, unless it fails itself.
ReportSound ==
  faults = 0 => \A t \in linked :
    /\ t \in DOMAIN tasks
    /\ tasks[t].status # "success" /\ t \notin broken =>
         \E w \in Workers : job[w] = t
            /\ \/ pc[w] = "unlink"
               \/ pc[w] \in {"close", "finish"} /\ outcome[w] = "success"

\* What was published is still there and its evidence with it, in the checkpoint and
\* in the memory of whoever may write this again.
PublicationSound ==
  userSteps = 0 =>
    /\ target # NoInode => \A w \in Workers : pc[w] \in Writing => memory[w] = checkpoint
    /\ \A t \in linked :
         /\ t \in DOMAIN tasks /\ target # NoInode
         /\ checkpoint.identity = tasks[t].file /\ checkpoint.published = target

PathInvariant ==
  /\ TypeOK
  /\ QueueSound
  /\ ExecutionSound
  /\ OwnersExecute
  /\ LocksSound
  /\ WriterSound
  /\ MemorySound
  /\ BlocksSound
  /\ DigestsSound
  /\ ProgressBelongs
  /\ EvidenceSound
  /\ DeliverySound
  /\ PublishedIsComplete
  /\ SuccessIsPublished
  /\ ReportSound
  /\ PublicationSound

\* The type invariant, by the parts of the state.
DatabaseType ==
  /\ mode \in Modes
  /\ tasks \in Seq(Task) /\ Len(tasks) <= MaxTasks
  /\ request \in [Clients -> [file : Files \cup {NoFile}, predecessor : 0 .. MaxTasks]]
DirectoryType ==
  /\ data \in [Inodes -> Seq(Block)]
  /\ {partial, target} \subseteq Inodes \cup {NoInode}
  /\ checkpoint \in Checkpoint
WorkerType ==
  /\ pc \in [Workers -> Phases]
  /\ job \in [Workers -> 0 .. MaxTasks]
  /\ fd \in [Workers -> Inodes \cup {NoInode}]
  /\ outcome \in [Workers -> {NoOutcome, "success", "failed", "deferred",
                              "waiting_credential", "cancelled"}]
MemoryType ==
  /\ memory \in [Workers -> Checkpoint]
  /\ answer \in [Workers -> [next : 1 .. Size + 1, end : 0 .. Size]]
HistoryType ==
  /\ linked \subseteq 1 .. MaxTasks /\ broken \subseteq 1 .. MaxTasks
  /\ delivered \subseteq Files
  /\ {faults, corruptions, userSteps} \subseteq 0 .. MaxDisturbances

(***************************************************************************)
(* Facts about the operators.                                              *)
(***************************************************************************)

\* There is an inode that no name, evidence or open file refers to.
LEMMA SomeInodeIsUnused ==
  ASSUME TypeOK, NoInode \in {partial, target}
  PROVE  /\ Unused \in Inodes
         /\ Unused \notin {partial, target, checkpoint.published, NoInode}
         /\ \A w \in Workers : Unused # fd[w]
<1> DEFINE opened == {fd[w] : w \in Workers}
           name == IF partial = NoInode THEN target ELSE partial
           used == opened \cup {name} \cup {checkpoint.published}
<1>1. IsFiniteSet(Workers) /\ Cardinality(Workers) \in Nat
  BY FS_CardinalityType, DownloadAssumption
<1>2. /\ IsFiniteSet(opened)
      /\ Cardinality(opened) <= Cardinality(Workers)
      /\ Cardinality(opened) \in Nat
  <2>1. fd \in Surjection(Workers, opened)
    BY DEF TypeOK, Surjection
  <2>2. QED
    BY <1>1, <2>1, FS_Surjection, FS_CardinalityType
<1>3. /\ IsFiniteSet(used)
      /\ Cardinality(used) <= Cardinality(Workers) + 2
      /\ Cardinality(used) \in Nat
  <2> HIDE DEF opened, name
  <2>1. /\ IsFiniteSet(opened \cup {name})
        /\ Cardinality(opened \cup {name}) <= Cardinality(Workers) + 1
        /\ Cardinality(opened \cup {name}) \in Nat
    BY <1>1, <1>2, FS_AddElement
  <2>2. QED
    BY <1>1, <2>1, FS_AddElement
<1>4. IsFiniteSet(Inodes) /\ Cardinality(Inodes) = Cardinality(Workers) + 3
  BY <1>1, FS_Interval DEF Inodes
<1>5. \E i \in Inodes : i \notin used
  <2> HIDE DEF used
  <2>1. ~ (Inodes \subseteq used)
    BY <1>1, <1>3, <1>4, FS_Subset
  <2>2. QED
    BY <2>1
<1>6. \A i \in Inodes : i # NoInode
  BY <1>1 DEF Inodes, NoInode
<1>7. \E i \in Inodes : i \notin {partial, target, checkpoint.published} \cup {fd[w] :
        w \in Workers}
  BY <1>5, <1>6
<1>8. /\ Unused \in Inodes
      /\ Unused \notin {partial, target, checkpoint.published} \cup {fd[w] : w \in Workers}
  BY <1>7 DEF Unused
<1>9. QED
  BY <1>6, <1>8

\* What the executions make of checkpoints.
LEMMA Checkpoints ==
  /\ << >> \in Seq(Block)
  /\ NoCheckpoint \in Checkpoint
  /\ \A w \in Workers : File(w) \in Files => FreshCheckpoint(w) \in Checkpoint
  /\ \A m \in Checkpoint :
       /\ m.digests \in Seq(Block)
       /\ \A d \in Seq(Block) : [m EXCEPT !.digests = d] \in Checkpoint
       /\ \A i \in Inodes \cup {NoInode} :
            [m EXCEPT !.published = i, !.digests = << >>] \in Checkpoint
<1>1. << >> \in Seq(Block)
  OBVIOUS
<1>2. NoCheckpoint \in Checkpoint
  BY <1>1 DEF NoCheckpoint, Checkpoint
<1>3. ASSUME NEW w \in Workers, File(w) \in Files PROVE FreshCheckpoint(w) \in Checkpoint
  BY <1>1, <1>3 DEF FreshCheckpoint, NoCheckpoint, Checkpoint
<1>4. ASSUME NEW m \in Checkpoint
      PROVE  /\ m.digests \in Seq(Block)
             /\ \A d \in Seq(Block) : [m EXCEPT !.digests = d] \in Checkpoint
             /\ \A i \in Inodes \cup {NoInode} :
                  [m EXCEPT !.published = i, !.digests = << >>] \in Checkpoint
  BY <1>1 DEF Checkpoint
<1>5. QED
  BY <1>1, <1>2, <1>3, <1>4

-------------------------------------------------------------------------------
(***************************************************************************)
(* What the steps have in common.                                          *)
(***************************************************************************)
Statuses == ActiveStatuses \cup TerminalStatuses
Outcomes == {NoOutcome, "success", "failed", "deferred", "waiting_credential", "cancelled"}

\* The types, variable by variable.
LEMMA StateTypes ==
  ASSUME TypeOK
  PROVE  /\ mode \in Modes /\ mode \in {"process", "legacy"}
         /\ tasks \in Seq(Task)
         /\ request \in [Clients -> [file : Files \cup {NoFile}, predecessor : 0 .. MaxTasks]]
         /\ data \in [Inodes -> Seq(Block)]
         /\ {partial, target} \subseteq Inodes \cup {NoInode}
         /\ checkpoint \in Checkpoint
         /\ pc \in [Workers -> Phases]
         /\ job \in [Workers -> 0 .. MaxTasks]
         /\ fd \in [Workers -> Inodes \cup {NoInode}]
         /\ memory \in [Workers -> Checkpoint]
         /\ answer \in [Workers -> [next : 1 .. Size + 1, end : 0 .. Size]]
         /\ outcome \in [Workers -> Outcomes]
         /\ linked \subseteq 1 .. MaxTasks /\ broken \subseteq 1 .. MaxTasks
         /\ delivered \subseteq Files
         /\ {faults, corruptions, userSteps} \subseteq 0 .. MaxDisturbances
         /\ {faults, corruptions, userSteps} \subseteq Nat
         /\ NoWorker \notin Workers /\ NoInode \notin Inodes
         /\ Size \in Nat \ {0} /\ ChunkBlocks \in Nat \ {0}
         /\ MaxTasks \in Nat /\ MaxDisturbances \in Nat
<1>1. /\ mode \in Modes /\ mode \in {"process", "legacy"}
      /\ tasks \in Seq(Task)
      /\ request \in [Clients -> [file : Files \cup {NoFile}, predecessor : 0 .. MaxTasks]]
      /\ data \in [Inodes -> Seq(Block)]
      /\ {partial, target} \subseteq Inodes \cup {NoInode}
      /\ checkpoint \in Checkpoint
  BY DownloadAssumption DEF TypeOK
<1>2. /\ pc \in [Workers -> Phases]
      /\ job \in [Workers -> 0 .. MaxTasks]
      /\ fd \in [Workers -> Inodes \cup {NoInode}]
      /\ memory \in [Workers -> Checkpoint]
      /\ answer \in [Workers -> [next : 1 .. Size + 1, end : 0 .. Size]]
      /\ outcome \in [Workers -> Outcomes]
  BY DEF TypeOK, Outcomes
<1>3. /\ linked \subseteq 1 .. MaxTasks /\ broken \subseteq 1 .. MaxTasks
      /\ delivered \subseteq Files
      /\ {faults, corruptions, userSteps} \subseteq 0 .. MaxDisturbances
  BY DEF TypeOK
<1>4. /\ NoWorker \notin Workers /\ NoInode \notin Inodes
      /\ Size \in Nat \ {0} /\ ChunkBlocks \in Nat \ {0}
      /\ MaxTasks \in Nat /\ MaxDisturbances \in Nat
  BY DownloadAssumption DEF Inodes, NoInode
<1>5. QED
  BY <1>1, <1>2, <1>3, <1>4

\* The table of tasks, as a function.
LEMMA TaskTable ==
  ASSUME TypeOK
  PROVE  /\ Len(tasks) \in Nat /\ Len(tasks) <= MaxTasks /\ MaxTasks \in Nat
         /\ DOMAIN tasks = 1 .. Len(tasks) /\ DOMAIN tasks \subseteq 1 .. MaxTasks
         /\ \A t \in DOMAIN tasks :
              /\ tasks[t].file \in Files /\ tasks[t].status \in Statuses
              /\ tasks[t].predecessor \in 0 .. MaxTasks
              /\ tasks[t].owner \in Workers \cup {NoWorker}
<1>1. tasks \in Seq(Task) /\ Len(tasks) <= MaxTasks /\ MaxTasks \in Nat
  BY DownloadAssumption DEF TypeOK
<1>2. \A t \in DOMAIN tasks : tasks[t] \in Task
  BY <1>1
<1>3. QED
  BY <1>1, <1>2 DEF Task, Statuses

\* One row gets another status and another owner.
Becomes(t, s, o) ==
  /\ tasks' \in Seq(Task) /\ Len(tasks') = Len(tasks) /\ DOMAIN tasks' = DOMAIN tasks
  /\ \A u \in DOMAIN tasks : /\ tasks'[u].file = tasks[u].file
                             /\ tasks'[u].predecessor = tasks[u].predecessor
                             /\ u # t => tasks'[u].status = tasks[u].status
                                         /\ tasks'[u].owner = tasks[u].owner
  /\ tasks'[t].status = s /\ tasks'[t].owner = o
\* An update of a row's status, or of its status and owner, leaves the other rows and the
\* rest of the row.
LEMMA RowUpdated ==
  ASSUME TypeOK, NEW t \in DOMAIN tasks, NEW s \in Statuses,
         NEW o \in Workers \cup {NoWorker},
         \/ tasks' = [tasks EXCEPT ![t].owner = o, ![t].status = s]
         \/ tasks' = [tasks EXCEPT ![t].status = s] /\ o = tasks[t].owner
  PROVE  Becomes(t, s, o)
<1> DEFINE row == [file |-> tasks[t].file, status |-> s,
                   predecessor |-> tasks[t].predecessor, owner |-> o]
<1>1. tasks \in Seq(Task) /\ tasks[t] \in Task
  BY DEF TypeOK
<1>2. row \in Task
  BY <1>1 DEF Task, Statuses
<1>3. tasks' = [tasks EXCEPT ![t] = row]
  <2>1. tasks[t] = [file |-> tasks[t].file, status |-> tasks[t].status,
                    predecessor |-> tasks[t].predecessor, owner |-> tasks[t].owner]
    BY <1>1 DEF Task
  <2>2. QED
    BY <1>1, <2>1 DEF Task
<1>4. /\ row.file = tasks[t].file /\ row.predecessor = tasks[t].predecessor
      /\ row.status = s /\ row.owner = o
  OBVIOUS
<1> HIDE DEF row
<1>5. QED
  BY <1>1, <1>2, <1>3, <1>4 DEF Becomes

\* A step of an execution that does not end it.
Running(w) ==
  \/ Refused(w) \/ OpenPartial(w) \/ TryLock(w) \/ StopExecution(w) \/ ExecutionFails(w)
  \/ InspectTarget(w) \/ InspectForeignProgress(w) \/ InspectProgress(w)
  \/ WriteCheckpoint(w) \/ RangeHonoured(w) \/ RangeIgnored(w) \/ ReceiveBlock(w)
  \/ SkipVerification(w) \/ DigestBlock(w) \/ CompareHash(w) \/ Seal(w)
  \/ ConfirmOwnership(w) \/ Link(w) \/ Unlink(w) \/ PublicationFails(w)
  \/ ClosePartial(w) \/ CloseFails(w)

\* What such a step leaves alone, and how it takes the execution further.
Moves(w) ==
  /\ UNCHANGED <<mode, tasks, request, job, faults, userSteps>>
  /\ pc[w] \notin {"idle", "finish"} /\ pc'[w] # "idle"
  /\ pc' \in [Workers -> Phases] /\ outcome' \in [Workers -> Outcomes]
  /\ fd' \in [Workers -> Inodes \cup {NoInode}]
  /\ \A v \in Workers \ {w} :
       pc'[v] = pc[v] /\ fd'[v] = fd[v] /\ memory'[v] = memory[v] /\ answer'[v] = answer[v]
         /\ outcome'[v] = outcome[v]
  /\ pc'[w] # "lock" => fd'[w] = fd[w]
  /\ \A v \in Workers : File(v)' = File(v)
  /\ pc'[w] \in {"close", "finish"} => outcome'[w] # NoOutcome
  /\ pc[w] = "close" =>
       /\ pc'[w] = "finish"
       /\ \/ outcome'[w] = outcome[w]
          \/ outcome'[w] = "failed" /\ (job[w] \in linked => job[w] \in broken')
  /\ pc[w] = "unlink" =>
       /\ pc'[w] = "close"
       /\ outcome'[w] = "success" \/ (job[w] \in linked => job[w] \in broken')
  /\ broken \subseteq broken' /\ broken' \subseteq broken \cup {job[w]}
  /\ \/ linked' = linked /\ delivered' = delivered
     \/ pc'[w] = "unlink" /\ linked' = linked \cup {job[w]} /\ delivered \subseteq delivered'
\* What an execution does to the state, by the phase that it leaves: which it may enter,
\* and to what it has written.
LEMMA RunningMoves ==
  ASSUME TypeOK, ExecutionSound, NEW w \in Workers, Running(w)
  PROVE  Moves(w)
<1>0. /\ pc \in [Workers -> Phases] /\ outcome \in [Workers -> Outcomes]
      /\ fd \in [Workers -> Inodes \cup {NoInode}]
      /\ DOMAIN memory = Workers /\ DOMAIN answer = Workers
      /\ pc[w] \in {"close", "finish"} => outcome[w] # NoOutcome
      /\ partial \in Inodes \cup {NoInode}
  BY DEF TypeOK, ExecutionSound, Outcomes
<1>1. CASE Refused(w)
  BY <1>0, <1>1 DEF Refused, Ends, Goto, Moves, apiVars, directoryVars, executionVars,
     historyVars, boundVars, File, Phases, Locking, Outcomes, NoOutcome
<1>2. CASE OpenPartial(w)
  BY <1>0, SomeInodeIsUnused, <1>2 DEF OpenPartial, Goto, Moves, apiVars, directoryVars,
     executionVars, historyVars, boundVars, File, Phases, Locking, Outcomes, NoOutcome
<1>3. CASE TryLock(w)
  BY <1>0, <1>3 DEF TryLock, Ends, Goto, Moves, apiVars, directoryVars, executionVars,
     historyVars, boundVars, File, Phases, Locking, Outcomes, NoOutcome
<1>4. CASE StopExecution(w)
  BY <1>0, <1>4 DEF StopExecution, StopOutcome, Ends, Goto, NoOutcome, Moves, apiVars,
     directoryVars, executionVars, historyVars, boundVars, File, Phases, Locking, Outcomes
<1>5. CASE ExecutionFails(w)
  BY <1>0, <1>5 DEF ExecutionFails, Ends, Goto, Moves, apiVars, directoryVars,
     executionVars, historyVars, boundVars, File, Phases, Locking, Outcomes, NoOutcome
<1>6. CASE InspectTarget(w)
  BY <1>0, <1>6 DEF InspectTarget, Ends, Goto, Moves, apiVars, directoryVars,
     executionVars, historyVars, boundVars, File, Phases, Locking, Outcomes, NoOutcome
<1>7. CASE InspectForeignProgress(w)
  BY <1>0, <1>7 DEF InspectForeignProgress, Ends, Goto, Moves, apiVars, directoryVars,
     executionVars, historyVars, boundVars, File, Phases, Locking, Outcomes, NoOutcome
<1>8. CASE InspectProgress(w)
  BY <1>0, <1>8 DEF InspectProgress, Goto, Moves, apiVars, directoryVars, executionVars,
     historyVars, boundVars, File, Phases, Locking, Outcomes, NoOutcome
<1>9. CASE WriteCheckpoint(w)
  BY <1>0, <1>9 DEF WriteCheckpoint, Goto, Moves, apiVars, directoryVars, executionVars,
     historyVars, boundVars, File, Phases, Locking, Outcomes, NoOutcome
<1>10. CASE RangeHonoured(w)
  BY <1>0, <1>10 DEF RangeHonoured, Goto, Moves, apiVars, directoryVars, executionVars,
     historyVars, boundVars, File, Phases, Locking, Outcomes, NoOutcome
<1>11. CASE RangeIgnored(w)
  BY <1>0, <1>11 DEF RangeIgnored, Restart, Goto, Moves, apiVars, directoryVars,
     executionVars, historyVars, boundVars, File, Phases, Locking, Outcomes, NoOutcome
<1>12. CASE ReceiveBlock(w)
  BY <1>0, <1>12 DEF ReceiveBlock, Goto, Moves, apiVars, directoryVars, executionVars,
     historyVars, boundVars, File, Phases, Locking, Outcomes, NoOutcome
<1>13. CASE SkipVerification(w)
  BY <1>0, <1>13 DEF SkipVerification, Goto, Moves, apiVars, directoryVars, executionVars,
     historyVars, boundVars, File, Phases, Locking, Outcomes, NoOutcome
<1>14. CASE DigestBlock(w)
  BY <1>0, <1>14 DEF DigestBlock, Goto, Moves, apiVars, directoryVars, executionVars,
     historyVars, boundVars, File, Phases, Locking, Outcomes, NoOutcome
<1>15. CASE CompareHash(w)
  BY <1>0, <1>15 DEF CompareHash, Restart, Goto, Moves, apiVars, directoryVars,
     executionVars, historyVars, boundVars, File, Phases, Locking, Outcomes, NoOutcome
<1>16. CASE Seal(w)
  BY <1>0, <1>16 DEF Seal, Ends, Goto, Moves, apiVars, directoryVars, executionVars,
     historyVars, boundVars, File, Phases, Locking, Outcomes, NoOutcome
<1>17. CASE ConfirmOwnership(w)
  BY <1>0, <1>17 DEF ConfirmOwnership, Goto, Moves, apiVars, directoryVars, executionVars,
     historyVars, boundVars, File, Phases, Locking, Outcomes, NoOutcome
<1>18. CASE Link(w)
  BY <1>0, <1>18 DEF Link, Ends, Goto, Moves, apiVars, directoryVars, executionVars,
     historyVars, boundVars, File, Phases, Locking, Outcomes, NoOutcome
<1>19. CASE Unlink(w) \/ PublicationFails(w)
  BY <1>0, <1>19 DEF Unlink, PublicationFails, Breaks, Ends, Goto, Moves, apiVars,
     directoryVars, executionVars, historyVars, boundVars, File, Phases, Locking,
     Outcomes, NoOutcome
<1>20. CASE ClosePartial(w) \/ CloseFails(w)
  BY <1>0, <1>20 DEF ClosePartial, CloseFails, Breaks, Ends, Goto, Moves, apiVars,
     directoryVars, executionVars, historyVars, boundVars, File, Phases, Locking,
     Outcomes, NoOutcome
<1>21. QED
  BY <1>1, <1>2, <1>3, <1>4, <1>5, <1>6, <1>7, <1>8, <1>9, <1>10, <1>11, <1>12, <1>13,
     <1>14, <1>15, <1>16, <1>17, <1>18, <1>19, <1>20 DEF Running

\* One execution at a time writes to an inode.
Ready(w) ==
  /\ pc[w] = "request" => Len(data[fd[w]]) < Size
  /\ pc[w] = "receive" => /\ answer[w].next = Len(data[fd[w]]) + 1
                          /\ answer[w].next <= answer[w].end
  /\ pc[w] \in {"verify", "seal", "confirm", "link"} => Len(data[fd[w]]) = Size
\* A step of the holder of a lock, on its own file, disturbs no other holder.
LEMMA LocksKept ==
  ASSUME TypeOK, LocksSound, NEW w \in Workers, Moves(w), pc[w] \in Locking,
         pc'[w] \in Locking \cup {"finish"},
         \A i \in Inodes \ {fd[w]} : data'[i] = data[i],
         fd[w] \in Inodes => Len(data'[fd[w]]) <= Size, fd[w] \in Inodes => Ready(w)'
  PROVE  LocksSound'
<1>1. /\ pc'[w] \notin {"idle", "open", "lock"} /\ fd'[w] = fd[w] /\ fd[w] \in Inodes
  BY DEF Moves, LocksSound, Locking
<1>2. \A v \in Workers \ {w} : /\ pc'[v] = pc[v] /\ fd'[v] = fd[v] /\ answer'[v] = answer[v]
                               /\ pc[v] \in Locking => fd[v] # fd[w] /\ fd[v] \in Inodes
  BY DEF Moves, LocksSound
<1>3. \A i \in Inodes : Len(data'[i]) <= Size
  BY <1>1 DEF LocksSound
<1>4. \A v \in Workers \ {w} : pc[v] \in Locking => data'[fd'[v]] = data[fd[v]]
  BY <1>2
<1>5. Ready(w)'
  BY <1>1
<1>6. \A v \in Workers : /\ pc'[v] \in {"idle", "open"} => fd'[v] = NoInode
                         /\ pc'[v] \in {"lock"} \cup Locking => fd'[v] \in Inodes
  BY <1>1, <1>2 DEF LocksSound
<1>7. \A u, v \in Workers : u # v /\ pc'[u] \in Locking /\ pc'[v] \in Locking => fd'[u] # fd'[v]
  BY <1>1, <1>2 DEF LocksSound
<1>8. \A v \in Workers : Ready(v)'
  <2>1. SUFFICES ASSUME NEW v \in Workers \ {w} PROVE Ready(v)'
    BY <1>5
  <2>2. CASE pc[v] \in Locking
    BY <1>2, <1>4, <2>2 DEF Ready, LocksSound
  <2>3. CASE pc[v] \notin Locking
    BY <1>2, <2>3 DEF Ready, Locking
  <2>4. QED
    BY <2>2, <2>3
<1>9. QED
  BY <1>3, <1>6, <1>7, <1>8 DEF LocksSound, Ready

\* A step of the API or the queue.
Queueing ==
  \/ User
  \/ \E w \in Workers : Claim(w) \/ FinishTask(w) \/ Crash(w)
  \/ \E t \in DOMAIN tasks : LoseLease(t)

\* Such a step leaves the directory alone, and each execution as it is unless it begins
\* or ends; the file of a task is never another.
Apart ==
  /\ UNCHANGED <<mode, data, partial, target, checkpoint, linked, delivered, broken, corruptions,
       userSteps>>
  /\ faults' \in Nat /\ faults' >= faults
  /\ DOMAIN tasks \subseteq DOMAIN tasks'
  /\ \A t \in DOMAIN tasks : tasks'[t].file = tasks[t].file
  /\ \A v \in Workers :
       \/ pc'[v] \in {"idle", "open"} /\ fd'[v] = NoInode
       \/ /\ pc[v] # "idle" /\ pc'[v] = pc[v] /\ job'[v] = job[v] /\ fd'[v] = fd[v]
          /\ memory'[v] = memory[v] /\ answer'[v] = answer[v] /\ outcome'[v] = outcome[v]
          /\ File(v)' = File(v)

\* A claim starts an execution for an active task that nobody executes, and a
\* cancellation that was requested stays.
LEMMA Claiming ==
  ASSUME TypeOK, NEW w \in Workers, NEW t \in DOMAIN tasks, ClaimTask(w, t) \/ ClaimLegacy(w, t)
  PROVE  /\ pc[w] = "idle" /\ Claimed(w, t)
         /\ (mode = "legacy" => \A v \in Workers : pc[v] = "idle")
         /\ tasks[t].status \in {"pending", "retry", "cancel_requested"}
         /\ mode = "process" => tasks[t].owner = NoWorker
         /\ \E s \in {"running", "cancel_requested"} :
              Becomes(t, s, IF mode = "process" THEN w ELSE tasks[t].owner)
         /\ UNCHANGED <<mode, request, directoryVars, historyVars, boundVars>>
<1>0. mode \in {"process", "legacy"}
  BY DownloadAssumption DEF TypeOK
<1>1. CASE ClaimTask(w, t)
  <2>1. PICK s \in {"running", "cancel_requested"} :
          tasks' = [tasks EXCEPT ![t].owner = w, ![t].status = s]
    <3>1. tasks[t] \in Task /\ tasks \in Seq(Task)
      BY DEF TypeOK
    <3>2. QED
      BY <1>1, <3>1 DEF ClaimTask, Task
  <2>2. s \in Statuses
    BY DEF Statuses, ActiveStatuses
  <2>3. Becomes(t, s, w)
    BY <2>1, <2>2, RowUpdated
  <2>4. QED
    BY <1>1, <2>3 DEF ClaimTask, FirstIdle
<1>2. CASE ClaimLegacy(w, t)
  <2>1. "running" \in Statuses /\ tasks[t].owner \in Workers \cup {NoWorker}
    BY TaskTable DEF Statuses, ActiveStatuses
  <2>2. Becomes(t, "running", tasks[t].owner)
    BY <1>2, <2>1, RowUpdated DEF ClaimLegacy, SetStatus
  <2>3. QED
    BY <1>2, <2>2 DEF ClaimLegacy
<1>3. QED
  BY <1>1, <1>2

\* A user's resumption or cancellation changes the status of an active task only.
LEMMA Resuming ==
  ASSUME TypeOK, NEW t \in DOMAIN tasks, ResumeDownload(t) \/ CancelDownload(t)
  PROVE  /\ tasks[t].status \in ActiveStatuses
         /\ \/ /\ tasks[t].status = "running" /\ Becomes(t, "cancel_requested", tasks[t].owner)
            \/ /\ tasks[t].status \in {"pending", "retry", "waiting_credential"}
               /\ \E s \in {"pending", "cancelled"} : Becomes(t, s, tasks[t].owner)
         /\ UNCHANGED <<mode, request, directoryVars, executionVars, historyVars, boundVars>>
<1>1. {"pending", "cancel_requested", "cancelled"} \subseteq Statuses
      /\ tasks[t].owner \in Workers \cup {NoWorker}
  BY TaskTable DEF Statuses, ActiveStatuses, TerminalStatuses
<1>2. \A s \in {"pending", "cancel_requested", "cancelled"} :
        SetStatus(t, s) => Becomes(t, s, tasks[t].owner)
  BY <1>1, RowUpdated DEF SetStatus
<1>3. QED
  BY <1>2 DEF ResumeDownload, CancelDownload, ActiveStatuses

\* A lease is lost only of a task that is owned; it counts as a fault if the owner is
\* still alive.
LEMMA Losing ==
  ASSUME TypeOK, NEW t \in DOMAIN tasks, LoseLease(t)
  PROVE  /\ tasks[t].owner # NoWorker
         /\ \E s \in Statuses : /\ Becomes(t, s, NoWorker)
                                /\ IF tasks[t].status = "running" THEN s \in {"retry", "failed"}
                                                                  ELSE s = tasks[t].status
         /\ IF Executing(t) THEN faults' = faults + 1 ELSE faults' = faults
         /\ MayDisturb \/ faults' = faults
         /\ UNCHANGED <<mode, request, directoryVars, executionVars, historyVars, corruptions,
                        userSteps>>
<1>1. PICK s \in IF tasks[t].status = "running" THEN {"retry", "failed"} ELSE {tasks[t].status} :
        tasks' = [tasks EXCEPT ![t].owner = NoWorker, ![t].status = s]
  BY DEF LoseLease
<1>2. s \in Statuses
  BY <1>1, TaskTable DEF Statuses, ActiveStatuses, TerminalStatuses
<1>3. Becomes(t, s, NoWorker)
  BY <1>1, <1>2, RowUpdated
<1>4. QED
  BY <1>1, <1>2, <1>3 DEF LoseLease

\* A task that may be finished is.
LEMMA FinishEnds ==
  ASSUME TypeOK, ExecutionSound, NEW w \in Workers, FinishTask(w), MayFinish(w)
  PROVE  \E s \in Statuses : /\ s = FinalStatus(tasks[job[w]].status, outcome[w])
                             /\ Becomes(job[w], s, NoWorker)
<1>1. pc[w] = "finish" /\ job[w] \in DOMAIN tasks /\ outcome[w] \in Statuses \cup {"deferred"}
  BY DEF FinishTask, ExecutionSound, TypeOK, Statuses, ActiveStatuses, TerminalStatuses
<1> DEFINE s == FinalStatus(tasks[job[w]].status, outcome[w])
<1>2. s \in Statuses
  BY <1>1 DEF FinalStatus, Statuses, ActiveStatuses, TerminalStatuses
<1>3. tasks[job[w]] \in Task /\ tasks \in Seq(Task)
  BY <1>1 DEF TypeOK
<1>4. tasks' = [tasks EXCEPT ![job[w]].owner = NoWorker, ![job[w]].status = s]
  BY <1>1, <1>3 DEF FinishTask, Task
<1> HIDE DEF s
<1>5. Becomes(job[w], s, NoWorker)
  BY <1>1, <1>2, <1>4, RowUpdated
<1>6. QED
  BY <1>2, <1>5 DEF s

\* An execution ends with the task's final status, if it may still write it; a crash
\* leaves the row, or makes it wait again in mode "legacy".
LEMMA Ending ==
  ASSUME TypeOK, ExecutionSound, NEW w \in Workers, FinishTask(w) \/ Crash(w)
  PROVE  /\ pc[w] # "idle" /\ Forget(w)
         /\ \/ tasks' = tasks
            \/ \E s \in Statuses :
                 /\ FinishTask(w) /\ MayFinish(w)
                 /\ s = FinalStatus(tasks[job[w]].status, outcome[w])
                 /\ Becomes(job[w], s, NoWorker)
            \/ /\ Crash(w) /\ mode = "legacy" /\ tasks[job[w]].status = "running"
               /\ Becomes(job[w], "pending", tasks[job[w]].owner)
         /\ \/ FinishTask(w) /\ faults' = faults
            \/ Crash(w) /\ MayDisturb /\ faults' = faults + 1
         /\ UNCHANGED <<mode, request, directoryVars, historyVars, corruptions, userSteps>>
<1>0. /\ FinishTask(w) \/ Crash(w) => pc[w] # "idle"
      /\ job[w] \in DOMAIN tasks
      /\ pc[w] = "finish" => outcome[w] \in Statuses \cup {"deferred"}
  <2>1. pc[w] # "idle"
    BY DEF FinishTask, Crash
  <2>2. job[w] \in DOMAIN tasks /\ (pc[w] = "finish" => outcome[w] # NoOutcome)
    BY <2>1 DEF ExecutionSound
  <2>3. QED
    BY <2>1, <2>2 DEF TypeOK, Statuses, ActiveStatuses, TerminalStatuses
<1>1. CASE FinishTask(w)
  <2>1. CASE MayFinish(w)
    BY <1>0, <1>1, <2>1, FinishEnds DEF FinishTask, boundVars
  <2>2. CASE ~MayFinish(w)
    BY <1>0, <1>1, <2>2 DEF FinishTask, boundVars
  <2>3. QED
    BY <2>1, <2>2
<1>2. CASE Crash(w)
  <2>1. "pending" \in Statuses /\ tasks[job[w]].owner \in Workers \cup {NoWorker}
    BY <1>0, <1>2, TaskTable DEF Statuses, ActiveStatuses
  <2>2. tasks' = [tasks EXCEPT ![job[w]].status = "pending"] =>
          Becomes(job[w], "pending", tasks[job[w]].owner)
    BY <1>0, <1>2, <2>1, RowUpdated
  <2>3. QED
    BY <1>0, <1>2, <2>2 DEF Crash
<1>3. QED
  BY <1>1, <1>2

\* What happens at the queue leaves the directory as it is, and starts or ends executions
\* only.
LEMMA QueueingIsApart ==
  ASSUME TypeOK, ExecutionSound, LocksSound, Queueing
  PROVE  Apart
<1> USE DEF Apart, File, apiVars, directoryVars, historyVars, executionVars, boundVars, NoInode
<1>0. /\ pc \in [Workers -> Phases] /\ job \in [Workers -> 0 .. MaxTasks]
      /\ fd \in [Workers -> Inodes \cup {NoInode}] /\ DOMAIN memory = Workers
      /\ DOMAIN answer = Workers /\ DOMAIN outcome = Workers /\ faults \in Nat
      /\ tasks \in Seq(Task)
  BY DownloadAssumption DEF TypeOK
<1>1. \A v \in Workers : /\ pc[v] = "idle" => fd[v] = NoInode
                         /\ pc[v] # "idle" => job[v] \in DOMAIN tasks
  BY DEF LocksSound, ExecutionSound
<1>2. ASSUME NEW c \in Clients, NEW f \in Files, ReadDestination(c, f) PROVE Apart
  BY <1>0, <1>1, <1>2 DEF ReadDestination
<1>3. ASSUME NEW c \in Clients, NEW t \in DOMAIN tasks, ReadForRetry(c, t) PROVE Apart
  BY <1>0, <1>1, <1>3 DEF ReadForRetry
<1>4. ASSUME NEW c \in Clients, CreateDownload(c) PROVE Apart
  <2>1. /\ DOMAIN tasks \subseteq DOMAIN tasks'
        /\ \A t \in DOMAIN tasks : tasks'[t] = tasks[t]
    BY <1>0, <1>4 DEF CreateDownload
  <2>2. QED
    BY <1>0, <1>1, <1>4, <2>1 DEF CreateDownload
<1>5. ASSUME NEW t \in DOMAIN tasks, ResumeDownload(t) \/ CancelDownload(t) PROVE Apart
  <2>1. DOMAIN tasks' = DOMAIN tasks /\ \A u \in DOMAIN tasks : tasks'[u].file = tasks[u].file
    BY <1>5, Resuming DEF Becomes
  <2>2. QED
    BY <1>0, <1>1, <1>5, <2>1, Resuming
<1>6. ASSUME NEW w \in Workers, NEW t \in DOMAIN tasks, ClaimTask(w, t) \/ ClaimLegacy(w, t)
      PROVE  Apart
  <2>1. DOMAIN tasks' = DOMAIN tasks /\ \A u \in DOMAIN tasks : tasks'[u].file = tasks[u].file
    BY <1>6, Claiming DEF Becomes
  <2>2. /\ pc[w] = "idle" /\ Claimed(w, t)
        /\ UNCHANGED <<mode, request, directoryVars, historyVars, boundVars>>
    BY <1>6, Claiming
  <2>3. QED
    BY <1>0, <1>1, <2>1, <2>2 DEF Claimed
<1>7. ASSUME NEW w \in Workers, FinishTask(w) \/ Crash(w) PROVE Apart
  <2>1. DOMAIN tasks' = DOMAIN tasks /\ \A u \in DOMAIN tasks : tasks'[u].file = tasks[u].file
    BY <1>7, Ending DEF Becomes
  <2>2. /\ pc[w] # "idle" /\ Forget(w) /\ faults' \in {faults, faults + 1}
        /\ UNCHANGED <<mode, request, directoryVars, historyVars, corruptions, userSteps>>
    BY <1>7, Ending
  <2>3. QED
    BY <1>0, <1>1, <2>1, <2>2 DEF Forget
<1>8. ASSUME NEW t \in DOMAIN tasks, LoseLease(t) PROVE Apart
  <2>1. DOMAIN tasks' = DOMAIN tasks /\ \A u \in DOMAIN tasks : tasks'[u].file = tasks[u].file
    BY <1>8, Losing DEF Becomes
  <2>2. /\ faults' \in {faults, faults + 1}
        /\ UNCHANGED <<mode, request, directoryVars, executionVars, historyVars, corruptions,
                       userSteps>>
    BY <1>8, Losing
  <2>3. QED
    BY <1>0, <1>1, <2>1, <2>2
<1>9. QED
  BY <1>2, <1>3, <1>4, <1>5, <1>6, <1>7, <1>8 DEF Queueing, User, Claim

\* Rows are updated while their task is active.
LEMMA QueueKept ==
  ASSUME TypeOK, QueueSound, NEW t \in DOMAIN tasks, NEW s \in Statuses,
         NEW o \in Workers \cup {NoWorker}, Becomes(t, s, o), UNCHANGED <<mode, request>>,
         tasks[t].status \in ActiveStatuses,
         o # NoWorker => mode = "process" /\ s \in {"running", "cancel_requested"}
  PROVE  QueueSound'
<1>0. /\ Len(tasks) \in Nat /\ DOMAIN tasks = 1 .. Len(tasks)
      /\ ActiveStatuses \cap TerminalStatuses = {}
  BY TaskTable DEF ActiveStatuses, TerminalStatuses
<1>1. t = Len(tasks)
  BY <1>0 DEF QueueSound
<1>2. \A c \in Clients : request[c] # NoRequest => request[c].predecessor # Len(tasks)
  BY <1>0 DEF QueueSound
<1>3. \A u \in DOMAIN tasks :
        /\ tasks'[u].predecessor = u - 1
        /\ u < Len(tasks) => tasks'[u].status \in TerminalStatuses
        /\ tasks'[u].owner # NoWorker =>
             mode = "process" /\ tasks'[u].status \in {"running", "cancel_requested"}
  BY <1>0, <1>1 DEF QueueSound, Becomes
<1>4. QED
  BY <1>2, <1>3 DEF QueueSound, Becomes
-------------------------------------------------------------------------------
(***************************************************************************)
(* Each part of the invariant is preserved.                                *)
(***************************************************************************)

\* The lock of a file excludes other executions from it until it is given back, and a
\* slice stays within what is missing of the file.
LEMMA LocksPreserved ==
  ASSUME PathInvariant, Next
  PROVE  LocksSound'
<1>0. /\ TypeOK /\ ExecutionSound /\ LocksSound
  BY DEF PathInvariant
<1>1. /\ pc \in [Workers -> Phases]
      /\ fd \in [Workers -> Inodes \cup {NoInode}] /\ NoInode \notin Inodes
      /\ data \in [Inodes -> Seq(Block)]
      /\ {partial, target} \subseteq Inodes \cup {NoInode}
      /\ answer \in [Workers -> [next : 1 .. Size + 1, end : 0 .. Size]]
      /\ Size \in Nat \ {0} /\ ChunkBlocks \in Nat \ {0}
      /\ {faults, corruptions, userSteps} \subseteq Nat
  BY <1>0, StateTypes
<1>2. CASE UserRemovesTarget
  <2>1. UNCHANGED <<pc, fd, data, answer>>
    BY <1>2 DEF UserRemovesTarget, executionVars
  <2>2. QED
    BY <1>0, <2>1 DEF LocksSound
<1>3. CASE Queueing
  <2>1. /\ data' = data
        /\ \A v \in Workers :
             \/ pc'[v] \in {"idle", "open"} /\ fd'[v] = NoInode
             \/ pc'[v] = pc[v] /\ fd'[v] = fd[v] /\ answer'[v] = answer[v]
    BY <1>3, <1>0, QueueingIsApart DEF Apart
  <2>2. QED
    BY <1>0, <1>1, <2>1 DEF LocksSound, Locking
<1>4. ASSUME NEW w \in Workers,
             StopExecution(w) \/ ExecutionFails(w) \/ InspectTarget(w) \/
             InspectForeignProgress(w) \/ SkipVerification(w) \/ DigestBlock(w) \/
             Seal(w) \/ ConfirmOwnership(w) \/ Link(w) \/ Unlink(w) \/ PublicationFails(w) \/
             ClosePartial(w) \/ CloseFails(w)
      PROVE  LocksSound'
  <2>1. Moves(w)
    BY <1>4, <1>0, RunningMoves DEF Running
  <2>2. /\ data' = data /\ pc[w] \in Locking /\ pc'[w] \in Locking \cup {"finish"}
        /\ pc'[w] \notin {"request", "receive"}
        /\ pc'[w] \in {"verify", "seal", "confirm", "link"} => pc[w] \in {"verify", "seal",
             "confirm"}
    BY <1>4, <1>1 DEF StopExecution, ExecutionFails, InspectTarget,
       InspectForeignProgress, SkipVerification, DigestBlock, Seal, ConfirmOwnership,
       Link, Unlink, PublicationFails, Breaks, ClosePartial, CloseFails, Ends, Goto,
       Locking, directoryVars
  <2>3. fd'[w] = fd[w]
    BY <2>1, <2>2 DEF Moves, Locking
  <2>4. fd[w] \in Inodes => Len(data'[fd[w]]) <= Size /\ Ready(w)'
    BY <1>0, <2>2, <2>3 DEF Ready, LocksSound
  <2>5. QED
    BY <1>0, <2>1, <2>2, <2>4, LocksKept
<1>5. ASSUME NEW w \in Workers, Refused(w) PROVE LocksSound'
  BY <1>5, <1>0 DEF Refused, Ends, Goto, directoryVars, LocksSound, Locking
<1>6. ASSUME NEW w \in Workers, OpenPartial(w) PROVE LocksSound'
  <2>1. /\ pc[w] = "open" /\ pc'[w] = "lock" /\ fd'[w] \in Inodes
        /\ \A v \in Workers \ {w} : pc'[v] = pc[v] /\ fd'[v] = fd[v] /\ answer'[v] = answer[v]
    <3>1. pc[w] = "open" /\ pc' = [pc EXCEPT ![w] = "lock"] /\ fd' = [fd EXCEPT ![w] = partial']
          /\ answer' = answer /\ partial' \in Inodes
      BY <1>6, <1>0, <1>1, SomeInodeIsUnused DEF OpenPartial, Goto
    <3>2. QED
      BY <1>1, <3>1
  <2>2. /\ \A i \in Inodes : Len(data'[i]) <= Size
        /\ \A v \in Workers \ {w} : fd[v] \in Inodes => data'[fd[v]] = data[fd[v]]
    <3>1. CASE partial = NoInode
      <4>1. data' = [data EXCEPT ![Unused] = << >>] /\ \A v \in Workers : Unused # fd[v]
        BY <1>6, <1>0, <3>1, SomeInodeIsUnused DEF OpenPartial
      <4>2. QED
        BY <1>0, <1>1, <4>1 DEF LocksSound
    <3>2. CASE partial # NoInode
      BY <1>6, <1>0, <3>2 DEF OpenPartial, LocksSound
    <3>3. QED
      BY <3>1, <3>2
  <2>3. QED
    BY <1>0, <2>1, <2>2 DEF LocksSound, Locking
<1>7. ASSUME NEW w \in Workers, TryLock(w) PROVE LocksSound'
  <2>1. /\ pc[w] = "lock" /\ UNCHANGED <<data, fd, answer>>
        /\ \/ pc' = [pc EXCEPT ![w] = "finish"]
           \/ pc' = [pc EXCEPT ![w] = "inspect"] /\ ~LockHeld(fd[w])
    BY <1>7 DEF TryLock, Ends, Goto, directoryVars
  <2>2. QED
    BY <1>0, <1>1, <2>1 DEF LocksSound, LockHeld, Locking
<1>8. ASSUME NEW w \in Workers, InspectProgress(w) PROVE LocksSound'
  <2>1. Moves(w)
    BY <1>8, <1>0, RunningMoves DEF Running
  <2>2. /\ pc[w] = "inspect" /\ pc'[w] = "prepare"
        /\ data' = data \/ data' = [data EXCEPT ![fd[w]] = << >>]
    BY <1>8, <1>0, <1>1 DEF InspectProgress, Emptied, Goto
  <2>3. \A i \in Inodes \ {fd[w]} : data'[i] = data[i]
    BY <1>1, <2>2
  <2>4. fd[w] \in Inodes => Len(data'[fd[w]]) <= Size /\ Ready(w)'
    BY <1>0, <1>1, <2>1, <2>2 DEF Ready, LocksSound, Moves
  <2>5. QED
    BY <1>0, <2>1, <2>2, <2>3, <2>4, LocksKept DEF Locking
<1>9. ASSUME NEW w \in Workers, WriteCheckpoint(w) PROVE LocksSound'
  BY <1>9, <1>0, <1>1 DEF WriteCheckpoint, Goto, LocksSound, Locking
<1>10. ASSUME NEW w \in Workers, RangeHonoured(w) PROVE LocksSound'
  BY <1>10, <1>0, <1>1, RunningMoves DEF Running, Moves, RangeHonoured, SliceEnd,
     Smaller, Goto, apiVars, directoryVars, executionVars, historyVars, boundVars,
     LocksSound, Locking
<1>11. ASSUME NEW w \in Workers, RangeIgnored(w) PROVE LocksSound'
  <2>1. Moves(w)
    BY <1>11, <1>0, RunningMoves DEF Running
  <2>2. /\ pc[w] = "request" /\ pc'[w] \in {"close", "receive"}
        /\ pc'[w] = "receive" => answer'[w] = [next |-> 1, end |-> Size]
        /\ data' = [data EXCEPT ![fd[w]] = << >>] \/ (data' = data /\ data[fd[w]] = << >>)
    BY <1>11, <1>0, <1>1 DEF RangeIgnored, Restart, Goto
  <2>3. \A i \in Inodes \ {fd[w]} : data'[i] = data[i]
    BY <1>1, <2>2
  <2>4. fd[w] \in Inodes => Len(data'[fd[w]]) <= Size /\ Ready(w)'
    BY <1>0, <1>1, <2>1, <2>2 DEF Ready, LocksSound, Moves
  <2>5. QED
    BY <1>0, <2>1, <2>2, <2>3, <2>4, LocksKept DEF Locking
<1>12. ASSUME NEW w \in Workers, ReceiveBlock(w) PROVE LocksSound'
  <2>1. Moves(w)
    BY <1>12, <1>0, RunningMoves DEF Running
  <2>2. PICK b \in Block \cup {<<File(w), answer[w].next>>} :
          data' = [data EXCEPT ![fd[w]] = Append(@, b)]
    BY <1>12 DEF ReceiveBlock, Block
  <2>3. /\ pc[w] = "receive" /\ pc'[w] \in {"receive", "close", "verify"}
        /\ answer'[w].next = answer[w].next + 1 /\ answer'[w].end = answer[w].end
        /\ fd' = fd
        /\ pc'[w] = "receive" => answer[w].next < answer[w].end
        /\ pc'[w] = "verify" => answer[w].next = Size
    BY <1>12, <1>1 DEF ReceiveBlock, Goto
  <2>4. \A i \in Inodes \ {fd[w]} : data'[i] = data[i]
    BY <1>1, <2>2
  <2>5. fd[w] \in Inodes => Len(data'[fd[w]]) = Len(data[fd[w]]) + 1
    <3>1. fd[w] \in Inodes => data'[fd[w]] = Append(data[fd[w]], b) /\ data[fd[w]] \in Seq(Block)
      BY <1>1, <2>2
    <3>2. QED
      BY <3>1
  <2>6. /\ answer[w].next = Len(data[fd[w]]) + 1 /\ answer[w].next <= answer[w].end
        /\ answer[w].end <= Size /\ {answer[w].next, answer[w].end} \subseteq Nat
    BY <1>0, <1>1, <2>3 DEF LocksSound
  <2>7. fd[w] \in Inodes => Len(data'[fd[w]]) <= Size /\ Ready(w)'
    BY <1>1, <2>3, <2>5, <2>6 DEF Ready
  <2>8. QED
    BY <1>0, <2>1, <2>3, <2>4, <2>7, LocksKept DEF Locking
<1>13. ASSUME NEW w \in Workers, CompareHash(w) PROVE LocksSound'
  <2>1. Moves(w)
    BY <1>13, <1>0, RunningMoves DEF Running
  <2>2. /\ pc[w] = "verify"
        /\ \/ pc'[w] = "seal" /\ data' = data
           \/ pc'[w] = "close" /\ data' = [data EXCEPT ![fd[w]] = << >>]
    BY <1>13, <1>0, <1>1 DEF CompareHash, Restart, Goto
  <2>3. \A i \in Inodes \ {fd[w]} : data'[i] = data[i]
    BY <1>1, <2>2
  <2>4. fd[w] \in Inodes => Len(data'[fd[w]]) <= Size /\ Ready(w)'
    BY <1>0, <1>1, <2>1, <2>2 DEF Ready, LocksSound, Moves
  <2>5. QED
    BY <1>0, <2>1, <2>2, <2>3, <2>4, LocksKept DEF Locking
<1>14. CASE UserPlacesFile
  <2>1. /\ UNCHANGED <<pc, fd, answer>> /\ data' = [data EXCEPT ![Unused] = <<Foreign>>]
        /\ \A v \in Workers : Unused # fd[v]
    BY <1>14, <1>0, SomeInodeIsUnused DEF UserPlacesFile, executionVars
  <2>2. /\ \A i \in Inodes : Len(data'[i]) <= Size
        /\ \A v \in Workers : fd[v] \in Inodes => data'[fd[v]] = data[fd[v]]
    BY <1>0, <1>1, <2>1 DEF LocksSound
  <2>3. QED
    BY <1>0, <2>1, <2>2 DEF LocksSound, Locking
<1>15. QED
  BY <1>2, <1>3, <1>4, <1>5, <1>6, <1>7, <1>8, <1>9, <1>10, <1>11, <1>12, <1>13, <1>14
     DEF Next, Queueing, Running, Execute

\* A new execution finds the partial's name on the file that it opened, or gives up;
\* while nothing disturbs the directory, nobody else has an older one open.
LEMMA WriterPreserved ==
  ASSUME PathInvariant, Next
  PROVE  WriterSound'
<1>0. /\ TypeOK /\ ExecutionSound /\ LocksSound /\ WriterSound /\ MemorySound
  BY DEF PathInvariant
<1>1. /\ pc \in [Workers -> Phases]
      /\ fd \in [Workers -> Inodes \cup {NoInode}] /\ NoInode \notin Inodes
      /\ {partial, target} \subseteq Inodes \cup {NoInode}
      /\ checkpoint \in Checkpoint
      /\ {faults, corruptions, userSteps} \subseteq Nat
      /\ memory \in [Workers -> Checkpoint]
  BY <1>0, StateTypes
<1>2. CASE Queueing
  BY <1>2, <1>0, <1>1, QueueingIsApart DEF Apart, WriterSound, Orderly, Locking,
     Writing, Filling
<1>3. ASSUME NEW w \in Workers, Refused(w) PROVE WriterSound'
  BY <1>3, <1>0 DEF Refused, Ends, Goto, directoryVars, boundVars, WriterSound, Orderly,
     Locking, Writing, Filling
<1>4. ASSUME NEW w \in Workers, OpenPartial(w) PROVE WriterSound'
  BY <1>4, <1>0, <1>1, SomeInodeIsUnused DEF OpenPartial, Goto, boundVars, WriterSound,
     Orderly, Locking, Writing, Filling, LocksSound
<1>5. ASSUME NEW w \in Workers, TryLock(w) PROVE WriterSound'
  BY <1>5, <1>0, RunningMoves DEF Running, Moves, TryLock, Ends, Goto, directoryVars,
     WriterSound, Orderly, Locking, Writing, Filling
<1>6. ASSUME NEW w \in Workers, StopExecution(w) PROVE WriterSound'
  BY <1>6, <1>0 DEF StopExecution, Ends, Goto, directoryVars, boundVars, WriterSound,
     Orderly, Locking, Writing, Filling
<1>7. ASSUME NEW w \in Workers, ExecutionFails(w) PROVE WriterSound'
  BY <1>7, <1>0 DEF ExecutionFails, Ends, Goto, directoryVars, boundVars, WriterSound,
     Orderly, Locking, Writing, Filling
<1>8. ASSUME NEW w \in Workers, InspectTarget(w) PROVE WriterSound'
  <2>1. /\ UNCHANGED <<target, checkpoint, fd, faults, userSteps>> /\ pc[w] = "inspect"
        /\ pc' = [pc EXCEPT ![w] = "finish"] /\ target # NoInode
        /\ partial' = partial \/ (partial' = NoInode /\ checkpoint.published = target)
    BY <1>8 DEF InspectTarget, IsOwnPublication, Ends, Goto, boundVars
  <2>2. /\ pc'[w] = "finish" /\ \A v \in Workers \ {w} : pc'[v] = pc[v]
    BY <1>1, <2>1
  <2>3. CASE partial' = partial
    BY <1>0, <2>1, <2>2, <2>3 DEF WriterSound, Orderly, Writing, Filling, Locking
  <2>4. ASSUME partial' = NoInode, checkpoint.published = target, Orderly PROVE WriterSound'
    <3>1. faults = 0 => \A v \in Workers \ {w} : pc[v] = "idle"
      BY <1>0, <2>1 DEF ExecutionSound
    <3>2. ASSUME NEW v \in Workers, pc[v] \in Filling \cup {"unlink"} PROVE FALSE
      <4>1. v # w /\ faults # 0 /\ userSteps = 0
        BY <2>1, <2>4, <3>1, <3>2 DEF Orderly, Filling, Writing, Locking
      <4>2. pc[v] = "unlink" /\ fd[v] = partial
        BY <1>0, <1>1, <2>1, <2>4, <3>2, <4>1 DEF WriterSound
      <4>3. target = partial
        BY <1>0, <2>4, <4>2 DEF MemorySound, Writing, Locking
      <4>4. fd[w] = partial
        BY <1>0, <1>1, <2>1, <2>4, <4>1, <4>3 DEF WriterSound, LocksSound, Locking
      <4>5. QED
        BY <1>0, <2>1, <4>1, <4>2, <4>4 DEF LocksSound, Locking
    <3>3. QED
      BY <1>0, <1>1, <2>1, <2>2, <2>4, <3>1, <3>2 DEF WriterSound, Writing, Filling, Locking
  <2>5. QED
    BY <2>1, <2>3, <2>4 DEF WriterSound, Orderly
<1>9. ASSUME NEW w \in Workers, InspectForeignProgress(w) PROVE WriterSound'
  BY <1>9, <1>0 DEF InspectForeignProgress, Ends, Goto, directoryVars, boundVars,
     WriterSound, Orderly, Locking, Writing, Filling
<1>10. ASSUME NEW w \in Workers, InspectProgress(w) PROVE WriterSound'
  <2>1. /\ UNCHANGED <<target, partial, checkpoint, fd, faults, userSteps>> /\ pc[w] = "inspect"
        /\ pc' = [pc EXCEPT ![w] = "prepare"] /\ target = NoInode
    BY <1>10 DEF InspectProgress, Goto, boundVars
  <2>2. SUFFICES ASSUME Orderly PROVE WriterSound'
    BY <2>1 DEF WriterSound, Orderly
  <2>3. faults = 0 => \A v \in Workers \ {w} : pc[v] = "idle"
    BY <1>0, <2>1 DEF ExecutionSound
  <2>4. fd[w] = partial
    BY <1>0, <1>1, <2>1, <2>2 DEF WriterSound, Orderly, LocksSound, Locking
  <2>5. ASSUME NEW v \in Workers \ {w} PROVE pc[v] \notin Writing
    <3>1. SUFFICES ASSUME pc[v] \in Writing PROVE FALSE
      OBVIOUS
    <3>2. userSteps = 0
      BY <2>2, <2>3, <2>5, <3>1 DEF Orderly, Writing, Locking
    <3>3. fd[v] = partial
      BY <1>0, <1>1, <2>1, <2>2, <3>1, <3>2 DEF WriterSound, LocksSound, Writing
    <3>4. QED
      BY <1>0, <2>1, <2>4, <2>5, <3>1, <3>3 DEF LocksSound, Writing, Locking
  <2>6. /\ pc'[w] = "prepare" /\ \A v \in Workers \ {w} : pc'[v] = pc[v]
    BY <1>1, <2>1
  <2>7. QED
    BY <1>0, <2>1, <2>2, <2>4, <2>5, <2>6 DEF WriterSound, Writing, Filling, Locking
<1>11. ASSUME NEW w \in Workers, WriteCheckpoint(w) PROVE WriterSound'
  <2>1. /\ UNCHANGED <<target, partial, fd, faults, userSteps>> /\ pc[w] = "prepare"
        /\ checkpoint' = memory[w] /\ pc'[w] \in {"request", "verify"}
        /\ \A v \in Workers \ {w} : pc'[v] = pc[v]
    BY <1>11, <1>1 DEF WriteCheckpoint, Goto, boundVars
  <2>2. Orderly => /\ memory[w].published \in {checkpoint.published, NoInode}
                   /\ \A v \in Workers \ {w} : pc[v] \notin Writing
    BY <1>0, <2>1 DEF MemorySound, WriterSound, Writing, Locking
  <2>3. QED
    BY <1>0, <2>1, <2>2 DEF WriterSound, Orderly, Writing, Filling, Locking
<1>12. ASSUME NEW w \in Workers, RangeHonoured(w) PROVE WriterSound'
  BY <1>12, <1>0 DEF RangeHonoured, Goto, directoryVars, boundVars, WriterSound,
     Orderly, Locking, Writing, Filling
<1>13. ASSUME NEW w \in Workers, RangeIgnored(w) PROVE WriterSound'
  BY <1>13, <1>0, RunningMoves DEF Running, Moves, RangeIgnored, Goto, WriterSound,
     Orderly, Locking, Writing, Filling
<1>14. ASSUME NEW w \in Workers, ReceiveBlock(w) PROVE WriterSound'
  BY <1>14, <1>0, <1>1 DEF ReceiveBlock, Goto, WriterSound, Orderly, Locking, Writing,
     Filling
<1>15. ASSUME NEW w \in Workers, SkipVerification(w) PROVE WriterSound'
  BY <1>15, <1>0 DEF SkipVerification, Goto, directoryVars, boundVars, WriterSound,
     Orderly, Locking, Writing, Filling
<1>16. ASSUME NEW w \in Workers, DigestBlock(w) PROVE WriterSound'
  BY <1>16, <1>0, <1>1 DEF DigestBlock, Goto, directoryVars, boundVars, WriterSound,
     Orderly, Locking, Writing, Filling
<1>17. ASSUME NEW w \in Workers, CompareHash(w) PROVE WriterSound'
  BY <1>17, <1>0, RunningMoves DEF Running, Moves, CompareHash, Goto, WriterSound,
     Orderly, Locking, Writing, Filling
<1>18. ASSUME NEW w \in Workers, Seal(w) PROVE WriterSound'
  <2>1. /\ UNCHANGED <<target, partial, fd, faults, userSteps>> /\ pc[w] = "seal"
        /\ \A v \in Workers \ {w} : pc'[v] = pc[v]
        /\ \/ pc'[w] = "close" /\ checkpoint' = checkpoint
           \/ /\ pc'[w] = "confirm" /\ checkpoint' = memory'[w]
              /\ memory' = [memory EXCEPT ![w].published = partial, ![w].digests = << >>]
    BY <1>18, <1>1 DEF Seal, Ends, Goto, boundVars
  <2>2. \/ pc'[w] = "close" /\ checkpoint' = checkpoint
        \/ pc'[w] = "confirm" /\ checkpoint'.published = partial
    BY <1>1, <2>1 DEF Checkpoint
  <2>3. Orderly => \A v \in Workers \ {w} : pc[v] \notin Writing
    BY <1>0, <2>1 DEF WriterSound, Writing, Locking
  <2>4. QED
    BY <1>0, <2>1, <2>2, <2>3 DEF WriterSound, Orderly, Writing, Filling, Locking
<1>19. ASSUME NEW w \in Workers, ConfirmOwnership(w) PROVE WriterSound'
  BY <1>19, <1>0 DEF ConfirmOwnership, Goto, directoryVars, boundVars, WriterSound,
     Orderly, Locking, Writing, Filling
<1>20. ASSUME NEW w \in Workers, Link(w) PROVE WriterSound'
  BY <1>20, <1>0, RunningMoves DEF Running, Moves, Link, Published, Ends, Goto,
     WriterSound, Orderly, Locking, Writing, Filling
<1>21. ASSUME NEW w \in Workers, Unlink(w) \/ PublicationFails(w) PROVE WriterSound'
  <2>1. /\ UNCHANGED <<target, checkpoint, fd, faults, userSteps>> /\ pc[w] = "unlink"
        /\ pc'[w] = "close" /\ partial' \in {partial, NoInode}
        /\ \A v \in Workers \ {w} : pc'[v] = pc[v]
    BY <1>21, <1>1 DEF Unlink, PublicationFails, Breaks, Ends, Goto, boundVars
  <2>2. Orderly => \A v \in Workers \ {w} : pc[v] \notin Writing
    BY <1>0, <2>1 DEF WriterSound, Writing, Locking
  <2>3. faults = 0 => \A v \in Workers \ {w} : pc[v] = "idle"
    BY <1>0, <2>1 DEF ExecutionSound
  <2>4. QED
    BY <1>0, <2>1, <2>2, <2>3 DEF WriterSound, Orderly, Writing, Filling, Locking
<1>22. ASSUME NEW w \in Workers, ClosePartial(w) \/ CloseFails(w) PROVE WriterSound'
  BY <1>22, <1>0, RunningMoves DEF Running, Moves, ClosePartial, CloseFails, Breaks,
     Ends, boundVars, WriterSound, Orderly, Locking, Writing, Filling
<1>23. CASE UserRemovesTarget
  BY <1>23, <1>0, <1>1 DEF UserRemovesTarget, executionVars, WriterSound, Orderly
<1>24. CASE UserPlacesFile
  BY <1>24, <1>0, <1>1, SomeInodeIsUnused DEF UserPlacesFile, executionVars,
     WriterSound, Orderly
<1>25. QED
  BY <1>2, <1>3, <1>4, <1>5, <1>6, <1>7, <1>8, <1>9, <1>10, <1>11, <1>12, <1>13, <1>14,
     <1>15, <1>16, <1>17, <1>18, <1>19, <1>20, <1>21, <1>22, <1>23, <1>24 DEF Next,
     Queueing, Running, Execute

\* What an execution remembers of the checkpoint is what it wrote there last.
LEMMA MemoryPreserved ==
  ASSUME PathInvariant, Next
  PROVE  MemorySound'
<1>0. /\ TypeOK /\ ExecutionSound /\ LocksSound /\ WriterSound /\ MemorySound
  BY DEF PathInvariant
<1>1. /\ pc \in [Workers -> Phases]
      /\ fd \in [Workers -> Inodes \cup {NoInode}] /\ NoInode \notin Inodes
      /\ memory \in [Workers -> Checkpoint]
      /\ checkpoint \in Checkpoint
      /\ data \in [Inodes -> Seq(Block)]
      /\ {faults, corruptions, userSteps} \subseteq Nat
  BY <1>0, StateTypes
<1>2. CASE Queueing
  <2>1. /\ UNCHANGED <<checkpoint, data, userSteps>> /\ (faults' = 0 => faults = 0)
        /\ \A v \in Workers :
             \/ pc'[v] \in {"idle", "open"} /\ fd'[v] = NoInode
             \/ pc'[v] = pc[v] /\ fd'[v] = fd[v] /\ memory'[v] = memory[v]
                /\ File(v)' = File(v)
    BY <1>2, <1>0, <1>1, QueueingIsApart DEF Apart, File
  <2>2. QED
    BY <1>0, <1>1, <2>1 DEF MemorySound, Orderly, Writing, Locking, File
<1>3. ASSUME NEW w \in Workers, Refused(w) PROVE MemorySound'
  BY <1>3, <1>0 DEF Refused, Ends, Goto, apiVars, directoryVars, boundVars, MemorySound,
     Orderly, Locking, Writing, File
<1>4. ASSUME NEW w \in Workers, OpenPartial(w) PROVE MemorySound'
  BY <1>4, <1>0, <1>1 DEF OpenPartial, Goto, apiVars, boundVars, MemorySound, Orderly,
     Locking, Writing, LocksSound, File
<1>5. ASSUME NEW w \in Workers, TryLock(w) PROVE MemorySound'
  <2>1. /\ UNCHANGED <<tasks, job, fd, data, memory, checkpoint, faults, userSteps>>
        /\ \E p \in {"inspect", "finish"} : pc' = [pc EXCEPT ![w] = p]
    BY <1>5 DEF TryLock, Ends, Goto, apiVars, directoryVars, boundVars
  <2>2. \A v \in Workers : pc'[v] \in Writing => pc'[v] = pc[v]
    BY <1>1, <2>1 DEF Writing, Locking
  <2>3. QED
    BY <1>0, <2>1, <2>2 DEF MemorySound, Orderly, File
<1>6. ASSUME NEW w \in Workers, StopExecution(w) PROVE MemorySound'
  BY <1>6, <1>0 DEF StopExecution, Ends, Goto, apiVars, directoryVars, boundVars,
     MemorySound, Orderly, Locking, Writing, File
<1>7. ASSUME NEW w \in Workers, ExecutionFails(w) PROVE MemorySound'
  BY <1>7, <1>0 DEF ExecutionFails, Ends, Goto, apiVars, directoryVars, boundVars,
     MemorySound, Orderly, Locking, Writing, File
<1>8. ASSUME NEW w \in Workers, InspectTarget(w) PROVE MemorySound'
  BY <1>8, <1>0, <1>1, RunningMoves DEF Running, Moves, InspectTarget, IsOwnPublication,
     Ends, Goto, apiVars, executionVars, historyVars, boundVars, MemorySound,
     WriterSound, Orderly, Locking, Writing, Filling, Checkpoint, LocksSound, File
<1>9. ASSUME NEW w \in Workers, InspectForeignProgress(w) PROVE MemorySound'
  BY <1>9, <1>0 DEF InspectForeignProgress, Ends, Goto, apiVars, directoryVars,
     boundVars, MemorySound, Orderly, Locking, Writing, File
<1>10. ASSUME NEW w \in Workers, InspectProgress(w) PROVE MemorySound'
  BY <1>10, <1>0, <1>1 DEF InspectProgress, FreshCheckpoint, NoCheckpoint, Emptied,
     Goto, apiVars, boundVars, MemorySound, Orderly, Locking, LocksSound, File
<1>11. ASSUME NEW w \in Workers, WriteCheckpoint(w) PROVE MemorySound'
  BY <1>11, <1>0 DEF WriteCheckpoint, Goto, apiVars, boundVars, MemorySound,
     WriterSound, Orderly, Locking, Writing, File
<1>12. ASSUME NEW w \in Workers, RangeHonoured(w) PROVE MemorySound'
  BY <1>12, <1>0 DEF RangeHonoured, Goto, apiVars, directoryVars, boundVars,
     MemorySound, Orderly, Locking, Writing, File
<1>13. ASSUME NEW w \in Workers, RangeIgnored(w) PROVE MemorySound'
  BY <1>13, <1>0, <1>1, RunningMoves DEF Running, Moves, RangeIgnored, Restart, Goto,
     apiVars, executionVars, historyVars, boundVars, MemorySound, WriterSound, Orderly,
     Locking, Writing, Filling, Checkpoint, LocksSound, File
<1>14. ASSUME NEW w \in Workers, ReceiveBlock(w) PROVE MemorySound'
  BY <1>14, <1>0, <1>1, RunningMoves DEF Running, Moves, ReceiveBlock, Goto, apiVars,
     executionVars, historyVars, boundVars, MemorySound, WriterSound, Orderly, Locking,
     Writing, Filling, Checkpoint, LocksSound, File
<1>15. ASSUME NEW w \in Workers, SkipVerification(w) PROVE MemorySound'
  BY <1>15, <1>0 DEF SkipVerification, Goto, apiVars, directoryVars, boundVars,
     MemorySound, Orderly, Locking, Writing, File
<1>16. ASSUME NEW w \in Workers, DigestBlock(w) PROVE MemorySound'
  BY <1>16, <1>0, <1>1 DEF DigestBlock, Goto, apiVars, directoryVars, boundVars,
     MemorySound, Orderly, Locking, Writing, File
<1>17. ASSUME NEW w \in Workers, CompareHash(w) PROVE MemorySound'
  <2>1. /\ pc[w] = "verify" /\ UNCHANGED <<tasks, job, fd, checkpoint, faults, userSteps>>
        /\ \/ pc' = [pc EXCEPT ![w] = "seal"] /\ UNCHANGED <<data, memory>>
           \/ /\ pc' = [pc EXCEPT ![w] = "close"] /\ data' = [data EXCEPT ![fd[w]] = << >>]
              /\ memory' = [memory EXCEPT ![w].digests = << >>]
    BY <1>17 DEF CompareHash, Restart, Goto, apiVars, boundVars
  <2>2. /\ \A v \in Workers \ {w} : pc'[v] = pc[v] /\ memory'[v] = memory[v]
        /\ pc'[w] \in {"seal", "close"} /\ memory'[w].identity = memory[w].identity
        /\ memory'[w].published = memory[w].published
    BY <1>1, <2>1 DEF Checkpoint
  <2>3. Orderly' => \A v \in Workers \ {w} : pc[v] \notin Writing
    BY <1>0, <2>1 DEF WriterSound, Orderly, Writing, Locking
  <2>4. QED
    BY <1>0, <2>1, <2>2, <2>3 DEF MemorySound, Orderly, Writing, Locking, File
<1>18. ASSUME NEW w \in Workers, Seal(w) PROVE MemorySound'
  <2>1. /\ pc[w] = "seal" /\ UNCHANGED <<tasks, job, fd, data, faults, userSteps>>
        /\ \/ pc' = [pc EXCEPT ![w] = "close"] /\ UNCHANGED <<memory, checkpoint>>
           \/ /\ pc' = [pc EXCEPT ![w] = "confirm"] /\ checkpoint' = memory'[w]
              /\ memory' = [memory EXCEPT ![w].published = partial, ![w].digests = << >>]
    BY <1>18 DEF Seal, Ends, Goto, apiVars, boundVars
  <2>2. Orderly' => /\ \A v \in Workers \ {w} : pc[v] \notin Writing
                    /\ fd[w] = partial /\ checkpoint.identity = File(w)
                    /\ memory[w].identity = File(w)
                    /\ memory[w].published \in {checkpoint.published, NoInode}
    BY <1>0, <2>1 DEF WriterSound, MemorySound, Orderly, Writing, Filling, Locking
  <2>3. CASE pc'[w] = "close"
    <3>1. UNCHANGED <<memory, checkpoint>>
      BY <1>1, <2>1, <2>3
    <3>2. \A v \in Workers \ {w} : pc'[v] = pc[v]
      BY <1>1, <2>1
    <3>3. QED
      BY <2>1, <2>2, <2>3, <3>1, <3>2 DEF MemorySound, Orderly, File
  <2>4. CASE pc'[w] # "close"
    <3>1. /\ pc'[w] = "confirm" /\ checkpoint' = memory'[w]
          /\ memory'[w].identity = memory[w].identity /\ memory'[w].published = partial
          /\ memory'[w].digests = << >> /\ \A v \in Workers \ {w} : pc'[v] = pc[v]
      BY <1>1, <2>1, <2>4 DEF Checkpoint
    <3>2. QED
      BY <2>1, <2>2, <3>1 DEF MemorySound, Orderly, File
  <2>5. QED
    BY <2>3, <2>4
<1>19. ASSUME NEW w \in Workers, ConfirmOwnership(w) PROVE MemorySound'
  BY <1>19, <1>0, RunningMoves DEF Running, Moves, ConfirmOwnership, apiVars,
     directoryVars, boundVars, MemorySound, Orderly, Locking, Writing, File
<1>20. ASSUME NEW w \in Workers, Link(w) PROVE MemorySound'
  BY <1>20, <1>0, RunningMoves DEF Running, Moves, Link, Ends, apiVars, historyVars,
     MemorySound, Orderly, Locking, Writing, LocksSound, File
<1>21. ASSUME NEW w \in Workers, Unlink(w) \/ PublicationFails(w) PROVE MemorySound'
  <2>1. /\ UNCHANGED <<tasks, job, fd, data, memory, checkpoint, faults, userSteps>>
        /\ pc[w] = "unlink" /\ pc'[w] = "close"
        /\ \A v \in Workers \ {w} : pc'[v] = pc[v]
    BY <1>21, <1>1 DEF Unlink, PublicationFails, Breaks, Ends, Goto, apiVars, boundVars
  <2>2. QED
    BY <1>0, <2>1 DEF MemorySound, Orderly, Locking, Writing, File
<1>22. ASSUME NEW w \in Workers, ClosePartial(w) \/ CloseFails(w) PROVE MemorySound'
  BY <1>22, <1>0, RunningMoves DEF Running, Moves, ClosePartial, CloseFails, Breaks,
     Ends, MemorySound, WriterSound, Orderly, Locking, Writing
<1>23. CASE UserRemovesTarget
  BY <1>23, <1>0, <1>1 DEF UserRemovesTarget, apiVars, executionVars, MemorySound,
     Orderly, File
<1>24. CASE UserPlacesFile
  BY <1>24, <1>0, <1>1, SomeInodeIsUnused DEF UserPlacesFile, apiVars, executionVars,
     MemorySound, Orderly, File
<1>25. QED
  BY <1>2, <1>3, <1>4, <1>5, <1>6, <1>7, <1>8, <1>9, <1>10, <1>11, <1>12, <1>13, <1>14,
     <1>15, <1>16, <1>17, <1>18, <1>19, <1>20, <1>21, <1>22, <1>23, <1>24 DEF Next,
     Queueing, Running, Execute

\* Only a fault puts a corrupted block into a file.
LEMMA BlocksPreserved ==
  ASSUME PathInvariant, Next
  PROVE  BlocksSound'
<1>0. /\ TypeOK /\ ExecutionSound /\ LocksSound /\ BlocksSound
  BY DEF PathInvariant
<1>1. /\ pc \in [Workers -> Phases]
      /\ fd \in [Workers -> Inodes \cup {NoInode}] /\ NoInode \notin Inodes
      /\ data \in [Inodes -> Seq(Block)]
      /\ {partial, target} \subseteq Inodes \cup {NoInode}
      /\ {faults, corruptions, userSteps} \subseteq Nat
      /\ Size \in Nat \ {0} /\ ChunkBlocks \in Nat \ {0}
      /\ answer \in [Workers -> [next : 1 .. Size + 1, end : 0 .. Size]]
  BY <1>0, StateTypes
<1>2. CASE (\E w \in Workers : Refused(w) \/ TryLock(w) \/ StopExecution(w) \/
          ExecutionFails(w) \/ InspectTarget(w) \/ InspectForeignProgress(w) \/
          WriteCheckpoint(w) \/ RangeHonoured(w) \/ SkipVerification(w) \/
          DigestBlock(w) \/ Seal(w) \/ ConfirmOwnership(w) \/ Link(w) \/ Unlink(w)
          \/ PublicationFails(w) \/ ClosePartial(w) \/ CloseFails(w)) \/ UserRemovesTarget
  <2>1. UNCHANGED <<data, corruptions>>
    BY <1>2 DEF Refused, TryLock, StopExecution, ExecutionFails, InspectTarget,
       InspectForeignProgress, WriteCheckpoint, RangeHonoured, SkipVerification,
       DigestBlock, Seal, ConfirmOwnership, Link, Unlink, PublicationFails, Breaks,
       ClosePartial, CloseFails, Ends, UserRemovesTarget, directoryVars, boundVars
  <2>2. QED
    BY <1>0, <2>1 DEF BlocksSound
<1>3. CASE Queueing
  <2>1. UNCHANGED <<data, corruptions>>
    BY <1>3, <1>0, QueueingIsApart DEF Apart
  <2>2. QED
    BY <1>0, <2>1 DEF BlocksSound
<1>4. ASSUME NEW w \in Workers, OpenPartial(w) PROVE BlocksSound'
  <2>1. /\ corruptions' = corruptions
        /\ data' = data \/ data' = [data EXCEPT ![Unused] = << >>]
    BY <1>4 DEF OpenPartial, boundVars
  <2>2. \A i \in Inodes : data'[i] \in {data[i], << >>}
    BY <1>1, <2>1
  <2>3. QED
    BY <1>0, <2>1, <2>2 DEF BlocksSound
<1>5. ASSUME NEW w \in Workers, InspectProgress(w) PROVE BlocksSound'
  <2>1. /\ corruptions' = corruptions
        /\ data' = data \/ data' = [data EXCEPT ![fd[w]] = << >>]
    BY <1>5 DEF InspectProgress, Emptied, boundVars
  <2>2. \A i \in Inodes : data'[i] \in {data[i], << >>}
    BY <1>1, <2>1
  <2>3. QED
    BY <1>0, <2>1, <2>2 DEF BlocksSound
<1>6. ASSUME NEW w \in Workers, RangeIgnored(w) PROVE BlocksSound'
  <2>1. /\ corruptions' = corruptions
        /\ data' = data \/ data' = [data EXCEPT ![fd[w]] = << >>]
    BY <1>6 DEF RangeIgnored, Restart, boundVars
  <2>2. \A i \in Inodes : data'[i] \in {data[i], << >>}
    BY <1>1, <2>1
  <2>3. QED
    BY <1>0, <2>1, <2>2 DEF BlocksSound
<1>7. ASSUME NEW w \in Workers, ReceiveBlock(w) PROVE BlocksSound'
  <2>1. CASE corruptions' # 0
    BY <2>1 DEF BlocksSound
  <2>2. CASE corruptions' = 0
    <3>1. /\ corruptions = 0 /\ pc[w] = "receive"
          /\ data' = [data EXCEPT ![fd[w]] = Append(@, <<File(w), answer[w].next>>)]
      BY <1>7, <1>1, <2>2 DEF ReceiveBlock
    <3>2. <<File(w), answer[w].next>> # Bad
      <4>1. File(w) \in Files
        BY <1>0, <3>1, TaskTable DEF ExecutionSound, File
      <4>2. answer[w].next \in 1 .. Size
        BY <1>0, <1>1, <3>1 DEF LocksSound
      <4>3. QED
        BY <4>1, <4>2, DownloadAssumption
    <3>3. SUFFICES ASSUME NEW i \in Inodes, NEW n \in 1 .. Len(data'[i]) PROVE data'[i][n] # Bad
      BY DEF BlocksSound
    <3>4. CASE i # fd[w]
      BY <1>0, <1>1, <3>1, <3>3, <3>4 DEF BlocksSound
    <3>5. CASE i = fd[w]
      <4>1. data[i] \in Seq(Block) /\ data'[i] = Append(data[i], <<File(w), answer[w].next>>)
        BY <1>1, <3>1, <3>5
      <4>2. CASE n = Len(data[i]) + 1
        BY <3>2, <4>1, <4>2
      <4>3. CASE n \in 1 .. Len(data[i])
        BY <1>0, <3>1, <4>1, <4>3 DEF BlocksSound
      <4>4. QED
        BY <3>3, <4>1, <4>2, <4>3
    <3>6. QED
      BY <3>4, <3>5
  <2>3. QED
    BY <2>1, <2>2
<1>8. ASSUME NEW w \in Workers, CompareHash(w) PROVE BlocksSound'
  <2>1. /\ corruptions' = corruptions
        /\ data' = data \/ data' = [data EXCEPT ![fd[w]] = << >>]
    BY <1>8 DEF CompareHash, Restart, boundVars
  <2>2. \A i \in Inodes : data'[i] \in {data[i], << >>}
    BY <1>1, <2>1
  <2>3. QED
    BY <1>0, <2>1, <2>2 DEF BlocksSound
<1>9. CASE UserPlacesFile
  <2>1. /\ corruptions' = corruptions /\ data' = [data EXCEPT ![Unused] = <<Foreign>>]
    BY <1>9 DEF UserPlacesFile
  <2>2. \A i \in Inodes : data'[i] \in {data[i], <<Foreign>>}
    BY <1>1, <2>1
  <2>3. Foreign # Bad
    BY DownloadAssumption
  <2>4. \A n \in 1 .. Len(<<Foreign>>) : <<Foreign>>[n] # Bad
    BY <2>3
  <2>5. QED
    BY <1>0, <2>1, <2>2, <2>4 DEF BlocksSound
<1>10. QED
  BY <1>2, <1>3, <1>4, <1>5, <1>6, <1>7, <1>8, <1>9 DEF Next, Queueing, Running, Execute

\* A block gets its digest when it is read, and a restart forgets all digests, in the
\* file or with its next step; those that a crash leaves behind are longer than the
\* partial.
LEMMA DigestsPreserved ==
  ASSUME PathInvariant, Next
  PROVE  DigestsSound'
<1>0. /\ TypeOK /\ ExecutionSound /\ LocksSound /\ WriterSound /\ MemorySound
      /\ BlocksSound /\ DigestsSound /\ ProgressBelongs /\ EvidenceSound
  BY DEF PathInvariant
<1>1. /\ pc \in [Workers -> Phases]
      /\ fd \in [Workers -> Inodes \cup {NoInode}] /\ NoInode \notin Inodes
      /\ memory \in [Workers -> Checkpoint]
      /\ checkpoint \in Checkpoint
      /\ data \in [Inodes -> Seq(Block)]
      /\ {partial, target} \subseteq Inodes \cup {NoInode}
      /\ {faults, corruptions, userSteps} \subseteq Nat
      /\ Size \in Nat \ {0} /\ ChunkBlocks \in Nat \ {0}
      /\ answer \in [Workers -> [next : 1 .. Size + 1, end : 0 .. Size]]
  BY <1>0, StateTypes
<1>2. CASE Queueing
  <2>1. /\ UNCHANGED <<checkpoint, data, partial, corruptions, userSteps>>
             /\ (faults' = 0 => faults = 0)
        /\ \A v \in Workers :
             \/ pc'[v] \in {"idle", "open"} /\ fd'[v] = NoInode
             \/ pc'[v] = pc[v] /\ memory'[v] = memory[v]
    BY <1>2, <1>0, <1>1, QueueingIsApart DEF Apart
  <2>2. \A v \in Workers : pc'[v] \in Writing => pc[v] \in Writing /\ memory'[v] = memory[v]
    BY <2>1 DEF Writing, Locking
  <2>3. Orderly' => Orderly
    BY <1>1, <2>1 DEF Orderly
  <2>4. QED
    BY <1>0, <2>1, <2>2, <2>3 DEF DigestsSound, Vouches
<1>3. ASSUME NEW w \in Workers,
             StopExecution(w) \/ ExecutionFails(w) \/ TryLock(w) \/ Link(w) \/
             Refused(w) \/ InspectForeignProgress(w) \/ RangeHonoured(w) \/
             SkipVerification(w) \/ ConfirmOwnership(w)
      PROVE  DigestsSound'
  <2>1. /\ UNCHANGED <<checkpoint, data, partial, memory, corruptions, faults, userSteps>>
        /\ \/ pc[w] \notin Writing /\ pc' \in {[pc EXCEPT ![w] = "finish"],
                [pc EXCEPT ![w] = "inspect"]}
           \/ pc[w] \in Writing /\ \E p \in Phases : pc' = [pc EXCEPT ![w] = p]
           \/ pc[w] = "inspect" /\ pc' = [pc EXCEPT ![w] = "finish"]
    BY <1>3 DEF StopExecution, ExecutionFails, TryLock, Link, Refused,
       InspectForeignProgress, RangeHonoured,
       SkipVerification, ConfirmOwnership, Ends, Goto, directoryVars, boundVars, Writing,
         Locking, Phases
  <2>2. \A v \in Workers : pc'[v] \in Writing => pc[v] \in Writing
    BY <1>1, <2>1 DEF Writing, Locking
  <2>3. QED
    BY <1>0, <2>1, <2>2 DEF DigestsSound, Vouches, Orderly
<1>4. ASSUME NEW w \in Workers, OpenPartial(w) PROVE DigestsSound'
  <2>1. /\ UNCHANGED <<checkpoint, memory, corruptions, faults, userSteps>>
        /\ pc[w] = "open" /\ pc' = [pc EXCEPT ![w] = "lock"]
        /\ \/ UNCHANGED <<partial, data>>
           \/ /\ partial = NoInode /\ partial' = Unused /\ Unused \in Inodes
              /\ data' = [data EXCEPT ![Unused] = << >>]
    BY <1>4, <1>0, SomeInodeIsUnused DEF OpenPartial, Goto, historyVars, boundVars
  <2>2. \A v \in Workers : pc'[v] \in Writing => pc[v] \in Writing
    BY <1>1, <2>1 DEF Writing, Locking
  <2>3. CASE UNCHANGED <<partial, data>>
    BY <1>0, <2>1, <2>2, <2>3 DEF DigestsSound, Vouches, Orderly
  <2>4. CASE partial = NoInode /\ partial' \in Inodes /\ data'[partial'] = << >>
    <3>1. Orderly => /\ checkpoint.digests = << >>
                     /\ \A v \in Workers : pc[v] \in Writing => memory[v].digests = << >>
      BY <1>0, <2>4 DEF DigestsSound, Vouches
    <3>2. QED
      BY <1>0, <1>1, <2>1, <2>2, <2>4, <3>1 DEF DigestsSound, Vouches, Orderly
  <2>5. QED
    BY <1>1, <2>1, <2>3, <2>4
<1>5. ASSUME NEW w \in Workers, InspectTarget(w) PROVE DigestsSound'
  <2>1. /\ UNCHANGED <<checkpoint, data, memory, corruptions, faults, userSteps>>
        /\ pc' = [pc EXCEPT ![w] = "finish"]
        /\ \/ partial' = partial
           \/ partial' = NoInode /\ target # NoInode /\ checkpoint.published = target
    BY <1>5 DEF InspectTarget, IsOwnPublication, Ends, Goto, boundVars
  <2>2. \A v \in Workers : pc'[v] \in Writing => pc[v] \in Writing
    BY <1>1, <2>1 DEF Writing, Locking
  <2>3. CASE partial' = partial
    BY <1>0, <2>1, <2>2, <2>3 DEF DigestsSound, Vouches, Orderly
  <2>4. CASE partial' = NoInode /\ target # NoInode /\ checkpoint.published = target
    <3>1. Orderly => /\ checkpoint.digests = << >>
                     /\ \A v \in Workers : pc[v] \in Writing => memory[v].digests = << >>
      BY <1>0, <2>4 DEF EvidenceSound
    <3>2. QED
      BY <1>0, <2>1, <2>2, <2>4, <3>1 DEF DigestsSound, Vouches, Orderly
  <2>5. QED
    BY <2>1, <2>3, <2>4
<1>6. ASSUME NEW w \in Workers, InspectProgress(w) PROVE DigestsSound'
  <2>1. /\ UNCHANGED <<checkpoint, partial, fd, corruptions, faults, userSteps>>
        /\ pc[w] = "inspect" /\ pc' = [pc EXCEPT ![w] = "prepare"]
        /\ \/ memory' = [memory EXCEPT ![w] = checkpoint] /\ data' = data
           \/ /\ memory' = [memory EXCEPT ![w] = FreshCheckpoint(w)]
              /\ data' = [data EXCEPT ![fd[w]] = << >>]
              /\ checkpoint.identity = NoFile \/ data[fd[w]] = << >>
    BY <1>6 DEF InspectProgress, MayTakeOver, Emptied, Goto, boundVars
  <2>2. SUFFICES ASSUME Orderly PROVE Vouches(checkpoint)' /\ Vouches(memory[w])'
    <3>1. pc'[w] \in Writing
      BY <1>1, <2>1 DEF Writing, Locking
    <3>2. Orderly' => \A v \in Workers \ {w} : pc'[v] \notin Writing
      BY <3>1, WriterPreserved DEF WriterSound
    <3>3. QED
      BY <2>1, <3>2 DEF DigestsSound, Orderly
  <2>3. Vouches(checkpoint)
    BY <1>0, <2>2 DEF DigestsSound
  <2>4. CASE data' = data /\ memory'[w] = checkpoint
    BY <2>1, <2>3, <2>4 DEF Vouches
  <2>5. ASSUME memory'[w] = FreshCheckpoint(w), data' = [data EXCEPT ![fd[w]] = << >>],
               checkpoint.identity = NoFile \/ data[fd[w]] = << >>
        PROVE  Vouches(checkpoint)' /\ Vouches(memory[w])'
    <3>1. memory'[w].digests = << >>
      BY <2>5 DEF FreshCheckpoint, NoCheckpoint
    <3>2. \/ checkpoint.digests = << >>
          \/ partial \in Inodes => data'[partial] = data[partial]
      BY <1>1, <2>3, <2>5 DEF Vouches
    <3>3. QED
      BY <1>1, <2>1, <2>3, <3>1, <3>2 DEF Vouches
  <2>6. QED
    BY <1>1, <2>1, <2>4, <2>5
<1>7. ASSUME NEW w \in Workers, WriteCheckpoint(w) PROVE DigestsSound'
  <2>1. /\ UNCHANGED <<data, memory, partial, corruptions, faults, userSteps>> /\ pc[w] = "prepare"
        /\ checkpoint' = memory[w] /\ \E p \in {"request", "verify"} : pc' = [pc EXCEPT ![w] = p]
    BY <1>7 DEF WriteCheckpoint, Goto, boundVars
  <2>2. pc[w] \in Writing /\ \A v \in Workers : pc'[v] \in Writing => pc[v] \in Writing
    BY <1>1, <2>1 DEF Writing, Locking
  <2>3. QED
    BY <1>0, <2>1, <2>2 DEF DigestsSound, Vouches, Orderly
<1>8. ASSUME NEW w \in Workers, RangeIgnored(w) PROVE DigestsSound'
  <2>1. /\ UNCHANGED <<checkpoint, partial, fd, corruptions, faults, userSteps>>
        /\ pc[w] = "request"
        /\ \E p \in Phases : pc' = [pc EXCEPT ![w] = p]
        /\ \/ UNCHANGED <<data, memory>>
           \/ /\ data' = [data EXCEPT ![fd[w]] = << >>]
              /\ memory' = [memory EXCEPT ![w].digests = << >>]
    BY <1>8 DEF RangeIgnored, Restart, Goto, boundVars, Phases, Locking
  <2>2. SUFFICES ASSUME Orderly PROVE Vouches(checkpoint)' /\ Vouches(memory[w])'
    <3>1. Orderly => \A v \in Workers \ {w} : pc'[v] \notin Writing
      BY <1>0, <1>1, <2>1 DEF WriterSound, Writing, Locking
    <3>2. QED
      BY <2>1, <3>1 DEF DigestsSound, Orderly
  <2>3. Vouches(checkpoint) /\ Vouches(memory[w]) /\ fd[w] = partial /\ Len(data[partial]) < Size
    BY <1>0, <2>1, <2>2 DEF DigestsSound, WriterSound, LocksSound, Filling, Writing, Locking
  <2>4. CASE UNCHANGED <<data, memory>>
    BY <2>1, <2>3, <2>4 DEF Vouches
  <2>5. ASSUME data' = [data EXCEPT ![fd[w]] = << >>],
          memory' = [memory EXCEPT ![w].digests = << >>]
        PROVE  Vouches(checkpoint)' /\ Vouches(memory[w])'
    <3>1. corruptions = 0 /\ partial # NoInode => checkpoint.digests = << >>
      BY <1>1, <2>3 DEF Vouches
    <3>2. memory'[w].digests = << >> /\ (partial # NoInode => data'[partial] = << >>)
      BY <1>1, <2>3, <2>5 DEF Checkpoint
    <3>3. QED
      BY <1>1, <2>1, <2>3, <3>1, <3>2 DEF Vouches
  <2>6. QED
    BY <2>1, <2>4, <2>5
<1>9. ASSUME NEW w \in Workers, ReceiveBlock(w) PROVE DigestsSound'
  <2>1. /\ UNCHANGED <<checkpoint, partial, fd, memory, faults, userSteps>> /\ pc[w] = "receive"
        /\ pc' = pc \/ \E p \in Phases : pc' = [pc EXCEPT ![w] = p]
    BY <1>9 DEF ReceiveBlock, Goto, Phases, Locking
  <2>2. PICK b \in {<<File(w), answer[w].next>>, Bad} :
          /\ data' = [data EXCEPT ![fd[w]] = Append(@, b)]
          /\ \/ corruptions' = corruptions /\ b = <<File(w), answer[w].next>>
             \/ corruptions' = corruptions + 1
    BY <1>9 DEF ReceiveBlock
  <2>3. SUFFICES ASSUME Orderly PROVE Vouches(checkpoint)' /\ Vouches(memory[w])'
    <3>1. Orderly => \A v \in Workers \ {w} : pc'[v] \notin Writing
      BY <1>0, <1>1, <2>1 DEF WriterSound, Writing, Locking
    <3>2. QED
      BY <2>1, <3>1 DEF DigestsSound, Orderly
  <2>4. Vouches(checkpoint) /\ Vouches(memory[w]) /\ fd[w] = partial /\ partial \in Inodes
    BY <1>0, <1>1, <2>1, <2>3 DEF DigestsSound, WriterSound, LocksSound, Filling, Writing,
       Locking
  <2>5. /\ data[partial] \in Seq(Block) /\ data'[partial] = Append(data[partial], b)
        /\ Len(data[partial]) < Size
    BY <1>0, <1>1, <2>1, <2>2, <2>4 DEF LocksSound
  <2>6. corruptions = 0 => checkpoint.digests = << >> /\ memory[w].digests = << >>
    BY <1>1, <2>4, <2>5 DEF Vouches
  <2>7. CASE corruptions = 0
    BY <1>1, <2>1, <2>4, <2>6, <2>7 DEF Vouches
  <2>8. CASE corruptions # 0
    <3>1. corruptions' # 0 /\ (corruptions' <= 1 => b # Bad /\ corruptions <= 1)
      <4>1. <<File(w), answer[w].next>> # Bad
        <5>1. File(w) \in Files
          BY <1>0, <2>1, TaskTable DEF ExecutionSound, File
        <5>2. answer[w].next \in 1 .. Size
          BY <1>0, <1>1, <2>1 DEF LocksSound
        <5>3. QED
          BY <5>1, <5>2, DownloadAssumption
      <4>2. QED
        BY <1>1, <2>2, <2>8, <4>1
    <3>2. corruptions' <= 1 => \A n \in Nat \ {0} :
            n <= Len(data'[partial]) /\ data'[partial][n] = Bad =>
              n <= Len(data[partial]) /\ data[partial][n] = Bad
      BY <2>5, <3>1
    <3>3. corruptions \in Nat \ {0} /\ corruptions' \in Nat \ {0} /\ UNCHANGED <<checkpoint,
            partial>>
          /\ memory'[w] = memory[w]
      BY <1>1, <2>1, <2>2, <2>8
    <3>4. QED
      BY <2>4, <3>1, <3>2, <3>3 DEF Vouches
  <2>9. QED
    BY <2>7, <2>8
<1>10. ASSUME NEW w \in Workers, DigestBlock(w) PROVE DigestsSound'
  <2>1. /\ UNCHANGED <<checkpoint, data, partial, fd, corruptions, faults, userSteps>>
        /\ pc[w] = "verify"
        /\ pc' = pc \/ pc' = [pc EXCEPT ![w] = "close"]
        /\ Len(memory[w].digests) + 1 <= Size
        /\ memory' = [memory EXCEPT ![w].digests = Append(@,
             data[fd[w]][Len(memory[w].digests) + 1])]
    BY <1>10 DEF DigestBlock, Goto, directoryVars, boundVars
  <2>2. SUFFICES ASSUME Orderly PROVE Vouches(checkpoint)' /\ Vouches(memory[w])'
    <3>1. Orderly => \A v \in Workers \ {w} : pc'[v] \notin Writing
      BY <1>0, <1>1, <2>1 DEF WriterSound, Writing, Locking
    <3>2. QED
      BY <2>1, <3>1 DEF DigestsSound, Orderly
  <2>3. /\ Vouches(checkpoint) /\ Vouches(memory[w]) /\ fd[w] = partial /\ partial \in Inodes
        /\ memory[w].identity = File(w) /\ checkpoint.identity = File(w)
        /\ Len(data[partial]) = Size
    BY <1>0, <1>1, <2>1, <2>2
       DEF DigestsSound, WriterSound, MemorySound, LocksSound, Filling, Writing, Locking
  <2> DEFINE digests == memory[w].digests
             last == Len(digests) + 1
  <2>4. /\ digests \in Seq(Block) /\ last \in 1 .. Size
        /\ memory'[w].digests = Append(digests, data[partial][last])
        /\ memory'[w].identity = File(w) /\ File(w) # NoFile
    <3>1. File(w) \in Files
      BY <1>0, <2>1, TaskTable DEF ExecutionSound, File
    <3>2. memory[w] \in Checkpoint /\ digests \in Seq(Block)
      BY <1>1, Checkpoints
    <3>3. memory'[w] = [memory[w] EXCEPT !.digests = Append(digests, data[partial][last])]
      BY <1>1, <2>1, <2>3
    <3>4. QED
      BY <1>1, <2>1, <2>3, <3>1, <3>2, <3>3, DownloadAssumption DEF Checkpoint
  <2>5. \/ data[partial][last] = <<File(w), last>>
        \/ data[partial][last] = Bad /\ corruptions > 0
    <3>1. data[partial][last] \in {<<File(w), last>>, Bad}
      BY <1>0, <1>1, <2>2, <2>3, <2>4 DEF ProgressBelongs
    <3>2. corruptions = 0 => data[partial][last] # Bad
      BY <1>0, <1>1, <2>3, <2>4 DEF BlocksSound
    <3>3. QED
      BY <1>1, <3>1, <3>2
  <2>6. Vouches(checkpoint)'
    BY <2>1, <2>3 DEF Vouches
  <2>7. Vouches(memory[w])'
    <3>1. /\ Len(memory'[w].digests) = last /\ memory'[w].digests[last] = data[partial][last]
          /\ \A n \in 1 .. Len(digests) : memory'[w].digests[n] = digests[n]
      BY <2>4
    <3>2. \A n \in 1 .. last : n = last \/ n \in 1 .. Len(digests)
      BY <2>4
    <3> HIDE DEF last, digests
    <3>3. QED
      BY <1>1, <2>1, <2>3, <2>4, <2>5, <3>1, <3>2 DEF Vouches, digests
  <2>8. QED
    BY <2>6, <2>7
<1>11. ASSUME NEW w \in Workers, CompareHash(w) PROVE DigestsSound'
  <2>1. /\ UNCHANGED <<checkpoint, partial, fd, corruptions, faults, userSteps>>
        /\ pc[w] = "verify"
        /\ \E p \in Phases : pc' = [pc EXCEPT ![w] = p]
        /\ Len(memory[w].digests) = Size
        /\ \/ UNCHANGED <<data, memory>>
           \/ /\ data' = [data EXCEPT ![fd[w]] = << >>]
              /\ memory' = [memory EXCEPT ![w].digests = << >>]
              /\ memory[w].digests # Whole(File(w))
    BY <1>11 DEF CompareHash, Restart, Goto, boundVars, Phases, Locking
  <2>2. SUFFICES ASSUME Orderly PROVE Vouches(checkpoint)' /\ Vouches(memory[w])'
    <3>1. Orderly => \A v \in Workers \ {w} : pc'[v] \notin Writing
      BY <1>0, <1>1, <2>1 DEF WriterSound, Writing, Locking
    <3>2. QED
      BY <2>1, <3>1 DEF DigestsSound, Orderly
  <2>3. Vouches(checkpoint) /\ Vouches(memory[w]) /\ fd[w] = partial /\ memory[w].identity = File(w)
    BY <1>0, <2>1, <2>2 DEF DigestsSound, WriterSound, MemorySound, Filling, Writing,
       Locking
  <2>4. CASE UNCHANGED <<data, memory>>
    BY <2>1, <2>3, <2>4 DEF Vouches
  <2>5. ASSUME data' = [data EXCEPT ![fd[w]] = << >>],
          memory' = [memory EXCEPT ![w].digests = << >>],
               memory[w].digests # Whole(File(w))
        PROVE  Vouches(checkpoint)' /\ Vouches(memory[w])'
    <3>1. memory[w].digests \in Seq(Block)
      BY <1>1, Checkpoints
    <3>2. PICK n \in 1 .. Size : memory[w].digests[n] # <<File(w), n>>
      <4>1. SUFFICES ASSUME \A n \in 1 .. Size : memory[w].digests[n] = <<File(w), n>>
                     PROVE  memory[w].digests = Whole(File(w))
        BY <2>5
      <4>2. memory[w].digests = [n \in 1 .. Size |-> memory[w].digests[n]]
        BY <2>1, <3>1
      <4>3. QED
        BY <4>1, <4>2 DEF Whole
    <3>3. corruptions # 0
      BY <1>1, <2>1, <2>3, <3>2 DEF Vouches
    <3>4. memory'[w].digests = << >> /\ (partial # NoInode => data'[partial] = << >>)
      BY <1>1, <2>3, <2>5 DEF Checkpoint
    <3>5. QED
      BY <1>1, <2>1, <2>3, <3>3, <3>4 DEF Vouches
  <2>6. QED
    BY <2>1, <2>4, <2>5
<1>12. ASSUME NEW w \in Workers, Seal(w) PROVE DigestsSound'
  <2>1. /\ UNCHANGED <<data, partial, corruptions, faults, userSteps>> /\ pc[w] = "seal"
        /\ \E p \in Phases : pc' = [pc EXCEPT ![w] = p]
        /\ \/ UNCHANGED <<checkpoint, memory>>
           \/ /\ checkpoint' = memory'[w]
              /\ memory' = [memory EXCEPT ![w].published = partial, ![w].digests = << >>]
    BY <1>12 DEF Seal, Ends, Goto, boundVars, Phases, Locking
  <2>2. SUFFICES ASSUME Orderly PROVE Vouches(checkpoint)' /\ Vouches(memory[w])'
    <3>1. Orderly => \A v \in Workers \ {w} : pc'[v] \notin Writing
      BY <1>0, <1>1, <2>1 DEF WriterSound, Writing, Locking
    <3>2. QED
      BY <2>1, <3>1 DEF DigestsSound, Orderly
  <2>3. Vouches(checkpoint) /\ Vouches(memory[w])
    BY <1>0, <2>1, <2>2 DEF DigestsSound, Writing, Locking
  <2>4. CASE UNCHANGED <<checkpoint, memory>>
    BY <2>1, <2>3, <2>4 DEF Vouches
  <2>5. CASE checkpoint' = memory'[w] /\ memory'[w].digests = << >>
    BY <1>1, <2>1, <2>5 DEF Vouches
  <2>6. QED
    BY <1>1, <2>1, <2>4, <2>5 DEF Checkpoint
<1>13. ASSUME NEW w \in Workers, Unlink(w) \/ PublicationFails(w) PROVE DigestsSound'
  <2>1. /\ UNCHANGED <<data, memory, checkpoint, corruptions, faults, userSteps>>
        /\ pc[w] = "unlink" /\ pc'[w] = "close" /\ partial' \in {partial, NoInode}
        /\ \A v \in Workers \ {w} : pc'[v] = pc[v]
    BY <1>13, <1>1 DEF Unlink, PublicationFails, Breaks, Ends, Goto, boundVars
  <2>2. Orderly => /\ checkpoint = memory[w] /\ checkpoint.digests = << >>
                   /\ \A v \in Workers \ {w} : pc[v] \notin Writing
    BY <1>0, <2>1 DEF MemorySound, WriterSound, Writing, Locking
  <2>3. CASE partial' = partial
    BY <1>0, <2>1, <2>3 DEF DigestsSound, Vouches, Orderly, Writing, Locking
  <2>4. CASE partial' = NoInode
    BY <1>0, <2>1, <2>2, <2>4 DEF DigestsSound, Vouches, Orderly, Writing, Locking
  <2>5. QED
    BY <2>1, <2>3, <2>4
<1>14. ASSUME NEW w \in Workers, ClosePartial(w) \/ CloseFails(w) PROVE DigestsSound'
  <2>1. /\ UNCHANGED <<data, partial, memory, corruptions, faults, userSteps>>
        /\ pc[w] = "close" /\ pc'[w] = "finish"
        /\ checkpoint' \in {checkpoint, memory[w]}
        /\ \A v \in Workers \ {w} : pc'[v] = pc[v]
    BY <1>14, <1>1 DEF ClosePartial, CloseFails, Breaks, Ends, Goto, boundVars
  <2>2. Orderly => Vouches(memory[w])
    BY <1>0, <2>1 DEF DigestsSound, Writing, Locking
  <2>3. Orderly => /\ Vouches(checkpoint)
                   /\ \A v \in Workers \ {w} : pc[v] \in Writing => Vouches(memory[v])
    BY <1>0 DEF DigestsSound
  <2>4. CASE checkpoint' = checkpoint
    <3>1. Orderly => Vouches(checkpoint)'
      BY <2>1, <2>3, <2>4 DEF Vouches
    <3>2. Orderly => \A v \in Workers \ {w} : pc[v] \in Writing => Vouches(memory[v])'
      BY <2>1, <2>3 DEF Vouches
    <3>3. QED
      BY <2>1, <3>1, <3>2 DEF DigestsSound, Orderly, Writing, Locking
  <2>5. CASE checkpoint' = memory[w]
    <3>1. Orderly => Vouches(checkpoint)'
      BY <2>1, <2>2, <2>5 DEF Vouches
    <3>2. Orderly => \A v \in Workers \ {w} : pc[v] \in Writing => Vouches(memory[v])'
      BY <2>1, <2>3 DEF Vouches
    <3>3. QED
      BY <2>1, <3>1, <3>2 DEF DigestsSound, Orderly, Writing, Locking
  <2>6. QED
    BY <2>1, <2>4, <2>5
<1>15. CASE UserRemovesTarget
  <2>1. /\ UNCHANGED <<pc, checkpoint, memory, partial, data, corruptions, faults>>
        /\ userSteps' = userSteps + 1
    BY <1>15 DEF UserRemovesTarget, executionVars
  <2>2. Orderly' => Orderly
    BY <1>1, <2>1 DEF Orderly
  <2>3. QED
    BY <1>0, <2>1, <2>2 DEF DigestsSound, Vouches
<1>16. CASE UserPlacesFile
  <2>1. /\ UNCHANGED <<pc, checkpoint, memory, partial, corruptions, faults>> /\ target = NoInode
        /\ data' = [data EXCEPT ![Unused] = <<Foreign>>] /\ userSteps' = userSteps + 1
    BY <1>16 DEF UserPlacesFile, executionVars
  <2>2. partial # NoInode => data'[partial] = data[partial]
    BY <1>0, <1>1, <2>1, SomeInodeIsUnused
  <2>3. Orderly' => Orderly
    BY <1>1, <2>1 DEF Orderly
  <2>4. QED
    BY <1>0, <2>1, <2>2, <2>3 DEF DigestsSound, Vouches
<1>17. QED
  BY <1>2, <1>3, <1>4, <1>5, <1>6, <1>7, <1>8, <1>9, <1>10, <1>11, <1>12, <1>13, <1>14,
     <1>15, <1>16 DEF Next, Queueing, Running, Execute

\* Into a partial goes what was received for the file that the checkpoint names.
LEMMA ProgressPreserved ==
  ASSUME PathInvariant, Next
  PROVE  ProgressBelongs'
<1>0. /\ TypeOK /\ ExecutionSound /\ LocksSound /\ WriterSound /\ MemorySound
      /\ ProgressBelongs
  BY DEF PathInvariant
<1>1. /\ pc \in [Workers -> Phases]
      /\ fd \in [Workers -> Inodes \cup {NoInode}] /\ NoInode \notin Inodes
      /\ memory \in [Workers -> Checkpoint]
      /\ checkpoint \in Checkpoint
      /\ data \in [Inodes -> Seq(Block)]
      /\ {partial, target} \subseteq Inodes \cup {NoInode}
      /\ {faults, corruptions, userSteps} \subseteq Nat
  BY <1>0, StateTypes
<1>2. CASE (\E w \in Workers : Refused(w) \/ TryLock(w) \/ StopExecution(w) \/
          ExecutionFails(w) \/ InspectForeignProgress(w) \/ RangeHonoured(w) \/
          SkipVerification(w) \/ DigestBlock(w) \/ ConfirmOwnership(w) \/ Link(w))
  <2>1. UNCHANGED <<partial, data, checkpoint, faults, userSteps>>
    BY <1>2 DEF Refused, TryLock, StopExecution, ExecutionFails, InspectForeignProgress,
       RangeHonoured, SkipVerification, DigestBlock, ConfirmOwnership, Link,
       directoryVars, boundVars
  <2>2. QED
    BY <1>0, <2>1 DEF ProgressBelongs, Orderly
<1>3. CASE Queueing
  BY <1>3, <1>0, <1>1, QueueingIsApart DEF Apart, ProgressBelongs, Orderly
<1>4. ASSUME NEW w \in Workers, OpenPartial(w) PROVE ProgressBelongs'
  BY <1>4, <1>0, <1>1, SomeInodeIsUnused DEF OpenPartial, boundVars, ProgressBelongs,
     Orderly
<1>5. ASSUME NEW w \in Workers, InspectTarget(w) PROVE ProgressBelongs'
  BY <1>5, <1>0, RunningMoves DEF Running, Moves, InspectTarget, ProgressBelongs,
     Orderly
<1>6. ASSUME NEW w \in Workers, InspectProgress(w) PROVE ProgressBelongs'
  BY <1>6, <1>0, <1>1 DEF Running, Moves, InspectProgress, FreshCheckpoint, Emptied,
     historyVars, boundVars, ProgressBelongs, MemorySound, Orderly
<1>7. ASSUME NEW w \in Workers, WriteCheckpoint(w) PROVE ProgressBelongs'
  BY <1>7, <1>0 DEF Running, WriteCheckpoint, apiVars, boundVars, ProgressBelongs,
     MemorySound, WriterSound, Orderly, Writing, Filling, Locking
<1>8. ASSUME NEW w \in Workers, RangeIgnored(w) PROVE ProgressBelongs'
  <2>1. /\ pc[w] = "request" /\ UNCHANGED <<partial, checkpoint, faults, userSteps>>
        /\ data' = data \/ data' = [data EXCEPT ![fd[w]] = << >>]
    BY <1>8 DEF RangeIgnored, Restart, boundVars
  <2>2. QED
    BY <1>0, <1>1, <2>1 DEF ProgressBelongs, Orderly, WriterSound, Writing, Filling, Locking
<1>9. ASSUME NEW w \in Workers, ReceiveBlock(w) PROVE ProgressBelongs'
  <2>1. PICK b \in {<<File(w), answer[w].next>>, Bad} :
          data' = [data EXCEPT ![fd[w]] = Append(@, b)]
    BY <1>9 DEF ReceiveBlock
  <2>2. pc[w] = "receive" /\ UNCHANGED <<partial, checkpoint, faults, userSteps>>
    BY <1>9 DEF ReceiveBlock
  <2>3. SUFFICES ASSUME Orderly, partial # NoInode, NEW n \in 1 .. Len(data'[partial])
                 PROVE  data'[partial][n] \in {<<checkpoint.identity, n>>, Bad}
    BY <2>2 DEF ProgressBelongs, Orderly
  <2>4. fd[w] = partial /\ checkpoint.identity = File(w)
    BY <1>0, <2>2, <2>3 DEF WriterSound, MemorySound, Writing, Filling, Locking
  <2>5. /\ data[partial] \in Seq(Block) /\ data'[partial] = Append(data[partial], b)
        /\ answer[w].next = Len(data[partial]) + 1
    BY <1>0, <1>1, <2>1, <2>2, <2>3, <2>4 DEF LocksSound
  <2>6. CASE n = Len(data[partial]) + 1
    BY <2>1, <2>4, <2>5, <2>6
  <2>7. CASE n \in 1 .. Len(data[partial])
    <3>1. data'[partial][n] = data[partial][n]
      BY <2>5, <2>7
    <3>2. QED
      BY <1>0, <2>3, <2>7, <3>1 DEF ProgressBelongs
  <2>8. QED
    BY <2>3, <2>5, <2>6, <2>7
<1>10. ASSUME NEW w \in Workers, CompareHash(w) PROVE ProgressBelongs'
  BY <1>10, <1>0, <1>1 DEF Moves, CompareHash, Restart, historyVars, boundVars,
     ProgressBelongs, WriterSound, Orderly
<1>11. ASSUME NEW w \in Workers, Seal(w) PROVE ProgressBelongs'
  <2>1. /\ pc[w] = "seal" /\ UNCHANGED <<partial, data, faults, userSteps>>
        /\ \/ checkpoint' = checkpoint
           \/ /\ memory' = [memory EXCEPT ![w].published = partial, ![w].digests = << >>]
              /\ checkpoint' = memory'[w]
    BY <1>11 DEF Seal, boundVars
  <2>2. checkpoint' = checkpoint \/ checkpoint'.identity = memory[w].identity
    BY <1>1, <2>1 DEF Checkpoint
  <2>3. Orderly => memory[w].identity = checkpoint.identity
    BY <1>0, <2>1 DEF MemorySound, Writing, Locking
  <2>4. QED
    BY <1>0, <2>1, <2>2, <2>3 DEF ProgressBelongs, Orderly
<1>12. ASSUME NEW w \in Workers, Unlink(w) \/ PublicationFails(w) PROVE ProgressBelongs'
  <2>1. /\ UNCHANGED <<data, checkpoint, faults, userSteps>>
        /\ partial' \in {partial, NoInode}
    BY <1>12 DEF Unlink, PublicationFails, boundVars
  <2>2. QED
    BY <1>0, <2>1 DEF ProgressBelongs, Orderly
<1>13. ASSUME NEW w \in Workers, ClosePartial(w) \/ CloseFails(w) PROVE ProgressBelongs'
  BY <1>13, <1>0 DEF ClosePartial, CloseFails, Breaks, Ends, historyVars, boundVars,
     ProgressBelongs, MemorySound, Orderly, Writing, Locking
<1>14. CASE UserRemovesTarget
  BY <1>14, <1>0, <1>1 DEF UserRemovesTarget, ProgressBelongs, Orderly
<1>15. CASE UserPlacesFile
  BY <1>15, <1>0, <1>1, SomeInodeIsUnused DEF UserPlacesFile, ProgressBelongs, Orderly
<1>16. QED
  BY <1>2, <1>3, <1>4, <1>5, <1>6, <1>7, <1>8, <1>9, <1>10, <1>11, <1>12, <1>13, <1>14,
     <1>15 DEF Next, Queueing, Running, Execute

\* The evidence names the inode that the link then publishes, and no digest is written
\* over it.
LEMMA EvidencePreserved ==
  ASSUME PathInvariant, Next
  PROVE  EvidenceSound'
<1>0. /\ TypeOK /\ ExecutionSound /\ LocksSound /\ WriterSound /\ MemorySound
      /\ EvidenceSound /\ DeliverySound
  BY DEF PathInvariant
<1>1. /\ pc \in [Workers -> Phases]
      /\ fd \in [Workers -> Inodes \cup {NoInode}] /\ NoInode \notin Inodes
      /\ memory \in [Workers -> Checkpoint]
      /\ checkpoint \in Checkpoint
      /\ data \in [Inodes -> Seq(Block)]
      /\ {partial, target} \subseteq Inodes \cup {NoInode}
      /\ {faults, corruptions, userSteps} \subseteq Nat
      /\ delivered \subseteq Files
  BY <1>0, StateTypes
<1>2. CASE Queueing
  <2>1. /\ UNCHANGED <<target, checkpoint, delivered, corruptions, userSteps>>
             /\ (faults' = 0 => faults = 0)
        /\ \A v \in Workers :
             \/ pc'[v] \in {"idle", "open"} /\ fd'[v] = NoInode
             \/ pc'[v] = pc[v] /\ memory'[v] = memory[v]
    BY <1>2, <1>0, <1>1, QueueingIsApart DEF Apart
  <2>2. QED
    BY <1>0, <1>1, <2>1 DEF EvidenceSound, Orderly, Writing, Locking
<1>3. ASSUME NEW w \in Workers, Refused(w) PROVE EvidenceSound'
  BY <1>3, <1>0 DEF Refused, Ends, Goto, directoryVars, historyVars, boundVars,
     EvidenceSound, Orderly, Writing, Locking
<1>4. ASSUME NEW w \in Workers, OpenPartial(w) PROVE EvidenceSound'
  BY <1>4, <1>0, RunningMoves DEF Running, Moves, OpenPartial, Goto, boundVars,
     EvidenceSound, Orderly, Writing, Locking
<1>5. ASSUME NEW w \in Workers, TryLock(w) PROVE EvidenceSound'
  BY <1>5, <1>0, RunningMoves DEF Running, Moves, TryLock, Ends, Goto, apiVars,
     directoryVars, boundVars, EvidenceSound, Orderly, Writing, Locking
<1>6. ASSUME NEW w \in Workers, StopExecution(w) PROVE EvidenceSound'
  BY <1>6, <1>0 DEF StopExecution, Ends, Goto, directoryVars, historyVars, boundVars,
     EvidenceSound, Orderly, Writing, Locking
<1>7. ASSUME NEW w \in Workers, ExecutionFails(w) PROVE EvidenceSound'
  BY <1>7, <1>0 DEF ExecutionFails, Ends, Goto, directoryVars, historyVars, boundVars,
     EvidenceSound, Orderly, Writing, Locking
<1>8. ASSUME NEW w \in Workers, InspectTarget(w) PROVE EvidenceSound'
  <2>1. /\ UNCHANGED <<target, checkpoint, memory, delivered, corruptions, faults, userSteps>>
        /\ pc' = [pc EXCEPT ![w] = "finish"]
    BY <1>8 DEF InspectTarget, Ends, Goto, historyVars, boundVars
  <2>2. \A v \in Workers : pc'[v] \in Writing => pc[v] \in Writing
    BY <1>1, <2>1 DEF Writing, Locking
  <2>3. QED
    BY <1>0, <2>1, <2>2 DEF EvidenceSound, Orderly
<1>9. ASSUME NEW w \in Workers, InspectForeignProgress(w) PROVE EvidenceSound'
  BY <1>9 DEF InspectForeignProgress, directoryVars, EvidenceSound
<1>10. ASSUME NEW w \in Workers, InspectProgress(w) PROVE EvidenceSound'
  BY <1>10 DEF InspectProgress, EvidenceSound
<1>11. ASSUME NEW w \in Workers, WriteCheckpoint(w) PROVE EvidenceSound'
  BY <1>11, <1>0 DEF WriteCheckpoint, boundVars, EvidenceSound, MemorySound,
     WriterSound, Orderly, Writing, Filling, Locking
<1>12. ASSUME NEW w \in Workers, RangeHonoured(w) PROVE EvidenceSound'
  BY <1>12, <1>0 DEF RangeHonoured, Goto, directoryVars, historyVars, boundVars,
     EvidenceSound, Orderly, Writing, Locking
<1>13. ASSUME NEW w \in Workers, RangeIgnored(w) PROVE EvidenceSound'
  BY <1>13, <1>0, RunningMoves DEF Running, Moves, RangeIgnored, EvidenceSound,
     WriterSound, Orderly, Writing, Filling, Locking
<1>14. ASSUME NEW w \in Workers, ReceiveBlock(w) PROVE EvidenceSound'
  BY <1>14, <1>0 DEF ReceiveBlock, EvidenceSound, WriterSound, Orderly, Writing,
     Filling, Locking
<1>15. ASSUME NEW w \in Workers, SkipVerification(w) PROVE EvidenceSound'
  BY <1>15, <1>0, RunningMoves DEF Running, Moves, SkipVerification, directoryVars,
     historyVars, boundVars, EvidenceSound, Orderly, Writing, Locking
<1>16. ASSUME NEW w \in Workers, DigestBlock(w) PROVE EvidenceSound'
  BY <1>16, <1>0, RunningMoves DEF Running, Moves, DigestBlock, directoryVars,
     EvidenceSound, WriterSound, Orderly, Writing, Filling, Locking
<1>17. ASSUME NEW w \in Workers, CompareHash(w) PROVE EvidenceSound'
  BY <1>17, <1>0, RunningMoves DEF Running, Moves, CompareHash, EvidenceSound,
     WriterSound, Orderly, Writing, Filling, Locking
<1>18. ASSUME NEW w \in Workers, Seal(w) PROVE EvidenceSound'
  <2>1. /\ UNCHANGED <<target, partial, fd, delivered, corruptions, faults, userSteps>>
        /\ pc[w] = "seal"
        /\ \E p \in {"close", "confirm"} : pc' = [pc EXCEPT ![w] = p]
        /\ \/ UNCHANGED <<checkpoint, memory>>
           \/ /\ checkpoint' = memory'[w] /\ partial # NoInode
              /\ memory' = [memory EXCEPT ![w].published = partial, ![w].digests = << >>]
    BY <1>18 DEF Seal, Ends, Goto, historyVars, boundVars
  <2>2. \A v \in Workers : pc'[v] \in Writing => pc[v] \in Writing
    BY <1>1, <2>1 DEF Writing, Locking
  <2>3. CASE UNCHANGED <<checkpoint, memory>>
    BY <1>0, <2>1, <2>2, <2>3 DEF EvidenceSound, Orderly
  <2>4. CASE checkpoint'.published = partial
    <3>1. Orderly /\ target # NoInode => target # partial
      BY <1>0, <2>1 DEF WriterSound, Filling, Writing, Locking
    <3>2. QED
      BY <2>1, <2>4, <3>1 DEF EvidenceSound, Orderly
  <2>5. QED
    BY <1>1, <2>1, <2>3, <2>4 DEF Checkpoint
<1>19. ASSUME NEW w \in Workers, ConfirmOwnership(w) PROVE EvidenceSound'
  BY <1>19, <1>0, RunningMoves DEF Running, Moves, ConfirmOwnership, directoryVars,
     historyVars, boundVars, EvidenceSound, Orderly, Writing, Locking
<1>20. ASSUME NEW w \in Workers, Link(w) PROVE EvidenceSound'
  <2>1. /\ UNCHANGED <<checkpoint, memory, data, fd, corruptions, faults, userSteps>>
        /\ pc[w] = "link"
        /\ delivered \subseteq delivered' /\ pc'[w] \in {"unlink", "close"}
        /\ \A v \in Workers \ {w} : pc'[v] = pc[v]
        /\ target' # target => /\ target = NoInode /\ target' = partial
                              /\ delivered' = delivered \cup {f \in Files : Complete(f,
                                   data[partial])}
    BY <1>20, <1>1 DEF Link, Published, Ends, Goto, historyVars, boundVars
  <2>2. CASE target' = target
    <3>1. \A v \in Workers : pc'[v] \in Writing => pc[v] \in Writing
      BY <2>1 DEF Writing, Locking
    <3>2. QED
      BY <1>0, <2>1, <2>2, <3>1 DEF EvidenceSound, Orderly
  <2>3. ASSUME target' # target, Orderly PROVE EvidenceSound'
    <3>1. /\ \A v \in Workers : pc'[v] \in Writing => v = w
          /\ fd[w] = partial /\ checkpoint = memory[w] /\ checkpoint.digests = << >>
          /\ checkpoint.identity = File(w)
      BY <1>0, <2>1, <2>3 DEF WriterSound, MemorySound, Writing, Filling, Locking
    <3>2. corruptions <= 1 => File(w) \in delivered'
      <4>1. File(w) \in Files
        BY <1>0, <2>1, TaskTable DEF ExecutionSound, File
      <4>2. corruptions <= 1 => Complete(File(w), data[partial])
        BY <1>0, <2>1, <2>3, <3>1 DEF DeliverySound
      <4>3. QED
        BY <2>1, <2>3, <4>1, <4>2
    <3>3. QED
      BY <2>1, <3>1, <3>2 DEF EvidenceSound
  <2>4. QED
    BY <2>1, <2>2, <2>3 DEF EvidenceSound, Orderly
<1>21. ASSUME NEW w \in Workers, Unlink(w) \/ PublicationFails(w) PROVE EvidenceSound'
  <2>1. /\ UNCHANGED <<target, checkpoint, memory, delivered, corruptions, faults, userSteps>>
        /\ pc[w] = "unlink" /\ pc'[w] = "close"
        /\ \A v \in Workers \ {w} : pc'[v] = pc[v]
    BY <1>21, <1>1 DEF Unlink, PublicationFails, Breaks, Ends, Goto, historyVars, boundVars
  <2>2. QED
    BY <1>0, <2>1 DEF EvidenceSound, Orderly, Writing, Locking
<1>22. ASSUME NEW w \in Workers, ClosePartial(w) \/ CloseFails(w) PROVE EvidenceSound'
  <2>1. /\ UNCHANGED <<target, memory, delivered, corruptions, faults, userSteps>>
        /\ pc[w] = "close"
        /\ pc' = [pc EXCEPT ![w] = "finish"] /\ checkpoint' \in {checkpoint, memory[w]}
    BY <1>22 DEF ClosePartial, CloseFails, Breaks, Ends, Goto, historyVars, boundVars
  <2>2. \A v \in Workers : pc'[v] \in Writing => pc[v] \in Writing
    BY <1>1, <2>1 DEF Writing, Locking
  <2>3. Orderly => /\ memory[w].published \in {checkpoint.published, NoInode}
                   /\ memory[w].identity = checkpoint.identity
    BY <1>0, <2>1 DEF MemorySound, Writing, Locking
  <2>4. pc[w] \in Writing
    BY <2>1 DEF Writing, Locking
  <2>5. QED
    BY <1>0, <2>1, <2>2, <2>3, <2>4 DEF EvidenceSound, Orderly
<1>23. CASE UserRemovesTarget
  BY <1>23 DEF UserRemovesTarget, EvidenceSound
<1>24. CASE UserPlacesFile
  BY <1>24, <1>0, SomeInodeIsUnused DEF UserPlacesFile, EvidenceSound
<1>25. QED
  BY <1>2, <1>3, <1>4, <1>5, <1>6, <1>7, <1>8, <1>9, <1>10, <1>11, <1>12, <1>13, <1>14,
     <1>15, <1>16, <1>17, <1>18, <1>19, <1>20, <1>21, <1>22, <1>23, <1>24 DEF Next,
     Queueing, Running, Execute

\* An execution that passed the verification has the whole of its file until it links it.
LEMMA DeliveryPreserved ==
  ASSUME PathInvariant, Next
  PROVE  DeliverySound'
<1>0. /\ TypeOK /\ ExecutionSound /\ LocksSound /\ WriterSound /\ MemorySound
      /\ DigestsSound /\ EvidenceSound /\ DeliverySound /\ ProgressBelongs
  BY DEF PathInvariant
<1>1. /\ pc \in [Workers -> Phases]
      /\ fd \in [Workers -> Inodes \cup {NoInode}] /\ NoInode \notin Inodes
      /\ memory \in [Workers -> Checkpoint]
      /\ checkpoint \in Checkpoint
      /\ data \in [Inodes -> Seq(Block)]
      /\ {partial, target} \subseteq Inodes \cup {NoInode}
      /\ {faults, corruptions, userSteps} \subseteq Nat
      /\ Size \in Nat \ {0} /\ ChunkBlocks \in Nat \ {0}
      /\ delivered \subseteq Files
      /\ outcome \in [Workers -> Outcomes]
  BY <1>0, StateTypes
<1>2. CASE Queueing
  <2>1. /\ UNCHANGED <<data, delivered, corruptions, userSteps>> /\ (faults' = 0 => faults = 0)
        /\ \A v \in Workers :
             \/ pc'[v] \in {"idle", "open"} /\ fd'[v] = NoInode
             \/ pc'[v] = pc[v] /\ fd'[v] = fd[v] /\ outcome'[v] = outcome[v]
                /\ File(v)' = File(v)
    BY <1>2, <1>0, <1>1, QueueingIsApart DEF Apart, File
  <2>2. QED
    BY <1>0, <1>1, <2>1 DEF DeliverySound, Orderly, Locking, File
<1>3. ASSUME NEW w \in Workers,
             StopExecution(w) \/ ExecutionFails(w) \/ TryLock(w) \/ Refused(w) \/
             InspectForeignProgress(w) \/ DigestBlock(w)
      PROVE  DeliverySound'
  <2>1. /\ UNCHANGED <<tasks, job, fd, data, delivered, corruptions, faults, userSteps>>
        /\ \A v \in Workers \ {w} : pc'[v] = pc[v] /\ outcome'[v] = outcome[v]
        /\ pc'[w] \in {"inspect", "verify", "close", "finish"}
        /\ pc'[w] \in {"close", "finish"} => outcome'[w] # "success"
    <3>1. /\ UNCHANGED <<tasks, job, fd, data, delivered, corruptions, faults, userSteps>>
          /\ \/ /\ (pc' = pc /\ pc[w] = "verify") \/ pc' = [pc EXCEPT ![w] = "inspect"]
                /\ outcome' = outcome
             \/ /\ \E p \in {"close", "finish"} : pc' = [pc EXCEPT ![w] = p]
                /\ \E o \in Outcomes \ {"success"} : outcome' = [outcome EXCEPT ![w] = o]
      BY <1>3 DEF StopExecution, ExecutionFails, TryLock, Refused, InspectForeignProgress,
         DigestBlock,
         Ends, Goto, StopOutcome, apiVars, directoryVars, historyVars, boundVars, Outcomes
    <3>2. \A v \in Workers \ {w} : pc'[v] = pc[v] /\ outcome'[v] = outcome[v]
      BY <1>1, <3>1
    <3>3. ASSUME (pc' = pc /\ pc[w] = "verify") \/ pc' = [pc EXCEPT ![w] = "inspect"]
          PROVE  pc'[w] \in {"inspect", "verify"}
      BY <1>1, <3>3
    <3>4. ASSUME NEW p \in {"close", "finish"}, pc' = [pc EXCEPT ![w] = p],
                 NEW o \in Outcomes \ {"success"}, outcome' = [outcome EXCEPT ![w] = o]
          PROVE  /\ pc'[w] \in {"inspect", "verify", "close", "finish"}
                 /\ outcome'[w] # "success"
      BY <1>1, <3>4
    <3>5. QED
      BY <3>1, <3>2, <3>3, <3>4
  <2>2. QED
    BY <1>0, <2>1 DEF DeliverySound, Orderly, File
<1>4. ASSUME NEW w \in Workers, OpenPartial(w) PROVE DeliverySound'
  BY <1>4, <1>0, <1>1, RunningMoves, SomeInodeIsUnused DEF Running, Moves, OpenPartial,
     Goto, apiVars, executionVars, historyVars, boundVars, DeliverySound, EvidenceSound,
     DigestsSound, Vouches, ProgressBelongs, MemorySound, WriterSound, LocksSound,
     Orderly, Writing, Filling, Locking, Checkpoint, Complete, File
<1>5. ASSUME NEW w \in Workers, InspectTarget(w) PROVE DeliverySound'
  <2>1. /\ UNCHANGED <<tasks, job, fd, data, delivered, corruptions, faults, userSteps>>
        /\ pc' = [pc EXCEPT ![w] = "finish"] /\ target # NoInode
        /\ \/ outcome' = [outcome EXCEPT ![w] = "failed"]
           \/ outcome' = [outcome EXCEPT ![w] = "success"] /\ IsOwnPublication(w)
    BY <1>5 DEF InspectTarget, Ends, Goto, apiVars, historyVars, boundVars
  <2>2. /\ pc'[w] = "finish" /\ \A v \in Workers \ {w} : pc'[v] = pc[v] /\ outcome'[v] = outcome[v]
        /\ outcome'[w] = "success" => IsOwnPublication(w)
    BY <1>1, <2>1
  <2>3. Orderly /\ corruptions <= 1 /\ IsOwnPublication(w) => File(w) \in delivered
    BY <1>0, <2>1 DEF EvidenceSound, IsOwnPublication
  <2>4. QED
    BY <1>0, <2>1, <2>2, <2>3 DEF DeliverySound, Orderly, File
<1>6. ASSUME NEW w \in Workers, InspectProgress(w) PROVE DeliverySound'
  <2>1. /\ UNCHANGED <<tasks, job, fd, outcome, delivered, corruptions, faults, userSteps>>
        /\ pc[w] = "inspect" /\ pc'[w] = "prepare"
        /\ \A v \in Workers \ {w} : pc'[v] = pc[v]
        /\ data' = data \/ data' = [data EXCEPT ![fd[w]] = << >>]
    BY <1>6, <1>1 DEF InspectProgress, Emptied, Goto, apiVars, historyVars, boundVars
  <2>2. \A v \in Workers \ {w} : pc[v] \in {"seal", "confirm", "link"} => fd[v] # fd[w]
    BY <1>0, <2>1 DEF LocksSound, Locking
  <2>3. \A v \in Workers \ {w} :
          pc[v] \in {"seal", "confirm", "link"} => data'[fd[v]] = data[fd[v]]
    BY <1>0, <1>1, <2>1, <2>2 DEF LocksSound, Locking
  <2>4. QED
    BY <1>0, <2>1, <2>3 DEF DeliverySound, Orderly, File
<1>7. ASSUME NEW w \in Workers, WriteCheckpoint(w) PROVE DeliverySound'
  <2>1. /\ UNCHANGED <<tasks, job, fd, data, outcome, delivered, corruptions, faults,
             userSteps>>
        /\ pc'[w] \in {"request", "verify"} /\ \A v \in Workers \ {w} : pc'[v] = pc[v]
    BY <1>7, <1>1 DEF WriteCheckpoint, Goto, apiVars, historyVars, boundVars
  <2>2. QED
    BY <1>0, <2>1 DEF DeliverySound, Orderly, File
<1>8. ASSUME NEW w \in Workers, RangeHonoured(w) PROVE DeliverySound'
  <2>1. /\ UNCHANGED <<tasks, job, fd, data, outcome, delivered, corruptions, faults,
             userSteps>>
        /\ pc'[w] = "receive" /\ \A v \in Workers \ {w} : pc'[v] = pc[v]
    BY <1>8, <1>1 DEF RangeHonoured, Goto, apiVars, directoryVars, historyVars, boundVars
  <2>2. QED
    BY <1>0, <2>1 DEF DeliverySound, Orderly, File
<1>9. ASSUME NEW w \in Workers, RangeIgnored(w) PROVE DeliverySound'
  <2>1. /\ UNCHANGED <<tasks, job, fd, delivered, faults, userSteps>> /\ pc[w] = "request"
        /\ \A v \in Workers \ {w} : pc'[v] = pc[v] /\ outcome'[v] = outcome[v]
        /\ pc'[w] \in {"receive", "close", "verify"}
        /\ pc'[w] = "close" => outcome'[w] # "success"
        /\ corruptions' \in {corruptions, corruptions + 1}
    BY <1>9, <1>1 DEF RangeIgnored, Goto, apiVars, historyVars, boundVars
  <2>2. Orderly => \A v \in Workers \ {w} : pc[v] \notin Writing
    BY <1>0, <2>1 DEF WriterSound, Writing, Locking
  <2>3. corruptions' <= 1 => corruptions <= 1
    BY <1>1, <2>1
  <2>4. QED
    BY <1>0, <2>1, <2>2, <2>3 DEF DeliverySound, Orderly, Writing, Locking, File
<1>10. ASSUME NEW w \in Workers, ReceiveBlock(w) PROVE DeliverySound'
  <2>1. /\ UNCHANGED <<tasks, job, fd, delivered, faults, userSteps>> /\ pc[w] = "receive"
        /\ \A v \in Workers \ {w} : pc'[v] = pc[v] /\ outcome'[v] = outcome[v]
        /\ pc'[w] \in {"receive", "close", "verify"}
        /\ pc'[w] = "close" => outcome'[w] # "success"
        /\ corruptions' \in {corruptions, corruptions + 1}
    BY <1>10, <1>1 DEF ReceiveBlock, Goto, apiVars, historyVars, boundVars
  <2>2. Orderly => \A v \in Workers \ {w} : pc[v] \notin Writing
    BY <1>0, <2>1 DEF WriterSound, Writing, Locking
  <2>3. corruptions' <= 1 => corruptions <= 1
    BY <1>1, <2>1
  <2>4. QED
    BY <1>0, <2>1, <2>2, <2>3 DEF DeliverySound, Orderly, Writing, Locking, File
<1>11. ASSUME NEW w \in Workers, SkipVerification(w) PROVE DeliverySound'
  BY <1>11, <1>0, <1>1 DEF SkipVerification, Goto, apiVars, directoryVars, historyVars,
     boundVars, DeliverySound, ProgressBelongs, MemorySound, WriterSound, LocksSound,
     Orderly, Writing, Filling, Locking, Complete, File
<1>12. ASSUME NEW w \in Workers, CompareHash(w) PROVE DeliverySound'
  <2>1. /\ UNCHANGED <<tasks, job, fd, delivered, corruptions, faults, userSteps>>
        /\ pc[w] = "verify"
        /\ Len(memory[w].digests) = Size
        /\ \A v \in Workers \ {w} : pc'[v] = pc[v] /\ outcome'[v] = outcome[v]
        /\ \/ pc'[w] = "close" /\ outcome'[w] = "failed"
           \/ pc'[w] = "seal" /\ data' = data /\ memory[w].digests = Whole(File(w))
    BY <1>12, <1>1 DEF CompareHash, Goto, apiVars, historyVars, boundVars
  <2>2. Orderly => \A v \in Workers \ {w} : pc[v] \notin Writing
    BY <1>0, <2>1 DEF WriterSound, Writing, Locking
  <2>3. CASE pc'[w] = "close" /\ outcome'[w] = "failed"
    BY <1>0, <2>1, <2>2, <2>3 DEF DeliverySound, Orderly, Writing, Locking, File
  <2>4. CASE pc'[w] = "seal" /\ data' = data /\ memory[w].digests = Whole(File(w))
    <3>1. SUFFICES ASSUME Orderly, corruptions <= 1 PROVE Complete(File(w), data[fd[w]])
      BY <1>0, <2>1, <2>2, <2>4 DEF DeliverySound, Orderly, Writing, Locking, File
    <3>2. /\ fd[w] = partial /\ partial \in Inodes /\ Len(data[partial]) = Size
          /\ checkpoint.identity = File(w) /\ Vouches(memory[w])
      BY <1>0, <1>1, <2>1, <3>1
         DEF DigestsSound, WriterSound, MemorySound, LocksSound, Filling, Writing, Locking
    <3>3. ASSUME NEW n \in 1 .. Size PROVE data[partial][n] = <<File(w), n>>
      <4>1. data[partial][n] \in {<<File(w), n>>, Bad}
        BY <1>0, <1>1, <3>1, <3>2 DEF ProgressBelongs
      <4>2. memory[w].digests[n] = <<File(w), n>>
        BY <2>4 DEF Whole
      <4>3. <<File(w), n>> # Bad
        <5>1. File(w) \in Files
          BY <1>0, <2>1, TaskTable DEF ExecutionSound, File
        <5>2. QED
          BY <5>1, DownloadAssumption
      <4>4. data[partial][n] = Bad => memory[w].digests[n] = Bad
        BY <1>1, <2>1, <3>1, <3>2 DEF Vouches
      <4>5. QED
        BY <4>1, <4>2, <4>3, <4>4
    <3>4. QED
      BY <3>2, <3>3 DEF Complete
  <2>5. QED
    BY <2>1, <2>3, <2>4
<1>13. ASSUME NEW w \in Workers, Seal(w) PROVE DeliverySound'
  <2>1. /\ UNCHANGED <<tasks, job, fd, data, delivered, corruptions, faults, userSteps>>
        /\ pc[w] = "seal"
        /\ \A v \in Workers \ {w} : pc'[v] = pc[v] /\ outcome'[v] = outcome[v]
        /\ pc'[w] = "confirm" \/ (pc'[w] = "close" /\ outcome'[w] = "failed")
    BY <1>13, <1>1 DEF Seal, Ends, Goto, apiVars, historyVars, boundVars
  <2>2. QED
    BY <1>0, <2>1 DEF DeliverySound, Orderly, File
<1>14. ASSUME NEW w \in Workers, ConfirmOwnership(w) PROVE DeliverySound'
  BY <1>14, <1>0, RunningMoves DEF Running, Moves, ConfirmOwnership, Goto,
     directoryVars, boundVars, DeliverySound, Orderly, File
<1>15. ASSUME NEW w \in Workers, Link(w) PROVE DeliverySound'
  <2>1. /\ UNCHANGED <<tasks, job, fd, data, corruptions, faults, userSteps>> /\ pc[w] = "link"
        /\ \A v \in Workers \ {w} : pc'[v] = pc[v] /\ outcome'[v] = outcome[v]
        /\ delivered \subseteq delivered'
        /\ \/ pc'[w] = "close" /\ outcome'[w] = "failed"
           \/ /\ pc'[w] = "unlink"
              /\ delivered' = delivered \cup {f \in Files : Complete(f, data[partial])}
    BY <1>15, <1>1 DEF Link, Ends, Goto, apiVars, historyVars, boundVars
  <2>2. Orderly /\ corruptions <= 1 => Complete(File(w), data[partial])
    BY <1>0, <2>1 DEF DeliverySound, WriterSound, Filling, Writing, Locking
  <2>3. File(w) \in Files
    BY <1>0, <2>1, TaskTable DEF ExecutionSound, File
  <2>4. Orderly /\ corruptions <= 1 /\ pc'[w] = "unlink" => File(w) \in delivered'
    BY <2>1, <2>2, <2>3
  <2>5. QED
    BY <1>0, <2>1, <2>4 DEF DeliverySound, Orderly, File
<1>16. ASSUME NEW w \in Workers, Unlink(w) \/ PublicationFails(w) PROVE DeliverySound'
  BY <1>16, <1>0, RunningMoves DEF Running, Moves, Unlink, PublicationFails, Breaks,
     apiVars, boundVars, DeliverySound, Orderly, File
<1>17. ASSUME NEW w \in Workers, ClosePartial(w) \/ CloseFails(w) PROVE DeliverySound'
  BY <1>17, <1>0, RunningMoves DEF Running, Moves, ClosePartial, CloseFails, Breaks,
     Ends, boundVars, DeliverySound, Orderly, File
<1>18. CASE UserRemovesTarget
  BY <1>18, <1>0, <1>1 DEF UserRemovesTarget, apiVars, executionVars, historyVars,
     DeliverySound, Orderly, File
<1>19. CASE UserPlacesFile
  BY <1>19, <1>0, <1>1, SomeInodeIsUnused DEF UserPlacesFile, apiVars, executionVars,
     historyVars, DeliverySound, Orderly, File
<1>20. QED
  BY <1>2, <1>3, <1>4, <1>5, <1>6, <1>7, <1>8, <1>9, <1>10, <1>11, <1>12, <1>13, <1>14,
     <1>15, <1>16, <1>17, <1>18, <1>19 DEF Next, Queueing, Running, Execute

\* Only a link puts a file of MediaSync's under the target's name, and nothing writes to
\* it.
LEMMA PublishedPreserved ==
  ASSUME PathInvariant, Next
  PROVE  PublishedIsComplete'
<1>0. /\ TypeOK /\ ExecutionSound /\ LocksSound /\ WriterSound /\ MemorySound
      /\ DeliverySound /\ PublishedIsComplete
  BY DEF PathInvariant
<1>1. /\ pc \in [Workers -> Phases]
      /\ fd \in [Workers -> Inodes \cup {NoInode}] /\ NoInode \notin Inodes
      /\ data \in [Inodes -> Seq(Block)]
      /\ {partial, target} \subseteq Inodes \cup {NoInode}
      /\ {faults, corruptions, userSteps} \subseteq Nat
      /\ Size \in Nat \ {0} /\ ChunkBlocks \in Nat \ {0}
      /\ delivered \subseteq Files
  BY <1>0, StateTypes
<1>2. CASE (\E w \in Workers : Refused(w) \/ TryLock(w) \/ StopExecution(w) \/
          ExecutionFails(w) \/ InspectTarget(w) \/ InspectForeignProgress(w) \/
          WriteCheckpoint(w) \/ RangeHonoured(w) \/ SkipVerification(w) \/
          DigestBlock(w) \/ Seal(w) \/ ConfirmOwnership(w) \/ Unlink(w) \/ PublicationFails(w) \/
          ClosePartial(w) \/ CloseFails(w))
  <2>1. UNCHANGED <<target, data, delivered, corruptions, faults, userSteps>>
    BY <1>2 DEF Refused, TryLock, StopExecution, ExecutionFails, InspectTarget,
       InspectForeignProgress, WriteCheckpoint, RangeHonoured, SkipVerification,
       DigestBlock, Seal, ConfirmOwnership, Unlink, PublicationFails, Breaks,
       ClosePartial, CloseFails, Ends, directoryVars, historyVars, boundVars
  <2>2. QED
    BY <1>0, <2>1 DEF PublishedIsComplete, PublishedIsVerified, Orderly
<1>3. CASE Queueing
  BY <1>3, <1>0, <1>1, QueueingIsApart DEF Apart, PublishedIsComplete,
     PublishedIsVerified, Orderly
<1>4. ASSUME NEW w \in Workers, OpenPartial(w) PROVE PublishedIsComplete'
  BY <1>4, <1>0, <1>1, RunningMoves, SomeInodeIsUnused DEF Running, Moves, OpenPartial,
     Goto, boundVars, PublishedIsComplete, PublishedIsVerified, Orderly
<1>5. ASSUME NEW w \in Workers, InspectProgress(w) PROVE PublishedIsComplete'
  BY <1>5 DEF InspectProgress, PublishedIsComplete, PublishedIsVerified
<1>6. ASSUME NEW w \in Workers, RangeIgnored(w) PROVE PublishedIsComplete'
  <2>1. /\ pc[w] = "request" /\ UNCHANGED <<target, delivered, corruptions, faults, userSteps>>
        /\ data' = data \/ data' = [data EXCEPT ![fd[w]] = << >>]
    BY <1>6 DEF RangeIgnored, Restart, historyVars, boundVars
  <2>2. Orderly /\ target # NoInode => data'[target] = data[target]
    BY <1>0, <1>1, <2>1 DEF WriterSound, Writing, Filling, Locking
  <2>3. Orderly /\ PublishedIsVerified => PublishedIsVerified'
    BY <2>1, <2>2 DEF PublishedIsVerified
  <2>4. corruptions' <= 1 => corruptions <= 1
    BY <1>1, <2>1
  <2>5. QED
    BY <1>0, <2>1, <2>3, <2>4 DEF PublishedIsComplete, Orderly
<1>7. ASSUME NEW w \in Workers, ReceiveBlock(w) PROVE PublishedIsComplete'
  <2>1. /\ pc[w] = "receive" /\ UNCHANGED <<target, delivered, faults, userSteps>>
        /\ corruptions' = corruptions \/ corruptions' = corruptions + 1
        /\ \E b \in {<<File(w), answer[w].next>>, Bad} :
             data' = [data EXCEPT ![fd[w]] = Append(@, b)]
    BY <1>7 DEF ReceiveBlock, historyVars
  <2>2. Orderly /\ target # NoInode => data'[target] = data[target]
    BY <1>0, <1>1, <2>1 DEF WriterSound, Writing, Filling, Locking
  <2>3. Orderly /\ PublishedIsVerified => PublishedIsVerified'
    BY <2>1, <2>2 DEF PublishedIsVerified
  <2>4. corruptions' <= 1 => corruptions <= 1
    BY <1>1, <2>1
  <2>5. QED
    BY <1>0, <2>1, <2>3, <2>4 DEF PublishedIsComplete, Orderly
<1>8. ASSUME NEW w \in Workers, CompareHash(w) PROVE PublishedIsComplete'
  <2>1. /\ pc[w] = "verify" /\ UNCHANGED <<target, delivered, corruptions, faults, userSteps>>
        /\ data' = data \/ data' = [data EXCEPT ![fd[w]] = << >>]
    BY <1>8 DEF CompareHash, Restart, historyVars, boundVars
  <2>2. Orderly /\ target # NoInode => data'[target] = data[target]
    BY <1>0, <1>1, <2>1 DEF WriterSound, Writing, Filling, Locking
  <2>3. Orderly /\ PublishedIsVerified => PublishedIsVerified'
    BY <2>1, <2>2 DEF PublishedIsVerified
  <2>4. corruptions' <= 1 => corruptions <= 1
    BY <1>1, <2>1
  <2>5. QED
    BY <1>0, <2>1, <2>3, <2>4 DEF PublishedIsComplete, Orderly
<1>9. ASSUME NEW w \in Workers, Link(w) PROVE PublishedIsComplete'
  <2>1. /\ UNCHANGED <<data, fd, partial, corruptions, faults, userSteps>> /\ pc[w] = "link"
        /\ \/ target' = target /\ delivered' = delivered
           \/ /\ target = NoInode /\ target' = partial
              /\ delivered' = delivered \cup {f \in Files : Complete(f, data[partial])}
    BY <1>9 DEF Link, Published, Ends, historyVars, boundVars
  <2>2. CASE target' = target /\ delivered' = delivered
    BY <1>0, <2>1, <2>2 DEF PublishedIsComplete, PublishedIsVerified, Orderly
  <2>3. ASSUME Orderly, corruptions <= 1, target' = partial,
               delivered' = delivered \cup {f \in Files : Complete(f, data[partial])}
        PROVE  PublishedIsVerified'
    <3>1. fd[w] = partial /\ Complete(File(w), data[partial])
      BY <1>0, <2>1, <2>3 DEF WriterSound, DeliverySound, Filling, Writing, Locking
    <3>2. File(w) \in Files
      BY <1>0, <2>1, TaskTable DEF ExecutionSound, File
    <3>3. QED
      BY <2>1, <2>3, <3>1, <3>2 DEF PublishedIsVerified
  <2>4. QED
    BY <2>1, <2>2, <2>3 DEF PublishedIsComplete, Orderly
<1>10. CASE UserRemovesTarget
  BY <1>10 DEF UserRemovesTarget, PublishedIsComplete, PublishedIsVerified
<1>11. CASE UserPlacesFile
  BY <1>11, <1>0, <1>1, SomeInodeIsUnused DEF UserPlacesFile, PublishedIsComplete,
     PublishedIsVerified
<1>12. QED
  BY <1>2, <1>3, <1>4, <1>5, <1>6, <1>7, <1>8, <1>9, <1>10, <1>11 DEF Next, Queueing,
     Running, Execute

\* Names, files and the checkpoint.
LEMMA DirectoryTyped ==
  ASSUME PathInvariant, Next
  PROVE  DirectoryType'
<1>0. /\ TypeOK /\ ExecutionSound /\ LocksSound
  BY DEF PathInvariant
<1>1. /\ pc \in [Workers -> Phases]
      /\ fd \in [Workers -> Inodes \cup {NoInode}] /\ NoInode \notin Inodes
      /\ memory \in [Workers -> Checkpoint]
      /\ checkpoint \in Checkpoint
      /\ data \in [Inodes -> Seq(Block)]
      /\ {partial, target} \subseteq Inodes \cup {NoInode}
      /\ job \in [Workers -> 0 .. MaxTasks]
      /\ answer \in [Workers -> [next : 1 .. Size + 1, end : 0 .. Size]]
      /\ Size \in Nat \ {0} /\ ChunkBlocks \in Nat \ {0}
      /\ Len(tasks) \in Nat /\ Len(tasks) <= MaxTasks /\ DOMAIN tasks = 1 .. Len(tasks)
      /\ \A t \in DOMAIN tasks :
           /\ tasks[t].file \in Files /\ tasks[t].status \in Statuses
           /\ tasks[t].predecessor \in 0 .. MaxTasks /\ tasks[t].owner \in Workers \cup {NoWorker}
  BY <1>0, StateTypes, TaskTable
<1>2. CASE (\E w \in Workers : Refused(w) \/ TryLock(w) \/ StopExecution(w) \/
          ExecutionFails(w) \/ InspectForeignProgress(w) \/ RangeHonoured(w) \/
          SkipVerification(w) \/ DigestBlock(w) \/ ConfirmOwnership(w))
  <2>1. UNCHANGED <<data, partial, target, checkpoint>>
    BY <1>2 DEF Refused, TryLock, StopExecution, ExecutionFails, InspectForeignProgress,
       RangeHonoured, SkipVerification, DigestBlock, ConfirmOwnership, directoryVars
  <2>2. QED
    BY <1>0, <2>1 DEF DirectoryType, TypeOK
<1>3. CASE Queueing
  BY <1>3, <1>0, <1>1, QueueingIsApart DEF Apart, DirectoryType
<1>4. ASSUME NEW w \in Workers, OpenPartial(w) PROVE DirectoryType'
  <2>1. /\ UNCHANGED <<target, checkpoint>>
        /\ \/ UNCHANGED <<partial, data>>
           \/ partial' = Unused /\ Unused \in Inodes /\ data' = [data EXCEPT ![Unused] = << >>]
    BY <1>4, <1>0, SomeInodeIsUnused DEF OpenPartial
  <2>2. data' \in [Inodes -> Seq(Block)]
    BY <1>1, <2>1, Checkpoints
  <2>3. QED
    BY <1>1, <2>1, <2>2 DEF DirectoryType
<1>5. ASSUME NEW w \in Workers, InspectTarget(w) PROVE DirectoryType'
  BY <1>5, <1>1 DEF InspectTarget, DirectoryType
<1>6. ASSUME NEW w \in Workers, InspectProgress(w) PROVE DirectoryType'
  <2>1. /\ data' = data \/ data' = [data EXCEPT ![fd[w]] = << >>]
        /\ UNCHANGED <<partial, target, checkpoint>>
    BY <1>6 DEF InspectProgress, Emptied
  <2>2. data' \in [Inodes -> Seq(Block)]
    BY <1>1, <2>1, Checkpoints
  <2>3. QED
    BY <1>1, <2>1, <2>2 DEF DirectoryType
<1>7. ASSUME NEW w \in Workers, WriteCheckpoint(w) PROVE DirectoryType'
  BY <1>7, <1>1 DEF WriteCheckpoint, DirectoryType
<1>8. ASSUME NEW w \in Workers, RangeIgnored(w) PROVE DirectoryType'
  <2>1. /\ data' = data \/ data' = [data EXCEPT ![fd[w]] = << >>]
        /\ UNCHANGED <<partial, target, checkpoint>>
    BY <1>8 DEF RangeIgnored, Restart
  <2>2. data' \in [Inodes -> Seq(Block)]
    BY <1>1, <2>1, Checkpoints
  <2>3. QED
    BY <1>1, <2>1, <2>2 DEF DirectoryType
<1>9. ASSUME NEW w \in Workers, ReceiveBlock(w) PROVE DirectoryType'
  <2>1. PICK b \in {<<File(w), answer[w].next>>, Bad} :
          data' = [data EXCEPT ![fd[w]] = Append(data[fd[w]], b)]
    BY <1>9 DEF ReceiveBlock
  <2>2. pc[w] = "receive" /\ UNCHANGED <<partial, target, checkpoint>>
    BY <1>9 DEF ReceiveBlock
  <2>3. /\ fd[w] \in Inodes /\ answer[w].next \in 1 .. Size /\ File(w) \in Files
    BY <1>0, <1>1, <2>2 DEF LocksSound, Locking, ExecutionSound, File
  <2>4. b \in Block /\ data[fd[w]] \in Seq(Block)
    BY <1>1, <2>1, <2>3 DEF Block
  <2>5. Append(data[fd[w]], b) \in Seq(Block)
    BY <2>4
  <2>6. QED
    BY <1>1, <2>1, <2>2, <2>5 DEF DirectoryType
<1>10. ASSUME NEW w \in Workers, CompareHash(w) PROVE DirectoryType'
  <2>1. /\ data' = data \/ data' = [data EXCEPT ![fd[w]] = << >>]
        /\ UNCHANGED <<partial, target, checkpoint>>
    BY <1>10 DEF CompareHash, Restart
  <2>2. data' \in [Inodes -> Seq(Block)]
    BY <1>1, <2>1, Checkpoints
  <2>3. QED
    BY <1>1, <2>1, <2>2 DEF DirectoryType
<1>11. ASSUME NEW w \in Workers, Seal(w) PROVE DirectoryType'
  <2>1. /\ UNCHANGED <<data, partial, target>>
        /\ \/ checkpoint' = checkpoint
           \/ /\ checkpoint' = memory'[w]
              /\ memory' = [memory EXCEPT ![w] =
                            [memory[w] EXCEPT !.published = partial, !.digests = << >>]]
    BY <1>11 DEF Seal, Ends
  <2>2. [memory[w] EXCEPT !.published = partial, !.digests = << >>] \in Checkpoint
    BY <1>1, Checkpoints
  <2>3. QED
    BY <1>1, <2>1, <2>2 DEF DirectoryType
<1>12. ASSUME NEW w \in Workers, Link(w) PROVE DirectoryType'
  BY <1>12, <1>1 DEF Link, Published, DirectoryType
<1>13. ASSUME NEW w \in Workers, Unlink(w) \/ PublicationFails(w) PROVE DirectoryType'
  BY <1>13, <1>1 DEF Unlink, PublicationFails, Breaks, DirectoryType
<1>14. ASSUME NEW w \in Workers, ClosePartial(w) \/ CloseFails(w) PROVE DirectoryType'
  BY <1>14, <1>1 DEF ClosePartial, CloseFails, Breaks, Ends, DirectoryType
<1>15. CASE UserRemovesTarget
  BY <1>15, <1>1 DEF UserRemovesTarget, DirectoryType
<1>16. CASE UserPlacesFile
  BY <1>16, <1>0, <1>1, SomeInodeIsUnused DEF UserPlacesFile, DirectoryType, Block
<1>17. QED
  BY <1>2, <1>3, <1>4, <1>5, <1>6, <1>7, <1>8, <1>9, <1>10, <1>11, <1>12, <1>13, <1>14,
     <1>15, <1>16 DEF Next, Queueing, Running, Execute

\* What the executions remember.
LEMMA MemoryTyped ==
  ASSUME PathInvariant, Next
  PROVE  MemoryType'
<1>0. /\ TypeOK /\ ExecutionSound /\ LocksSound
  BY DEF PathInvariant
<1>1. /\ pc \in [Workers -> Phases]
      /\ fd \in [Workers -> Inodes \cup {NoInode}] /\ NoInode \notin Inodes
      /\ memory \in [Workers -> Checkpoint]
      /\ checkpoint \in Checkpoint
      /\ data \in [Inodes -> Seq(Block)]
      /\ {partial, target} \subseteq Inodes \cup {NoInode}
      /\ job \in [Workers -> 0 .. MaxTasks]
      /\ answer \in [Workers -> [next : 1 .. Size + 1, end : 0 .. Size]]
      /\ Size \in Nat \ {0} /\ ChunkBlocks \in Nat \ {0}
      /\ Len(tasks) \in Nat /\ Len(tasks) <= MaxTasks /\ DOMAIN tasks = 1 .. Len(tasks)
      /\ \A t \in DOMAIN tasks :
           /\ tasks[t].file \in Files /\ tasks[t].status \in Statuses
           /\ tasks[t].predecessor \in 0 .. MaxTasks /\ tasks[t].owner \in Workers \cup {NoWorker}
  BY <1>0, StateTypes, TaskTable
<1>2. CASE (\E w \in Workers : Refused(w) \/ OpenPartial(w) \/ TryLock(w) \/
          StopExecution(w) \/ ExecutionFails(w) \/ InspectTarget(w) \/
          InspectForeignProgress(w) \/ WriteCheckpoint(w) \/ SkipVerification(w)
          \/ ConfirmOwnership(w) \/ Link(w) \/ Unlink(w) \/ PublicationFails(w)
          \/ ClosePartial(w) \/ CloseFails(w)) \/
          UserRemovesTarget \/ UserPlacesFile
  <2>1. UNCHANGED <<memory, answer>>
    BY <1>2 DEF Refused, Ends, OpenPartial, TryLock, StopExecution, ExecutionFails,
       InspectTarget, InspectForeignProgress, WriteCheckpoint, SkipVerification,
       ConfirmOwnership, Link, Unlink, PublicationFails, Breaks, ClosePartial,
       CloseFails, UserRemovesTarget, UserPlacesFile, executionVars
  <2>2. QED
    BY <1>0, <2>1 DEF MemoryType, TypeOK
<1>3. CASE Queueing
  <2>1. \/ UNCHANGED <<memory, answer>>
        \/ \E w \in Workers : Forget(w)
    <3>1. CASE User \/ \E t \in DOMAIN tasks : LoseLease(t)
      BY <3>1 DEF User, ReadDestination, ReadForRetry, CreateDownload, ResumeDownload,
         CancelDownload,
         LoseLease, executionVars
    <3>2. ASSUME NEW w \in Workers, Claim(w) PROVE UNCHANGED <<memory, answer>>
      BY <3>2 DEF Claim, ClaimTask, ClaimLegacy, Claimed
    <3>3. ASSUME NEW w \in Workers, FinishTask(w) \/ Crash(w) PROVE Forget(w)
      BY <3>3 DEF FinishTask, Crash
    <3>4. QED
      BY <1>3, <3>1, <3>2, <3>3 DEF Queueing
  <2>2. NoCheckpoint \in Checkpoint /\ NoAnswer \in [next : 1 .. Size + 1, end : 0 .. Size]
    <3>1. 1 \in 1 .. Size + 1 /\ 0 \in 0 .. Size
      BY <1>1
    <3>2. QED
      BY <3>1, Checkpoints DEF NoAnswer
  <2>3. \A w \in Workers : Forget(w) =>
          memory' = [memory EXCEPT ![w] = NoCheckpoint] /\ answer' = [answer EXCEPT ![w] = NoAnswer]
    BY DEF Forget
  <2>4. memory' \in [Workers -> Checkpoint]
    BY <1>1, <2>1, <2>2, <2>3
  <2>5. answer' \in [Workers -> [next : 1 .. Size + 1, end : 0 .. Size]]
    BY <1>1, <2>1, <2>2, <2>3
  <2>6. QED
    BY <2>4, <2>5 DEF MemoryType
<1>4. ASSUME NEW w \in Workers, InspectProgress(w) PROVE MemoryType'
  <2>1. /\ \/ memory' = [memory EXCEPT ![w] = checkpoint]
           \/ memory' = [memory EXCEPT ![w] = FreshCheckpoint(w)]
        /\ answer' = answer /\ pc[w] = "inspect"
    BY <1>4 DEF InspectProgress
  <2>2. File(w) \in Files
    BY <1>0, <1>1, <2>1 DEF ExecutionSound, File
  <2>3. FreshCheckpoint(w) \in Checkpoint
    BY <2>2, Checkpoints
  <2>4. QED
    BY <1>1, <2>1, <2>3 DEF MemoryType
<1>5. ASSUME NEW w \in Workers, RangeHonoured(w) PROVE MemoryType'
  <2>1. /\ answer' = [answer EXCEPT ![w] = [next |-> Len(data[fd[w]]) + 1, end |-> SliceEnd(w)]]
        /\ memory' = memory /\ pc[w] = "request"
    BY <1>5 DEF RangeHonoured
  <2>2. Len(data[fd[w]]) \in Nat /\ Len(data[fd[w]]) < Size
    BY <1>0, <1>1, <2>1 DEF LocksSound, Locking
  <2>3. [next |-> Len(data[fd[w]]) + 1, end |-> SliceEnd(w)] \in [next : 1 .. Size + 1, end :
          0 .. Size]
    BY <1>1, <2>2 DEF SliceEnd, Smaller
  <2>4. QED
    BY <1>1, <2>1, <2>3 DEF MemoryType
<1>6. ASSUME NEW w \in Workers, RangeIgnored(w) PROVE MemoryType'
  <2>1. /\ memory' = memory \/ memory' = [memory EXCEPT ![w] = [memory[w] EXCEPT !.digests = << >>]]
        /\ answer' = answer \/ answer' = [answer EXCEPT ![w] = [next |-> 1, end |-> Size]]
    BY <1>6 DEF RangeIgnored, Restart
  <2>2. [memory[w] EXCEPT !.digests = << >>] \in Checkpoint
    BY <1>1, Checkpoints
  <2>3. [next |-> 1, end |-> Size] \in [next : 1 .. Size + 1, end : 0 .. Size]
    BY <1>1
  <2>4. memory' \in [Workers -> Checkpoint]
    BY <1>1, <2>1, <2>2, <2>3
  <2>5. answer' \in [Workers -> [next : 1 .. Size + 1, end : 0 .. Size]]
    BY <1>1, <2>1, <2>2, <2>3
  <2>6. QED
    BY <2>4, <2>5 DEF MemoryType
<1>7. ASSUME NEW w \in Workers, ReceiveBlock(w) PROVE MemoryType'
  <2>1. /\ answer' = [answer EXCEPT ![w] = [answer[w] EXCEPT !.next = answer[w].next + 1]]
        /\ memory' = memory /\ pc[w] = "receive"
    BY <1>7 DEF ReceiveBlock
  <2>2. answer[w].next <= answer[w].end
    BY <1>0, <2>1 DEF LocksSound
  <2>3. [answer[w] EXCEPT !.next = answer[w].next + 1] \in [next : 1 .. Size + 1, end : 0 .. Size]
    <3>1. answer[w] \in [next : 1 .. Size + 1, end : 0 .. Size]
      BY <1>1
    <3>2. answer[w].next + 1 \in 1 .. Size + 1
      BY <1>1, <2>2, <3>1
    <3>3. QED
      BY <3>1, <3>2
  <2>4. QED
    BY <1>1, <2>1, <2>3 DEF MemoryType
<1>8. ASSUME NEW w \in Workers, DigestBlock(w) PROVE MemoryType'
  <2>1. /\ memory' = [memory EXCEPT ![w] =
              [memory[w] EXCEPT !.digests =
                  Append(memory[w].digests, data[fd[w]][Len(memory[w].digests) + 1])]]
        /\ answer' = answer /\ pc[w] = "verify" /\ Len(memory[w].digests) + 1 <= Size
    BY <1>8 DEF DigestBlock
  <2>2. data[fd[w]] \in Seq(Block) /\ Len(data[fd[w]]) = Size /\ memory[w].digests \in Seq(Block)
    BY <1>0, <1>1, <2>1 DEF LocksSound, Locking, Checkpoint
  <2>3. data[fd[w]][Len(memory[w].digests) + 1] \in Block
    BY <1>1, <2>1, <2>2
  <2>4. [memory[w] EXCEPT !.digests =
                  Append(memory[w].digests, data[fd[w]][Len(memory[w].digests) + 1])]
          \in Checkpoint
    <3>1. Append(memory[w].digests, data[fd[w]][Len(memory[w].digests) + 1]) \in Seq(Block)
      BY <2>2, <2>3
    <3>2. QED
      BY <1>1, <3>1, Checkpoints
  <2>5. QED
    BY <1>1, <2>1, <2>4 DEF MemoryType
<1>9. ASSUME NEW w \in Workers, CompareHash(w) PROVE MemoryType'
  <2>1. /\ memory' = memory \/ memory' = [memory EXCEPT ![w] = [memory[w] EXCEPT !.digests = << >>]]
        /\ answer' = answer
    BY <1>9 DEF CompareHash, Restart
  <2>2. [memory[w] EXCEPT !.digests = << >>] \in Checkpoint
    BY <1>1, Checkpoints
  <2>3. QED
    BY <1>1, <2>1, <2>2 DEF MemoryType
<1>10. ASSUME NEW w \in Workers, Seal(w) PROVE MemoryType'
  <2>1. /\ \/ memory' = memory
           \/ memory' = [memory EXCEPT ![w] =
                            [memory[w] EXCEPT !.published = partial, !.digests = << >>]]
        /\ answer' = answer
    BY <1>10 DEF Seal, Ends
  <2>2. [memory[w] EXCEPT !.published = partial, !.digests = << >>] \in Checkpoint
    BY <1>1, Checkpoints
  <2>3. QED
    BY <1>1, <2>1, <2>2 DEF MemoryType
<1>11. QED
  BY <1>2, <1>3, <1>4, <1>5, <1>6, <1>7, <1>8, <1>9, <1>10 DEF Next, Queueing, Running,
     Execute

\* A task is added only as the successor of the last one, and its key is unique.
LEMMA QueuePreserved ==
  ASSUME PathInvariant, Next
  PROVE  QueueSound'
<1>0. /\ TypeOK /\ QueueSound /\ ExecutionSound
  BY DEF PathInvariant
<1>1. /\ request \in [Clients -> [file : Files \cup {NoFile}, predecessor : 0 .. MaxTasks]]
      /\ mode \in {"process", "legacy"} /\ NoWorker \notin Workers
      /\ tasks \in Seq(Task)
      /\ Len(tasks) \in Nat /\ Len(tasks) <= MaxTasks /\ DOMAIN tasks = 1 .. Len(tasks)
      /\ \A t \in DOMAIN tasks :
           /\ tasks[t].file \in Files /\ tasks[t].status \in Statuses
           /\ tasks[t].predecessor \in 0 .. MaxTasks /\ tasks[t].owner \in Workers \cup {NoWorker}
  BY <1>0, StateTypes, TaskTable
<1>2. CASE (\E w \in Workers : Running(w)) \/ UserRemovesTarget \/ UserPlacesFile
  <2>1. UNCHANGED <<mode, tasks, request>>
    BY <1>2, <1>0, RunningMoves DEF Moves, UserRemovesTarget, UserPlacesFile, apiVars
  <2>2. QED
    BY <1>0, <2>1 DEF QueueSound
<1>3. ASSUME NEW c \in Clients, NEW f \in Files, ReadDestination(c, f) PROVE QueueSound'
  BY <1>3, <1>0, <1>1 DEF ReadDestination, Active, QueueSound, Statuses
<1>4. ASSUME NEW c \in Clients, NEW t \in DOMAIN tasks, ReadForRetry(c, t) PROVE QueueSound'
  BY <1>4, <1>0, <1>1 DEF ReadForRetry, QueueSound, TerminalStatuses
<1>5. ASSUME NEW c \in Clients, CreateDownload(c) PROVE QueueSound'
  <2>1. CASE tasks' = tasks
    BY <1>5, <1>0, <1>1, <2>1 DEF CreateDownload, QueueSound
  <2>2. CASE tasks' # tasks
    <3> DEFINE row == [file |-> request[c].file, status |-> "pending",
                       predecessor |-> request[c].predecessor, owner |-> NoWorker]
    <3>1. /\ tasks' = Append(tasks, row) /\ ~KeyTaken(request[c])
          /\ request' = [request EXCEPT ![c] = NoRequest] /\ request[c] # NoRequest
          /\ mode' = mode
      BY <1>5, <2>2 DEF CreateDownload
    <3>2. request[c].predecessor = Len(tasks) /\ \A t \in DOMAIN tasks :
            tasks[t].status \in TerminalStatuses
      <4>1. request[c].predecessor <= Len(tasks) /\ request[c].predecessor \in Nat
        BY <1>0, <1>1, <3>1 DEF QueueSound
      <4>2. ~ (request[c].predecessor + 1 \in DOMAIN tasks)
        BY <1>0, <1>1, <3>1, <4>1 DEF QueueSound, KeyTaken
      <4>3. request[c].predecessor = Len(tasks)
        BY <1>1, <4>1, <4>2
      <4>4. QED
        BY <1>0, <3>1, <4>3 DEF QueueSound
    <3>3. /\ Len(tasks') = Len(tasks) + 1 /\ DOMAIN tasks' = 1 .. Len(tasks) + 1
          /\ \A t \in DOMAIN tasks : tasks'[t] = tasks[t]
          /\ tasks'[Len(tasks) + 1] = row
      BY <1>1, <3>1
    <3>4. /\ row.predecessor = Len(tasks) /\ row.owner = NoWorker
      BY <3>2
    <3> HIDE DEF row
    <3>5. \A t \in DOMAIN tasks' :
            /\ tasks'[t].predecessor = t - 1
            /\ t < Len(tasks') => tasks'[t].status \in TerminalStatuses
            /\ tasks'[t].owner # NoWorker =>
                 mode = "process" /\ tasks'[t].status \in {"running", "cancel_requested"}
      BY <1>0, <1>1, <3>2, <3>3, <3>4 DEF QueueSound
    <3>6. \A d \in Clients : request'[d] # NoRequest =>
            /\ request'[d].file \in Files
            /\ request'[d].predecessor <= Len(tasks)
      BY <1>0, <1>1, <3>1 DEF QueueSound
    <3>7. QED
      BY <1>1, <3>1, <3>3, <3>5, <3>6 DEF QueueSound
  <2>3. QED
    BY <2>1, <2>2
<1>6. ASSUME NEW t \in DOMAIN tasks, ResumeDownload(t) \/ CancelDownload(t)
      PROVE  QueueSound'
  <2>1. PICK s \in {"cancel_requested", "pending", "cancelled"} :
          /\ Becomes(t, s, tasks[t].owner) /\ tasks[t].status \in ActiveStatuses
          /\ s = "cancel_requested" \/ tasks[t].status \notin {"running", "cancel_requested"}
    BY <1>6, <1>0, Resuming
  <2>2. /\ s \in Statuses /\ tasks[t].owner \in Workers \cup {NoWorker}
        /\ tasks[t].owner # NoWorker => mode = "process" /\ s = "cancel_requested"
    BY <1>0, <1>1, <2>1 DEF QueueSound, Statuses, ActiveStatuses, TerminalStatuses
  <2>3. QED
    BY <1>6, <1>0, <2>1, <2>2, Resuming, QueueKept
<1>7. ASSUME NEW w \in Workers, NEW t \in DOMAIN tasks, ClaimTask(w, t) \/ ClaimLegacy(w, t)
      PROVE  QueueSound'
  <2>1. PICK s \in {"running", "cancel_requested"} :
          Becomes(t, s, IF mode = "process" THEN w ELSE tasks[t].owner)
    BY <1>7, <1>0, Claiming
  <2>2. /\ tasks[t].status \in ActiveStatuses /\ s \in Statuses
        /\ tasks[t].owner \in Workers \cup {NoWorker}
        /\ mode # "process" => tasks[t].owner = NoWorker
    BY <1>7, <1>0, <1>1, <2>1, Claiming DEF QueueSound, Statuses, ActiveStatuses
  <2>3. QED
    BY <1>7, <1>0, <1>1, <2>1, <2>2, Claiming, QueueKept
<1>8. ASSUME NEW w \in Workers, FinishTask(w) \/ Crash(w) PROVE QueueSound'
  <2>1. job[w] \in DOMAIN tasks /\ UNCHANGED <<mode, request>>
    BY <1>8, <1>0, Ending DEF ExecutionSound
  <2>2. CASE tasks' = tasks
    BY <1>0, <2>1, <2>2 DEF QueueSound
  <2>3. ASSUME NEW s \in Statuses, MayFinish(w), Becomes(job[w], s, NoWorker)
        PROVE  QueueSound'
    <3>1. tasks[job[w]].status \in {"running", "cancel_requested"}
      BY <1>8, <1>0, <1>1, <2>1, <2>3, Ending DEF MayFinish, QueueSound, ExecutionSound
    <3>2. QED
      BY <1>0, <2>1, <2>3, <3>1, QueueKept DEF ActiveStatuses
  <2>4. ASSUME mode = "legacy", tasks[job[w]].status = "running",
               Becomes(job[w], "pending", tasks[job[w]].owner)
        PROVE  QueueSound'
    <3>1. tasks[job[w]].owner = NoWorker
      BY <1>0, <2>1, <2>4 DEF QueueSound
    <3>2. QED
      BY <1>0, <2>1, <2>4, <3>1, QueueKept DEF Statuses, ActiveStatuses
  <2>5. QED
    BY <1>8, <1>0, <2>2, <2>3, <2>4, Ending
<1>9. ASSUME NEW t \in DOMAIN tasks, LoseLease(t) PROVE QueueSound'
  <2>1. PICK s \in Statuses :
          /\ Becomes(t, s, NoWorker) /\ tasks[t].owner # NoWorker
    BY <1>9, <1>0, Losing
  <2>2. tasks[t].status \in ActiveStatuses
    BY <1>0, <2>1 DEF QueueSound, ActiveStatuses
  <2>3. QED
    BY <1>9, <1>0, <2>1, <2>2, Losing, QueueKept
<1>10. QED
  BY <1>2, <1>3, <1>4, <1>5, <1>6, <1>7, <1>8, <1>9 DEF Next, Queueing, Running,
     Execute, User, Claim

\* A claim needs a task that nobody executes; a recovery gives a task away only after a
\* fault.
LEMMA ExecutionPreserved ==
  ASSUME PathInvariant, Next
  PROVE  ExecutionSound'
<1>0. /\ TypeOK /\ QueueSound /\ ExecutionSound /\ OwnersExecute
  BY DEF PathInvariant
<1>1. /\ pc \in [Workers -> Phases]
      /\ job \in [Workers -> 0 .. MaxTasks]
      /\ mode \in {"process", "legacy"} /\ NoWorker \notin Workers
      /\ {faults, corruptions, userSteps} \subseteq Nat
      /\ Len(tasks) \in Nat /\ Len(tasks) <= MaxTasks /\ DOMAIN tasks = 1 .. Len(tasks)
      /\ \A t \in DOMAIN tasks :
           /\ tasks[t].file \in Files /\ tasks[t].status \in Statuses
           /\ tasks[t].predecessor \in 0 .. MaxTasks /\ tasks[t].owner \in Workers \cup {NoWorker}
  BY <1>0, StateTypes, TaskTable
<1>2. CASE UserRemovesTarget \/ UserPlacesFile
  <2>1. UNCHANGED <<mode, tasks, pc, job, outcome, faults>>
    BY <1>2 DEF UserRemovesTarget, UserPlacesFile, apiVars, executionVars
  <2>2. QED
    BY <1>0, <2>1 DEF ExecutionSound
<1>3. ASSUME NEW w \in Workers, Running(w) PROVE ExecutionSound'
  BY <1>3, <1>0, RunningMoves DEF Moves, ExecutionSound
<1>4. ASSUME NEW c \in Clients, NEW f \in Files, ReadDestination(c, f) PROVE ExecutionSound'
  BY <1>4, <1>0 DEF ReadDestination, executionVars, boundVars, ExecutionSound
<1>5. ASSUME NEW c \in Clients, NEW t \in DOMAIN tasks, ReadForRetry(c, t)
      PROVE  ExecutionSound'
  BY <1>5, <1>0 DEF ReadForRetry, executionVars, boundVars, ExecutionSound
<1>6. ASSUME NEW c \in Clients, CreateDownload(c) PROVE ExecutionSound'
  BY <1>6, <1>0 DEF CreateDownload, executionVars, boundVars, ExecutionSound
<1>7. ASSUME NEW t \in DOMAIN tasks, ResumeDownload(t) \/ CancelDownload(t)
      PROVE  ExecutionSound'
  BY <1>7, <1>0, <1>1, Resuming DEF Becomes, executionVars, historyVars, boundVars,
     ExecutionSound, QueueSound, OwnersExecute, TerminalStatuses, Statuses,
     ActiveStatuses
<1>8. ASSUME NEW w \in Workers, NEW t \in DOMAIN tasks, ClaimTask(w, t) \/ ClaimLegacy(w, t)
      PROVE  ExecutionSound'
  <2>1. PICK s \in {"running", "cancel_requested"} :
          Becomes(t, s, IF mode = "process" THEN w ELSE tasks[t].owner)
    BY <1>8, <1>0, Claiming
  <2>2. /\ pc[w] = "idle" /\ pc' = [pc EXCEPT ![w] = "open"] /\ job' = [job EXCEPT ![w] = t]
        /\ UNCHANGED <<mode, faults, outcome>>
        /\ mode = "legacy" => \A v \in Workers : pc[v] = "idle"
        /\ mode = "process" => tasks[t].owner = NoWorker
        /\ tasks[t].status \in {"pending", "retry", "cancel_requested"}
    BY <1>8, <1>0, Claiming DEF boundVars, Claimed
  <2>3. /\ DOMAIN tasks' = DOMAIN tasks /\ tasks'[t].status = s
        /\ mode = "process" => tasks'[t].owner = w
        /\ \A u \in DOMAIN tasks \ {t} : /\ tasks'[u].status = tasks[u].status
                                         /\ tasks'[u].owner = tasks[u].owner
    BY <2>1 DEF Becomes
  <2>4. mode = "process" /\ faults = 0 => \A v \in Workers : pc[v] = "idle"
    <3>1. SUFFICES ASSUME mode = "process", faults = 0, NEW v \in Workers, pc[v] # "idle"
                   PROVE  FALSE
      OBVIOUS
    <3>2. /\ job[v] \in DOMAIN tasks /\ tasks[job[v]].owner = v
          /\ tasks[job[v]].status \in {"running", "cancel_requested"}
      BY <1>0, <3>1 DEF ExecutionSound
    <3>3. job[v] # t
      BY <1>1, <2>2, <3>1, <3>2
    <3>4. t = Len(tasks) /\ job[v] = Len(tasks)
      BY <1>0, <1>1, <2>2, <3>2 DEF QueueSound, TerminalStatuses
    <3>5. QED
      BY <3>3, <3>4
  <2>5. ASSUME NEW v \in Workers, pc'[v] # "idle", v # w
        PROVE  /\ pc[v] # "idle" /\ job'[v] = job[v] /\ pc'[v] = pc[v]
               /\ ~ (mode = "legacy" \/ faults = 0)
    BY <1>1, <2>2, <2>4, <2>5
  <2>6. /\ job'[w] = t /\ pc'[w] = "open"
        /\ mode = "legacy" \/ faults = 0 => \A v \in Workers \ {w} : pc'[v] = "idle"
    BY <1>1, <2>2, <2>4
  <2>7. QED
    BY <1>0, <2>1, <2>2, <2>3, <2>5, <2>6 DEF ExecutionSound
<1>9. ASSUME NEW w \in Workers, FinishTask(w) \/ Crash(w) PROVE ExecutionSound'
  <2>1. /\ pc[w] # "idle" /\ Forget(w) /\ mode' = mode
        /\ faults' = faults \/ faults' = faults + 1
        /\ DOMAIN tasks' = DOMAIN tasks
    BY <1>9, <1>0, Ending DEF Becomes
  <2>2. /\ pc'[w] = "idle" /\ (faults' = 0 => faults = 0)
        /\ \A v \in Workers \ {w} :
             pc'[v] = pc[v] /\ job'[v] = job[v] /\ outcome'[v] = outcome[v]
    BY <1>0, <1>1, <2>1 DEF Forget, TypeOK
  <2>3. \A v \in Workers \ {w} : (mode = "legacy" \/ faults = 0) => pc[v] = "idle"
    BY <1>0, <2>1 DEF ExecutionSound
  <2>4. QED
    BY <1>0, <2>1, <2>2, <2>3 DEF ExecutionSound
<1>10. ASSUME NEW t \in DOMAIN tasks, LoseLease(t) PROVE ExecutionSound'
  <2>1. /\ UNCHANGED <<mode, pc, job, outcome>> /\ DOMAIN tasks' = DOMAIN tasks
        /\ tasks[t].owner # NoWorker /\ mode = "process"
        /\ faults' = 0 => faults = 0 /\ ~Executing(t)
        /\ \A u \in DOMAIN tasks \ {t} : tasks'[u].status = tasks[u].status
                                        /\ tasks'[u].owner = tasks[u].owner
    BY <1>10, <1>0, <1>1, Losing DEF Becomes, executionVars, QueueSound
  <2>2. QED
    BY <1>0, <1>1, <2>1 DEF ExecutionSound, Executing
<1>11. QED
  BY <1>2, <1>3, <1>4, <1>5, <1>6, <1>7, <1>8, <1>9, <1>10 DEF Next, Queueing, Running,
     Execute, User, Claim

\* The owner of a task executes it until it finishes it, or a fault comes.
LEMMA OwnersPreserved ==
  ASSUME PathInvariant, Next
  PROVE  OwnersExecute'
<1>0. /\ TypeOK /\ QueueSound /\ ExecutionSound /\ OwnersExecute
  BY DEF PathInvariant
<1>1. /\ pc \in [Workers -> Phases]
      /\ job \in [Workers -> 0 .. MaxTasks]
      /\ mode \in {"process", "legacy"} /\ NoWorker \notin Workers
      /\ {faults, corruptions, userSteps} \subseteq Nat
      /\ Len(tasks) \in Nat /\ Len(tasks) <= MaxTasks /\ DOMAIN tasks = 1 .. Len(tasks)
      /\ \A t \in DOMAIN tasks :
           /\ tasks[t].file \in Files /\ tasks[t].status \in Statuses
           /\ tasks[t].predecessor \in 0 .. MaxTasks /\ tasks[t].owner \in Workers \cup {NoWorker}
  BY <1>0, StateTypes, TaskTable
<1>2. CASE UserRemovesTarget \/ UserPlacesFile
  <2>1. UNCHANGED <<tasks, pc, job, faults>>
    BY <1>2 DEF UserRemovesTarget, UserPlacesFile, apiVars, executionVars
  <2>2. QED
    BY <1>0, <2>1 DEF OwnersExecute
<1>3. ASSUME NEW w \in Workers, Running(w) PROVE OwnersExecute'
  <2>1. /\ UNCHANGED <<tasks, job, faults>> /\ pc[w] # "idle" /\ pc'[w] # "idle"
        /\ \A v \in Workers \ {w} : pc'[v] = pc[v]
    BY <1>3, <1>0, RunningMoves DEF Moves
  <2>2. \A v \in Workers : pc[v] # "idle" => pc'[v] # "idle"
    BY <2>1
  <2>3. \A t \in DOMAIN tasks : tasks[t].owner # NoWorker => tasks[t].owner \in Workers
    BY <1>1
  <2>4. QED
    BY <1>0, <2>1, <2>2, <2>3 DEF OwnersExecute
<1>4. ASSUME NEW c \in Clients, NEW f \in Files, ReadDestination(c, f) PROVE OwnersExecute'
  BY <1>4, <1>0 DEF ReadDestination, executionVars, boundVars, OwnersExecute
<1>5. ASSUME NEW c \in Clients, NEW t \in DOMAIN tasks, ReadForRetry(c, t)
      PROVE  OwnersExecute'
  BY <1>5, <1>0 DEF ReadForRetry, executionVars, boundVars, OwnersExecute
<1>6. ASSUME NEW c \in Clients, CreateDownload(c) PROVE OwnersExecute'
  BY <1>6, <1>0 DEF CreateDownload, executionVars, boundVars, OwnersExecute
<1>7. ASSUME NEW t \in DOMAIN tasks, ResumeDownload(t) \/ CancelDownload(t)
      PROVE  OwnersExecute'
  <2>1. UNCHANGED <<pc, job, faults>> /\ \E s \in Statuses : Becomes(t, s, tasks[t].owner)
    BY <1>7, <1>0, Resuming DEF executionVars, boundVars, Statuses, ActiveStatuses,
       TerminalStatuses
  <2>2. DOMAIN tasks' = DOMAIN tasks /\ \A u \in DOMAIN tasks : tasks'[u].owner = tasks[u].owner
    BY <2>1 DEF Becomes
  <2>3. QED
    BY <1>0, <2>1, <2>2 DEF OwnersExecute
<1>8. ASSUME NEW w \in Workers, NEW t \in DOMAIN tasks, ClaimTask(w, t) \/ ClaimLegacy(w, t)
      PROVE  OwnersExecute'
  <2>1. /\ pc[w] = "idle" /\ pc' = [pc EXCEPT ![w] = "open"] /\ job' = [job EXCEPT ![w] = t]
        /\ faults' = faults
        /\ \E s \in {"running", "cancel_requested"} :
             Becomes(t, s, IF mode = "process" THEN w ELSE tasks[t].owner)
    BY <1>8, <1>0, Claiming DEF Claimed, boundVars
  <2>2. /\ DOMAIN tasks' = DOMAIN tasks
        /\ tasks'[t].owner = (IF mode = "process" THEN w ELSE tasks[t].owner)
        /\ \A u \in DOMAIN tasks \ {t} : tasks'[u].owner = tasks[u].owner
    BY <2>1 DEF Becomes
  <2>3. mode = "process" \/ tasks[t].owner = NoWorker
    BY <1>0, <1>1 DEF QueueSound
  <2>4. pc'[w] = "open" /\ job'[w] = t /\ \A v \in Workers \ {w} : pc'[v] = pc[v]
          /\ job'[v] = job[v]
    BY <1>1, <2>1
  <2>5. QED
    BY <1>0, <1>1, <2>1, <2>2, <2>3, <2>4 DEF OwnersExecute
<1>9. ASSUME NEW w \in Workers, FinishTask(w) \/ Crash(w) PROVE OwnersExecute'
  <2>1. CASE faults' # 0
    BY <2>1 DEF OwnersExecute
  <2>2. CASE faults' = 0
    <3>1. /\ FinishTask(w) /\ faults = 0 /\ pc[w] # "idle"
          /\ \A v \in Workers \ {w} : pc'[v] = pc[v] /\ job'[v] = job[v]
      BY <1>9, <1>0, <1>1, <2>2, Ending DEF Forget
    <3>2. job[w] \in DOMAIN tasks /\ (mode = "process" => tasks[job[w]].owner = w)
      BY <1>0, <3>1 DEF ExecutionSound
    <3>3. \E s \in Statuses : Becomes(job[w], s, NoWorker)
      <4>1. MayFinish(w)
        BY <1>1, <3>2 DEF MayFinish
      <4>2. QED
        BY <1>1, <1>0, <3>1, <4>1, FinishEnds
    <3>4. /\ DOMAIN tasks' = DOMAIN tasks /\ tasks'[job[w]].owner = NoWorker
          /\ \A u \in DOMAIN tasks \ {job[w]} : tasks'[u].owner = tasks[u].owner
      BY <3>3 DEF Becomes
    <3>5. QED
      BY <1>0, <1>1, <3>1, <3>2, <3>4 DEF OwnersExecute
  <2>3. QED
    BY <2>1, <2>2
<1>10. ASSUME NEW t \in DOMAIN tasks, LoseLease(t) PROVE OwnersExecute'
  <2>1. /\ UNCHANGED <<pc, job>> /\ (faults' = 0 => faults = 0)
        /\ \E s \in Statuses : Becomes(t, s, NoWorker)
    BY <1>10, <1>0, <1>1, Losing DEF executionVars
  <2>2. /\ DOMAIN tasks' = DOMAIN tasks /\ tasks'[t].owner = NoWorker
        /\ \A u \in DOMAIN tasks : tasks'[u].owner # NoWorker => tasks[u].owner = tasks'[u].owner
    BY <2>1 DEF Becomes
  <2>3. QED
    BY <1>0, <2>1, <2>2 DEF OwnersExecute
<1>11. QED
  BY <1>2, <1>3, <1>4, <1>5, <1>6, <1>7, <1>8, <1>9, <1>10 DEF Next, Queueing, Running,
     Execute, User, Claim

\* A task succeeds only through an execution that delivered its file.
LEMMA SuccessPreserved ==
  ASSUME PathInvariant, Next
  PROVE  SuccessIsPublished'
<1>0. /\ TypeOK /\ ExecutionSound /\ SuccessIsPublished /\ DeliverySound
  BY DEF PathInvariant
<1>1. /\ pc \in [Workers -> Phases]
      /\ job \in [Workers -> 0 .. MaxTasks]
      /\ {faults, corruptions, userSteps} \subseteq Nat
      /\ Len(tasks) \in Nat /\ Len(tasks) <= MaxTasks /\ DOMAIN tasks = 1 .. Len(tasks)
      /\ \A t \in DOMAIN tasks :
           /\ tasks[t].file \in Files /\ tasks[t].status \in Statuses
           /\ tasks[t].predecessor \in 0 .. MaxTasks /\ tasks[t].owner \in Workers \cup {NoWorker}
  BY <1>0, StateTypes, TaskTable
<1>2. ASSUME NEW w \in Workers, Running(w) PROVE SuccessIsPublished'
  <2>1. UNCHANGED <<tasks, faults, userSteps>> /\ delivered \subseteq delivered'
    BY <1>2, <1>0, RunningMoves DEF Moves
  <2>2. corruptions' <= 1 => corruptions <= 1
    <3>1. corruptions' = corruptions \/ corruptions' = corruptions + 1
      BY <1>2 DEF Running, Refused, OpenPartial, TryLock, StopExecution, ExecutionFails,
         ReceiveBlock, InspectTarget, InspectForeignProgress, InspectProgress,
         WriteCheckpoint, RangeHonoured, RangeIgnored, SkipVerification, DigestBlock,
         CompareHash, Seal, ConfirmOwnership, Link, Unlink, PublicationFails, Breaks,
         ClosePartial, CloseFails, boundVars
    <3>2. QED
      BY <1>1, <3>1
  <2>3. QED
    BY <1>0, <2>1, <2>2 DEF SuccessIsPublished, Orderly
<1>3. ASSUME NEW c \in Clients, NEW f \in Files, ReadDestination(c, f)
      PROVE  SuccessIsPublished'
  BY <1>3, <1>0 DEF ReadDestination, historyVars, boundVars, SuccessIsPublished, Orderly
<1>4. ASSUME NEW c \in Clients, NEW t \in DOMAIN tasks, ReadForRetry(c, t)
      PROVE  SuccessIsPublished'
  BY <1>4, <1>0 DEF ReadForRetry, historyVars, boundVars, SuccessIsPublished, Orderly
<1>5. ASSUME NEW c \in Clients, CreateDownload(c) PROVE SuccessIsPublished'
  BY <1>5, <1>0 DEF CreateDownload, historyVars, boundVars, SuccessIsPublished, Orderly
<1>6. ASSUME NEW t \in DOMAIN tasks, ResumeDownload(t) \/ CancelDownload(t)
      PROVE  SuccessIsPublished'
  <2>1. /\ UNCHANGED <<delivered, corruptions, faults, userSteps>>
        /\ \E s \in {"cancel_requested", "pending", "cancelled"}, o \in Workers \cup {NoWorker} :
             Becomes(t, s, o)
    BY <1>6, <1>0, <1>1, Resuming DEF historyVars, boundVars
  <2>2. QED
    BY <1>0, <2>1 DEF Becomes, SuccessIsPublished, Orderly
<1>7. ASSUME NEW w \in Workers, NEW t \in DOMAIN tasks, ClaimTask(w, t) \/ ClaimLegacy(w, t)
      PROVE  SuccessIsPublished'
  <2>1. /\ UNCHANGED <<delivered, corruptions, faults, userSteps>>
        /\ \E s \in {"running", "cancel_requested"}, o \in Workers \cup {NoWorker} :
             Becomes(t, s, o)
    BY <1>7, <1>0, <1>1, Claiming DEF historyVars, boundVars
  <2>2. QED
    BY <1>0, <2>1 DEF Becomes, SuccessIsPublished, Orderly
<1>8. ASSUME NEW w \in Workers, FinishTask(w) \/ Crash(w) PROVE SuccessIsPublished'
  <2>1. /\ pc[w] # "idle" /\ UNCHANGED <<delivered, corruptions, userSteps>>
        /\ faults' = 0 => faults = 0
    BY <1>8, <1>0, <1>1, Ending DEF historyVars
  <2>2. CASE tasks' = tasks
    BY <1>0, <2>1, <2>2 DEF SuccessIsPublished, Orderly
  <2>3. ASSUME NEW s \in Statuses, s = "success" => pc[w] = "finish" /\ outcome[w] = "success",
               NEW o, Becomes(job[w], s, o)
        PROVE  SuccessIsPublished'
    <3>1. job[w] \in DOMAIN tasks
      BY <1>0, <2>1 DEF ExecutionSound
    <3>2. /\ DOMAIN tasks' = DOMAIN tasks /\ tasks'[job[w]].status = s
          /\ \A t \in DOMAIN tasks : tasks'[t].file = tasks[t].file
          /\ \A t \in DOMAIN tasks \ {job[w]} : tasks'[t].status = tasks[t].status
      BY <2>3 DEF Becomes
    <3>3. Orderly /\ corruptions <= 1 /\ s = "success" => tasks[job[w]].file \in delivered
      BY <1>0, <2>3 DEF DeliverySound, File
    <3>4. QED
      BY <1>0, <2>1, <3>1, <3>2, <3>3 DEF SuccessIsPublished, Orderly
  <2>4. CASE \E s \in Statuses : /\ FinishTask(w) /\ Becomes(job[w], s, NoWorker)
                                /\ s = FinalStatus(tasks[job[w]].status, outcome[w])
    <3>1. PICK s \in Statuses : /\ FinishTask(w) /\ Becomes(job[w], s, NoWorker)
                                /\ s = FinalStatus(tasks[job[w]].status, outcome[w])
      BY <2>4
    <3>2. s = "success" => pc[w] = "finish" /\ outcome[w] = "success"
      BY <3>1 DEF FinishTask, FinalStatus
    <3>3. QED
      BY <2>3, <3>1, <3>2
  <2>5. CASE Becomes(job[w], "pending", tasks[job[w]].owner)
    BY <2>3, <2>5 DEF Statuses, ActiveStatuses
  <2>6. QED
    BY <1>8, <1>0, <2>2, <2>4, <2>5, Ending
<1>9. ASSUME NEW t \in DOMAIN tasks, LoseLease(t) PROVE SuccessIsPublished'
  BY <1>9, <1>0, <1>1, Losing DEF Becomes, executionVars, historyVars, boundVars,
     SuccessIsPublished, DeliverySound, ExecutionSound, Orderly
<1>10. CASE UserRemovesTarget
  BY <1>10, <1>0, <1>1 DEF UserRemovesTarget, apiVars, historyVars, SuccessIsPublished,
     Orderly
<1>11. CASE UserPlacesFile
  BY <1>11, <1>0, <1>1 DEF UserPlacesFile, apiVars, historyVars, SuccessIsPublished,
     Orderly
<1>12. QED
  BY <1>2, <1>3, <1>4, <1>5, <1>6, <1>7, <1>8, <1>9, <1>10, <1>11 DEF Next, Queueing,
     Running, Execute, User, Claim

\* What an execution has linked it reports, whatever is asked for meanwhile.
LEMMA ReportPreserved ==
  ASSUME PathInvariant, Next
  PROVE  ReportSound'
<1>0. /\ TypeOK /\ ExecutionSound /\ WriterSound /\ ReportSound /\ LocksSound
  BY DEF PathInvariant
<1>1. /\ pc \in [Workers -> Phases]
      /\ job \in [Workers -> 0 .. MaxTasks]
      /\ fd \in [Workers -> Inodes \cup {NoInode}] /\ NoInode \notin Inodes
      /\ mode \in {"process", "legacy"} /\ NoWorker \notin Workers
      /\ {faults, corruptions, userSteps} \subseteq Nat
      /\ outcome \in [Workers -> Outcomes]
      /\ Len(tasks) \in Nat /\ Len(tasks) <= MaxTasks /\ DOMAIN tasks = 1 .. Len(tasks)
      /\ \A t \in DOMAIN tasks :
           /\ tasks[t].file \in Files /\ tasks[t].status \in Statuses
           /\ tasks[t].predecessor \in 0 .. MaxTasks /\ tasks[t].owner \in Workers \cup {NoWorker}
  BY <1>0, StateTypes, TaskTable
<1>2. CASE UserRemovesTarget \/ UserPlacesFile
  <2>1. UNCHANGED <<tasks, linked, broken, pc, job, outcome, faults>>
    BY <1>2 DEF UserRemovesTarget, UserPlacesFile, apiVars, executionVars, historyVars
  <2>2. QED
    BY <1>0, <2>1 DEF ReportSound
<1>3. ASSUME NEW w \in Workers, Running(w) PROVE ReportSound'
  <2>1. Moves(w) /\ job[w] \in DOMAIN tasks
    BY <1>3, <1>0, RunningMoves DEF Moves, ExecutionSound
  <2>2. /\ UNCHANGED <<tasks, job, faults>>
        /\ \A v \in Workers \ {w} : pc'[v] = pc[v] /\ outcome'[v] = outcome[v]
        /\ pc[w] # "finish" /\ broken \subseteq broken'
        /\ pc[w] = "close" => /\ pc'[w] = "finish"
                              /\ \/ outcome'[w] = outcome[w]
                                 \/ job[w] \in linked => job[w] \in broken'
        /\ pc[w] = "unlink" => /\ pc'[w] = "close"
                               /\ \/ outcome'[w] = "success"
                                  \/ job[w] \in linked => job[w] \in broken'
        /\ linked' = linked \/ (pc'[w] = "unlink" /\ linked' = linked \cup {job[w]})
    BY <2>1 DEF Moves
  <2>3. SUFFICES ASSUME faults = 0, NEW u \in linked'
                 PROVE  /\ u \in DOMAIN tasks
                        /\ tasks[u].status # "success" /\ u \notin broken' =>
                             \E v \in Workers : job[v] = u
                               /\ \/ pc'[v] = "unlink"
                                  \/ pc'[v] \in {"close", "finish"} /\ outcome'[v] = "success"
    BY <2>2 DEF ReportSound
  <2>4. CASE u \notin linked
    BY <2>1, <2>2, <2>3, <2>4
  <2>5. CASE u \in linked /\ (tasks[u].status = "success" \/ u \in broken')
    BY <1>0, <2>3, <2>5 DEF ReportSound
  <2>6. CASE u \in linked /\ tasks[u].status # "success" /\ u \notin broken'
    <3>1. PICK v \in Workers : job[v] = u
                               /\ \/ pc[v] = "unlink"
                                  \/ pc[v] \in {"close", "finish"} /\ outcome[v] = "success"
      BY <1>0, <2>2, <2>3, <2>6 DEF ReportSound
    <3>2. QED
      BY <1>0, <2>2, <2>3, <2>6, <3>1 DEF ReportSound
  <2>7. QED
    BY <2>4, <2>5, <2>6
<1>4. ASSUME NEW c \in Clients, NEW f \in Files, ReadDestination(c, f) PROVE ReportSound'
  BY <1>4, <1>0 DEF ReadDestination, executionVars, historyVars, boundVars, ReportSound
<1>5. ASSUME NEW c \in Clients, NEW t \in DOMAIN tasks, ReadForRetry(c, t)
      PROVE  ReportSound'
  BY <1>5, <1>0 DEF ReadForRetry, executionVars, historyVars, boundVars, ReportSound
<1>6. ASSUME NEW c \in Clients, CreateDownload(c) PROVE ReportSound'
  BY <1>6, <1>0 DEF CreateDownload, executionVars, historyVars, boundVars, ReportSound
<1>7. ASSUME NEW t \in DOMAIN tasks, ResumeDownload(t) \/ CancelDownload(t)
      PROVE  ReportSound'
  <2>1. /\ UNCHANGED <<linked, broken, pc, job, outcome, faults>>
        /\ DOMAIN tasks' = DOMAIN tasks
        /\ \A u \in DOMAIN tasks \ {t} : tasks'[u].status = tasks[u].status
        /\ tasks[t].status # "success"
    BY <1>7, <1>0, <1>1, Resuming DEF Becomes, executionVars, historyVars, boundVars,
       ActiveStatuses
  <2>2. QED
    BY <1>0, <2>1 DEF ReportSound
<1>8. ASSUME NEW w \in Workers, NEW t \in DOMAIN tasks, ClaimTask(w, t) \/ ClaimLegacy(w, t)
      PROVE  ReportSound'
  <2>1. /\ UNCHANGED <<linked, broken, faults>> /\ pc[w] = "idle" /\ Claimed(w, t)
        /\ tasks[t].status \in {"pending", "retry", "cancel_requested"}
        /\ DOMAIN tasks' = DOMAIN tasks
        /\ \A u \in DOMAIN tasks \ {t} : tasks'[u].status = tasks[u].status
    BY <1>8, <1>0, Claiming DEF Becomes, historyVars, boundVars
  <2>2. \A v \in Workers \ {w} : pc'[v] = pc[v] /\ job'[v] = job[v] /\ outcome'[v] = outcome[v]
    BY <1>1, <2>1 DEF Claimed
  <2>3. SUFFICES ASSUME faults = 0, NEW u \in linked
                 PROVE  /\ u \in DOMAIN tasks'
                        /\ tasks'[u].status # "success" /\ u \notin broken =>
                             \E v \in Workers : job'[v] = u
                               /\ \/ pc'[v] = "unlink"
                                  \/ pc'[v] \in {"close", "finish"} /\ outcome'[v] = "success"
    BY <2>1 DEF ReportSound
  <2>4. CASE tasks[u].status = "success" \/ u \in broken
    BY <1>0, <2>1, <2>3, <2>4 DEF ReportSound
  <2>5. CASE tasks[u].status # "success" /\ u \notin broken
    <3>1. PICK v \in Workers : job[v] = u
                               /\ \/ pc[v] = "unlink"
                                  \/ pc[v] \in {"close", "finish"} /\ outcome[v] = "success"
      BY <1>0, <2>3, <2>5 DEF ReportSound
    <3>2. v # w
      BY <2>1, <3>1
    <3>3. QED
      BY <1>0, <2>1, <2>2, <2>3, <3>1, <3>2 DEF ReportSound
  <2>6. QED
    BY <2>4, <2>5
<1>9. ASSUME NEW w \in Workers, FinishTask(w) \/ Crash(w) PROVE ReportSound'
  <2>1. CASE faults' # 0
    BY <2>1 DEF ReportSound
  <2>2. CASE faults' = 0
    <3>1. /\ FinishTask(w) /\ faults = 0 /\ pc[w] = "finish"
          /\ UNCHANGED <<linked, broken>>
      <4>1. FinishTask(w) /\ faults = 0 /\ UNCHANGED historyVars
        BY <1>9, <1>0, <1>1, <2>2, Ending
      <4>2. QED
        BY <4>1 DEF FinishTask, historyVars
    <3>2. /\ job[w] \in DOMAIN tasks /\ (mode = "process" => tasks[job[w]].owner = w)
          /\ tasks[job[w]].status # "success" /\ \A v \in Workers \ {w} : pc[v] = "idle"
      BY <1>0, <3>1 DEF ExecutionSound
    <3>3. PICK s \in Statuses : /\ s = FinalStatus(tasks[job[w]].status, outcome[w])
                               /\ Becomes(job[w], s, NoWorker)
      <4>1. MayFinish(w)
        BY <1>1, <3>2 DEF MayFinish
      <4>2. QED
        BY <1>0, <3>1, <4>1, FinishEnds
    <3>4. /\ DOMAIN tasks' = DOMAIN tasks /\ tasks'[job[w]].status = s
          /\ \A u \in DOMAIN tasks \ {job[w]} : tasks'[u].status = tasks[u].status
      BY <3>3 DEF Becomes
    <3>5. outcome[w] = "success" => s = "success"
      BY <3>3 DEF FinalStatus
    <3>6. SUFFICES ASSUME NEW u \in linked
                   PROVE  u \in DOMAIN tasks' /\ (tasks'[u].status = "success" \/ u \in broken)
      BY <3>1 DEF ReportSound
    <3>7. u \in DOMAIN tasks
      BY <1>0, <3>1 DEF ReportSound
    <3>8. tasks[u].status # "success" /\ u \notin broken => u = job[w] /\ outcome[w] = "success"
      BY <1>0, <3>1, <3>2 DEF ReportSound
    <3>9. QED
      BY <3>2, <3>4, <3>5, <3>7, <3>8
  <2>3. QED
    BY <2>1, <2>2
<1>10. ASSUME NEW t \in DOMAIN tasks, LoseLease(t) PROVE ReportSound'
  <2>1. /\ UNCHANGED <<linked, broken, pc, job, outcome>>
        /\ faults' = faults \/ faults' = faults + 1
        /\ DOMAIN tasks' = DOMAIN tasks
        /\ \A u \in DOMAIN tasks \ {t} : tasks'[u].status = tasks[u].status
        /\ tasks[t].status = "success" => tasks'[t].status = "success"
    BY <1>10, <1>0, <1>1, Losing DEF Becomes, executionVars, historyVars
  <2>2. QED
    BY <1>0, <1>1, <2>1 DEF ReportSound
<1>11. QED
  BY <1>2, <1>3, <1>4, <1>5, <1>6, <1>7, <1>8, <1>9, <1>10 DEF Next, Queueing, Running,
     Execute, User, Claim

\* Nothing but the user takes a publication away, and nobody writes another checkpoint
\* beside it.
LEMMA PublicationPreserved ==
  ASSUME PathInvariant, Next
  PROVE  PublicationSound'
<1>0. /\ TypeOK /\ ExecutionSound /\ LocksSound /\ WriterSound /\ MemorySound
      /\ PublicationSound
  BY DEF PathInvariant
<1>1. /\ pc \in [Workers -> Phases]
      /\ fd \in [Workers -> Inodes \cup {NoInode}] /\ NoInode \notin Inodes
      /\ memory \in [Workers -> Checkpoint]
      /\ {faults, corruptions, userSteps} \subseteq Nat
  BY <1>0, StateTypes
<1>2. CASE Queueing
  BY <1>2, <1>0, QueueingIsApart DEF Apart, PublicationSound, Writing, Locking
<1>3. CASE UserRemovesTarget \/ UserPlacesFile
  BY <1>1, <1>3 DEF UserRemovesTarget, UserPlacesFile, PublicationSound
<1>4. ASSUME NEW w \in Workers, Running(w), ~Link(w) PROVE PublicationSound'
  <2>1. /\ UNCHANGED <<target, linked>>
        /\ Moves(w)
    BY <1>4, <1>0, RunningMoves DEF Running, Refused, OpenPartial, TryLock, StopExecution,
       ExecutionFails, InspectTarget, InspectForeignProgress, InspectProgress,
       WriteCheckpoint, RangeHonoured, RangeIgnored, ReceiveBlock, SkipVerification,
       DigestBlock, CompareHash, Seal, ConfirmOwnership, Unlink, PublicationFails, Breaks,
       ClosePartial, CloseFails, directoryVars, historyVars
  <2>2. SUFFICES ASSUME userSteps = 0 PROVE PublicationSound'
    BY <2>1 DEF Moves, PublicationSound
  <2>3. CASE target = NoInode
    BY <1>0, <2>1, <2>2, <2>3 DEF PublicationSound
  <2>4. CASE target # NoInode
    <3>1. pc[w] \notin Filling
      BY <1>0, <2>2, <2>4 DEF WriterSound, Orderly
    <3>2. /\ memory' = memory
          /\ checkpoint' = checkpoint \/ (pc[w] = "close" /\ checkpoint' = memory[w])
          /\ pc'[w] \in Writing => pc[w] \in Writing
      BY <1>1, <1>4, <2>4, <3>1 DEF Running, Refused, OpenPartial, TryLock, StopExecution,
         ExecutionFails, InspectTarget, InspectForeignProgress, InspectProgress,
         WriteCheckpoint, RangeHonoured, RangeIgnored, ReceiveBlock, SkipVerification,
         DigestBlock, CompareHash, Seal, ConfirmOwnership, Unlink, PublicationFails, Breaks,
         ClosePartial, CloseFails, Ends, Goto, directoryVars, Filling, Writing, Locking
    <3>3. checkpoint' = checkpoint
      BY <1>0, <2>2, <2>4, <3>2 DEF PublicationSound, Writing, Locking
    <3>4. QED
      BY <1>0, <2>1, <2>2, <2>4, <3>2, <3>3 DEF PublicationSound, Moves
  <2>5. QED
    BY <2>3, <2>4
<1>5. ASSUME NEW w \in Workers, Link(w) PROVE PublicationSound'
  <2>1. Moves(w) /\ job[w] \in DOMAIN tasks
    BY <1>5, <1>0, RunningMoves DEF Running, Moves, ExecutionSound
  <2>2. SUFFICES ASSUME userSteps = 0 PROVE PublicationSound'
    BY <2>1 DEF Moves, PublicationSound
  <2>3. /\ pc[w] = "link" /\ UNCHANGED <<checkpoint, memory>>
        /\ target' = Published(w)
        /\ IF target # NoInode \/ partial = NoInode
           THEN linked' = linked /\ pc'[w] = "close"
           ELSE linked' = linked \cup {job[w]} /\ pc'[w] = "unlink"
    BY <1>1, <1>5 DEF Link, Ends, Goto, historyVars
  <2>4. /\ target = NoInode /\ linked = {} /\ fd[w] = partial
        /\ checkpoint = memory[w] /\ checkpoint.published = fd[w]
        /\ checkpoint.identity = File(w)
        /\ \A v \in Workers \ {w} : pc[v] \notin Writing
    BY <1>0, <2>2, <2>3 DEF WriterSound, MemorySound, PublicationSound, Orderly, Filling,
       Writing, Locking
  <2>5. target' = partial
    BY <2>3, <2>4 DEF Published
  <2>6. CASE partial = NoInode
    BY <2>3, <2>4, <2>5, <2>6 DEF PublicationSound
  <2>7. CASE partial # NoInode
    <3>1. \A v \in Workers : pc'[v] \in Writing => memory'[v] = checkpoint'
      BY <2>1, <2>3, <2>4 DEF Moves
    <3>2. linked' = {job[w]} /\ checkpoint'.identity = tasks'[job[w]].file
          /\ checkpoint'.published = target' /\ tasks' = tasks
      BY <2>1, <2>3, <2>4, <2>5, <2>7 DEF Moves, File
    <3>3. QED
      BY <2>1, <2>5, <2>7, <3>1, <3>2 DEF PublicationSound
  <2>8. QED
    BY <2>6, <2>7
<1>6. QED
  BY <1>2, <1>3, <1>4, <1>5 DEF Next, Queueing, Running, Execute

\* The tasks and the requests.
LEMMA DatabaseTyped ==
  ASSUME PathInvariant, Next
  PROVE  DatabaseType'
<1>0. /\ TypeOK /\ QueueSound /\ ExecutionSound
  BY DEF PathInvariant
<1>1. /\ request \in [Clients -> [file : Files \cup {NoFile}, predecessor : 0 .. MaxTasks]]
      /\ mode \in Modes
      /\ tasks \in Seq(Task)
      /\ MaxTasks \in Nat /\ MaxDisturbances \in Nat
      /\ Len(tasks) \in Nat /\ Len(tasks) <= MaxTasks /\ DOMAIN tasks = 1 .. Len(tasks)
      /\ \A t \in DOMAIN tasks :
           /\ tasks[t].file \in Files /\ tasks[t].status \in Statuses
           /\ tasks[t].predecessor \in 0 .. MaxTasks /\ tasks[t].owner \in Workers \cup {NoWorker}
  BY <1>0, StateTypes, TaskTable
<1>2. CASE (\E w \in Workers : Running(w)) \/ UserRemovesTarget \/ UserPlacesFile
  <2>1. UNCHANGED <<mode, tasks, request>>
    BY <1>2, <1>0, RunningMoves DEF Moves, UserRemovesTarget, UserPlacesFile, apiVars
  <2>2. QED
    BY <1>0, <2>1 DEF DatabaseType, TypeOK
<1>3. ASSUME NEW c \in Clients, NEW f \in Files, ReadDestination(c, f) PROVE DatabaseType'
  BY <1>3, <1>1 DEF ReadDestination, DatabaseType
<1>4. ASSUME NEW c \in Clients, NEW t \in DOMAIN tasks, ReadForRetry(c, t)
      PROVE  DatabaseType'
  BY <1>4, <1>1 DEF ReadForRetry, DatabaseType
<1>5. ASSUME NEW c \in Clients, CreateDownload(c) PROVE DatabaseType'
  <2>1. request' = [request EXCEPT ![c] = NoRequest] /\ mode' = mode
    BY <1>5 DEF CreateDownload
  <2>2. tasks' \in Seq(Task) /\ Len(tasks') <= MaxTasks
    <3>1. request[c].file \in Files /\ request[c].predecessor \in 0 .. MaxTasks
      BY <1>5, <1>0, <1>1 DEF CreateDownload, QueueSound
    <3>2. [file |-> request[c].file, status |-> "pending", predecessor |-> request[c].predecessor,
           owner |-> NoWorker] \in Task
      BY <3>1 DEF Task, ActiveStatuses
    <3>3. QED
      BY <1>5, <1>1, <3>2 DEF CreateDownload
  <2>3. QED
    BY <1>1, <2>1, <2>2 DEF DatabaseType, NoRequest
<1>6. ASSUME NEW t \in DOMAIN tasks, ResumeDownload(t) \/ CancelDownload(t)
      PROVE  DatabaseType'
  <2>1. tasks' \in Seq(Task) /\ Len(tasks') = Len(tasks) /\ UNCHANGED <<mode, request>>
    BY <1>6, <1>0, Resuming DEF Becomes
  <2>2. QED
    BY <1>1, <2>1 DEF DatabaseType
<1>7. ASSUME NEW w \in Workers, NEW t \in DOMAIN tasks, ClaimTask(w, t) \/ ClaimLegacy(w, t)
      PROVE  DatabaseType'
  <2>1. tasks' \in Seq(Task) /\ Len(tasks') = Len(tasks) /\ UNCHANGED <<mode, request>>
    BY <1>7, <1>0, Claiming DEF Becomes
  <2>2. QED
    BY <1>1, <2>1 DEF DatabaseType
<1>8. ASSUME NEW w \in Workers, FinishTask(w) \/ Crash(w) PROVE DatabaseType'
  <2>1. tasks' \in Seq(Task) /\ Len(tasks') = Len(tasks) /\ UNCHANGED <<mode, request>>
    BY <1>8, <1>0, <1>1, Ending DEF Becomes
  <2>2. QED
    BY <1>1, <2>1 DEF DatabaseType
<1>9. ASSUME NEW t \in DOMAIN tasks, LoseLease(t) PROVE DatabaseType'
  <2>1. tasks' \in Seq(Task) /\ Len(tasks') = Len(tasks) /\ UNCHANGED <<mode, request>>
    BY <1>9, <1>0, Losing DEF Becomes
  <2>2. QED
    BY <1>1, <2>1 DEF DatabaseType
<1>10. QED
  BY <1>2, <1>3, <1>4, <1>5, <1>6, <1>7, <1>8, <1>9 DEF Next, Queueing, Running,
     Execute, User, Claim

\* The executions.
LEMMA WorkerTyped ==
  ASSUME PathInvariant, Next
  PROVE  WorkerType'
<1>0. /\ TypeOK /\ ExecutionSound /\ LocksSound
  BY DEF PathInvariant
<1>1. /\ pc \in [Workers -> Phases]
      /\ job \in [Workers -> 0 .. MaxTasks]
      /\ fd \in [Workers -> Inodes \cup {NoInode}] /\ NoInode \notin Inodes
      /\ outcome \in [Workers -> Outcomes]
      /\ MaxTasks \in Nat /\ MaxDisturbances \in Nat
      /\ Len(tasks) \in Nat /\ Len(tasks) <= MaxTasks /\ DOMAIN tasks = 1 .. Len(tasks)
      /\ \A t \in DOMAIN tasks :
           /\ tasks[t].file \in Files /\ tasks[t].status \in Statuses
           /\ tasks[t].predecessor \in 0 .. MaxTasks /\ tasks[t].owner \in Workers \cup {NoWorker}
  BY <1>0, StateTypes, TaskTable
<1>2. CASE UserRemovesTarget \/ UserPlacesFile
  <2>1. UNCHANGED <<pc, job, fd, outcome>>
    BY <1>2 DEF UserRemovesTarget, UserPlacesFile, executionVars
  <2>2. QED
    BY <1>0, <2>1 DEF WorkerType, TypeOK
<1>3. ASSUME NEW w \in Workers, Running(w) PROVE WorkerType'
  BY <1>3, <1>0, <1>1, RunningMoves DEF Moves, WorkerType, Outcomes
<1>4. ASSUME NEW c \in Clients, NEW f \in Files, ReadDestination(c, f) PROVE WorkerType'
  BY <1>4, <1>1 DEF ReadDestination, executionVars, WorkerType, Outcomes
<1>5. ASSUME NEW c \in Clients, NEW t \in DOMAIN tasks, ReadForRetry(c, t) PROVE WorkerType'
  BY <1>5, <1>1 DEF ReadForRetry, executionVars, WorkerType, Outcomes
<1>6. ASSUME NEW c \in Clients, CreateDownload(c) PROVE WorkerType'
  BY <1>6, <1>1 DEF CreateDownload, executionVars, WorkerType, Outcomes
<1>7. ASSUME NEW t \in DOMAIN tasks, ResumeDownload(t) \/ CancelDownload(t)
      PROVE  WorkerType'
  BY <1>7, <1>0, <1>1, Resuming DEF executionVars, WorkerType, Outcomes
<1>8. ASSUME NEW w \in Workers, NEW t \in DOMAIN tasks, ClaimTask(w, t) \/ ClaimLegacy(w, t)
      PROVE  WorkerType'
  <2>1. Claimed(w, t)
    BY <1>8, <1>0, Claiming
  <2>2. t \in 0 .. MaxTasks /\ "open" \in Phases
    BY <1>1 DEF Phases
  <2>3. QED
    BY <1>1, <2>1, <2>2 DEF Claimed, WorkerType, Outcomes
<1>9. ASSUME NEW w \in Workers, FinishTask(w) \/ Crash(w) PROVE WorkerType'
  <2>1. Forget(w)
    BY <1>9, <1>0, Ending
  <2>2. "idle" \in Phases /\ 0 \in 0 .. MaxTasks /\ NoOutcome \in Outcomes
    BY <1>1 DEF Phases, Outcomes
  <2>3. QED
    BY <1>1, <2>1, <2>2 DEF Forget, WorkerType, Outcomes
<1>10. ASSUME NEW t \in DOMAIN tasks, LoseLease(t) PROVE WorkerType'
  BY <1>10, <1>0, <1>1, Losing DEF executionVars, WorkerType, Outcomes
<1>11. QED
  BY <1>2, <1>3, <1>4, <1>5, <1>6, <1>7, <1>8, <1>9, <1>10 DEF Next, Queueing, Running,
     Execute, User, Claim

\* What was published, and the bounds.
LEMMA HistoryTyped ==
  ASSUME PathInvariant, Next
  PROVE  HistoryType'
<1>0. /\ TypeOK /\ ExecutionSound
  BY DEF PathInvariant
<1>1. /\ MaxTasks \in Nat /\ MaxDisturbances \in Nat
      /\ {faults, corruptions, userSteps} \subseteq Nat
      /\ {faults, corruptions, userSteps} \subseteq 0 .. MaxDisturbances
      /\ linked \subseteq 1 .. MaxTasks /\ broken \subseteq 1 .. MaxTasks
      /\ delivered \subseteq Files
      /\ pc \in [Workers -> Phases]
      /\ job \in [Workers -> 0 .. MaxTasks]
      /\ Len(tasks) \in Nat /\ Len(tasks) <= MaxTasks /\ DOMAIN tasks = 1 .. Len(tasks)
      /\ \A t \in DOMAIN tasks :
           /\ tasks[t].file \in Files /\ tasks[t].status \in Statuses
           /\ tasks[t].predecessor \in 0 .. MaxTasks /\ tasks[t].owner \in Workers \cup {NoWorker}
  BY <1>0, StateTypes, TaskTable
<1>2. ASSUME NEW w \in Workers, Running(w) PROVE HistoryType'
  <2>1. /\ UNCHANGED <<faults, userSteps>> /\ job[w] \in DOMAIN tasks
        /\ linked' = linked \/ linked' = linked \cup {job[w]}
        /\ broken' \subseteq broken \cup {job[w]}
    BY <1>2, <1>0, RunningMoves DEF Moves, ExecutionSound
  <2>2. /\ corruptions' \in 0 .. MaxDisturbances /\ delivered' \subseteq Files
    <3>1. CASE ReceiveBlock(w)
      BY <1>1, <3>1 DEF ReceiveBlock, MayDisturb, historyVars
    <3>2. CASE Link(w)
      BY <1>1, <3>2 DEF Link, historyVars, boundVars
    <3>3. CASE ~ReceiveBlock(w) /\ ~Link(w)
      BY <1>2, <1>1, <3>3 DEF Running, Refused, OpenPartial, TryLock, StopExecution,
         ExecutionFails, InspectTarget, InspectForeignProgress, InspectProgress,
         WriteCheckpoint, RangeHonoured, RangeIgnored, SkipVerification, DigestBlock,
         CompareHash, Seal, ConfirmOwnership, Unlink, PublicationFails, Breaks,
         ClosePartial, CloseFails, historyVars, boundVars
    <3>4. QED
      BY <3>1, <3>2, <3>3
  <2>3. job[w] \in 1 .. MaxTasks
    BY <1>1, <2>1
  <2>4. /\ linked' \subseteq 1 .. MaxTasks /\ broken' \subseteq 1 .. MaxTasks
        /\ {faults', corruptions', userSteps'} \subseteq 0 .. MaxDisturbances
    BY <1>1, <2>1, <2>2, <2>3
  <2>5. QED
    BY <2>2, <2>4 DEF HistoryType
<1>3. ASSUME NEW c \in Clients, NEW f \in Files, ReadDestination(c, f) PROVE HistoryType'
  BY <1>3, <1>1 DEF ReadDestination, historyVars, boundVars, HistoryType
<1>4. ASSUME NEW c \in Clients, NEW t \in DOMAIN tasks, ReadForRetry(c, t)
      PROVE  HistoryType'
  BY <1>4, <1>1 DEF ReadForRetry, historyVars, boundVars, HistoryType
<1>5. ASSUME NEW c \in Clients, CreateDownload(c) PROVE HistoryType'
  BY <1>5, <1>1 DEF CreateDownload, historyVars, boundVars, HistoryType
<1>6. ASSUME NEW t \in DOMAIN tasks, ResumeDownload(t) \/ CancelDownload(t)
      PROVE  HistoryType'
  <2>1. UNCHANGED <<linked, delivered, broken, faults, corruptions, userSteps>>
    BY <1>6, <1>0, Resuming DEF historyVars, boundVars
  <2>2. QED
    BY <1>1, <2>1 DEF HistoryType
<1>7. ASSUME NEW w \in Workers, NEW t \in DOMAIN tasks, ClaimTask(w, t) \/ ClaimLegacy(w, t)
      PROVE  HistoryType'
  <2>1. UNCHANGED <<linked, delivered, broken, faults, corruptions, userSteps>>
    BY <1>7, <1>0, Claiming DEF historyVars, boundVars
  <2>2. QED
    BY <1>1, <2>1 DEF HistoryType
<1>8. ASSUME NEW w \in Workers, FinishTask(w) \/ Crash(w) PROVE HistoryType'
  <2>1. /\ UNCHANGED <<linked, delivered, broken, corruptions, userSteps>>
        /\ faults' = faults \/ (MayDisturb /\ faults' = faults + 1)
    BY <1>8, <1>0, Ending DEF historyVars
  <2>2. QED
    BY <1>1, <2>1 DEF HistoryType, MayDisturb
<1>9. ASSUME NEW t \in DOMAIN tasks, LoseLease(t) PROVE HistoryType'
  <2>1. /\ UNCHANGED <<linked, delivered, broken, corruptions, userSteps>>
        /\ faults' = faults \/ (MayDisturb /\ faults' = faults + 1)
    BY <1>9, <1>0, Losing DEF historyVars
  <2>2. QED
    BY <1>1, <2>1 DEF HistoryType, MayDisturb
<1>10. CASE UserRemovesTarget
  BY <1>10, <1>1 DEF UserRemovesTarget, historyVars, HistoryType, MayDisturb
<1>11. CASE UserPlacesFile
  BY <1>11, <1>1 DEF UserPlacesFile, historyVars, HistoryType, MayDisturb
<1>12. QED
  BY <1>2, <1>3, <1>4, <1>5, <1>6, <1>7, <1>8, <1>9, <1>10, <1>11 DEF Next, Queueing,
     Running, Execute, User, Claim

-------------------------------------------------------------------------------
(***************************************************************************)
(* Theorems.                                                               *)
(***************************************************************************)

\* The queue, the directory and the executions are empty.
LEMMA InitialPath == Init => PathInvariant
<1> SUFFICES ASSUME Init PROVE PathInvariant
  OBVIOUS
<1> USE DEF Init, NoInode
<1>0. /\ MaxTasks \in Nat /\ MaxDisturbances \in Nat /\ Size \in Nat \ {0}
      /\ tasks = << >> /\ DOMAIN tasks = {} /\ Len(tasks) = 0
      /\ << >> \in Seq(Task) /\ << >> \in Seq(Block) /\ Len(<< >>) = 0
  BY DownloadAssumption
<1>1. DatabaseType
  BY <1>0 DEF DatabaseType, NoRequest
<1>2. NoCheckpoint \in Checkpoint
  BY <1>0 DEF NoCheckpoint, Checkpoint
<1>3. DirectoryType
  BY <1>0, <1>2 DEF DirectoryType
<1>4. WorkerType
  BY <1>0 DEF WorkerType, Phases
<1>5. MemoryType
  BY <1>0, <1>2 DEF MemoryType, NoAnswer
<1>6. HistoryType
  BY <1>0 DEF HistoryType
<1>7. TypeOK
  BY <1>1, <1>3, <1>4, <1>5, <1>6 DEF TypeOK, DatabaseType, DirectoryType, WorkerType,
     MemoryType, HistoryType
<1>8. QueueSound /\ ExecutionSound /\ OwnersExecute /\ SuccessIsPublished /\ ReportSound
  BY <1>0 DEF QueueSound, ExecutionSound, OwnersExecute, SuccessIsPublished, ReportSound
<1>9. LocksSound /\ WriterSound /\ MemorySound /\ BlocksSound /\ DeliverySound
  BY <1>0 DEF LocksSound, WriterSound, MemorySound, BlocksSound, DeliverySound, Locking,
     Writing, Filling
<1>10. DigestsSound
  BY <1>0 DEF DigestsSound, Vouches, NoCheckpoint, Locking, Writing
<1>11. ProgressBelongs /\ EvidenceSound /\ PublishedIsComplete /\ PublicationSound
  BY DEF ProgressBelongs, EvidenceSound, PublishedIsComplete, PublishedIsVerified,
     PublicationSound
<1>12. QED
  BY <1>7, <1>8, <1>9, <1>10, <1>11 DEF PathInvariant

\* Every part of the invariant is of the state alone.
LEMMA StutterPath ==
  ASSUME PathInvariant, UNCHANGED vars
  PROVE  PathInvariant'
<1> USE DEF vars, apiVars, directoryVars, executionVars, historyVars, boundVars
<1>1. TypeOK'
  BY DEF PathInvariant, TypeOK
<1>2. QueueSound' /\ ExecutionSound' /\ OwnersExecute'
  BY DEF PathInvariant, QueueSound, ExecutionSound, OwnersExecute
<1>3. LocksSound' /\ WriterSound' /\ BlocksSound'
  BY DEF PathInvariant, LocksSound, WriterSound, BlocksSound, Orderly
<1>4. MemorySound' /\ DeliverySound'
  BY DEF PathInvariant, MemorySound, DeliverySound, Orderly, File
<1>5. DigestsSound' /\ ProgressBelongs' /\ EvidenceSound'
  BY DEF PathInvariant, DigestsSound, Vouches, ProgressBelongs, EvidenceSound, Orderly
<1>6. PublishedIsComplete' /\ SuccessIsPublished' /\ ReportSound' /\ PublicationSound'
  BY DEF PathInvariant, PublishedIsComplete, PublishedIsVerified, SuccessIsPublished,
     ReportSound, PublicationSound, Orderly
<1>7. QED
  BY <1>1, <1>2, <1>3, <1>4, <1>5, <1>6 DEF PathInvariant

\* The queue, the executions and the directory stay in step, whatever requests and
\* executions cross, processes die, leases are lost and the user does to the target.
THEOREM PathInvariantHolds == Spec => []PathInvariant
<1>1. PathInvariant /\ Next => PathInvariant'
  <2> SUFFICES ASSUME PathInvariant, Next PROVE PathInvariant'
    OBVIOUS
  <2>1. TypeOK'
    BY DatabaseTyped, DirectoryTyped, WorkerTyped, MemoryTyped, HistoryTyped
    DEF TypeOK, DatabaseType, DirectoryType, WorkerType, MemoryType, HistoryType
  <2>2. QED
    BY <2>1, QueuePreserved, ExecutionPreserved, OwnersPreserved, LocksPreserved,
       WriterPreserved, MemoryPreserved, BlocksPreserved, DigestsPreserved,
       ProgressPreserved, EvidencePreserved, DeliveryPreserved, PublishedPreserved,
       SuccessPreserved, ReportPreserved, PublicationPreserved DEF PathInvariant
<1>2. QED
  BY <1>1, InitialPath, StutterPath, PTL DEF Spec

\* DownloadInvariant: one task at most is active for a path.  Unless the user moves
\* files about and an execution is disturbed besides, the partial is of the file that
\* its checkpoint names; if one block at most was corrupted, what was published is the
\* whole of a file, and a download that succeeded has published its own.
THEOREM DownloadsAreSound == Spec => []DownloadInvariant
<1>1. PathInvariant => OneActivePerPath
  <2> SUFFICES ASSUME PathInvariant PROVE OneActivePerPath
    OBVIOUS
  <2>1. Active \subseteq {Len(tasks)}
    BY TaskTable DEF PathInvariant, QueueSound, Active, ActiveStatuses, TerminalStatuses
  <2>2. IsFiniteSet({Len(tasks)}) /\ Cardinality({Len(tasks)}) = 1
    BY FS_Singleton
  <2>3. Cardinality(Active) <= Cardinality({Len(tasks)})
    BY <2>1, <2>2, FS_Subset
  <2>4. QED
    BY <2>2, <2>3 DEF OneActivePerPath
<1>2. PathInvariant => DownloadInvariant
  BY <1>1 DEF PathInvariant, DownloadInvariant
<1>3. QED
  BY <1>2, PathInvariantHolds, PTL

\* PublicationIsReported: as long as no process dies, no lease is lost and the
\* execution does not fail after its link, a task whose execution has published is
\* still under way or has succeeded, whatever cancellation came in between; and
\* whatever died or failed, the evidence of the publication stays beside the file.
THEOREM PublicationsAreReported == Spec => []PublicationIsReported
<1>1. ASSUME PathInvariant, faults = 0, NEW t \in linked,
             tasks[t].status # "success", t \notin broken
      PROVE  tasks[t].status \in {"running", "cancel_requested"}
  <2>1. PICK w \in Workers : job[w] = t /\ pc[w] # "idle"
    BY <1>1 DEF PathInvariant, ReportSound
  <2>2. QED
    BY <1>1, <2>1 DEF PathInvariant, ExecutionSound
<1>2. ASSUME PathInvariant, userSteps = 0, NEW t \in linked
      PROVE  checkpoint.identity = tasks[t].file /\ checkpoint.published = target
  BY <1>2 DEF PathInvariant, PublicationSound
<1>3. PathInvariant => PublicationIsReported
  BY <1>1, <1>2 DEF PublicationIsReported
<1>4. QED
  BY <1>3, PathInvariantHolds, PTL

\* TargetUntouched: no step of MediaSync's writes to what is under the target's name
\* or puts something else there, once it is there: nor to a file of the user's.
THEOREM TargetStays == Spec => TargetUntouched
<1>1. ASSUME PathInvariant, Next, Orderly, target # NoInode, userSteps' = userSteps
      PROVE  target' = target /\ data'[target] = data[target]
  <2>0. /\ TypeOK /\ ExecutionSound /\ LocksSound /\ WriterSound
        /\ data \in [Inodes -> Seq(Block)] /\ target \in Inodes
        /\ userSteps \in Nat
    BY <1>1, StateTypes DEF PathInvariant
  <2>1. CASE Queueing
    BY <2>0, <2>1, QueueingIsApart DEF Apart
  <2>2. ASSUME NEW w \in Workers, OpenPartial(w) PROVE target' = target
          /\ data'[target] = data[target]
    BY <2>0, <2>2, SomeInodeIsUnused DEF OpenPartial
  <2>3. ASSUME NEW w \in Workers, InspectProgress(w) PROVE FALSE
    BY <1>1, <2>3 DEF InspectProgress
  <2>4. ASSUME NEW w \in Workers, RangeIgnored(w) \/ ReceiveBlock(w) \/ CompareHash(w)
        PROVE  target' = target /\ data'[target] = data[target]
    <3>1. fd[w] # target
      BY <1>1, <2>0, <2>4 DEF WriterSound, Filling, Writing, Locking, RangeIgnored,
         ReceiveBlock,
         CompareHash
    <3>2. /\ target' = target
          /\ \/ data' = data
             \/ data' = [data EXCEPT ![fd[w]] = << >>]
             \/ \E b \in Block \cup {<<File(w), answer[w].next>>} :
                  data' = [data EXCEPT ![fd[w]] = Append(@, b)]
      BY <2>4 DEF RangeIgnored, ReceiveBlock, CompareHash, Restart, Block
    <3>3. QED
      BY <2>0, <3>1, <3>2
  <2>5. ASSUME NEW w \in Workers, Link(w) PROVE target' = target /\ data'[target] = data[target]
    BY <1>1, <2>5 DEF Link, Published
  <2>6. ASSUME NEW w \in Workers, Running(w),
               ~ (OpenPartial(w) \/ InspectProgress(w) \/ RangeIgnored(w) \/ ReceiveBlock(w)
                  \/ CompareHash(w) \/ Link(w))
        PROVE  UNCHANGED <<target, data>>
    BY <2>6 DEF Running, Refused, TryLock, StopExecution, ExecutionFails, InspectTarget,
       InspectForeignProgress, WriteCheckpoint, RangeHonoured, SkipVerification,
       DigestBlock, Seal, ConfirmOwnership, Unlink, PublicationFails, Breaks,
       ClosePartial, CloseFails, Ends, directoryVars
  <2>7. ~UserRemovesTarget /\ ~UserPlacesFile
    BY <1>1, <2>0 DEF UserRemovesTarget, UserPlacesFile
  <2>8. QED
    BY <1>1, <2>1, <2>2, <2>3, <2>4, <2>5, <2>6, <2>7 DEF Next, Queueing, Running, Execute
<1>2. ASSUME PathInvariant, [Next]_vars
      PROVE  [Orderly /\ target # NoInode /\ userSteps' = userSteps =>
                target' = target /\ data'[target] = data[target]]_vars
  BY <1>1, <1>2
<1>3. QED
  BY <1>2, PathInvariantHolds, PTL DEF Spec, TargetUntouched
=============================================================================
