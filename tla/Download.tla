------------------------------- MODULE Download -------------------------------
(***************************************************************************)
(* Downloads to one path of the local disk: the requests that reserve it   *)
(* (api/v1/downloads.py), the tasks queued for it, and their execution by  *)
(* services/download_service.py and download_stream.py, which writes a     *)
(* partial file under a file lock, remembers its progress in a checkpoint  *)
(* beside it, verifies it and publishes it with a hard link.               *)
(*                                                                         *)
(* Several files of the drive may be wanted at that path.  The queue is    *)
(* reduced to what TaskEngine shows of it: a task is owned by one Worker,  *)
(* which may lose its lease and go on.  In mode "legacy" the API process   *)
(* executes the tasks itself, without leases.  Requests, executions,       *)
(* crashes and the user's own use of the directory interleave freely.      *)
(***************************************************************************)
EXTENDS Naturals, Sequences, FiniteSets

CONSTANTS
  Files,            \* files of the drive wanted at the path
  Hashed,           \* those whose content hash the drive reports
  Workers,          \* executing processes
  Clients,          \* threads of the API
  Modes,            \* background_execution_mode: some of "process", "legacy"
  Size,             \* the size of every file, in blocks
  ChunkBlocks,      \* download_chunk_bytes, in blocks
  RangeIgnorable,   \* whether the drive may answer a range request with 200
  MaxTasks,         \* bound: rows of the tasks table
  MaxDisturbances,  \* bound: crashes, lost leases, corrupted blocks, steps of the user
  Bad,              \* a corrupted block
  Foreign,          \* the content of a file of the user's own
  NoFile, NoWorker

ASSUME DownloadAssumption ==
  /\ Workers \cup Clients \subseteq Nat
  /\ IsFiniteSet(Workers)
  /\ Hashed \subseteq Files
  /\ Modes \subseteq {"process", "legacy"}
  /\ Size \in Nat \ {0}
  /\ ChunkBlocks \in Nat \ {0}
  /\ RangeIgnorable \in BOOLEAN
  /\ {MaxTasks, MaxDisturbances} \subseteq Nat
  /\ {Bad, Foreign, NoFile} \cap Files = {}
  /\ Bad # Foreign
  /\ {Bad, Foreign} \cap (Files \X (1 .. Size)) = {}
  /\ NoWorker \notin Workers

ActiveStatuses == {"pending", "running", "retry", "cancel_requested", "waiting_credential"}
TerminalStatuses == {"success", "failed", "cancelled"}
Block == (Files \X (1 .. Size)) \cup {Bad, Foreign}

\* Inode numbers: one for each name and each open file is enough.
Inodes == 1 .. Cardinality(Workers) + 3
NoInode == 0

Task == [file : Files, status : ActiveStatuses \cup TerminalStatuses,
         predecessor : 0 .. MaxTasks, owner : Workers \cup {NoWorker}]

\* What download_stream keeps in .<name>.mediasync.json.
Checkpoint == [identity : Files \cup {NoFile}, digests : Seq(Block),
               published : Inodes \cup {NoInode}]
NoCheckpoint == [identity |-> NoFile, digests |-> << >>, published |-> NoInode]

NoAnswer == [next |-> 1, end |-> 0]
NoRequest == [file |-> NoFile, predecessor |-> 0]
NoOutcome == "none"

VARIABLES
  mode,
  (* The database and the requests being served *)
  tasks,        \* the download tasks of the path, by id
  request,      \* of each client: what it will create, from what it has read
  (* The directory *)
  data,         \* the blocks of each inode
  partial,      \* the inode of .<name>.mediasync.part
  target,       \* the inode of <name>
  checkpoint,   \* .<name>.mediasync.json
  (* The executions *)
  pc, job, fd,
  memory,       \* the dictionary `state`
  answer,       \* the blocks the drive is sending
  outcome,
  (* History and bounds *)
  linked,       \* tasks whose execution has published
  delivered,    \* files that have been published completely
  broken,       \* tasks whose execution failed after it had published
  faults, corruptions, userSteps

apiVars == <<tasks, request>>
directoryVars == <<data, partial, target, checkpoint>>
executionVars == <<pc, job, fd, memory, answer, outcome>>
historyVars == <<linked, delivered, broken>>
boundVars == <<faults, corruptions, userSteps>>
vars == <<mode, apiVars, directoryVars, executionVars, historyVars, boundVars>>

\* Faults, corrupted blocks and the user's own steps share one bound.
MayDisturb == faults + corruptions + userSteps < MaxDisturbances

\* From the lock to the closing of the partial file.
Locking == {"inspect", "prepare", "request", "receive", "verify", "seal",
            "confirm", "link", "unlink", "close"}
Phases == {"idle", "open", "lock", "finish"} \cup Locking

TypeOK ==
  /\ mode \in Modes
  /\ tasks \in Seq(Task) /\ Len(tasks) <= MaxTasks
  /\ request \in [Clients -> [file : Files \cup {NoFile}, predecessor : 0 .. MaxTasks]]
  /\ data \in [Inodes -> Seq(Block)]
  /\ {partial, target} \subseteq Inodes \cup {NoInode}
  /\ checkpoint \in Checkpoint
  /\ pc \in [Workers -> Phases]
  /\ job \in [Workers -> 0 .. MaxTasks]
  /\ fd \in [Workers -> Inodes \cup {NoInode}]
  /\ memory \in [Workers -> Checkpoint]
  /\ answer \in [Workers -> [next : 1 .. Size + 1, end : 0 .. Size]]
  /\ outcome \in [Workers -> {NoOutcome, "success", "failed", "deferred",
                              "waiting_credential", "cancelled"}]
  /\ linked \subseteq 1 .. MaxTasks
  /\ delivered \subseteq Files
  /\ broken \subseteq 1 .. MaxTasks
  /\ {faults, corruptions, userSteps} \subseteq 0 .. MaxDisturbances

Init ==
  /\ mode \in Modes
  /\ tasks = << >>
  /\ request = [c \in Clients |-> NoRequest]
  /\ data = [i \in Inodes |-> << >>]
  /\ partial = NoInode
  /\ target = NoInode
  /\ checkpoint = NoCheckpoint
  /\ pc = [w \in Workers |-> "idle"]
  /\ job = [w \in Workers |-> 0]
  /\ fd = [w \in Workers |-> NoInode]
  /\ memory = [w \in Workers |-> NoCheckpoint]
  /\ answer = [w \in Workers |-> NoAnswer]
  /\ outcome = [w \in Workers |-> NoOutcome]
  /\ linked = {}
  /\ delivered = {}
  /\ broken = {}
  /\ faults = 0
  /\ corruptions = 0
  /\ userSteps = 0

-------------------------------------------------------------------------------
(***************************************************************************)
(* The API: who may reserve the path.                                      *)
(***************************************************************************)

\* _destination_tasks: the active tasks of the path; the latest is the last.
Active == {t \in DOMAIN tasks : tasks[t].status \in ActiveStatuses}

\* Which of several threads or processes does something does not matter.
FirstIdle(i, all, idle) == idle[i] /\ \A j \in all : j < i => ~idle[j]

SetStatus(t, s) == tasks' = [tasks EXCEPT ![t].status = s]

\* enqueue_downloads up to _create_download: an active task answers the
\* request (or refuses it); otherwise the new task will succeed the latest.
ReadDestination(c, f) ==
  /\ FirstIdle(c, Clients, [d \in Clients |-> request[d] = NoRequest])
  /\ Active = {}
  /\ request' = [request EXCEPT ![c] = [file |-> f, predecessor |-> Len(tasks)]]
  /\ UNCHANGED <<mode, tasks, directoryVars, executionVars, historyVars, boundVars>>

\* retry_download of a task that ended: its successor.
ReadForRetry(c, t) ==
  /\ FirstIdle(c, Clients, [d \in Clients |-> request[d] = NoRequest])
  /\ tasks[t].status \in {"failed", "cancelled"}
  /\ Active = {}
  /\ request' = [request EXCEPT ![c] = [file |-> tasks[t].file, predecessor |-> t]]
  /\ UNCHANGED <<mode, tasks, directoryVars, executionVars, historyVars, boundVars>>

\* Fault: the idempotency key names the file instead of the path alone.
KeyTakenByFile(r) ==
  \E t \in DOMAIN tasks : tasks[t].predecessor = r.predecessor /\ tasks[t].file = r.file

\* Task.idempotency_key: download:<path>:<predecessor>, unique.
KeyTaken(r) == \E t \in DOMAIN tasks : tasks[t].predecessor = r.predecessor

\* _create_download: whoever holds the key already answers the request.
CreateDownload(c) ==
  /\ request[c] # NoRequest
  /\ Len(tasks) < MaxTasks
  /\ request' = [request EXCEPT ![c] = NoRequest]
  /\ tasks' = IF KeyTaken(request[c]) THEN tasks
              ELSE Append(tasks, [file |-> request[c].file, status |-> "pending",
                                  predecessor |-> request[c].predecessor,
                                  owner |-> NoWorker])
  /\ UNCHANGED <<mode, directoryVars, executionVars, historyVars, boundVars>>

\* retry_download of a blocked task.
ResumeDownload(t) ==
  /\ tasks[t].status = "waiting_credential"
  /\ SetStatus(t, "pending")
  /\ UNCHANGED <<mode, request, directoryVars, executionVars, historyVars, boundVars>>

CancelDownload(t) ==
  /\ \/ /\ tasks[t].status = "running"
        /\ SetStatus(t, "cancel_requested")
     \/ /\ tasks[t].status \in {"pending", "retry", "waiting_credential"}
        /\ SetStatus(t, "cancelled")
  /\ UNCHANGED <<mode, request, directoryVars, executionVars, historyVars, boundVars>>

-------------------------------------------------------------------------------
(***************************************************************************)
(* The queue: claims, lost leases, the end of an execution.                *)
(***************************************************************************)
Executing(t) == \E w \in Workers : pc[w] # "idle" /\ job[w] = t

Claimed(w, t) ==
  /\ pc' = [pc EXCEPT ![w] = "open"]
  /\ job' = [job EXCEPT ![w] = t]
  /\ UNCHANGED <<fd, memory, answer, outcome>>

ClaimTask(w, t) ==
  /\ mode = "process"
  /\ FirstIdle(w, Workers, [v \in Workers |-> pc[v] = "idle"])
  /\ tasks[t].owner = NoWorker
  /\ tasks[t].status \in {"pending", "retry", "cancel_requested"}
  /\ tasks' = [tasks EXCEPT ![t].owner = w,
       ![t].status = IF @ = "cancel_requested" THEN @ ELSE "running"]
  /\ Claimed(w, t)
  /\ UNCHANGED <<mode, request, directoryVars, historyVars, boundVars>>

\* process_pending_downloads, a job of which one instance runs at a time.
ClaimLegacy(w, t) ==
  /\ mode = "legacy"
  /\ \A v \in Workers : pc[v] = "idle" /\ w <= v
  /\ tasks[t].status = "pending"
  /\ SetStatus(t, "running")
  /\ Claimed(w, t)
  /\ UNCHANGED <<mode, request, directoryVars, historyVars, boundVars>>

\* recover_expired_lease, of a Worker that died or (a fault) only stalled.  The
\* task is queued again, or has used up its budget.
LoseLease(t) ==
  /\ tasks[t].owner # NoWorker
  /\ IF Executing(t) THEN MayDisturb /\ faults' = faults + 1 ELSE UNCHANGED faults
  /\ \E s \in IF tasks[t].status = "running" THEN {"retry", "failed"} ELSE {tasks[t].status} :
       tasks' = [tasks EXCEPT ![t].owner = NoWorker, ![t].status = s]
  /\ UNCHANGED <<mode, request, directoryVars, executionVars, historyVars, corruptions,
                 userSteps>>

Forget(w) ==
  /\ pc' = [pc EXCEPT ![w] = "idle"]
  /\ job' = [job EXCEPT ![w] = 0]
  /\ fd' = [fd EXCEPT ![w] = NoInode]
  /\ memory' = [memory EXCEPT ![w] = NoCheckpoint]
  /\ answer' = [answer EXCEPT ![w] = NoAnswer]
  /\ outcome' = [outcome EXCEPT ![w] = NoOutcome]

\* The process dies; the lock goes with it.  start_scheduler queues again what
\* a legacy process was running.
Crash(w) ==
  /\ pc[w] # "idle"
  /\ MayDisturb
  /\ faults' = faults + 1
  /\ tasks' = IF mode = "legacy" /\ tasks[job[w]].status = "running"
              THEN [tasks EXCEPT ![job[w]].status = "pending"] ELSE tasks
  /\ Forget(w)
  /\ UNCHANGED <<mode, request, directoryVars, historyVars, corruptions, userSteps>>

\* Fault: a requested cancellation always has the last word.
FinalStatusCancelled(s, o) ==
  IF s = "cancel_requested" THEN "cancelled" ELSE IF o = "deferred" THEN "pending" ELSE o

\* What becomes of the task: _finish of the Worker, and its counterpart in
\* process_pending_downloads.
FinalStatus(s, o) ==
  LET settled == IF s = "cancel_requested"
                    /\ IF mode = "legacy" THEN o = "deferred" ELSE o # "success"
                 THEN "cancelled" ELSE o
  IN  IF settled = "deferred" THEN "pending" ELSE settled

MayFinish(w) ==
  \/ mode = "legacy"
  \/ tasks[job[w]].owner = w

FinishTask(w) ==
  /\ pc[w] = "finish"
  /\ tasks' = IF MayFinish(w)
              THEN [tasks EXCEPT ![job[w]].owner = NoWorker,
                                 ![job[w]].status = FinalStatus(@, outcome[w])]
              ELSE tasks
  /\ Forget(w)
  /\ UNCHANGED <<mode, request, directoryVars, historyVars, boundVars>>

-------------------------------------------------------------------------------
(***************************************************************************)
(* One execution: execute_download and stream_download.                    *)
(***************************************************************************)
File(w) == tasks[job[w]].file
Goto(w, p) == pc' = [pc EXCEPT ![w] = p]

\* The probe: cancellation, or the loss of the lease, ends the execution.
Stopped(w) ==
  \/ mode = "process" /\ tasks[job[w]].owner # w
  \/ tasks[job[w]].status = "cancel_requested"
StopOutcome(w) ==
  IF mode = "process" /\ tasks[job[w]].owner # w THEN "failed" ELSE "cancelled"

Ends(w, o, p) ==
  /\ outcome' = [outcome EXCEPT ![w] = o]
  /\ Goto(w, p)
  /\ UNCHANGED <<job, fd, memory, answer>>

\* The link to the file is fetched; the drive may refuse.
Refused(w) ==
  /\ pc[w] = "open"
  /\ \E o \in {"failed", "waiting_credential"} : Ends(w, o, "finish")
  /\ UNCHANGED <<mode, apiVars, directoryVars, historyVars, boundVars>>

Unused == CHOOSE i \in Inodes :
  i \notin {partial, target, checkpoint.published} \cup {fd[w] : w \in Workers}

\* os.open(partial, O_CREAT | O_RDWR)
OpenPartial(w) ==
  /\ pc[w] = "open"
  /\ IF partial = NoInode
     THEN /\ partial' = Unused
          /\ data' = [data EXCEPT ![Unused] = << >>]
     ELSE UNCHANGED <<partial, data>>
  /\ fd' = [fd EXCEPT ![w] = partial']
  /\ Goto(w, "lock")
  /\ UNCHANGED <<mode, apiVars, target, checkpoint, job, memory, answer, outcome,
                 historyVars, boundVars>>

LockHeld(i) == \E v \in Workers : pc[v] \in Locking /\ fd[v] = i

\* flock(LOCK_EX | LOCK_NB) of what was opened.
TryLock(w) ==
  /\ pc[w] = "lock"
  /\ IF LockHeld(fd[w])
     THEN Ends(w, "failed", "finish")
     ELSE Goto(w, "inspect") /\ UNCHANGED <<job, fd, memory, answer, outcome>>
  /\ UNCHANGED <<mode, apiVars, directoryVars, historyVars, boundVars>>

\* A probe stops the execution, before or after the checkpoint is open.
StopExecution(w) ==
  /\ pc[w] \in {"inspect", "receive", "verify", "seal", "confirm"}
  /\ Stopped(w)
  /\ Ends(w, StopOutcome(w), IF pc[w] = "inspect" THEN "finish" ELSE "close")
  /\ UNCHANGED <<mode, apiVars, directoryVars, historyVars, boundVars>>

\* A refused or broken transfer, a full disk, a changed mount: before the publication.
ExecutionFails(w) ==
  /\ pc[w] \in {"inspect", "prepare", "request", "receive", "verify", "seal", "confirm"}
  /\ Ends(w, "failed", IF pc[w] \in {"inspect", "prepare"} THEN "finish" ELSE "close")
  /\ UNCHANGED <<mode, apiVars, directoryVars, historyVars, boundVars>>

\* The evidence of an earlier publication of the same file.
IsOwnPublication(w) ==
  /\ checkpoint.identity = File(w)
  /\ checkpoint.published = target

\* An existing target ends the execution, one way or the other; also if it is its
\* own, the open file may still fail to be closed.
InspectTarget(w) ==
  /\ pc[w] = "inspect" /\ ~Stopped(w)
  /\ target # NoInode
  /\ IF IsOwnPublication(w) /\ partial # NoInode
     THEN partial' = NoInode /\ \E o \in {"success", "failed"} : Ends(w, o, "finish")
     ELSE UNCHANGED partial /\ Ends(w, "failed", "finish")
  /\ UNCHANGED <<mode, apiVars, data, target, checkpoint, historyVars, boundVars>>

\* Without an identity, or with no bytes, there is nothing to lose.
MayTakeOver(w) == checkpoint.identity \in {NoFile, File(w)} \/ data[fd[w]] = << >>

\* Another file's progress is never given up, nor mixed with this one's.
InspectForeignProgress(w) ==
  /\ pc[w] = "inspect" /\ ~Stopped(w)
  /\ target = NoInode
  /\ ~MayTakeOver(w)
  /\ Ends(w, "failed", "finish")
  /\ UNCHANGED <<mode, apiVars, directoryVars, historyVars, boundVars>>

FreshCheckpoint(w) == [NoCheckpoint EXCEPT !.identity = File(w)]

\* truncate(0)
Emptied(w) == [data EXCEPT ![fd[w]] = << >>]

InspectProgress(w) ==
  /\ pc[w] = "inspect" /\ ~Stopped(w)
  /\ target = NoInode
  /\ MayTakeOver(w)
  /\ \/ /\ checkpoint.identity = File(w)
        /\ memory' = [memory EXCEPT ![w] = checkpoint]
        /\ UNCHANGED data
     \/ /\ checkpoint.identity # File(w)
        /\ memory' = [memory EXCEPT ![w] = FreshCheckpoint(w)]
        /\ data' = Emptied(w)
  /\ Goto(w, "prepare")
  /\ UNCHANGED <<mode, apiVars, partial, target, checkpoint, job, fd, answer, outcome,
                 historyVars, boundVars>>

WriteCheckpoint(w) ==
  /\ pc[w] = "prepare"
  /\ checkpoint' = memory[w]
  /\ Goto(w, IF Len(data[fd[w]]) < Size THEN "request" ELSE "verify")
  /\ UNCHANGED <<mode, apiVars, data, partial, target, job, fd, memory, answer, outcome,
                 historyVars, boundVars>>

Smaller(a, b) == IF a < b THEN a ELSE b

\* The end of the range asked for, which begins at the end of the partial.
SliceEnd(w) == Smaller(Size, Len(data[fd[w]]) + ChunkBlocks)

\* 206: the range asked for.
RangeHonoured(w) ==
  /\ pc[w] = "request"
  /\ answer' = [answer EXCEPT ![w] = [next |-> Len(data[fd[w]]) + 1, end |-> SliceEnd(w)]]
  /\ Goto(w, "receive")
  /\ UNCHANGED <<mode, apiVars, directoryVars, job, fd, memory, outcome,
                 historyVars, boundVars>>

\* A full answer replaces the partial; its digests go with it.
Restart(w) ==
  /\ data' = [data EXCEPT ![fd[w]] = << >>]
  /\ memory' = [memory EXCEPT ![w].digests = << >>]

\* 200: the range was ignored.  A large file is refused after the restart.
RangeIgnored(w) ==
  /\ pc[w] = "request"
  /\ RangeIgnorable
  /\ IF data[fd[w]] # << >> THEN Restart(w) ELSE UNCHANGED <<data, memory>>
  /\ IF Size > ChunkBlocks
     THEN /\ outcome' = [outcome EXCEPT ![w] = "failed"]
          /\ Goto(w, "close")
          /\ UNCHANGED answer
     ELSE /\ answer' = [answer EXCEPT ![w] = [next |-> 1, end |-> Size]]
          /\ Goto(w, "receive")
          /\ UNCHANGED outcome
  /\ UNCHANGED <<mode, apiVars, partial, target, checkpoint, job, fd, historyVars, boundVars>>

\* A block arrives, as sent or corrupted.  Before the file is complete the
\* slice may be over: by its range, or by the clock.
ReceiveBlock(w) ==
  LET n == answer[w].next
  IN
  /\ pc[w] = "receive" /\ ~Stopped(w)
  /\ \/ /\ data' = [data EXCEPT ![fd[w]] = Append(@, <<File(w), n>>)]
        /\ UNCHANGED corruptions
     \/ /\ MayDisturb
        /\ corruptions' = corruptions + 1
        /\ data' = [data EXCEPT ![fd[w]] = Append(@, Bad)]
  /\ answer' = [answer EXCEPT ![w].next = n + 1]
  /\ \/ /\ n < answer[w].end
        /\ UNCHANGED <<pc, outcome>>
     \/ /\ n < Size
        /\ outcome' = [outcome EXCEPT ![w] = "deferred"]
        /\ Goto(w, "close")
     \/ /\ n = Size
        /\ Goto(w, "verify")
        /\ UNCHANGED outcome
  /\ UNCHANGED <<mode, apiVars, partial, target, checkpoint, job, fd, memory,
                 historyVars, faults, userSteps>>

\* Without a hash there is nothing to compare.
SkipVerification(w) ==
  /\ pc[w] = "verify"
  /\ File(w) \notin Hashed
  /\ Goto(w, "seal")
  /\ UNCHANGED <<mode, apiVars, directoryVars, job, fd, memory, answer, outcome,
                 historyVars, boundVars>>

\* _verify: one block more is digested, and perhaps the rest left for later.
DigestBlock(w) ==
  LET n == Len(memory[w].digests) + 1
  IN
  /\ pc[w] = "verify" /\ ~Stopped(w)
  /\ File(w) \in Hashed
  /\ n <= Size
  /\ memory' = [memory EXCEPT ![w].digests = Append(@, data[fd[w]][n])]
  /\ \/ UNCHANGED <<pc, outcome>>
     \/ /\ n < Size
        /\ outcome' = [outcome EXCEPT ![w] = "deferred"]
        /\ Goto(w, "close")
  /\ UNCHANGED <<mode, apiVars, directoryVars, job, fd, answer, historyVars, boundVars>>

Whole(f) == [n \in 1 .. Size |-> <<f, n>>]

\* The digests tell whether the file is what the drive has.
CompareHash(w) ==
  /\ pc[w] = "verify"
  /\ File(w) \in Hashed
  /\ Len(memory[w].digests) = Size
  /\ IF memory[w].digests = Whole(File(w))
     THEN Goto(w, "seal") /\ UNCHANGED <<data, memory, outcome>>
     ELSE /\ Restart(w)
          /\ outcome' = [outcome EXCEPT ![w] = "failed"]
          /\ Goto(w, "close")
  /\ UNCHANGED <<mode, apiVars, partial, target, checkpoint, job, fd, answer,
                 historyVars, boundVars>>

\* The evidence is written before the publication: of the file that has the
\* partial's name now, which need not be the one that is open.
Seal(w) ==
  /\ pc[w] = "seal" /\ ~Stopped(w)
  /\ IF partial = NoInode
     THEN Ends(w, "failed", "close") /\ UNCHANGED checkpoint
     ELSE /\ memory' = [memory EXCEPT ![w].published = partial, ![w].digests = << >>]
          /\ checkpoint' = memory'[w]
          /\ Goto(w, "confirm")
          /\ UNCHANGED <<job, fd, answer, outcome>>
  /\ UNCHANGED <<mode, apiVars, data, partial, target, historyVars, boundVars>>

\* The last probe before the publication.
ConfirmOwnership(w) ==
  /\ pc[w] = "confirm" /\ ~Stopped(w)
  /\ Goto(w, "link")
  /\ UNCHANGED <<mode, apiVars, directoryVars, job, fd, memory, answer, outcome,
                 historyVars, boundVars>>

Complete(f, blocks) ==
  /\ Len(blocks) = Size
  /\ \A n \in 1 .. Size : blocks[n] \in {<<f, n>>} \cup (IF f \in Hashed THEN {} ELSE {Bad})

\* Fault: rename instead of link, which replaces what is there.
PublishedOver(w) == partial

\* os.link(partial, target) fails if there is a target.
Published(w) == IF target = NoInode THEN partial ELSE target

Link(w) ==
  /\ pc[w] = "link"
  /\ target' = Published(w)
  /\ IF target # NoInode \/ partial = NoInode
     THEN Ends(w, "failed", "close") /\ UNCHANGED historyVars
     ELSE /\ linked' = linked \cup {job[w]}
          /\ delivered' = delivered \cup {f \in Files : Complete(f, data[partial])}
          /\ Goto(w, "unlink")
          /\ UNCHANGED <<broken, job, fd, memory, answer, outcome>>
  /\ UNCHANGED <<mode, apiVars, data, partial, checkpoint, boundVars>>

\* The partial's name is removed, and the progress committed to the database.
Unlink(w) ==
  /\ pc[w] = "unlink"
  /\ partial # NoInode
  /\ partial' = NoInode
  /\ Ends(w, "success", "close")
  /\ UNCHANGED <<mode, apiVars, data, target, checkpoint, historyVars, boundVars>>

\* The execution fails; its task is noted if it has published.
Breaks(w, p) ==
  /\ Ends(w, "failed", p)
  /\ broken' = IF job[w] \in linked THEN broken \cup {job[w]} ELSE broken
  /\ UNCHANGED <<linked, delivered>>

\* Either of the two fails after the link: the partial may be gone or not.
PublicationFails(w) ==
  /\ pc[w] = "unlink"
  /\ partial' \in {partial, NoInode}
  /\ Breaks(w, "close")
  /\ UNCHANGED <<mode, apiVars, data, target, checkpoint, boundVars>>

\* Fault: how far the verification came is not kept.
ClosePartialForgetting(w) ==
  /\ pc[w] = "close"
  /\ checkpoint' = IF partial # NoInode THEN [memory[w] EXCEPT !.digests = << >>]
                   ELSE checkpoint
  /\ Goto(w, "finish")
  /\ UNCHANGED <<mode, apiVars, data, partial, target, job, fd, memory, answer, outcome,
                 historyVars, boundVars>>

\* The checkpoint is left with the partial, if that is still there.
ClosePartial(w) ==
  /\ pc[w] = "close"
  /\ checkpoint' = IF partial # NoInode THEN memory[w] ELSE checkpoint
  /\ Goto(w, "finish")
  /\ UNCHANGED <<mode, apiVars, data, partial, target, job, fd, memory, answer, outcome,
                 historyVars, boundVars>>

\* The partial cannot be flushed, the checkpoint not written, or the file or the
\* connection not be closed: the checkpoint may be written or not.
CloseFails(w) ==
  /\ pc[w] = "close"
  /\ \/ UNCHANGED checkpoint
     \/ partial # NoInode /\ checkpoint' = memory[w]
  /\ Breaks(w, "finish")
  /\ UNCHANGED <<mode, apiVars, data, partial, target, boundVars>>

-------------------------------------------------------------------------------
(***************************************************************************)
(* The user's own use of the directory.                                    *)
(***************************************************************************)
UserRemovesTarget ==
  /\ target # NoInode
  /\ MayDisturb
  /\ userSteps' = userSteps + 1
  /\ target' = NoInode
  /\ UNCHANGED <<mode, apiVars, data, partial, checkpoint, executionVars, historyVars,
                 faults, corruptions>>

UserPlacesFile ==
  /\ target = NoInode
  /\ MayDisturb
  /\ userSteps' = userSteps + 1
  /\ target' = Unused
  /\ data' = [data EXCEPT ![Unused] = <<Foreign>>]
  /\ UNCHANGED <<mode, apiVars, partial, checkpoint, executionVars, historyVars,
                 faults, corruptions>>

-------------------------------------------------------------------------------
(***************************************************************************)
(* The specification.                                                      *)
(***************************************************************************)

\* What an execution does by itself.
Execute(w) ==
  \/ OpenPartial(w)
  \/ TryLock(w)
  \/ StopExecution(w)
  \/ InspectTarget(w)
  \/ InspectForeignProgress(w)
  \/ InspectProgress(w)
  \/ WriteCheckpoint(w)
  \/ RangeHonoured(w)
  \/ RangeIgnored(w)
  \/ ReceiveBlock(w)
  \/ SkipVerification(w)
  \/ DigestBlock(w)
  \/ CompareHash(w)
  \/ Seal(w)
  \/ ConfirmOwnership(w)
  \/ Link(w)
  \/ Unlink(w)
  \/ ClosePartial(w)
  \/ FinishTask(w)

Claim(w) == \E t \in DOMAIN tasks : ClaimTask(w, t) \/ ClaimLegacy(w, t)

User ==
  \/ \E c \in Clients :
       \/ \E f \in Files : ReadDestination(c, f)
       \/ \E t \in DOMAIN tasks : ReadForRetry(c, t)
       \/ CreateDownload(c)
  \/ \E t \in DOMAIN tasks : ResumeDownload(t) \/ CancelDownload(t)

Next ==
  \/ User
  \/ \E w \in Workers :
       \/ Claim(w) \/ Execute(w) \/ Crash(w)
       \/ Refused(w) \/ ExecutionFails(w) \/ PublicationFails(w) \/ CloseFails(w)
  \/ \E t \in DOMAIN tasks : LoseLease(t)
  \/ UserRemovesTarget
  \/ UserPlacesFile

Spec == Init /\ [][Next]_vars

(***************************************************************************)
(* A Worker claims and executes; an expired lease is recovered.            *)
(***************************************************************************)
Fairness ==
  /\ WF_vars(\E w \in Workers : Claim(w))
  /\ \A w \in Workers : WF_vars(Execute(w))
  /\ \A t \in 1 .. MaxTasks :
       WF_vars(t \in DOMAIN tasks /\ ~Executing(t) /\ LoseLease(t))

FairSpec == Spec /\ Fairness

-------------------------------------------------------------------------------
(***************************************************************************)
(* Invariants.                                                             *)
(***************************************************************************)

\* What is found under the target's name, if MediaSync put it there, is the
\* whole of one file, and verified if its hash is known: also while the partial
\* is still another name of it, and after any crash, slice or restart.
PublishedIsVerified ==
  target # NoInode /\ data[target] # <<Foreign>> =>
    \E f \in delivered : Complete(f, data[target])

\* What follows holds unless both happen: the user moves files about, and an
\* execution loses its lease or dies.  Of two executions, one may then go on with an
\* older partial that no longer has the name, and the two share the checkpoint, and
\* the name that Seal and Link go by.
Orderly == userSteps = 0 \/ faults = 0

\* That holds while no second block arrives corrupted.  A process that dies after
\* it emptied a partial of the wrong hash leaves the digests of its blocks in the
\* checkpoint, and those blocks are not verified when they are received again.
PublishedIsComplete == Orderly /\ corruptions <= 1 => PublishedIsVerified

\* The partial holds bytes of the file its checkpoint names, and of no other.
ProgressBelongs ==
  Orderly /\ partial # NoInode =>
    \A n \in 1 .. Len(data[partial]) :
      data[partial][n] \in {<<checkpoint.identity, n>>, Bad}

\* A download that succeeded has published the whole of its file, as far as the
\* hash can tell and under the same condition.
SuccessIsPublished ==
  Orderly /\ corruptions <= 1 =>
    \A t \in DOMAIN tasks : tasks[t].status = "success" => tasks[t].file \in delivered

\* A cancellation that comes too late does not hide the publication: unless the
\* process died or lost its lease in between, or the execution itself failed after
\* the link, the task ends in success.  Whatever died or failed, the evidence of
\* the publication is still beside the file, while the user leaves that alone: the
\* next execution for the file recognises what is there as its own.
PublicationIsReported ==
  /\ faults = 0 =>
       \A t \in linked :
         tasks[t].status \in {"running", "cancel_requested", "success"} \/ t \in broken
  /\ userSteps = 0 =>
       \A t \in linked :
         checkpoint.identity = tasks[t].file /\ checkpoint.published = target

\* At most one task of a path is active, whatever requests cross: two would
\* share a partial, or fail each other on its lock.
OneActivePerPath == Cardinality(Active) <= 1

\* What a download leaves in the directory, at every step of its execution and
\* after every crash: the whole file or its own resumable part, and a success
\* in the table only for a file that was published.
DownloadInvariant ==
  /\ TypeOK
  /\ PublishedIsComplete
  /\ ProgressBelongs
  /\ SuccessIsPublished
  /\ OneActivePerPath

(***************************************************************************)
(* What a step may never do.                                               *)
(***************************************************************************)

\* What is there stays as it is, unless the user changes it.
TargetUntouched ==
  [][Orderly /\ target # NoInode /\ userSteps' = userSteps =>
       target' = target /\ data'[target] = data[target]]_vars

(***************************************************************************)
(* What must eventually happen.                                            *)
(***************************************************************************)

\* A download of the Workers comes to an end, slice by slice, or waits for the
\* user: time and again none is queued or executing.  (In mode "legacy" one that
\* is being cancelled when the process restarts stays so for ever.)
DownloadSettles ==
  mode = "process" =>
    []<>(\A t \in Active : tasks[t].status = "waiting_credential")
===============================================================================
