----------------------------- MODULE UpdateInstall -----------------------------
(***************************************************************************)
(* The one-click update as the API process of the running Appliance sees   *)
(* it: the check for releases and the cached Docker capability on which an *)
(* installation is offered (update_check_service.py,                       *)
(* docker_capability_service.py), the request that starts it               *)
(* (api/v1/system.py), the installer that pulls and verifies the image,    *)
(* closes the gate, waits until no task is owned and hands over to the     *)
(* helper (update_install_service.py, image_target_service.py), and the    *)
(* Workers that heed the gate (update_execution_gate.py, worker.py).       *)
(*                                                                         *)
(* A request creates at most one operation, so the operation bears the     *)
(* name of its request.  From the hand-over on the module Updater tells    *)
(* what the helper does; here it stops the Appliance and ends somehow.     *)
(***************************************************************************)
EXTENDS Naturals, FiniteSets

CONSTANTS
  Requests,      \* POST /system/update/install requests
  Tasks,
  Workers,
  NoWorker,
  Versions,      \* the versions that exist: [number, rc], rc = 0 for a release
  Listings,      \* what GitHub may list: [version, draft, prerelease]; the flags
                 \* are set by hand and may contradict the tag
  NoVersion,
  FirstVersion,  \* the version running at first
  MaxCrashes,    \* bound: crashes of the Appliance
  MaxChanges     \* bound: releases published and changes of the Docker Engine

ASSUME UpdateInstallAssumption ==
  /\ NoWorker \notin Workers
  /\ FirstVersion \in Versions /\ NoVersion \notin Versions
  /\ IsFiniteSet(Versions) /\ Versions \subseteq [number : Nat, rc : Nat]
  /\ Listings \subseteq [version : Versions, draft : BOOLEAN, prerelease : BOOLEAN]
  /\ MaxCrashes \in Nat /\ MaxChanges \in Nat

(***************************************************************************)
(* Versions and releases.                                                  *)
(***************************************************************************)
Stable(v) == v.rc = 0
Channel(v) == IF Stable(v) THEN "stable" ELSE "rc"

\* The order of ParsedVersion: a release follows its candidates.
Newer(v, w) ==
  \/ v.number > w.number
  \/ v.number = w.number /\ Stable(v) /\ ~Stable(w)
  \/ v.number = w.number /\ ~Stable(v) /\ ~Stable(w) /\ v.rc > w.rc

\* Fault: the prerelease flag of the listing is taken at its word.
CandidatesByFlag(listed, channel) ==
  {l \in listed : ~l.draft /\ (channel = "stable" => ~l.prerelease)}

Candidates(listed, channel) ==
  {l \in listed :
     /\ ~l.draft
     /\ l.prerelease = ~Stable(l.version)
     /\ channel = "stable" => ~l.prerelease}

SelectLatest(listed, channel) ==
  LET offers == {l.version : l \in Candidates(listed, channel)}
  IN  IF offers = {} THEN NoVersion
      ELSE CHOOSE v \in offers : \A w \in offers \ {v} : Newer(v, w)

(***************************************************************************)
(* Operations.                                                             *)
(***************************************************************************)
TerminalStatuses == {"failed", "success", "rolled_back"}
ActiveStatuses == {"pulling", "draining", "handoff"}
GatedStatuses == {"draining", "handoff"}

\* Where the request and its installer are; "lost" once their process died
\* before the helper was started, "handed" while the helper runs.
Installing == {"pulling", "draining", "drained", "starting"}
Places == {"idle", "probing", "deciding"} \cup Installing
            \cup {"refused", "handed", "ended", "lost"}

\* No socket or no answer; not one container that may be this one; a container
\* that is unofficial, of Compose, no Appliance or without /data.
EngineStates == {"unavailable", "container_not_identified", "rejected", "ready"}

TaskStatuses == {"pending", "running", "cancel_requested", "done"}

VARIABLES
  (* GitHub, the registry and the Docker Engine *)
  listed,       \* the listings GitHub returns
  engine,       \* what an uncached probe of the Docker Engine would say
  changes,
  (* Memory of the API process *)
  latest,       \* _latest_release
  fresh,        \* the last attempt is within the time it is remembered
  capability,   \* the cached probe, "unknown" once it expired
  install,      \* of each request: [at, seen, payload]
  (* The database *)
  operation,    \* of each request: [status, source, target]
  task,         \* of each task: [status, owner]
  (* Containers and processes *)
  current,      \* the version of the Appliance
  appliance,    \* "up" or "down"
  worker,       \* of each Worker: "idle", "claiming" or "running"
  crashes,
  (* History *)
  early,        \* Workers about to claim on a reading before the drain
  stragglers    \* tasks claimed after the drain on such a reading

world == <<listed, engine, changes>>
memory == <<latest, fresh, capability>>
history == <<early, stragglers>>
vars == <<world, memory, install, operation, task, current, appliance, worker,
          crashes, history>>

Known == Versions \cup {NoVersion}
Statuses == {"none"} \cup ActiveStatuses \cup TerminalStatuses
Installer == [at : Places, seen : Known, payload : Known]
Operation == [status : Statuses, source : Known, target : Known]
Task == [status : TaskStatuses, owner : Workers \cup {NoWorker}]

TypeOK ==
  /\ listed \subseteq Listings
  /\ engine \in EngineStates
  /\ latest \in Known
  /\ fresh \in BOOLEAN
  /\ capability \in {"unknown"} \cup EngineStates
  /\ install \in [Requests -> Installer]
  /\ operation \in [Requests -> Operation]
  /\ task \in [Tasks -> Task]
  /\ current \in Versions
  /\ appliance \in {"up", "down"}
  /\ worker \in [Workers -> {"idle", "claiming", "running"}]
  /\ early \subseteq Workers /\ stragglers \subseteq Tasks

Init ==
  /\ listed \in SUBSET Listings
  /\ engine = "ready"
  /\ changes = 0
  /\ latest = NoVersion
  /\ fresh = FALSE
  /\ capability = "unknown"
  /\ install = [r \in Requests |->
                  [at |-> "idle", seen |-> NoVersion, payload |-> NoVersion]]
  /\ operation = [r \in Requests |->
                  [status |-> "none", source |-> NoVersion, target |-> NoVersion]]
  /\ task = [t \in Tasks |-> [status |-> "pending", owner |-> NoWorker]]
  /\ current = FirstVersion
  /\ appliance = "up"
  /\ worker = [w \in Workers |-> "idle"]
  /\ crashes = 0
  /\ early = {}
  /\ stragglers = {}

Active(r) == operation[r].status \in ActiveStatuses
\* Fault: the hand-over is not among the gated statuses.
GateClosedWhileDraining == \E r \in Requests : operation[r].status = "draining"
GateClosed == \E r \in Requests : operation[r].status \in GatedStatuses

(***************************************************************************)
(* The environment.                                                        *)
(***************************************************************************)
Change == changes < MaxChanges /\ changes' = changes + 1

Publish(l) ==
  /\ Change
  /\ listed' = listed \cup {l}
  /\ UNCHANGED <<engine, memory, install, operation, task, current, appliance, worker,
                 crashes, history>>

\* The socket, its permissions or the container's labels change.
EngineChanges ==
  /\ Change
  /\ engine' \in EngineStates \ {engine}
  /\ UNCHANGED <<listed, memory, install, operation, task, current, appliance, worker,
                 crashes, history>>

(***************************************************************************)
(* The check for releases.                                                 *)
(***************************************************************************)
\* check(): one fetch under the lock.  A check that comes while another one
\* fetches, or while the last attempt is remembered, returns what that one found;
\* a failed attempt keeps the release found before.
Check ==
  /\ appliance = "up"
  /\ ~fresh
  /\ fresh' = TRUE
  /\ latest' \in {latest} \cup ({SelectLatest(listed, Channel(current))} \ {NoVersion})
  /\ UNCHANGED <<world, capability, install, operation, task, current, appliance,
                 worker, crashes, history>>

\* cache_seconds or failure_retry_seconds after the attempt began, and
\* docker_capability_cache_seconds after the probe.
CacheExpires ==
  /\ \/ fresh' = FALSE /\ fresh /\ UNCHANGED capability
     \/ capability' = "unknown" /\ capability # "unknown" /\ UNCHANGED fresh
  /\ UNCHANGED <<world, latest, install, operation, task, current, appliance,
                 worker, crashes, history>>

\* get_status: the release to offer; an error only makes it stale.
UpdateAvailable(v) == v # NoVersion /\ Newer(v, current)

(***************************************************************************)
(* The request.  It reads the last check, awaits the probe, and goes on    *)
(* with what it read.                                                      *)
(***************************************************************************)
Moves(r, place) == install' = [install EXCEPT ![r].at = place]
Settles(r, place) ==
  install' = [install EXCEPT ![r] = [at |-> place, seen |-> NoVersion, payload |-> NoVersion]]

RequestInstall(r) ==
  /\ appliance = "up"
  /\ install[r].at = "idle"
  /\ \E v \in {l.version : l \in listed} :
       install' = [install EXCEPT ![r] = [at |-> "probing", seen |-> latest, payload |-> v]]
  /\ UNCHANGED <<world, memory, operation, task, current, appliance, worker, crashes,
                 history>>

Probe(r) ==
  /\ install[r].at = "probing"
  /\ LET found == IF capability = "unknown" THEN engine ELSE capability
     IN  /\ capability' = found
         /\ IF found = "ready" THEN Moves(r, "deciding") ELSE Settles(r, "refused")
  /\ UNCHANGED <<world, latest, fresh, operation, task, current, appliance,
                 worker, crashes, history>>

Acceptable(r) ==
  /\ UpdateAvailable(install[r].seen)
  /\ install[r].payload = install[r].seen

SlotFree == \A q \in Requests : ~Active(q)

\* UpdateInstallService.begin: the unique active_slot admits one operation.
Begin(r) ==
  /\ install[r].at = "deciding"
  /\ Acceptable(r)
  /\ SlotFree
  /\ operation' = [operation EXCEPT ![r] =
       [status |-> "pulling", source |-> current, target |-> install[r].payload]]
  /\ Settles(r, "pulling")
  /\ UNCHANGED <<world, memory, task, current, appliance, worker, crashes, history>>

\* 409: nothing newer, the target changed, or another update is active.
Refuse(r) ==
  /\ install[r].at = "deciding"
  /\ ~(Acceptable(r) /\ SlotFree)
  /\ Settles(r, "refused")
  /\ UNCHANGED <<world, memory, operation, task, current, appliance, worker, crashes,
                 history>>

(***************************************************************************)
(* The installer.                                                          *)
(***************************************************************************)
\* _require_active, in the transaction that moves the operation on.
Advance(r, from, to) ==
  /\ operation[r].status = from
  /\ operation' = [operation EXCEPT ![r].status = to]

\* pull_and_verify and the transaction that closes the gate.
Drain(r) ==
  /\ install[r].at = "pulling"
  /\ Advance(r, "pulling", "draining")
  /\ Moves(r, "draining")
  /\ UNCHANGED <<world, memory, task, current, appliance, worker, crashes, history>>

\* _wait_until_drained counts a task whose cancellation was requested too, also
\* when nobody owns it and, the gate being closed, no Worker will settle it.
Busy == \E t \in Tasks : \/ task[t].owner # NoWorker
                         \/ task[t].status \in {"running", "cancel_requested"}

DrainEnds(r) ==
  /\ install[r].at = "draining"
  /\ ~Busy
  /\ Moves(r, "drained")
  /\ UNCHANGED <<world, memory, operation, task, current, appliance, worker, crashes,
                 history>>

Fail(r) ==
  /\ operation' = [operation EXCEPT ![r].status =
                     IF @ \in ActiveStatuses THEN "failed" ELSE @]
  /\ Moves(r, "ended")
  /\ UNCHANGED <<world, memory, task, current, appliance, worker, crashes, history>>

\* Fault: the timeout is raised outside the handler of exceptions.
DrainTimesOutUnhandled(r) ==
  /\ install[r].at = "draining"
  /\ Busy
  /\ Moves(r, "ended")
  /\ UNCHANGED <<world, memory, operation, task, current, appliance, worker, crashes,
                 history>>

DrainTimesOut(r) ==
  /\ install[r].at = "draining"
  /\ Busy
  /\ Fail(r)

\* The registry or the Engine cannot be reached, or a verification fails.
PullFails(r) == install[r].at = "pulling" /\ Fail(r)

\* resolve_current_container asks the Engine and not the cached probe.
HandOver(r) ==
  /\ install[r].at = "drained"
  /\ engine = "ready"
  /\ Advance(r, "draining", "handoff")
  /\ Moves(r, "starting")
  /\ UNCHANGED <<world, memory, task, current, appliance, worker, crashes, history>>

HandOverFails(r) == install[r].at \in {"drained", "starting"} /\ Fail(r)

\* start_container; the rest is the helper's.
StartHelper(r) ==
  /\ install[r].at = "starting"
  /\ Moves(r, "handed")
  /\ UNCHANGED <<world, memory, operation, task, current, appliance, worker, crashes, history>>

(***************************************************************************)
(* The helper, in short, and crashes of the Appliance.                     *)
(***************************************************************************)
\* All processes of the container die; what they had claimed stays claimed.
ProcessesDie ==
  /\ latest' = NoVersion
  /\ fresh' = FALSE
  /\ capability' = "unknown"
  /\ install' = [r \in Requests |->
       IF install[r].at \in {"idle", "refused", "handed", "ended"} THEN install[r]
       ELSE [at |-> "lost", seen |-> NoVersion, payload |-> NoVersion]]
  /\ worker' = [w \in Workers |-> "idle"]
  /\ early' = {}

HelperStops(r) ==
  /\ install[r].at = "handed"
  /\ appliance = "up"
  /\ appliance' = "down"
  /\ ProcessesDie
  /\ UNCHANGED <<world, operation, task, current, crashes, stragglers>>

\* It ends with the candidate in service, or with the old container.
HelperEnds(r) ==
  /\ install[r].at = "handed"
  /\ appliance = "down"
  /\ appliance' = "up"
  /\ Moves(r, "ended")
  /\ \/ operation' = [operation EXCEPT ![r].status = "success"]
        /\ current' = operation[r].target
     \/ operation' = [operation EXCEPT ![r].status = "rolled_back"]
        /\ UNCHANGED current
  /\ stragglers' = {}
  /\ UNCHANGED <<world, memory, task, worker, crashes, early>>

\* The launcher restarts all its children when one of them dies.
Crash ==
  /\ appliance = "up"
  /\ crashes < MaxCrashes
  /\ crashes' = crashes + 1
  /\ ProcessesDie
  /\ UNCHANGED <<world, operation, task, current, appliance, stragglers>>

(***************************************************************************)
(* Workers and users.                                                      *)
(***************************************************************************)
Claimable(t) ==
  task[t].owner = NoWorker /\ task[t].status \in {"pending", "cancel_requested"}

\* The end of the lease of a Worker that died.
Expired(t) == /\ task[t].owner # NoWorker
              /\ worker[task[t].owner] # "running"

\* _recover_and_claim first returns tasks with expired leases.
Recover(w) ==
  /\ appliance = "up"
  /\ worker[w] = "idle"
  /\ \E t \in Tasks :
       /\ Expired(t)
       /\ task' = [task EXCEPT ![t] =
            [status |-> IF @.status = "running" THEN "pending" ELSE @.status,
             owner  |-> NoWorker]]
       /\ stragglers' = stragglers \ {t}
  /\ UNCHANGED <<world, memory, install, operation, current, appliance, worker, crashes,
                 early>>

\* evaluate, in a statement of its own.
ReadGate(w) ==
  /\ appliance = "up"
  /\ worker[w] = "idle"
  /\ ~GateClosed
  /\ \E t \in Tasks : Claimable(t)
  /\ worker' = [worker EXCEPT ![w] = "claiming"]
  /\ early' = IF \E r \in Requests : operation[r].status \in GatedStatuses
                THEN early ELSE early \cup {w}
  /\ UNCHANGED <<world, memory, install, operation, task, current, appliance, crashes,
                 stragglers>>

AfterDrain == \E r \in Requests : install[r].at \in {"drained", "starting", "handed"}

Claim(w) ==
  /\ worker[w] = "claiming"
  /\ IF \E t \in Tasks : Claimable(t)
       THEN \E t \in Tasks :
              /\ Claimable(t)
              /\ task' = [task EXCEPT ![t].owner = w,
                    ![t].status = IF @ = "pending" THEN "running" ELSE @]
              /\ worker' = [worker EXCEPT ![w] = "running"]
              /\ stragglers' = IF w \in early /\ AfterDrain
                                 THEN stragglers \cup {t} ELSE stragglers
       ELSE /\ worker' = [worker EXCEPT ![w] = "idle"]
            /\ UNCHANGED <<task, stragglers>>
  /\ early' = early \ {w}
  /\ UNCHANGED <<world, memory, install, operation, current, appliance, crashes>>

\* The handler returns and the task is finished.
FinishTask(w) ==
  /\ worker[w] = "running"
  /\ \E t \in Tasks :
       /\ task[t].owner = w
       /\ task' = [task EXCEPT ![t] = [status |-> "done", owner |-> NoWorker]]
       /\ stragglers' = stragglers \ {t}
  /\ worker' = [worker EXCEPT ![w] = "idle"]
  /\ UNCHANGED <<world, memory, install, operation, current, appliance, crashes, early>>

CancelTask(t) ==
  /\ appliance = "up"
  /\ task[t].status = "running"
  /\ task' = [task EXCEPT ![t].status = "cancel_requested"]
  /\ UNCHANGED <<world, memory, install, operation, current, appliance, worker, crashes,
                 history>>

Next ==
  \/ EngineChanges \/ Check \/ CacheExpires \/ Crash
  \/ \E l \in Listings : Publish(l)
  \/ \E r \in Requests :
       \/ RequestInstall(r) \/ Probe(r) \/ Begin(r) \/ Refuse(r)
       \/ Drain(r) \/ PullFails(r) \/ DrainEnds(r) \/ DrainTimesOut(r)
       \/ HandOver(r) \/ HandOverFails(r) \/ StartHelper(r)
       \/ HelperStops(r) \/ HelperEnds(r)
  \/ \E w \in Workers : Recover(w) \/ ReadGate(w) \/ Claim(w) \/ FinishTask(w)
  \/ \E t \in Tasks : CancelTask(t)

\* The installer is bounded by its timeouts, the helper is the subject of
\* Updater, and Workers poll.  Checks, requests and crashes happen or not.
Fairness ==
  /\ \A r \in Requests :
       /\ WF_vars(Probe(r)) /\ WF_vars(Begin(r) \/ Refuse(r))
       /\ WF_vars(Drain(r) \/ PullFails(r))
       /\ WF_vars(DrainEnds(r) \/ DrainTimesOut(r))
       /\ WF_vars(HandOver(r) \/ HandOverFails(r) \/ StartHelper(r))
       /\ WF_vars(HelperStops(r) \/ HelperEnds(r))
  /\ \A w \in Workers : WF_vars(Recover(w)) /\ WF_vars(ReadGate(w))
                        /\ WF_vars(Claim(w)) /\ WF_vars(FinishTask(w))

Spec == Init /\ [][Next]_vars /\ Fairness

(***************************************************************************)
(* Properties.                                                             *)
(***************************************************************************)
\* The slot of begin: of any number of concurrent requests one operation is
\* active, and while an installer or a helper works its own operation still is,
\* so that no step of it meets "更新操作状态已经变化".
OneUpdateAtATime ==
  /\ Cardinality({r \in Requests : Active(r)}) <= 1
  /\ \A r \in Requests : install[r].at \in Installing \cup {"handed"} => Active(r)

\* Whatever the listings say of themselves, and however stale the check the
\* request has read, what is installed is a published upgrade of the version
\* that ran when the operation began, and a stable Appliance stays stable.
InstallsUpgrades ==
  \A r \in Requests : operation[r].status # "none" =>
    /\ Newer(operation[r].target, operation[r].source)
    /\ Stable(operation[r].source) => Stable(operation[r].target)
    /\ \E l \in listed : l.version = operation[r].target /\ ~l.draft

\* What an installation may rely on, of its rivals and of its target.
UpdatesAreSound == TypeOK /\ OneUpdateAtATime /\ InstallsUpgrades

\* The helper stops no task but those claimed, after the drain had counted
\* none, by a Worker that had read the gate before it closed.
OnlyStragglersAreStopped ==
  (\E r \in Requests : install[r].at = "handed") =>
    {t \in Tasks : task[t].owner # NoWorker} \subseteq stragglers

\* docs/architecture/docker-socket-one-click-update.md:166: a task that runs is
\* not interrupted.
NoTaskIsStopped ==
  appliance = "down" => \A t \in Tasks : task[t].owner = NoWorker

\* An operation ends, or its helper does, or its installer was lost.
InstallSettles ==
  \A r \in Requests : Active(r) ~> (~Active(r) \/ install[r].at = "lost")

\* A failed, rolled back or finished update lets the Workers go on: every task
\* is settled, unless an installer was lost and the gate stays closed.
QueueResumes ==
  \A t \in Tasks :
    <>(task[t].status = "done"
       \/ \E r \in Requests : install[r].at = "lost" /\ Active(r))

\* An update is over some time, and then the queue has its turn.
UpdatesSettle == InstallSettles /\ QueueResumes

\* docs/architecture/docker-socket-one-click-update.md:168: an operation that
\* waits too long fails; so none waits for ever.
DrainIsBounded ==
  \A r \in Requests :
    operation[r].status = "draining" ~> operation[r].status # "draining"
================================================================================
