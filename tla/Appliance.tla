------------------------------- MODULE Appliance -------------------------------
(***************************************************************************)
(* The single container: the launcher that prepares the runtime secrets,   *)
(* runs the start-up barriers and supervises four children                 *)
(* (appliance/launcher.py, appliance/health.py), the file with the keys,   *)
(* the administrator's password and the session revision                   *)
(* (core/runtime_secrets.py), the password and the sessions in the API     *)
(* process (core/admin_credentials.py, core/security.py, api/v1/auth.py),  *)
(* and the rows a v0.1 process left running (reconcile.py,                 *)
(* legacy_task_reconciliation.py).                                         *)
(*                                                                         *)
(* The container may be killed, lose power, be recreated with another      *)
(* environment or another image between any two steps.                     *)
(***************************************************************************)
EXTENDS Naturals, FiniteSets

CONSTANTS
  Passwords,     \* passwords an administrator may choose online
  EnvPasswords,  \* ADMIN_PASSWORD: "none", DefaultPassword of the image, or another
  Keys,          \* keys secrets.token_urlsafe may return, or SECRET_KEY may set
  NoStore,       \* no runtime-secrets.json, no database, no SECRET_KEY
  LegacyRows,    \* rows of v0.1: [status, owned, retries, attempts, runs]
  NoSession,
  MaxRetries,    \* max_retries of the legacy task
  MaxFaults,     \* bound: kills, power losses, deaths of children, failing writes
  MaxChanges     \* bound: containers recreated or stopped, passwords changed

DefaultPassword == "admin"
AllPasswords == Passwords \cup EnvPasswords \cup {"generated"}
Stores == [key : Keys, password : AllPasswords, revision : Nat]
Rows == [status : {"running", "retry", "failed", "success"}, owned : BOOLEAN,
         retries : Nat, attempts : Nat, runs : SUBSET {"active", "cutover"}]

ASSUME ApplianceAssumption ==
  /\ DefaultPassword \notin Passwords
  /\ NoStore \notin Keys \cup Stores
  /\ LegacyRows \subseteq Rows
  /\ MaxRetries \in Nat /\ MaxFaults \in Nat /\ MaxChanges \in Nat

Children == {"api", "nginx", "scheduler", "worker"}

\* A child is stopped once those before it in SHUTDOWN_ORDER are gone.
ShutdownOrder == [nginx |-> {}, scheduler |-> {"nginx"}, worker |-> {"nginx", "scheduler"},
                  api |-> {"nginx", "scheduler", "worker"}]

Barriers == {"migration", "update_reconciliation", "reconciliation"}
Phases == {"off", "preparing", "syncing"} \cup Barriers \cup
          {"starting_api", "waiting_api", "starting", "supervising", "stopping", "exited"}
Running(p) == p \notin {"off", "exited"}

VARIABLES
  (* The /data volume *)
  disk,       \* runtime-secrets.json as a process reads it
  durable,    \* the same file as a power loss leaves it
  data,       \* the key its credentials were encrypted with, or NoStore while
              \* there is no database
  schema,     \* "head", or "old" for the image in use
  legacy,     \* a row of v0.1: [status, owned, retries, attempts, runs]
  (* The container *)
  env,        \* ADMIN_PASSWORD and SECRET_KEY, fixed when the container is created
  phase,      \* of the launcher
  alive,      \* children that run
  stop,       \* SIGTERM was received
  wanted,     \* the restart policy starts the container again
  (* The API process *)
  memory,     \* [password, revision] of AdminCredentialStore
  change,     \* an online change: "idle", "replaced" or "synced", and its password
  session,    \* a browser's cookie: its revision, and what was in force when the
              \* revision was read
  (* History and bounds *)
  told,       \* the password the administrator has reason to believe in
  asked,      \* the environment is new, and not applied yet
  again,      \* a restart has applied an ADMIN_PASSWORD that was applied before
  torn,       \* a write ended between the replacement of the file and the sync
  faults, changes

volume == <<disk, durable, data, schema, legacy>>
container == <<env, phase, alive, stop, wanted>>
history == <<told, asked, again, torn>>
api == <<memory, change>>
bounds == <<faults, changes>>
vars == <<volume, container, api, session, history, bounds>>

NoChange == [at |-> "idle", password |-> "none"]

FlagsTyped ==
  /\ stop \in BOOLEAN /\ wanted \in BOOLEAN
  /\ asked \in BOOLEAN /\ again \in BOOLEAN /\ torn \in BOOLEAN

ValuesTyped ==
  /\ disk \in Stores \cup {NoStore} /\ durable \in Stores \cup {NoStore}
  /\ data \in Keys \cup {NoStore}
  /\ schema \in {"old", "head"}
  /\ legacy \in Rows
  /\ env \in [password : EnvPasswords, key : Keys \cup {NoStore}]
  /\ phase \in Phases /\ alive \subseteq Children
  /\ memory \in [password : AllPasswords \cup {"none"}, revision : Nat]
  /\ change \in [at : {"idle", "replaced", "synced"}, password : Passwords \cup {"none"}]
  /\ session \in [password : AllPasswords \cup {"none"}, revision : Nat] \cup {NoSession}
  /\ faults \in 0 .. MaxFaults /\ changes \in 0 .. MaxChanges

TypeOK == FlagsTyped /\ ValuesTyped

Init ==
  /\ disk = NoStore /\ durable = NoStore /\ data = NoStore
  /\ schema = "old"
  /\ legacy \in LegacyRows
  /\ env \in [password : EnvPasswords, key : {NoStore}]
  /\ phase = "off"
  /\ alive = {}
  /\ stop = FALSE
  /\ wanted = TRUE
  /\ memory = [password |-> "none", revision |-> 0]
  /\ change = NoChange
  /\ session = NoSession
  /\ told = "none"
  /\ asked = TRUE
  /\ again = FALSE
  /\ torn = FALSE
  /\ faults = 0 /\ changes = 0

Fault == faults < MaxFaults /\ faults' = faults + 1 /\ UNCHANGED changes
Change == changes < MaxChanges /\ changes' = changes + 1 /\ UNCHANGED faults

\* The API process ends: a change it had not answered may be in force or not.
ApiEnds ==
  /\ change' = NoChange
  /\ told' = IF change = NoChange THEN told ELSE "unknown"
  /\ torn' = (torn \/ phase = "syncing" \/ change.at = "replaced")
  /\ UNCHANGED <<memory, session, asked, again>>

(***************************************************************************)
(* The runtime secrets.                                                    *)
(***************************************************************************)
\* Fault: the flag that marks the image's default password is ignored.
RequestedForExistingIgnoringFlag == env.password

\* The default of the image does not count as a request.
RequestedForExisting ==
  IF env.password = DefaultPassword THEN "none" ELSE env.password

\* Keys never rotate, and a database does not start without those it had.
Refused == \/ disk # NoStore /\ env.key \notin {NoStore, disk.key}
           \/ disk = NoStore /\ data # NoStore /\ env.key = NoStore

BootContainer ==
  /\ phase = "off" /\ wanted
  /\ phase' = "preparing"
  /\ stop' = FALSE
  /\ UNCHANGED <<volume, env, alive, wanted, api, session, history, bounds>>

\* The file exists and asks for no change.
LoadSecrets ==
  /\ phase = "preparing" /\ ~Refused
  /\ disk # NoStore
  /\ RequestedForExisting \in {"none", disk.password}
  /\ phase' = "migration"
  /\ asked' = FALSE
  /\ UNCHANGED <<volume, env, alive, stop, wanted, api, session, told, again, torn, bounds>>

Store(values) ==
  /\ disk' = values
  /\ asked' = FALSE
  /\ phase' = "syncing"
  /\ UNCHANGED <<durable, data, schema, legacy, env, alive, stop, wanted, api, session,
                 torn, bounds>>

\* The offline reset, up to os.replace.
ResetPassword ==
  /\ phase = "preparing" /\ ~Refused
  /\ disk # NoStore
  /\ RequestedForExisting \notin {"none", disk.password}
  /\ Store([key |-> disk.key, password |-> RequestedForExisting, revision |-> disk.revision + 1])
  /\ told' = IF asked THEN RequestedForExisting ELSE told
  /\ again' = (again \/ (~asked /\ env.password # DefaultPassword))

\* The first start.
CreateSecrets(key) ==
  /\ phase = "preparing" /\ ~Refused
  /\ disk = NoStore
  /\ env.key \in {NoStore, key}
  /\ LET password == IF env.password = "none" THEN "generated" ELSE env.password
     IN  /\ Store([key |-> key, password |-> password, revision |-> 0])
         /\ told' = password
         /\ UNCHANGED again

RefuseSecrets ==
  /\ phase = "preparing"
  /\ Refused
  /\ phase' = "stopping"
  /\ UNCHANGED <<volume, env, alive, stop, wanted, api, session, history, bounds>>

\* fsync of the directory makes the rename durable.
SyncSecrets ==
  /\ phase = "syncing"
  /\ durable' = disk
  /\ phase' = "migration"
  /\ UNCHANGED <<disk, data, schema, legacy, env, alive, stop, wanted, api, session,
                 history, bounds>>

\* chmod or the sync fails after os.replace: the launcher gives up.
SyncSecretsFails ==
  /\ phase = "syncing"
  /\ Fault
  /\ phase' = "stopping"
  /\ torn' = TRUE
  /\ UNCHANGED <<volume, env, alive, stop, wanted, api, session, told, asked, again>>

(***************************************************************************)
(* The barriers.                                                           *)
(***************************************************************************)
\* alembic upgrade head; the first credentials are encrypted with the key.
Migrate ==
  /\ phase = "migration"
  /\ schema' = "head"
  /\ data' = IF data = NoStore THEN disk.key ELSE data
  /\ phase' = "update_reconciliation"
  /\ UNCHANGED <<disk, durable, legacy, env, alive, stop, wanted, api, session,
                 history, bounds>>

\* app.update_reconcile: the subject of module Updater.
ReconcileUpdate ==
  /\ phase = "update_reconciliation"
  /\ phase' = "reconciliation"
  /\ UNCHANGED <<volume, env, alive, stop, wanted, api, session, history, bounds>>

Orphan(row) == row.status = "running" /\ ~row.owned

\* Fault: an orphan whose run is active is taken for one that is owned.
ReconciledUnlessActive(row) ==
  IF Orphan(row) /\ row.runs = {}
    THEN [row EXCEPT !.status = "retry", !.retries = 1, !.runs = {"cutover"}]
    ELSE row

\* reconcile_legacy_orphan: the attempts of v0.1 count as retries; the active
\* run is finalised, a cut-over record is kept, or one is appended. (No row has
\* both: v0.1 writes no cut-over record.)
Reconciled(row) ==
  IF ~Orphan(row) THEN row
  ELSE LET most == IF row.attempts > row.retries THEN row.attempts ELSE row.retries
           retries == IF most = 0 THEN 1 ELSE most
       IN  [status |-> IF retries <= MaxRetries THEN "retry" ELSE "failed",
            owned |-> FALSE, retries |-> retries, attempts |-> row.attempts,
            runs |-> (row.runs \ {"active"}) \cup {"cutover"}]

ReconcileLegacy ==
  /\ phase = "reconciliation"
  /\ legacy' = Reconciled(legacy)
  /\ phase' = "starting_api"
  /\ UNCHANGED <<disk, durable, data, schema, env, alive, stop, wanted, api, session,
                 history, bounds>>

\* A barrier exits with an error, having committed nothing.
BarrierFails ==
  /\ phase \in Barriers
  /\ Fault
  /\ phase' = "stopping"
  /\ UNCHANGED <<volume, env, alive, stop, wanted, api, session, history>>

(***************************************************************************)
(* Children and their supervision.                                         *)
(***************************************************************************)
StartApi ==
  /\ phase = "starting_api"
  /\ phase' = "waiting_api"
  /\ alive' = {"api"}
  /\ memory' = [password |-> disk.password, revision |-> disk.revision]
  /\ change' = NoChange
  /\ UNCHANGED <<volume, env, stop, wanted, session, history, bounds>>

\* _wait_for_api: it answers, or it has ended (or the time has).
ApiHealthy ==
  /\ phase = "waiting_api"
  /\ phase' = IF "api" \in alive THEN "starting" ELSE "stopping"
  /\ UNCHANGED <<volume, env, alive, stop, wanted, api, session, history, bounds>>

ApiTooSlow ==
  /\ phase = "waiting_api"
  /\ Fault
  /\ phase' = "stopping"
  /\ UNCHANGED <<volume, env, alive, stop, wanted, api, session, history>>

\* nginx, the Scheduler and the Worker, one after the other, then the health
\* server; what cannot be started ends the launcher.
StartChildrenFails ==
  /\ phase = "starting"
  /\ Fault
  /\ \E started \in {{}, {"nginx"}, {"nginx", "scheduler"}, Children \ {"api"}} :
       alive' = alive \cup started
  /\ phase' = "stopping"
  /\ UNCHANGED <<volume, env, stop, wanted, api, session, history>>

StartChildren ==
  /\ phase = "starting"
  /\ alive' = alive \cup (Children \ {"api"})
  /\ phase' = "supervising"
  /\ UNCHANGED <<volume, env, stop, wanted, api, session, history, bounds>>

\* Fault: a child that ended is not noticed.
SuperviseEndsWhenStopped ==
  /\ phase = "supervising"
  /\ stop
  /\ phase' = "stopping"
  /\ UNCHANGED <<volume, env, alive, stop, wanted, api, session, history, bounds>>

\* A round of _supervise that finds the stop requested or a child ended.
SuperviseEnds ==
  /\ phase = "supervising"
  /\ stop \/ alive # Children
  /\ phase' = "stopping"
  /\ UNCHANGED <<volume, env, alive, stop, wanted, api, session, history, bounds>>

\* terminate and wait, or kill after the child's timeout.
StopChild(c) ==
  /\ phase = "stopping"
  /\ c \in DOMAIN ShutdownOrder
  /\ c \in alive
  /\ ShutdownOrder[c] \cap alive = {}
  /\ alive' = alive \ {c}
  /\ IF c = "api" THEN ApiEnds ELSE UNCHANGED <<api, session, history>>
  /\ UNCHANGED <<volume, env, phase, stop, wanted, bounds>>

LauncherExits ==
  /\ phase = "stopping"
  /\ alive \cap DOMAIN ShutdownOrder = {}
  /\ phase' = "exited"
  /\ UNCHANGED <<volume, env, alive, stop, wanted, api, session, history, bounds>>

\* The container ends with its first process; Docker applies the policy.
ContainerEnds ==
  /\ phase = "exited"
  /\ phase' = "off"
  /\ alive' = {}
  /\ UNCHANGED <<volume, env, stop, wanted, api, session, history, bounds>>

ChildDies(c) ==
  /\ c \in alive
  /\ phase # "stopping"
  /\ Fault
  /\ alive' = alive \ {c}
  /\ IF c = "api" THEN ApiEnds ELSE UNCHANGED <<api, session, history>>
  /\ UNCHANGED <<volume, env, phase, stop, wanted>>

Kill ==
  /\ Running(phase)
  /\ Fault
  /\ phase' = "off"
  /\ alive' = {}
  /\ ApiEnds
  /\ UNCHANGED <<volume, env, stop, wanted>>

PowerLoss ==
  /\ Fault
  /\ phase' = "off"
  /\ alive' = {}
  /\ ApiEnds
  /\ disk' = durable
  /\ UNCHANGED <<durable, data, schema, legacy, env, stop, wanted>>

(***************************************************************************)
(* The user: docker stop, start and a new container.                       *)
(***************************************************************************)
DockerStop ==
  /\ Running(phase)
  /\ Change
  /\ stop' = TRUE
  /\ wanted' = FALSE
  /\ UNCHANGED <<volume, env, phase, alive, api, session, history>>

DockerStart ==
  /\ phase = "off" /\ ~wanted
  /\ wanted' = TRUE
  /\ UNCHANGED <<volume, env, phase, alive, stop, api, session, history, bounds>>

\* Another environment, and perhaps a newer image.
Recreate(password, key, revision) ==
  /\ phase = "off" /\ ~wanted
  /\ Change
  /\ env' = [password |-> password, key |-> key]
  /\ schema' = revision
  /\ wanted' = TRUE
  /\ asked' = TRUE
  /\ UNCHANGED <<disk, durable, data, legacy, phase, alive, stop, api, session, told,
                 again, torn>>

(***************************************************************************)
(* Sessions and the online change of the password.                         *)
(***************************************************************************)
\* create_session reads the revision, after the password was verified.
Login ==
  /\ "api" \in alive
  /\ session' = [revision |-> memory.revision, password |-> memory.password]
  /\ UNCHANGED <<volume, container, api, history, bounds>>

\* require_admin
SessionValid == /\ session # NoSession
                /\ "api" \in alive
                /\ session.revision = memory.revision

\* change_password, under the lock, up to os.replace; the file must still hold
\* what the process knows.
ReplacePassword(password) ==
  /\ SessionValid
  /\ change = NoChange
  /\ password # memory.password
  /\ disk.password = memory.password /\ disk.revision = memory.revision
  /\ Change
  /\ disk' = [key |-> disk.key, password |-> password, revision |-> disk.revision + 1]
  /\ change' = [at |-> "replaced", password |-> password]
  /\ UNCHANGED <<durable, data, schema, legacy, container, memory, session, history>>

SyncPassword ==
  /\ change.at = "replaced"
  /\ durable' = disk
  /\ change' = [at |-> "synced", password |-> change.password]
  /\ UNCHANGED <<disk, data, schema, legacy, container, memory, session, history,
                 bounds>>

\* chmod or the sync fails: 503, the process keeps the old password.
SyncPasswordFails ==
  /\ change.at = "replaced"
  /\ Fault
  /\ change' = NoChange
  /\ torn' = TRUE
  /\ UNCHANGED <<volume, container, memory, session, told, asked, again>>

\* The process switches and answers; the cookie is deleted.
ConfirmPassword ==
  /\ change.at = "synced"
  /\ memory' = [password |-> disk.password, revision |-> disk.revision]
  /\ change' = NoChange
  /\ told' = disk.password
  /\ UNCHANGED <<volume, container, session, asked, again, torn, bounds>>

Next ==
  \/ BootContainer \/ LoadSecrets \/ ResetPassword \/ RefuseSecrets
  \/ \E key \in Keys : CreateSecrets(key)
  \/ SyncSecrets \/ SyncSecretsFails
  \/ Migrate \/ ReconcileUpdate \/ ReconcileLegacy \/ BarrierFails
  \/ StartApi \/ ApiHealthy \/ ApiTooSlow \/ StartChildren \/ StartChildrenFails \/ SuperviseEnds
  \/ LauncherExits \/ ContainerEnds \/ Kill \/ PowerLoss
  \/ \E c \in Children : StopChild(c) \/ ChildDies(c)
  \/ DockerStop \/ DockerStart
  \/ \E p \in EnvPasswords, k \in Keys \cup {NoStore}, s \in {"old", "head"} :
       Recreate(p, k, s)
  \/ Login \/ SyncPassword \/ SyncPasswordFails \/ ConfirmPassword
  \/ \E p \in Passwords : ReplacePassword(p)

\* The launcher, the children's ends and Docker's restart go on; faults and
\* users do or do not.
Fairness ==
  /\ WF_vars(BootContainer) /\ WF_vars(LoadSecrets \/ ResetPassword \/ RefuseSecrets)
  /\ WF_vars(\E key \in Keys : CreateSecrets(key))
  /\ WF_vars(SyncSecrets) /\ WF_vars(Migrate) /\ WF_vars(ReconcileUpdate)
  /\ WF_vars(ReconcileLegacy) /\ WF_vars(StartApi) /\ WF_vars(ApiHealthy)
  /\ WF_vars(StartChildren) /\ WF_vars(SuperviseEnds)
  /\ WF_vars(\E c \in Children : StopChild(c))
  /\ WF_vars(LauncherExits) /\ WF_vars(ContainerEnds)

Spec == Init /\ [][Next]_vars /\ Fairness

(***************************************************************************)
(* Properties.                                                             *)
(***************************************************************************)
\* is_healthy, of what collect_health_status collects.
Healthy == phase = "supervising" /\ alive = Children

\* The keys of a database survive a loss of power, whenever it comes: the
\* credentials in it stay readable. (No later start syncs a file whose write was
\* interrupted before its sync, hence the condition.)
DataHasItsKey ==
  data # NoStore /\ ~torn => \A file \in {disk, durable} : file # NoStore /\ file.key = data

\* Password and revision are one unit: a cookie whose revision is the current one
\* was issued while the current password was in force, across restarts, resets
\* and changes (a write interrupted before its sync may lose the revision too).
RevisionNamesPassword == SessionValid /\ ~torn => session.password = memory.password

\* What the administrator was last told, or asked for with a new container, holds
\* after any restart and any failure; the image's default password never comes
\* back. (Except after an interrupted write, and where a container that has an
\* ADMIN_PASSWORD of its own starts a second time.)
Serving == "api" \in alive /\ change = NoChange
PasswordHolds == Serving /\ ~torn /\ ~again => told \in {memory.password, "unknown"}

\* Keys, revision and password survive restarts, resets and faults together.
SecretsHold == DataHasItsKey /\ RevisionNamesPassword /\ PasswordHolds

\* docs/deployment/docker-run.md:279: a restart does not bring back an old
\* password, whatever ADMIN_PASSWORD the container was created with.
OnlineChangeHolds == Serving /\ ~torn => told \in {memory.password, "unknown"}

\* api/v1/auth.py:94: after a change that failed the old password is valid.
FailedChangeHolds == Serving /\ ~again => told \in {memory.password, "unknown"}

\* The Scheduler and the Worker never meet a row of v0.1 that nobody owns, nor a
\* schema older than the code.
WorkersFindReadyData ==
  alive \cap {"scheduler", "worker"} # {} => ~Orphan(legacy) /\ schema = "head"

\* The launcher leaves no child behind, wherever it gave up.
NoOrphans == phase = "exited" => alive = {}

\* The start-up order, and the order in which the launcher gives up.
LaunchIsOrdered == TypeOK /\ WorkersFindReadyData /\ NoOrphans

\* When faults cease the Appliance is healthy again, unless it was stopped or
\* has not the keys of its data: another SECRET_KEY, or a file lost with its
\* interrupted write.
ServesAgain == []<>(Healthy \/ ~wanted \/ Refused)
================================================================================
