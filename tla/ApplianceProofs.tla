---------------------------- MODULE ApplianceProofs ----------------------------
(***************************************************************************)
(* Proofs about Appliance, for any passwords, keys and rows of v0.1 and    *)
(* any number of faults, containers and changes.                           *)
(***************************************************************************)
EXTENDS Appliance, TLAPS

(***************************************************************************)
(* The invariant.                                                          *)
(***************************************************************************)
Reconciled3 == {"starting_api", "waiting_api", "starting", "supervising"}
Migrated == Reconciled3 \cup {"update_reconciliation", "reconciliation"}

\* What each phase of the launcher may rely on.
PhasesSound ==
  /\ alive # {} => phase \in {"waiting_api", "starting", "supervising", "stopping"}
  /\ phase \in Migrated \/ alive # {} => schema = "head"
  /\ phase \in Reconciled3 \/ alive # {} => ~Orphan(legacy)
  /\ phase \in Migrated \cup {"syncing", "migration"} \/ alive # {} => disk # NoStore
  /\ change # NoChange => "api" \in alive
  /\ change.at = "idle" => change = NoChange

\* Unless a write was torn: the file is durable but between its replacement and
\* the sync, and it has the key of the database in both its forms.
FileSound ==
  ~torn =>
    /\ phase = "syncing" \/ change.at = "replaced" \/ durable = disk
    /\ data # NoStore => disk # NoStore /\ disk.key = data
    /\ data # NoStore => durable # NoStore /\ durable.key = data

\* The API process knows the file, but for a change it has not finished.
MemorySound ==
  ~torn /\ "api" \in alive =>
    /\ change = NoChange => memory.password = disk.password /\ memory.revision = disk.revision
    /\ change # NoChange => disk.revision = memory.revision + 1

\* A session is of the current revision, with its password, or of an older one.
SessionSound ==
  ~torn /\ session # NoSession =>
    /\ disk # NoStore
    /\ session.revision <= disk.revision
    /\ session.revision = disk.revision => session.password = disk.password
    /\ "api" \in alive =>
         /\ session.revision <= memory.revision
         /\ session.revision = memory.revision => session.password = memory.password

\* The administrator's belief, while no change is under way.
BeliefSound ==
  ~torn /\ ~again /\ change = NoChange /\ disk # NoStore => told \in {disk.password, "unknown"}

ApplianceInvariant ==
  TypeOK /\ PhasesSound /\ FileSound /\ MemorySound /\ SessionSound /\ BeliefSound

(***************************************************************************)
(* What the writes of the file and the reconciliation produce.             *)
(***************************************************************************)
\* reconcile_legacy_orphan leaves a row of v0.1 a row, and no orphan, whatever
\* its attempts, retries and runs were.
LEMMA ReconciledIsReady ==
  ASSUME NEW row \in Rows
  PROVE  Reconciled(row) \in Rows /\ ~Orphan(Reconciled(row))
BY DEF Reconciled, Orphan, Rows

\* The offline reset writes a whole file, with the key it found.
LEMMA ResetKeepsTheKey ==
  ASSUME ValuesTyped, ResetPassword
  PROVE  /\ disk \in Stores
         /\ disk' \in Stores /\ disk' # NoStore
         /\ disk'.key = disk.key
         /\ disk'.password = env.password
         /\ disk'.revision = disk.revision + 1
<1>1. env.password \in AllPasswords /\ RequestedForExisting = env.password
  BY DEF ValuesTyped, ResetPassword, RequestedForExisting, AllPasswords
<1>2. disk \in Stores
  BY DEF ValuesTyped, ResetPassword
<1>3. disk' = [key |-> disk.key, password |-> env.password, revision |-> disk.revision + 1]
  BY <1>1 DEF ResetPassword, Store
<1>4. disk' \in Stores
  BY <1>1, <1>2, <1>3 DEF Stores
<1>5. QED
  BY <1>2, <1>3, <1>4, ApplianceAssumption

\* The first start writes a whole file; the administrator is told its password.
LEMMA CreateSetsTheKey ==
  ASSUME ValuesTyped, NEW key \in Keys, CreateSecrets(key)
  PROVE  /\ disk' \in Stores /\ disk' # NoStore
         /\ disk'.key = key /\ disk'.revision = 0
         /\ told' = disk'.password
<1>1. PICK password \in AllPasswords :
        disk' = [key |-> key, password |-> password, revision |-> 0] /\ told' = password
  BY DEF ValuesTyped, CreateSecrets, Store, AllPasswords
<1>2. disk' \in Stores
  BY <1>1 DEF Stores
<1>3. QED
  BY <1>1, <1>2, ApplianceAssumption

\* The online change writes a whole file, with the key it found.
LEMMA ReplaceKeepsTheKey ==
  ASSUME ValuesTyped, PhasesSound, NEW p \in Passwords, ReplacePassword(p)
  PROVE  /\ disk \in Stores
         /\ disk' \in Stores /\ disk' # NoStore
         /\ disk'.key = disk.key
         /\ disk'.password = p
         /\ disk'.revision = disk.revision + 1
<1>1. disk \in Stores
  BY DEF ValuesTyped, PhasesSound, ReplacePassword, SessionValid
<1>2. disk' = [key |-> disk.key, password |-> p, revision |-> disk.revision + 1]
  BY DEF ReplacePassword
<1>3. disk' \in Stores
  BY <1>1, <1>2 DEF Stores, AllPasswords
<1>4. QED
  BY <1>1, <1>2, <1>3, ApplianceAssumption

(***************************************************************************)
(* Every step preserves every part of the invariant.                       *)
(***************************************************************************)
\* The end of the API process leaves the flags flags.
LEMMA ApiEndsFlags ==
  ASSUME torn \in BOOLEAN, again \in BOOLEAN, ApiEnds
  PROVE  torn' \in BOOLEAN /\ again' = again /\ asked' = asked
BY Zenon DEF ApiEnds
\* The flags stay flags.
LEMMA FlagsPreserved ==
  ASSUME FlagsTyped, [Next]_vars
  PROVE  FlagsTyped'
<1> USE DEF FlagsTyped, volume, container, history, api, bounds
<1>1. ASSUME NEW c \in Children, StopChild(c) \/ ChildDies(c)
      PROVE  FlagsTyped'
  BY <1>1, ApiEndsFlags DEF StopChild, ChildDies
<1>2. ASSUME NEW key \in Keys, CreateSecrets(key)
      PROVE  FlagsTyped'
  BY <1>2, Zenon DEF CreateSecrets, Store
<1>3. ASSUME NEW p \in EnvPasswords, NEW k \in Keys \cup {NoStore}, NEW s \in {"old", "head"},
             Recreate(p, k, s)
      PROVE  FlagsTyped'
  BY <1>3, Zenon DEF Recreate
<1>4. ASSUME NEW p \in Passwords, ReplacePassword(p)
      PROVE  FlagsTyped'
  BY <1>4 DEF ReplacePassword
<1>5. CASE ResetPassword
  BY <1>5, Zenon DEF ResetPassword, Store
<1>6. CASE Kill \/ PowerLoss
  BY <1>6, ApiEndsFlags DEF Kill, PowerLoss
<1>7. CASE UNCHANGED vars
  BY <1>7 DEF vars
<1>8. QED
  BY <1>1, <1>2, <1>3, <1>4, <1>5, <1>6, <1>7, Zenon DEF Next, vars, BootContainer,
      LoadSecrets, RefuseSecrets, SyncSecrets, SyncSecretsFails, Migrate,
      ReconcileUpdate, ReconcileLegacy, BarrierFails, StartApi, ApiHealthy,
      ApiTooSlow, StartChildren, StartChildrenFails, SuperviseEnds, LauncherExits,
      ContainerEnds,  DockerStop, DockerStart, Login, SyncPassword, SyncPasswordFails,
      ConfirmPassword

\* The other variables keep their types: what is copied from the file is copied
\* where there is one.
LEMMA TypesPreserved ==
  ASSUME ValuesTyped, PhasesSound, [Next]_vars
  PROVE  ValuesTyped'
<1> USE ApplianceAssumption
<1>1. CASE BootContainer
  BY <1>1 DEF BootContainer, ValuesTyped, Phases, volume, api, bounds
<1>2. CASE LoadSecrets
  BY <1>2 DEF LoadSecrets, ValuesTyped, Phases, Barriers, volume, api, bounds
<1>3. CASE ResetPassword
  <2>1. disk' \in Stores /\ phase' \in Phases
    BY <1>3, ResetKeepsTheKey DEF ResetPassword, Store, Phases
  <2>2. UNCHANGED <<durable, data, schema, legacy, env, alive, memory, change, session, bounds>>
    BY <1>3 DEF ResetPassword, Store, api
  <2>3. QED
    BY <2>1, <2>2 DEF ValuesTyped, bounds
<1>4. CASE RefuseSecrets
  BY <1>4 DEF RefuseSecrets, ValuesTyped, Phases, volume, api, bounds
<1>5. ASSUME NEW key \in Keys,
             CreateSecrets(key)
      PROVE  ValuesTyped'
  BY <1>5, CreateSetsTheKey DEF CreateSecrets, Store, ValuesTyped, Stores, Phases,
      api, bounds
<1>6. CASE SyncSecrets
  BY <1>6 DEF SyncSecrets, ValuesTyped, Phases, Barriers, api, bounds
<1>7. CASE SyncSecretsFails
  BY <1>7 DEF SyncSecretsFails, Fault, ValuesTyped, Phases, volume, api
<1>8. CASE Migrate
  <2>1. disk \in Stores
    BY <1>8 DEF Migrate, ValuesTyped, PhasesSound
  <2>2. data' \in Keys \cup {NoStore}
    BY <1>8, <2>1 DEF Migrate, ValuesTyped, Stores
  <2>3. QED
    BY <1>8, <2>2 DEF Migrate, ValuesTyped, Phases, Barriers, container, api, bounds
<1>9. CASE ReconcileUpdate
  BY <1>9 DEF ReconcileUpdate, ValuesTyped, Phases, Barriers, volume, api, bounds
<1>10. CASE ReconcileLegacy
  BY <1>10, ReconciledIsReady DEF ReconcileLegacy, ValuesTyped, Phases, api, bounds
<1>11. CASE BarrierFails
  BY <1>11 DEF BarrierFails, Fault, ValuesTyped, Phases, volume, api
<1>12. CASE StartApi
  <2>1. disk \in Stores
    BY <1>12 DEF StartApi, ValuesTyped, PhasesSound, Migrated, Reconciled3
  <2>2. memory' \in [password : AllPasswords \cup {"none"}, revision : Nat]
    BY <1>12, <2>1 DEF StartApi, Stores
  <2>3. change' \in [at : {"idle", "replaced", "synced"}, password : Passwords \cup {"none"}]
    BY <1>12 DEF StartApi, NoChange
  <2>4. phase' \in Phases /\ alive' \subseteq Children
    BY <1>12 DEF StartApi, Phases, Children
  <2>5. QED
    BY <1>12, <2>2, <2>3, <2>4 DEF StartApi, ValuesTyped, volume, bounds
<1>13. CASE ApiHealthy
  BY <1>13 DEF ApiHealthy, ValuesTyped, Phases, volume, api, bounds
<1>14. CASE ApiTooSlow
  BY <1>14 DEF ApiTooSlow, Fault, ValuesTyped, Phases, volume, api
<1>15. CASE StartChildren
  BY <1>15 DEF StartChildren, ValuesTyped, Phases, volume, api, bounds
<1>16. CASE StartChildrenFails
  BY <1>16 DEF StartChildrenFails, Fault, Children, ValuesTyped, Stores, Phases,
      volume, api
<1>17. CASE SuperviseEnds
  BY <1>17 DEF SuperviseEnds, ValuesTyped, Phases, volume, api, bounds
<1>18. CASE LauncherExits
  BY <1>18 DEF LauncherExits, ValuesTyped, Phases, volume, api, bounds
<1>19. CASE ContainerEnds
  BY <1>19 DEF ContainerEnds, ValuesTyped, Phases, volume, api, bounds
<1>20. CASE Kill
  BY <1>20 DEF Kill, Fault, ApiEnds, NoChange, ValuesTyped, Phases, volume
<1>21. CASE PowerLoss
  BY <1>21 DEF PowerLoss, Fault, ApiEnds, NoChange, ValuesTyped, Phases
<1>22. ASSUME NEW c \in Children,
             StopChild(c)
      PROVE  ValuesTyped'
  BY <1>22 DEF StopChild, ApiEnds, NoChange, ValuesTyped, volume, api, bounds
<1>23. ASSUME NEW c \in Children,
             ChildDies(c)
      PROVE  ValuesTyped'
  BY <1>23 DEF ChildDies, Fault, ApiEnds, NoChange, ValuesTyped, volume, api
<1>24. CASE DockerStop
  BY <1>24 DEF DockerStop, Change, ValuesTyped, volume, api
<1>25. CASE DockerStart
  BY <1>25 DEF DockerStart, ValuesTyped, volume, api, bounds
<1>26. ASSUME NEW p \in EnvPasswords, NEW k \in Keys \cup {NoStore}, NEW s \in {"old", "head"},
             Recreate(p, k, s)
      PROVE  ValuesTyped'
  BY <1>26 DEF Recreate, Change, ValuesTyped, api
<1>27. CASE Login
  BY <1>27 DEF Login, ValuesTyped, volume, container, api, bounds
<1>28. CASE SyncPassword
  BY <1>28 DEF SyncPassword, ValuesTyped, container, bounds
<1>29. CASE SyncPasswordFails
  BY <1>29 DEF SyncPasswordFails, Fault, NoChange, ValuesTyped, volume, container
<1>30. CASE ConfirmPassword
  <2>1. disk \in Stores
    BY <1>30 DEF ConfirmPassword, ValuesTyped, PhasesSound, NoChange
  <2>2. memory' \in [password : AllPasswords \cup {"none"}, revision : Nat]
    BY <1>30, <2>1 DEF ConfirmPassword, Stores
  <2>3. change' \in [at : {"idle", "replaced", "synced"}, password : Passwords \cup {"none"}]
    BY <1>30 DEF ConfirmPassword, NoChange
  <2>4. QED
    BY <1>30, <2>2, <2>3 DEF ConfirmPassword, ValuesTyped, volume, container, bounds
<1>31. ASSUME NEW p \in Passwords,
             ReplacePassword(p)
      PROVE  ValuesTyped'
  <2>1. disk' \in Stores
    BY <1>31, ReplaceKeepsTheKey
  <2>2. change' \in [at : {"idle", "replaced", "synced"}, password : Passwords \cup {"none"}]
    BY <1>31 DEF ReplacePassword
  <2>3. changes' \in 0 .. MaxChanges /\ UNCHANGED faults
    BY <1>31 DEF ReplacePassword, Change, ValuesTyped
  <2>4. UNCHANGED <<durable, data, schema, legacy, env, phase, alive, memory, session>>
    BY <1>31 DEF ReplacePassword, container
  <2>5. QED
    BY <2>1, <2>2, <2>3, <2>4 DEF ValuesTyped
<1>32. CASE UNCHANGED vars
  BY <1>32 DEF ValuesTyped, vars, volume, container, api, history, bounds
<1>33. QED
  BY <1>1, <1>2, <1>3, <1>4, <1>5, <1>6, <1>7, <1>8, <1>9, <1>10, <1>11, <1>12, <1>13,
      <1>14, <1>15, <1>16, <1>17, <1>18, <1>19, <1>20, <1>21, <1>22, <1>23, <1>24,
      <1>25, <1>26, <1>27, <1>28, <1>29, <1>30, <1>31, <1>32 DEF Next

\* The barriers stand between a start and the children.
LEMMA PhasesPreserved ==
  ASSUME ValuesTyped, PhasesSound, [Next]_vars
  PROVE  PhasesSound'
<1>1. CASE BootContainer
  BY <1>1 DEF BootContainer, PhasesSound, Migrated, Reconciled3, api
<1>2. CASE LoadSecrets
  BY <1>2 DEF LoadSecrets, PhasesSound, Migrated, Reconciled3, volume, api
<1>3. CASE ResetPassword
  BY <1>3, ResetKeepsTheKey DEF ResetPassword, Store, PhasesSound, Migrated,
      Reconciled3, api
<1>4. CASE RefuseSecrets
  BY <1>4 DEF RefuseSecrets, PhasesSound, Migrated, Reconciled3, api
<1>5. ASSUME NEW key \in Keys,
             CreateSecrets(key)
      PROVE  PhasesSound'
  <2>1. disk' # NoStore /\ phase' = "syncing"
    BY <1>5, CreateSetsTheKey DEF CreateSecrets, Store
  <2>2. alive = {} /\ change = NoChange
    BY <1>5 DEF CreateSecrets, PhasesSound
  <2>3. UNCHANGED <<alive, schema, legacy, change>>
    BY <1>5 DEF CreateSecrets, Store, api
  <2>4. QED
    BY <2>1, <2>2, <2>3 DEF PhasesSound, Migrated, Reconciled3
<1>6. CASE SyncSecrets
  BY <1>6 DEF SyncSecrets, PhasesSound, Migrated, Reconciled3, api
<1>7. CASE SyncSecretsFails
  BY <1>7 DEF SyncSecretsFails, PhasesSound, Migrated, Reconciled3, api
<1>8. CASE Migrate
  BY <1>8 DEF Migrate, PhasesSound, Reconciled3, api
<1>9. CASE ReconcileUpdate
  BY <1>9 DEF ReconcileUpdate, PhasesSound, Migrated, Reconciled3, volume, api
<1>10. CASE ReconcileLegacy
  BY <1>10, ReconciledIsReady DEF ReconcileLegacy, PhasesSound, ValuesTyped, Migrated,
      api
<1>11. CASE BarrierFails
  BY <1>11 DEF BarrierFails, PhasesSound, Migrated, Reconciled3, volume, api
<1>12. CASE StartApi
  BY <1>12 DEF StartApi, PhasesSound, Migrated, Reconciled3, volume
<1>13. CASE ApiHealthy
  BY <1>13 DEF ApiHealthy, PhasesSound, Migrated, Reconciled3, volume, api
<1>14. CASE ApiTooSlow
  BY <1>14 DEF ApiTooSlow, PhasesSound, Migrated, Reconciled3, volume, api
<1>15. CASE StartChildren
  BY <1>15 DEF StartChildren, PhasesSound, Migrated, Reconciled3, volume, api
<1>16. CASE StartChildrenFails
  BY <1>16 DEF StartChildrenFails, PhasesSound, Migrated, Reconciled3, volume, api
<1>17. CASE SuperviseEnds
  BY <1>17 DEF SuperviseEnds, PhasesSound, Migrated, Reconciled3, volume, api
<1>18. CASE LauncherExits
  BY <1>18 DEF LauncherExits, ShutdownOrder, PhasesSound, ValuesTyped, Migrated,
      Reconciled3, Children, api
<1>19. CASE ContainerEnds
  BY <1>19 DEF ContainerEnds, PhasesSound, Migrated, Reconciled3, api
<1>20. CASE Kill
  BY <1>20 DEF Kill, ApiEnds, PhasesSound, Migrated, Reconciled3
<1>21. CASE PowerLoss
  BY <1>21 DEF PowerLoss, ApiEnds, PhasesSound, Migrated, Reconciled3
<1>22. ASSUME NEW c \in Children,
             StopChild(c)
      PROVE  PhasesSound'
  BY <1>22 DEF StopChild, ApiEnds, PhasesSound, volume, api
<1>23. ASSUME NEW c \in Children,
             ChildDies(c)
      PROVE  PhasesSound'
  BY <1>23 DEF ChildDies, ApiEnds, PhasesSound, volume, api
<1>24. CASE DockerStop
  BY <1>24 DEF DockerStop, PhasesSound, volume, api
<1>25. CASE DockerStart
  BY <1>25 DEF DockerStart, PhasesSound, volume, api
<1>26. ASSUME NEW p \in EnvPasswords, NEW k \in Keys \cup {NoStore}, NEW s \in {"old", "head"},
             Recreate(p, k, s)
      PROVE  PhasesSound'
  BY <1>26 DEF Recreate, PhasesSound, Migrated, Reconciled3, api
<1>27. CASE Login
  BY <1>27 DEF Login, PhasesSound, volume, container, api
<1>28. CASE SyncPassword
  BY <1>28 DEF SyncPassword, PhasesSound, NoChange, container
<1>29. CASE SyncPasswordFails
  BY <1>29 DEF SyncPasswordFails, PhasesSound, volume, container
<1>30. CASE ConfirmPassword
  BY <1>30 DEF ConfirmPassword, PhasesSound, volume, container
<1>31. ASSUME NEW p \in Passwords,
             ReplacePassword(p)
      PROVE  PhasesSound'
  <2>1. disk' # NoStore /\ change'.at = "replaced" /\ "api" \in alive
    BY <1>31, ReplaceKeepsTheKey DEF ReplacePassword, SessionValid
  <2>2. UNCHANGED <<alive, schema, legacy, phase>>
    BY <1>31 DEF ReplacePassword, container
  <2>3. QED
    BY <2>1, <2>2 DEF PhasesSound, Orphan
<1>32. CASE UNCHANGED vars
  BY <1>32 DEF PhasesSound, vars, volume, container, api, history, bounds, Orphan
<1>33. QED
  BY <1>1, <1>2, <1>3, <1>4, <1>5, <1>6, <1>7, <1>8, <1>9, <1>10, <1>11, <1>12, <1>13,
      <1>14, <1>15, <1>16, <1>17, <1>18, <1>19, <1>20, <1>21, <1>22, <1>23, <1>24,
      <1>25, <1>26, <1>27, <1>28, <1>29, <1>30, <1>31, <1>32 DEF Next

\* The file keeps the key of the database, on disk and through a loss of power.
LEMMA FilePreserved ==
  ASSUME ValuesTyped, PhasesSound, FileSound, [Next]_vars
  PROVE  FileSound'
<1>1. CASE BootContainer
  BY <1>1 DEF BootContainer, FileSound, volume, api, history
<1>2. CASE LoadSecrets
  BY <1>2 DEF LoadSecrets, FileSound, volume, api
<1>3. CASE ResetPassword
  BY <1>3, ResetKeepsTheKey DEF ResetPassword, Store, FileSound
<1>4. CASE RefuseSecrets
  BY <1>4 DEF RefuseSecrets, FileSound, volume, api, history
<1>5. ASSUME NEW key \in Keys,
             CreateSecrets(key)
      PROVE  FileSound'
  BY <1>5 DEF CreateSecrets, Store, FileSound
<1>6. CASE SyncSecrets
  BY <1>6 DEF SyncSecrets, FileSound, history
<1>7. CASE SyncSecretsFails
  BY <1>7 DEF SyncSecretsFails, FileSound
<1>8. CASE Migrate
  BY <1>8 DEF Migrate, FileSound, PhasesSound, NoChange, history
<1>9. CASE ReconcileUpdate
  BY <1>9 DEF ReconcileUpdate, FileSound, volume, api, history
<1>10. CASE ReconcileLegacy
  BY <1>10 DEF ReconcileLegacy, FileSound, api, history
<1>11. CASE BarrierFails
  BY <1>11 DEF BarrierFails, Barriers, FileSound, volume, api, history
<1>12. CASE StartApi
  BY <1>12 DEF StartApi, FileSound, PhasesSound, volume, history
<1>13. CASE ApiHealthy
  BY <1>13 DEF ApiHealthy, FileSound, volume, api, history
<1>14. CASE ApiTooSlow
  BY <1>14 DEF ApiTooSlow, FileSound, volume, api, history
<1>15. CASE StartChildren
  BY <1>15 DEF StartChildren, FileSound, volume, api, history
<1>16. CASE StartChildrenFails
  BY <1>16 DEF StartChildrenFails, FileSound, volume, api, history
<1>17. CASE SuperviseEnds
  BY <1>17 DEF SuperviseEnds, FileSound, volume, api, history
<1>18. CASE LauncherExits
  BY <1>18 DEF LauncherExits, FileSound, volume, api, history
<1>19. CASE ContainerEnds
  BY <1>19 DEF ContainerEnds, FileSound, volume, api, history
<1>20. CASE Kill
  BY <1>20 DEF Kill, ApiEnds, FileSound, volume
<1>21. CASE PowerLoss
  BY <1>21 DEF PowerLoss, ApiEnds, FileSound
<1>22. ASSUME NEW c \in Children,
             StopChild(c)
      PROVE  FileSound'
  BY <1>22 DEF StopChild, ApiEnds, FileSound, volume, api, history
<1>23. ASSUME NEW c \in Children,
             ChildDies(c)
      PROVE  FileSound'
  BY <1>23 DEF ChildDies, ApiEnds, FileSound, volume, api, history
<1>24. CASE DockerStop
  BY <1>24 DEF DockerStop, FileSound, volume, api, history
<1>25. CASE DockerStart
  BY <1>25 DEF DockerStart, FileSound, volume, api, history
<1>26. ASSUME NEW p \in EnvPasswords, NEW k \in Keys \cup {NoStore}, NEW s \in {"old", "head"},
             Recreate(p, k, s)
      PROVE  FileSound'
  BY <1>26 DEF Recreate, FileSound, api
<1>27. CASE Login
  BY <1>27 DEF Login, FileSound, volume, container, api, history
<1>28. CASE SyncPassword
  BY <1>28 DEF SyncPassword, FileSound, history
<1>29. CASE SyncPasswordFails
  BY <1>29 DEF SyncPasswordFails, FileSound
<1>30. CASE ConfirmPassword
  BY <1>30 DEF ConfirmPassword, FileSound, volume, container
<1>31. ASSUME NEW p \in Passwords,
             ReplacePassword(p)
      PROVE  FileSound'
  <2>1. disk' # NoStore /\ disk'.key = disk.key /\ disk # NoStore /\ change'.at = "replaced"
    BY <1>31, ReplaceKeepsTheKey DEF ReplacePassword, SessionValid, PhasesSound
  <2>2. UNCHANGED <<durable, data, torn>>
    BY <1>31 DEF ReplacePassword, history
  <2>3. QED
    BY <2>1, <2>2 DEF FileSound
<1>32. CASE UNCHANGED vars
  BY <1>32 DEF FileSound, vars, volume, container, api, history, bounds
<1>33. QED
  BY <1>1, <1>2, <1>3, <1>4, <1>5, <1>6, <1>7, <1>8, <1>9, <1>10, <1>11, <1>12, <1>13,
      <1>14, <1>15, <1>16, <1>17, <1>18, <1>19, <1>20, <1>21, <1>22, <1>23, <1>24,
      <1>25, <1>26, <1>27, <1>28, <1>29, <1>30, <1>31, <1>32 DEF Next

\* The API process knows the file.
LEMMA MemoryPreserved ==
  ASSUME ValuesTyped, PhasesSound, FileSound, MemorySound, [Next]_vars
  PROVE  MemorySound'
<1>1. CASE BootContainer \/ LoadSecrets \/ RefuseSecrets \/ SyncSecrets \/
          Migrate \/ ReconcileUpdate \/ ReconcileLegacy \/ BarrierFails \/
          ApiHealthy \/ ApiTooSlow \/ SuperviseEnds \/ LauncherExits \/
          DockerStop \/ DockerStart \/ Login
  <2>1. UNCHANGED <<torn, alive, change, memory, disk>>
    BY <1>1 DEF BootContainer, LoadSecrets, RefuseSecrets, SyncSecrets, Migrate,
        ReconcileUpdate, ReconcileLegacy, BarrierFails, ApiHealthy, ApiTooSlow,
        SuperviseEnds, LauncherExits, DockerStop, DockerStart, Login, volume,
        container, api, history
  <2>2. QED
    BY <2>1 DEF MemorySound
<1>2. CASE ResetPassword
  BY <1>2 DEF ResetPassword, Store, MemorySound, PhasesSound
<1>3. ASSUME NEW key \in Keys,
             CreateSecrets(key)
      PROVE  MemorySound'
  BY <1>3 DEF CreateSecrets, Store, MemorySound, PhasesSound
<1>4. CASE SyncSecretsFails
  BY <1>4 DEF SyncSecretsFails, MemorySound
<1>5. CASE StartApi
  BY <1>5 DEF StartApi, MemorySound, volume
<1>6. CASE StartChildren
  BY <1>6 DEF StartChildren, MemorySound, volume, api, history
<1>7. CASE StartChildrenFails
  BY <1>7 DEF StartChildrenFails, MemorySound, volume, api, history
<1>8. CASE ContainerEnds
  BY <1>8 DEF ContainerEnds, MemorySound
<1>9. CASE Kill
  BY <1>9 DEF Kill, MemorySound
<1>10. CASE PowerLoss
  BY <1>10 DEF PowerLoss, MemorySound
<1>11. ASSUME NEW c \in Children,
             StopChild(c)
      PROVE  MemorySound'
  BY <1>11 DEF StopChild, MemorySound, volume, api, history
<1>12. ASSUME NEW c \in Children,
             ChildDies(c)
      PROVE  MemorySound'
  BY <1>12 DEF ChildDies, MemorySound, volume, api, history
<1>13. ASSUME NEW p \in EnvPasswords, NEW k \in Keys \cup {NoStore}, NEW s \in {"old", "head"},
             Recreate(p, k, s)
      PROVE  MemorySound'
  BY <1>13 DEF Recreate, MemorySound, api
<1>14. CASE SyncPassword
  BY <1>14 DEF SyncPassword, MemorySound, NoChange, container, history
<1>15. CASE SyncPasswordFails
  BY <1>15 DEF SyncPasswordFails, MemorySound
<1>16. CASE ConfirmPassword
  BY <1>16 DEF ConfirmPassword, MemorySound, volume
<1>17. ASSUME NEW p \in Passwords,
             ReplacePassword(p)
      PROVE  MemorySound'
  BY <1>17 DEF ReplacePassword, NoChange, MemorySound
<1>18. CASE UNCHANGED vars
  BY <1>18 DEF MemorySound, vars, volume, container, api, history, bounds
<1>19. QED
  BY <1>1, <1>2, <1>3, <1>4, <1>5, <1>6, <1>7, <1>8, <1>9, <1>10, <1>11, <1>12, <1>13,
      <1>14, <1>15, <1>16, <1>17, <1>18 DEF Next

\* The revision of a cookie is not above the current one.
LEMMA SessionPreserved ==
  ASSUME ValuesTyped, PhasesSound, FileSound, MemorySound, SessionSound, [Next]_vars
  PROVE  SessionSound'
<1>1. CASE BootContainer \/ LoadSecrets \/ RefuseSecrets \/ SyncSecrets \/
          Migrate \/ ReconcileUpdate \/ ReconcileLegacy \/ BarrierFails \/
          ApiHealthy \/ ApiTooSlow \/ SuperviseEnds \/ LauncherExits \/
          DockerStop \/ DockerStart \/ SyncPassword
  <2>1. UNCHANGED <<torn, alive, session, memory, disk>>
    BY <1>1 DEF BootContainer, LoadSecrets, RefuseSecrets, SyncSecrets, Migrate,
        ReconcileUpdate, ReconcileLegacy, BarrierFails, ApiHealthy, ApiTooSlow,
        SuperviseEnds, LauncherExits, DockerStop, DockerStart, SyncPassword, volume,
        container, api, history
  <2>2. QED
    BY <2>1 DEF SessionSound
<1>2. CASE ResetPassword
  <2>1. disk \in Stores /\ disk' # NoStore /\ disk'.revision = disk.revision + 1
    BY <1>2, ResetKeepsTheKey
  <2>2. "api" \notin alive /\ disk.revision \in Nat
    BY <1>2, <2>1 DEF ResetPassword, PhasesSound, Stores
  <2>3. UNCHANGED <<alive, session, memory, torn>>
    BY <1>2 DEF ResetPassword, Store, api
  <2>4. session # NoSession => session.revision \in Nat
    BY DEF ValuesTyped
  <2>5. QED
    BY <2>1, <2>2, <2>3, <2>4 DEF SessionSound
<1>3. ASSUME NEW key \in Keys,
             CreateSecrets(key)
      PROVE  SessionSound'
  BY <1>3 DEF CreateSecrets, Store, SessionSound
<1>4. CASE SyncSecretsFails
  BY <1>4 DEF SyncSecretsFails, SessionSound
<1>5. CASE StartApi
  BY <1>5 DEF StartApi, SessionSound, volume, history
<1>6. CASE StartChildren
  BY <1>6 DEF StartChildren, SessionSound, volume, api, history
<1>7. CASE StartChildrenFails
  BY <1>7 DEF StartChildrenFails, SessionSound, volume, api, history
<1>8. CASE ContainerEnds
  BY <1>8 DEF ContainerEnds, SessionSound, volume, history
<1>9. CASE Kill
  BY <1>9 DEF Kill, ApiEnds, SessionSound, volume
<1>10. CASE PowerLoss
  BY <1>10 DEF PowerLoss, ApiEnds, SessionSound, FileSound
<1>11. ASSUME NEW c \in Children,
             StopChild(c)
      PROVE  SessionSound'
  BY <1>11 DEF StopChild, ApiEnds, SessionSound, volume, api, history
<1>12. ASSUME NEW c \in Children,
             ChildDies(c)
      PROVE  SessionSound'
  BY <1>12 DEF ChildDies, ApiEnds, SessionSound, volume, api, history
<1>13. ASSUME NEW p \in EnvPasswords, NEW k \in Keys \cup {NoStore}, NEW s \in {"old", "head"},
             Recreate(p, k, s)
      PROVE  SessionSound'
  BY <1>13 DEF Recreate, SessionSound, api
<1>14. CASE Login
  BY <1>14 DEF Login, SessionSound, MemorySound, ValuesTyped, PhasesSound, volume,
      api, history
<1>15. CASE SyncPasswordFails
  BY <1>15 DEF SyncPasswordFails, SessionSound
<1>16. CASE ConfirmPassword
  BY <1>16 DEF ConfirmPassword, SessionSound, volume
<1>17. ASSUME NEW p \in Passwords,
             ReplacePassword(p)
      PROVE  SessionSound'
  <2>1. disk \in Stores /\ disk' # NoStore /\ disk'.revision = disk.revision + 1
    BY <1>17, ReplaceKeepsTheKey
  <2>2. disk.revision \in Nat
    BY <2>1 DEF Stores
  <2>3. UNCHANGED <<alive, session, memory, torn>>
    BY <1>17 DEF ReplacePassword, container, history
  <2>4. session # NoSession => session.revision \in Nat
    BY DEF ValuesTyped
  <2>5. QED
    BY <2>1, <2>2, <2>3, <2>4 DEF SessionSound
<1>18. CASE UNCHANGED vars
  BY <1>18 DEF SessionSound, vars, volume, container, api, history, bounds
<1>19. QED
  BY <1>1, <1>2, <1>3, <1>4, <1>5, <1>6, <1>7, <1>8, <1>9, <1>10, <1>11, <1>12, <1>13,
      <1>14, <1>15, <1>16, <1>17, <1>18 DEF Next

\* No start and no answer contradicts what the administrator was told.
LEMMA BeliefPreserved ==
  ASSUME ValuesTyped, PhasesSound, FileSound, MemorySound, BeliefSound, [Next]_vars
  PROVE  BeliefSound'
<1>1. CASE BootContainer \/ LoadSecrets \/ RefuseSecrets \/ SyncSecrets \/
          Migrate \/ ReconcileUpdate \/ ReconcileLegacy \/ BarrierFails \/
          ApiHealthy \/ ApiTooSlow \/ StartChildren \/ StartChildrenFails \/
          SuperviseEnds \/ LauncherExits \/ ContainerEnds \/ DockerStop \/
          DockerStart \/ Login
  <2>1. UNCHANGED <<torn, again, change, disk, told>>
    BY <1>1 DEF BootContainer, LoadSecrets, RefuseSecrets, SyncSecrets, Migrate,
        ReconcileUpdate, ReconcileLegacy, BarrierFails, ApiHealthy, ApiTooSlow,
        StartChildren, StartChildrenFails, SuperviseEnds, LauncherExits,
        ContainerEnds, DockerStop, DockerStart, Login, volume, api, history
  <2>2. QED
    BY <2>1 DEF BeliefSound
<1>2. CASE ResetPassword
  <2>1. disk'.password = env.password /\ disk # NoStore
    BY <1>2, ResetKeepsTheKey DEF ResetPassword
  <2>2. env.password # DefaultPassword /\ RequestedForExisting = env.password
    BY <1>2 DEF ResetPassword, RequestedForExisting
  <2>3. ~again' => told' = env.password
    BY <1>2, <2>2 DEF ResetPassword
  <2>4. QED
    BY <2>1, <2>3 DEF BeliefSound
<1>3. ASSUME NEW key \in Keys,
             CreateSecrets(key)
      PROVE  BeliefSound'
  BY <1>3, CreateSetsTheKey DEF CreateSecrets, BeliefSound
<1>4. CASE SyncSecretsFails
  BY <1>4 DEF SyncSecretsFails, BeliefSound
<1>5. CASE StartApi
  BY <1>5 DEF StartApi, BeliefSound, PhasesSound, volume, history
<1>6. CASE Kill
  BY <1>6 DEF Kill, ApiEnds, BeliefSound, volume
<1>7. CASE PowerLoss
  BY <1>7 DEF PowerLoss, ApiEnds, BeliefSound, FileSound
<1>8. ASSUME NEW c \in Children,
             StopChild(c)
      PROVE  BeliefSound'
  BY <1>8 DEF StopChild, ApiEnds, BeliefSound, volume, api, history
<1>9. ASSUME NEW c \in Children,
             ChildDies(c)
      PROVE  BeliefSound'
  BY <1>9 DEF ChildDies, ApiEnds, BeliefSound, volume, api, history
<1>10. ASSUME NEW p \in EnvPasswords, NEW k \in Keys \cup {NoStore}, NEW s \in {"old", "head"},
             Recreate(p, k, s)
      PROVE  BeliefSound'
  BY <1>10 DEF Recreate, BeliefSound, api
<1>11. CASE SyncPassword
  BY <1>11 DEF SyncPassword, BeliefSound, NoChange
<1>12. CASE SyncPasswordFails
  BY <1>12 DEF SyncPasswordFails, BeliefSound
<1>13. CASE ConfirmPassword
  BY <1>13 DEF ConfirmPassword, BeliefSound, volume
<1>14. ASSUME NEW p \in Passwords,
             ReplacePassword(p)
      PROVE  BeliefSound'
  BY <1>14 DEF ReplacePassword, NoChange, BeliefSound
<1>15. CASE UNCHANGED vars
  BY <1>15 DEF BeliefSound, vars, volume, container, api, history, bounds
<1>16. QED
  BY <1>1, <1>2, <1>3, <1>4, <1>5, <1>6, <1>7, <1>8, <1>9, <1>10, <1>11, <1>12, <1>13,
      <1>14, <1>15 DEF Next
(***************************************************************************)
(* Theorems.                                                               *)
(***************************************************************************)
\* Before the first start there is no file, no database, no process and no
\* session.
LEMMA InitialSound == Init => ApplianceInvariant
<1> SUFFICES ASSUME Init PROVE ApplianceInvariant
  OBVIOUS
<1>1. FlagsTyped
  BY DEF Init, FlagsTyped
<1>2. legacy \in Rows /\ env \in [password : EnvPasswords, key : Keys \cup {NoStore}]
  BY ApplianceAssumption DEF Init
<1>3. ValuesTyped
  BY <1>2, ApplianceAssumption DEF Init, ValuesTyped, Phases, NoChange
<1>4. PhasesSound
  BY DEF Init, PhasesSound, Migrated, Reconciled3
<1>5. FileSound /\ MemorySound /\ SessionSound /\ BeliefSound
  BY DEF Init, FileSound, MemorySound, SessionSound, BeliefSound
<1>6. QED
  BY <1>1, <1>3, <1>4, <1>5 DEF ApplianceInvariant, TypeOK

\* The invariant of the container: the launcher, the file, the API process, a
\* cookie and the administrator's belief fit together in every reachable state,
\* across kills, losses of power, new containers and interrupted changes.
THEOREM ApplianceInvariantHolds == Spec => []ApplianceInvariant
<1>1. Init => ApplianceInvariant
  BY InitialSound
<1>2. ApplianceInvariant /\ [Next]_vars => ApplianceInvariant'
  <2> SUFFICES ASSUME ApplianceInvariant, [Next]_vars PROVE ApplianceInvariant'
    OBVIOUS
  <2> USE DEF ApplianceInvariant, TypeOK
  <2>1. TypeOK'
    BY FlagsPreserved, TypesPreserved
  <2>2. PhasesSound' /\ FileSound' /\ MemorySound'
    BY PhasesPreserved, FilePreserved, MemoryPreserved
  <2>3. SessionSound' /\ BeliefSound'
    BY SessionPreserved, BeliefPreserved
  <2>4. QED
    BY <2>1, <2>2, <2>3
<1>3. QED
  BY <1>1, <1>2, PTL DEF Spec

\* The Scheduler and the Worker run only on a migrated database without orphans of
\* v0.1 (main and run of launcher.py run every barrier first), and the launcher
\* leaves no child behind wherever it gives up.
THEOREM LaunchIsOrderedHolds == Spec => []LaunchIsOrdered
<1>1. ApplianceInvariant => LaunchIsOrdered
  <2> SUFFICES ASSUME ApplianceInvariant PROVE LaunchIsOrdered
    OBVIOUS
  <2>1. TypeOK /\ PhasesSound
    BY DEF ApplianceInvariant
  <2>2. WorkersFindReadyData /\ NoOrphans
    BY <2>1 DEF PhasesSound, WorkersFindReadyData, NoOrphans
  <2>3. QED
    BY <2>1, <2>2 DEF LaunchIsOrdered
<1>2. QED
  BY <1>1, ApplianceInvariantHolds, PTL

\* Keys, revision and password survive restarts, resets and faults together
\* (runtime_secrets.py, admin_credentials.py, security.py), with the exceptions
\* that the property names.
THEOREM SecretsHoldHolds == Spec => []SecretsHold
<1>1. ApplianceInvariant => SecretsHold
  <2> SUFFICES ASSUME ApplianceInvariant PROVE SecretsHold
    OBVIOUS
  <2> USE DEF ApplianceInvariant
  <2>1. DataHasItsKey
    BY DEF FileSound, DataHasItsKey
  <2>2. RevisionNamesPassword
    BY DEF SessionSound, RevisionNamesPassword, SessionValid
  <2>3. PasswordHolds
    BY DEF PasswordHolds, Serving, PhasesSound, MemorySound, BeliefSound
  <2>4. QED
    BY <2>1, <2>2, <2>3 DEF SecretsHold
<1>2. QED
  BY <1>1, ApplianceInvariantHolds, PTL
================================================================================
