------------------------- MODULE UpdateInstallProofs -------------------------
(***************************************************************************)
(* Proofs about UpdateInstall, for any number of requests, tasks and       *)
(* Workers, any finite set of versions and any bounds.                     *)
(***************************************************************************)
EXTENDS UpdateInstall, FiniteSetTheorems, TLAPS

-------------------------------------------------------------------------------
(***************************************************************************)
(* The choice of the release (update_check_service.py, select_latest).     *)
(***************************************************************************)

\* ParsedVersion is ordered totally.
LEMMA NewerIsTotal ==
  ASSUME NEW v \in Versions, NEW w \in Versions, v # w
  PROVE  Newer(v, w) \/ Newer(w, v)
BY UpdateInstallAssumption DEF Newer, Stable

LEMMA NewerIsTransitive ==
  ASSUME NEW u \in Versions, NEW v \in Versions, NEW w \in Versions,
         Newer(u, v), Newer(v, w)
  PROVE  Newer(u, w)
<1>1. /\ u.number \in Nat /\ v.number \in Nat /\ w.number \in Nat
      /\ u.rc \in Nat /\ v.rc \in Nat /\ w.rc \in Nat
  BY UpdateInstallAssumption
<1>2. QED
  BY <1>1 DEF Newer, Stable

IsNewest(v, S) == v \in S /\ \A w \in S \ {v} : Newer(v, w)

\* Of versions on offer one is the newest, so that the choice is one of them.
\* Were it not so, the smallest set without a newest version would have one.
LEMMA NewestExists ==
  ASSUME NEW S \in SUBSET Versions, S # {}
  PROVE  \E v \in S : IsNewest(v, S)
<1> DEFINE Without == {X \in SUBSET Versions : X # {} /\ ~ \E v \in X : IsNewest(v, X)}
<1> SUFFICES ASSUME S \in Without
             PROVE  FALSE
  OBVIOUS
<1>1. IsWellFoundedOn(StrictSubsetOrdering(Versions), SUBSET Versions)
  BY UpdateInstallAssumption, FS_StrictSubsetOrderingWellFounded,
     FS_FiniteSubsetsOfFinite
<1>2. PICK X \in Without : \A Y \in Without : ~(<<Y, X>> \in StrictSubsetOrdering(Versions))
  <2>1. Without \subseteq SUBSET Versions /\ Without # {}
    OBVIOUS
  <2> HIDE DEF Without
  <2>2. QED
    BY <1>1, <2>1, WFMin, ZenonT(30)
<1>3. PICK v \in X : TRUE
  BY <1>2
<1> DEFINE Y == X \ {v}
<1>4. Y \in SUBSET Versions /\ <<Y, X>> \in StrictSubsetOrdering(Versions)
  BY <1>2, <1>3 DEF StrictSubsetOrdering
<1>5. CASE Y = {}
  <2>1. IsNewest(v, X)
    BY <1>3, <1>5 DEF IsNewest
  <2>2. QED
    BY <2>1, <1>2, <1>3
<1>6. CASE Y # {}
  <2>1. PICK m \in Y : IsNewest(m, Y)
    BY <1>2, <1>4, <1>6
  <2>2. v \in Versions /\ m \in Versions /\ m # v /\ m \in X /\ X \subseteq Versions
    BY <1>2, <1>3, <2>1
  <2>3. CASE Newer(m, v)
    <3>1. IsNewest(m, X)
      BY <2>1, <2>2, <2>3 DEF IsNewest
    <3>2. QED
      BY <3>1, <2>2, <1>2
  <2>4. CASE Newer(v, m)
    <3>1. ASSUME NEW w \in X \ {v}
          PROVE  Newer(v, w)
      <4>1. w = m \/ Newer(m, w)
        BY <2>1 DEF IsNewest
      <4>2. QED
        BY <4>1, <2>2, <2>4, NewerIsTransitive
    <3>2. IsNewest(v, X)
      BY <3>1, <1>3 DEF IsNewest
    <3>3. QED
      BY <3>2, <1>2, <1>3
  <2>5. QED
    BY <2>2, <2>3, <2>4, NewerIsTotal
<1>7. QED
  BY <1>5, <1>6

\* What is selected was listed for this channel.
LEMMA SelectionIsOffered ==
  ASSUME NEW L \in SUBSET Listings, NEW channel,
         SelectLatest(L, channel) # NoVersion
  PROVE  \E l \in Candidates(L, channel) : l.version = SelectLatest(L, channel)
<1> DEFINE offers == {l.version : l \in Candidates(L, channel)}
<1>1. offers # {}
  BY DEF SelectLatest
<1>2. offers \in SUBSET Versions
  BY UpdateInstallAssumption DEF Candidates
<1>3. \E v \in offers : \A w \in offers \ {v} : Newer(v, w)
  BY <1>1, <1>2, NewestExists DEF IsNewest
<1>4. SelectLatest(L, channel) = CHOOSE v \in offers : \A w \in offers \ {v} : Newer(v, w)
  BY <1>1 DEF SelectLatest
<1>5. SelectLatest(L, channel) \in offers
  BY <1>3, <1>4
<1>6. QED
  BY <1>5

-------------------------------------------------------------------------------
(***************************************************************************)
(* The invariant.                                                          *)
(***************************************************************************)

\* The slot of begin, without the count: what is active is one, and an installer
\* or a helper works for an active operation only.
SlotHeld ==
  /\ \A q, r \in Requests : Active(q) /\ Active(r) => q = r
  /\ \A r \in Requests : install[r].at \in Installing \cup {"handed"} => Active(r)

\* A release that may be offered to the running Appliance: of its channel, and
\* published.
Offered(v) ==
  /\ Stable(current) => Stable(v)
  /\ \E l \in listed : l.version = v /\ ~l.draft

\* The check, and every request that has read it, knows a release for the
\* Appliance that runs; with the Appliance they end.
OffersFit ==
  /\ latest # NoVersion => Offered(latest)
  /\ \A r \in Requests :
       install[r].at \in {"probing", "deciding"} =>
         appliance = "up" /\ (install[r].seen # NoVersion => Offered(install[r].seen))
  /\ appliance = "down" => latest = NoVersion
  /\ InstallsUpgrades

\* A Worker about to claim has read the gate while it was open, and the tasks
\* owned after a drain were claimed by such Workers.
StragglersKnown ==
  /\ \A w \in Workers : worker[w] = "claiming" => w \in early
  /\ AfterDrain => {t \in Tasks : task[t].owner # NoWorker} \subseteq stragglers

UpdateInvariant == TypeOK /\ SlotHeld /\ OffersFit /\ StragglersKnown

\* A check remembers a version, listed for the channel of the Appliance.
LEMMA SelectionKnown ==
  ASSUME TypeOK, NEW v \in {SelectLatest(listed, Channel(current))} \ {NoVersion}
  PROVE  v \in Versions /\ Offered(v)
<1>1. listed \in SUBSET Listings /\ current \in Versions
  BY DEF TypeOK
<1>2. PICK l \in Candidates(listed, Channel(current)) : l.version = v
  BY <1>1, SelectionIsOffered
<1>3. /\ l \in listed /\ ~l.draft /\ l.prerelease = ~Stable(l.version)
      /\ Channel(current) = "stable" => ~l.prerelease
  BY <1>2 DEF Candidates
<1>4. v \in Versions
  BY <1>1, <1>2, <1>3, UpdateInstallAssumption
<1>5. Stable(current) => Stable(v)
  BY <1>2, <1>3 DEF Channel
<1>6. QED
  BY <1>2, <1>3, <1>4, <1>5 DEF Offered

LEMMA InitInvariant == Init => UpdateInvariant
<1> SUFFICES ASSUME Init PROVE UpdateInvariant
  OBVIOUS
<1> USE UpdateInstallAssumption
<1>1. TypeOK
  BY DEF Init, TypeOK, Known, Installer, Operation, Task, Statuses, Places,
     EngineStates,
         TaskStatuses
<1>2. SlotHeld
  BY DEF Init, SlotHeld, Active, ActiveStatuses, Installing
<1>3. OffersFit
  BY DEF Init, OffersFit, InstallsUpgrades
<1>4. StragglersKnown
  BY DEF Init, StragglersKnown, AfterDrain
<1>5. QED
  BY <1>1, <1>2, <1>3, <1>4 DEF UpdateInvariant

-------------------------------------------------------------------------------
(***************************************************************************)
(* What the common parts of the actions do.                                *)
(***************************************************************************)

LEMMA Moved ==
  ASSUME TypeOK, NEW r \in Requests, NEW place \in Places, Moves(r, place)
  PROVE  /\ install' \in [Requests -> Installer]
         /\ install'[r].at = place
         /\ \A q \in Requests \ {r} : install'[q] = install[q]
         /\ \A q \in Requests : install'[q].seen = install[q].seen
BY DEF TypeOK, Moves, Installer

LEMMA Settled ==
  ASSUME TypeOK, NEW r \in Requests, NEW place \in Places, Settles(r, place)
  PROVE  /\ install' \in [Requests -> Installer]
         /\ install'[r].at = place /\ install'[r].seen = NoVersion
         /\ \A q \in Requests \ {r} : install'[q] = install[q]
BY DEF TypeOK, Settles, Installer, Known

LEMMA StatusWritten ==
  ASSUME TypeOK, NEW r \in Requests, NEW s \in Statuses,
         operation' = [operation EXCEPT ![r].status = s]
  PROVE  /\ operation' \in [Requests -> Operation]
         /\ operation'[r].status = s
         /\ operation'[r].source = operation[r].source
         /\ operation'[r].target = operation[r].target
         /\ \A q \in Requests \ {r} : operation'[q] = operation[q]
BY DEF TypeOK, Operation

\* _finish_failed: the operation ends if it has not ended yet.
LEMMA Failed ==
  ASSUME TypeOK, NEW r \in Requests, Fail(r)
  PROVE  /\ Moves(r, "ended")
         /\ \E s \in Statuses : /\ s = operation[r].status \/ s = "failed"
                                /\ s \notin ActiveStatuses
                                /\ operation' = [operation EXCEPT ![r].status = s]
         /\ UNCHANGED <<world, memory, task, current, appliance, worker, crashes, history>>
<1>1. operation[r].status \in Statuses
  BY DEF TypeOK, Operation
<1> DEFINE s == IF operation[r].status \in ActiveStatuses THEN "failed"
                ELSE operation[r].status
<1>2. s \in Statuses /\ s \notin ActiveStatuses
  BY <1>1 DEF Statuses, TerminalStatuses, ActiveStatuses
<1>3. operation' = [operation EXCEPT ![r].status = s]
  BY DEF Fail
<1>4. s = operation[r].status \/ s = "failed"
  OBVIOUS
<1>5. QED
  BY <1>2, <1>3, <1>4 DEF Fail

\* What survives the processes is what the helper or nobody works for.
LEMMA Died ==
  ASSUME TypeOK, ProcessesDie
  PROVE  /\ install' \in [Requests -> Installer]
         /\ \A q \in Requests :
              IF install[q].at \in {"idle", "refused", "handed", "ended"}
                THEN install'[q] = install[q]
                ELSE install'[q].at = "lost" /\ install'[q].seen = NoVersion
         /\ latest' = NoVersion /\ fresh' = FALSE /\ capability' = "unknown"
         /\ worker' = [w \in Workers |-> "idle"] /\ early' = {}
<1>1. [at |-> "lost", seen |-> NoVersion, payload |-> NoVersion] \in Installer
  BY DEF Installer, Places, Known
<1>2. QED
  BY <1>1 DEF TypeOK, ProcessesDie

\* A known operation keeps its source and target, whatever becomes of it.
LEMMA UpgradesKept ==
  ASSUME TypeOK, InstallsUpgrades, NEW r \in Requests, operation[r].status # "none",
         NEW s \in Statuses, operation' = [operation EXCEPT ![r].status = s],
         UNCHANGED listed
  PROVE  InstallsUpgrades'
<1>1. \A q \in Requests : /\ operation'[q].source = operation[q].source
                          /\ operation'[q].target = operation[q].target
                          /\ operation'[q].status # "none" => operation[q].status # "none"
  BY StatusWritten
<1>2. QED
  BY <1>1 DEF InstallsUpgrades

\* The target of an active operation is a version.
LEMMA TargetIsVersion ==
  ASSUME TypeOK, InstallsUpgrades, NEW r \in Requests, operation[r].status # "none"
  PROVE  operation[r].target \in Versions
BY UpdateInstallAssumption DEF TypeOK, InstallsUpgrades

\* A claim gives one free task to the Worker that claims.
LEMMA Claimed ==
  ASSUME TypeOK, NEW w \in Workers, NEW t \in Tasks,
         task' = [task EXCEPT ![t].owner = w,
                              ![t].status = IF @ = "pending" THEN "running" ELSE @]
  PROVE  /\ task' \in [Tasks -> Task]
         /\ \A u \in Tasks \ {t} : task'[u] = task[u]
<1>1. task[t] \in Task
  BY DEF TypeOK
<1>2. task'[t] = [status |-> IF task[t].status = "pending" THEN "running" ELSE task[t].status,
                  owner |-> w]
  BY <1>1 DEF TypeOK, Task
<1>3. task'[t] \in Task
  BY <1>1, <1>2 DEF Task, TaskStatuses
<1>4. QED
  BY <1>3 DEF TypeOK

-------------------------------------------------------------------------------
(***************************************************************************)
(* Every step keeps each part of the invariant.                            *)
(***************************************************************************)

\* The rows, caches and requests keep their types.
LEMMA TypesPreserved ==
  ASSUME TypeOK, SlotHeld, OffersFit, Next
  PROVE  TypeOK'
<1> USE DEF world, memory, history, TypeOK
<1>1. CASE EngineChanges
  BY <1>1 DEF EngineChanges, Change, EngineStates
<1>2. CASE Check
  BY <1>2, SelectionKnown DEF Check, Known
<1>3. CASE CacheExpires
  BY <1>3 DEF CacheExpires, EngineStates
<1>4. CASE Crash
  BY <1>4, Died DEF Crash, Known, EngineStates
<1>5. ASSUME NEW l \in Listings, Publish(l) PROVE TypeOK'
  BY <1>5 DEF Publish, Change
<1>6. ASSUME NEW r \in Requests, RequestInstall(r) PROVE TypeOK'
  BY <1>6, UpdateInstallAssumption DEF RequestInstall, Installer, Known, Places
<1>7. ASSUME NEW r \in Requests, Probe(r) PROVE TypeOK'
  BY <1>7, Moved, Settled DEF Probe, Places, Installing, EngineStates
<1>8. ASSUME NEW r \in Requests, Begin(r) PROVE TypeOK'
  <2>1. /\ install[r] \in Installer /\ operation \in [Requests -> Operation]
        /\ current \in Versions
    OBVIOUS
  <2>2. [status |-> "pulling", source |-> current, target |-> install[r].payload] \in Operation
    BY <2>1 DEF Operation, Statuses, ActiveStatuses, Installer, Known
  <2>3. operation' \in [Requests -> Operation]
    BY <1>8, <2>1, <2>2 DEF Begin
  <2>4. install' \in [Requests -> Installer]
    BY <1>8, Settled DEF Begin, Places, Installing
  <2>5. QED
    BY <1>8, <2>3, <2>4 DEF Begin
<1>9. ASSUME NEW r \in Requests, Refuse(r) PROVE TypeOK'
  BY <1>9, Settled DEF Refuse, Places, Installing
<1>10. ASSUME NEW r \in Requests, Drain(r) PROVE TypeOK'
  BY <1>10, Moved, StatusWritten DEF Drain, Advance, Places, Installing, Statuses,
     ActiveStatuses, TerminalStatuses
<1>11. ASSUME NEW r \in Requests, PullFails(r) PROVE TypeOK'
  BY <1>11, Failed, Moved, StatusWritten DEF PullFails, Places, Installing
<1>12. ASSUME NEW r \in Requests, DrainEnds(r) PROVE TypeOK'
  BY <1>12, Moved DEF DrainEnds, Places, Installing
<1>13. ASSUME NEW r \in Requests, DrainTimesOut(r) PROVE TypeOK'
  BY <1>13, Failed, Moved, StatusWritten DEF DrainTimesOut, Places, Installing
<1>14. ASSUME NEW r \in Requests, HandOver(r) PROVE TypeOK'
  BY <1>14, Moved, StatusWritten DEF HandOver, Advance, Places, Installing,
     Statuses, ActiveStatuses, TerminalStatuses
<1>15. ASSUME NEW r \in Requests, HandOverFails(r) PROVE TypeOK'
  BY <1>15, Failed, Moved, StatusWritten DEF HandOverFails, Places, Installing
<1>16. ASSUME NEW r \in Requests, StartHelper(r) PROVE TypeOK'
  BY <1>16, Moved DEF StartHelper, Places, Installing
<1>17. ASSUME NEW r \in Requests, HelperStops(r) PROVE TypeOK'
  BY <1>17, Died DEF HelperStops, Known, EngineStates
<1>18. ASSUME NEW r \in Requests, HelperEnds(r) PROVE TypeOK'
  <2>1. install' \in [Requests -> Installer]
    BY <1>18, Moved DEF HelperEnds, Places
  <2>2. operation[r].target \in Versions
    BY <1>18, TargetIsVersion DEF HelperEnds, SlotHeld, Active, ActiveStatuses,
       OffersFit
  <2>3. operation' \in [Requests -> Operation]
    BY <1>18, StatusWritten DEF HelperEnds, Statuses, TerminalStatuses
  <2>4. current' \in Versions
    BY <1>18, <2>2 DEF HelperEnds
  <2>5. QED
    BY <1>18, <2>1, <2>3, <2>4 DEF HelperEnds
<1>19. ASSUME NEW w \in Workers, Recover(w) PROVE TypeOK'
  BY <1>19 DEF Recover, Task, TaskStatuses
<1>20. ASSUME NEW w \in Workers, ReadGate(w) PROVE TypeOK'
  BY <1>20 DEF ReadGate
<1>21. ASSUME NEW w \in Workers, Claim(w) PROVE TypeOK'
  <2>1. CASE \E t \in Tasks : Claimable(t)
    <3>1. PICK t \in Tasks :
            /\ task' = [task EXCEPT ![t].owner = w,
                          ![t].status = IF @ = "pending" THEN "running" ELSE @]
            /\ stragglers' \subseteq stragglers \cup {t}
            /\ worker' = [worker EXCEPT ![w] = "running"]
      BY <1>21, <2>1 DEF Claim
    <3>2. task' \in [Tasks -> Task]
      BY <3>1, Claimed
    <3>3. QED
      BY <1>21, <3>1, <3>2 DEF Claim
  <2>2. CASE ~ \E t \in Tasks : Claimable(t)
    BY <1>21, <2>2 DEF Claim
  <2>3. QED
    BY <2>1, <2>2
<1>22. ASSUME NEW w \in Workers, FinishTask(w) PROVE TypeOK'
  BY <1>22 DEF FinishTask, Task, TaskStatuses
<1>23. ASSUME NEW t \in Tasks, CancelTask(t) PROVE TypeOK'
  BY <1>23 DEF CancelTask, Task, TaskStatuses
<1>24. QED
  BY <1>1, <1>2, <1>3, <1>4, <1>5, <1>6, <1>7, <1>8, <1>9, <1>10, <1>11, <1>12,
     <1>13, <1>14, <1>15, <1>16, <1>17, <1>18, <1>19, <1>20, <1>21, <1>22, <1>23 DEF
     Next

\* An operation becomes active only while none is, and ends with its installer.
LEMMA SlotPreserved ==
  ASSUME TypeOK, SlotHeld, Next
  PROVE  SlotHeld'
<1> USE DEF world, memory, history, TypeOK, SlotHeld, Active
<1>1. CASE EngineChanges
  BY <1>1 DEF EngineChanges, Change
<1>2. CASE Check
  BY <1>2 DEF Check
<1>3. CASE CacheExpires
  BY <1>3 DEF CacheExpires
<1>4. CASE Crash
  BY <1>4, Died DEF Crash, Places, Installing
<1>5. ASSUME NEW l \in Listings, Publish(l) PROVE SlotHeld'
  BY <1>5 DEF Publish, Change
<1>6. ASSUME NEW r \in Requests, RequestInstall(r) PROVE SlotHeld'
  BY <1>6 DEF RequestInstall, Places, Installing
<1>7. ASSUME NEW r \in Requests, Probe(r) PROVE SlotHeld'
  BY <1>7, Moved, Settled DEF Probe, Places, Installing
<1>8. ASSUME NEW r \in Requests, Begin(r) PROVE SlotHeld'
  BY <1>8, Settled DEF Begin, Places, Installing, SlotFree, Active, ActiveStatuses,
     Installer, Operation
<1>9. ASSUME NEW r \in Requests, Refuse(r) PROVE SlotHeld'
  BY <1>9, Settled DEF Refuse, Places, Installing
<1>10. ASSUME NEW r \in Requests, Drain(r) PROVE SlotHeld'
  BY <1>10, Moved, StatusWritten DEF Drain, Advance, Places, Installing, Statuses,
     ActiveStatuses, TerminalStatuses
<1>11. ASSUME NEW r \in Requests, PullFails(r) PROVE SlotHeld'
  BY <1>11, Failed, Moved, StatusWritten DEF PullFails, Places, Installing,
     ActiveStatuses
<1>12. ASSUME NEW r \in Requests, DrainEnds(r) PROVE SlotHeld'
  BY <1>12, Moved DEF DrainEnds, Places, Installing
<1>13. ASSUME NEW r \in Requests, DrainTimesOut(r) PROVE SlotHeld'
  BY <1>13, Failed, Moved, StatusWritten DEF DrainTimesOut, Places, Installing,
     ActiveStatuses
<1>14. ASSUME NEW r \in Requests, HandOver(r) PROVE SlotHeld'
  BY <1>14, Moved, StatusWritten DEF HandOver, Advance, Places, Installing,
     Statuses, ActiveStatuses, TerminalStatuses
<1>15. ASSUME NEW r \in Requests, HandOverFails(r) PROVE SlotHeld'
  BY <1>15, Failed, Moved, StatusWritten DEF HandOverFails, Places, Installing,
     ActiveStatuses
<1>16. ASSUME NEW r \in Requests, StartHelper(r) PROVE SlotHeld'
  BY <1>16, Moved DEF StartHelper, Places, Installing
<1>17. ASSUME NEW r \in Requests, HelperStops(r) PROVE SlotHeld'
  BY <1>17, Died DEF HelperStops, Places, Installing
<1>18. ASSUME NEW r \in Requests, HelperEnds(r) PROVE SlotHeld'
  BY <1>18, Moved, StatusWritten DEF HelperEnds, Places, Installing, Statuses,
     ActiveStatuses, TerminalStatuses
<1>19. ASSUME NEW w \in Workers, Recover(w) PROVE SlotHeld'
  BY <1>19 DEF Recover
<1>20. ASSUME NEW w \in Workers, ReadGate(w) PROVE SlotHeld'
  BY <1>20 DEF ReadGate
<1>21. ASSUME NEW w \in Workers, Claim(w) PROVE SlotHeld'
  BY <1>21 DEF Claim
<1>22. ASSUME NEW w \in Workers, FinishTask(w) PROVE SlotHeld'
  BY <1>22 DEF FinishTask
<1>23. ASSUME NEW t \in Tasks, CancelTask(t) PROVE SlotHeld'
  BY <1>23 DEF CancelTask
<1>24. QED
  BY <1>1, <1>2, <1>3, <1>4, <1>5, <1>6, <1>7, <1>8, <1>9, <1>10, <1>11, <1>12,
     <1>13, <1>14, <1>15, <1>16, <1>17, <1>18, <1>19, <1>20, <1>21, <1>22, <1>23 DEF
     Next

\* After a drain only a Worker that read the gate before it closed claims a task.
LEMMA StragglersPreserved ==
  ASSUME TypeOK, SlotHeld, StragglersKnown, Next
  PROVE  StragglersKnown'
<1> USE DEF world, memory, history, TypeOK, StragglersKnown, AfterDrain
<1>1. CASE EngineChanges
  BY <1>1 DEF EngineChanges, Change
<1>2. CASE Check
  BY <1>2 DEF Check
<1>3. CASE CacheExpires
  BY <1>3 DEF CacheExpires
<1>4. CASE Crash
  BY <1>4, Died DEF Crash, Places, Installing
<1>5. ASSUME NEW l \in Listings, Publish(l) PROVE StragglersKnown'
  BY <1>5 DEF Publish, Change
<1>6. ASSUME NEW r \in Requests, RequestInstall(r) PROVE StragglersKnown'
  BY <1>6 DEF RequestInstall, Installer
<1>7. ASSUME NEW r \in Requests, Probe(r) PROVE StragglersKnown'
  BY <1>7, Moved, Settled DEF Probe, Places, Installing
<1>8. ASSUME NEW r \in Requests, Begin(r) PROVE StragglersKnown'
  BY <1>8, Settled DEF Begin, Installer, Places, Installing
<1>9. ASSUME NEW r \in Requests, Refuse(r) PROVE StragglersKnown'
  BY <1>9, Settled DEF Refuse, Places, Installing
<1>10. ASSUME NEW r \in Requests, Drain(r) PROVE StragglersKnown'
  BY <1>10, Moved, StatusWritten DEF Drain, Advance, Places, Installing, Statuses,
     ActiveStatuses, TerminalStatuses
<1>11. ASSUME NEW r \in Requests, PullFails(r) PROVE StragglersKnown'
  BY <1>11, Failed, Moved, StatusWritten DEF PullFails, Places, Installing
<1>12. ASSUME NEW r \in Requests, DrainEnds(r) PROVE StragglersKnown'
  BY <1>12, Moved DEF DrainEnds, Places, Installing, Busy
<1>13. ASSUME NEW r \in Requests, DrainTimesOut(r) PROVE StragglersKnown'
  BY <1>13, Failed, Moved, StatusWritten DEF DrainTimesOut, Places, Installing
<1>14. ASSUME NEW r \in Requests, HandOver(r) PROVE StragglersKnown'
  BY <1>14, Moved, StatusWritten DEF HandOver, Advance, Places, Installing,
     Statuses, ActiveStatuses, TerminalStatuses
<1>15. ASSUME NEW r \in Requests, HandOverFails(r) PROVE StragglersKnown'
  BY <1>15, Failed, Moved, StatusWritten DEF HandOverFails, Places, Installing
<1>16. ASSUME NEW r \in Requests, StartHelper(r) PROVE StragglersKnown'
  BY <1>16, Moved DEF StartHelper, Places, Installing
<1>17. ASSUME NEW r \in Requests, HelperStops(r) PROVE StragglersKnown'
  BY <1>17, Died DEF HelperStops, Places, Installing
<1>18. ASSUME NEW r \in Requests, HelperEnds(r) PROVE StragglersKnown'
  BY <1>18, Moved, StatusWritten DEF HelperEnds, Places, Installing, Statuses,
     ActiveStatuses, TerminalStatuses, SlotHeld, Active
<1>19. ASSUME NEW w \in Workers, Recover(w) PROVE StragglersKnown'
  BY <1>19 DEF Recover, Task
<1>20. ASSUME NEW w \in Workers, ReadGate(w) PROVE StragglersKnown'
  BY <1>20 DEF ReadGate, GateClosed
<1>21. ASSUME NEW w \in Workers, Claim(w) PROVE StragglersKnown'
  <2>1. \A v \in Workers : worker'[v] = "claiming" => v \in early'
    BY <1>21 DEF Claim
  <2>2. CASE \E t \in Tasks : Claimable(t)
    <3>1. PICK t \in Tasks :
            /\ task' = [task EXCEPT ![t].owner = w,
                          ![t].status = IF @ = "pending" THEN "running" ELSE @]
            /\ stragglers' = IF w \in early /\ AfterDrain
                               THEN stragglers \cup {t} ELSE stragglers
      BY <1>21, <2>2 DEF Claim
    <3>2. \A u \in Tasks \ {t} : task'[u] = task[u]
      BY <3>1, Claimed
    <3>3. w \in early /\ UNCHANGED install
      BY <1>21 DEF Claim
    <3>4. QED
      BY <2>1, <3>1, <3>2, <3>3
  <2>3. CASE ~ \E t \in Tasks : Claimable(t)
    BY <1>21, <2>1, <2>3 DEF Claim
  <2>4. QED
    BY <2>2, <2>3
<1>22. ASSUME NEW w \in Workers, FinishTask(w) PROVE StragglersKnown'
  BY <1>22 DEF FinishTask, Task
<1>23. ASSUME NEW t \in Tasks, CancelTask(t) PROVE StragglersKnown'
  BY <1>23 DEF CancelTask, Task
<1>24. QED
  BY <1>1, <1>2, <1>3, <1>4, <1>5, <1>6, <1>7, <1>8, <1>9, <1>10, <1>11, <1>12,
     <1>13, <1>14, <1>15, <1>16, <1>17, <1>18, <1>19, <1>20, <1>21, <1>22, <1>23 DEF
     Next

\* What is offered is of the channel of the Appliance that runs, until it ends.
LEMMA OffersPreserved ==
  ASSUME TypeOK, SlotHeld, OffersFit, Next
  PROVE  OffersFit'
<1> USE DEF world, memory, history, TypeOK, OffersFit, Offered, InstallsUpgrades
<1>1. CASE EngineChanges
  BY <1>1 DEF EngineChanges, Change
<1>2. CASE Check
  BY <1>2, SelectionKnown DEF Check
<1>3. CASE CacheExpires
  BY <1>3 DEF CacheExpires
<1>4. CASE Crash
  BY <1>4, Died DEF Crash, Places, Installing
<1>5. ASSUME NEW l \in Listings, Publish(l) PROVE OffersFit'
  BY <1>5 DEF Publish, Change
<1>6. ASSUME NEW r \in Requests, RequestInstall(r) PROVE OffersFit'
  BY <1>6 DEF RequestInstall, Installer
<1>7. ASSUME NEW r \in Requests, Probe(r) PROVE OffersFit'
  BY <1>7, Moved, Settled DEF Probe, Places, Installing
<1>8. ASSUME NEW r \in Requests, Begin(r) PROVE OffersFit'
  BY <1>8, Settled DEF Begin, Places, Installing, Acceptable, UpdateAvailable, Installer
<1>9. ASSUME NEW r \in Requests, Refuse(r) PROVE OffersFit'
  BY <1>9, Settled DEF Refuse, Places, Installing
<1>10. ASSUME NEW r \in Requests, Drain(r) PROVE OffersFit'
  BY <1>10, Moved, StatusWritten DEF Drain, Advance, Places, Installing, Statuses,
     ActiveStatuses, TerminalStatuses
<1>11. ASSUME NEW r \in Requests, PullFails(r) PROVE OffersFit'
  <2>1. operation[r].status # "none"
    BY <1>11 DEF PullFails, SlotHeld, Active, ActiveStatuses, Installing
  <2>2. InstallsUpgrades'
    BY <1>11, <2>1, Failed, UpgradesKept DEF PullFails
  <2>3. /\ \A q \in Requests : install'[q].at \in {"probing", "deciding"} => install'[q] = install[q]
        /\ UNCHANGED <<listed, latest, current, appliance>>
    BY <1>11, Failed, Moved DEF PullFails, Places
  <2>4. QED
    BY <2>2, <2>3
<1>12. ASSUME NEW r \in Requests, DrainEnds(r) PROVE OffersFit'
  BY <1>12, Moved DEF DrainEnds, Places, Installing
<1>13. ASSUME NEW r \in Requests, DrainTimesOut(r) PROVE OffersFit'
  <2>1. operation[r].status # "none"
    BY <1>13 DEF DrainTimesOut, SlotHeld, Active, ActiveStatuses, Installing
  <2>2. InstallsUpgrades'
    BY <1>13, <2>1, Failed, UpgradesKept DEF DrainTimesOut
  <2>3. /\ \A q \in Requests : install'[q].at \in {"probing", "deciding"} => install'[q] = install[q]
        /\ UNCHANGED <<listed, latest, current, appliance>>
    BY <1>13, Failed, Moved DEF DrainTimesOut, Places
  <2>4. QED
    BY <2>2, <2>3
<1>14. ASSUME NEW r \in Requests, HandOver(r) PROVE OffersFit'
  <2>1. operation[r].status # "none"
    BY <1>14 DEF HandOver, SlotHeld, Active, ActiveStatuses, Installing
  <2>2. InstallsUpgrades'
    BY <1>14, <2>1, UpgradesKept DEF HandOver, Advance, Statuses, ActiveStatuses,
       TerminalStatuses
  <2>3. /\ \A q \in Requests : install'[q].at \in {"probing", "deciding"} => install'[q] = install[q]
        /\ UNCHANGED <<listed, latest, current, appliance>>
    BY <1>14, Moved DEF HandOver, Places, Installing
  <2>4. QED
    BY <2>2, <2>3
<1>15. ASSUME NEW r \in Requests, HandOverFails(r) PROVE OffersFit'
  <2>1. operation[r].status # "none"
    BY <1>15 DEF HandOverFails, SlotHeld, Active, ActiveStatuses, Installing
  <2>2. InstallsUpgrades'
    BY <1>15, <2>1, Failed, UpgradesKept DEF HandOverFails
  <2>3. /\ \A q \in Requests : install'[q].at \in {"probing", "deciding"} => install'[q] = install[q]
        /\ UNCHANGED <<listed, latest, current, appliance>>
    BY <1>15, Failed, Moved DEF HandOverFails, Places
  <2>4. QED
    BY <2>2, <2>3
<1>16. ASSUME NEW r \in Requests, StartHelper(r) PROVE OffersFit'
  BY <1>16, Moved DEF StartHelper, Places, Installing
<1>17. ASSUME NEW r \in Requests, HelperStops(r) PROVE OffersFit'
  BY <1>17, Died DEF HelperStops, Places, Installing
<1>18. ASSUME NEW r \in Requests, HelperEnds(r) PROVE OffersFit'
  <2>1. operation[r].status # "none"
    BY <1>18 DEF HelperEnds, SlotHeld, Active, ActiveStatuses, Installing
  <2>2. InstallsUpgrades'
    BY <1>18, <2>1, UpgradesKept DEF HelperEnds, Advance, Statuses, ActiveStatuses,
       TerminalStatuses
  <2>3. /\ \A q \in Requests : install'[q].at \in {"probing", "deciding"} => install'[q] = install[q]
        /\ UNCHANGED <<listed, latest>>
    BY <1>18, Moved DEF HelperEnds, Places, Installing
  <2>4. QED
    BY <1>18, <2>2, <2>3 DEF HelperEnds
<1>19. ASSUME NEW w \in Workers, Recover(w) PROVE OffersFit'
  BY <1>19 DEF Recover
<1>20. ASSUME NEW w \in Workers, ReadGate(w) PROVE OffersFit'
  BY <1>20 DEF ReadGate
<1>21. ASSUME NEW w \in Workers, Claim(w) PROVE OffersFit'
  BY <1>21 DEF Claim
<1>22. ASSUME NEW w \in Workers, FinishTask(w) PROVE OffersFit'
  BY <1>22 DEF FinishTask
<1>23. ASSUME NEW t \in Tasks, CancelTask(t) PROVE OffersFit'
  BY <1>23 DEF CancelTask
<1>24. QED
  BY <1>1, <1>2, <1>3, <1>4, <1>5, <1>6, <1>7, <1>8, <1>9, <1>10, <1>11, <1>12,
     <1>13, <1>14, <1>15, <1>16, <1>17, <1>18, <1>19, <1>20, <1>21, <1>22, <1>23 DEF
     Next

LEMMA InvariantPreserved == UpdateInvariant /\ [Next]_vars => UpdateInvariant'
<1> SUFFICES ASSUME UpdateInvariant, [Next]_vars PROVE UpdateInvariant'
  OBVIOUS
<1>1. CASE Next
  BY <1>1, TypesPreserved, SlotPreserved, OffersPreserved, StragglersPreserved DEF
     UpdateInvariant
<1>2. CASE UNCHANGED vars
  <2>1. TypeOK'
    BY <1>2 DEF vars, world, memory, history, UpdateInvariant, TypeOK
  <2>2. SlotHeld'
    BY <1>2 DEF vars, world, memory, history, UpdateInvariant, SlotHeld, Active
  <2>3. OffersFit'
    BY <1>2 DEF vars, world, memory, history, UpdateInvariant, OffersFit, Offered,
       InstallsUpgrades
  <2>4. StragglersKnown'
    BY <1>2 DEF vars, world, memory, history, UpdateInvariant, StragglersKnown,
       AfterDrain
  <2>5. QED
    BY <2>1, <2>2, <2>3, <2>4 DEF UpdateInvariant
<1>3. QED
  BY <1>1, <1>2

-------------------------------------------------------------------------------
(***************************************************************************)
(* What holds of every behaviour.                                          *)
(***************************************************************************)

\* What the installers, the requests and the Workers know agrees with the rows
\* and the releases, at every step of an update (update_install_service.py,
\* update_check_service.py, worker.py).
THEOREM UpdateInvariantHolds == Spec => []UpdateInvariant
BY InitInvariant, InvariantPreserved, PTL DEF Spec

\* Of any number of concurrent requests one operation is active (the unique slot
\* of UpdateOperationRepository), every installer works for one that is, and what
\* is installed is a published upgrade of its channel.
THEOREM UpdatesAreSoundHolds == Spec => []UpdatesAreSound
<1>1. UpdateInvariant => UpdatesAreSound
  <2> SUFFICES ASSUME UpdateInvariant
               PROVE  Cardinality({r \in Requests : Active(r)}) <= 1
    BY DEF UpdateInvariant, SlotHeld, OffersFit, UpdatesAreSound, OneUpdateAtATime
  <2> DEFINE S == {r \in Requests : Active(r)}
  <2>1. CASE S = {}
    BY <2>1, FS_EmptySet
  <2>2. CASE S # {}
    <3>1. PICK r \in S : TRUE
      BY <2>2
    <3>2. S = {r}
      BY <3>1 DEF UpdateInvariant, SlotHeld
    <3>3. Cardinality({r}) = 1
      BY FS_Singleton
    <3>4. QED
      BY <3>2, <3>3
  <2>3. QED
    BY <2>1, <2>2
<1>2. QED
  BY <1>1, UpdateInvariantHolds, PTL

\* The helper, which is about to stop the Appliance, finds no task executing but
\* those claimed after the drain by a Worker that had read the open gate
\* (_wait_until_drained against _recover_and_claim).
THEOREM OnlyStragglersAreStoppedHolds == Spec => []OnlyStragglersAreStopped
<1>1. UpdateInvariant => OnlyStragglersAreStopped
  BY DEF UpdateInvariant, StragglersKnown, AfterDrain, OnlyStragglersAreStopped
<1>2. QED
  BY <1>1, UpdateInvariantHolds, PTL
===============================================================================
