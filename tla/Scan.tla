---------------------------------- MODULE Scan ----------------------------------
(***************************************************************************)
(* The scans of one subscription, one at a time (Subscriptions says when   *)
(* that is so): the traversal of the share, page by page, what a page      *)
(* records, and which transfers it queues.                                 *)
(*                                                                         *)
(* A full scan goes down the tree; another lists the root and the folders  *)
(* it has not listed for longest.  Every page is a transaction of its own, *)
(* and an execution may be given up between two of them; the next one      *)
(* starts from the root.  The share changes at any time.                   *)
(***************************************************************************)
EXTENDS Naturals, Sequences, FiniteSets, SequencesExt, Functions

CONSTANTS
  Root,          \* the folder a subscription is about
  Folders,       \* folders below it
  Files,         \* files; both are identified by their remote ids
  Shares,        \* where the items of the share are at first
  Versions,      \* what fingerprints tell apart of a file
  Modes,         \* initial_sync_mode: some of "all", "future_only"
  Providers,     \* some of "honest", "flaky"
  BatchSize,     \* folder_scan_batch_size
  MaxChanges,    \* bound: changes of the share
  MaxAborts      \* bound: executions that are given up

Nowhere == "nowhere"
Unknown == 0
Items == Folders \cup Files

\* No folder is in itself: one level of folders below another is enough.
Tree(p) == \A d \in Folders : p[d] \in Folders => p[p[d]] \in {Root, Nowhere}

ASSUME ScanAssumption ==
  /\ IsFiniteSet(Items)
  /\ Root \notin Items /\ Folders \cap Files = {}
  /\ Nowhere \notin Items \cup {Root}
  /\ Shares \subseteq {p \in [Items -> {Root, Nowhere} \cup Folders] : Tree(p)}
  /\ Versions \subseteq Nat \ {0} /\ Versions # {}
  /\ Modes \subseteq {"all", "future_only"}
  /\ Providers \subseteq {"honest", "flaky"}
  /\ BatchSize \in Nat \ {0}
  /\ {MaxChanges, MaxAborts} \subseteq Nat

VARIABLES
  mode, provider,
  parent,        \* the share: the folder every item is in
  content,       \* the share: the version of every file
  touched,       \* files that were added or changed since the subscription
  record,        \* cloud_files: the version recorded of each file
  queued,        \* transfer tasks: <<file, version>>, which is their key
  never,         \* checkpoints without last_scanned_at, by id
  scanned,       \* the others, the least recently scanned first
  first,         \* last_scanned_at is NULL
  full,          \* last_full_scanned_at is not
  scan,          \* the execution
  changes, aborts

share == <<parent, content, touched, changes>>
database == <<record, queued, never, scanned, first, full>>
scanVars == <<mode, provider, share, database, scan, aborts>>

Idle == [pc |-> "idle"]

Exists[i \in Items] == \/ parent[i] = Root
                       \/ parent[i] \in Folders /\ Exists[parent[i]]
Present(d) == d = Root \/ Exists[d]
Children(d) == {i \in Items : parent[i] = d}
Checkpoints == ToSet(never) \cup ToSet(scanned)

\* What of a sequence is in a set, in its order.
Place(s, S, k) ==
  CHOOSE i \in DOMAIN s : s[i] \in S /\ Cardinality({j \in 1 .. i : s[j] \in S}) = k
Only(s, S) == [k \in 1 .. Cardinality({j \in DOMAIN s : s[j] \in S}) |-> s[Place(s, S, k)]]
Without(s, d) == Only(s, ToSet(s) \ {d})
Stale == {d \in Checkpoints : ~Exists[d]}

ScanTyped ==
  /\ mode \in Modes /\ provider \in Providers
  /\ parent \in [Items -> {Root, Nowhere} \cup Folders]
  /\ content \in [Files -> Versions] /\ touched \subseteq Files
  /\ record \in [Files -> Versions \cup {Unknown}]
  /\ queued \subseteq Files \X Versions
  /\ IsInjective(never \o scanned) /\ Checkpoints \subseteq Folders
  /\ first \in BOOLEAN /\ full \in BOOLEAN
  /\ scan.pc \in {"idle", "list", "descend", "prune", "finish"}

ScanInit ==
  /\ mode \in Modes /\ provider \in Providers
  /\ parent \in Shares
  /\ content = [f \in Files |-> CHOOSE v \in Versions : TRUE]
  /\ touched = {}
  /\ record = [f \in Files |-> Unknown]
  /\ queued = {}
  /\ never = << >> /\ scanned = << >>
  /\ first = TRUE /\ full = FALSE
  /\ scan = Idle
  /\ changes = 0 /\ aborts = 0

-------------------------------------------------------------------------------
(***************************************************************************)
(* The share: the owner adds, removes, moves and changes items.            *)
(***************************************************************************)
Under(f, i) == \/ f = i \/ parent[f] = i
               \/ parent[f] \in Folders /\ parent[parent[f]] = i

ChangeShare ==
  /\ changes < MaxChanges
  /\ changes' = changes + 1
  /\ \/ \E i \in Items, d \in {Root, Nowhere} \cup Folders :
          /\ parent[i] # d
          /\ parent' = [parent EXCEPT ![i] = d]
          /\ Tree(parent')
          /\ touched' = touched \cup {f \in Files : Under(f, i)}
          /\ UNCHANGED content
     \/ \E f \in Files, v \in Versions :
          /\ v # content[f]
          /\ content' = [content EXCEPT ![f] = v]
          /\ touched' = touched \cup {f}
          /\ UNCHANGED parent
  /\ UNCHANGED <<mode, provider, database, scan, aborts>>

-------------------------------------------------------------------------------
(***************************************************************************)
(* An execution.                                                           *)
(***************************************************************************)

\* The next folder to list, and the folders it was reached through, each with
\* those still to be listed below it.  Two cursors in turn stand for fresh ones.
List(d, stack) ==
  [scan EXCEPT !.pc = "list", !.folder = d, !.marker = 0, !.given = {}, !.children = << >>, !.stack = stack]

\* A first scan is full; later ones are when they are told to, or when the last
\* full one is long ago.
StartScan(wanted) ==
  /\ scan.pc = "idle"
  /\ wanted \/ full
  /\ scan' = [pc |-> "list", folder |-> Root, marker |-> 0, given |-> {},
              children |-> << >>, stack |-> << >>, isFull |-> wanted,
              create |-> ~(first /\ mode = "future_only"), seen |-> {}]
  /\ UNCHANGED <<mode, provider, share, database, aborts>>

\* list_share_items: an honest provider gives every item of the folder once, in
\* pages; another repeats items and cursors, and ends where it likes.
Pages ==
  LET all  == IF Present(scan.folder) THEN Children(scan.folder) ELSE {}
      rest == all \ scan.given
  IN IF provider = "honest"
     THEN {[items |-> s, next |-> IF s = rest THEN "none" ELSE "fresh"] :
             s \in (SUBSET rest) \ (IF rest = {} THEN {} ELSE {{}})}
     ELSE [items : SUBSET all, next : {"none", "fresh"} \cup (IF scan.given = {} THEN {} ELSE {"used"})]

\* Fault: only the folders of a page are compared.
RepeatsFolders(page) ==
  \/ page.items \cap Folders # {} /\ page.items \cap Folders \subseteq scan.given
  \/ page.next = "used"

\* Nothing new in a page, or a cursor that was given before: the scan fails.
Repeats(page) == page.items \subseteq scan.given \/ page.next = "used"

\* Fault: the first scan is the one that finds no checkpoint.
CreatesAfterPage == scan.create \/ Checkpoints # {}

\* create_transfers, for the whole of the scan.
Creates == scan.create

\* A file that is new, or has another fingerprint.
NewOrChanged(f) == record[f] # content[f]

Known(d) == d \in Checkpoints

\* _record_item, for every item of a page, and _queue_transfer; committed.
RecordPage(page) ==
  LET files   == page.items \cap Files
      folders == {d \in page.items \cap Folders : ~Known(d)}
  IN
  /\ record' = [f \in Files |-> IF f \in files THEN content[f] ELSE record[f]]
  /\ queued' = queued \cup {<<f, content[f]>> : f \in {g \in files : Creates /\ NewOrChanged(g)}}
  /\ never' = never \o SetToSeq(folders)

\* Fault: the folders are taken in the order of their ids.
BatchById == SetToSeq(ToSet(never') \cup ToSet(scanned))

\* The folders known, those never listed first, then the least recently listed.
BatchOrder == never' \o scanned

\* A folder has been listed; what comes below it.
Below(children) ==
  IF scan.isFull THEN children
  ELSE IF scan.folder = Root
       THEN SubSeq(BatchOrder, 1, IF Len(BatchOrder) < BatchSize THEN Len(BatchOrder) ELSE BatchSize)
       ELSE << >>

Listed(children) ==
  [scan EXCEPT !.pc = "descend",
     !.stack = Append(@, [folder |-> scan.folder, todo |-> Below(children)])]

\* _scan_folder_contents: one page.
ListPage ==
  /\ scan.pc = "list"
  /\ \E page \in Pages :
    LET children == scan.children \o SetToSeq(page.items \cap Folders)
        seen     == scan.seen \cup (page.items \cap Folders)
    IN
    /\ IF page.items = {}
       THEN UNCHANGED <<record, queued, never>> /\ scan' = Listed(scan.children)
       ELSE IF Repeats(page)
       THEN UNCHANGED <<record, queued, never>> /\ scan' = Idle
       ELSE /\ RecordPage(page)
            /\ scan' = [IF page.next = "none" THEN Listed(children)
                        ELSE [scan EXCEPT !.marker = 1 - @, !.given = @ \cup page.items,
                                         !.children = children]
                        EXCEPT !.seen = seen]
    /\ UNCHANGED <<mode, provider, share, scanned, first, full, aborts>>

\* The next folder below the last one reached, or up: what is below it is done.
Descend ==
  LET top  == Last(scan.stack)
      rest == Front(scan.stack)
  IN
  /\ scan.pc = "descend"
  /\ \/ /\ top.todo # << >>
        /\ scan' = List(Head(top.todo),
                        Append(rest, [top EXCEPT !.todo = Tail(@)]))
        /\ UNCHANGED <<never, scanned>>
     \/ /\ top.todo = << >> /\ rest # << >>
        /\ scan' = [scan EXCEPT !.stack = rest]
        /\ never' = Without(never, top.folder)
        /\ scanned' = Append(Without(scanned, top.folder), top.folder)
     \/ /\ top.todo = << >> /\ rest = << >>
        /\ scan' = [scan EXCEPT !.stack = << >>, !.pc = IF scan.isFull THEN "prune" ELSE "finish"]
        /\ UNCHANGED <<never, scanned>>
  /\ UNCHANGED <<mode, provider, share, record, queued, first, full, aborts>>

\* last_seen_at is before the scan.
NotSeen(d) == d \notin scan.seen

Prune ==
  /\ scan.pc = "prune"
  /\ scan' = [scan EXCEPT !.pc = "finish"]
  /\ never' = Only(never, {d \in Folders : ~NotSeen(d)})
  /\ scanned' = Only(scanned, {d \in Folders : ~NotSeen(d)})
  /\ UNCHANGED <<mode, provider, share, record, queued, first, full, aborts>>

FinishScan ==
  /\ scan.pc = "finish"
  /\ scan' = Idle
  /\ first' = FALSE
  /\ full' = (full \/ scan.isFull)
  /\ UNCHANGED <<mode, provider, share, record, queued, never, scanned, aborts>>

\* A request fails, the scan is cancelled, or its process dies: what has been
\* committed stays.  A folder that is gone makes a request fail.
GiveUp ==
  /\ scan.pc # "idle"
  /\ IF scan.pc = "list" /\ ~Present(scan.folder) THEN UNCHANGED aborts
     ELSE aborts < MaxAborts /\ aborts' = aborts + 1
  /\ scan' = Idle
  /\ UNCHANGED <<mode, provider, share, database>>

Execute == ListPage \/ Descend \/ Prune \/ FinishScan

ScanNext ==
  \/ ChangeShare
  \/ \E wanted \in BOOLEAN : StartScan(wanted)
  \/ Execute
  \/ GiveUp

ScanSpec == ScanInit /\ [][ScanNext]_scanVars

(***************************************************************************)
(* The Scheduler comes back to the subscription, and an execution goes on; *)
(* nothing makes a scan full.                                              *)
(***************************************************************************)
Fairness ==
  /\ WF_scanVars(\E wanted \in BOOLEAN : StartScan(wanted))
  /\ WF_scanVars(Execute)

FairScanSpec == ScanSpec /\ Fairness

-------------------------------------------------------------------------------
(***************************************************************************)
(* Properties.                                                             *)
(***************************************************************************)

\* Of a subscription to future files, nothing is transferred that was in the
\* share all the time, also when the first scan takes several executions.
BaselineNotTransferred ==
  provider = "honest" /\ mode = "future_only" =>
    \A k \in queued : k[1] \in touched

\* What scans leave in the table, however many executions were given up.
ScanInvariant == ScanTyped /\ BaselineNotTransferred

\* A scan comes to an end, whatever pages the provider answers.
ScanEnds == scan.pc # "idle" ~> scan.pc = "idle"

\* A file that is new or changed is queued in the end, however deep it is and
\* whatever executions were given up, unless a folder that is gone stops the
\* scans that are not full.
NewIsQueued ==
  \A f \in Files, v \in Versions :
    /\ provider = "honest" /\ Exists[f] /\ content[f] = v
    /\ mode = "all" \/ (~first /\ record[f] # v)
    ~> <<f, v>> \in queued \/ ~Exists[f] \/ content[f] # v \/ Stale # {}

\* Full scans put an end to that.
StaleIsPruned ==
  []<><<StartScan(TRUE)>>_scanVars => (provider = "honest" /\ Stale # {} ~> Stale = {})

\* Scans end, and what a folder that is gone has left behind does too.
ScanSettles == ScanEnds /\ StaleIsPruned
================================================================================
