----------------------------- MODULE ProviderSave -----------------------------
(***************************************************************************)
(* Saving shared files into a cloud drive, request by request: what         *)
(* services/transfer_operation.py asks of a provider, and how each of the   *)
(* five providers answers it (providers/*/provider.py and the clients they  *)
(* send with): the page-wise search of a folder, its creation, the search   *)
(* for a file of the name, the save, and the query for the save's outcome.  *)
(*                                                                         *)
(* The Worker is one process, so one save runs at a time; the drive, its    *)
(* user and other tools change the drive between any two requests.  What    *)
(* the queue makes of an answer, and a crash, are in Transfer.              *)
(***************************************************************************)
EXTENDS Integers, Sequences, FiniteSets

CONSTANTS
  Providers,       \* providers
  Jobs,            \* transfers; a bijection with the files of the subscriptions
  Assignments,     \* what the jobs may be: [Jobs -> Job]
  Drives,          \* what the drive and the share may hold at first
  OtherEntries,    \* what others may put into the root, or into any folder
  PageSize,        \* entries of a page
  MaxReadRetries,  \* max_retries of a request that only reads
  Polls,           \* looks for a folder that was just created
  MaxEntries,      \* bound: entries there ever are
  MaxEvents        \* bound: changes others make, and requests that fail

AllProviders == {"aliyundrive", "quark", "pan123", "baidu", "pikpak"}

\* Parents of entries that are in no folder of the drive.
Root == 0
Share == -1
Gone == -2
None == 0          \* no entry
Receiving == "Pack From Shared"

\* Names and contents, those among them that the drives choose.
Texts == STRING \cup {"", "renamed", Receiving}
Entries == [parent : Int, name : Texts, dir : BOOLEAN, content : Texts, whole : BOOLEAN,
            by : Jobs \cup {None}]
Descriptions == [folder : Texts, source : Int, name : Texts, content : Texts]

\* A folder is there as a whole, and at first its name is no other's in the root.
ASSUME SaveAssumption ==
  /\ Providers \subseteq AllProviders
  /\ {PageSize, Polls, MaxEntries} \subseteq Nat \ {0}
  /\ {MaxReadRetries, MaxEvents} \subseteq Nat
  /\ Assignments \subseteq [Jobs -> Descriptions]
  /\ \A e \in OtherEntries : e \in Entries /\ (e.dir => e.whole)
  /\ \A d \in Drives :
       /\ d \in Seq(Entries) /\ Len(d) <= MaxEntries
       /\ \A k \in DOMAIN d : d[k].dir => d[k].whole
       /\ \A k, l \in DOMAIN d :
            d[k].parent = Root /\ d[l].parent = Root /\ d[k].name = d[l].name => k = l

VARIABLES
  provider, job,
  strange,   \* PikPak's page tokens may lead back
  drive,     \* all entries there ever were, in the order of their ids
  run,       \* the save under way, and its request
  operation, \* the folder, or for Quark the entry, that an operation id names
  answer,    \* how the last run of a job ended
  saved,     \* the entry that it found or made
  made,      \* copies the drive has made for a job
  shapeless, \* jobs with an accepted save whose answer held no data
  others, failures

config == <<provider, job, strange>>
book == <<operation, answer, saved>>
saveVars == <<config, drive, run, book, made, shapeless, others, failures>>

EntryIds == DOMAIN drive
In(folder) == {k \in EntryIds : drive[k].parent = folder}
Is(k, folder, name) == drive[k].parent = folder /\ drive[k].name = name
NameTaken(folder, name) == \E k \in EntryIds : Is(k, folder, name)
There(folder) == folder \in EntryIds => drive[folder].parent # Gone

\* A copy shows when it is finished; PikPak shows it before, with its phase.
Visible(k) == drive[k].whole \/ provider = "pikpak"

NoRun == [at |-> "idle"]

SaveInit ==
  /\ provider \in Providers
  /\ job \in Assignments
  /\ strange \in IF provider = "pikpak" THEN BOOLEAN ELSE {FALSE}
  /\ drive \in Drives
  /\ run = NoRun
  /\ operation = [j \in Jobs |-> None]
  /\ answer = [j \in Jobs |-> "none"]
  /\ saved = [j \in Jobs |-> None]
  /\ made = [j \in Jobs |-> 0]
  /\ shapeless = {}
  /\ others = 0 /\ failures = 0

Failure == ~strange /\ others + failures < MaxEvents /\ failures' = failures + 1

(***************************************************************************)
(* Searching a folder.                                                     *)
(***************************************************************************)
Listings == {"folder", "settle", "source", "lookup", "recheck", "query", "root",
             "receiving", "confirm"}
Writes == {"mkdir", "save", "move"}

\* Fault: the fingerprint is of the name alone.
SameName(k, j) == ~drive[k].dir /\ drive[k].name = job[j].name

\* The fingerprint of an operation id: name, size, hash and type.
Same(k, j) ==
  ~drive[k].dir /\ drive[k].name = job[j].name /\ drive[k].content = job[j].content

\* What a search is for.  Only Aliyun Drive passes over files when it needs a folder.
Wanted(at, j, k) ==
  CASE at \in {"folder", "settle"} ->
         drive[k].name = job[j].folder /\ (provider = "aliyundrive" => drive[k].dir)
    [] at = "source" -> k = job[j].source
    [] at \in {"lookup", "recheck"} -> drive[k].name = job[j].name
    [] at \in {"query", "receiving", "confirm"} -> Same(k, j)
    [] at = "root" -> drive[k].dir /\ drive[k].name = Receiving

Numbered == provider \in {"quark", "pan123", "baidu"}
FirstMarker == IF Numbered THEN 1 ELSE MaxEntries + 1
NoMarker == -1

\* The newest entries come first.  A page is the marker-th, or what follows a cursor.
Listed(folder) == {k \in In(folder) : Visible(k)}
Ahead(k, S) == Cardinality({l \in S : l > k})
NumberedPage(S, marker) == {k \in S : Ahead(k, S) \div PageSize = marker - 1}
CursorPage(S, marker) ==
  {k \in S : k < marker /\ Ahead(k, {l \in S : l < marker}) < PageSize}
Page(folder, marker) ==
  IF Numbered THEN NumberedPage(Listed(folder), marker)
  ELSE CursorPage(Listed(folder), marker)
Rest(folder, marker) ==
  LET S == Listed(folder)
  IN  IF Numbered THEN {k \in S : Ahead(k, S) \div PageSize >= marker}
      ELSE {k \in S : k < marker} \ CursorPage(S, marker)

Oldest(S) == CHOOSE k \in S : \A l \in S : k <= l
Newest(S) == CHOOSE k \in S : \A l \in S : k >= l

\* What a page shows of an entry.
Hit(k) == [id |-> k, whole |-> drive[k].whole]
The(found) == CHOOSE h \in found : TRUE

\* Fault: the last page is never asked for.
QuarkMoreShort(items, rest) == {Cardinality(rest) > PageSize}

\* Whether there is another page.  By the total, or else after a full page.
QuarkMore(items, rest) == {rest # {}, Cardinality(items) = PageSize}
\* By the total, or else by metadata that may be stale.
Pan123More(items, rest) == IF rest # {} THEN {TRUE} ELSE BOOLEAN
\* A full page has a successor, be it empty.
BaiduMore(items, rest) == {Cardinality(items) = PageSize}
\* A cursor may point behind the last entry.
AliyunMore(items, rest) == IF rest # {} THEN {TRUE} ELSE BOOLEAN
PikPakMore(items, rest) == IF rest # {} THEN {TRUE} ELSE BOOLEAN

\* An empty page is the last one, whatever the answer says of others.
More(items, rest) ==
  IF items = {} THEN {FALSE}
  ELSE CASE provider = "quark" -> QuarkMore(items, rest)
         [] provider = "pan123" -> Pan123More(items, rest)
         [] provider = "baidu" -> BaiduMore(items, rest)
         [] provider = "aliyundrive" -> AliyunMore(items, rest)
         [] provider = "pikpak" -> PikPakMore(items, rest)

NextMarkers(items) ==
  (IF TRUE \notin More(items, Rest(run.folder, run.marker)) THEN {}
   ELSE IF Numbered THEN {run.marker + 1}
   ELSE {Oldest(items)} \cup IF strange THEN run.markers \cup {run.marker} ELSE {})
  \cup IF FALSE \in More(items, Rest(run.folder, run.marker)) THEN {NoMarker} ELSE {}

\* _page, list_target_items and _items of PikPak.
Stalls(items, next) ==
  /\ provider = "pikpak" /\ items # {}
  /\ next = run.marker \/ items \subseteq run.seen \/ next \in run.markers

(***************************************************************************)
(* The course of a run.                                                    *)
(***************************************************************************)
\* Go on with another request, or a search from its first page; `keep` and `left`
\* are history: what the search is for and was there all the time, and whether
\* anything has left the folder meanwhile.
Fresh(at, folder) ==
  [run EXCEPT !.at = at, !.folder = folder, !.marker = FirstMarker, !.markers = {},
              !.seen = {}, !.found = {}, !.attempt = 0, !.left = FALSE,
              !.keep = IF at \in Listings
                       THEN {k \in Listed(folder) : Wanted(at, run.job, k)} ELSE {}]

Go(at, folder) == run' = Fresh(at, folder) /\ UNCHANGED book

End(what, k) ==
  /\ run' = NoRun
  /\ answer' = [answer EXCEPT ![run.job] = what]
  /\ saved' = [saved EXCEPT ![run.job] = k]
  /\ UNCHANGED operation

\* A run of a job: a retry resumes the operation it has.  The user may retry a
\* save in doubt too; without an operation that is a save anew, in Transfer.
Start(j) ==
  /\ run = NoRun
  /\ \/ answer[j] \in {"none", "pending", "error"}
     \/ answer[j] = "uncertain" /\ operation[j] # None
  /\ run' = [at |-> "resolve", job |-> j, folder |-> Root, target |-> None, marker |-> 0,
             markers |-> {}, seen |-> {}, found |-> {}, attempt |-> 0, polls |-> 0,
             keep |-> {}, left |-> FALSE]
  /\ UNCHANGED <<config, drive, book, made, shapeless, others, failures>>

\* resolve_share: of 123 it only notes the password.
Resolve ==
  /\ run.at = "resolve"
  /\ Go("folder", Root)
  /\ UNCHANGED <<config, drive, made, shapeless, others, failures>>

\* The target folder is known: query an operation that is under way, or look for
\* a file of the name.  Baidu names folders by their paths, the others by ids.
WithTarget(folder) ==
  /\ run' = [Fresh(IF operation[run.job] = None THEN "lookup"
                   ELSE IF provider = "quark" THEN "status" ELSE "query",
                   IF operation[run.job] = None \/ provider = "baidu" THEN folder
                   ELSE operation[run.job]) EXCEPT !.target = folder]
  /\ UNCHANGED book

\* ensure_folder has searched the root.
FolderSearched(found) ==
  IF found = {} THEN Go("mkdir", Root)
  ELSE IF Cardinality(found) > 1 \/ ~drive[The(found).id].dir THEN End("error", None)
  ELSE WithTarget(The(found).id)

\* 123 answers without an id: the folder is looked for a few times.
FolderSettled(found) ==
  IF found # {} /\ drive[The(found).id].dir THEN WithTarget(The(found).id)
  ELSE IF run.polls + 1 < Polls
    THEN run' = [Fresh("settle", Root) EXCEPT !.polls = @ + 1] /\ UNCHANGED book
  ELSE End("uncertain", None)

\* find_target_item and, where the provider has it, validate_existing_item.
NameSearched(found) ==
  IF found = {}
    THEN CASE provider = "pikpak" -> Go("recheck", run.target)
           [] provider \in {"quark", "pan123"} -> Go("source", Share)
           [] OTHER -> Go("save", run.target)
  ELSE IF provider = "pikpak" /\ (Cardinality(found) > 1 \/ ~The(found).whole
                              \/ ~Same(The(found).id, run.job))
    THEN End("error", None)
  ELSE End("done", The(found).id)

\* Quark needs the token of the file in the share, 123 what the share says of it now.
SourceSearched(found) == IF found = {} THEN End("error", None) ELSE Go("save", run.target)

\* What the files of the fingerprint in the target folder say of the operation.
Verdict(found) ==
  IF Cardinality(found) > 1 THEN End("uncertain", None)
  ELSE IF found = {} \/ ~The(found).whole THEN End("pending", None)
  ELSE End("done", The(found).id)

\* query_save_operation of PikPak: the drive restores into a folder of its own,
\* from where the one complete file of the fingerprint is moved.
PikPakQueried(found) ==
  CASE run.at = "query" /\ found = {} -> Go("root", Root)
    [] run.at \in {"query", "confirm"} /\ ~(run.at = "query" /\ found = {}) -> Verdict(found)
    [] run.at = "root" ->
         IF found = {} THEN End("pending", None)
         ELSE IF Cardinality(found) > 1 THEN End("uncertain", None)
         ELSE Go("receiving", The(found).id)
    [] run.at = "receiving" ->
         IF Cardinality(found) > 1 THEN End("uncertain", None)
         ELSE IF found = {} \/ ~The(found).whole THEN End("pending", None)
         ELSE run' = [Fresh("move", run.folder) EXCEPT !.found = found] /\ UNCHANGED book

\* A search is over: at its first hit, or with PikPak at its last page.
Searched(found) ==
  CASE run.at = "folder" -> FolderSearched(found)
    [] run.at = "settle" -> FolderSettled(found)
    [] run.at = "source" -> SourceSearched(found)
    [] run.at = "lookup" -> NameSearched(found)
    [] run.at = "recheck" -> IF found = {} THEN Go("save", run.target) ELSE End("error", None)
    [] run.at \in {"query", "root", "receiving", "confirm"} ->
         IF provider = "pikpak" THEN PikPakQueried(found) ELSE Verdict(found)

ListPage ==
  /\ run.at \in Listings
  /\ There(run.folder)
  /\ LET items == Page(run.folder, run.marker)
         hits == {k \in items : Wanted(run.at, run.job, k)}
     IN  IF hits # {} /\ provider # "pikpak" THEN Searched({Hit(Newest(hits))})
         ELSE \E next \in NextMarkers(items) :
           IF Stalls(items, next) THEN End("error", None)
           ELSE IF next = NoMarker THEN Searched(run.found \cup {Hit(k) : k \in hits})
           ELSE /\ run' = [run EXCEPT !.marker = next, !.markers = @ \cup {next},
                                      !.seen = @ \cup items, !.attempt = 0,
                                      !.found = @ \cup {Hit(k) : k \in hits}]
                /\ UNCHANGED book
  /\ UNCHANGED <<config, drive, made, shapeless, others, failures>>

\* The folder was removed: the drive refuses to list it, or to write to it.
FolderMissing ==
  /\ run.at \in Listings \cup {"save", "move"}
  /\ ~There(IF run.at \in Listings THEN run.folder ELSE run.target)
  /\ End("error", None)
  /\ UNCHANGED <<config, drive, made, shapeless, others, failures>>

(***************************************************************************)
(* Writes.                                                                 *)
(***************************************************************************)
Entry(parent, name, dir, content, whole, by) ==
  [parent |-> parent, name |-> name, dir |-> dir, content |-> content, whole |-> whole,
   by |-> by]
Space(n) == Len(drive) + n <= MaxEntries

WithFolder == Append(drive, Entry(Root, job[run.job].folder, TRUE, "", TRUE, None))

\* A taken name is refused, which ends the run; if 123 accepts it all the same, the
\* run looks for what has the name, as after every creation that was accepted.
Pan123MakesFolder ==
  /\ provider = "pan123"
  /\ IF NameTaken(Root, job[run.job].folder)
       THEN (Go("settle", Root) \/ End("error", None)) /\ UNCHANGED drive
       ELSE /\ Space(1) /\ drive' = WithFolder
            /\ run' = [Fresh("settle", Root) EXCEPT !.keep = {Len(drive) + 1}]
            /\ UNCHANGED book

OtherMakesFolder ==
  /\ provider # "pan123"
  /\ IF NameTaken(Root, job[run.job].folder)
       THEN End("error", None) /\ UNCHANGED drive
       ELSE Space(1) /\ drive' = WithFolder /\ WithTarget(Len(drive) + 1)

MakeFolder ==
  /\ run.at = "mkdir"
  /\ Pan123MakesFolder \/ OtherMakesFolder
  /\ UNCHANGED <<config, made, shapeless, others, failures>>

\* The drive's copy of the file.
Copy(folder, name, whole) ==
  Entry(folder, name, FALSE, job[run.job].content, whole, run.job)
PlainCopy(whole) == Append(drive, Copy(run.target, job[run.job].name, whole))

\* 123 reuses the content under a new name when the name is taken, and so does Quark.
Pan123Copy(whole) ==
  IF NameTaken(run.target, job[run.job].name)
    THEN Append(drive, Copy(run.target, "renamed", whole)) ELSE PlainCopy(whole)

\* PikPak puts it into a folder of its own, which comes with the first file.
ReceivingFolders == {k \in EntryIds : Is(k, Root, Receiving)}
PikPakCopy ==
  IF ReceivingFolders # {}
    THEN Append(drive, Copy(Newest(ReceivingFolders), job[run.job].name, FALSE))
    ELSE drive \o <<Entry(Root, Receiving, TRUE, "", TRUE, None),
                    Copy(Len(drive) + 1, job[run.job].name, FALSE)>>

WithCopy ==
  CASE provider = "aliyundrive" -> PlainCopy(TRUE)
    [] provider = "baidu" -> PlainCopy(FALSE)
    [] provider = "pan123" -> Pan123Copy(TRUE)
    [] provider = "quark" -> Pan123Copy(FALSE)
    [] provider = "pikpak" -> PikPakCopy

CanCopy ==
  /\ Space(2)
  /\ provider \in {"aliyundrive", "baidu"} => ~NameTaken(run.target, job[run.job].name)

\* The copy is accepted; Aliyun Drive has made it already.  execute_transfer
\* stores the operation's id and queries it once.
Save ==
  /\ run.at = "save" /\ There(run.target) /\ CanCopy
  /\ drive' = WithCopy
  /\ made' = [made EXCEPT ![run.job] = @ + 1]
  /\ IF provider = "aliyundrive" THEN End("done", Len(WithCopy))
     ELSE /\ operation' = [operation EXCEPT ![run.job] =
                             IF provider = "quark" THEN Len(WithCopy) ELSE run.target]
          /\ run' = [Fresh(IF provider = "quark" THEN "status" ELSE "query", run.target)
                       EXCEPT !.keep = {}]
          /\ UNCHANGED <<answer, saved>>
  /\ UNCHANGED <<config, shapeless, others, failures>>

\* The answer of Quark accepts the save and lacks its data object.
SaveShapeless ==
  /\ run.at = "save" /\ There(run.target) /\ CanCopy /\ provider = "quark"
  /\ Failure
  /\ drive' = WithCopy
  /\ made' = [made EXCEPT ![run.job] = @ + 1]
  /\ shapeless' = shapeless \cup {run.job}
  /\ End("error", None)
  /\ UNCHANGED <<config, others>>

SaveRefused ==
  /\ run.at = "save" /\ There(run.target)
  /\ provider \in {"aliyundrive", "baidu"} /\ NameTaken(run.target, job[run.job].name)
  /\ End("error", None)
  /\ UNCHANGED <<config, drive, made, shapeless, others, failures>>

\* query_save_task: the drive knows the outcome, wherever the copy is by now.
QueryTask ==
  /\ run.at = "status"
  /\ LET k == operation[run.job]
     IN  IF drive[k].whole THEN End("done", k) ELSE End("pending", None)
  /\ UNCHANGED <<config, drive, made, shapeless, others, failures>>

Candidate == The(run.found).id
WithMove == [drive EXCEPT ![Candidate].parent = run.target]

\* files:batchMove; the destination is looked at again.
Move ==
  /\ run.at = "move" /\ There(run.target)
  /\ IF drive[Candidate].parent = Gone THEN End("error", None) /\ UNCHANGED drive
     ELSE /\ drive' = WithMove
          /\ run' = [Fresh("confirm", operation[run.job]) EXCEPT !.keep = {}]
          /\ UNCHANGED book
  /\ UNCHANGED <<config, made, shapeless, others, failures>>

(***************************************************************************)
(* Requests that fail.                                                     *)
(***************************************************************************)
\* What becomes of a request that gets no answer: how often it is sent again, and how
\* the run ends after that; ProviderWriteUncertainError is "uncertain".
InDoubt(at) == IF at \in Writes THEN "uncertain" ELSE "error"
ReadsAgain(at) == IF at \in Writes THEN 0 ELSE MaxReadRetries

\* An error of a write is an error like another.  (Of the requests that only read,
\* those that time out are not sent again either: RequestRefused.)
AliyunRequest(at) == [again |-> ReadsAgain(at), lost |-> "error"]

\* Fault: the client that writes is built like the one that reads.
QuarkRequestAlways(at) == [again |-> MaxReadRetries, lost |-> InDoubt(at)]

QuarkRequest(at) == [again |-> ReadsAgain(at), lost |-> InDoubt(at)]
Pan123Request(at) == [again |-> ReadsAgain(at), lost |-> InDoubt(at)]
BaiduRead == [again |-> 0, lost |-> "error"]
BaiduSave == [again |-> 0, lost |-> "uncertain"]
BaiduMakeFolder == [again |-> 0, lost |-> "uncertain"]
PikPakRequest(at) == [again |-> 0, lost |-> InDoubt(at)]

Request(at) ==
  CASE provider = "aliyundrive" -> AliyunRequest(at)
    [] provider = "quark" -> QuarkRequest(at)
    [] provider = "pan123" -> Pan123Request(at)
    [] provider = "pikpak" -> PikPakRequest(at)
    [] provider = "baidu" /\ at = "save" -> BaiduSave
    [] provider = "baidu" /\ at = "mkdir" -> BaiduMakeFolder
    [] OTHER -> BaiduRead

\* Without an answer the request is sent again, or the run ends.
Unanswered ==
  IF run.attempt < Request(run.at).again
    THEN run' = [run EXCEPT !.attempt = @ + 1] /\ UNCHANGED book
    ELSE End(Request(run.at).lost, None)

Busy == run.at \in Listings \cup Writes \cup {"resolve", "status"}

\* The drive has done what it was asked for, and the answer is lost.
AnswerLost ==
  /\ Busy /\ Failure
  /\ \/ run.at = "mkdir" /\ ~NameTaken(Root, job[run.job].folder) /\ Space(1)
        /\ drive' = WithFolder /\ UNCHANGED made
     \/ run.at = "save" /\ There(run.target) /\ CanCopy
        /\ drive' = WithCopy /\ made' = [made EXCEPT ![run.job] = @ + 1]
     \/ run.at = "move" /\ There(run.target) /\ drive[Candidate].parent # Gone
        /\ drive' = WithMove /\ UNCHANGED made
  /\ Unanswered
  /\ UNCHANGED <<config, shapeless, others>>

\* A timeout, or 5xx; nothing has been done.
RequestTimesOut ==
  /\ Busy /\ Failure
  /\ provider = "pan123" => run.at # "resolve"
  /\ Unanswered
  /\ UNCHANGED <<config, drive, made, shapeless, others>>

\* 4xx, or an error code.
RequestRefused ==
  /\ Busy /\ Failure
  /\ provider = "pan123" => run.at # "resolve"
  /\ End("error", None)
  /\ UNCHANGED <<config, drive, made, shapeless, others>>

(***************************************************************************)
(* The drive and its other users.                                          *)
(***************************************************************************)
CopyCompletes(k) ==
  /\ k \in EntryIds /\ ~drive[k].whole
  /\ drive' = [drive EXCEPT ![k].whole = TRUE]
  /\ UNCHANGED <<config, run, book, made, shapeless, others, failures>>

OtherAdds ==
  /\ ~strange /\ others + failures < MaxEvents /\ Space(1)
  /\ others' = others + 1
  /\ \E e \in OtherEntries :
       \E folder \in IF e.parent = Root THEN {Root}
                     ELSE {k \in EntryIds : drive[k].dir /\ There(k)} :
       /\ ~NameTaken(folder, e.name) \/ provider = "pikpak"
       /\ drive' = Append(drive, [e EXCEPT !.parent = folder])
  /\ UNCHANGED <<config, run, book, made, shapeless, failures>>

\* With what is in it.
OtherRemoves(k) ==
  /\ k \in EntryIds /\ drive[k].parent # Gone
  /\ ~strange /\ others + failures < MaxEvents
  /\ others' = others + 1
  /\ LET lost == {k} \cup In(k)
     IN  /\ drive' = [l \in EntryIds |->
                       IF l \in lost THEN [drive[l] EXCEPT !.parent = Gone] ELSE drive[l]]
         /\ run' = IF run = NoRun THEN run
                   ELSE [run EXCEPT !.keep = @ \ lost,
                                    !.left = @ \/ lost \cap In(run.folder) # {}]
  /\ UNCHANGED <<config, book, made, shapeless, failures>>

Step == Resolve \/ ListPage \/ FolderMissing \/ MakeFolder \/ Save \/ SaveRefused
        \/ QueryTask \/ Move

SaveNext ==
  \/ \E j \in Jobs : Start(j)
  \/ Step
  \/ SaveShapeless \/ AnswerLost \/ RequestTimesOut \/ RequestRefused
  \/ \E k \in 1 .. MaxEntries : CopyCompletes(k) \/ OtherRemoves(k)
  \/ OtherAdds

\* Requests are answered, or time out; the queue takes up every job that is due,
\* however often another one is due too; the drive completes what it has accepted.
Fairness ==
  /\ WF_saveVars(Step \/ RequestTimesOut)
  /\ \A j \in Jobs : SF_saveVars(Start(j))
  /\ \A k \in 1 .. MaxEntries : WF_saveVars(CopyCompletes(k))

SaveSpec == SaveInit /\ [][SaveNext]_saveVars
LiveSpec == SaveSpec /\ Fairness

(***************************************************************************)
(* Properties.                                                             *)
(***************************************************************************)
\* What a run reports is there: the file of the operation, complete and in the
\* folder it was saved to (Quark vouches for where it is); or a file that bears the
\* name, which PikPak compares too.
DoneIsThere ==
  [][\A j \in Jobs : answer[j] # "done" /\ answer'[j] = "done" =>
       LET e == drive'[saved'[j]]
       IN  IF run.at = "lookup"
             THEN /\ e.parent \in {run.folder, Gone} /\ e.name = job[j].name
                  /\ provider = "pikpak" => e.whole /\ e.content = job[j].content
             ELSE /\ e.whole /\ e.content = job[j].content /\ ~e.dir
                  /\ provider = "quark" \/ e.parent \in {run.target, Gone}]_saveVars

\* A folder is created, and a file saved, only when no entry of the name has been
\* there all through the search; other entries may come meanwhile, not go.
NothingIsMissed ==
  [][run.at \in {"folder", "lookup", "recheck"}
     /\ run'.at \in {"mkdir", "source", "recheck", "save"} \ {run.at} =>
       \/ run.keep = {}
       \/ Numbered /\ run.left]_saveVars

\* Over all its runs, a job is saved once, whatever fails and whatever answer is
\* lost; a direct copy is found by its name, unless somebody has removed it.
SubmittedOnce ==
  \A j \in Jobs : \/ made[j] <= 1
                  \/ j \in shapeless
                  \/ provider = "aliyundrive" /\ others > 0

\* docs/operations/pikpak.md and its like for the others: no save is sent again.
NeverSubmittedTwice ==
  \A j \in Jobs : \/ made[j] <= 1
                  \/ provider = "aliyundrive" /\ others > 0

\* A save is asked for only after a search that missed nothing, and reported only
\* for a file that is there.
SavesAreRight == NothingIsMissed /\ DoneIsThere

\* Every run ends, also when the page tokens lead in a circle.
RunEnds == run # NoRun ~> run = NoRun

\* When nobody interferes and nothing fails, every job comes to be saved, with any
\* provider; not so with PikPak when two jobs are of one content.
Undisturbed == others = 0 /\ failures = 0 /\ ~strange
Alike ==
  \E i, j \in Jobs : i # j /\ job[i].name = job[j].name /\ job[i].content = job[j].content
UndisturbedIsSaved ==
  \/ <>~Undisturbed
  \/ provider = "pikpak" /\ Alike
  \/ \A j \in Jobs : <>(answer[j] = "done")

\* A run ends, and the runs of a job nobody disturbs with its file saved.
TransfersEnd == RunEnds /\ UndisturbedIsSaved

\* The same, of PikPak and two jobs of one content too.
AllAreSaved == <>~Undisturbed \/ \A j \in Jobs : <>(answer[j] = "done")
===============================================================================
