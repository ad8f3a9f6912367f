----------------------------- MODULE AccountLogin -----------------------------
(***************************************************************************)
(* Cloud accounts: the QR logins of four providers (providers/*/qr_login.py) *)
(* behind start and poll requests, the password login of PikPak, the        *)
(* accounts they create or renew, and the verification of the private and   *)
(* the OpenAPI credential of an account (api/v1/cloud_accounts.py,          *)
(* services/account_service.py).                                            *)
(*                                                                         *)
(* A request is a coroutine: every await (a call of the provider) is a step *)
(* boundary, and what was read before it may be stale after it. The page    *)
(* polls a login again only when the previous answer has come, hence one    *)
(* poll per session; other logins, edits and verifications run meanwhile.   *)
(***************************************************************************)
EXTENDS Naturals, FiniteSets

CONSTANTS
  Ids,          \* rows of cloud_accounts
  Names,
  Users,        \* people at the provider
  Sessions,
  Kinds,        \* providers to log in at
  OtherKinds,   \* providers of accounts added by hand besides
  NoRow, NoUser, NoId,
  MaxChanges,   \* bound: requests other than polls
  MaxFaults     \* bound: failing requests, sessions past their time, restarts

QrKinds == {"aliyundrive", "pan123", "quark", "baidu"}

ASSUME LoginAssumption ==
  /\ Kinds \subseteq QrKinds \cup {"pikpak"}
  /\ MaxChanges \in Nat /\ MaxFaults \in Nat
  /\ IsFiniteSet(Ids) /\ Ids = 1 .. Cardinality(Ids) /\ Ids # {}
  /\ NoId \notin Ids /\ NoUser \notin Users

Tokens == [user : Users, by : Sessions \cup {"hand"}]
Rows == [provider : Kinds \cup OtherKinds, name : Names, token : Tokens,
         user : Users \cup {NoUser}, status : {"active", "error"},
         open : Users \cup {NoUser}, openStatus : {"none", "pending", "active", "error"},
         replaced : BOOLEAN, seen : {"none", "verify", "drives", "both"}]

ASSUME NoRowAssumption == NoRow \notin Rows

VARIABLES
  kind,      \* whose login manager this is; each has sessions of its own
  accounts,  \* id -> row, or NoRow; `replaced` and `seen` are history: a credential
             \* changed after the check that made openStatus "active", and whether
             \* that check knew both users, or else which check it was
  session,   \* the sessions' objects
  client,    \* the HTTP client of a session: "none", "open" or "closed"
  code,      \* the code at the provider, and `user`, who confirmed it
  poll,      \* the poll of a session: where its coroutine is, and its account
  check,     \* a verify request, or the list of drives
  signin,    \* a PikPak login
  told,      \* the last final answer of a session's polls
  stored,    \* sessions whose credential an account has had
  changes, faults

login == <<session, client, code, poll, told, stored>>
bounds == <<changes, faults>>
vars == <<kind, accounts, login, check, signin, bounds>>

NoSession == [at |-> "none", account |-> NoId, name |-> "none", credential |-> NoUser,
              scanned |-> FALSE, late |-> FALSE]
Idle == [at |-> "idle", id |-> NoId]
NoCheck == [at |-> "idle", id |-> NoId, provider |-> "none", what |-> "private",
            token |-> NoUser, user |-> NoUser, open |-> NoUser, clean |-> TRUE]
NoSignin == [at |-> "idle", id |-> NoId, name |-> "none", known |-> NoUser]

Init ==
  /\ kind \in Kinds
  /\ accounts = [i \in Ids |-> NoRow]
  /\ session = [s \in Sessions |-> NoSession]
  /\ client = [s \in Sessions |-> "none"]
  /\ code = [s \in Sessions |-> [at |-> "new", user |-> NoUser]]
  /\ poll = [s \in Sessions |-> Idle]
  /\ check = NoCheck
  /\ signin = NoSignin
  /\ told = [s \in Sessions |-> "none"]
  /\ stored = {}
  /\ changes = 0 /\ faults = 0

Change == changes < MaxChanges /\ changes' = changes + 1 /\ UNCHANGED faults
Fault == faults < MaxFaults /\ faults' = faults + 1 /\ UNCHANGED changes

Present(i) == accounts[i] # NoRow
\* uq_account_provider_name
Taken(provider, name) ==
  \E i \in Ids : Present(i) /\ accounts[i].provider = provider /\ accounts[i].name = name
\* SQLite numbers a new row one above the greatest in use: ids come back.
FreshId == CHOOSE i \in Ids : /\ \A j \in Ids : j >= i => ~Present(j)
                              /\ i = 1 \/ Present(i - 1)
Room == ~Present(Cardinality(Ids))

NewRow(provider, name, token) ==
  [provider |-> provider, name |-> name, token |-> token, user |-> NoUser,
   status |-> "active", open |-> NoUser, openStatus |-> "none", replaced |-> FALSE,
   seen |-> "none"]

\* update_account with a token: the bound OpenAPI credential stays as it is.
WithToken(row, token) ==
  [row EXCEPT !.token = token, !.status = "active", !.replaced = TRUE]

\* A write of a credential, in one commit; a check under way has read the former.
Write(i, row) ==
  /\ accounts' = [accounts EXCEPT ![i] = row]
  /\ check' = IF check.id = i THEN [check EXCEPT !.clean = FALSE] ELSE check

(***************************************************************************)
(* QR sessions.                                                            *)
(***************************************************************************)
Registered(s) == session[s].at = "live"
OwnClient == kind # "aliyundrive"

\* finish() of some sessions: they are forgotten and their clients closed.
Closed(gone) ==
  /\ session' = [s \in Sessions |->
                   IF s \in gone THEN [session[s] EXCEPT !.at = "gone"] ELSE session[s]]
  /\ client' = [s \in Sessions |-> IF s \in gone /\ OwnClient THEN "closed" ELSE client[s]]

\* _discard_expired
Expired == {s \in Sessions : Registered(s) /\ session[s].late}

\* A new account, by its name, or one to renew.
Targets == {[id |-> NoId, name |-> n] : n \in Names} \cup
           {[id |-> i, name |-> accounts[i].name] :
              i \in {j \in Ids : Present(j) /\ accounts[j].provider = kind}}

\* start(): old sessions are discarded and a client is opened, before the request.
BeginStart(s) ==
  /\ kind \in QrKinds \ {"aliyundrive"}
  /\ session[s].at = "none"
  /\ Change
  /\ \E target \in Targets :
       session' = [t \in Sessions |->
         IF t = s THEN [NoSession EXCEPT !.at = "starting", !.account = target.id,
                                         !.name = target.name]
         ELSE IF t \in Expired THEN [session[t] EXCEPT !.at = "gone"]
         ELSE session[t]]
  /\ client' = [t \in Sessions |-> IF t = s THEN "open"
                                   ELSE IF t \in Expired THEN "closed" ELSE client[t]]
  /\ UNCHANGED <<kind, accounts, code, poll, check, signin, told, stored>>

\* The request fails, or the answer has no usable code or image.
StartFails(s) ==
  /\ session[s].at = "starting"
  /\ Fault
  /\ Closed({s})
  /\ UNCHANGED <<kind, accounts, code, poll, check, signin, told, stored>>

StartSucceeds(s) ==
  /\ session[s].at = "starting"
  /\ session' = [session EXCEPT ![s].at = "live"]
  /\ UNCHANGED <<kind, accounts, client, code, poll, check, signin, told, stored, bounds>>

\* Aliyun Drive has one client for all; it discards once the new session is there.
StartAliyun(s) ==
  /\ kind = "aliyundrive"
  /\ session[s].at = "none"
  /\ Change
  /\ \E target \in Targets :
       session' = [t \in Sessions |->
         IF t = s THEN [NoSession EXCEPT !.at = "live", !.account = target.id,
                                         !.name = target.name]
         ELSE IF t \in Expired THEN [session[t] EXCEPT !.at = "gone"]
         ELSE session[t]]
  /\ UNCHANGED <<kind, accounts, client, code, poll, check, signin, told, stored>>

\* The time to live runs out.
GetsLate(s) ==
  /\ Registered(s) /\ ~session[s].late
  /\ Fault
  /\ session' = [session EXCEPT ![s].late = TRUE]
  /\ UNCHANGED <<kind, accounts, client, code, poll, check, signin, told, stored>>

(***************************************************************************)
(* The provider, and the person with the phone.                            *)
(***************************************************************************)
Scan(s) ==
  /\ Registered(s) /\ code[s].at = "new"
  /\ code' = [code EXCEPT ![s].at = "scanned"]
  /\ UNCHANGED <<kind, accounts, session, client, poll, check, signin, told, stored, bounds>>

ConfirmCode(s, user) ==
  /\ Registered(s) /\ code[s].at = "scanned"
  /\ code' = [code EXCEPT ![s] = [at |-> "confirmed", user |-> user]]
  /\ UNCHANGED <<kind, accounts, session, client, poll, check, signin, told, stored, bounds>>

\* A confirmed code may be reported as expired before it was exchanged.
CodeLapses(s) ==
  /\ Registered(s) /\ code[s].at \in {"new", "scanned", "confirmed"}
  /\ Fault
  /\ code' = [code EXCEPT ![s].at = IF @ = "confirmed" THEN "lapsed" ELSE "expired"]
  /\ UNCHANGED <<kind, accounts, session, client, poll, check, signin, told, stored>>

(***************************************************************************)
(* Polls.                                                                  *)
(***************************************************************************)
\* The answer ends the request.
Answer(s, what) ==
  /\ poll' = [poll EXCEPT ![s] = Idle]
  /\ told' = IF what \in {"expired", "confirmed"} THEN [told EXCEPT ![s] = what] ELSE told

At(s, place) == poll' = [poll EXCEPT ![s].at = place] /\ UNCHANGED told

BeginPoll(s) ==
  /\ Registered(s) /\ ~session[s].late
  /\ poll[s] = Idle
  /\ At(s, IF session[s].credential # NoUser THEN "storing" ELSE "asking")
  /\ UNCHANGED <<kind, accounts, session, client, code, check, signin, stored, bounds>>

\* get_session and poll: past its time a session ends, whatever it holds.
PollLate(s) ==
  /\ Registered(s) /\ session[s].late
  /\ poll[s] = Idle
  /\ Closed({s})
  /\ Answer(s, "expired")
  /\ UNCHANGED <<kind, accounts, code, check, signin, stored, bounds>>

Asking(s) == poll[s].at = "asking" /\ client[s] # "closed"

\* 502; the session stays.
RequestFails(s) ==
  /\ poll[s].at = "asking"
  /\ \/ client[s] = "closed" /\ UNCHANGED bounds
     \/ Fault
  /\ Answer(s, "error")
  /\ UNCHANGED <<kind, accounts, session, client, code, check, signin, stored>>

\* The confirmation carries the token; every later query carries it again.
AskAliyun(s) ==
  /\ Asking(s) /\ kind = "aliyundrive"
  /\ CASE code[s].at \in {"new", "scanned"} -> Answer(s, "pending") /\ UNCHANGED session
       [] code[s].at = "confirmed" ->
            session' = [session EXCEPT ![s].credential = code[s].user] /\ At(s, "storing")
       [] OTHER ->
            session' = [session EXCEPT ![s].at = IF @ = "live" THEN "gone" ELSE @]
            /\ Answer(s, "expired")
  /\ UNCHANGED <<kind, accounts, client, code, check, signin, stored, bounds>>

\* _decode_token finds no token: 502.
AliyunUndecodable(s) ==
  /\ Asking(s) /\ kind = "aliyundrive" /\ code[s].at = "confirmed"
  /\ Fault
  /\ Answer(s, "error")
  /\ UNCHANGED <<kind, accounts, session, client, code, check, signin, stored>>

\* Fault: an expired code counts as scanned, and leaves the session.
AskPan123KeepsExpired(s) ==
  /\ Asking(s) /\ kind = "pan123"
  /\ LET usable == code[s].at = "confirmed"
                   \/ (code[s].at = "lapsed" /\ session[s].scanned)
     IN  \/ /\ code[s].at = "new"
            /\ Answer(s, "pending") /\ UNCHANGED session
         \/ /\ code[s].at # "new"
            /\ session' = [session EXCEPT ![s].scanned = TRUE]
            /\ IF usable THEN At(s, "exchanging")
               ELSE Answer(s, IF code[s].at = "scanned" THEN "pending" ELSE "expired")
  /\ UNCHANGED <<kind, accounts, client, code, check, signin, stored, bounds>>

\* What was seen as scanned may be exchanged even when it has "expired" since.
AskPan123(s) ==
  /\ Asking(s) /\ kind = "pan123"
  /\ LET usable == code[s].at = "confirmed"
                   \/ (code[s].at = "lapsed" /\ session[s].scanned)
     IN  \/ /\ code[s].at = "new"
            /\ Answer(s, "pending") /\ UNCHANGED <<session, client>>
         \/ /\ code[s].at \in {"scanned", "confirmed"} \/ usable
            /\ session' = [session EXCEPT ![s].scanned = TRUE]
            /\ IF usable THEN At(s, "exchanging") ELSE Answer(s, "pending")
            /\ UNCHANGED client
         \/ /\ code[s].at \in {"lapsed", "expired", "used"} /\ ~usable
            /\ Closed({s})
            /\ Answer(s, "expired")
  /\ UNCHANGED <<kind, accounts, code, check, signin, stored, bounds>>

AskQuark(s) ==
  /\ Asking(s) /\ kind = "quark"
  /\ CASE code[s].at \in {"new", "scanned"} ->
            Answer(s, "pending") /\ UNCHANGED <<session, client>>
       [] code[s].at = "confirmed" -> At(s, "exchanging") /\ UNCHANGED <<session, client>>
       [] OTHER -> Closed({s}) /\ Answer(s, "expired")
  /\ UNCHANGED <<kind, accounts, code, check, signin, stored, bounds>>

\* Only the time to live ends a login at Baidu.
AskBaidu(s) ==
  /\ Asking(s) /\ kind = "baidu"
  /\ IF code[s].at \in {"confirmed", "lapsed", "used"} THEN At(s, "exchanging")
     ELSE Answer(s, "pending")
  /\ UNCHANGED <<kind, accounts, session, client, code, check, signin, stored, bounds>>

\* The code is spent, the credential is in the session.
ExchangeDone(s) ==
  /\ poll[s].at = "exchanging"
  /\ client[s] # "closed" \/ kind = "baidu"
  /\ code[s].at \in {"confirmed", "lapsed"}
  /\ code' = [code EXCEPT ![s].at = "used"]
  /\ session' = [session EXCEPT ![s].credential = code[s].user]
  /\ At(s, "storing")
  /\ UNCHANGED <<kind, accounts, client, check, signin, stored, bounds>>

\* Refused, or the answer is lost after the code was spent.
ExchangeFails(s) ==
  /\ poll[s].at = "exchanging"
  /\ \/ (client[s] = "closed" \/ code[s].at = "used") /\ UNCHANGED <<code, bounds>>
     \/ Fault /\ \E spent \in BOOLEAN :
          code' = IF spent THEN [code EXCEPT ![s].at = "used"] ELSE code
  /\ Answer(s, "error")
  /\ UNCHANGED <<kind, accounts, session, client, check, signin, stored>>

(***************************************************************************)
(* A confirmed login becomes an account.                                   *)
(***************************************************************************)
Credential(s) == [user |-> session[s].credential, by |-> s]

\* update_account; 502 when the account is gone.
StoreRenewal(s) ==
  /\ poll[s].at = "storing" /\ session[s].account # NoId
  /\ LET i == session[s].account
     IN  IF Present(i)
           THEN /\ Write(i, WithToken(accounts[i], Credential(s)))
                /\ stored' = stored \cup {s}
                /\ poll' = [poll EXCEPT ![s] = [at |-> "verifying", id |-> i]]
                /\ UNCHANGED told
           ELSE Answer(s, "error") /\ UNCHANGED <<accounts, check, stored>>
  /\ UNCHANGED <<kind, session, client, code, signin, bounds>>

\* Fault: the session is finished before its credential is stored.
StoreNewFinishesFirst(s) ==
  /\ poll[s].at = "storing" /\ session[s].account = NoId
  /\ Taken(kind, session[s].name) \/ Room
  /\ IF Taken(kind, session[s].name)
       THEN Answer(s, "conflict") /\ UNCHANGED <<accounts, stored>>
       ELSE /\ accounts' = [accounts EXCEPT ![FreshId] =
                              NewRow(kind, session[s].name, Credential(s))]
            /\ stored' = stored \cup {s}
            /\ poll' = [poll EXCEPT ![s] = [at |-> "verifying", id |-> FreshId]]
            /\ UNCHANGED told
  /\ Closed({s})
  /\ UNCHANGED <<kind, code, check, signin, bounds>>

\* create_account; 409 when the name is taken.
StoreNew(s) ==
  /\ poll[s].at = "storing" /\ session[s].account = NoId
  /\ Taken(kind, session[s].name) \/ Room
  /\ IF Taken(kind, session[s].name)
       THEN Answer(s, "conflict") /\ UNCHANGED <<accounts, stored>>
       ELSE /\ accounts' = [accounts EXCEPT ![FreshId] =
                              NewRow(kind, session[s].name, Credential(s))]
            /\ stored' = stored \cup {s}
            /\ poll' = [poll EXCEPT ![s] = [at |-> "verifying", id |-> FreshId]]
            /\ UNCHANGED told
  /\ UNCHANGED <<kind, session, client, code, check, signin, bounds>>

\* The user a private profile names: only PikPak's always names one.
PrivateUsers(provider, user) ==
  IF provider = "pikpak" THEN {user} ELSE {user, NoUser}

\* verify_account within the poll, and finish().
PollVerified(s) ==
  /\ poll[s].at = "verifying"
  /\ Present(poll[s].id)
  /\ \E user \in PrivateUsers(kind, session[s].credential) :
       accounts' = [accounts EXCEPT ![poll[s].id].user = user,
                                    ![poll[s].id].status = "active"]
  /\ Closed(IF Registered(s) THEN {s} ELSE {})
  /\ Answer(s, "confirmed")
  /\ UNCHANGED <<kind, code, check, signin, stored, bounds>>

\* 502: the account stays, with its error; so does the session.
PollNotVerified(s) ==
  /\ poll[s].at = "verifying"
  /\ \/ ~Present(poll[s].id) /\ UNCHANGED <<accounts, bounds>>
     \/ /\ Present(poll[s].id)
        /\ Fault
        /\ accounts' = [accounts EXCEPT ![poll[s].id].status = "error"]
  /\ Answer(s, "error")
  /\ UNCHANGED <<kind, session, client, code, check, signin, stored>>

\* The API process restarts: sessions and requests are gone.
Restart ==
  /\ Fault
  /\ session' = [s \in Sessions |->
       IF session[s].at \in {"starting", "live"} THEN [session[s] EXCEPT !.at = "gone", !.late = TRUE]
       ELSE session[s]]
  /\ client' = [s \in Sessions |-> IF client[s] = "open" THEN "closed" ELSE client[s]]
  /\ poll' = [s \in Sessions |-> Idle]
  /\ check' = NoCheck
  /\ signin' = NoSignin
  /\ UNCHANGED <<kind, accounts, code, told, stored>>

(***************************************************************************)
(* PikPak: a password is used once.                                        *)
(***************************************************************************)
\* A name in use is refused before anything is sent.
BeginSignin(i, name) ==
  /\ kind = "pikpak" /\ signin = NoSignin
  /\ Change
  /\ IF i = NoId THEN ~Taken(kind, name) ELSE Present(i) /\ accounts[i].provider = kind
  /\ signin' = [at |-> "asking", id |-> i, name |-> name,
                known |-> IF i = NoId THEN NoUser ELSE accounts[i].user]
  /\ UNCHANGED <<kind, accounts, login, check>>

\* login_with_password has answered: the account must be the same user's, as far
\* as the request knew when it began; a new one may meet a name taken meanwhile.
EndSignin(user) ==
  /\ signin.at = "asking"
  /\ LET i == signin.id  token == [user |-> user, by |-> "hand"]
     IN  IF i # NoId
           THEN IF Present(i) /\ signin.known \in {NoUser, user}
                  THEN Write(i, [WithToken(accounts[i], token) EXCEPT !.user = user])
                  ELSE UNCHANGED <<accounts, check>>
           ELSE /\ Taken(kind, signin.name) \/ Room
                /\ IF Taken(kind, signin.name) THEN UNCHANGED <<accounts, check>>
                   ELSE Write(FreshId, [NewRow(kind, signin.name, token) EXCEPT !.user = user])
  /\ signin' = NoSignin
  /\ UNCHANGED <<kind, login, bounds>>

\* Captcha, wrong password, incomplete answer: nothing is stored.
SigninFails ==
  /\ signin.at = "asking"
  /\ signin' = NoSignin
  /\ UNCHANGED <<kind, accounts, login, check, bounds>>

(***************************************************************************)
(* Accounts by hand.                                                       *)
(***************************************************************************)
AddAccount(provider, name, user) ==
  /\ Change
  /\ Room /\ ~Taken(provider, name)
  /\ accounts' = [accounts EXCEPT ![FreshId] =
                    NewRow(provider, name, [user |-> user, by |-> "hand"])]
  /\ UNCHANGED <<kind, login, check, signin>>

RenameAccount(i, name) ==
  /\ Present(i) /\ ~Taken(accounts[i].provider, name)
  /\ Change
  /\ accounts' = [accounts EXCEPT ![i].name = name]
  /\ UNCHANGED <<kind, login, check, signin>>

PasteToken(i, user) ==
  /\ Present(i)
  /\ Change
  /\ Write(i, WithToken(accounts[i], [user |-> user, by |-> "hand"]))
  /\ UNCHANGED <<kind, login, signin>>

\* Of an account that no subscription uses.
DeleteAccount(i) ==
  /\ Present(i)
  /\ Change
  /\ Write(i, NoRow)
  /\ UNCHANGED <<kind, login, signin>>

(***************************************************************************)
(* The OpenAPI credential.                                                 *)
(***************************************************************************)
\* get_open_provider: of the row as it was read.
OpenCredential(i) == accounts[i].open

\* configure_open_credential
BindOpen(i, user) ==
  /\ Present(i)
  /\ accounts[i].provider \in QrKinds
  /\ Change
  /\ Write(i, [accounts[i] EXCEPT !.open = user, !.openStatus = "pending", !.replaced = TRUE])
  /\ UNCHANGED <<kind, login, signin>>

RemoveOpen(i) ==
  /\ Present(i) /\ accounts[i].open # NoUser
  /\ Change
  /\ Write(i, [accounts[i] EXCEPT !.open = NoUser, !.openStatus = "none", !.replaced = TRUE])
  /\ UNCHANGED <<kind, login, signin>>

\* POST verify ("private") and open-credential/verify ("open"), GET drives.
BeginCheck(i, what) ==
  /\ Present(i) /\ check.at = "idle"
  /\ what = "open" => accounts[i].open # NoUser
  /\ Change
  /\ check' = [at |-> "private", id |-> i, provider |-> accounts[i].provider, what |-> what,
               token |-> accounts[i].token, user |-> NoUser, open |-> OpenCredential(i),
               clean |-> TRUE]
  /\ UNCHANGED <<kind, accounts, login, signin>>

\* persist_provider_token: a token rotated meanwhile is stored over whatever the
\* row has by now.
Persisted(row) ==
  {row, IF row.token = check.token THEN row
        ELSE [row EXCEPT !.token = check.token, !.replaced = TRUE]}

\* validate_account of the private provider.  verify_account commits what the
\* profile says and reads the row again; the list of drives goes on with the row it
\* has, and without an OpenAPI credential commits with a rotated token only.
PrivateValid ==
  /\ check.at = "private" /\ Present(check.id)
  /\ \E user \in PrivateUsers(check.provider, check.token.user) :
       LET i == check.id
           drives == check.what = "drives"
           last == IF drives THEN check.open ELSE OpenCredential(i)
           named == [accounts[i] EXCEPT !.user = user]
           rows == IF ~drives THEN Persisted([named EXCEPT !.status = "active"])
                   ELSE IF last # NoUser THEN {accounts[i]}
                   ELSE {accounts[i]} \cup Persisted(named)
       IN  /\ \E row \in rows : accounts' = [accounts EXCEPT ![i] = row]
           /\ check' = IF check.what = "private" \/ last = NoUser THEN NoCheck
                       ELSE [check EXCEPT !.at = "open", !.user = user, !.open = last,
                                          !.provider = accounts[i].provider]
  /\ UNCHANGED <<kind, login, signin, bounds>>

PrivateInvalid ==
  /\ check.at = "private"
  /\ \/ ~Present(check.id) /\ UNCHANGED <<accounts, bounds>>
     \/ /\ Present(check.id)
        /\ Fault
        /\ \E row \in Persisted(accounts[check.id]) :
             accounts' = [accounts EXCEPT ![check.id] =
               IF check.what # "drives" THEN [row EXCEPT !.status = "error"]
               ELSE IF check.open = NoUser THEN row
               ELSE [row EXCEPT !.openStatus = "error"]]
  /\ check' = NoCheck
  /\ UNCHANGED <<kind, login, signin>>

\* The user an OpenAPI profile names: at Aliyun Drive perhaps none.
OpenUsers(provider, user) ==
  IF provider = "aliyundrive" THEN {user, NoUser} ELSE {user}

\* Two users are told apart when both profiles named one.
SameUser(user, open) == NoUser \in {user, open} \/ user = open

\* What a check that has asked for both profiles commits besides the OpenAPI
\* status: the list of drives has the private user and token still to write.
Checked ==
  LET row == accounts[check.id]
  IN  IF check.what = "drives" THEN Persisted([row EXCEPT !.user = check.user]) ELSE {row}

\* Only the verification at Aliyun Drive insists on both users.
OpenValid ==
  /\ check.at = "open" /\ Present(check.id)
  /\ \E open \in OpenUsers(check.provider, check.open), row \in Checked :
       LET both == NoUser \notin {check.user, open}
           accepted == /\ SameUser(check.user, open)
                       /\ check.what = "open" /\ check.provider = "aliyundrive" => both
       IN  accounts' = [accounts EXCEPT ![check.id] =
             IF ~accepted THEN [row EXCEPT !.openStatus = "error"]
             ELSE [row EXCEPT !.openStatus = "active", !.replaced = ~check.clean,
                              !.seen = IF both THEN "both"
                                       ELSE IF check.what = "drives" THEN "drives"
                                       ELSE "verify"]]
  /\ check' = NoCheck
  /\ UNCHANGED <<kind, login, signin, bounds>>

OpenInvalid ==
  /\ check.at = "open"
  /\ \/ ~Present(check.id) /\ UNCHANGED <<accounts, bounds>>
     \/ /\ Present(check.id)
        /\ Fault
        /\ \E row \in Checked :
             accounts' = [accounts EXCEPT ![check.id] = [row EXCEPT !.openStatus = "error"]]
  /\ check' = NoCheck
  /\ UNCHANGED <<kind, login, signin>>

Next ==
  \/ \E s \in Sessions :
       \/ BeginStart(s) \/ StartFails(s) \/ StartSucceeds(s) \/ StartAliyun(s)
       \/ GetsLate(s) \/ Scan(s) \/ CodeLapses(s)
       \/ \E u \in Users : ConfirmCode(s, u)
       \/ BeginPoll(s) \/ PollLate(s) \/ RequestFails(s)
       \/ AskAliyun(s) \/ AliyunUndecodable(s) \/ AskPan123(s) \/ AskQuark(s) \/ AskBaidu(s)
       \/ ExchangeDone(s) \/ ExchangeFails(s)
       \/ StoreRenewal(s) \/ StoreNew(s) \/ PollVerified(s) \/ PollNotVerified(s)
  \/ Restart
  \/ \E n \in Names : \E i \in Ids \cup {NoId} : BeginSignin(i, n)
  \/ \E u \in Users : EndSignin(u)
  \/ SigninFails
  \/ \E p \in {kind} \cup OtherKinds, n \in Names, u \in Users : AddAccount(p, n, u)
  \/ \E i \in Ids : \/ \E n \in Names : RenameAccount(i, n)
                    \/ \E u \in Users : PasteToken(i, u) \/ BindOpen(i, u)
                    \/ DeleteAccount(i) \/ RemoveOpen(i)
                    \/ \E what \in {"private", "open", "drives"} : BeginCheck(i, what)
  \/ PrivateValid \/ PrivateInvalid \/ OpenValid \/ OpenInvalid

Spec == Init /\ [][Next]_vars

(***************************************************************************)
(* Properties.                                                             *)
(***************************************************************************)
TypeOK ==
  /\ accounts \in [Ids -> Rows \cup {NoRow}]
  /\ session \in [Sessions ->
       [at : {"none", "starting", "live", "gone"}, account : Ids \cup {NoId},
        name : Names \cup {"none"}, credential : Users \cup {NoUser},
        scanned : BOOLEAN, late : BOOLEAN]]

\* An HTTP client is open exactly as long as a start or a session may use it,
\* however the start or the session ends: none leaks, none is closed too early.
ClientsAreOwned ==
  \A s \in Sessions : client[s] = "open" <=> OwnClient /\ session[s].at \in {"starting", "live"}

\* A code works once: the credential it was spent for is in the session, for the
\* next poll, until an account has had it or the session's time is over.
CredentialKept ==
  \A s \in Sessions : session[s].credential # NoUser /\ poll[s] = Idle =>
    Registered(s) \/ s \in stored \/ session[s].late

\* A login answered as expired stores nothing any more.
ExpiredIsFinal ==
  [][\A s \in Sessions : told[s] = "expired" /\ s \in stored' => s \in stored]_vars

\* An OpenAPI credential counted as usable, neither credential of which changed after
\* the check that said so: that check saw one user, or one of the profiles named none
\* (account_service.py:284, cloud_accounts.py:492), which the verification of an
\* account at Aliyun Drive does not accept, whatever crosses it at its awaits.
OpenChecked ==
  \A i \in Ids : Present(i) /\ accounts[i].openStatus = "active" /\ ~accounts[i].replaced =>
    /\ accounts[i].seen = "both" => accounts[i].open = accounts[i].token.user
    /\ accounts[i].seen = "verify" => accounts[i].provider # "aliyundrive"
    /\ accounts[i].seen # "none"

\* What holds between any two awaits of the logins and the checks.
LoginInvariant == TypeOK /\ ClientsAreOwned /\ CredentialKept /\ OpenChecked

\* README.md:169: a usable OpenAPI credential is always that of the account's user.
OpenMatches ==
  \A i \in Ids : Present(i) /\ accounts[i].openStatus = "active" =>
    accounts[i].open = accounts[i].token.user

\* A login of one provider never becomes the credential of another's account.
LoginStaysWithItsProvider ==
  \A i \in Ids : Present(i) /\ accounts[i].token.by \in Sessions => accounts[i].provider = kind

\* A login that has created its account is not refused for its own name.
OwnNameIsNoConflict ==
  [][\A s \in Sessions : poll[s].at = "storing" /\ poll'[s] = Idle /\ session[s].account = NoId
                          /\ session' = session =>
       \E i \in Ids : Present(i) /\ accounts[i].name = session[s].name
                      /\ accounts[i].token.by # s]_vars

\* README.md:186: what a login has renewed is not overwritten by a verification
\* that began before it.
RenewalHolds ==
  [][\A i \in Ids, s \in Sessions :
       Present(i) /\ accounts[i].token.by = s /\ session[s].account = i /\ check.id = i
       /\ check'.at = "idle" /\ accounts'[i] # NoRow =>
         accounts'[i].token = accounts[i].token]_vars
===============================================================================
