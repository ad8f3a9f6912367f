---------------------------- MODULE ProviderProofs ----------------------------
(***************************************************************************)
(* Proofs about the two modules in which the providers answer: the logins  *)
(* of AccountLogin and the saves of ProviderSave.                          *)
(*                                                                         *)
(* For every number of accounts, users, names and logins and for every     *)
(* provider, the HTTP clients of the logins, the credentials they store    *)
(* and the marks of the OpenAPI credentials are those that LoginInvariant  *)
(* and ExpiredIsFinal promise.                                             *)
(*                                                                         *)
(* For every provider, drive, page size, bound on retries and number of    *)
(* jobs, a job's file is saved once and what is reported is there, as      *)
(* SubmittedOnce and SavesAreRight promise.                                *)
(***************************************************************************)
EXTENDS AccountLogin, ProviderSave, FiniteSetTheorems, NaturalsInduction, WellFoundedInduction,
        TLAPS

-------------------------------------------------------------------------------
(***************************************************************************)
(* Numbers.                                                                *)
(***************************************************************************)

\* A set of numbers that is not empty has a least one.
LEMMA LeastNumber ==
  ASSUME NEW T, T \subseteq Nat, T # {}
  PROVE  \E x \in T : \A y \in T : x <= y
<1> DEFINE Less == {p \in Nat \X Nat : p[1] < p[2]}
<1>1. IsWellFoundedOn(Less, Nat)
  BY NatLessThanWellFounded DEF OpToRel
<1>2. PICK x \in T : \A y \in T : <<y, x>> \notin Less
  BY <1>1, WFMin
<1>3. ASSUME NEW y \in T, y < x PROVE <<y, x>> \in Less
  BY <1>3
<1>4. \A y \in T : ~(y < x)
  BY <1>2, <1>3, Zenon
<1>5. QED
  BY <1>4

\* A set of numbers with a bound, and not empty, has a greatest one.
LEMMA GreatestNumber ==
  ASSUME NEW T, T \subseteq Nat, T # {}, NEW n \in Nat, \A x \in T : x <= n
  PROVE  \E x \in T : \A y \in T : x >= y
<1> DEFINE U == {m \in Nat : \A x \in T : x <= m}
<1>1. PICK m \in U : \A y \in U : m <= y
  <2>1. n \in U
    OBVIOUS
  <2>2. QED
    BY <2>1, LeastNumber
<1>2. CASE m \in T
  BY <1>1, <1>2
<1>3. CASE m \notin T
  <2>1. \A x \in T : x <= m - 1
    BY <1>1, <1>3
  <2>2. PICK x \in T : TRUE
    OBVIOUS
  <2>3. m - 1 \in Nat
    BY <2>1, <2>2
  <2>4. m - 1 \in U
    BY <2>1, <2>3
  <2>5. QED
    BY <1>1, <2>4
<1>4. QED
  BY <1>2, <1>3

\* What a quotient is.
LEMMA Division ==
  ASSUME NEW a \in Nat, NEW p \in Nat \ {0}
  PROVE  /\ a \div p \in Nat
         /\ (a \div p) * p <= a
         /\ a < (a \div p) * p + p
OBVIOUS

\* Which numbers have a quotient, or a greater one.
LEMMA Quotient ==
  ASSUME NEW a \in Nat, NEW p \in Nat \ {0}, NEW m \in Nat
  PROVE  /\ a \div p >= m <=> a >= m * p
         /\ a \div p = m <=> m * p <= a /\ a < m * p + p
<1> DEFINE q == a \div p
<1>1. q \in Nat /\ q * p <= a /\ a < q * p + p
  BY Division
<1> HIDE DEF q
<1>2. ASSUME q >= m PROVE a >= m * p
  <2>1. q * p >= m * p
    BY <1>1, <1>2
  <2>2. QED
    BY <1>1, <2>1
<1>3. ASSUME q < m PROVE a < m * p
  <2>1. (q + 1) * p <= m * p
    BY <1>1, <1>3
  <2>2. QED
    BY <1>1, <2>1
<1>4. ASSUME q > m PROVE a >= m * p + p
  <2>1. q * p >= (m + 1) * p
    BY <1>1, <1>4
  <2>2. QED
    BY <1>1, <2>1
<1>5. QED
  BY <1>1, <1>2, <1>3, <1>4 DEF q

-------------------------------------------------------------------------------
(***************************************************************************)
(* AccountLogin: the invariant.                                            *)
(***************************************************************************)

\* TypeOK by kinds of state: the accounts,
RowsTyped == kind \in Kinds /\ accounts \in [Ids -> Rows \cup {NoRow}]

\* the sessions of the logins, each with the HTTP client it may own,
SessionsTyped ==
  /\ session \in [Sessions ->
       [at : {"none", "starting", "live", "gone"}, account : Ids \cup {NoId},
        name : Names \cup {"none"}, credential : Users \cup {NoUser},
        scanned : BOOLEAN, late : BOOLEAN]]
  /\ client \in [Sessions -> {"none", "open", "closed"}]

\* the codes at the provider, the polls of the pages, what they were told and stored,
PollsTyped ==
  /\ code \in [Sessions ->
       [at : {"new", "scanned", "confirmed", "lapsed", "expired", "used"},
        user : Users \cup {NoUser}]]
  /\ poll \in [Sessions ->
       [at : {"idle", "asking", "exchanging", "storing", "verifying"}, id : Ids \cup {NoId}]]
  /\ told \in [Sessions -> {"none", "expired", "confirmed"}]
  /\ stored \subseteq Sessions

\* and the check and the login by password under way, with what they hold across their
\* awaits.
RequestsTyped ==
  /\ check \in [at : {"idle", "private", "open"}, id : Ids \cup {NoId},
                provider : Kinds \cup OtherKinds \cup {"none"},
                what : {"private", "open", "drives"}, token : Tokens \cup {NoUser},
                user : Users \cup {NoUser}, open : Users \cup {NoUser}, clean : BOOLEAN]
  /\ check.at # "idle" => check.id \in Ids /\ check.token \in Tokens
  /\ signin \in [at : {"idle", "asking"}, id : Ids \cup {NoId}, name : Names \cup {"none"},
                 known : Users \cup {NoUser}]
  /\ signin.at # "idle" => signin.name \in Names

\* A poll is under way.
Polling(s) == poll[s].at # "idle"

\* A poll needs its session, until its time is over. A session with a credential stays
\* until it is stored or its time is over.
SessionsSound ==
  \A s \in Sessions :
    /\ session[s].at # "none" => session[s].name \in Names
    /\ session[s].at \in {"none", "starting"} =>
         session[s].credential = NoUser /\ ~Polling(s)
    /\ Polling(s) => session[s].at = "live" \/ session[s].late
    /\ session[s].credential # NoUser =>
         session[s].at = "live" \/ session[s].late \/ s \in stored

\* The poll of a session got as far as its code and its credential did.
PollSound(s) ==
  /\ code[s].at \in {"confirmed", "lapsed", "used"} => code[s].user \in Users
  /\ poll[s].at = "exchanging" => code[s].at \in {"confirmed", "lapsed", "used"}
  /\ poll[s].at \in {"asking", "exchanging"} => session[s].credential = NoUser
  /\ poll[s].at = "storing" => session[s].credential # NoUser
  /\ poll[s].at = "verifying" => s \in stored /\ poll[s].id \in Ids
PollsSound == \A s \in Sessions : PollSound(s)

\* Nothing polls for a login that its page was told to have expired.
AnswersFinal ==
  \A s \in Sessions : told[s] = "expired" => session[s].at = "gone" /\ ~Polling(s)

\* A check that nobody crossed holds the credentials of the row; when it asks for the
\* OpenAPI profile the private one has named the user of the token, or none.
CheckSound ==
  /\ check.at # "idle" /\ check.clean =>
       /\ Present(check.id)
       /\ accounts[check.id].provider = check.provider
       /\ accounts[check.id].token = check.token
       /\ accounts[check.id].open = check.open
  /\ check.at = "open" => check.what # "private" /\ check.user \in {check.token.user, NoUser}

\* The inductive invariant.
LoginIsSound ==
  /\ RowsTyped /\ SessionsTyped /\ PollsTyped /\ RequestsTyped
  /\ ClientsAreOwned /\ SessionsSound /\ PollsSound /\ AnswersFinal
  /\ CheckSound /\ OpenChecked

-------------------------------------------------------------------------------
(***************************************************************************)
(* AccountLogin: rows, sessions and polls that a step writes.              *)
(***************************************************************************)

\* The number that a new row gets is no other row's, as long as there is room.
LEMMA FreshIdIsFree ==
  ASSUME Room
  PROVE  FreshId \in Ids /\ ~Present(FreshId)
<1> DEFINE N == Cardinality(Ids)
           Above(i) == \A j \in Ids : j >= i => ~Present(j)
           T == {i \in Ids : Above(i)}
<1>1. N \in Nat /\ Ids = 1 .. N /\ N \in Ids
  BY LoginAssumption, FS_CardinalityType DEF LoginAssumption
<1>2. N \in T
  BY <1>1 DEF Room
<1>3. PICK x \in T : \A y \in T : x <= y
  <2>1. T \subseteq Nat
    BY <1>1
  <2>2. QED
    BY <1>2, <2>1, LeastNumber
<1>4. ASSUME x # 1 PROVE Present(x - 1)
  <2>1. x - 1 \in Ids /\ x - 1 \notin T
    BY <1>1, <1>3, <1>4
  <2>2. PICK j \in Ids : j >= x - 1 /\ Present(j)
    BY <2>1
  <2>3. j = x - 1
    BY <1>1, <1>3, <2>2
  <2>4. QED
    BY <2>2, <2>3
<1>5. \E i \in Ids : /\ \A j \in Ids : j >= i => ~Present(j)
                     /\ i = 1 \/ Present(i - 1)
  BY <1>3, <1>4
<1>6. /\ FreshId \in Ids
      /\ \A j \in Ids : j >= FreshId => ~Present(j)
  BY <1>5 DEF FreshId
<1>7. QED
  BY <1>1, <1>6

\* What stands for no row, no number and no user is none.
LEMMA LoginConstants ==
  /\ NoId \notin Ids /\ NoUser \notin Users /\ NoRow \notin Rows
BY LoginAssumption, NoRowAssumption DEF LoginAssumption, NoRowAssumption

\* A row or none has every number, also after one of them was written.
LEMMA RowSet ==
  ASSUME RowsTyped, NEW i \in Ids
  PROVE  /\ accounts[i] \in Rows \cup {NoRow}
         /\ Present(i) <=> accounts[i] \in Rows
         /\ \A r \in Rows \cup {NoRow} :
              [accounts EXCEPT ![i] = r] \in [Ids -> Rows \cup {NoRow}]
BY LoginConstants DEF RowsTyped, Present

\* A row's credentials, and what is known of them, are those of another.
SameCredentials(r, old) ==
  /\ r.provider = old.provider /\ r.token = old.token /\ r.open = old.open
  /\ r.openStatus = old.openStatus /\ r.replaced = old.replaced /\ r.seen = old.seen

\* Renaming an account writes only its name.
LEMMA Renamed ==
  ASSUME NEW r \in Rows, NEW x \in Names
  PROVE  [r EXCEPT !.name = x] \in Rows /\ SameCredentials([r EXCEPT !.name = x], r)
BY DEF Rows, SameCredentials

\* The outcome of a verification of the private credential is a status.
LEMMA Marked ==
  ASSUME NEW r \in Rows, NEW x \in {"active", "error"}
  PROVE  [r EXCEPT !.status = x] \in Rows /\ SameCredentials([r EXCEPT !.status = x], r)
BY DEF Rows, SameCredentials

\* A private profile tells the user.
LEMMA Named ==
  ASSUME NEW r \in Rows, NEW u \in Users \cup {NoUser}
  PROVE  [r EXCEPT !.user = u] \in Rows /\ SameCredentials([r EXCEPT !.user = u], r)
BY DEF Rows, SameCredentials

\* A verification of the private credential writes the user and the status.
LEMMA Verified ==
  ASSUME NEW r \in Rows, NEW u \in Users \cup {NoUser}
  PROVE  LET row == [r EXCEPT !.user = u, !.status = "active"]
         IN  row \in Rows /\ SameCredentials(row, r)
BY DEF Rows, SameCredentials

\* A bound OpenAPI credential is not usable before it was verified; a removed one never.
LEMMA Bound ==
  ASSUME NEW r \in Rows, NEW u \in Users \cup {NoUser},
         NEW x \in {"none", "pending"}
  PROVE  LET row == [r EXCEPT !.open = u, !.openStatus = x, !.replaced = TRUE]
         IN  row \in Rows /\ row.openStatus = x
BY DEF Rows

\* A failed verification of the OpenAPI credential leaves it unusable.
LEMMA Refused ==
  ASSUME NEW r \in Rows
  PROVE  /\ [r EXCEPT !.openStatus = "error"] \in Rows
         /\ [r EXCEPT !.openStatus = "error"].openStatus = "error"
BY DEF Rows

\* A row that a token is written to is marked as replaced, whoever its user becomes.
LEMMA TokenPut ==
  ASSUME NEW r \in Rows, NEW t \in Tokens
  PROVE  /\ WithToken(r, t) \in Rows /\ WithToken(r, t).replaced
         /\ \A u \in Users : /\ [WithToken(r, t) EXCEPT !.user = u] \in Rows
                            /\ [WithToken(r, t) EXCEPT !.user = u].replaced
BY DEF WithToken, Rows

\* A new row has no OpenAPI credential.
LEMMA NewRowTyped ==
  ASSUME NEW p \in Kinds \cup OtherKinds, NEW n \in Names, NEW t \in Tokens
  PROVE  /\ NewRow(p, n, t) \in Rows /\ NewRow(p, n, t).openStatus = "none"
         /\ \A u \in Users : /\ [NewRow(p, n, t) EXCEPT !.user = u] \in Rows
                            /\ [NewRow(p, n, t) EXCEPT !.user = u].openStatus = "none"
BY DEF NewRow, Rows

\* A poll that stores has the credential of a user.
LEMMA CredentialTyped ==
  ASSUME SessionsTyped, PollsSound, NEW s \in Sessions, poll[s].at = "storing"
  PROVE  Credential(s) \in Tokens
<1>1. session[s].credential \in Users
  BY DEF SessionsTyped, PollsSound, PollSound
<1>2. QED
  BY <1>1 DEF Credential, Tokens

\* What persist_provider_token writes is the token the check began with, or nothing.
LEMMA PersistedRow ==
  ASSUME NEW r \in Rows, check.token \in Tokens, NEW p \in Persisted(r)
  PROVE  /\ p \in Rows /\ p.open = r.open /\ p.provider = r.provider
         /\ p = r \/ (p.token = check.token /\ p.replaced)
BY DEF Persisted, Rows

\* What a check that has asked for both profiles commits is a row with the private
\* credential and the provider that the account had or the check began with.
LEMMA CheckedRow ==
  ASSUME accounts[check.id] \in Rows, check.token \in Tokens,
         check.user \in Users \cup {NoUser}, NEW p \in Checked
  PROVE  /\ p \in Rows /\ p.open = accounts[check.id].open
         /\ p.provider = accounts[check.id].provider
         /\ p.token \in {accounts[check.id].token, check.token}
<1> DEFINE row == accounts[check.id]
           named == [row EXCEPT !.user = check.user]
<1>1. named \in Rows /\ SameCredentials(named, row)
  BY Named
<1>2. CASE check.what = "drives"
  <2>1. p \in Persisted(named)
    BY <1>2 DEF Checked
  <2>2. QED
    BY <1>1, <2>1, PersistedRow DEF SameCredentials
<1>3. CASE check.what # "drives"
  BY <1>3 DEF Checked
<1>4. QED
  BY <1>2, <1>3

\* What a check may call usable: credentials of one user, or of users not both of
\* whom it knew.
RightlyUsable(r) ==
  /\ r.seen = "both" => r.open = r.token.user
  /\ r.seen = "verify" => r.provider # "aliyundrive"
  /\ r.seen # "none"

\* What a row may become: it is deleted, its OpenAPI credential is not usable or a
\* credential was replaced, the credentials and their mark stay, or were accepted.
RowFits(i, r) ==
  \/ r = NoRow
  \/ r \in Rows /\ (r.openStatus # "active" \/ r.replaced)
  \/ r \in Rows /\ Present(i) /\ SameCredentials(r, accounts[i])
  \/ r \in Rows /\ RightlyUsable(r)

\* A step writes at most one row.
RowStep ==
  \/ UNCHANGED accounts
  \/ \E i \in Ids, r \in Rows \cup {NoRow} :
       accounts' = [accounts EXCEPT ![i] = r] /\ RowFits(i, r)

\* A row that fits is a row.
LEMMA RowWritten ==
  ASSUME RowsTyped, kind' = kind, NEW i \in Ids, NEW r \in Rows \cup {NoRow},
         accounts' = [accounts EXCEPT ![i] = r], RowFits(i, r)
  PROVE  RowsTyped' /\ RowStep
BY DEF RowsTyped, RowStep

\* A login is for an account that is there or for a new one, and it has a name.
LEMMA TargetsTyped ==
  ASSUME RowsTyped, NEW target \in Targets
  PROVE  target.id \in Ids \cup {NoId} /\ target.name \in Names
BY RowSet DEF Targets, Rows

\* What finish() leaves.
LEMMA ClosedSessions ==
  ASSUME SessionsTyped, NEW gone, Closed(gone)
  PROVE  /\ SessionsTyped'
         /\ \A s \in Sessions \ gone : session'[s] = session[s] /\ client'[s] = client[s]
         /\ \A s \in Sessions \cap gone :
              /\ session'[s].at = "gone" /\ session'[s].late = session[s].late
              /\ session'[s].name = session[s].name
              /\ session'[s].credential = session[s].credential
              /\ client'[s] = IF OwnClient THEN "closed" ELSE client[s]
BY DEF SessionsTyped, Closed

\* What a start leaves: a session of its own, and none of those whose time is over.
Started(s) ==
  /\ session[s].at = "none" /\ session'[s].at \in {"starting", "live"}
  /\ session'[s].credential = NoUser /\ session'[s].name \in Names
  /\ \A t \in Sessions \ {s} :
       \/ session'[t] = session[t]
       \/ /\ session[t].at = "live" /\ session'[t].at = "gone"
          /\ session[t].late /\ session'[t].late
          /\ session'[t].name = session[t].name
          /\ session'[t].credential = session[t].credential

\* A check keeps what it has read as long as the rows keep their credentials.
LEMMA CheckKept ==
  ASSUME RequestsTyped, CheckSound, check' = check,
         \A i \in Ids : Present(i) =>
           /\ accounts'[i] # NoRow
           /\ accounts'[i].token = accounts[i].token /\ accounts'[i].open = accounts[i].open
           /\ accounts'[i].provider = accounts[i].provider
  PROVE  CheckSound'
BY DEF RequestsTyped, CheckSound, Present

\* A poll goes on, or ends; those of the other sessions stay.
LEMMA PollMoved ==
  ASSUME PollsTyped, NEW s \in Sessions, NEW x, At(s, x)
  PROVE  /\ poll'[s].at = x /\ UNCHANGED told
         /\ \A t \in Sessions \ {s} : poll'[t] = poll[t]
BY DEF PollsTyped, At

LEMMA PollAnswered ==
  ASSUME PollsTyped, NEW s \in Sessions, NEW x, Answer(s, x)
  PROVE  poll'[s].at = "idle" /\ \A t \in Sessions \ {s} : poll'[t] = poll[t]
BY DEF PollsTyped, Answer, Idle

LEMMA OnlyPoll ==
  ASSUME PollsSound, NEW s \in Sessions, PollSound(s)', stored \subseteq stored',
         \A t \in Sessions \ {s} :
           /\ poll'[t] = poll[t] /\ code'[t] = code[t]
           /\ session'[t].credential = session[t].credential
  PROVE  PollsSound'
BY DEF PollsSound, PollSound

-------------------------------------------------------------------------------
(***************************************************************************)
(* AccountLogin: each part of the invariant is preserved.                  *)
(***************************************************************************)

\* The rows: every step writes at most one, with a row that fits.
LEMMA RowsAreTyped ==
  ASSUME LoginIsSound, Next
  PROVE  RowsTyped' /\ RowStep
<1>0. /\ RowsTyped /\ SessionsTyped /\ PollsTyped /\ RequestsTyped /\ ClientsAreOwned
      /\ SessionsSound /\ PollsSound /\ AnswersFinal /\ CheckSound /\ OpenChecked
  BY DEF LoginIsSound
<1>1. ASSUME NEW s \in Sessions,
             \/ BeginStart(s) \/ StartFails(s) \/ StartSucceeds(s) \/ StartAliyun(s)
             \/ GetsLate(s) \/ Scan(s) \/ CodeLapses(s) \/ BeginPoll(s)
             \/ PollLate(s) \/ RequestFails(s) \/ AskAliyun(s)
             \/ AliyunUndecodable(s) \/ AskPan123(s) \/ AskQuark(s) \/ AskBaidu(s)
             \/ ExchangeDone(s) \/ ExchangeFails(s)
      PROVE  RowsTyped' /\ RowStep
  <2>1. UNCHANGED <<kind, accounts>>
    BY <1>1 DEF BeginStart, StartFails, StartSucceeds, StartAliyun, GetsLate, Scan,
       CodeLapses, BeginPoll, PollLate, RequestFails, AskAliyun, AliyunUndecodable,
       AskPan123, AskQuark, AskBaidu, ExchangeDone, ExchangeFails
  <2>2. QED
    BY <2>1, <1>0 DEF RowsTyped, RowStep
<1>2. ASSUME NEW s \in Sessions, NEW u \in Users, ConfirmCode(s, u)
      PROVE  RowsTyped' /\ RowStep
  <2>1. UNCHANGED <<kind, accounts>>
    BY <1>2 DEF ConfirmCode
  <2>2. QED
    BY <2>1, <1>0 DEF RowsTyped, RowStep
<1>3. ASSUME NEW i \in Ids \cup {NoId}, NEW n \in Names, BeginSignin(i, n)
      PROVE  RowsTyped' /\ RowStep
  <2>1. UNCHANGED <<kind, accounts>>
    BY <1>3 DEF BeginSignin
  <2>2. QED
    BY <2>1, <1>0 DEF RowsTyped, RowStep
<1>4. ASSUME NEW i \in Ids, NEW what \in {"private", "open", "drives"},
             BeginCheck(i, what)
      PROVE  RowsTyped' /\ RowStep
  <2>1. UNCHANGED <<kind, accounts>>
    BY <1>4 DEF BeginCheck
  <2>2. QED
    BY <2>1, <1>0 DEF RowsTyped, RowStep
<1>5. CASE \/ Restart \/ SigninFails
  <2>1. UNCHANGED <<kind, accounts>>
    BY <1>5 DEF Restart, SigninFails
  <2>2. QED
    BY <2>1, <1>0 DEF RowsTyped, RowStep
<1>6. ASSUME NEW s \in Sessions, StoreRenewal(s) PROVE RowsTyped' /\ RowStep
  <2>1. CASE UNCHANGED accounts
    BY <1>6, <2>1, <1>0 DEF StoreRenewal, RowsTyped, RowStep
  <2>2. CASE Present(session[s].account)
    <3> DEFINE row == WithToken(accounts[session[s].account], Credential(s))
    <3>1. /\ session[s].account \in Ids /\ accounts[session[s].account] \in Rows
          /\ Credential(s) \in Tokens
      BY <1>6, <2>2, <1>0, RowSet, CredentialTyped DEF StoreRenewal, SessionsTyped
    <3>2. row \in Rows
      BY <3>1, TokenPut
    <3>3. accounts' = [accounts EXCEPT ![session[s].account] = row] /\ kind' = kind
      BY <1>6, <2>2, <3>1, RowSet DEF StoreRenewal, Write
    <3>4. RowFits(session[s].account, row)
      BY <3>1, <3>2, TokenPut DEF Tokens, RowFits
    <3>5. QED
      BY <1>0, <3>1, <3>2, <3>3, <3>4, RowWritten
  <2>3. QED
    BY <1>6, <2>1, <2>2 DEF StoreRenewal
<1>7. ASSUME NEW s \in Sessions, StoreNew(s) PROVE RowsTyped' /\ RowStep
  <2> DEFINE row == NewRow(kind, session[s].name, Credential(s))
  <2>1. CASE UNCHANGED accounts
    BY <1>7, <2>1, <1>0 DEF StoreNew, RowsTyped, RowStep
  <2>2. CASE ~Taken(kind, session[s].name)
    <3>1. session[s].name \in Names /\ Credential(s) \in Tokens
      BY <1>7, <1>0, CredentialTyped DEF StoreNew, SessionsSound, Polling
    <3>2. FreshId \in Ids /\ row \in Rows /\ row.openStatus = "none"
      BY <1>7, <1>0, <2>2, <3>1, FreshIdIsFree, NewRowTyped DEF StoreNew, RowsTyped
    <3>3. accounts' = [accounts EXCEPT ![FreshId] = row] /\ kind' = kind
      BY <1>7, <2>2 DEF StoreNew
    <3>4. QED
      BY <1>0, <3>2, <3>3, RowWritten DEF RowFits
  <2>3. QED
    BY <1>7, <2>1, <2>2 DEF StoreNew
<1>8. ASSUME NEW s \in Sessions, PollVerified(s) PROVE RowsTyped' /\ RowStep
  <2>1. /\ poll[s].id \in Ids /\ accounts[poll[s].id] \in Rows
        /\ session[s].credential \in Users \cup {NoUser}
    BY <1>8, <1>0, RowSet DEF PollVerified, PollsSound, PollSound, SessionsTyped
  <2>2. PICK u \in Users \cup {NoUser} :
          accounts' = [accounts EXCEPT ![poll[s].id].user = u, ![poll[s].id].status = "active"]
    BY <1>8, <2>1 DEF PollVerified, PrivateUsers
  <2> DEFINE row == [accounts[poll[s].id] EXCEPT !.user = u, !.status = "active"]
  <2>3. row \in Rows /\ SameCredentials(row, accounts[poll[s].id])
    BY <2>1, Verified
  <2>4. accounts' = [accounts EXCEPT ![poll[s].id] = row] /\ kind' = kind
    BY <1>8, <1>0, <2>1, <2>2, RowSet DEF PollVerified, RowsTyped
  <2>5. RowFits(poll[s].id, row)
    BY <2>3, <1>8 DEF PollVerified, RowFits
  <2>6. QED
    BY <1>0, <2>1, <2>3, <2>4, <2>5, RowWritten
<1>9. ASSUME NEW s \in Sessions, PollNotVerified(s) PROVE RowsTyped' /\ RowStep
  <2>1. CASE UNCHANGED accounts
    BY <1>9, <2>1, <1>0 DEF PollNotVerified, RowsTyped, RowStep
  <2>2. CASE Present(poll[s].id)
    <3> DEFINE row == [accounts[poll[s].id] EXCEPT !.status = "error"]
    <3>1. poll[s].id \in Ids /\ accounts[poll[s].id] \in Rows
      BY <1>9, <2>2, <1>0, RowSet DEF PollNotVerified, PollsSound, PollSound
    <3>2. row \in Rows /\ SameCredentials(row, accounts[poll[s].id])
      BY <3>1, Marked
    <3>3. accounts' = [accounts EXCEPT ![poll[s].id] = row] /\ kind' = kind
      BY <1>9, <2>2, <3>1, RowSet DEF PollNotVerified, RowsTyped
    <3>4. RowFits(poll[s].id, row)
      BY <3>2, <2>2 DEF RowFits
    <3>5. QED
      BY <1>0, <3>1, <3>2, <3>3, <3>4, RowWritten
  <2>3. QED
    BY <1>9, <2>1, <2>2 DEF PollNotVerified
<1>10. ASSUME NEW u \in Users, EndSignin(u) PROVE RowsTyped' /\ RowStep
  <2> DEFINE i == signin.id
             token == [user |-> u, by |-> "hand"]
             old == [WithToken(accounts[i], token) EXCEPT !.user = u]
             new == [NewRow(kind, signin.name, token) EXCEPT !.user = u]
  <2>0. token \in Tokens /\ kind' = kind
    BY <1>10 DEF Tokens, EndSignin
  <2>1. CASE UNCHANGED accounts
    BY <2>0, <2>1, <1>0 DEF RowsTyped, RowStep
  <2>2. CASE i # NoId /\ Present(i) /\ accounts' = [accounts EXCEPT ![i] = old]
    <3>1. i \in Ids /\ accounts[i] \in Rows
      BY <1>10, <2>2, <1>0, RowSet DEF RequestsTyped
    <3>2. old \in Rows /\ old.replaced
      BY <2>0, <3>1, TokenPut
    <3>3. QED
      BY <1>0, <2>0, <2>2, <3>1, <3>2, RowWritten DEF RowFits
  <2>3. CASE Room /\ accounts' = [accounts EXCEPT ![FreshId] = new]
    <3>1. FreshId \in Ids /\ new \in Rows /\ new.openStatus = "none"
      BY <1>10, <1>0, <2>0, <2>3, FreshIdIsFree, NewRowTyped DEF EndSignin, RowsTyped,
         RequestsTyped
    <3>2. QED
      BY <1>0, <2>0, <2>3, <3>1, RowWritten DEF RowFits
  <2>4. QED
    BY <1>10, <2>1, <2>2, <2>3 DEF EndSignin, Write
<1>11. ASSUME NEW p \in {kind} \cup OtherKinds, NEW n \in Names, NEW u \in Users,
              AddAccount(p, n, u)
       PROVE  RowsTyped' /\ RowStep
  <2> DEFINE row == NewRow(p, n, [user |-> u, by |-> "hand"])
  <2>1. FreshId \in Ids /\ row \in Rows /\ row.openStatus = "none"
    BY <1>11, <1>0, FreshIdIsFree, NewRowTyped DEF AddAccount, RowsTyped, Tokens
  <2>2. accounts' = [accounts EXCEPT ![FreshId] = row] /\ kind' = kind
    BY <1>11 DEF AddAccount
  <2>3. QED
    BY <1>0, <2>1, <2>2, RowWritten DEF RowFits
<1>12. ASSUME NEW i \in Ids, NEW n \in Names, RenameAccount(i, n)
       PROVE  RowsTyped' /\ RowStep
  <2> DEFINE row == [accounts[i] EXCEPT !.name = n]
  <2>1. i \in Ids /\ accounts[i] \in Rows
    BY <1>12, <1>0, RowSet DEF RenameAccount
  <2>2. row \in Rows /\ SameCredentials(row, accounts[i])
    BY <2>1, Renamed
  <2>3. accounts' = [accounts EXCEPT ![i] = row] /\ kind' = kind
    BY <1>12, <2>1, RowSet DEF RenameAccount
  <2>4. RowFits(i, row)
    BY <2>2, <1>12 DEF RenameAccount, RowFits
  <2>5. QED
    BY <1>0, <2>1, <2>2, <2>3, <2>4, RowWritten
<1>13. ASSUME NEW i \in Ids, NEW u \in Users, PasteToken(i, u) PROVE RowsTyped' /\ RowStep
  <2> DEFINE row == WithToken(accounts[i], [user |-> u, by |-> "hand"])
  <2>1. i \in Ids /\ accounts[i] \in Rows
    BY <1>13, <1>0, RowSet DEF PasteToken
  <2>2. row \in Rows
    BY <2>1, TokenPut DEF Tokens
  <2>3. accounts' = [accounts EXCEPT ![i] = row] /\ kind' = kind
    BY <1>13, <2>1, RowSet DEF PasteToken, Write
  <2>4. RowFits(i, row)
    BY <2>1, <2>2, TokenPut DEF Tokens, RowFits
  <2>5. QED
    BY <1>0, <2>1, <2>2, <2>3, <2>4, RowWritten
<1>14. ASSUME NEW i \in Ids, NEW u \in Users, BindOpen(i, u) PROVE RowsTyped' /\ RowStep
  <2> DEFINE row == [accounts[i] EXCEPT !.open = u, !.openStatus = "pending",
             !.replaced = TRUE]
  <2>1. i \in Ids /\ accounts[i] \in Rows
    BY <1>14, <1>0, RowSet DEF BindOpen
  <2>2. row \in Rows
    BY <2>1, Bound
  <2>3. accounts' = [accounts EXCEPT ![i] = row] /\ kind' = kind
    BY <1>14, <2>1, RowSet DEF BindOpen, Write
  <2>4. RowFits(i, row)
    BY <2>1, <2>2, Bound DEF RowFits
  <2>5. QED
    BY <1>0, <2>1, <2>2, <2>3, <2>4, RowWritten
<1>15. ASSUME NEW i \in Ids, DeleteAccount(i) PROVE RowsTyped' /\ RowStep
  <2>1. accounts' = [accounts EXCEPT ![i] = NoRow] /\ kind' = kind
    BY <1>15 DEF DeleteAccount, Write
  <2>2. QED
    BY <1>0, <2>1, RowWritten DEF RowFits
<1>16. ASSUME NEW i \in Ids, RemoveOpen(i) PROVE RowsTyped' /\ RowStep
  <2> DEFINE row == [accounts[i] EXCEPT !.open = NoUser, !.openStatus = "none",
             !.replaced = TRUE]
  <2>1. i \in Ids /\ accounts[i] \in Rows
    BY <1>16, <1>0, RowSet DEF RemoveOpen
  <2>2. row \in Rows
    BY <2>1, Bound
  <2>3. accounts' = [accounts EXCEPT ![i] = row] /\ kind' = kind
    BY <1>16, <2>1, RowSet DEF RemoveOpen, Write
  <2>4. RowFits(i, row)
    BY <2>1, <2>2, Bound DEF RowFits
  <2>5. QED
    BY <1>0, <2>1, <2>2, <2>3, <2>4, RowWritten
<1>17. CASE PrivateValid
  <2> DEFINE i == check.id
  <2>1. i \in Ids /\ accounts[i] \in Rows /\ kind' = kind
    BY <1>17, <1>0, RowSet DEF PrivateValid, RequestsTyped
  <2>2. CASE UNCHANGED accounts
    BY <1>0, <2>1, <2>2 DEF RowsTyped, RowStep
  <2>3. ASSUME NEW r \in Rows, RowFits(i, r), NEW p \in Persisted(r),
               accounts' = [accounts EXCEPT ![i] = p]
        PROVE  RowsTyped' /\ RowStep
    <3>1. p \in Rows /\ RowFits(i, p)
      BY <1>17, <1>0, <2>3, PersistedRow DEF RowFits, PrivateValid, RequestsTyped
    <3>2. QED
      BY <1>0, <2>1, <2>3, <3>1, RowWritten
  <2>4. check.token.user \in Users
    BY <1>17, <1>0 DEF PrivateValid, RequestsTyped, Tokens
  <2>5. PICK u \in Users \cup {NoUser} :
          LET named == [accounts[i] EXCEPT !.user = u]
          IN  \/ UNCHANGED accounts
              \/ \E p \in Persisted(named) : accounts' = [accounts EXCEPT ![i] = p]
              \/ \E p \in Persisted([named EXCEPT !.status = "active"]) :
                    accounts' = [accounts EXCEPT ![i] = p]
    <3>1. \A row \in {accounts[i]} : [accounts EXCEPT ![i] = row] = accounts
      BY <1>0, <2>1 DEF RowsTyped
    <3>2. QED
      BY <1>17, <2>4, <3>1 DEF PrivateValid, PrivateUsers
  <2> DEFINE named == [accounts[i] EXCEPT !.user = u]
             verified == [named EXCEPT !.status = "active"]
  <2>6. named \in Rows /\ SameCredentials(named, accounts[i])
    BY <2>1, Named
  <2>7. verified \in Rows /\ SameCredentials(verified, accounts[i])
    <3>1. verified \in Rows /\ SameCredentials(verified, named)
      BY <2>6, Marked
    <3>2. QED
      BY <2>6, <3>1 DEF SameCredentials
  <2>8. RowFits(i, named) /\ RowFits(i, verified)
    BY <1>17, <2>6, <2>7 DEF RowFits, PrivateValid
  <2>9. QED
    BY <2>2, <2>3, <2>5, <2>6, <2>7, <2>8
<1>18. CASE PrivateInvalid
  <2> DEFINE i == check.id
  <2>1. CASE UNCHANGED accounts
    BY <1>18, <1>0, <2>1 DEF PrivateInvalid, RowsTyped, RowStep
  <2>2. CASE Present(i) /\ ~(UNCHANGED accounts)
    <3>1. i \in Ids /\ accounts[i] \in Rows /\ check.token \in Tokens /\ kind' = kind
      BY <1>18, <1>0, <2>2, RowSet DEF PrivateInvalid, RequestsTyped
    <3>2. PICK r \in Persisted(accounts[i]) :
            accounts' = [accounts EXCEPT ![i] =
              IF check.what # "drives" THEN [r EXCEPT !.status = "error"]
              ELSE IF check.open = NoUser THEN r
              ELSE [r EXCEPT !.openStatus = "error"]]
      BY <1>18, <2>2 DEF PrivateInvalid
    <3>3. r \in Rows /\ RowFits(i, r)
      BY <1>0, <2>2, <3>1, <3>2, PersistedRow DEF RowFits, SameCredentials
    <3>4. /\ [r EXCEPT !.status = "error"] \in Rows
               /\ RowFits(i, [r EXCEPT !.status = "error"])
          /\ [r EXCEPT !.openStatus = "error"] \in Rows
          /\ RowFits(i, [r EXCEPT !.openStatus = "error"])
      <4>1. /\ [r EXCEPT !.status = "error"] \in Rows
            /\ SameCredentials([r EXCEPT !.status = "error"], r)
        BY <3>3, Marked
      <4>2. RowFits(i, [r EXCEPT !.status = "error"])
        BY <3>3, <4>1, LoginConstants DEF RowFits, SameCredentials, RightlyUsable
      <4>3. /\ [r EXCEPT !.openStatus = "error"] \in Rows
            /\ RowFits(i, [r EXCEPT !.openStatus = "error"])
        BY <3>3, Refused DEF RowFits
      <4>4. QED
        BY <4>1, <4>2, <4>3
    <3>5. QED
      BY <1>0, <3>1, <3>2, <3>3, <3>4, RowWritten
  <2>3. QED
    BY <1>18, <2>1, <2>2 DEF PrivateInvalid
<1>19. CASE OpenValid
  <2> DEFINE i == check.id
  <2>1. /\ i \in Ids /\ accounts[i] \in Rows /\ kind' = kind /\ check.token \in Tokens
        /\ check.clean \in BOOLEAN /\ check.user \in Users \cup {NoUser}
        /\ check.what # "private" /\ check.user \in {check.token.user, NoUser}
        /\ check.what \in {"private", "open", "drives"}
    BY <1>19, <1>0, RowSet DEF OpenValid, RequestsTyped, CheckSound
  <2>2. PICK open \in {check.open, NoUser}, row \in Checked :
          LET both == NoUser \notin {check.user, open}
              accepted == /\ SameUser(check.user, open)
                          /\ check.what = "open" /\ check.provider = "aliyundrive" => both
          IN  accounts' = [accounts EXCEPT ![i] =
                IF ~accepted THEN [row EXCEPT !.openStatus = "error"]
                ELSE [row EXCEPT !.openStatus = "active", !.replaced = ~check.clean,
                                 !.seen = IF both THEN "both"
                                          ELSE IF check.what = "drives" THEN "drives"
                                          ELSE "verify"]]
    BY <1>19 DEF OpenValid, OpenUsers
  <2>3. /\ row \in Rows /\ row.open = accounts[i].open
        /\ row.provider = accounts[i].provider
        /\ row.token \in {accounts[i].token, check.token}
    BY <2>1, <2>2, CheckedRow
  <2>4. check.clean => /\ row.provider = check.provider /\ row.token = check.token
                       /\ row.open = check.open
    BY <1>19, <1>0, <2>3 DEF CheckSound, OpenValid
  <2> DEFINE both == NoUser \notin {check.user, open}
             accepted == /\ SameUser(check.user, open)
                         /\ check.what = "open" /\ check.provider = "aliyundrive" => both
             saw == IF both THEN "both" ELSE IF check.what = "drives" THEN "drives"
                    ELSE "verify"
             usable == [row EXCEPT !.openStatus = "active", !.replaced = ~check.clean,
                                   !.seen = saw]
  <2>5. CASE ~accepted
    <3>1. accounts' = [accounts EXCEPT ![i] = [row EXCEPT !.openStatus = "error"]]
      BY <2>2, <2>5
    <3>2. /\ [row EXCEPT !.openStatus = "error"] \in Rows
          /\ RowFits(i, [row EXCEPT !.openStatus = "error"])
      BY <2>3, Refused DEF RowFits
    <3>3. QED
      BY <1>0, <2>1, <3>1, <3>2, RowWritten
  <2>6. CASE accepted
    <3>1. accounts' = [accounts EXCEPT ![i] = usable]
      BY <2>2, <2>6
    <3>2. /\ saw \in {"verify", "drives", "both"}
          /\ saw = "both" => check.open = check.token.user
          /\ saw = "verify" => check.provider # "aliyundrive"
      BY <2>1, <2>2, <2>6 DEF SameUser
    <3> HIDE DEF saw
    <3>3. /\ usable \in Rows /\ usable.replaced = ~check.clean /\ usable.seen = saw
          /\ usable.open = row.open /\ usable.token = row.token
          /\ usable.provider = row.provider
      BY <2>1, <2>3, <3>2 DEF Rows
    <3>4. RowFits(i, usable)
      BY <2>1, <2>4, <3>2, <3>3 DEF RowFits, RightlyUsable
    <3>5. QED
      BY <1>0, <2>1, <3>1, <3>3, <3>4, RowWritten
  <2>7. QED
    BY <2>5, <2>6
<1>20. CASE OpenInvalid
  <2>1. CASE UNCHANGED accounts
    BY <1>20, <2>1, <1>0 DEF OpenInvalid, RowsTyped, RowStep
  <2>2. CASE Present(check.id) /\ ~(UNCHANGED accounts)
    <3>1. /\ check.id \in Ids /\ accounts[check.id] \in Rows /\ kind' = kind
          /\ check.token \in Tokens /\ check.user \in Users \cup {NoUser}
      BY <1>20, <2>2, <1>0, RowSet DEF OpenInvalid, RequestsTyped
    <3>2. PICK row \in Checked :
            accounts' = [accounts EXCEPT ![check.id] = [row EXCEPT !.openStatus = "error"]]
      BY <1>20, <2>2 DEF OpenInvalid
    <3> DEFINE refused == [row EXCEPT !.openStatus = "error"]
    <3>3. refused \in Rows /\ refused.openStatus = "error"
      BY <3>1, <3>2, CheckedRow, Refused
    <3>4. RowFits(check.id, refused)
      BY <3>3 DEF RowFits
    <3>5. QED
      BY <1>0, <3>1, <3>2, <3>3, <3>4, RowWritten
  <2>3. QED
    BY <1>20, <2>1, <2>2 DEF OpenInvalid
<1>21. QED
  BY <1>1, <1>2, <1>3, <1>4, <1>5, <1>6, <1>7, <1>8, <1>9, <1>10, <1>11, <1>12, <1>13,
     <1>14, <1>15, <1>16, <1>17, <1>18, <1>19, <1>20 DEF Next

\* The sessions of the logins and their clients.
LEMMA SessionsAreTyped ==
  ASSUME LoginIsSound, Next
  PROVE  SessionsTyped'
<1>0. /\ RowsTyped /\ SessionsTyped /\ PollsTyped /\ RequestsTyped /\ ClientsAreOwned
      /\ SessionsSound /\ PollsSound /\ AnswersFinal /\ CheckSound /\ OpenChecked
  BY DEF LoginIsSound
<1>1. ASSUME NEW s \in Sessions,
             \/ Scan(s) \/ CodeLapses(s) \/ BeginPoll(s) \/ RequestFails(s)
             \/ AliyunUndecodable(s) \/ AskBaidu(s) \/ ExchangeFails(s)
             \/ StoreRenewal(s) \/ StoreNew(s) \/ PollNotVerified(s)
      PROVE  SessionsTyped'
  <2>1. UNCHANGED <<session, client>>
    BY <1>1 DEF Scan, CodeLapses, BeginPoll, RequestFails, AliyunUndecodable, AskBaidu,
       ExchangeFails, StoreRenewal, StoreNew, PollNotVerified
  <2>2. QED
    BY <2>1, <1>0 DEF SessionsTyped
<1>2. ASSUME NEW i \in Ids, NEW u \in Users,
             \/ PasteToken(i, u) \/ BindOpen(i, u)
      PROVE  SessionsTyped'
  <2>1. UNCHANGED <<session, client>>
    BY <1>2 DEF login, PasteToken, BindOpen
  <2>2. QED
    BY <2>1, <1>0 DEF SessionsTyped
<1>3. ASSUME NEW i \in Ids,
             \/ DeleteAccount(i) \/ RemoveOpen(i)
      PROVE  SessionsTyped'
  <2>1. UNCHANGED <<session, client>>
    BY <1>3 DEF login, DeleteAccount, RemoveOpen
  <2>2. QED
    BY <2>1, <1>0 DEF SessionsTyped
<1>4. ASSUME NEW s \in Sessions, NEW u \in Users, ConfirmCode(s, u)
      PROVE  SessionsTyped'
  <2>1. UNCHANGED <<session, client>>
    BY <1>4 DEF ConfirmCode
  <2>2. QED
    BY <2>1, <1>0 DEF SessionsTyped
<1>5. ASSUME NEW i \in Ids \cup {NoId}, NEW n \in Names, BeginSignin(i, n)
      PROVE  SessionsTyped'
  <2>1. UNCHANGED <<session, client>>
    BY <1>5 DEF login, BeginSignin
  <2>2. QED
    BY <2>1, <1>0 DEF SessionsTyped
<1>6. ASSUME NEW u \in Users, EndSignin(u)
      PROVE  SessionsTyped'
  <2>1. UNCHANGED <<session, client>>
    BY <1>6 DEF login, EndSignin
  <2>2. QED
    BY <2>1, <1>0 DEF SessionsTyped
<1>7. ASSUME NEW p \in {kind} \cup OtherKinds, NEW n \in Names, NEW u \in Users,
             AddAccount(p, n, u)
      PROVE  SessionsTyped'
  <2>1. UNCHANGED <<session, client>>
    BY <1>7 DEF login, AddAccount
  <2>2. QED
    BY <2>1, <1>0 DEF SessionsTyped
<1>8. ASSUME NEW i \in Ids, NEW n \in Names, RenameAccount(i, n)
      PROVE  SessionsTyped'
  <2>1. UNCHANGED <<session, client>>
    BY <1>8 DEF login, RenameAccount
  <2>2. QED
    BY <2>1, <1>0 DEF SessionsTyped
<1>9. ASSUME NEW i \in Ids, NEW what \in {"private", "open", "drives"},
             BeginCheck(i, what)
      PROVE  SessionsTyped'
  <2>1. UNCHANGED <<session, client>>
    BY <1>9 DEF login, BeginCheck
  <2>2. QED
    BY <2>1, <1>0 DEF SessionsTyped
<1>10. CASE \/ SigninFails \/ PrivateValid \/ PrivateInvalid \/ OpenValid
          \/ OpenInvalid
  <2>1. UNCHANGED <<session, client>>
    BY <1>10 DEF login, SigninFails, PrivateValid, PrivateInvalid, OpenValid,
       OpenInvalid
  <2>2. QED
    BY <2>1, <1>0 DEF SessionsTyped
<1>11. ASSUME NEW s \in Sessions, BeginStart(s) PROVE SessionsTyped'
  <2>1. PICK target \in Targets :
          session' = [t \in Sessions |->
            IF t = s THEN [NoSession EXCEPT !.at = "starting", !.account = target.id,
                                            !.name = target.name]
            ELSE IF t \in Expired THEN [session[t] EXCEPT !.at = "gone"]
            ELSE session[t]]
    BY <1>11 DEF BeginStart
  <2>2. target.id \in Ids \cup {NoId} /\ target.name \in Names
    BY <1>0, <2>1, TargetsTyped
  <2>3. client' \in [Sessions -> {"none", "open", "closed"}]
    BY <1>11, <1>0 DEF BeginStart, SessionsTyped
  <2>4. ASSUME NEW t \in Sessions
        PROVE  session'[t] \in
                 [at : {"none", "starting", "live", "gone"}, account : Ids \cup {NoId},
                  name : Names \cup {"none"}, credential : Users \cup {NoUser},
                  scanned : BOOLEAN, late : BOOLEAN]
    <3>1. CASE t = s
      BY <2>1, <2>2, <3>1 DEF NoSession
    <3>2. CASE t # s
      BY <1>0, <2>1, <3>2 DEF SessionsTyped
    <3>3. QED
      BY <3>1, <3>2
  <2>5. SessionsTyped'
    BY <2>1, <2>3, <2>4 DEF SessionsTyped
  <2>6. QED
    BY <2>5
<1>12. ASSUME NEW s \in Sessions, StartFails(s) PROVE SessionsTyped'
  BY <1>12, <1>0 DEF StartFails, Closed, SessionsTyped
<1>13. ASSUME NEW s \in Sessions, StartSucceeds(s) PROVE SessionsTyped'
  BY <1>13, <1>0 DEF StartSucceeds, SessionsTyped
<1>14. ASSUME NEW s \in Sessions, StartAliyun(s) PROVE SessionsTyped'
  <2>1. PICK target \in Targets :
          session' = [t \in Sessions |->
            IF t = s THEN [NoSession EXCEPT !.at = "live", !.account = target.id,
                                            !.name = target.name]
            ELSE IF t \in Expired THEN [session[t] EXCEPT !.at = "gone"]
            ELSE session[t]]
    BY <1>14 DEF StartAliyun
  <2>2. target.id \in Ids \cup {NoId} /\ target.name \in Names
    BY <1>0, <2>1, TargetsTyped
  <2>3. client' \in [Sessions -> {"none", "open", "closed"}]
    BY <1>14, <1>0 DEF StartAliyun, SessionsTyped
  <2>4. ASSUME NEW t \in Sessions
        PROVE  session'[t] \in
                 [at : {"none", "starting", "live", "gone"}, account : Ids \cup {NoId},
                  name : Names \cup {"none"}, credential : Users \cup {NoUser},
                  scanned : BOOLEAN, late : BOOLEAN]
    <3>1. CASE t = s
      BY <2>1, <2>2, <3>1 DEF NoSession
    <3>2. CASE t # s
      BY <1>0, <2>1, <3>2 DEF SessionsTyped
    <3>3. QED
      BY <3>1, <3>2
  <2>5. SessionsTyped'
    BY <2>1, <2>3, <2>4 DEF SessionsTyped
  <2>6. QED
    BY <2>5
<1>15. ASSUME NEW s \in Sessions, GetsLate(s) PROVE SessionsTyped'
  BY <1>15, <1>0 DEF GetsLate, SessionsTyped
<1>16. ASSUME NEW s \in Sessions, PollLate(s) PROVE SessionsTyped'
  BY <1>16, <1>0 DEF PollLate, Closed, SessionsTyped
<1>17. ASSUME NEW s \in Sessions, AskAliyun(s) PROVE SessionsTyped'
  <2>1. \/ UNCHANGED session
        \/ session' = [session EXCEPT ![s].credential = code[s].user]
        \/ session' = [session EXCEPT ![s].at = IF @ = "live" THEN "gone" ELSE @]
    BY <1>17 DEF AskAliyun
  <2>2. UNCHANGED client /\ code[s].user \in Users \cup {NoUser}
    BY <1>17, <1>0 DEF AskAliyun, PollsTyped
  <2>3. QED
    BY <1>0, <2>1, <2>2 DEF SessionsTyped
<1>18. ASSUME NEW s \in Sessions, AskPan123(s) PROVE SessionsTyped'
  <2>1. \/ UNCHANGED <<session, client>>
        \/ session' = [session EXCEPT ![s].scanned = TRUE] /\ UNCHANGED client
        \/ Closed({s})
    BY <1>18 DEF AskPan123
  <2>2. QED
    BY <1>0, <2>1, ClosedSessions DEF SessionsTyped
<1>19. ASSUME NEW s \in Sessions, AskQuark(s) PROVE SessionsTyped'
  BY <1>19, <1>0 DEF AskQuark, Idle, Closed, SessionsTyped
<1>20. ASSUME NEW s \in Sessions, ExchangeDone(s) PROVE SessionsTyped'
  <2>1. /\ UNCHANGED client /\ code[s].user \in Users \cup {NoUser}
        /\ session' = [session EXCEPT ![s].credential = code[s].user]
    BY <1>20, <1>0 DEF ExchangeDone, PollsTyped
  <2>2. QED
    BY <1>0, <2>1 DEF SessionsTyped
<1>21. ASSUME NEW s \in Sessions, PollVerified(s) PROVE SessionsTyped'
  BY <1>21, <1>0 DEF PollVerified, Closed, SessionsTyped
<1>22. CASE Restart
  BY <1>22, <1>0 DEF Restart, SessionsTyped
<1>23. QED
  BY <1>1, <1>2, <1>3, <1>4, <1>5, <1>6, <1>7, <1>8, <1>9, <1>10, <1>11, <1>12, <1>13,
     <1>14, <1>15, <1>16, <1>17, <1>18, <1>19, <1>20, <1>21, <1>22 DEF Next

\* The codes and the polls.
LEMMA PollsAreTyped ==
  ASSUME LoginIsSound, Next
  PROVE  PollsTyped'
<1>0. /\ RowsTyped /\ SessionsTyped /\ PollsTyped /\ RequestsTyped /\ ClientsAreOwned
      /\ SessionsSound /\ PollsSound /\ AnswersFinal /\ CheckSound /\ OpenChecked
  BY DEF LoginIsSound
<1>1. ASSUME NEW s \in Sessions,
             \/ BeginStart(s) \/ StartFails(s) \/ StartSucceeds(s) \/ StartAliyun(s)
             \/ GetsLate(s)
      PROVE  PollsTyped'
  <2>1. UNCHANGED <<code, poll, told, stored>>
    BY <1>1 DEF BeginStart, StartFails, StartSucceeds, StartAliyun, GetsLate
  <2>2. QED
    BY <2>1, <1>0 DEF PollsTyped
<1>2. ASSUME NEW i \in Ids, NEW u \in Users,
             \/ PasteToken(i, u) \/ BindOpen(i, u)
      PROVE  PollsTyped'
  <2>1. UNCHANGED <<code, poll, told, stored>>
    BY <1>2 DEF login, PasteToken, BindOpen
  <2>2. QED
    BY <2>1, <1>0 DEF PollsTyped
<1>3. ASSUME NEW i \in Ids,
             \/ DeleteAccount(i) \/ RemoveOpen(i)
      PROVE  PollsTyped'
  <2>1. UNCHANGED <<code, poll, told, stored>>
    BY <1>3 DEF login, DeleteAccount, RemoveOpen
  <2>2. QED
    BY <2>1, <1>0 DEF PollsTyped
<1>4. ASSUME NEW i \in Ids \cup {NoId}, NEW n \in Names, BeginSignin(i, n)
      PROVE  PollsTyped'
  <2>1. UNCHANGED <<code, poll, told, stored>>
    BY <1>4 DEF login, BeginSignin
  <2>2. QED
    BY <2>1, <1>0 DEF PollsTyped
<1>5. ASSUME NEW u \in Users, EndSignin(u)
      PROVE  PollsTyped'
  <2>1. UNCHANGED <<code, poll, told, stored>>
    BY <1>5 DEF login, EndSignin
  <2>2. QED
    BY <2>1, <1>0 DEF PollsTyped
<1>6. ASSUME NEW p \in {kind} \cup OtherKinds, NEW n \in Names, NEW u \in Users,
             AddAccount(p, n, u)
      PROVE  PollsTyped'
  <2>1. UNCHANGED <<code, poll, told, stored>>
    BY <1>6 DEF login, AddAccount
  <2>2. QED
    BY <2>1, <1>0 DEF PollsTyped
<1>7. ASSUME NEW i \in Ids, NEW n \in Names, RenameAccount(i, n)
      PROVE  PollsTyped'
  <2>1. UNCHANGED <<code, poll, told, stored>>
    BY <1>7 DEF login, RenameAccount
  <2>2. QED
    BY <2>1, <1>0 DEF PollsTyped
<1>8. ASSUME NEW i \in Ids, NEW what \in {"private", "open", "drives"},
             BeginCheck(i, what)
      PROVE  PollsTyped'
  <2>1. UNCHANGED <<code, poll, told, stored>>
    BY <1>8 DEF login, BeginCheck
  <2>2. QED
    BY <2>1, <1>0 DEF PollsTyped
<1>9. CASE \/ SigninFails \/ PrivateValid \/ PrivateInvalid \/ OpenValid
          \/ OpenInvalid
  <2>1. UNCHANGED <<code, poll, told, stored>>
    BY <1>9 DEF login, SigninFails, PrivateValid, PrivateInvalid, OpenValid, OpenInvalid
  <2>2. QED
    BY <2>1, <1>0 DEF PollsTyped
<1>10. ASSUME NEW s \in Sessions, Scan(s) PROVE PollsTyped'
  BY <1>10, <1>0 DEF Scan, PollsTyped
<1>11. ASSUME NEW s \in Sessions, CodeLapses(s) PROVE PollsTyped'
  BY <1>11, <1>0 DEF CodeLapses, PollsTyped
<1>12. ASSUME NEW s \in Sessions, NEW u \in Users, ConfirmCode(s, u) PROVE PollsTyped'
  BY <1>12, <1>0 DEF ConfirmCode, PollsTyped
<1>13. ASSUME NEW s \in Sessions, BeginPoll(s) PROVE PollsTyped'
  BY <1>13, <1>0 DEF BeginPoll, At, PollsTyped
<1>14. ASSUME NEW s \in Sessions, PollLate(s) PROVE PollsTyped'
  BY <1>14, <1>0 DEF PollLate, Answer, PollsTyped
<1>15. ASSUME NEW s \in Sessions, RequestFails(s) PROVE PollsTyped'
  BY <1>15, <1>0 DEF RequestFails, Answer, Idle, PollsTyped
<1>16. ASSUME NEW s \in Sessions, AskAliyun(s) PROVE PollsTyped'
  BY <1>16, <1>0 DEF AskAliyun, Asking, Answer, At, Idle, PollsTyped
<1>17. ASSUME NEW s \in Sessions, AliyunUndecodable(s) PROVE PollsTyped'
  BY <1>17, <1>0 DEF AliyunUndecodable, Answer, Idle, PollsTyped
<1>18. ASSUME NEW s \in Sessions, AskPan123(s) PROVE PollsTyped'
  <2>1. At(s, "exchanging") \/ Answer(s, "pending") \/ Answer(s, "expired")
    BY <1>18 DEF AskPan123
  <2>2. UNCHANGED <<code, stored>>
    BY <1>18 DEF AskPan123
  <2>3. QED
    BY <1>0, <2>1, <2>2 DEF PollsTyped, At, Answer, Idle
<1>19. ASSUME NEW s \in Sessions, AskQuark(s) PROVE PollsTyped'
  <2>1. At(s, "exchanging") \/ Answer(s, "pending") \/ Answer(s, "expired")
    BY <1>19 DEF AskQuark
  <2>2. UNCHANGED <<code, stored>>
    BY <1>19 DEF AskQuark
  <2>3. QED
    BY <1>0, <2>1, <2>2 DEF PollsTyped, At, Answer, Idle
<1>20. ASSUME NEW s \in Sessions, AskBaidu(s) PROVE PollsTyped'
  BY <1>20, <1>0 DEF AskBaidu, Answer, At, Idle, PollsTyped
<1>21. ASSUME NEW s \in Sessions, ExchangeDone(s) PROVE PollsTyped'
  BY <1>21, <1>0 DEF ExchangeDone, At, PollsTyped
<1>22. ASSUME NEW s \in Sessions, ExchangeFails(s) PROVE PollsTyped'
  BY <1>22, <1>0 DEF ExchangeFails, Answer, Idle, PollsTyped
<1>23. ASSUME NEW s \in Sessions, StoreRenewal(s) PROVE PollsTyped'
  <2>1. \/ Answer(s, "error")
        \/ \E i \in Ids : poll' = [poll EXCEPT ![s] = [at |-> "verifying", id |-> i]]
                        /\ UNCHANGED told
    BY <1>23, <1>0, LoginConstants DEF StoreRenewal, SessionsTyped
  <2>2. UNCHANGED code /\ (UNCHANGED stored \/ stored' = stored \cup {s})
    BY <1>23 DEF StoreRenewal
  <2>3. QED
    BY <1>0, <2>1, <2>2 DEF PollsTyped, Answer, Idle
<1>24. ASSUME NEW s \in Sessions, StoreNew(s) PROVE PollsTyped'
  <2>1. \/ Answer(s, "conflict")
        \/ \E i \in Ids : poll' = [poll EXCEPT ![s] = [at |-> "verifying", id |-> i]]
                        /\ UNCHANGED told
    BY <1>24, FreshIdIsFree DEF StoreNew
  <2>2. UNCHANGED code /\ (UNCHANGED stored \/ stored' = stored \cup {s})
    BY <1>24 DEF StoreNew
  <2>3. QED
    BY <1>0, <2>1, <2>2 DEF PollsTyped, Answer, Idle
<1>25. ASSUME NEW s \in Sessions, PollVerified(s) PROVE PollsTyped'
  BY <1>25, <1>0 DEF PollVerified, Answer, Idle, PollsTyped
<1>26. ASSUME NEW s \in Sessions, PollNotVerified(s) PROVE PollsTyped'
  BY <1>26, <1>0 DEF PollNotVerified, Answer, Idle, PollsTyped
<1>27. CASE Restart
  BY <1>27, <1>0 DEF Restart, Idle, PollsTyped
<1>28. QED
  BY <1>1, <1>2, <1>3, <1>4, <1>5, <1>6, <1>7, <1>8, <1>9, <1>10, <1>11, <1>12, <1>13,
     <1>14, <1>15, <1>16, <1>17, <1>18, <1>19, <1>20, <1>21, <1>22, <1>23, <1>24, <1>25,
     <1>26, <1>27 DEF Next

\* The checks and the logins by password.
LEMMA RequestsAreTyped ==
  ASSUME LoginIsSound, Next
  PROVE  RequestsTyped'
<1>0. /\ RowsTyped /\ SessionsTyped /\ PollsTyped /\ RequestsTyped /\ ClientsAreOwned
      /\ SessionsSound /\ PollsSound /\ AnswersFinal /\ CheckSound /\ OpenChecked
  BY DEF LoginIsSound
<1>1. ASSUME NEW s \in Sessions,
             \/ BeginStart(s) \/ StartFails(s) \/ StartSucceeds(s) \/ StartAliyun(s)
             \/ GetsLate(s) \/ Scan(s) \/ CodeLapses(s) \/ BeginPoll(s)
             \/ PollLate(s) \/ RequestFails(s) \/ AskAliyun(s)
             \/ AliyunUndecodable(s) \/ AskPan123(s) \/ AskQuark(s) \/ AskBaidu(s)
             \/ ExchangeDone(s) \/ ExchangeFails(s) \/ StoreNew(s) \/ PollVerified(s)
             \/ PollNotVerified(s)
      PROVE  RequestsTyped'
  <2>1. UNCHANGED <<check, signin>>
    BY <1>1 DEF BeginStart, StartFails, StartSucceeds, StartAliyun, GetsLate, Scan,
       CodeLapses, BeginPoll, PollLate, RequestFails, AskAliyun, AliyunUndecodable,
       AskPan123, AskQuark, AskBaidu, ExchangeDone, ExchangeFails, StoreNew,
       PollVerified, PollNotVerified
  <2>2. QED
    BY <2>1, <1>0 DEF RequestsTyped
<1>2. ASSUME NEW s \in Sessions, NEW u \in Users, ConfirmCode(s, u)
      PROVE  RequestsTyped'
  <2>1. UNCHANGED <<check, signin>>
    BY <1>2 DEF ConfirmCode
  <2>2. QED
    BY <2>1, <1>0 DEF RequestsTyped
<1>3. ASSUME NEW p \in {kind} \cup OtherKinds, NEW n \in Names, NEW u \in Users,
             AddAccount(p, n, u)
      PROVE  RequestsTyped'
  <2>1. UNCHANGED <<check, signin>>
    BY <1>3 DEF AddAccount
  <2>2. QED
    BY <2>1, <1>0 DEF RequestsTyped
<1>4. ASSUME NEW i \in Ids, NEW n \in Names, RenameAccount(i, n)
      PROVE  RequestsTyped'
  <2>1. UNCHANGED <<check, signin>>
    BY <1>4 DEF RenameAccount
  <2>2. QED
    BY <2>1, <1>0 DEF RequestsTyped
<1>5. ASSUME NEW s \in Sessions, StoreRenewal(s) PROVE RequestsTyped'
  BY <1>5, <1>0 DEF StoreRenewal, Write, RequestsTyped
<1>6. CASE Restart
  BY <1>6 DEF Restart, NoCheck, NoSignin, RequestsTyped
<1>7. ASSUME NEW i \in Ids \cup {NoId}, NEW n \in Names, BeginSignin(i, n)
      PROVE  RequestsTyped'
  <2>1. UNCHANGED check
    BY <1>7 DEF BeginSignin
  <2>2. i # NoId => accounts[i].user \in Users \cup {NoUser}
    BY <1>7, <1>0, RowSet DEF BeginSignin, Rows
  <2>3. QED
    BY <1>7, <1>0, <2>1, <2>2 DEF BeginSignin, RequestsTyped
<1>8. ASSUME NEW u \in Users, EndSignin(u) PROVE RequestsTyped'
  BY <1>8, <1>0 DEF EndSignin, NoSignin, Write, RequestsTyped
<1>9. CASE SigninFails
  BY <1>9, <1>0 DEF SigninFails, NoSignin, RequestsTyped
<1>10. ASSUME NEW i \in Ids, NEW u \in Users, PasteToken(i, u) PROVE RequestsTyped'
  BY <1>10, <1>0 DEF PasteToken, Write, RequestsTyped
<1>11. ASSUME NEW i \in Ids, NEW u \in Users, BindOpen(i, u) PROVE RequestsTyped'
  BY <1>11, <1>0 DEF BindOpen, Write, RequestsTyped
<1>12. ASSUME NEW i \in Ids, DeleteAccount(i) PROVE RequestsTyped'
  BY <1>12, <1>0 DEF DeleteAccount, Write, RequestsTyped
<1>13. ASSUME NEW i \in Ids, RemoveOpen(i) PROVE RequestsTyped'
  BY <1>13, <1>0 DEF RemoveOpen, Write, RequestsTyped
<1>14. ASSUME NEW i \in Ids, NEW what \in {"private", "open", "drives"},
              BeginCheck(i, what)
       PROVE  RequestsTyped'
  <2>1. /\ accounts[i].token \in Tokens /\ accounts[i].open \in Users \cup {NoUser}
        /\ accounts[i].provider \in Kinds \cup OtherKinds
    BY <1>14, <1>0, RowSet DEF BeginCheck, Rows
  <2>2. UNCHANGED signin
    BY <1>14 DEF BeginCheck
  <2>3. QED
    BY <1>14, <1>0, <2>1, <2>2 DEF BeginCheck, OpenCredential, RequestsTyped
<1>15. CASE PrivateValid
  <2>1. UNCHANGED signin
    BY <1>15 DEF PrivateValid
  <2>2. CASE check' = NoCheck
    BY <1>0, <2>1, <2>2 DEF NoCheck, RequestsTyped
  <2>3. CASE check' # NoCheck
    <3>1. /\ accounts[check.id].open \in Users \cup {NoUser}
          /\ accounts[check.id].provider \in Kinds \cup OtherKinds
      BY <1>15, <1>0, RowSet DEF PrivateValid, RequestsTyped, Rows
    <3>2. /\ check.token.user \in Users \cup {NoUser} /\ check.open \in Users \cup {NoUser}
          /\ check.id \in Ids /\ check.token \in Tokens
      BY <1>15, <1>0 DEF PrivateValid, RequestsTyped, Tokens
    <3>3. PICK last \in Users \cup {NoUser}, u \in Users \cup {NoUser} :
            check' = [check EXCEPT !.at = "open", !.user = u, !.open = last,
                                   !.provider = accounts[check.id].provider]
      BY <1>15, <2>3, <3>1, <3>2 DEF PrivateValid, PrivateUsers, OpenCredential
    <3>4. QED
      BY <1>0, <2>1, <3>1, <3>2, <3>3 DEF RequestsTyped
  <2>4. QED
    BY <2>2, <2>3
<1>16. CASE PrivateInvalid
  BY <1>16, <1>0 DEF PrivateInvalid, NoCheck, RequestsTyped
<1>17. CASE OpenValid
  BY <1>17, <1>0 DEF OpenValid, NoCheck, RequestsTyped
<1>18. CASE OpenInvalid
  BY <1>18, <1>0 DEF OpenInvalid, NoCheck, RequestsTyped
<1>19. QED
  BY <1>1, <1>2, <1>3, <1>4, <1>5, <1>6, <1>7, <1>8, <1>9, <1>10, <1>11, <1>12, <1>13,
     <1>14, <1>15, <1>16, <1>17, <1>18 DEF Next

\* A client is closed once its session has gone and no poll waits on it.
LEMMA ClientsPreserved ==
  ASSUME LoginIsSound, Next
  PROVE  ClientsAreOwned'
<1>0. /\ RowsTyped /\ SessionsTyped /\ PollsTyped /\ RequestsTyped /\ ClientsAreOwned
      /\ SessionsSound /\ PollsSound /\ AnswersFinal /\ CheckSound /\ OpenChecked
  BY DEF LoginIsSound
<1>1. ASSUME NEW s \in Sessions,
             \/ Scan(s) \/ CodeLapses(s) \/ BeginPoll(s) \/ RequestFails(s)
             \/ AliyunUndecodable(s) \/ AskBaidu(s) \/ ExchangeFails(s)
             \/ StoreRenewal(s) \/ StoreNew(s) \/ PollNotVerified(s)
      PROVE  ClientsAreOwned'
  <2>1. UNCHANGED <<kind, session, client>>
    BY <1>1 DEF Scan, CodeLapses, BeginPoll, RequestFails, AliyunUndecodable, AskBaidu,
       ExchangeFails, StoreRenewal, StoreNew, PollNotVerified
  <2>2. QED
    BY <2>1, <1>0 DEF ClientsAreOwned, OwnClient
<1>2. ASSUME NEW i \in Ids, NEW u \in Users,
             \/ PasteToken(i, u) \/ BindOpen(i, u)
      PROVE  ClientsAreOwned'
  <2>1. UNCHANGED <<kind, session, client>>
    BY <1>2 DEF login, PasteToken, BindOpen
  <2>2. QED
    BY <2>1, <1>0 DEF ClientsAreOwned, OwnClient
<1>3. ASSUME NEW i \in Ids,
             \/ DeleteAccount(i) \/ RemoveOpen(i)
      PROVE  ClientsAreOwned'
  <2>1. UNCHANGED <<kind, session, client>>
    BY <1>3 DEF login, DeleteAccount, RemoveOpen
  <2>2. QED
    BY <2>1, <1>0 DEF ClientsAreOwned, OwnClient
<1>4. ASSUME NEW s \in Sessions, NEW u \in Users, ConfirmCode(s, u)
      PROVE  ClientsAreOwned'
  <2>1. UNCHANGED <<kind, session, client>>
    BY <1>4 DEF ConfirmCode
  <2>2. QED
    BY <2>1, <1>0 DEF ClientsAreOwned, OwnClient
<1>5. ASSUME NEW i \in Ids \cup {NoId}, NEW n \in Names, BeginSignin(i, n)
      PROVE  ClientsAreOwned'
  <2>1. UNCHANGED <<kind, session, client>>
    BY <1>5 DEF login, BeginSignin
  <2>2. QED
    BY <2>1, <1>0 DEF ClientsAreOwned, OwnClient
<1>6. ASSUME NEW u \in Users, EndSignin(u)
      PROVE  ClientsAreOwned'
  <2>1. UNCHANGED <<kind, session, client>>
    BY <1>6 DEF login, EndSignin
  <2>2. QED
    BY <2>1, <1>0 DEF ClientsAreOwned, OwnClient
<1>7. ASSUME NEW p \in {kind} \cup OtherKinds, NEW n \in Names, NEW u \in Users,
             AddAccount(p, n, u)
      PROVE  ClientsAreOwned'
  <2>1. UNCHANGED <<kind, session, client>>
    BY <1>7 DEF login, AddAccount
  <2>2. QED
    BY <2>1, <1>0 DEF ClientsAreOwned, OwnClient
<1>8. ASSUME NEW i \in Ids, NEW n \in Names, RenameAccount(i, n)
      PROVE  ClientsAreOwned'
  <2>1. UNCHANGED <<kind, session, client>>
    BY <1>8 DEF login, RenameAccount
  <2>2. QED
    BY <2>1, <1>0 DEF ClientsAreOwned, OwnClient
<1>9. ASSUME NEW i \in Ids, NEW what \in {"private", "open", "drives"},
             BeginCheck(i, what)
      PROVE  ClientsAreOwned'
  <2>1. UNCHANGED <<kind, session, client>>
    BY <1>9 DEF login, BeginCheck
  <2>2. QED
    BY <2>1, <1>0 DEF ClientsAreOwned, OwnClient
<1>10. CASE \/ SigninFails \/ PrivateValid \/ PrivateInvalid \/ OpenValid
          \/ OpenInvalid
  <2>1. UNCHANGED <<kind, session, client>>
    BY <1>10 DEF login, SigninFails, PrivateValid, PrivateInvalid, OpenValid,
       OpenInvalid
  <2>2. QED
    BY <2>1, <1>0 DEF ClientsAreOwned, OwnClient
<1>11. ASSUME NEW s \in Sessions, BeginStart(s) PROVE ClientsAreOwned'
  BY <1>11, <1>0 DEF BeginStart, ClientsAreOwned, OwnClient
<1>12. ASSUME NEW s \in Sessions, StartFails(s) PROVE ClientsAreOwned'
  BY <1>12, <1>0 DEF StartFails, Closed, OwnClient, ClientsAreOwned
<1>13. ASSUME NEW s \in Sessions, StartSucceeds(s) PROVE ClientsAreOwned'
  BY <1>13, <1>0 DEF StartSucceeds, ClientsAreOwned, OwnClient
<1>14. ASSUME NEW s \in Sessions, StartAliyun(s) PROVE ClientsAreOwned'
  BY <1>14, <1>0 DEF StartAliyun, ClientsAreOwned, OwnClient
<1>15. ASSUME NEW s \in Sessions, GetsLate(s) PROVE ClientsAreOwned'
  BY <1>15, <1>0 DEF GetsLate, ClientsAreOwned, OwnClient
<1>16. ASSUME NEW s \in Sessions, PollLate(s) PROVE ClientsAreOwned'
  BY <1>16, <1>0 DEF PollLate, Closed, OwnClient, ClientsAreOwned
<1>17. ASSUME NEW s \in Sessions, AskAliyun(s) PROVE ClientsAreOwned'
  BY <1>17, <1>0 DEF AskAliyun, ClientsAreOwned, OwnClient
<1>18. ASSUME NEW s \in Sessions, AskPan123(s) PROVE ClientsAreOwned'
  BY <1>18, <1>0 DEF AskPan123, Closed, OwnClient, ClientsAreOwned, SessionsTyped
<1>19. ASSUME NEW s \in Sessions, AskQuark(s) PROVE ClientsAreOwned'
  BY <1>19, <1>0 DEF AskQuark, Closed, OwnClient, ClientsAreOwned, SessionsTyped
<1>20. ASSUME NEW s \in Sessions, ExchangeDone(s) PROVE ClientsAreOwned'
  BY <1>20, <1>0 DEF ExchangeDone, ClientsAreOwned, OwnClient
<1>21. ASSUME NEW s \in Sessions, PollVerified(s) PROVE ClientsAreOwned'
  BY <1>21, <1>0 DEF PollVerified, Closed, OwnClient, ClientsAreOwned
<1>22. CASE Restart
  BY <1>22, <1>0 DEF Restart, ClientsAreOwned, SessionsTyped
<1>23. QED
  BY <1>1, <1>2, <1>3, <1>4, <1>5, <1>6, <1>7, <1>8, <1>9, <1>10, <1>11, <1>12, <1>13,
     <1>14, <1>15, <1>16, <1>17, <1>18, <1>19, <1>20, <1>21, <1>22 DEF Next

\* A start leaves no session but its own and those within their time.
LEMMA Starting ==
  ASSUME LoginIsSound, NEW s \in Sessions, BeginStart(s) \/ StartAliyun(s)
  PROVE  Started(s) /\ UNCHANGED <<code, poll, told, stored>>
<1>0. RowsTyped /\ SessionsTyped
  BY DEF LoginIsSound
<1>1. PICK target \in Targets, at \in {"starting", "live"} :
        session' = [t \in Sessions |->
          IF t = s THEN [NoSession EXCEPT !.at = at, !.account = target.id,
                                          !.name = target.name]
          ELSE IF t \in Expired THEN [session[t] EXCEPT !.at = "gone"]
          ELSE session[t]]
  BY DEF BeginStart, StartAliyun
<1>2. target.name \in Names
  BY <1>0, <1>1, TargetsTyped
<1>3. session'[s].at = at /\ session'[s].credential = NoUser /\ session'[s].name \in Names
  BY <1>1, <1>2 DEF NoSession
<1>4. ASSUME NEW t \in Sessions \ {s}
      PROVE  \/ session'[t] = session[t]
             \/ /\ session[t].at = "live" /\ session'[t].at = "gone"
                /\ session[t].late /\ session'[t].late
                /\ session'[t].name = session[t].name
                /\ session'[t].credential = session[t].credential
  <2>1. session'[t] = IF t \in Expired THEN [session[t] EXCEPT !.at = "gone"] ELSE session[t]
    BY <1>1, <1>4
  <2>2. QED
    BY <1>0, <2>1 DEF Expired, Registered, SessionsTyped
<1>5. QED
  BY <1>3, <1>4 DEF Started, BeginStart, StartAliyun

\* Who spends a code keeps the credential until it is stored, or its time is over.
LEMMA SessionsPreserved ==
  ASSUME LoginIsSound, Next
  PROVE  SessionsSound'
<1>0. /\ RowsTyped /\ SessionsTyped /\ PollsTyped /\ RequestsTyped /\ ClientsAreOwned
      /\ SessionsSound /\ PollsSound /\ AnswersFinal /\ CheckSound /\ OpenChecked
  BY DEF LoginIsSound
<1>1. ASSUME NEW s \in Sessions,
             \/ Scan(s) \/ CodeLapses(s)
      PROVE  SessionsSound'
  <2>1. UNCHANGED <<session, poll, stored>>
    BY <1>1 DEF Scan, CodeLapses
  <2>2. QED
    BY <2>1, <1>0 DEF SessionsSound, Polling
<1>2. ASSUME NEW i \in Ids, NEW u \in Users,
             \/ PasteToken(i, u) \/ BindOpen(i, u)
      PROVE  SessionsSound'
  <2>1. UNCHANGED <<session, poll, stored>>
    BY <1>2 DEF login, PasteToken, BindOpen
  <2>2. QED
    BY <2>1, <1>0 DEF SessionsSound, Polling
<1>3. ASSUME NEW i \in Ids,
             \/ DeleteAccount(i) \/ RemoveOpen(i)
      PROVE  SessionsSound'
  <2>1. UNCHANGED <<session, poll, stored>>
    BY <1>3 DEF login, DeleteAccount, RemoveOpen
  <2>2. QED
    BY <2>1, <1>0 DEF SessionsSound, Polling
<1>4. ASSUME NEW s \in Sessions, NEW u \in Users, ConfirmCode(s, u)
      PROVE  SessionsSound'
  <2>1. UNCHANGED <<session, poll, stored>>
    BY <1>4 DEF ConfirmCode
  <2>2. QED
    BY <2>1, <1>0 DEF SessionsSound, Polling
<1>5. ASSUME NEW i \in Ids \cup {NoId}, NEW n \in Names, BeginSignin(i, n)
      PROVE  SessionsSound'
  <2>1. UNCHANGED <<session, poll, stored>>
    BY <1>5 DEF login, BeginSignin
  <2>2. QED
    BY <2>1, <1>0 DEF SessionsSound, Polling
<1>6. ASSUME NEW u \in Users, EndSignin(u)
      PROVE  SessionsSound'
  <2>1. UNCHANGED <<session, poll, stored>>
    BY <1>6 DEF login, EndSignin
  <2>2. QED
    BY <2>1, <1>0 DEF SessionsSound, Polling
<1>7. ASSUME NEW p \in {kind} \cup OtherKinds, NEW n \in Names, NEW u \in Users,
             AddAccount(p, n, u)
      PROVE  SessionsSound'
  <2>1. UNCHANGED <<session, poll, stored>>
    BY <1>7 DEF login, AddAccount
  <2>2. QED
    BY <2>1, <1>0 DEF SessionsSound, Polling
<1>8. ASSUME NEW i \in Ids, NEW n \in Names, RenameAccount(i, n)
      PROVE  SessionsSound'
  <2>1. UNCHANGED <<session, poll, stored>>
    BY <1>8 DEF login, RenameAccount
  <2>2. QED
    BY <2>1, <1>0 DEF SessionsSound, Polling
<1>9. ASSUME NEW i \in Ids, NEW what \in {"private", "open", "drives"},
             BeginCheck(i, what)
      PROVE  SessionsSound'
  <2>1. UNCHANGED <<session, poll, stored>>
    BY <1>9 DEF login, BeginCheck
  <2>2. QED
    BY <2>1, <1>0 DEF SessionsSound, Polling
<1>10. CASE \/ SigninFails \/ PrivateValid \/ PrivateInvalid \/ OpenValid
          \/ OpenInvalid
  <2>1. UNCHANGED <<session, poll, stored>>
    BY <1>10 DEF login, SigninFails, PrivateValid, PrivateInvalid, OpenValid,
       OpenInvalid
  <2>2. QED
    BY <2>1, <1>0 DEF SessionsSound, Polling
<1>11. ASSUME NEW s \in Sessions, BeginStart(s) PROVE SessionsSound'
  <2>1. Started(s) /\ UNCHANGED <<poll, stored>>
    BY <1>11, Starting
  <2>2. QED
    BY <1>0, <2>1 DEF Started, SessionsSound, Polling
<1>12. ASSUME NEW s \in Sessions, StartFails(s) PROVE SessionsSound'
  BY <1>12, <1>0 DEF StartFails, Closed, SessionsSound, Polling
<1>13. ASSUME NEW s \in Sessions, StartSucceeds(s) PROVE SessionsSound'
  BY <1>13, <1>0 DEF StartSucceeds, SessionsSound, Polling
<1>14. ASSUME NEW s \in Sessions, StartAliyun(s) PROVE SessionsSound'
  <2>1. Started(s) /\ UNCHANGED <<poll, stored>>
    BY <1>14, Starting
  <2>2. QED
    BY <1>0, <2>1 DEF Started, SessionsSound, Polling
<1>15. ASSUME NEW s \in Sessions, GetsLate(s) PROVE SessionsSound'
  BY <1>15, <1>0 DEF GetsLate, SessionsSound, Polling
<1>16. ASSUME NEW s \in Sessions, BeginPoll(s) PROVE SessionsSound'
  BY <1>16, <1>0 DEF BeginPoll, Registered, At, SessionsSound, Polling
<1>17. ASSUME NEW s \in Sessions, PollLate(s) PROVE SessionsSound'
  BY <1>17, <1>0 DEF PollLate, Registered, Closed, Answer, SessionsSound, Polling
<1>18. ASSUME NEW s \in Sessions, RequestFails(s) PROVE SessionsSound'
  BY <1>18, <1>0 DEF RequestFails, Answer, SessionsSound, Polling
<1>19. ASSUME NEW s \in Sessions, AskAliyun(s) PROVE SessionsSound'
  <2>1. session[s].at \notin {"none", "starting"}
          /\ (session[s].at = "live" \/ session[s].late)
    BY <1>19, <1>0 DEF AskAliyun, Asking, SessionsSound, Polling
  <2>2. UNCHANGED stored /\ session[s].credential = NoUser
    BY <1>19, <1>0 DEF AskAliyun, Asking, PollsSound, PollSound
  <2>3. CASE UNCHANGED session /\ Answer(s, "pending")
    BY <1>0, <2>2, <2>3 DEF SessionsSound, PollsTyped, Polling, Answer, Idle
  <2>4. CASE session' = [session EXCEPT ![s].credential = code[s].user] /\ At(s, "storing")
    <3>1. \A t \in Sessions : /\ session'[t].at = session[t].at
                            /\ session'[t].late = session[t].late
                            /\ session'[t].name = session[t].name
                            /\ t # s => session'[t].credential = session[t].credential
      BY <1>0, <2>4 DEF SessionsTyped
    <3>2. QED
      BY <1>0, <2>1, <2>2, <2>4, <3>1 DEF SessionsSound, PollsTyped, Polling, At
  <2>5. CASE /\ session' = [session EXCEPT ![s].at = IF @ = "live" THEN "gone" ELSE @]
             /\ Answer(s, "expired")
    <3>1. /\ \A t \in Sessions : /\ session'[t].late = session[t].late
                               /\ session'[t].name = session[t].name
                               /\ session'[t].credential = session[t].credential
                               /\ t # s => session'[t].at = session[t].at
          /\ session'[s].at \in {session[s].at, "gone"}
      BY <1>0, <2>5 DEF SessionsTyped
    <3>2. QED
      BY <1>0, <2>1, <2>2, <2>5, <3>1 DEF SessionsSound, PollsTyped, Polling, Answer, Idle
  <2>6. QED
    BY <1>19, <2>3, <2>4, <2>5 DEF AskAliyun
<1>20. ASSUME NEW s \in Sessions, AliyunUndecodable(s) PROVE SessionsSound'
  BY <1>20, <1>0 DEF AliyunUndecodable, Asking, Answer, SessionsSound, Polling
<1>21. ASSUME NEW s \in Sessions, AskPan123(s) PROVE SessionsSound'
  <2>1. /\ session[s].credential = NoUser /\ session[s].at \notin {"none", "starting"}
        /\ session[s].at = "live" \/ session[s].late
    BY <1>21, <1>0 DEF AskPan123, Asking, SessionsSound, PollsSound, PollSound, Polling
  <2>2. \/ /\ UNCHANGED session \/ session' = [session EXCEPT ![s].scanned = TRUE]
           /\ At(s, "exchanging") \/ Answer(s, "pending") \/ Answer(s, "expired")
        \/ Closed({s}) /\ Answer(s, "expired")
    BY <1>21 DEF AskPan123
  <2>3. UNCHANGED stored
    BY <1>21 DEF AskPan123
  <2>4. QED
    <3>1. CASE Closed({s}) /\ Answer(s, "expired")
      BY <1>0, <2>1, <2>3, <3>1, ClosedSessions DEF SessionsSound, PollsTyped, Polling,
         Answer, Idle
    <3>2. CASE /\ UNCHANGED session
               /\ At(s, "exchanging") \/ Answer(s, "pending") \/ Answer(s, "expired")
      BY <1>0, <2>1, <2>3, <3>2 DEF SessionsSound, PollsTyped, Polling, At, Answer, Idle
    <3>3. CASE /\ session' = [session EXCEPT ![s].scanned = TRUE]
               /\ At(s, "exchanging") \/ Answer(s, "pending") \/ Answer(s, "expired")
      <4>1. \A t \in Sessions : /\ session'[t].at = session[t].at
                              /\ session'[t].late = session[t].late
                              /\ session'[t].name = session[t].name
                              /\ session'[t].credential = session[t].credential
        BY <1>0, <3>3 DEF SessionsTyped
      <4>2. QED
        BY <1>0, <2>1, <2>3, <3>3, <4>1 DEF SessionsSound, PollsTyped, Polling, At,
           Answer, Idle
    <3>4. QED
      BY <2>2, <3>1, <3>2, <3>3
<1>22. ASSUME NEW s \in Sessions, AskQuark(s) PROVE SessionsSound'
  <2>1. /\ session[s].credential = NoUser /\ session[s].at \notin {"none", "starting"}
        /\ session[s].at = "live" \/ session[s].late
    BY <1>22, <1>0 DEF AskQuark, Asking, SessionsSound, PollsSound, PollSound, Polling
  <2>2. \/ /\ UNCHANGED session \/ session' = [session EXCEPT ![s].scanned = TRUE]
           /\ At(s, "exchanging") \/ Answer(s, "pending") \/ Answer(s, "expired")
        \/ Closed({s}) /\ Answer(s, "expired")
    BY <1>22 DEF AskQuark
  <2>3. UNCHANGED stored
    BY <1>22 DEF AskQuark
  <2>4. QED
    <3>1. CASE Closed({s}) /\ Answer(s, "expired")
      BY <1>0, <2>1, <2>3, <3>1, ClosedSessions DEF SessionsSound, PollsTyped, Polling,
         Answer, Idle
    <3>2. CASE /\ UNCHANGED session
               /\ At(s, "exchanging") \/ Answer(s, "pending") \/ Answer(s, "expired")
      BY <1>0, <2>1, <2>3, <3>2 DEF SessionsSound, PollsTyped, Polling, At, Answer, Idle
    <3>3. CASE /\ session' = [session EXCEPT ![s].scanned = TRUE]
               /\ At(s, "exchanging") \/ Answer(s, "pending") \/ Answer(s, "expired")
      <4>1. \A t \in Sessions : /\ session'[t].at = session[t].at
                              /\ session'[t].late = session[t].late
                              /\ session'[t].name = session[t].name
                              /\ session'[t].credential = session[t].credential
        BY <1>0, <3>3 DEF SessionsTyped
      <4>2. QED
        BY <1>0, <2>1, <2>3, <3>3, <4>1 DEF SessionsSound, PollsTyped, Polling, At,
           Answer, Idle
    <3>4. QED
      BY <2>2, <3>1, <3>2, <3>3
<1>23. ASSUME NEW s \in Sessions, AskBaidu(s) PROVE SessionsSound'
  <2>1. session[s].at \notin {"none", "starting"}
          /\ (session[s].at = "live" \/ session[s].late)
    BY <1>23, <1>0 DEF AskBaidu, Asking, SessionsSound, Polling
  <2>2. At(s, "exchanging") \/ Answer(s, "pending")
    BY <1>23 DEF AskBaidu
  <2>3. UNCHANGED <<session, stored>>
    BY <1>23 DEF AskBaidu
  <2>4. QED
    BY <1>0, <2>1, <2>2, <2>3 DEF SessionsSound, PollsTyped, Polling, At, Answer, Idle
<1>24. ASSUME NEW s \in Sessions, ExchangeDone(s) PROVE SessionsSound'
  BY <1>24, <1>0 DEF ExchangeDone, At, SessionsSound, Polling
<1>25. ASSUME NEW s \in Sessions, ExchangeFails(s) PROVE SessionsSound'
  BY <1>25, <1>0 DEF ExchangeFails, Answer, SessionsSound, Polling
<1>26. ASSUME NEW s \in Sessions, StoreRenewal(s) PROVE SessionsSound'
  BY <1>26, <1>0 DEF StoreRenewal, Answer, SessionsSound, PollsTyped, Polling
<1>27. ASSUME NEW s \in Sessions, StoreNew(s) PROVE SessionsSound'
  <2>1. /\ session[s].at \notin {"none", "starting"}
        /\ session[s].at = "live" \/ session[s].late
    BY <1>27, <1>0 DEF StoreNew, SessionsSound, Polling
  <2>2. UNCHANGED session /\ stored \subseteq stored'
    BY <1>27 DEF StoreNew
  <2>3. \A t \in Sessions \ {s} : poll'[t] = poll[t]
    BY <1>27, <1>0 DEF StoreNew, Answer, PollsTyped
  <2>4. QED
    BY <1>0, <2>1, <2>2, <2>3 DEF SessionsSound, Polling
<1>28. ASSUME NEW s \in Sessions, PollVerified(s) PROVE SessionsSound'
  BY <1>28, <1>0 DEF PollVerified, Answer, Idle, Closed, SessionsSound, PollsSound,
     PollSound, PollsTyped, Polling
<1>29. ASSUME NEW s \in Sessions, PollNotVerified(s) PROVE SessionsSound'
  BY <1>29, <1>0 DEF PollNotVerified, Answer, SessionsSound, Polling
<1>30. CASE Restart
  <2>1. UNCHANGED stored /\ \A s \in Sessions : ~Polling(s)'
    BY <1>30 DEF Restart, Idle, Polling
  <2>2. \A s \in Sessions :
          \/ session'[s] = session[s] /\ session[s].at \notin {"starting", "live"}
          \/ /\ session'[s].at = "gone" /\ session'[s].late
             /\ session'[s].name = session[s].name /\ session[s].at # "none"
    BY <1>30, <1>0 DEF Restart, SessionsTyped
  <2>3. QED
    BY <1>0, <2>1, <2>2 DEF SessionsSound
<1>31. QED
  BY <1>1, <1>2, <1>3, <1>4, <1>5, <1>6, <1>7, <1>8, <1>9, <1>10, <1>11, <1>12, <1>13,
     <1>14, <1>15, <1>16, <1>17, <1>18, <1>19, <1>20, <1>21, <1>22, <1>23, <1>24, <1>25,
     <1>26, <1>27, <1>28, <1>29, <1>30 DEF Next

\* A poll verifies what it stored, stores what it exchanged, and exchanges what was
\* confirmed.
LEMMA PollsPreserved ==
  ASSUME LoginIsSound, Next
  PROVE  PollsSound'
<1>0. /\ RowsTyped /\ SessionsTyped /\ PollsTyped /\ RequestsTyped /\ ClientsAreOwned
      /\ SessionsSound /\ PollsSound /\ AnswersFinal /\ CheckSound /\ OpenChecked
  BY DEF LoginIsSound
<1>1. ASSUME NEW i \in Ids, NEW u \in Users,
             \/ PasteToken(i, u) \/ BindOpen(i, u)
      PROVE  PollsSound'
  <2>1. UNCHANGED <<session, code, poll, stored>>
    BY <1>1 DEF login, PasteToken, BindOpen
  <2>2. QED
    BY <2>1, <1>0 DEF PollsSound, PollSound
<1>2. ASSUME NEW i \in Ids,
             \/ DeleteAccount(i) \/ RemoveOpen(i)
      PROVE  PollsSound'
  <2>1. UNCHANGED <<session, code, poll, stored>>
    BY <1>2 DEF login, DeleteAccount, RemoveOpen
  <2>2. QED
    BY <2>1, <1>0 DEF PollsSound, PollSound
<1>3. ASSUME NEW i \in Ids \cup {NoId}, NEW n \in Names, BeginSignin(i, n)
      PROVE  PollsSound'
  <2>1. UNCHANGED <<session, code, poll, stored>>
    BY <1>3 DEF login, BeginSignin
  <2>2. QED
    BY <2>1, <1>0 DEF PollsSound, PollSound
<1>4. ASSUME NEW u \in Users, EndSignin(u)
      PROVE  PollsSound'
  <2>1. UNCHANGED <<session, code, poll, stored>>
    BY <1>4 DEF login, EndSignin
  <2>2. QED
    BY <2>1, <1>0 DEF PollsSound, PollSound
<1>5. ASSUME NEW p \in {kind} \cup OtherKinds, NEW n \in Names, NEW u \in Users,
             AddAccount(p, n, u)
      PROVE  PollsSound'
  <2>1. UNCHANGED <<session, code, poll, stored>>
    BY <1>5 DEF login, AddAccount
  <2>2. QED
    BY <2>1, <1>0 DEF PollsSound, PollSound
<1>6. ASSUME NEW i \in Ids, NEW n \in Names, RenameAccount(i, n)
      PROVE  PollsSound'
  <2>1. UNCHANGED <<session, code, poll, stored>>
    BY <1>6 DEF login, RenameAccount
  <2>2. QED
    BY <2>1, <1>0 DEF PollsSound, PollSound
<1>7. ASSUME NEW i \in Ids, NEW what \in {"private", "open", "drives"},
             BeginCheck(i, what)
      PROVE  PollsSound'
  <2>1. UNCHANGED <<session, code, poll, stored>>
    BY <1>7 DEF login, BeginCheck
  <2>2. QED
    BY <2>1, <1>0 DEF PollsSound, PollSound
<1>8. CASE \/ SigninFails \/ PrivateValid \/ PrivateInvalid \/ OpenValid
          \/ OpenInvalid
  <2>1. UNCHANGED <<session, code, poll, stored>>
    BY <1>8 DEF login, SigninFails, PrivateValid, PrivateInvalid, OpenValid, OpenInvalid
  <2>2. QED
    BY <2>1, <1>0 DEF PollsSound, PollSound
<1>9. ASSUME NEW s \in Sessions, BeginStart(s) PROVE PollsSound'
  BY <1>9, <1>0 DEF BeginStart, NoSession, PollsSound, PollSound, SessionsSound
<1>10. ASSUME NEW s \in Sessions, StartFails(s) PROVE PollsSound'
  BY <1>10, <1>0 DEF StartFails, Closed, PollsSound, PollSound
<1>11. ASSUME NEW s \in Sessions, StartSucceeds(s) PROVE PollsSound'
  BY <1>11, <1>0 DEF StartSucceeds, PollsSound, PollSound
<1>12. ASSUME NEW s \in Sessions, StartAliyun(s) PROVE PollsSound'
  BY <1>12, <1>0 DEF StartAliyun, NoSession, PollsSound, PollSound, SessionsSound
<1>13. ASSUME NEW s \in Sessions, GetsLate(s) PROVE PollsSound'
  BY <1>13, <1>0 DEF GetsLate, PollsSound, PollSound
<1>14. ASSUME NEW s \in Sessions, Scan(s) PROVE PollsSound'
  BY <1>14, <1>0 DEF Scan, PollsSound, PollSound
<1>15. ASSUME NEW s \in Sessions, CodeLapses(s) PROVE PollsSound'
  BY <1>15, <1>0 DEF CodeLapses, PollsSound, PollSound
<1>16. ASSUME NEW s \in Sessions, NEW u \in Users, ConfirmCode(s, u) PROVE PollsSound'
  BY <1>16, <1>0 DEF ConfirmCode, PollsSound, PollSound
<1>17. ASSUME NEW s \in Sessions, BeginPoll(s) PROVE PollsSound'
  BY <1>17, <1>0 DEF BeginPoll, At, PollsSound, PollSound
<1>18. ASSUME NEW s \in Sessions, PollLate(s) PROVE PollsSound'
  BY <1>18, <1>0 DEF PollLate, Closed, Answer, PollsSound, PollSound
<1>19. ASSUME NEW s \in Sessions, RequestFails(s) PROVE PollsSound'
  BY <1>19, <1>0 DEF RequestFails, Answer, Idle, PollsSound, PollSound
<1>20. ASSUME NEW s \in Sessions, AskAliyun(s) PROVE PollsSound'
  <2>1. /\ UNCHANGED <<code, stored>>
        /\ \A t \in Sessions \ {s} : session'[t].credential = session[t].credential
    BY <1>20, <1>0 DEF AskAliyun, SessionsTyped
  <2>2. \/ Answer(s, "pending") \/ Answer(s, "expired")
        \/ At(s, "storing") /\ session'[s].credential \in Users
    BY <1>20, <1>0 DEF AskAliyun, SessionsTyped, PollsSound, PollSound
  <2>3. /\ \/ poll'[s].at = "storing" /\ session'[s].credential \in Users
           \/ poll'[s].at = "idle"
        /\ \A t \in Sessions \ {s} : poll'[t] = poll[t]
    BY <1>0, <2>2, PollMoved, PollAnswered
  <2>4. PollSound(s)'
    BY <1>0, <2>1, <2>3, LoginConstants DEF PollsSound, PollSound
  <2>5. QED
    BY <1>0, <2>1, <2>3, <2>4, OnlyPoll
<1>21. ASSUME NEW s \in Sessions, AliyunUndecodable(s) PROVE PollsSound'
  BY <1>21, <1>0 DEF AliyunUndecodable, Answer, Idle, PollsSound, PollSound
<1>22. ASSUME NEW s \in Sessions, AskPan123(s) PROVE PollsSound'
  <2>1. /\ session[s].credential = NoUser /\ UNCHANGED <<code, stored>>
        /\ \A t \in Sessions : session'[t].credential = session[t].credential
    BY <1>22, <1>0 DEF AskPan123, Asking, PollsSound, PollSound, Closed, SessionsTyped
  <2>2. \/ At(s, "exchanging") /\ code[s].at \in {"confirmed", "lapsed"}
        \/ Answer(s, "pending") \/ Answer(s, "expired")
    BY <1>22 DEF AskPan123
  <2>3. /\ \/ poll'[s].at = "exchanging" /\ code[s].at \in {"confirmed", "lapsed"}
           \/ poll'[s].at = "idle"
        /\ \A t \in Sessions \ {s} : poll'[t] = poll[t]
    BY <1>0, <2>2, PollMoved, PollAnswered
  <2>4. PollSound(s)'
    BY <1>0, <2>1, <2>3 DEF PollsSound, PollSound
  <2>5. QED
    BY <1>0, <2>1, <2>3, <2>4, OnlyPoll
<1>23. ASSUME NEW s \in Sessions, AskQuark(s) PROVE PollsSound'
  <2>1. /\ session[s].credential = NoUser /\ UNCHANGED <<code, stored>>
        /\ \A t \in Sessions : session'[t].credential = session[t].credential
    BY <1>23, <1>0 DEF AskQuark, Asking, PollsSound, PollSound, Closed, SessionsTyped
  <2>2. \/ At(s, "exchanging") /\ code[s].at \in {"confirmed", "lapsed"}
        \/ Answer(s, "pending") \/ Answer(s, "expired")
    BY <1>23 DEF AskQuark
  <2>3. /\ \/ poll'[s].at = "exchanging" /\ code[s].at \in {"confirmed", "lapsed"}
           \/ poll'[s].at = "idle"
        /\ \A t \in Sessions \ {s} : poll'[t] = poll[t]
    BY <1>0, <2>2, PollMoved, PollAnswered
  <2>4. PollSound(s)'
    BY <1>0, <2>1, <2>3 DEF PollsSound, PollSound
  <2>5. QED
    BY <1>0, <2>1, <2>3, <2>4, OnlyPoll
<1>24. ASSUME NEW s \in Sessions, AskBaidu(s) PROVE PollsSound'
  <2>1. session[s].credential = NoUser /\ UNCHANGED <<code, session, stored>>
    BY <1>24, <1>0 DEF AskBaidu, Asking, PollsSound, PollSound
  <2>2. \/ At(s, "exchanging") /\ code[s].at \in {"confirmed", "lapsed", "used"}
        \/ Answer(s, "pending")
    BY <1>24 DEF AskBaidu
  <2>3. /\ \/ poll'[s].at = "exchanging" /\ code[s].at \in {"confirmed", "lapsed", "used"}
           \/ poll'[s].at = "idle"
        /\ \A t \in Sessions \ {s} : poll'[t] = poll[t]
    BY <1>0, <2>2, PollMoved, PollAnswered
  <2>4. PollSound(s)'
    BY <1>0, <2>1, <2>3 DEF PollsSound, PollSound
  <2>5. QED
    BY <1>0, <2>1, <2>3, <2>4, OnlyPoll
<1>25. ASSUME NEW s \in Sessions, ExchangeDone(s) PROVE PollsSound'
  BY <1>25, <1>0, LoginConstants DEF ExchangeDone, At, PollsSound, PollSound,
     SessionsTyped, PollsTyped
<1>26. ASSUME NEW s \in Sessions, ExchangeFails(s) PROVE PollsSound'
  <2>1. UNCHANGED <<session, stored>> /\ Answer(s, "error")
    BY <1>26 DEF ExchangeFails
  <2>2. code[s].user \in Users
    BY <1>26, <1>0 DEF ExchangeFails, PollsSound, PollSound
  <2>3. \/ UNCHANGED code
        \/ code' = [code EXCEPT ![s].at = "used"]
    BY <1>26 DEF ExchangeFails
  <2>4. /\ code'[s].user = code[s].user
        /\ \A t \in Sessions \ {s} : code'[t] = code[t]
    BY <1>0, <2>3 DEF PollsTyped
  <2>5. poll'[s].at = "idle" /\ \A t \in Sessions \ {s} : poll'[t] = poll[t]
    BY <1>0, <2>1, PollAnswered
  <2>6. PollSound(s)'
    BY <2>2, <2>4, <2>5 DEF PollSound
  <2>7. QED
    BY <1>0, <2>1, <2>4, <2>5, <2>6, OnlyPoll
<1>27. ASSUME NEW s \in Sessions, StoreRenewal(s) PROVE PollsSound'
  <2>1. UNCHANGED <<session, code>> /\ stored \subseteq stored'
    BY <1>27 DEF StoreRenewal
  <2>2. \/ Answer(s, "error") \/ Answer(s, "conflict")
        \/ /\ \E i \in Ids : poll' = [poll EXCEPT ![s] = [at |-> "verifying", id |-> i]]
           /\ stored' = stored \cup {s}
    BY <1>27, <1>0, FreshIdIsFree, LoginConstants DEF StoreRenewal, SessionsTyped
  <2>3. /\ \/ poll'[s].at = "idle"
           \/ poll'[s].at = "verifying" /\ poll'[s].id \in Ids /\ s \in stored'
        /\ \A t \in Sessions \ {s} : poll'[t] = poll[t]
    BY <1>0, <2>2, PollAnswered DEF PollsTyped
  <2>4. PollSound(s)'
    BY <1>0, <2>1, <2>3 DEF PollsSound, PollSound
  <2>5. QED
    BY <1>0, <2>1, <2>3, <2>4, OnlyPoll
<1>28. ASSUME NEW s \in Sessions, StoreNew(s) PROVE PollsSound'
  <2>1. UNCHANGED <<session, code>> /\ stored \subseteq stored'
    BY <1>28 DEF StoreNew
  <2>2. \/ Answer(s, "error") \/ Answer(s, "conflict")
        \/ /\ \E i \in Ids : poll' = [poll EXCEPT ![s] = [at |-> "verifying", id |-> i]]
           /\ stored' = stored \cup {s}
    BY <1>28, <1>0, FreshIdIsFree, LoginConstants DEF StoreNew, SessionsTyped
  <2>3. /\ \/ poll'[s].at = "idle"
           \/ poll'[s].at = "verifying" /\ poll'[s].id \in Ids /\ s \in stored'
        /\ \A t \in Sessions \ {s} : poll'[t] = poll[t]
    BY <1>0, <2>2, PollAnswered DEF PollsTyped
  <2>4. PollSound(s)'
    BY <1>0, <2>1, <2>3 DEF PollsSound, PollSound
  <2>5. QED
    BY <1>0, <2>1, <2>3, <2>4, OnlyPoll
<1>29. ASSUME NEW s \in Sessions, PollVerified(s) PROVE PollsSound'
  BY <1>29, <1>0 DEF PollVerified, Answer, Idle, Closed, PollsSound, PollSound
<1>30. ASSUME NEW s \in Sessions, PollNotVerified(s) PROVE PollsSound'
  BY <1>30, <1>0 DEF PollNotVerified, Answer, Idle, PollsSound, PollSound
<1>31. CASE Restart
  BY <1>31, <1>0 DEF Restart, Idle, PollsSound, PollSound
<1>32. QED
  BY <1>1, <1>2, <1>3, <1>4, <1>5, <1>6, <1>7, <1>8, <1>9, <1>10, <1>11, <1>12, <1>13,
     <1>14, <1>15, <1>16, <1>17, <1>18, <1>19, <1>20, <1>21, <1>22, <1>23, <1>24, <1>25,
     <1>26, <1>27, <1>28, <1>29, <1>30, <1>31 DEF Next

\* A page is told that its login expired when the session goes and no poll is under way.
LEMMA AnswersPreserved ==
  ASSUME LoginIsSound, Next
  PROVE  AnswersFinal'
<1>0. /\ RowsTyped /\ SessionsTyped /\ PollsTyped /\ RequestsTyped /\ ClientsAreOwned
      /\ SessionsSound /\ PollsSound /\ AnswersFinal /\ CheckSound /\ OpenChecked
  BY DEF LoginIsSound
<1>1. ASSUME NEW s \in Sessions,
             \/ Scan(s) \/ CodeLapses(s)
      PROVE  AnswersFinal'
  <2>1. UNCHANGED <<session, poll, told>>
    BY <1>1 DEF Scan, CodeLapses
  <2>2. QED
    BY <2>1, <1>0 DEF AnswersFinal, Polling
<1>2. ASSUME NEW i \in Ids, NEW u \in Users,
             \/ PasteToken(i, u) \/ BindOpen(i, u)
      PROVE  AnswersFinal'
  <2>1. UNCHANGED <<session, poll, told>>
    BY <1>2 DEF login, PasteToken, BindOpen
  <2>2. QED
    BY <2>1, <1>0 DEF AnswersFinal, Polling
<1>3. ASSUME NEW i \in Ids,
             \/ DeleteAccount(i) \/ RemoveOpen(i)
      PROVE  AnswersFinal'
  <2>1. UNCHANGED <<session, poll, told>>
    BY <1>3 DEF login, DeleteAccount, RemoveOpen
  <2>2. QED
    BY <2>1, <1>0 DEF AnswersFinal, Polling
<1>4. ASSUME NEW s \in Sessions, NEW u \in Users, ConfirmCode(s, u)
      PROVE  AnswersFinal'
  <2>1. UNCHANGED <<session, poll, told>>
    BY <1>4 DEF ConfirmCode
  <2>2. QED
    BY <2>1, <1>0 DEF AnswersFinal, Polling
<1>5. ASSUME NEW i \in Ids \cup {NoId}, NEW n \in Names, BeginSignin(i, n)
      PROVE  AnswersFinal'
  <2>1. UNCHANGED <<session, poll, told>>
    BY <1>5 DEF login, BeginSignin
  <2>2. QED
    BY <2>1, <1>0 DEF AnswersFinal, Polling
<1>6. ASSUME NEW u \in Users, EndSignin(u)
      PROVE  AnswersFinal'
  <2>1. UNCHANGED <<session, poll, told>>
    BY <1>6 DEF login, EndSignin
  <2>2. QED
    BY <2>1, <1>0 DEF AnswersFinal, Polling
<1>7. ASSUME NEW p \in {kind} \cup OtherKinds, NEW n \in Names, NEW u \in Users,
             AddAccount(p, n, u)
      PROVE  AnswersFinal'
  <2>1. UNCHANGED <<session, poll, told>>
    BY <1>7 DEF login, AddAccount
  <2>2. QED
    BY <2>1, <1>0 DEF AnswersFinal, Polling
<1>8. ASSUME NEW i \in Ids, NEW n \in Names, RenameAccount(i, n)
      PROVE  AnswersFinal'
  <2>1. UNCHANGED <<session, poll, told>>
    BY <1>8 DEF login, RenameAccount
  <2>2. QED
    BY <2>1, <1>0 DEF AnswersFinal, Polling
<1>9. ASSUME NEW i \in Ids, NEW what \in {"private", "open", "drives"},
             BeginCheck(i, what)
      PROVE  AnswersFinal'
  <2>1. UNCHANGED <<session, poll, told>>
    BY <1>9 DEF login, BeginCheck
  <2>2. QED
    BY <2>1, <1>0 DEF AnswersFinal, Polling
<1>10. CASE \/ SigninFails \/ PrivateValid \/ PrivateInvalid \/ OpenValid
          \/ OpenInvalid
  <2>1. UNCHANGED <<session, poll, told>>
    BY <1>10 DEF login, SigninFails, PrivateValid, PrivateInvalid, OpenValid,
       OpenInvalid
  <2>2. QED
    BY <2>1, <1>0 DEF AnswersFinal, Polling
<1>11. ASSUME NEW s \in Sessions, BeginStart(s) PROVE AnswersFinal'
  BY <1>11, <1>0 DEF BeginStart, AnswersFinal, Polling
<1>12. ASSUME NEW s \in Sessions, StartFails(s) PROVE AnswersFinal'
  BY <1>12, <1>0 DEF StartFails, Closed, AnswersFinal, Polling
<1>13. ASSUME NEW s \in Sessions, StartSucceeds(s) PROVE AnswersFinal'
  BY <1>13, <1>0 DEF StartSucceeds, AnswersFinal, Polling
<1>14. ASSUME NEW s \in Sessions, StartAliyun(s) PROVE AnswersFinal'
  BY <1>14, <1>0 DEF StartAliyun, AnswersFinal, Polling
<1>15. ASSUME NEW s \in Sessions, GetsLate(s) PROVE AnswersFinal'
  BY <1>15, <1>0 DEF GetsLate, AnswersFinal, Polling
<1>16. ASSUME NEW s \in Sessions, BeginPoll(s) PROVE AnswersFinal'
  BY <1>16, <1>0 DEF BeginPoll, Registered, At, AnswersFinal, Polling
<1>17. ASSUME NEW s \in Sessions, PollLate(s) PROVE AnswersFinal'
  BY <1>17, <1>0 DEF PollLate, Closed, Answer, Idle, AnswersFinal, Polling
<1>18. ASSUME NEW s \in Sessions, RequestFails(s) PROVE AnswersFinal'
  BY <1>18, <1>0 DEF RequestFails, Answer, AnswersFinal, Polling
<1>19. ASSUME NEW s \in Sessions, AskAliyun(s) PROVE AnswersFinal'
  <2>1. Polling(s) /\ session[s].at \in {"live", "gone"}
    BY <1>19, <1>0 DEF AskAliyun, Asking, SessionsSound, SessionsTyped, Polling
  <2>2. /\ \A t \in Sessions \ {s} : session'[t].at = session[t].at /\ poll'[t] = poll[t]
                                   /\ told'[t] = told[t]
    BY <1>19, <1>0 DEF AskAliyun, At, Answer, SessionsTyped, PollsTyped
  <2>3. told'[s] = "expired" => session'[s].at = "gone" /\ ~Polling(s)'
    BY <1>19, <1>0, <2>1 DEF AskAliyun, At, Answer, Idle, SessionsTyped, PollsTyped,
       AnswersFinal,
       Polling
  <2>4. QED
    BY <1>0, <2>2, <2>3 DEF AnswersFinal, Polling
<1>20. ASSUME NEW s \in Sessions, AliyunUndecodable(s) PROVE AnswersFinal'
  BY <1>20, <1>0 DEF AliyunUndecodable, Asking, Answer, AnswersFinal, Polling
<1>21. ASSUME NEW s \in Sessions, AskPan123(s) PROVE AnswersFinal'
  BY <1>21, <1>0 DEF AskPan123, Asking, Answer, At, Idle, Closed, OwnClient,
     AnswersFinal, SessionsTyped, PollsTyped, Polling
<1>22. ASSUME NEW s \in Sessions, AskQuark(s) PROVE AnswersFinal'
  BY <1>22, <1>0 DEF AskQuark, Asking, Answer, At, Idle, Closed, AnswersFinal,
     SessionsTyped, PollsTyped, Polling
<1>23. ASSUME NEW s \in Sessions, AskBaidu(s) PROVE AnswersFinal'
  BY <1>23, <1>0 DEF AskBaidu, Asking, Answer, At, AnswersFinal, PollsTyped, Polling
<1>24. ASSUME NEW s \in Sessions, ExchangeDone(s) PROVE AnswersFinal'
  BY <1>24, <1>0 DEF ExchangeDone, At, AnswersFinal, Polling
<1>25. ASSUME NEW s \in Sessions, ExchangeFails(s) PROVE AnswersFinal'
  BY <1>25, <1>0 DEF ExchangeFails, Answer, AnswersFinal, Polling
<1>26. ASSUME NEW s \in Sessions, StoreRenewal(s) PROVE AnswersFinal'
  BY <1>26, <1>0 DEF StoreRenewal, Answer, AnswersFinal, PollsTyped, Polling
<1>27. ASSUME NEW s \in Sessions, StoreNew(s) PROVE AnswersFinal'
  <2>1. Polling(s) /\ UNCHANGED <<session, told>>
    BY <1>27 DEF StoreNew, Answer, Polling
  <2>2. \A t \in Sessions \ {s} : poll'[t] = poll[t]
    BY <1>27, <1>0 DEF StoreNew, Answer, PollsTyped
  <2>3. QED
    BY <1>0, <2>1, <2>2 DEF AnswersFinal, Polling
<1>28. ASSUME NEW s \in Sessions, PollVerified(s) PROVE AnswersFinal'
  BY <1>28, <1>0 DEF PollVerified, Answer, Closed, AnswersFinal, Polling
<1>29. ASSUME NEW s \in Sessions, PollNotVerified(s) PROVE AnswersFinal'
  BY <1>29, <1>0 DEF PollNotVerified, Answer, AnswersFinal, Polling
<1>30. CASE Restart
  BY <1>30, <1>0 DEF Restart, Idle, AnswersFinal, Polling
<1>31. QED
  BY <1>1, <1>2, <1>3, <1>4, <1>5, <1>6, <1>7, <1>8, <1>9, <1>10, <1>11, <1>12, <1>13,
     <1>14, <1>15, <1>16, <1>17, <1>18, <1>19, <1>20, <1>21, <1>22, <1>23, <1>24, <1>25,
     <1>26, <1>27, <1>28, <1>29, <1>30 DEF Next

\* A check whose credentials nobody replaced since holds those of the row.
LEMMA CheckPreserved ==
  ASSUME LoginIsSound, Next
  PROVE  CheckSound'
<1>0. /\ RowsTyped /\ SessionsTyped /\ PollsTyped /\ RequestsTyped /\ ClientsAreOwned
      /\ SessionsSound /\ PollsSound /\ AnswersFinal /\ CheckSound /\ OpenChecked
  BY DEF LoginIsSound
<1>1. ASSUME NEW s \in Sessions,
             \/ BeginStart(s) \/ StartFails(s) \/ StartSucceeds(s) \/ StartAliyun(s)
             \/ GetsLate(s) \/ Scan(s) \/ CodeLapses(s) \/ BeginPoll(s)
             \/ PollLate(s) \/ RequestFails(s) \/ AskAliyun(s)
             \/ AliyunUndecodable(s) \/ AskPan123(s) \/ AskQuark(s) \/ AskBaidu(s)
             \/ ExchangeDone(s) \/ ExchangeFails(s)
      PROVE  CheckSound'
  <2>1. UNCHANGED <<check, accounts>>
    BY <1>1 DEF BeginStart, StartFails, StartSucceeds, StartAliyun, GetsLate, Scan,
       CodeLapses, BeginPoll, PollLate, RequestFails, AskAliyun, AliyunUndecodable,
       AskPan123, AskQuark, AskBaidu, ExchangeDone, ExchangeFails
  <2>2. QED
    BY <2>1, <1>0 DEF CheckSound, Present
<1>2. ASSUME NEW s \in Sessions, NEW u \in Users, ConfirmCode(s, u)
      PROVE  CheckSound'
  <2>1. UNCHANGED <<check, accounts>>
    BY <1>2 DEF ConfirmCode
  <2>2. QED
    BY <2>1, <1>0 DEF CheckSound, Present
<1>3. ASSUME NEW i \in Ids \cup {NoId}, NEW n \in Names, BeginSignin(i, n)
      PROVE  CheckSound'
  <2>1. UNCHANGED <<check, accounts>>
    BY <1>3 DEF BeginSignin
  <2>2. QED
    BY <2>1, <1>0 DEF CheckSound, Present
<1>4. CASE SigninFails
  <2>1. UNCHANGED <<check, accounts>>
    BY <1>4 DEF SigninFails
  <2>2. QED
    BY <2>1, <1>0 DEF CheckSound, Present
<1>5. ASSUME NEW s \in Sessions, StoreRenewal(s) PROVE CheckSound'
  BY <1>5, <1>0 DEF StoreRenewal, Write, CheckSound, RowsTyped, RequestsTyped, Present
<1>6. ASSUME NEW s \in Sessions, StoreNew(s) PROVE CheckSound'
  <2>1. check' = check
    BY <1>6 DEF StoreNew
  <2>2. \A i \in Ids : Present(i) => accounts'[i] = accounts[i]
    BY <1>6, <1>0, FreshIdIsFree DEF StoreNew, RowsTyped
  <2>3. QED
    BY <1>0, <2>1, <2>2, CheckKept DEF Present
<1>7. ASSUME NEW s \in Sessions, PollVerified(s) PROVE CheckSound'
  <2>1. poll[s].id \in Ids /\ accounts[poll[s].id] \in Rows
        /\ check' = check
    BY <1>7, <1>0, RowSet DEF PollVerified, PollsSound, PollSound
  <2>2. session[s].credential \in Users \cup {NoUser}
    BY <1>0 DEF SessionsTyped
  <2>3. PICK u \in Users \cup {NoUser} :
          accounts' = [accounts EXCEPT ![poll[s].id].user = u, ![poll[s].id].status = "active"]
    BY <1>7, <2>2 DEF PollVerified, PrivateUsers
  <2> DEFINE row == [accounts[poll[s].id] EXCEPT !.user = u, !.status = "active"]
  <2>4. row # NoRow /\ SameCredentials(row, accounts[poll[s].id])
    BY <2>1, Verified, LoginConstants
  <2>5. \A j \in Ids : accounts'[j] = IF j = poll[s].id THEN row ELSE accounts[j]
    BY <1>0, <2>1, <2>3 DEF RowsTyped
  <2>6. QED
    BY <1>0, <2>1, <2>4, <2>5, CheckKept DEF Present, SameCredentials
<1>8. ASSUME NEW s \in Sessions, PollNotVerified(s) PROVE CheckSound'
  <2>1. check' = check
    BY <1>8 DEF PollNotVerified
  <2>2. CASE UNCHANGED accounts
    BY <1>0, <2>1, <2>2, CheckKept DEF Present
  <2>3. CASE Present(poll[s].id) /\ ~(UNCHANGED accounts)
    <3> DEFINE row == [accounts[poll[s].id] EXCEPT !.status = "error"]
    <3>1. poll[s].id \in Ids /\ accounts[poll[s].id] \in Rows
      BY <1>8, <1>0, <2>3, RowSet DEF PollNotVerified, PollsSound, PollSound
    <3>2. row # NoRow /\ SameCredentials(row, accounts[poll[s].id])
      BY <3>1, Marked, LoginConstants
    <3>3. \A j \in Ids : accounts'[j] = IF j = poll[s].id THEN row ELSE accounts[j]
      BY <1>8, <1>0, <2>3, <3>1 DEF PollNotVerified, RowsTyped
    <3>4. QED
      BY <1>0, <2>1, <3>2, <3>3, CheckKept DEF Present, SameCredentials
  <2>4. QED
    BY <1>8, <2>2, <2>3 DEF PollNotVerified
<1>9. CASE Restart
  BY <1>9 DEF Restart, NoCheck, CheckSound
<1>10. ASSUME NEW u \in Users, EndSignin(u) PROVE CheckSound'
  BY <1>10, <1>0 DEF EndSignin, Write, CheckSound, RowsTyped, RequestsTyped, Present
<1>11. ASSUME NEW p \in {kind} \cup OtherKinds, NEW n \in Names, NEW u \in Users,
              AddAccount(p, n, u)
       PROVE  CheckSound'
  <2>1. check' = check
    BY <1>11 DEF AddAccount
  <2>2. \A i \in Ids : Present(i) => accounts'[i] = accounts[i]
    BY <1>11, <1>0, FreshIdIsFree DEF AddAccount, RowsTyped
  <2>3. QED
    BY <1>0, <2>1, <2>2, CheckKept DEF Present
<1>12. ASSUME NEW i \in Ids, NEW n \in Names, RenameAccount(i, n) PROVE CheckSound'
  <2>1. /\ check' = check /\ accounts[i] \in Rows
        /\ accounts' = [accounts EXCEPT ![i] = [accounts[i] EXCEPT !.name = n]]
    BY <1>12, <1>0, RowSet DEF RenameAccount
  <2> DEFINE row == [accounts[i] EXCEPT !.name = n]
  <2>2. row # NoRow /\ SameCredentials(row, accounts[i])
    BY <2>1, Renamed, LoginConstants
  <2>3. \A j \in Ids : accounts'[j] = IF j = i THEN row ELSE accounts[j]
    BY <1>0, <2>1 DEF RowsTyped
  <2>4. QED
    BY <1>0, <2>1, <2>2, <2>3, CheckKept DEF Present, SameCredentials
<1>13. ASSUME NEW i \in Ids, NEW u \in Users, PasteToken(i, u) PROVE CheckSound'
  BY <1>13, <1>0 DEF PasteToken, Write, CheckSound, Present
<1>14. ASSUME NEW i \in Ids, NEW u \in Users, BindOpen(i, u) PROVE CheckSound'
  BY <1>14, <1>0 DEF BindOpen, Write, CheckSound, Present
<1>15. ASSUME NEW i \in Ids, DeleteAccount(i) PROVE CheckSound'
  BY <1>15, <1>0 DEF DeleteAccount, Write, CheckSound, Present
<1>16. ASSUME NEW i \in Ids, RemoveOpen(i) PROVE CheckSound'
  BY <1>16, <1>0 DEF RemoveOpen, Write, CheckSound, Present
<1>17. ASSUME NEW i \in Ids, NEW what \in {"private", "open", "drives"},
              BeginCheck(i, what)
       PROVE  CheckSound'
  BY <1>17 DEF BeginCheck, OpenCredential, CheckSound, Present
<1>18. CASE PrivateValid
  <2> DEFINE i == check.id
  <2>1. CASE check' = NoCheck
    BY <2>1 DEF CheckSound, NoCheck
  <2>2. CASE check' # NoCheck
    <3>1. /\ i \in Ids /\ accounts[i] \in Rows /\ check.at = "private"
          /\ check.token \in Tokens /\ check.token.user \in Users
      BY <1>18, <1>0, RowSet DEF PrivateValid, RequestsTyped, Tokens
    <3>2. PICK u \in {check.token.user, NoUser}, last \in {check.open, accounts[i].open} :
            /\ check' = [check EXCEPT !.at = "open", !.user = u, !.open = last,
                                      !.provider = accounts[i].provider]
            /\ check.what # "private"
            /\ \/ last = check.open /\ accounts' = [accounts EXCEPT ![i] = accounts[i]]
               \/ /\ last = accounts[i].open
                  /\ \E row \in Persisted([[accounts[i] EXCEPT !.user = u]
                                               EXCEPT !.status = "active"]) :
                       accounts' = [accounts EXCEPT ![i] = row]
      BY <1>18, <2>2 DEF PrivateValid, PrivateUsers, OpenCredential
    <3> DEFINE named == [accounts[i] EXCEPT !.user = u]
               verified == [named EXCEPT !.status = "active"]
    <3>3. verified \in Rows /\ SameCredentials(verified, accounts[i])
      <4>1. named \in Rows /\ SameCredentials(named, accounts[i])
        BY <3>1, <3>2, Named
      <4>2. verified \in Rows /\ SameCredentials(verified, named)
        BY <4>1, Marked
      <4>3. QED
        BY <4>1, <4>2 DEF SameCredentials
    <3>4. /\ check'.id = i /\ check'.token = check.token /\ check'.clean = check.clean
          /\ check'.user = u /\ check'.open = last /\ check'.what = check.what
          /\ check'.provider = accounts[i].provider
      BY <1>0, <3>2 DEF RequestsTyped
    <3>5. CASE accounts' = [accounts EXCEPT ![i] = accounts[i]] /\ last = check.open
      <4>1. accounts' = accounts
        BY <1>0, <3>1, <3>5 DEF RowsTyped
      <4>2. QED
        BY <1>0, <3>1, <3>2, <3>4, <3>5, <4>1 DEF CheckSound, Present
    <3> HIDE DEF verified
    <3>6. ASSUME NEW row \in Persisted(verified), last = accounts[i].open,
                 accounts' = [accounts EXCEPT ![i] = row]
          PROVE  CheckSound'
      <4>1. /\ row \in Rows /\ row # NoRow /\ row.open = last
            /\ row.token \in {accounts[i].token, check.token}
            /\ row.provider = accounts[i].provider
        BY <3>1, <3>3, <3>6, PersistedRow, LoginConstants DEF SameCredentials
      <4>2. accounts'[i] = row
        BY <1>0, <3>1, <3>6 DEF RowsTyped
      <4>3. QED
        BY <1>0, <3>1, <3>2, <3>4, <4>1, <4>2 DEF CheckSound, Present
    <3>7. QED
      BY <3>2, <3>5, <3>6 DEF verified
  <2>3. QED
    BY <2>1, <2>2
<1>19. CASE PrivateInvalid
  BY <1>19 DEF PrivateInvalid, NoCheck, CheckSound
<1>20. CASE OpenValid
  BY <1>20 DEF OpenValid, NoCheck, CheckSound
<1>21. CASE OpenInvalid
  BY <1>21 DEF OpenInvalid, NoCheck, CheckSound
<1>22. QED
  BY <1>1, <1>2, <1>3, <1>4, <1>5, <1>6, <1>7, <1>8, <1>9, <1>10, <1>11, <1>12, <1>13,
     <1>14, <1>15, <1>16, <1>17, <1>18, <1>19, <1>20, <1>21 DEF Next

\* Only a poll under way stores a credential.
LEMMA StoredByPolls ==
  ASSUME LoginIsSound, Next
  PROVE  \A t \in Sessions : told[t] = "expired" /\ t \in stored' => t \in stored
<1>0. /\ RowsTyped /\ SessionsTyped /\ PollsTyped /\ RequestsTyped /\ ClientsAreOwned
      /\ SessionsSound /\ PollsSound /\ AnswersFinal /\ CheckSound /\ OpenChecked
  BY DEF LoginIsSound
<1>1. ASSUME NEW s \in Sessions,
             \/ BeginStart(s) \/ StartFails(s) \/ StartSucceeds(s) \/ StartAliyun(s)
             \/ GetsLate(s) \/ Scan(s) \/ CodeLapses(s) \/ BeginPoll(s)
             \/ PollLate(s) \/ RequestFails(s) \/ AskAliyun(s)
             \/ AliyunUndecodable(s) \/ AskPan123(s) \/ AskQuark(s) \/ AskBaidu(s)
             \/ ExchangeDone(s) \/ ExchangeFails(s) \/ PollVerified(s)
             \/ PollNotVerified(s)
      PROVE  \A t \in Sessions : told[t] = "expired" /\ t \in stored' => t \in stored
  <2>1. UNCHANGED <<stored>>
    BY <1>1 DEF BeginStart, StartFails, StartSucceeds, StartAliyun, GetsLate, Scan,
       CodeLapses, BeginPoll, PollLate, RequestFails, AskAliyun, AliyunUndecodable,
       AskPan123, AskQuark, AskBaidu, ExchangeDone, ExchangeFails, PollVerified,
       PollNotVerified
  <2>2. QED
    BY <2>1, <1>0 DEF AnswersFinal
<1>2. ASSUME NEW i \in Ids, NEW u \in Users,
             \/ PasteToken(i, u) \/ BindOpen(i, u)
      PROVE  \A t \in Sessions : told[t] = "expired" /\ t \in stored' => t \in stored
  <2>1. UNCHANGED <<stored>>
    BY <1>2 DEF login, PasteToken, BindOpen
  <2>2. QED
    BY <2>1, <1>0 DEF AnswersFinal
<1>3. ASSUME NEW i \in Ids,
             \/ DeleteAccount(i) \/ RemoveOpen(i)
      PROVE  \A t \in Sessions : told[t] = "expired" /\ t \in stored' => t \in stored
  <2>1. UNCHANGED <<stored>>
    BY <1>3 DEF login, DeleteAccount, RemoveOpen
  <2>2. QED
    BY <2>1, <1>0 DEF AnswersFinal
<1>4. ASSUME NEW s \in Sessions, NEW u \in Users, ConfirmCode(s, u)
      PROVE  \A t \in Sessions : told[t] = "expired" /\ t \in stored' => t \in stored
  <2>1. UNCHANGED <<stored>>
    BY <1>4 DEF ConfirmCode
  <2>2. QED
    BY <2>1, <1>0 DEF AnswersFinal
<1>5. ASSUME NEW i \in Ids \cup {NoId}, NEW n \in Names, BeginSignin(i, n)
      PROVE  \A t \in Sessions : told[t] = "expired" /\ t \in stored' => t \in stored
  <2>1. UNCHANGED <<stored>>
    BY <1>5 DEF login, BeginSignin
  <2>2. QED
    BY <2>1, <1>0 DEF AnswersFinal
<1>6. ASSUME NEW u \in Users, EndSignin(u)
      PROVE  \A t \in Sessions : told[t] = "expired" /\ t \in stored' => t \in stored
  <2>1. UNCHANGED <<stored>>
    BY <1>6 DEF login, EndSignin
  <2>2. QED
    BY <2>1, <1>0 DEF AnswersFinal
<1>7. ASSUME NEW p \in {kind} \cup OtherKinds, NEW n \in Names, NEW u \in Users,
             AddAccount(p, n, u)
      PROVE  \A t \in Sessions : told[t] = "expired" /\ t \in stored' => t \in stored
  <2>1. UNCHANGED <<stored>>
    BY <1>7 DEF login, AddAccount
  <2>2. QED
    BY <2>1, <1>0 DEF AnswersFinal
<1>8. ASSUME NEW i \in Ids, NEW n \in Names, RenameAccount(i, n)
      PROVE  \A t \in Sessions : told[t] = "expired" /\ t \in stored' => t \in stored
  <2>1. UNCHANGED <<stored>>
    BY <1>8 DEF login, RenameAccount
  <2>2. QED
    BY <2>1, <1>0 DEF AnswersFinal
<1>9. ASSUME NEW i \in Ids, NEW what \in {"private", "open", "drives"},
             BeginCheck(i, what)
      PROVE  \A t \in Sessions : told[t] = "expired" /\ t \in stored' => t \in stored
  <2>1. UNCHANGED <<stored>>
    BY <1>9 DEF login, BeginCheck
  <2>2. QED
    BY <2>1, <1>0 DEF AnswersFinal
<1>10. CASE \/ Restart \/ SigninFails \/ PrivateValid \/ PrivateInvalid \/ OpenValid
          \/ OpenInvalid
  <2>1. UNCHANGED <<stored>>
    BY <1>10 DEF login, Restart, SigninFails, PrivateValid, PrivateInvalid, OpenValid,
       OpenInvalid
  <2>2. QED
    BY <2>1, <1>0 DEF AnswersFinal
<1>11. ASSUME NEW s \in Sessions, StoreRenewal(s)
       PROVE  \A t \in Sessions : told[t] = "expired" /\ t \in stored' => t \in stored
  BY <1>11, <1>0 DEF StoreRenewal, AnswersFinal, Polling
<1>12. ASSUME NEW s \in Sessions, StoreNew(s)
       PROVE  \A t \in Sessions : told[t] = "expired" /\ t \in stored' => t \in stored
  BY <1>12, <1>0 DEF StoreNew, AnswersFinal, Polling
<1>13. QED
  BY <1>1, <1>2, <1>3, <1>4, <1>5, <1>6, <1>7, <1>8, <1>9, <1>10, <1>11, <1>12 DEF Next

\* Whatever a row becomes, its OpenAPI credential is marked usable only by a check that
\* accepted it.
LEMMA OpenPreserved ==
  ASSUME LoginIsSound, Next
  PROVE  OpenChecked'
<1>0. RowsTyped /\ OpenChecked /\ RowStep
  BY RowsAreTyped DEF LoginIsSound
<1>1. CASE UNCHANGED accounts
  BY <1>0, <1>1 DEF OpenChecked, Present
<1>2. ASSUME NEW i \in Ids, NEW r \in Rows \cup {NoRow},
             accounts' = [accounts EXCEPT ![i] = r], RowFits(i, r)
      PROVE  OpenChecked'
  <2>1. \A j \in Ids : accounts'[j] = IF j = i THEN r ELSE accounts[j]
    BY <1>0, <1>2 DEF RowsTyped
  <2>2. r # NoRow /\ r.openStatus = "active" /\ ~r.replaced => RightlyUsable(r)
    BY <1>0, <1>2 DEF RowFits, OpenChecked, SameCredentials, RightlyUsable
  <2>3. QED
    BY <1>0, <2>1, <2>2 DEF OpenChecked, Present, RightlyUsable
<1>3. QED
  BY <1>0, <1>1, <1>2 DEF RowStep

-------------------------------------------------------------------------------
(***************************************************************************)
(* AccountLogin: theorems.                                                 *)
(***************************************************************************)

\* Nobody has an account yet, and no login has begun.
LEMMA InitialLogin == Init => LoginIsSound
<1> SUFFICES ASSUME Init PROVE LoginIsSound
  OBVIOUS
<1>1. RowsTyped
  BY DEF Init, RowsTyped
<1>2. \A s \in Sessions : /\ session[s] = NoSession /\ client[s] = "none"
                          /\ poll[s] = Idle /\ told[s] = "none"
                          /\ code[s] = [at |-> "new", user |-> NoUser]
  BY DEF Init
<1>3. SessionsTyped /\ PollsTyped
  BY <1>2 DEF Init, SessionsTyped, PollsTyped, NoSession, Idle
<1>4. RequestsTyped /\ CheckSound
  BY DEF Init, RequestsTyped, CheckSound, NoCheck, NoSignin
<1>5. ClientsAreOwned /\ SessionsSound /\ AnswersFinal
  BY <1>2 DEF ClientsAreOwned, SessionsSound, AnswersFinal, NoSession, Polling, Idle
<1>6. PollsSound
  BY <1>2 DEF PollsSound, PollSound, Idle
<1>7. OpenChecked
  BY DEF Init, OpenChecked, Present
<1>8. QED
  BY <1>1, <1>3, <1>4, <1>5, <1>6, <1>7 DEF LoginIsSound

\* The invariant is of the state alone.
LEMMA StutterLogin ==
  ASSUME LoginIsSound, UNCHANGED vars
  PROVE  LoginIsSound'
<1> USE DEF vars, login
<1>1. RowsTyped' /\ SessionsTyped' /\ PollsTyped' /\ RequestsTyped'
  BY DEF LoginIsSound, RowsTyped, SessionsTyped, PollsTyped, RequestsTyped
<1>2. ClientsAreOwned' /\ SessionsSound' /\ PollsSound' /\ AnswersFinal'
  BY DEF LoginIsSound, ClientsAreOwned, OwnClient, SessionsSound, PollsSound, PollSound,
     AnswersFinal, Polling
<1>3. CheckSound' /\ OpenChecked'
  BY DEF LoginIsSound, CheckSound, OpenChecked, Present
<1>4. QED
  BY <1>1, <1>2, <1>3 DEF LoginIsSound

\* Accounts, logins and checks stay in step, however many of them cross at their
\* awaits, at any provider.
THEOREM LoginIsSoundHolds == Spec => []LoginIsSound
<1>1. LoginIsSound /\ Next => LoginIsSound'
  <2> SUFFICES ASSUME LoginIsSound, Next PROVE LoginIsSound'
    OBVIOUS
  <2>1. RowsTyped' /\ SessionsTyped' /\ PollsTyped' /\ RequestsTyped'
    BY RowsAreTyped, SessionsAreTyped, PollsAreTyped, RequestsAreTyped
  <2>2. QED
    BY <2>1, ClientsPreserved, SessionsPreserved, PollsPreserved, AnswersPreserved,
       CheckPreserved, OpenPreserved DEF LoginIsSound
<1>2. QED
  BY <1>1, InitialLogin, StutterLogin, PTL DEF Spec

\* LoginInvariant: no HTTP client of a login leaks or is closed too early; the
\* credential for which a code was spent is not lost; an OpenAPI credential that counts
\* as usable, unless one of the two was replaced since, is that of the account's user if
\* its check knew both users, as the verification at Aliyun Drive always does.
THEOREM LoginInvariantHolds == Spec => []LoginInvariant
<1>1. LoginIsSound => LoginInvariant
  <2> SUFFICES ASSUME LoginIsSound PROVE LoginInvariant
    OBVIOUS
  <2>1. TypeOK
    BY DEF LoginIsSound, RowsTyped, SessionsTyped, TypeOK
  <2>2. CredentialKept
    BY DEF LoginIsSound, SessionsSound, CredentialKept, Registered
  <2>3. QED
    BY <2>1, <2>2 DEF LoginIsSound, LoginInvariant
<1>2. QED
  BY <1>1, LoginIsSoundHolds, PTL

\* ExpiredIsFinal: a login that its page was told to have expired stores nothing any
\* more, although its provider may have confirmed it meanwhile.
THEOREM ExpiredIsFinalHolds == Spec => ExpiredIsFinal
<1>1. ASSUME LoginIsSound, [Next]_vars
      PROVE  [\A s \in Sessions :
                told[s] = "expired" /\ s \in stored' => s \in stored]_vars
  BY <1>1, StoredByPolls DEF vars, login
<1>2. Spec => []LoginIsSound
  BY LoginIsSoundHolds
<1>3. QED
  BY <1>1, <1>2, PTL DEF Spec, ExpiredIsFinal

-------------------------------------------------------------------------------
(***************************************************************************)
(* ProviderSave: the entries of a page.                                    *)
(***************************************************************************)

\* How many entries are newer is a number.
LEMMA AheadTyped ==
  ASSUME NEW S, IsFiniteSet(S), NEW k
  PROVE  /\ IsFiniteSet({l \in S : l > k})
         /\ Ahead(k, S) \in Nat
<1>1. {l \in S : l > k} \subseteq S
  OBVIOUS
<1>2. QED
  BY <1>1, FS_Subset, FS_CardinalityType DEF Ahead

\* The older an entry and the longer the list, the more are ahead of it.
LEMMA AheadMonotone ==
  ASSUME NEW T, NEW S, S \subseteq T, IsFiniteSet(T), \A x \in T : x \in Nat,
         NEW k \in Int, NEW l \in Int, k <= l
  PROVE  Ahead(l, S) <= Ahead(k, T)
<1>1. {m \in S : m > l} \subseteq {m \in T : m > k}
  OBVIOUS
<1>2. QED
  BY <1>1, AheadTyped, FS_Subset DEF Ahead

\* Ahead of an older entry is one more at least.
LEMMA AheadStrict ==
  ASSUME NEW S, IsFiniteSet(S), \A x \in S : x \in Nat, NEW k \in S, NEW l \in S, k < l
  PROVE  Ahead(l, S) + 1 <= Ahead(k, S)
<1> DEFINE A == {m \in S : m > l}
<1>1. IsFiniteSet(A) /\ IsFiniteSet({m \in S : m > k})
  BY AheadTyped
<1>2. Cardinality(A \cup {l}) = Cardinality(A) + 1
  <2>1. l \notin A
    OBVIOUS
  <2> HIDE DEF A
  <2>2. QED
    BY <1>1, <2>1, FS_AddElement
<1>3. A \cup {l} \subseteq {m \in S : m > k}
  OBVIOUS
<1>4. Cardinality(A \cup {l}) <= Cardinality({m \in S : m > k})
  BY <1>1, <1>3, FS_Subset
<1>5. QED
  BY <1>1, <1>2, <1>4, FS_CardinalityType DEF Ahead

\* Ahead of the next older entry is one more.
LEMMA AheadNext ==
  ASSUME NEW S, IsFiniteSet(S), \A x \in S : x \in Nat, NEW k \in S, NEW l \in S, k < l
  PROVE  \E m \in S : m < l /\ Ahead(m, S) = Ahead(l, S) + 1
<1> DEFINE T == {m \in S : m < l}
<1>1. PICK m \in T : \A n \in T : m >= n
  <2>1. k \in T /\ T \subseteq Nat /\ \A n \in T : n <= l
    OBVIOUS
  <2>2. QED
    BY <2>1, GreatestNumber
<1> DEFINE A == {n \in S : n > l}
<1>2. {n \in S : n > m} = A \cup {l}
  BY <1>1
<1>3. IsFiniteSet(A) /\ Cardinality(A \cup {l}) = Cardinality(A) + 1
  <2>1. l \notin A /\ IsFiniteSet(A)
    BY AheadTyped
  <2> HIDE DEF A
  <2>2. QED
    BY <2>1, FS_AddElement
<1>4. QED
  BY <1>2, <1>3 DEF Ahead

\* Every smaller number of newer entries is that of some entry of the list.
LEMMA AheadTakesAll ==
  ASSUME NEW b \in Nat, NEW S, IsFiniteSet(S), \A x \in S : x \in Nat /\ x <= b,
         NEW k \in S, NEW n \in Nat, n <= Ahead(k, S)
  PROVE  \E l \in S : Ahead(l, S) = n
<1> DEFINE B == {l \in S : Ahead(l, S) >= n}
<1>1. \A l \in S : Ahead(l, S) \in Nat
  BY AheadTyped
<1>2. PICK g \in S : \A l \in S : g >= l
  <2>1. S \subseteq Nat /\ \A l \in S : l <= b
    OBVIOUS
  <2>2. QED
    BY <2>1, GreatestNumber
<1>3. PICK l \in B : \A m \in B : l >= m
  <2>1. B \subseteq Nat /\ k \in B /\ \A m \in B : m <= g
    BY <1>2
  <2>2. QED
    BY <2>1, GreatestNumber
<1>4. CASE l = g
  <2>1. {m \in S : m > l} = {}
    BY <1>2, <1>4
  <2>2. Ahead(l, S) = 0
    BY <2>1, FS_EmptySet DEF Ahead
  <2>3. QED
    BY <1>3, <2>2
<1>5. CASE l # g
  <2> DEFINE U == {m \in S : m > l}
  <2>1. PICK m \in U : \A x \in U : m <= x
    <3>1. g \in U /\ U \subseteq Nat
      BY <1>2, <1>3, <1>5
    <3>2. QED
      BY <3>1, LeastNumber
  <2>2. Ahead(m, S) < n
    BY <1>1, <1>3, <2>1
  <2>3. PICK x \in S : x < m /\ Ahead(x, S) = Ahead(m, S) + 1
    BY <1>3, <2>1, AheadNext
  <2>4. x <= l
    BY <1>3, <2>1, <2>3
  <2>5. Ahead(l, S) <= Ahead(x, S)
    BY <1>3, <2>4, AheadMonotone
  <2>6. QED
    BY <1>1, <1>3, <2>2, <2>3, <2>5
<1>6. QED
  BY <1>4, <1>5

\* What a cursor has not passed is on its page, or the page has entries and ends before
\* it.
LEMMA CursorPages ==
  ASSUME NEW b \in Nat, NEW S, IsFiniteSet(S), \A x \in S : x \in Nat /\ x <= b,
         NEW marker \in Int, NEW k \in S, k < marker
  PROVE  /\ CursorPage(S, marker) # {}
         /\ k \in CursorPage(S, marker) \/ \A l \in CursorPage(S, marker) : k < l
<1> DEFINE T == {l \in S : l < marker}
<1>1. PageSize \in Nat \ {0}
  BY SaveAssumption
<1>2. /\ IsFiniteSet(T) /\ k \in T
      /\ \A x \in T : x \in Nat /\ x <= b
  <2>1. T \subseteq S
    OBVIOUS
  <2>2. QED
    BY <2>1, FS_Subset
<1>3. CursorPage(S, marker) = {l \in T : Ahead(l, T) < PageSize}
  BY DEF CursorPage
<1> HIDE DEF T
<1>4. \A l \in T : Ahead(l, T) \in Nat
  BY <1>2, AheadTyped
<1>5. PICK g \in T : Ahead(g, T) = 0
  <2>1. 0 \in Nat /\ 0 <= Ahead(k, T)
    BY <1>2, <1>4
  <2>2. QED
    BY <1>2, <2>1, AheadTakesAll
<1>6. ASSUME k \notin CursorPage(S, marker), NEW l \in CursorPage(S, marker)
      PROVE  k < l
  <2>1. l \in T /\ Ahead(l, T) < PageSize /\ ~(Ahead(k, T) < PageSize)
    BY <1>2, <1>3, <1>6
  <2>2. ASSUME l <= k PROVE FALSE
    <3>1. Ahead(k, T) <= Ahead(l, T)
      BY <1>2, <2>1, <2>2, AheadMonotone
    <3>2. QED
      BY <1>1, <1>2, <1>4, <2>1, <3>1
  <2>3. QED
    BY <1>2, <2>1, <2>2
<1>7. QED
  BY <1>1, <1>3, <1>5, <1>6

\* What the pages so far do not reach is on the next page, or that page is full.
LEMMA NumberedPages ==
  ASSUME NEW b \in Nat, NEW S, IsFiniteSet(S), \A x \in S : x \in Nat /\ x <= b,
         NEW m \in Nat \ {0}, NEW k \in S, Ahead(k, S) >= (m - 1) * PageSize
  PROVE  /\ NumberedPage(S, m) # {}
         /\ k \in NumberedPage(S, m) \/ Ahead(k, S) >= m * PageSize
         /\ Ahead(k, S) >= m * PageSize => Cardinality(NumberedPage(S, m)) = PageSize
<1> DEFINE P == NumberedPage(S, m)
           low == (m - 1) * PageSize
<1>1. PageSize \in Nat \ {0} /\ low \in Nat /\ m * PageSize = low + PageSize
  BY SaveAssumption
<1>2. \A l \in S : Ahead(l, S) \in Nat
  BY AheadTyped
<1>3. \A l \in S : l \in P <=> low <= Ahead(l, S) /\ Ahead(l, S) < low + PageSize
  <2>1. \A l \in S : l \in P <=> Ahead(l, S) \div PageSize = m - 1
    BY DEF NumberedPage
  <2>2. ASSUME NEW l \in S
        PROVE  Ahead(l, S) \div PageSize = m - 1
                 <=> low <= Ahead(l, S) /\ Ahead(l, S) < low + PageSize
    <3>1. Ahead(l, S) \in Nat /\ m - 1 \in Nat
      BY <1>2
    <3>2. QED
      BY <1>1, <3>1, Quotient
  <2>3. QED
    BY <2>1, <2>2
<1>4. P \subseteq S
  BY DEF NumberedPage
<1> HIDE DEF P, low
<1>5. \A n \in Nat : n <= Ahead(k, S) => \E l \in S : Ahead(l, S) = n
  BY AheadTakesAll
<1>6. P # {}
  BY <1>1, <1>2, <1>3, <1>5 DEF low
<1>7. ASSUME Ahead(k, S) >= low + PageSize PROVE Cardinality(P) = PageSize
  <2> DEFINE f == [l \in P |-> Ahead(l, S) - low + 1]
  <2>1. \A l \in P : f[l] \in 1 .. PageSize
    BY <1>1, <1>2, <1>3, <1>4
  <2>2. \A l, n \in P : f[l] = f[n] => l = n
    <3>1. SUFFICES ASSUME NEW l \in P, NEW n \in P, f[l] = f[n], l < n PROVE FALSE
      BY <1>4
    <3>2. Ahead(n, S) + 1 <= Ahead(l, S)
      BY <1>4, <3>1, AheadStrict
    <3>3. QED
      BY <1>1, <1>2, <1>4, <3>1, <3>2
  <2>3. \A x \in 1 .. PageSize : \E l \in P : f[l] = x
    <3>1. SUFFICES ASSUME NEW x \in 1 .. PageSize PROVE \E l \in P : f[l] = x
      OBVIOUS
    <3>2. PICK l \in S : Ahead(l, S) = low + x - 1
      BY <1>1, <1>2, <1>5, <1>7
    <3>3. QED
      BY <1>1, <1>3, <3>2
  <2>4. f \in Bijection(P, 1 .. PageSize)
    <3>1. f \in [P -> 1 .. PageSize]
      BY <2>1
    <3>2. QED
      BY <2>2, <2>3, <3>1 DEF Bijection, Injection, Surjection, IsInjective
  <2>5. ExistsBijection(P, 1 .. PageSize) /\ IsFiniteSet(P)
    BY <1>4, <2>4, FS_Subset DEF ExistsBijection
  <2>6. QED
    BY <1>1, <2>5, FS_Bijection, FS_Interval
<1>8. QED
  BY <1>1, <1>2, <1>3, <1>6, <1>7 DEF P, low

-------------------------------------------------------------------------------
(***************************************************************************)
(* ProviderSave: the invariant.                                            *)
(***************************************************************************)

\* What a run is about to ask for.
CoursePhases == Listings \cup Writes \cup {"resolve", "status"}

\* A run: its request, its job, and what it has found so far.
Runs ==
  [at : CoursePhases, job : Jobs, folder : Int, target : Nat, marker : Int,
   markers : SUBSET Int, seen : SUBSET Nat, found : SUBSET [id : Nat, whole : BOOLEAN],
   attempt : Nat, polls : Nat, keep : SUBSET Nat, left : BOOLEAN]

\* Types by kinds of state: what never changes,
ConfigTyped ==
  /\ provider \in AllProviders /\ strange \in BOOLEAN
  /\ strange => provider = "pikpak"
  /\ job \in [Jobs -> Descriptions]

\* the drive, where only PikPak lets two entries of the root have one name,
DriveTyped ==
  /\ drive \in Seq(Entries) /\ Len(drive) <= MaxEntries
  /\ \A k \in EntryIds : drive[k].dir => drive[k].whole
  /\ provider # "pikpak" =>
       \A k, l \in EntryIds :
         drive[k].parent = Root /\ drive[l].parent = Root /\ drive[k].name = drive[l].name => k = l

\* the run,
RunTyped ==
  /\ run \in {NoRun} \cup Runs
  /\ run # NoRun => IsFiniteSet(run.found)

\* and what is kept of the jobs, and counted.
BookTyped ==
  /\ operation \in [Jobs -> Nat] /\ saved \in [Jobs -> Nat] /\ made \in [Jobs -> Nat]
  /\ answer \in [Jobs -> {"none", "done", "pending", "error", "uncertain"}]
  /\ shapeless \subseteq Jobs /\ others \in Nat /\ failures \in Nat

\* An entry is the target folder of a job, or was before it was removed.
TargetOf(k, j) ==
  /\ k \in EntryIds /\ drive[k].dir /\ drive[k].name = job[j].folder
  /\ drive[k].parent \in {Root, Gone}

\* An operation names a file of the job's content with Quark, the target folder with the
\* others.
OperationsSound ==
  \A j \in Jobs : operation[j] # None =>
    /\ provider # "aliyundrive"
    /\ IF provider = "quark"
       THEN operation[j] \in EntryIds /\ ~drive[operation[j]].dir
              /\ drive[operation[j]].content = job[j].content
       ELSE TargetOf(operation[j], j)

\* The requests of a run that may still save, and of one that has saved.
Submitting == {"lookup", "recheck", "source", "save"}
Querying == {"query", "root", "receiving", "move", "confirm"}

\* What a run knows by the request it is at; who has no operation has yet to save, and
\* who has one does not save.
CourseSound ==
  run # NoRun =>
    /\ run.at \in {"folder", "settle", "mkdir", "root"} => run.folder = Root
    /\ run.at \in {"lookup", "recheck", "save"} => run.folder = run.target
    /\ run.at = "settle" => provider = "pan123"
    /\ run.at = "status" => provider = "quark" /\ operation[run.job] # None
    /\ run.at \in {"root", "receiving", "move", "confirm"} => provider = "pikpak"
    /\ run.at \in Submitting => operation[run.job] = None /\ TargetOf(run.target, run.job)
    /\ run.at \in Querying =>
         /\ operation[run.job] # None /\ provider # "quark"
         /\ TargetOf(run.target, run.job)
         /\ provider = "baidu" \/ operation[run.job] = run.target
              \/ drive[operation[run.job]].parent = Gone
    /\ run.at \in {"query", "confirm"} =>
         run.folder = IF provider = "baidu" THEN run.target ELSE operation[run.job]

\* What a search has found was in its folder, and is what it was looking for.
FoundSound ==
  /\ run # NoRun /\ provider # "pikpak" => run.found = {}
  /\ run # NoRun /\ run.at \in Listings =>
       \A h \in run.found :
         /\ h.id \in EntryIds /\ drive[h.id].parent \in {run.folder, Gone}
         /\ Wanted(run.at, run.job, h.id)
         /\ h.whole => drive[h.id].whole
  /\ run # NoRun /\ run.at = "move" =>
       \E h \in run.found : run.found = {h} /\ h.id \in EntryIds /\ ~drive[h.id].dir

\* The pages to come reach an entry.
Reaches(k) ==
  IF Numbered THEN Ahead(k, Listed(run.folder)) >= (run.marker - 1) * PageSize
  ELSE k < run.marker

\* What was there all the time is found, or the pages to come reach it, unless something
\* left a folder with numbered pages. PikPak, querying an operation, finds its folder
\* again.
SearchSound ==
  run # NoRun /\ run.at \in Listings =>
    /\ Numbered => run.marker >= 1
    /\ run.at \in {"folder", "lookup", "recheck"} =>
         /\ \A k \in run.keep : k \in Listed(run.folder) /\ Wanted(run.at, run.job, k)
         /\ ~(Numbered /\ run.left) =>
              \A k \in run.keep : Reaches(k) \/ \E h \in run.found : h.id = k
    /\ run.at = "folder" /\ provider = "pikpak" /\ operation[run.job] # None
       /\ drive[operation[run.job]].parent = Root => operation[run.job] \in run.keep

\* A copy was made once, and whoever made it has the operation or is in doubt.
NotSentAgain ==
  provider # "aliyundrive" =>
    \A j \in Jobs : made[j] >= 1 =>
      \/ j \in shapeless
      \/ /\ made[j] = 1
         /\ \/ operation[j] # None
            \/ answer[j] = "uncertain" /\ ~(run # NoRun /\ run.job = j)

\* The copy of a drive that copies at once is found by its name.
CopyStays ==
  provider = "aliyundrive" /\ others = 0 =>
    \A j \in Jobs : made[j] >= 1 =>
      /\ made[j] = 1
      /\ \E k \in EntryIds : /\ Is(k, Root, job[j].folder) /\ drive[k].dir
                             /\ NameTaken(k, job[j].name)

\* The inductive invariant.
SaveIsSound ==
  /\ ConfigTyped /\ DriveTyped /\ RunTyped /\ BookTyped
  /\ OperationsSound /\ CourseSound /\ FoundSound /\ SearchSound
  /\ NotSentAgain /\ CopyStays

\* What a search has found is there, and what it was to find it did not miss.
SoundFind(found) ==
  /\ found \subseteq [id : Nat, whole : BOOLEAN] /\ IsFiniteSet(found)
  /\ \A h \in found :
       /\ h.id \in EntryIds /\ drive[h.id].parent \in {run.folder, Gone}
       /\ Wanted(run.at, run.job, h.id)
       /\ h.whole => drive[h.id].whole
  /\ provider # "pikpak" =>
       found = {} \/ \E h \in found : found = {h} /\ drive[h.id].parent = run.folder
  /\ found = {} /\ run.at \in {"folder", "lookup", "recheck"} =>
       run.keep = {} \/ (Numbered /\ run.left)
  /\ provider = "pikpak" /\ run.at = "folder" =>
       \A k \in run.keep : \E h \in found : h.id = k

\* How a run goes on when a search is over.
Outcome(found) ==
  \/ run.at = "folder" /\ found = {} /\ Go("mkdir", Root)
  \/ run.at \in {"folder", "settle"} /\ \E h \in found : found = {h} /\ drive[h.id].dir
       /\ WithTarget(h.id)
  \/ /\ run.at = "settle" /\ UNCHANGED book
     /\ run' = [Fresh("settle", Root) EXCEPT !.polls = run.polls + 1]
  \/ run.at = "lookup" /\ found = {} /\ provider = "pikpak" /\ Go("recheck", run.target)
  \/ run.at = "lookup" /\ found = {} /\ provider \in {"quark", "pan123"}
       /\ Go("source", Share)
  \/ run.at = "lookup" /\ found = {} /\ provider \in {"aliyundrive", "baidu"}
       /\ Go("save", run.target)
  \/ run.at = "source" /\ found # {} /\ Go("save", run.target)
  \/ run.at = "recheck" /\ found = {} /\ Go("save", run.target)
  \/ run.at = "query" /\ provider = "pikpak" /\ Go("root", Root)
  \/ run.at = "root" /\ \E h \in found : Go("receiving", h.id)
  \/ /\ run.at = "receiving" /\ UNCHANGED book
     /\ \E h \in found : found = {h} /\ h.whole
     /\ run' = [Fresh("move", run.folder) EXCEPT !.found = found]
  \/ /\ run.at = "lookup"
     /\ \E h \in found : /\ End("done", h.id)
                         /\ provider = "pikpak" => h.whole /\ Same(h.id, run.job)
  \/ run.at \in {"query", "confirm"} /\ \E h \in found : h.whole /\ End("done", h.id)
  \/ \E what \in {"error", "uncertain", "pending"} : End(what, None)

\* A search goes on to the next page, and leaves out no entry that its pages were to
\* reach.
PageTurned ==
  /\ UNCHANGED book
  /\ \E next \in Int, items \in SUBSET Listed(run.folder),
        found \in SUBSET [id : Nat, whole : BOOLEAN] :
       /\ run' = [run EXCEPT !.marker = next, !.markers = run.markers \cup {next},
                             !.seen = run.seen \cup items, !.attempt = 0, !.found = found]
       /\ run.found \subseteq found /\ IsFiniteSet(found)
       /\ provider # "pikpak" => found = {}
       /\ \A h \in found \ run.found :
            /\ h.id \in items /\ Wanted(run.at, run.job, h.id) /\ h.whole = drive[h.id].whole
       /\ \A k \in Listed(run.folder) : Reaches(k) =>
            \/ k \in items /\ (Wanted(run.at, run.job, k) => \E h \in found : h.id = k)
            \/ IF Numbered THEN next = run.marker + 1
                 /\ Ahead(k, Listed(run.folder)) >= run.marker * PageSize
               ELSE k < next
       /\ Numbered => next >= 1

-------------------------------------------------------------------------------
(***************************************************************************)
(* ProviderSave: searches and their pages.                                 *)
(***************************************************************************)

\* A folder lists finitely many entries of the drive.
LEMMA ListedSet ==
  ASSUME DriveTyped, NEW folder
  PROVE  /\ IsFiniteSet(Listed(folder)) /\ EntryIds = 1 .. Len(drive)
         /\ MaxEntries \in Nat
         /\ \A k \in Listed(folder) :
              /\ k \in Nat /\ k <= MaxEntries
              /\ k \in EntryIds /\ drive[k].parent = folder
<1>1. EntryIds = 1 .. Len(drive) /\ Len(drive) \in Nat /\ Len(drive) <= MaxEntries
  BY DEF DriveTyped, EntryIds
<1>2. MaxEntries \in Nat
  BY SaveAssumption
<1>3. Listed(folder) \subseteq 1 .. Len(drive)
  BY <1>1 DEF Listed, In
<1>4. IsFiniteSet(Listed(folder))
  <2>1. IsFiniteSet(1 .. Len(drive))
    BY <1>1, FS_Interval
  <2>2. QED
    BY <1>3, <2>1, FS_Subset
<1>5. ASSUME NEW k \in Listed(folder)
      PROVE  k \in Nat /\ k <= MaxEntries /\ k \in EntryIds /\ drive[k].parent = folder
  BY <1>1, <1>2, <1>3, <1>5 DEF Listed, In
<1>6. QED
  BY <1>1, <1>2, <1>4, <1>5

\* An entry a search has yet to reach is on its page, or the page is not the last.
LEMMA PageOrRest ==
  ASSUME ConfigTyped, DriveTyped, NEW folder, NEW marker \in Int, Numbered => marker >= 1,
         NEW k \in Listed(folder),
         IF Numbered THEN Ahead(k, Listed(folder)) >= (marker - 1) * PageSize ELSE k < marker,
         k \notin Page(folder, marker)
  PROVE  /\ Page(folder, marker) # {} /\ Page(folder, marker) \subseteq Listed(folder)
         /\ Rest(folder, marker) # {}
         /\ Numbered => Cardinality(Page(folder, marker)) = PageSize
              /\ Ahead(k, Listed(folder)) >= marker * PageSize
         /\ ~Numbered => \A l \in Page(folder, marker) : k < l
<1>1. IsFiniteSet(Listed(folder)) /\ MaxEntries \in Nat
        /\ \A x \in Listed(folder) : x \in Nat /\ x <= MaxEntries
  BY ListedSet
<1>2. CASE Numbered
  <2>1. marker \in Nat \ {0} /\ PageSize \in Nat \ {0}
    BY <1>2, SaveAssumption
  <2>2. /\ NumberedPage(Listed(folder), marker) # {}
        /\ k \in NumberedPage(Listed(folder), marker)
             \/ Ahead(k, Listed(folder)) >= marker * PageSize
        /\ Ahead(k, Listed(folder)) >= marker * PageSize =>
             Cardinality(NumberedPage(Listed(folder), marker)) = PageSize
    BY <1>1, <1>2, <2>1, NumberedPages
  <2>3. Page(folder, marker) = NumberedPage(Listed(folder), marker)
    BY <1>2 DEF Page
  <2>4. Ahead(k, Listed(folder)) \div PageSize >= marker
    <3>1. Ahead(k, Listed(folder)) \in Nat
      BY <1>1, AheadTyped
    <3>2. QED
      BY <2>1, <2>2, <2>3, <3>1, Quotient
  <2>5. k \in Rest(folder, marker)
    BY <1>2, <2>4 DEF Rest
  <2>6. QED
    BY <1>2, <2>2, <2>3, <2>5 DEF NumberedPage
<1>3. CASE ~Numbered
  <2>1. Page(folder, marker) = CursorPage(Listed(folder), marker)
    BY <1>3 DEF Page
  <2>2. /\ CursorPage(Listed(folder), marker) # {}
        /\ \A l \in CursorPage(Listed(folder), marker) : k < l
    BY <1>1, <1>3, <2>1, CursorPages
  <2>3. k \in Rest(folder, marker)
    BY <1>3, <2>1 DEF Rest
  <2>4. QED
    BY <1>3, <2>1, <2>2, <2>3 DEF CursorPage
<1>4. QED
  BY <1>2, <1>3

\* Where a search begins.
LEMMA MarkersTyped == FirstMarker \in Int /\ (Numbered => FirstMarker = 1)
                      /\ (~Numbered => FirstMarker = MaxEntries + 1)
BY SaveAssumption DEF FirstMarker

\* A run that goes on with another request.
LEMMA FreshRun ==
  ASSUME DriveTyped, run \in Runs, NEW at \in CoursePhases, NEW folder \in Int
  PROVE  LET next == Fresh(at, folder)
         IN  /\ next \in Runs /\ next.at = at /\ next.folder = folder
             /\ next.job = run.job /\ next.target = run.target /\ next.polls = run.polls
             /\ next.marker = FirstMarker /\ next.found = {} /\ ~next.left /\ next.attempt = 0
             /\ at \in Listings =>
                  next.keep = {k \in Listed(folder) : Wanted(at, run.job, k)}
<1> DEFINE keep == IF at \in Listings THEN {k \in Listed(folder) : Wanted(at, run.job, k)}
                   ELSE {}
<1>1. keep \in SUBSET Nat
  BY ListedSet
<1>2. Fresh(at, folder) =
        [run EXCEPT !.at = at, !.folder = folder, !.marker = FirstMarker, !.markers = {},
                    !.seen = {}, !.found = {}, !.attempt = 0, !.left = FALSE, !.keep = keep]
  BY DEF Fresh
<1>3. at \in Listings => keep = {k \in Listed(folder) : Wanted(at, run.job, k)}
  OBVIOUS
<1> HIDE DEF keep
<1>4. /\ Fresh(at, folder) \in Runs /\ Fresh(at, folder).keep = keep
      /\ Fresh(at, folder).at = at /\ Fresh(at, folder).folder = folder
  <2>1. FirstMarker \in Int
    BY MarkersTyped
  <2> HIDE DEF FirstMarker
  <2>2. \A next : next = Fresh(at, folder) =>
           next.keep = keep /\ next.at = at /\ next.folder = folder
    BY <1>2 DEF Runs
  <2>3. Fresh(at, folder) =
          [at |-> at, job |-> run.job, folder |-> folder, target |-> run.target,
           marker |-> FirstMarker, markers |-> {}, seen |-> {}, found |-> {}, attempt |-> 0,
           polls |-> run.polls, keep |-> keep, left |-> FALSE]
    BY <1>2 DEF Runs
  <2>4. Fresh(at, folder) \in Runs
    <3>1. run.job \in Jobs /\ run.target \in Nat /\ run.polls \in Nat
      BY DEF Runs
    <3>2. QED
      BY <1>1, <2>1, <2>3, <3>1 DEF Runs
  <2>5. QED
    BY <2>2, <2>4
<1>5. LET next == Fresh(at, folder)
      IN  /\ next.job = run.job /\ next.target = run.target /\ next.polls = run.polls
          /\ next.marker = FirstMarker /\ next.found = {} /\ ~next.left /\ next.attempt = 0
  BY <1>2 DEF Runs
<1>6. QED
  BY <1>3, <1>4, <1>5

\* The same with its target folder noted,
LEMMA FreshTarget ==
  ASSUME NEW r \in Runs, NEW x \in Nat
  PROVE  LET next == [r EXCEPT !.target = x]
         IN  /\ next \in Runs /\ next.at = r.at /\ next.folder = r.folder
             /\ next.job = r.job /\ next.target = x /\ next.polls = r.polls
             /\ next.marker = r.marker /\ next.found = r.found /\ next.left = r.left
             /\ next.keep = r.keep
BY DEF Runs

\* with other entries to look for,
LEMMA FreshKeep ==
  ASSUME NEW r \in Runs, NEW x \in SUBSET Nat
  PROVE  LET next == [r EXCEPT !.keep = x]
         IN  /\ next \in Runs /\ next.at = r.at /\ next.folder = r.folder
             /\ next.job = r.job /\ next.target = r.target /\ next.polls = r.polls
             /\ next.marker = r.marker /\ next.found = r.found /\ next.left = r.left
             /\ next.keep = x
BY DEF Runs

\* with another look counted,
LEMMA FreshPolls ==
  ASSUME NEW r \in Runs, NEW x \in Nat
  PROVE  LET next == [r EXCEPT !.polls = x]
         IN  /\ next \in Runs /\ next.at = r.at /\ next.folder = r.folder
             /\ next.job = r.job /\ next.target = r.target
             /\ next.marker = r.marker /\ next.found = r.found /\ next.left = r.left
             /\ next.keep = r.keep
BY DEF Runs

\* and with what was found kept.
LEMMA FreshFound ==
  ASSUME NEW r \in Runs, NEW x \in SUBSET [id : Nat, whole : BOOLEAN]
  PROVE  LET next == [r EXCEPT !.found = x]
         IN  /\ next \in Runs /\ next.at = r.at /\ next.folder = r.folder
             /\ next.job = r.job /\ next.target = r.target /\ next.polls = r.polls
             /\ next.marker = r.marker /\ next.found = x /\ next.left = r.left
             /\ next.keep = r.keep
BY DEF Runs

\* What is found alone is the one.
LEMMA TheOne ==
  ASSUME NEW found, NEW h, found = {h}
  PROVE  The(found) = h
BY DEF The

\* What was found is one thing, or several.
LEMMA OneOrMore ==
  ASSUME NEW found, IsFiniteSet(found), found # {}, ~(Cardinality(found) > 1)
  PROVE  \E h \in found : found = {h}
<1>1. Cardinality(found) \in Nat /\ Cardinality(found) # 0
  BY FS_CardinalityType, FS_EmptySet
<1>2. Cardinality(found) = 1
  BY <1>1
<1>3. QED
  BY <1>2, FS_Singleton

\* A search that has ended goes on or ends the run as `Outcome` says.
LEMMA SearchOutcomes ==
  ASSUME ConfigTyped, DriveTyped, RunTyped, run # NoRun, NEW found, SoundFind(found),
         Searched(found),
         run.at = "settle" => provider = "pan123",
         run.at \in {"root", "receiving", "confirm"} => provider = "pikpak",
         run.at \in Listings
  PROVE  Outcome(found)
<1>0. /\ IsFiniteSet(found)
      /\ found # {} /\ (provider # "pikpak" \/ ~(Cardinality(found) > 1)) =>
           \E h \in found : found = {h} /\ The(found) = h
  <2>1. IsFiniteSet(found)
    BY DEF SoundFind
  <2>2. ASSUME found # {}, provider # "pikpak" \/ ~(Cardinality(found) > 1)
        PROVE  \E h \in found : found = {h} /\ The(found) = h
    <3>1. \E h \in found : found = {h}
      BY <2>1, <2>2, OneOrMore DEF SoundFind
    <3>2. QED
      BY <3>1, TheOne
  <2>3. QED
    BY <2>1, <2>2
<1>1. CASE run.at = "folder"
  <2>1. FolderSearched(found)
    BY <1>1 DEF Searched
  <2>2. QED
    BY <1>0, <1>1, <2>1 DEF FolderSearched, Outcome
<1>2. CASE run.at = "settle"
  <2>1. FolderSettled(found)
    BY <1>2 DEF Searched
  <2>2. Fresh("settle", Root).polls = run.polls
    <3>1. run \in Runs /\ "settle" \in CoursePhases /\ Root \in Int
      BY DEF RunTyped, CoursePhases, Listings, Root
    <3>2. QED
      BY <3>1, FreshRun
  <2>3. QED
    BY <1>0, <1>2, <2>1, <2>2 DEF FolderSettled, Outcome
<1>3. CASE run.at = "lookup"
  <2>1. NameSearched(found)
    BY <1>3 DEF Searched
  <2>2. CASE found = {}
    BY <1>3, <2>1, <2>2 DEF NameSearched, Outcome, ConfigTyped, AllProviders
  <2>3. CASE found # {}
    BY <1>0, <1>3, <2>1, <2>3 DEF NameSearched, Outcome
  <2>4. QED
    BY <2>2, <2>3
<1>4. CASE run.at = "source"
  <2>1. SourceSearched(found)
    BY <1>4 DEF Searched
  <2>2. QED
    BY <1>4, <2>1 DEF SourceSearched, Outcome
<1>5. CASE run.at = "recheck"
  BY <1>5 DEF Searched, Outcome
<1>6. CASE run.at \in {"query", "confirm"}
  <2>1. CASE Verdict(found)
    BY <1>0, <1>6, <2>1 DEF Verdict, Outcome
  <2>2. CASE ~Verdict(found)
    <3>1. provider = "pikpak" /\ PikPakQueried(found)
      BY <1>6, <2>2 DEF Searched
    <3>2. run.at = "query" /\ Go("root", Root)
      BY <1>6, <2>2, <3>1 DEF PikPakQueried
    <3>3. QED
      BY <3>1, <3>2 DEF Outcome
  <2>3. QED
    BY <2>1, <2>2
<1>7. CASE run.at = "root"
  <2>1. PikPakQueried(found)
    BY <1>7 DEF Searched
  <2>2. QED
    BY <1>0, <1>7, <2>1 DEF PikPakQueried, Outcome
<1>8. CASE run.at = "receiving"
  <2>1. PikPakQueried(found)
    BY <1>8 DEF Searched
  <2>2. QED
    BY <1>0, <1>8, <2>1 DEF PikPakQueried, Outcome
<1>9. QED
  BY <1>1, <1>2, <1>3, <1>4, <1>5, <1>6, <1>7, <1>8 DEF Listings

\* A page that others follow, full if the pages are numbered, is not taken for the last.
LEMMA NotTheLast ==
  ASSUME ConfigTyped, NEW items, NEW rest, items # {}, rest # {},
         Numbered => Cardinality(items) = PageSize
  PROVE  More(items, rest) = {TRUE}
<1>1. CASE provider = "quark"
  BY <1>1 DEF More, QuarkMore, Numbered
<1>2. CASE provider = "baidu"
  BY <1>2 DEF More, BaiduMore, Numbered
<1>3. CASE provider = "pan123"
  BY <1>3 DEF More, Pan123More
<1>4. CASE provider = "aliyundrive"
  BY <1>4 DEF More, AliyunMore
<1>5. CASE provider = "pikpak"
  BY <1>5 DEF More, PikPakMore
<1>6. QED
  BY <1>1, <1>2, <1>3, <1>4, <1>5 DEF ConfigTyped, AllProviders

\* There may be another page or not; after an empty one there is none.
LEMMA MoreTyped ==
  ASSUME ConfigTyped, NEW items, NEW rest
  PROVE  More(items, rest) \subseteq BOOLEAN /\ (items = {} => More(items, rest) = {FALSE})
BY DEF More, QuarkMore, Pan123More, BaiduMore, AliyunMore, PikPakMore, ConfigTyped,
   AllProviders

\* The oldest of some entries is one of them, and none is older.
LEMMA OldestIs ==
  ASSUME NEW T, T \subseteq Nat, T # {}
  PROVE  Oldest(T) \in T /\ \A k \in T : Oldest(T) <= k
<1>1. \E k \in T : \A l \in T : k <= l
  BY LeastNumber
<1>2. QED
  BY <1>1 DEF Oldest

\* The newest of some entries is one of them.
LEMMA NewestIs ==
  ASSUME NEW T, T \subseteq Nat, T # {}, NEW n \in Nat, \A x \in T : x <= n
  PROVE  Newest(T) \in T
<1>1. \E k \in T : \A l \in T : k >= l
  BY GreatestNumber
<1>2. QED
  BY <1>1 DEF Newest

\* The hits of a page are finitely many.
LEMMA HitsFinite ==
  ASSUME NEW T, IsFiniteSet(T), \A k \in T : k \in Nat /\ k \in EntryIds, DriveTyped
  PROVE  /\ {Hit(k) : k \in T} \subseteq [id : Nat, whole : BOOLEAN]
         /\ IsFiniteSet({Hit(k) : k \in T})
<1>1. \A k \in T : Hit(k) \in [id : Nat, whole : BOOLEAN]
  <2>1. SUFFICES ASSUME NEW k \in T PROVE Hit(k) \in [id : Nat, whole : BOOLEAN]
    OBVIOUS
  <2>2. drive[k] \in Entries
    BY <2>1 DEF DriveTyped, EntryIds
  <2>3. drive[k].whole \in BOOLEAN
    BY <2>2 DEF Entries
  <2>4. QED
    BY <2>1, <2>3 DEF Hit
<1> HIDE DEF Hit
<1>2. IsFiniteSet({Hit(k) : k \in T})
  <2> DEFINE f == [k \in T |-> Hit(k)]
  <2>1. f \in Surjection(T, {Hit(k) : k \in T})
    BY DEF Surjection
  <2>2. QED
    BY <2>1, FS_Surjection
<1>3. QED
  BY <1>1, <1>2

\* A page is turned, or the run ends in error, or the search is over.
LEMMA ListPageDoes ==
  ASSUME SaveIsSound, ListPage
  PROVE  /\ UNCHANGED <<config, drive, made, shapeless, others, failures>>
         /\ run # NoRun /\ run.at \in Listings
         /\ \/ PageTurned \/ End("error", None)
            \/ \E found : SoundFind(found) /\ Outcome(found)
<1> DEFINE items == Page(run.folder, run.marker)
           hits == {k \in items : Wanted(run.at, run.job, k)}
           rest == Rest(run.folder, run.marker)
           hit == {Hit(k) : k \in hits}
<1>1. /\ ConfigTyped /\ DriveTyped /\ RunTyped /\ CourseSound /\ FoundSound /\ SearchSound
      /\ run.at \in Listings /\ There(run.folder)
      /\ UNCHANGED <<config, drive, made, shapeless, others, failures>>
  BY DEF SaveIsSound, ListPage
<1>2. run # NoRun /\ run \in Runs /\ IsFiniteSet(run.found)
  BY <1>1 DEF RunTyped, NoRun, Listings
<1>3. /\ run.folder \in Int /\ run.marker \in Int /\ run.job \in Jobs
      /\ run.found \subseteq [id : Nat, whole : BOOLEAN]
  BY <1>2 DEF Runs
<1>4. Numbered => run.marker >= 1
  BY <1>1, <1>2 DEF SearchSound
<1>5. /\ IsFiniteSet(Listed(run.folder)) /\ MaxEntries \in Nat
      /\ \A k \in Listed(run.folder) :
           k \in Nat /\ k <= MaxEntries /\ k \in EntryIds /\ drive[k].parent = run.folder
  BY <1>1, ListedSet
<1>6. items \subseteq Listed(run.folder)
  BY DEF Page, NumberedPage, CursorPage
<1>7. hits \subseteq items /\ \A k \in hits : Wanted(run.at, run.job, k)
  OBVIOUS
<1>8. /\ IsFiniteSet(items) /\ IsFiniteSet(hits)
      /\ \A k \in items : k \in Nat /\ k <= MaxEntries /\ k \in EntryIds
                          /\ drive[k].parent = run.folder
  BY <1>5, <1>6, <1>7, FS_Subset
<1>9. hit \subseteq [id : Nat, whole : BOOLEAN] /\ IsFiniteSet(hit)
  BY <1>1, <1>7, <1>8, HitsFinite
<1>10. \A k \in items : Wanted(run.at, run.job, k) => k \in hits
  OBVIOUS
<1>11. IF hits # {} /\ provider # "pikpak" THEN Searched({Hit(Newest(hits))})
       ELSE \E next \in NextMarkers(items) :
              IF Stalls(items, next) THEN End("error", None)
              ELSE IF next = NoMarker THEN Searched(run.found \cup hit)
              ELSE /\ run' = [run EXCEPT !.marker = next, !.markers = @ \cup {next},
                                         !.seen = @ \cup items, !.attempt = 0,
                                         !.found = @ \cup hit]
                   /\ UNCHANGED book
  BY DEF ListPage
<1>12. \A k \in Listed(run.folder) : Reaches(k) /\ k \notin items =>
         /\ items # {} /\ More(items, rest) = {TRUE}
         /\ Numbered => Ahead(k, Listed(run.folder)) >= run.marker * PageSize
         /\ ~Numbered => \A l \in items : k < l
  <2>1. SUFFICES ASSUME NEW k \in Listed(run.folder), Reaches(k), k \notin items
                 PROVE  /\ items # {} /\ More(items, rest) = {TRUE}
                        /\ Numbered => Ahead(k, Listed(run.folder)) >= run.marker * PageSize
                        /\ ~Numbered => \A l \in items : k < l
    OBVIOUS
  <2>2. IF Numbered THEN Ahead(k, Listed(run.folder)) >= (run.marker - 1) * PageSize
        ELSE k < run.marker
    BY <2>1 DEF Reaches
  <2>3. /\ items # {} /\ rest # {}
        /\ Numbered => Cardinality(items) = PageSize
             /\ Ahead(k, Listed(run.folder)) >= run.marker * PageSize
        /\ ~Numbered => \A l \in items : k < l
    BY <1>1, <1>3, <1>4, <2>1, <2>2, PageOrRest
  <2>4. More(items, rest) = {TRUE}
    BY <1>1, <2>3, NotTheLast
  <2>5. QED
    BY <2>3, <2>4
<1> HIDE DEF items, hits, rest, hit
<1>13. \A h \in run.found \cup hit :
         /\ h.id \in EntryIds /\ drive[h.id].parent \in {run.folder, Gone}
         /\ Wanted(run.at, run.job, h.id)
         /\ h.whole => drive[h.id].whole
  <2>1. \A h \in run.found :
         /\ h.id \in EntryIds /\ drive[h.id].parent \in {run.folder, Gone}
         /\ Wanted(run.at, run.job, h.id)
         /\ h.whole => drive[h.id].whole
    BY <1>1, <1>2 DEF FoundSound
  <2>2. \A h \in hit : \E k \in hits : h.id = k /\ h.whole = drive[k].whole
    <3>1. SUFFICES ASSUME NEW h \in hit
                   PROVE  \E k \in hits : h.id = k /\ h.whole = drive[k].whole
      OBVIOUS
    <3>2. PICK k \in hits : h = Hit(k)
      BY <3>1 DEF hit
    <3>3. QED
      BY <3>2 DEF Hit
  <2>3. QED
    BY <1>7, <1>8, <2>1, <2>2
<1>14. \A k \in hits : \E h \in hit : h.id = k
  <2>1. \A k \in hits : Hit(k) \in hit
    BY DEF hit
  <2>2. \A k : Hit(k).id = k
    BY DEF Hit
  <2>3. QED
    BY <2>1, <2>2
<1>15. CASE hits # {} /\ provider # "pikpak"
  <2> DEFINE found == {Hit(Newest(hits))}
  <2>1. Newest(hits) \in hits
    <3>1. hits \subseteq Nat /\ \A x \in hits : x <= MaxEntries
      BY <1>7, <1>8
    <3>2. QED
      BY <1>5, <1>15, <3>1, NewestIs
  <2>2. found \subseteq hit
    BY <2>1 DEF hit
  <2>3. IsFiniteSet(found) /\ \E h \in found : found = {h} /\ drive[h.id].parent = run.folder
    <3>1. IsFiniteSet(found)
      BY FS_Singleton
    <3>2. drive[Newest(hits)].parent = run.folder
      BY <1>7, <1>8, <2>1
    <3>3. QED
      BY <3>1, <3>2 DEF Hit
  <2>4. SoundFind(found)
    <3> HIDE DEF found
    <3>1. QED
      BY <1>9, <1>13, <1>15, <2>2, <2>3 DEF SoundFind
  <2>5. Searched(found)
    BY <1>11, <1>15
  <2>6. Outcome(found)
    <3> HIDE DEF found
    <3>1. QED
      BY <1>1, <1>2, <2>4, <2>5, SearchOutcomes DEF CourseSound
  <2>7. QED
    BY <1>1, <1>2, <2>4, <2>6
<1>16. CASE ~(hits # {} /\ provider # "pikpak")
  <2>1. PICK next \in NextMarkers(items) :
          IF Stalls(items, next) THEN End("error", None)
          ELSE IF next = NoMarker THEN Searched(run.found \cup hit)
          ELSE /\ run' = [run EXCEPT !.marker = next, !.markers = @ \cup {next},
                                     !.seen = @ \cup items, !.attempt = 0,
                                     !.found = @ \cup hit]
               /\ UNCHANGED book
    BY <1>11, <1>16
  <2>2. provider # "pikpak" => run.found \cup hit = {}
    <3>1. hits = {} => hit = {}
      BY DEF hit
    <3>2. QED
      BY <1>1, <1>2, <1>16, <3>1 DEF FoundSound
  <2>3. IsFiniteSet(run.found \cup hit)
        /\ run.found \cup hit \subseteq [id : Nat, whole : BOOLEAN]
    BY <1>2, <1>3, <1>9, FS_Union
  <2>4. ASSUME ~Stalls(items, next), next # NoMarker \/ FALSE \notin More(items, rest)
        PROVE  /\ TRUE \in More(items, rest)
               /\ Numbered => next = run.marker + 1
               /\ ~Numbered => next = Oldest(items)
    <3>1. TRUE \in More(items, rest)
      BY <2>1, <2>4 DEF NextMarkers, rest
    <3>2. items # {}
      BY <1>1, <3>1, MoreTyped
    <3>3. strange => provider = "pikpak"
      BY <1>1 DEF ConfigTyped
    <3>4. next \notin run.markers \cup {run.marker} \/ ~strange
      BY <2>4, <3>2, <3>3 DEF Stalls
    <3>5. \/ next = NoMarker /\ FALSE \in More(items, rest)
          \/ IF Numbered THEN next = run.marker + 1
             ELSE next \in {Oldest(items)} \cup IF strange THEN run.markers \cup {run.marker} ELSE {}
      BY <2>1 DEF NextMarkers, rest
    <3>6. QED
      BY <2>4, <3>1, <3>4, <3>5
  <2>5. CASE Stalls(items, next)
    BY <1>1, <1>2, <2>1, <2>5
  <2>6. CASE ~Stalls(items, next) /\ next = NoMarker
    <3>1. FALSE \in More(items, rest)
      <4>1. TRUE \in More(items, rest) => Oldest(items) # -1
        <5>1. SUFFICES ASSUME TRUE \in More(items, rest) PROVE Oldest(items) # -1
          OBVIOUS
        <5>2. items # {} /\ items \subseteq Nat
          BY <1>1, <1>8, <5>1, MoreTyped
        <5>3. Oldest(items) \in items
          BY <5>2, OldestIs
        <5>4. QED
          BY <1>8, <5>3
      <4>2. SUFFICES ASSUME FALSE \notin More(items, rest) PROVE FALSE
        OBVIOUS
      <4>3. /\ TRUE \in More(items, rest) /\ next = -1
            /\ Numbered => next = run.marker + 1
            /\ ~Numbered => next = Oldest(items)
        BY <2>4, <2>6, <4>2 DEF NoMarker
      <4>4. QED
        BY <1>3, <1>4, <4>1, <4>3
    <3>2. \A k \in Listed(run.folder) : Reaches(k) => k \in items
      BY <1>12, <3>1
    <3>3. ASSUME run.at \in {"folder", "lookup", "recheck"}, ~(Numbered /\ run.left),
                 NEW k \in run.keep
          PROVE  \E h \in run.found \cup hit : h.id = k
      <4>1. k \in Listed(run.folder) /\ Wanted(run.at, run.job, k)
            /\ (Reaches(k) \/ \E h \in run.found : h.id = k)
        BY <1>1, <1>2, <3>3 DEF SearchSound
      <4>2. QED
        BY <1>10, <1>14, <3>2, <4>1
    <3>4. SoundFind(run.found \cup hit)
      <4>1. provider = "pikpak" => ~Numbered
        BY DEF Numbered
      <4>2. QED
        BY <1>13, <2>2, <2>3, <3>3, <4>1 DEF SoundFind
    <3>5. Searched(run.found \cup hit)
      BY <2>1, <2>6
    <3>6. Outcome(run.found \cup hit)
      BY <1>1, <1>2, <3>4, <3>5, SearchOutcomes DEF CourseSound
    <3>7. QED
      BY <1>1, <1>2, <3>4, <3>6
  <2>7. CASE ~Stalls(items, next) /\ next # NoMarker
    <3>1. /\ run' = [run EXCEPT !.marker = next, !.markers = run.markers \cup {next},
                                !.seen = run.seen \cup items, !.attempt = 0,
                                !.found = run.found \cup hit]
          /\ UNCHANGED book
      BY <2>1, <2>7
    <3>2. /\ next \in Int /\ (Numbered => next >= 1 /\ next = run.marker + 1)
          /\ ~Numbered => next = Oldest(items) /\ next \in items
      <4>1. /\ TRUE \in More(items, rest)
            /\ Numbered => next = run.marker + 1
            /\ ~Numbered => next = Oldest(items)
        BY <2>4, <2>7
      <4>2. items # {} /\ items \subseteq Nat
        BY <1>1, <1>8, <4>1, MoreTyped
      <4>3. Oldest(items) \in items
        BY <4>2, OldestIs
      <4>4. Oldest(items) \in Int
        BY <1>8, <4>3
      <4>5. QED
        BY <1>3, <1>4, <4>1, <4>3, <4>4
    <3>3. \A h \in (run.found \cup hit) \ run.found :
            /\ h.id \in items /\ Wanted(run.at, run.job, h.id) /\ h.whole = drive[h.id].whole
      <4>1. \A h \in hit : \E k \in hits : h.id = k /\ h.whole = drive[k].whole
        BY DEF Hit, hit
      <4>2. QED
        BY <1>7, <4>1
    <3>4. ASSUME NEW k \in Listed(run.folder), Reaches(k)
          PROVE  \/ k \in items /\ (Wanted(run.at, run.job, k)
                      => \E h \in run.found \cup hit : h.id = k)
                 \/ IF Numbered THEN next = run.marker + 1
                      /\ Ahead(k, Listed(run.folder)) >= run.marker * PageSize
                    ELSE k < next
      BY <1>10, <1>12, <1>14, <3>2, <3>4
    <3>5. PageTurned
      BY <1>6, <2>2, <2>3, <3>1, <3>2, <3>3, <3>4 DEF PageTurned
    <3>6. QED
      BY <1>1, <1>2, <3>5
  <2>8. QED
    BY <2>5, <2>6, <2>7
<1>17. QED
  BY <1>15, <1>16

\* The drive only grows: what is in it stays as it is.
DriveGrows ==
  /\ drive' \in Seq(Entries) /\ Len(drive) <= Len(drive') /\ Len(drive') <= MaxEntries
  /\ \A k \in EntryIds : k \in DOMAIN drive' /\ drive'[k] = drive[k]
  /\ \A k \in DOMAIN drive' \ EntryIds :
       /\ drive'[k].dir => drive'[k].whole
       /\ provider # "pikpak" =>
            k = Len(drive) + 1 /\ (drive'[k].parent = Root
              => ~NameTaken(Root, drive'[k].name))

\* What becomes of an entry: it may be completed, removed, or moved while a run moves it.
DriveKept ==
  \A k \in EntryIds :
    /\ k \in DOMAIN drive'
    /\ drive'[k].name = drive[k].name /\ drive'[k].dir = drive[k].dir
    /\ drive'[k].content = drive[k].content
    /\ drive[k].whole => drive'[k].whole
    /\ drive[k].parent = Gone => drive'[k].parent = Gone
    /\ \/ drive'[k].parent \in {drive[k].parent, Gone}
       \/ run # NoRun /\ run.at = "move" /\ ~drive[k].dir

-------------------------------------------------------------------------------
(***************************************************************************)
(* ProviderSave: what a step does to the drive.                            *)
(***************************************************************************)

\* What an entry is made of.
LEMMA EntryTyped ==
  ASSUME DriveTyped, NEW k \in EntryIds
  PROVE  /\ drive[k] \in Entries /\ k \in Nat \ {0} /\ k <= MaxEntries /\ k <= Len(drive)
         /\ drive[k].parent \in Int /\ drive[k].name \in Texts /\ drive[k].dir \in BOOLEAN
         /\ drive[k].content \in Texts /\ drive[k].whole \in BOOLEAN
<1>1. drive[k] \in Entries /\ k \in Nat \ {0} /\ k <= MaxEntries /\ k <= Len(drive)
  BY SaveAssumption DEF DriveTyped, EntryIds
<1>2. QED
  BY <1>1 DEF Entries

\* A drive that grows stays a drive.
LEMMA GrownIsTyped ==
  ASSUME ConfigTyped, DriveTyped, DriveGrows, UNCHANGED config
  PROVE  DriveTyped' /\ DriveKept
<1>1. EntryIds = 1 .. Len(drive) /\ DOMAIN drive' = 1 .. Len(drive') /\ Len(drive) \in Nat
        /\ Len(drive') \in Nat
  BY DEF DriveGrows, DriveTyped, EntryIds
<1>2. drive' \in Seq(Entries) /\ Len(drive') <= MaxEntries
  BY DEF DriveGrows
<1>3. \A k \in DOMAIN drive' : drive'[k].dir => drive'[k].whole
  BY DEF DriveGrows, DriveTyped
<1>4. provider' = provider
  BY DEF config
<1>5. ASSUME provider # "pikpak", NEW k \in DOMAIN drive', NEW l \in DOMAIN drive',
             drive'[k].parent = Root, drive'[l].parent = Root, drive'[k].name = drive'[l].name
      PROVE  k = l
  <2>1. CASE k \in EntryIds /\ l \in EntryIds
    BY <1>5, <2>1 DEF DriveGrows, DriveTyped
  <2>2. CASE k \in EntryIds /\ l \notin EntryIds
    BY <1>5, <2>2 DEF DriveGrows, NameTaken, Is
  <2>3. CASE k \notin EntryIds /\ l \in EntryIds
    BY <1>5, <2>3 DEF DriveGrows, NameTaken, Is
  <2>4. CASE k \notin EntryIds /\ l \notin EntryIds
    BY <1>5, <2>4 DEF DriveGrows
  <2>5. QED
    BY <2>1, <2>2, <2>3, <2>4
<1>6. DriveTyped'
  BY <1>2, <1>3, <1>4, <1>5 DEF DriveTyped, EntryIds
<1>7. DriveKept
  BY DEF DriveGrows, DriveKept
<1>8. QED
  BY <1>6, <1>7

\* An entry of a name that is free in the root makes the drive grow.
LEMMA AppendGrows ==
  ASSUME ConfigTyped, DriveTyped, NEW e \in Entries, drive' = Append(drive, e), Space(1),
         e.dir => e.whole, provider # "pikpak" /\ e.parent = Root => ~NameTaken(Root, e.name)
  PROVE  /\ DriveGrows /\ Len(drive') = Len(drive) + 1 /\ drive'[Len(drive) + 1] = e
         /\ Len(drive) + 1 \in DOMAIN drive'
<1>1. drive \in Seq(Entries) /\ EntryIds = 1 .. Len(drive) /\ Len(drive) \in Nat
  BY DEF DriveTyped, EntryIds
<1>2. /\ drive' \in Seq(Entries) /\ Len(drive') = Len(drive) + 1
      /\ \A k \in 1 .. Len(drive) : drive'[k] = drive[k]
      /\ drive'[Len(drive) + 1] = e
  BY <1>1
<1>3. DOMAIN drive' = 1 .. Len(drive) + 1
  BY <1>1, <1>2
<1>4. Len(drive) + 1 <= MaxEntries
  BY DEF Space
<1>5. QED
  BY <1>1, <1>2, <1>3, <1>4 DEF DriveGrows

\* So does none.
LEMMA StaysGrows ==
  ASSUME DriveTyped, UNCHANGED drive
  PROVE  DriveGrows
BY DEF DriveGrows, DriveTyped, EntryIds

\* What a run is made of.
LEMMA RunOnJob ==
  ASSUME ConfigTyped, RunTyped, run # NoRun
  PROVE  /\ run \in Runs /\ run.job \in Jobs /\ run.target \in Nat /\ run.folder \in Int
         /\ run.marker \in Int /\ run.attempt \in Nat /\ run.polls \in Nat
              /\ run.at \in CoursePhases
         /\ run.found \subseteq [id : Nat, whole : BOOLEAN]
         /\ job[run.job] \in Descriptions /\ job[run.job].folder \in Texts
         /\ job[run.job].name \in Texts /\ job[run.job].content \in Texts
<1>1. run \in Runs
  BY DEF RunTyped
<1>2. run.job \in Jobs /\ run.target \in Nat
  BY <1>1 DEF Runs
<1>3. /\ run.folder \in Int /\ run.at \in CoursePhases
      /\ run.marker \in Int /\ run.attempt \in Nat /\ run.polls \in Nat
      /\ run.found \subseteq [id : Nat, whole : BOOLEAN]
  BY <1>1 DEF Runs
<1>4. job[run.job] \in Descriptions
  BY <1>2 DEF ConfigTyped
<1>5. QED
  BY <1>1, <1>2, <1>3, <1>4 DEF Descriptions

\* A folder is created in the root.
LEMMA FolderGrows ==
  ASSUME ConfigTyped, DriveTyped, RunTyped, run # NoRun, drive' = WithFolder, Space(1),
         ~NameTaken(Root, job[run.job].folder)
  PROVE  /\ DriveGrows /\ Len(drive) + 1 \in DOMAIN drive'
         /\ LET e == drive'[Len(drive) + 1]
            IN  e.parent = Root /\ e.name = job[run.job].folder /\ e.dir
<1> DEFINE e == Entry(Root, job[run.job].folder, TRUE, "", TRUE, None)
<1>1. /\ e \in Entries /\ e.parent = Root /\ e.name = job[run.job].folder
      /\ e.dir = TRUE /\ e.whole = TRUE
  <2>1. job[run.job].folder \in Texts
    BY RunOnJob
  <2>2. "" \in Texts /\ Root \in Int
    BY DEF Root, Texts
  <2>3. QED
    BY <2>1, <2>2 DEF Entry, Entries
<1>2. drive' = Append(drive, e)
  BY DEF WithFolder
<1> HIDE DEF e
<1>3. /\ DriveGrows /\ Len(drive') = Len(drive) + 1 /\ drive'[Len(drive) + 1] = e
      /\ Len(drive) + 1 \in DOMAIN drive'
  BY <1>1, <1>2, AppendGrows
<1>4. QED
  BY <1>1, <1>3

\* The copy of a job's file, among the entries.
CopyOf(e) ==
  /\ e \in Entries /\ ~e.dir /\ e.content = job[run.job].content
  /\ provider # "pikpak" => e.parent = run.target
  /\ provider = "aliyundrive" => e.whole /\ e.name = job[run.job].name

\* A copy, with PikPak perhaps behind the folder it is received in.
LEMMA CopyIs ==
  ASSUME ConfigTyped, DriveTyped, RunTyped, run # NoRun, CanCopy, drive' = WithCopy,
         TargetOf(run.target, run.job)
  PROVE  \/ \E e : CopyOf(e) /\ drive' = Append(drive, e)
         \/ /\ provider = "pikpak"
            /\ \E r \in Entries : \E e : CopyOf(e) /\ r.whole /\ drive' = drive \o <<r, e>>
<1>1. /\ run.job \in Jobs /\ run.target \in Int /\ "renamed" \in Texts
      /\ job[run.job].name \in Texts /\ job[run.job].content \in Texts
  <2>1. "renamed" \in Texts
    BY DEF Texts
  <2>2. /\ run.job \in Jobs /\ run.target \in Int
        /\ job[run.job].name \in Texts /\ job[run.job].content \in Texts
    BY RunOnJob
  <2>3. QED
    BY <2>1, <2>2
<1>2. CASE provider = "aliyundrive"
  <2>1. drive' = Append(drive, Copy(run.target, job[run.job].name, TRUE))
    BY <1>2 DEF WithCopy, PlainCopy
  <2>2. CopyOf(Copy(run.target, job[run.job].name, TRUE))
    BY <1>1, <1>2 DEF CopyOf, Copy, Entry, Entries
  <2>3. QED
    BY <2>1, <2>2
<1>3. CASE provider = "baidu"
  <2>1. drive' = Append(drive, Copy(run.target, job[run.job].name, FALSE))
    BY <1>3 DEF WithCopy, PlainCopy
  <2>2. CopyOf(Copy(run.target, job[run.job].name, FALSE))
    BY <1>1, <1>3 DEF CopyOf, Copy, Entry, Entries
  <2>3. QED
    BY <2>1, <2>2
<1>4. CASE provider = "pan123"
  <2>1. \E name \in {"renamed", job[run.job].name} :
          drive' = Append(drive, Copy(run.target, name, TRUE))
    BY <1>4 DEF WithCopy, Pan123Copy, PlainCopy
  <2>2. \A name \in {"renamed", job[run.job].name} : CopyOf(Copy(run.target, name, TRUE))
    BY <1>1, <1>4 DEF CopyOf, Copy, Entry, Entries
  <2>3. QED
    BY <2>1, <2>2
<1>5. CASE provider = "quark"
  <2>1. \E name \in {"renamed", job[run.job].name} :
          drive' = Append(drive, Copy(run.target, name, FALSE))
    BY <1>5 DEF WithCopy, Pan123Copy, PlainCopy
  <2>2. \A name \in {"renamed", job[run.job].name} : CopyOf(Copy(run.target, name, FALSE))
    BY <1>1, <1>5 DEF CopyOf, Copy, Entry, Entries
  <2>3. QED
    BY <2>1, <2>2
<1>6. CASE provider = "pikpak"
  <2>1. drive' = PikPakCopy
    BY <1>6 DEF WithCopy
  <2>2. \A folder \in Int : CopyOf(Copy(folder, job[run.job].name, FALSE))
    BY <1>1, <1>6 DEF CopyOf, Copy, Entry, Entries
  <2>3. CASE ReceivingFolders # {}
    <3>1. Newest(ReceivingFolders) \in Int
      <4>1. MaxEntries \in Nat /\ \A k \in ReceivingFolders : k \in Nat /\ k <= MaxEntries
        BY EntryTyped, SaveAssumption DEF ReceivingFolders
      <4>2. Newest(ReceivingFolders) \in ReceivingFolders
        BY <2>3, <4>1, NewestIs
      <4>3. QED
        BY <4>1, <4>2
    <3>2. QED
      BY <2>1, <2>2, <2>3, <3>1 DEF PikPakCopy
  <2>4. CASE ReceivingFolders = {}
    <3> DEFINE r == Entry(Root, Receiving, TRUE, "", TRUE, None)
    <3>1. r \in Entries /\ r.whole
      <4>1. "" \in Texts /\ Receiving \in Texts /\ Root \in Int
        BY DEF Texts, Root
      <4>2. QED
        BY <4>1 DEF Entry, Entries
    <3>2. drive' = drive \o <<r, Copy(Len(drive) + 1, job[run.job].name, FALSE)>>
      BY <2>1, <2>4 DEF PikPakCopy
    <3>3. CopyOf(Copy(Len(drive) + 1, job[run.job].name, FALSE))
      <4>1. Len(drive) + 1 \in Int
        BY DEF DriveTyped
      <4>2. QED
        BY <2>2, <4>1
    <3> HIDE DEF r
    <3>4. QED
      BY <1>6, <3>1, <3>2, <3>3
  <2>5. QED
    BY <2>3, <2>4
<1>7. QED
  BY <1>2, <1>3, <1>4, <1>5, <1>6 DEF ConfigTyped, AllProviders

\* A copy makes the drive grow, and is its last entry.
LEMMA CopyGrows ==
  ASSUME ConfigTyped, DriveTyped, RunTyped, run # NoRun, CanCopy, drive' = WithCopy,
         TargetOf(run.target, run.job)
  PROVE  /\ DriveGrows
         /\ Len(WithCopy) \in DOMAIN drive' /\ Len(WithCopy) \in Nat \ {0}
         /\ CopyOf(drive'[Len(WithCopy)])
<1>1. run.target # Root
  BY EntryTyped DEF TargetOf, Root
<1>2. Space(1) /\ Len(drive) + 2 <= MaxEntries /\ Len(drive) \in Nat /\ MaxEntries \in Nat
  BY SaveAssumption DEF CanCopy, Space, DriveTyped
<1>3. ASSUME NEW e, CopyOf(e), drive' = Append(drive, e)
      PROVE  DriveGrows /\ Len(drive') \in DOMAIN drive' /\ Len(drive') \in Nat \ {0}
             /\ CopyOf(drive'[Len(drive')])
  <2>1. e \in Entries /\ ~e.dir /\ (provider # "pikpak" => e.parent = run.target)
    BY <1>3 DEF CopyOf
  <2>2. /\ DriveGrows /\ Len(drive') = Len(drive) + 1 /\ drive'[Len(drive) + 1] = e
        /\ Len(drive) + 1 \in DOMAIN drive'
    BY <1>1, <1>2, <1>3, <2>1, AppendGrows
  <2>3. QED
    BY <1>2, <1>3, <2>2
<1>4. ASSUME provider = "pikpak", NEW r \in Entries, NEW e, CopyOf(e), r.whole,
             drive' = drive \o <<r, e>>
      PROVE  DriveGrows /\ Len(drive') \in DOMAIN drive' /\ Len(drive') \in Nat \ {0}
             /\ CopyOf(drive'[Len(drive')])
  <2>1. e \in Entries /\ ~e.dir
    BY <1>4 DEF CopyOf
  <2>2. /\ drive' \in Seq(Entries) /\ Len(drive') = Len(drive) + 2
        /\ \A k \in 1 .. Len(drive) : drive'[k] = drive[k]
        /\ drive'[Len(drive) + 1] = r /\ drive'[Len(drive) + 2] = e
    BY <1>4, <2>1 DEF DriveTyped
  <2>3. EntryIds = 1 .. Len(drive) /\ DOMAIN drive' = 1 .. Len(drive) + 2
    BY <2>2 DEF DriveTyped, EntryIds
  <2>4. DriveGrows
    BY <1>2, <1>4, <2>1, <2>2, <2>3 DEF DriveGrows
  <2>5. QED
    BY <1>2, <1>4, <2>2, <2>3, <2>4
<1>5. QED
  BY <1>3, <1>4, CopyIs

\* A move changes the folder of one file.
LEMMA MovedDrive ==
  ASSUME SaveIsSound, run # NoRun, run.at = "move", drive' = WithMove, UNCHANGED config,
         drive[Candidate].parent # Gone
  PROVE  DriveTyped' /\ DriveKept
<1>1. /\ ConfigTyped /\ DriveTyped /\ RunTyped /\ CourseSound /\ FoundSound
  BY DEF SaveIsSound
<1>2. provider = "pikpak" /\ provider' = provider /\ run.target \in Int
  BY <1>1, RunOnJob DEF CourseSound, config
<1>3. Candidate \in EntryIds /\ ~drive[Candidate].dir
  <2>1. PICK h \in run.found : run.found = {h} /\ h.id \in EntryIds /\ ~drive[h.id].dir
    BY <1>1 DEF FoundSound
  <2>2. The(run.found) = h
    BY <2>1, TheOne
  <2>3. QED
    BY <2>1, <2>2 DEF Candidate
<1>4. drive' = [drive EXCEPT ![Candidate].parent = run.target]
  BY DEF WithMove
<1> HIDE DEF Candidate
<1>5. EntryIds = 1 .. Len(drive) /\ drive \in Seq(Entries)
  BY <1>1 DEF DriveTyped, EntryIds
<1>6. drive[Candidate] \in Entries
  BY <1>1, <1>3, EntryTyped
<1>7. [drive[Candidate] EXCEPT !.parent = run.target] \in Entries
  BY <1>2, <1>6 DEF Entries
<1>8. drive' = [drive EXCEPT ![Candidate] = [drive[Candidate] EXCEPT !.parent = run.target]]
  BY <1>4
<1>9. drive' \in Seq(Entries) /\ Len(drive') = Len(drive) /\ DOMAIN drive' = DOMAIN drive
  BY <1>3, <1>5, <1>7, <1>8
<1>10. \A k \in EntryIds : k # Candidate => drive'[k] = drive[k]
  BY <1>5, <1>8
<1>11. LET e == drive'[Candidate]
       IN  /\ e.name = drive[Candidate].name /\ e.dir = drive[Candidate].dir
           /\ e.content = drive[Candidate].content /\ e.whole = drive[Candidate].whole
  <2>1. drive'[Candidate] = [drive[Candidate] EXCEPT !.parent = run.target]
    BY <1>3, <1>5, <1>8
  <2>2. QED
    BY <1>6, <2>1 DEF Entries
<1>12. DriveTyped'
  BY <1>1, <1>2, <1>3, <1>5, <1>9, <1>10, <1>11 DEF DriveTyped, EntryIds
<1>13. DriveKept
  <2>1. \A k \in EntryIds : k \in DOMAIN drive'
    BY <1>9 DEF EntryIds
  <2>2. drive[Candidate].parent # Gone
    BY DEF Candidate
  <2>3. QED
    BY <1>3, <1>10, <1>11, <2>1, <2>2 DEF DriveKept
<1>14. QED
  BY <1>12, <1>13

\* Completing a copy makes it whole.
LEMMA CompletedDrive ==
  ASSUME SaveIsSound, NEW k, CopyCompletes(k)
  PROVE  /\ DriveTyped' /\ DriveKept
         /\ \A l \in EntryIds : drive'[l].parent = drive[l].parent
<1> DEFINE done == [drive[k] EXCEPT !.whole = TRUE]
<1>1. DriveTyped /\ k \in EntryIds /\ provider' = provider
      /\ drive' = [drive EXCEPT ![k] = done]
  BY DEF SaveIsSound, CopyCompletes, config
<1>2. drive[k] \in Entries
  BY <1>1, EntryTyped
<1>3. done \in Entries
  BY <1>2 DEF Entries
<1> HIDE DEF done
<1>4. EntryIds = 1 .. Len(drive) /\ drive \in Seq(Entries)
  BY <1>1 DEF DriveTyped, EntryIds
<1>5. drive' \in Seq(Entries) /\ Len(drive') = Len(drive) /\ DOMAIN drive' = DOMAIN drive
  BY <1>1, <1>3, <1>4
<1>6. \A l \in EntryIds : l # k => drive'[l] = drive[l]
  BY <1>1, <1>4
<1>7. LET e == drive'[k]
      IN  /\ e.name = drive[k].name /\ e.dir = drive[k].dir /\ e.parent = drive[k].parent
          /\ e.content = drive[k].content /\ e.whole
  <2>1. drive'[k] = done
    BY <1>1, <1>4
  <2>2. QED
    BY <1>2, <2>1 DEF Entries, done
<1>8. DriveTyped'
  BY <1>1, <1>4, <1>5, <1>6, <1>7 DEF DriveTyped, EntryIds
<1>9. DriveKept
  BY <1>4, <1>5, <1>6, <1>7 DEF DriveKept, EntryIds
<1>10. QED
  BY <1>6, <1>7, <1>8, <1>9

\* A removal takes an entry and what is in it out of their folders.
LEMMA RemovedDrive ==
  ASSUME SaveIsSound, NEW k, OtherRemoves(k)
  PROVE  /\ DriveTyped' /\ DriveKept /\ k \in EntryIds
         /\ \A l \in EntryIds : /\ l \notin {k} \cup In(k) => drive'[l] = drive[l]
                                /\ l \in {k} \cup In(k) => drive'[l].parent = Gone
<1> DEFINE lost == {k} \cup In(k)
<1>1. DriveTyped /\ k \in EntryIds /\ provider' = provider
      /\ drive' = [l \in EntryIds |-> IF l \in lost THEN [drive[l] EXCEPT !.parent = Gone]
                                      ELSE drive[l]]
  BY DEF SaveIsSound, OtherRemoves, config
<1> HIDE DEF lost
<1>2. EntryIds = 1 .. Len(drive) /\ drive \in Seq(Entries) /\ Len(drive) \in Nat
  BY <1>1 DEF DriveTyped, EntryIds
<1>3. \A l \in EntryIds : drive[l] \in Entries
  BY <1>1, EntryTyped
<1>4. \A l \in EntryIds : [drive[l] EXCEPT !.parent = Gone] \in Entries
  BY <1>3 DEF Entries, Gone
<1>5. drive' \in Seq(Entries) /\ Len(drive') = Len(drive) /\ DOMAIN drive' = DOMAIN drive
  <2>1. drive' \in [1 .. Len(drive) -> Entries]
    BY <1>1, <1>2, <1>3, <1>4
  <2>2. QED
    BY <1>2, <2>1
<1>6. \A l \in EntryIds : /\ l \notin lost => drive'[l] = drive[l]
                          /\ l \in lost => drive'[l] = [drive[l] EXCEPT !.parent = Gone]
  BY <1>1
<1>7. \A l \in EntryIds : LET e == drive'[l]
      IN  /\ e.name = drive[l].name /\ e.dir = drive[l].dir
          /\ e.content = drive[l].content /\ e.whole = drive[l].whole
          /\ l \in lost => e.parent = Gone
  BY <1>3, <1>6 DEF Entries
<1>8. DriveTyped'
  BY <1>1, <1>2, <1>5, <1>6, <1>7 DEF DriveTyped, EntryIds, Root, Gone
<1>9. DriveKept
  BY <1>2, <1>5, <1>6, <1>7 DEF DriveKept, EntryIds
<1>10. QED
  BY <1>1, <1>6, <1>7, <1>8, <1>9 DEF lost

\* What others add makes the drive grow.
LEMMA AddedGrows ==
  ASSUME SaveIsSound, OtherAdds
  PROVE  DriveGrows
<1>1. ConfigTyped /\ DriveTyped
  BY DEF SaveIsSound
<1>2. PICK e \in OtherEntries :
        \E folder \in IF e.parent = Root THEN {Root}
                      ELSE {k \in EntryIds : drive[k].dir /\ There(k)} :
          /\ ~NameTaken(folder, e.name) \/ provider = "pikpak"
          /\ drive' = Append(drive, [e EXCEPT !.parent = folder])
  BY DEF OtherAdds
<1>3. PICK folder \in IF e.parent = Root THEN {Root}
                      ELSE {k \in EntryIds : drive[k].dir /\ There(k)} :
          /\ ~NameTaken(folder, e.name) \/ provider = "pikpak"
          /\ drive' = Append(drive, [e EXCEPT !.parent = folder])
  BY <1>2
<1>4. folder \in Int
  BY <1>1, EntryTyped DEF Root
<1>5. e \in Entries /\ (e.dir => e.whole)
  BY SaveAssumption
<1>6. [e EXCEPT !.parent = folder] \in Entries
  BY <1>4, <1>5 DEF Entries
<1>7. LET a == [e EXCEPT !.parent = folder]
      IN  a.parent = folder /\ a.name = e.name /\ a.dir = e.dir /\ a.whole = e.whole
  BY <1>5 DEF Entries
<1> DEFINE a == [e EXCEPT !.parent = folder]
<1>8. a \in Entries /\ (a.dir => a.whole) /\ a.parent = folder /\ a.name = e.name
  BY <1>5, <1>6, <1>7
<1>9. drive' = Append(drive, a)
  BY <1>3
<1> HIDE DEF a
<1>10. Space(1)
  BY DEF OtherAdds
<1>11. QED
  BY <1>1, <1>3, <1>8, <1>9, <1>10, AppendGrows

\* MakeFolder: a folder of the name is there, or is looked for, or the run ends.
LEMMA FolderMade ==
  ASSUME SaveIsSound, MakeFolder
  PROVE  /\ run # NoRun /\ run.at = "mkdir" /\ DriveGrows
         /\ UNCHANGED <<config, made, shapeless, others, failures>>
         /\ \/ Go("settle", Root)
            \/ run' = [Fresh("settle", Root) EXCEPT !.keep = {Len(drive) + 1}]
                 /\ UNCHANGED book
            \/ End("error", None)
            \/ /\ WithTarget(Len(drive) + 1) /\ Len(drive) + 1 \in DOMAIN drive'
               /\ ~NameTaken(Root, job[run.job].folder)
               /\ LET e == drive'[Len(drive) + 1]
                  IN  e.parent = Root /\ e.name = job[run.job].folder /\ e.dir
         /\ provider # "pan123" => run'.at # "settle"
<1>1. ConfigTyped /\ DriveTyped /\ RunTyped /\ run # NoRun /\ run.at = "mkdir"
      /\ UNCHANGED <<config, made, shapeless, others, failures>>
  BY DEF SaveIsSound, MakeFolder, NoRun
<1>2. CASE NameTaken(Root, job[run.job].folder) /\ UNCHANGED drive
  <2>1. DriveGrows
    BY <1>1, <1>2, StaysGrows
  <2>2. \/ provider = "pan123" /\ Go("settle", Root)
        \/ End("error", None)
    BY <1>2 DEF MakeFolder, Pan123MakesFolder, OtherMakesFolder
  <2>3. provider # "pan123" => run' = NoRun
    BY <2>2 DEF End
  <2>4. QED
    BY <1>1, <2>1, <2>2, <2>3 DEF NoRun
<1>3. CASE ~(NameTaken(Root, job[run.job].folder) /\ UNCHANGED drive)
  <2>1. /\ Space(1) /\ drive' = WithFolder /\ ~NameTaken(Root, job[run.job].folder)
        /\ \/ /\ provider = "pan123" /\ UNCHANGED book
              /\ run' = [Fresh("settle", Root) EXCEPT !.keep = {Len(drive) + 1}]
           \/ provider # "pan123" /\ WithTarget(Len(drive) + 1)
    BY <1>3 DEF MakeFolder, Pan123MakesFolder, OtherMakesFolder
  <2>2. /\ DriveGrows /\ Len(drive) + 1 \in DOMAIN drive'
        /\ LET e == drive'[Len(drive) + 1]
           IN  e.parent = Root /\ e.name = job[run.job].folder /\ e.dir
    BY <1>1, <2>1, FolderGrows
  <2>3. provider # "pan123" => run'.at # "settle"
    <3>1. SUFFICES ASSUME provider # "pan123" PROVE run'.at # "settle"
      OBVIOUS
    <3>2. WithTarget(Len(drive) + 1)
      BY <2>1, <3>1
    <3>3. PICK at \in {"lookup", "status", "query"} :
           \E folder, x : run' = [Fresh(at, folder) EXCEPT !.target = x]
      BY <3>2 DEF WithTarget
    <3>4. QED
      BY <3>3 DEF Fresh
  <2>4. QED
    BY <1>1, <2>1, <2>2, <2>3
<1>4. QED
  BY <1>2, <1>3

\* What was done although its answer is lost.
LEMMA LostWrites ==
  ASSUME SaveIsSound, AnswerLost
  PROVE  /\ run # NoRun /\ run.at \in Writes /\ Unanswered
         /\ UNCHANGED <<config, shapeless, others>> /\ failures' = failures + 1
         /\ \/ run.at = "mkdir" /\ DriveGrows /\ UNCHANGED made
            \/ /\ run.at = "save" /\ There(run.target) /\ CanCopy /\ DriveGrows
               /\ drive' = WithCopy /\ made' = [made EXCEPT ![run.job] = made[run.job] + 1]
            \/ /\ run.at = "move" /\ drive' = WithMove /\ drive[Candidate].parent # Gone
               /\ UNCHANGED made
<1>1. /\ Unanswered /\ UNCHANGED <<config, shapeless, others>> /\ failures' = failures + 1
      /\ \/ /\ run.at = "mkdir" /\ ~NameTaken(Root, job[run.job].folder) /\ Space(1)
            /\ drive' = WithFolder /\ UNCHANGED made
         \/ /\ run.at = "save" /\ There(run.target) /\ CanCopy
            /\ drive' = WithCopy /\ made' = [made EXCEPT ![run.job] = made[run.job] + 1]
         \/ /\ run.at = "move" /\ There(run.target) /\ drive[Candidate].parent # Gone
            /\ drive' = WithMove /\ UNCHANGED made
  BY DEF AnswerLost, Failure
<1>2. ConfigTyped /\ DriveTyped /\ RunTyped /\ CourseSound
  BY DEF SaveIsSound
<1>3. run # NoRun /\ run.at \in Writes
  BY <1>1 DEF NoRun, Writes
<1>4. CASE run.at = "mkdir"
  BY <1>1, <1>2, <1>3, <1>4, FolderGrows
<1>5. CASE run.at = "save"
  <2>1. TargetOf(run.target, run.job)
    BY <1>2, <1>3, <1>5 DEF CourseSound, Submitting
  <2>2. QED
    BY <1>1, <1>2, <1>3, <1>5, <2>1, CopyGrows
<1>6. CASE run.at = "move"
  BY <1>1, <1>3, <1>6
<1>7. QED
  BY <1>1, <1>4, <1>5, <1>6

\* A save that was accepted has made the copy.
LEMMA SavedCopy ==
  ASSUME SaveIsSound, run # NoRun, run.at = "save", CanCopy, drive' = WithCopy
  PROVE  /\ DriveGrows
         /\ Len(WithCopy) \in DOMAIN drive' /\ Len(WithCopy) \in Nat \ {0}
         /\ CopyOf(drive'[Len(WithCopy)])
<1>1. ConfigTyped /\ DriveTyped /\ RunTyped /\ CourseSound
  BY DEF SaveIsSound
<1>2. TargetOf(run.target, run.job)
  BY <1>1 DEF CourseSound, Submitting
<1>3. QED
  BY <1>1, <1>2, CopyGrows

\* A drive that grows keeps its entries where they are.
LEMMA GrownDrive ==
  ASSUME SaveIsSound, DriveGrows, UNCHANGED config
  PROVE  /\ DriveTyped' /\ DriveKept
         /\ \A k \in EntryIds : drive'[k].parent = drive[k].parent
<1>1. ConfigTyped /\ DriveTyped
  BY DEF SaveIsSound
<1>2. DriveTyped' /\ DriveKept
  BY <1>1, GrownIsTyped
<1>3. \A k \in EntryIds : drive'[k].parent = drive[k].parent
  BY DEF DriveGrows
<1>4. QED
  BY <1>2, <1>3

\* What a step does to the drive.
LEMMA DriveSteps ==
  ASSUME SaveIsSound, SaveNext
  PROVE  /\ UNCHANGED config /\ DriveTyped' /\ DriveKept
         /\ \/ \A k \in EntryIds : drive'[k].parent = drive[k].parent
            \/ \E k : OtherRemoves(k)
            \/ run # NoRun /\ run.at = "move" /\ (Move \/ AnswerLost)
<1> DEFINE Goal == /\ UNCHANGED config /\ DriveTyped' /\ DriveKept
                   /\ \/ \A k \in EntryIds : drive'[k].parent = drive[k].parent
                      \/ \E k : OtherRemoves(k)
                      \/ run # NoRun /\ run.at = "move" /\ (Move \/ AnswerLost)
<1>1. UNCHANGED config
  BY DEF SaveNext, Step, Start, Resolve, ListPage, FolderMissing, MakeFolder, Save,
     SaveRefused,
         QueryTask, Move, SaveShapeless, AnswerLost, RequestTimesOut, RequestRefused,
         CopyCompletes, OtherRemoves, OtherAdds
<1>2. ASSUME DriveGrows PROVE Goal
  BY <1>1, <1>2, GrownDrive
<1>3. ASSUME UNCHANGED drive PROVE Goal
  BY <1>2, <1>3, StaysGrows DEF SaveIsSound
<1>4. ASSUME NEW j \in Jobs, Start(j) PROVE Goal
  BY <1>3, <1>4 DEF Start
<1>5. CASE Resolve \/ ListPage \/ FolderMissing \/ SaveRefused \/ QueryTask \/ RequestTimesOut
           \/ RequestRefused
  BY <1>3, <1>5 DEF Resolve, ListPage, FolderMissing, SaveRefused, QueryTask,
     RequestTimesOut,
                    RequestRefused
<1>6. CASE MakeFolder
  BY <1>2, <1>6, FolderMade
<1>7. CASE Save \/ SaveShapeless
  <2>1. run # NoRun /\ run.at = "save" /\ CanCopy /\ drive' = WithCopy
    BY <1>7 DEF Save, SaveShapeless, NoRun
  <2>2. QED
    BY <1>2, <2>1, SavedCopy
<1>8. CASE Move
  <2>1. run # NoRun /\ run.at = "move"
    BY <1>8 DEF Move, NoRun
  <2>2. CASE UNCHANGED drive
    BY <1>3, <2>2
  <2>3. CASE ~UNCHANGED drive
    <3>1. drive' = WithMove /\ drive[Candidate].parent # Gone
      BY <1>8, <2>3 DEF Move
    <3>2. QED
      BY <1>1, <1>8, <2>1, <3>1, MovedDrive
  <2>4. QED
    BY <2>2, <2>3
<1>9. CASE AnswerLost
  <2>1. DriveGrows \/ (run.at = "move" /\ drive' = WithMove /\ drive[Candidate].parent # Gone)
    BY <1>9, LostWrites
  <2>2. run # NoRun
    BY <1>9, LostWrites
  <2>3. QED
    BY <1>1, <1>2, <1>9, <2>1, <2>2, MovedDrive
<1>10. ASSUME NEW k \in 1 .. MaxEntries, CopyCompletes(k) PROVE Goal
  BY <1>1, <1>10, CompletedDrive
<1>11. ASSUME NEW k \in 1 .. MaxEntries, OtherRemoves(k) PROVE Goal
  BY <1>1, <1>11, RemovedDrive
<1>12. CASE OtherAdds
  BY <1>2, <1>12, AddedGrows
<1>13. QED
  BY <1>4, <1>5, <1>6, <1>7, <1>8, <1>9, <1>10, <1>11, <1>12 DEF SaveNext, Step

-------------------------------------------------------------------------------
(***************************************************************************)
(* ProviderSave: what a step does to the run.                              *)
(***************************************************************************)

\* A request is prepared, or a search from its first page.
Begins(at, folder, target) ==
  /\ run' \in Runs /\ IsFiniteSet(run'.found)
  /\ run'.at = at /\ run'.folder = folder /\ run'.target = target /\ run'.job = run.job
  /\ run'.marker = FirstMarker /\ ~run'.left
  /\ at # "move" => run'.found = {}
  /\ at \in {"folder", "lookup", "recheck"} =>
       \A k \in run'.keep : k \in Listed(folder) /\ Wanted(at, run.job, k)
  /\ at = "folder" => \A k \in Listed(folder) : Wanted(at, run.job, k) => k \in run'.keep

\* The target folder is known: what a run asks for then.
Targeted(folder) ==
  Begins(IF operation[run.job] = None THEN "lookup"
         ELSE IF provider = "quark" THEN "status" ELSE "query",
         IF operation[run.job] = None \/ provider = "baidu" THEN folder
         ELSE operation[run.job], folder)

\* How a run goes on to another request, its operation being what it was.
GoesOn ==
  /\ run # NoRun /\ UNCHANGED book
  /\ \/ run.at = "resolve" /\ Begins("folder", Root, run.target)
     \/ run.at = "folder" /\ Begins("mkdir", Root, run.target)
     \/ provider = "pan123" /\ Begins("settle", Root, run.target)
     \/ \E folder \in DOMAIN drive' :
          /\ run.at \in {"folder", "settle", "mkdir"} /\ folder \in Nat /\ Targeted(folder)
          /\ drive'[folder].dir /\ drive'[folder].name = job[run.job].folder
          /\ drive'[folder].parent \in {Root, Gone}
          /\ \/ operation[run.job] \in {None, folder} \/ provider \in {"quark", "baidu"}
             \/ drive'[operation[run.job]].parent = Gone
     \/ provider = "pikpak" /\ run.at = "lookup" /\ Begins("recheck", run.target, run.target)
     \/ run.at = "lookup" /\ Begins("source", Share, run.target)
     \/ run.at \in {"lookup", "source", "recheck"} /\ Begins("save", run.target, run.target)
     \/ provider = "pikpak" /\ run.at = "query" /\ Begins("root", Root, run.target)
     \/ run.at = "root" /\ \E folder : Begins("receiving", folder, run.target)
     \/ /\ run.at = "receiving" /\ \E folder : Begins("move", folder, run.target)
        /\ \E h \in run'.found : run'.found = {h} /\ h.id \in EntryIds /\ ~drive[h.id].dir
     \/ run.at = "move" /\ Begins("confirm", operation[run.job], run.target)

\* A save is accepted, to be queried.
Accepted ==
  /\ run # NoRun /\ run.at = "save" /\ provider # "aliyundrive"
  /\ Begins(IF provider = "quark" THEN "status" ELSE "query", run.target, run.target)
  /\ operation' = [operation EXCEPT ![run.job] = IF provider = "quark" THEN Len(WithCopy)
                                                 ELSE run.target]
  /\ UNCHANGED <<answer, saved>> /\ drive' = WithCopy /\ CanCopy

\* The run ends.
Finishes(what, k) ==
  run # NoRun /\ End(what, k) /\ k \in Nat
    /\ what \in {"done", "pending", "error", "uncertain"}

\* A request is sent again.
SentAgain ==
  /\ run # NoRun /\ UNCHANGED <<book, drive>>
  /\ run' = [run EXCEPT !.attempt = run.attempt + 1]

\* Going on begins a request,
LEMMA GoBegins ==
  ASSUME DriveTyped, run \in Runs, NEW at \in CoursePhases, NEW folder \in Int, Go(at, folder)
  PROVE  Begins(at, folder, run.target) /\ UNCHANGED book
<1>1. run' = Fresh(at, folder) /\ UNCHANGED book
  BY DEF Go
<1>2. /\ run' \in Runs /\ run'.at = at /\ run'.folder = folder
      /\ run'.job = run.job /\ run'.target = run.target
      /\ run'.marker = FirstMarker /\ run'.found = {} /\ ~run'.left
      /\ at \in Listings => run'.keep = {k \in Listed(folder) : Wanted(at, run.job, k)}
  BY <1>1, FreshRun
<1>3. IsFiniteSet(run'.found)
  BY <1>2, FS_EmptySet
<1>4. QED
  BY <1>1, <1>2, <1>3 DEF Begins, Listings

\* knowing the target folder begins its search or query,
LEMMA TargetBegins ==
  ASSUME DriveTyped, BookTyped, run \in Runs, NEW folder \in Nat, WithTarget(folder)
  PROVE  Targeted(folder) /\ UNCHANGED book
<1> DEFINE at == IF operation[run.job] = None THEN "lookup"
                 ELSE IF provider = "quark" THEN "status" ELSE "query"
           place == IF operation[run.job] = None \/ provider = "baidu" THEN folder
                    ELSE operation[run.job]
<1>1. run' = [Fresh(at, place) EXCEPT !.target = folder] /\ UNCHANGED book
  BY DEF WithTarget
<1>2. at \in CoursePhases /\ place \in Int
  <2>1. run.job \in Jobs
    BY DEF Runs
  <2>2. operation[run.job] \in Nat
    BY <2>1 DEF BookTyped
  <2>3. QED
    BY <2>2 DEF CoursePhases, Listings
<1>3. at # "folder" /\ at # "move" /\ (at \in {"lookup", "recheck"} => at \in Listings)
  BY DEF Listings
<1>4. Targeted(folder) <=> Begins(at, place, folder)
  BY DEF Targeted
<1> HIDE DEF at, place
<1>5. /\ Fresh(at, place) \in Runs /\ Fresh(at, place).at = at
      /\ Fresh(at, place).folder = place
      /\ Fresh(at, place).job = run.job
      /\ Fresh(at, place).marker = FirstMarker /\ Fresh(at, place).found = {}
      /\ ~Fresh(at, place).left
      /\ at \in Listings =>
           Fresh(at, place).keep = {k \in Listed(place) : Wanted(at, run.job, k)}
  BY <1>2, FreshRun
<1>6. /\ run' \in Runs /\ run'.at = at /\ run'.folder = place
      /\ run'.job = run.job /\ run'.target = folder
      /\ run'.marker = FirstMarker /\ run'.found = {} /\ ~run'.left
      /\ at \in Listings => run'.keep = {k \in Listed(place) : Wanted(at, run.job, k)}
  BY <1>1, <1>5, FreshTarget
<1>7. Begins(at, place, folder)
  BY <1>3, <1>6, FS_EmptySet DEF Begins
<1>8. QED
  BY <1>1, <1>4, <1>7

\* and so does going on with other entries to look for.
LEMMA KeepBegins ==
  ASSUME DriveTyped, run \in Runs,
         NEW at \in CoursePhases \ {"folder", "lookup", "recheck", "move"},
         NEW folder \in Int, NEW keep \in SUBSET Nat,
         run' = [Fresh(at, folder) EXCEPT !.keep = keep]
  PROVE  Begins(at, folder, run.target)
<1>1. /\ Fresh(at, folder) \in Runs /\ Fresh(at, folder).at = at
           /\ Fresh(at, folder).folder = folder
      /\ Fresh(at, folder).job = run.job /\ Fresh(at, folder).target = run.target
      /\ Fresh(at, folder).marker = FirstMarker
      /\ Fresh(at, folder).found = {} /\ ~Fresh(at, folder).left
  BY FreshRun
<1>2. /\ run' \in Runs /\ run'.at = at /\ run'.folder = folder
      /\ run'.job = run.job /\ run'.target = run.target
      /\ run'.marker = FirstMarker /\ run'.found = {} /\ ~run'.left
  BY <1>1, FreshKeep
<1>3. QED
  BY <1>2, FS_EmptySet DEF Begins

\* After a search the run goes on with what is known by then, or ends.
LEMMA OutcomeGoesOn ==
  ASSUME SaveIsSound, run # NoRun, run.at \in Listings, UNCHANGED <<config, drive>>,
         NEW found, SoundFind(found), Outcome(found)
  PROVE  GoesOn \/ \E what, k : Finishes(what, k)
<1>1. /\ ConfigTyped /\ DriveTyped /\ RunTyped /\ BookTyped /\ CourseSound
      /\ run \in Runs /\ run.target \in Nat /\ run.target \in Int /\ Root \in Int
           /\ Share \in Int
      /\ run.folder \in Int /\ run.polls \in Nat /\ run.job \in Jobs
  <2>1. /\ ConfigTyped /\ DriveTyped /\ RunTyped /\ BookTyped /\ CourseSound
    BY DEF SaveIsSound
  <2>2. QED
    BY <2>1, RunOnJob DEF Root, Share
<1>2. \A h \in found :
        /\ h.id \in Nat /\ h.id \in EntryIds /\ drive[h.id].parent \in {run.folder, Gone}
        /\ Wanted(run.at, run.job, h.id)
  <2>1. \A h \in found : h.id \in Nat
    BY DEF SoundFind
  <2>2. QED
    BY <2>1 DEF SoundFind
<1>3. CoursePhases = Listings \cup Writes \cup {"resolve", "status"}
  BY DEF CoursePhases
<1>4. CASE run.at = "folder" /\ found = {} /\ Go("mkdir", Root)
  <2>1. Begins("mkdir", Root, run.target) /\ UNCHANGED book
    BY <1>1, <1>4, GoBegins DEF CoursePhases, Writes
  <2>2. QED
    BY <1>4, <2>1 DEF GoesOn
<1>5. CASE run.at \in {"folder", "settle"}
           /\ \E h \in found : found = {h} /\ drive[h.id].dir /\ WithTarget(h.id)
  <2>1. PICK h \in found : found = {h} /\ drive[h.id].dir /\ WithTarget(h.id)
    BY <1>5
  <2>2. h.id \in Nat /\ h.id \in EntryIds /\ drive[h.id].parent \in {Root, Gone}
        /\ drive[h.id].name = job[run.job].folder
    BY <1>1, <1>2, <1>5 DEF CourseSound, Wanted
  <2>3. Targeted(h.id) /\ UNCHANGED book
    BY <1>1, <2>1, <2>2, TargetBegins
  <2>4. drive' = drive
    OBVIOUS
  <2>5. ASSUME operation[run.job] # None, provider \notin {"quark", "baidu"},
               drive[operation[run.job]].parent # Gone
        PROVE  operation[run.job] = h.id
    <3>1. /\ provider # "aliyundrive" /\ operation[run.job] \in EntryIds
          /\ drive[operation[run.job]].name = job[run.job].folder
          /\ drive[operation[run.job]].parent = Root
      BY <1>1, <2>5 DEF OperationsSound, TargetOf, SaveIsSound
    <3>2. CASE provider = "pikpak"
      <4>1. run.at = "folder"
        BY <1>1, <1>5, <3>2 DEF CourseSound
      <4>2. operation[run.job] \in run.keep
        BY <2>5, <3>1, <3>2, <4>1 DEF SearchSound, SaveIsSound, Listings
      <4>3. QED
        BY <2>1, <3>2, <4>1, <4>2 DEF SoundFind
    <3>3. CASE provider # "pikpak"
      <4>1. drive[h.id].parent = run.folder /\ run.folder = Root
        BY <1>1, <1>5, <2>1, <3>3 DEF SoundFind, CourseSound
      <4>2. QED
        BY <1>1, <2>2, <3>1, <3>3, <4>1 DEF DriveTyped
    <3>4. QED
      BY <3>2, <3>3
  <2>6. QED
    BY <1>5, <2>1, <2>2, <2>3, <2>4, <2>5 DEF GoesOn, EntryIds
<1>6. CASE run.at = "settle" /\ UNCHANGED book
           /\ run' = [Fresh("settle", Root) EXCEPT !.polls = run.polls + 1]
  <2>1. "settle" \in CoursePhases
    BY DEF CoursePhases, Listings
  <2>2. /\ Fresh("settle", Root) \in Runs /\ Fresh("settle", Root).at = "settle"
        /\ Fresh("settle", Root).folder = Root
        /\ Fresh("settle", Root).job = run.job /\ Fresh("settle", Root).target = run.target
        /\ Fresh("settle", Root).marker = FirstMarker
        /\ Fresh("settle", Root).found = {} /\ ~Fresh("settle", Root).left
    BY <1>1, <2>1, FreshRun
  <2>3. run.polls + 1 \in Nat
    BY <1>1
  <2>4. /\ run' \in Runs /\ run'.at = "settle" /\ run'.folder = Root
        /\ run'.job = run.job /\ run'.target = run.target
        /\ run'.marker = FirstMarker /\ run'.found = {} /\ ~run'.left
    BY <1>6, <2>2, <2>3, FreshPolls
  <2>5. Begins("settle", Root, run.target)
    BY <2>4, FS_EmptySet DEF Begins
  <2>6. QED
    BY <1>1, <1>6, <2>5 DEF GoesOn, CourseSound
<1>7. CASE run.at = "lookup" /\ found = {} /\ provider = "pikpak" /\ Go("recheck", run.target)
  <2>1. Begins("recheck", run.target, run.target) /\ UNCHANGED book
    BY <1>1, <1>7, GoBegins DEF CoursePhases, Listings
  <2>2. QED
    BY <1>7, <2>1 DEF GoesOn
<1>8. CASE run.at = "lookup" /\ found = {} /\ Go("source", Share)
  <2>1. Begins("source", Share, run.target) /\ UNCHANGED book
    BY <1>1, <1>8, GoBegins DEF CoursePhases, Listings
  <2>2. QED
    BY <1>8, <2>1 DEF GoesOn
<1>9. CASE run.at \in {"lookup", "source", "recheck"} /\ Go("save", run.target)
  <2>1. Begins("save", run.target, run.target) /\ UNCHANGED book
    BY <1>1, <1>9, GoBegins DEF CoursePhases, Writes
  <2>2. QED
    BY <1>9, <2>1 DEF GoesOn
<1>10. CASE run.at = "query" /\ provider = "pikpak" /\ Go("root", Root)
  <2>1. Begins("root", Root, run.target) /\ UNCHANGED book
    BY <1>1, <1>10, GoBegins DEF CoursePhases, Listings
  <2>2. QED
    BY <1>10, <2>1 DEF GoesOn
<1>11. CASE run.at = "root" /\ \E h \in found : Go("receiving", h.id)
  <2>1. PICK h \in found : Go("receiving", h.id)
    BY <1>11
  <2>2. h.id \in Int
    BY <1>2
  <2>3. Begins("receiving", h.id, run.target) /\ UNCHANGED book
    BY <1>1, <2>1, <2>2, GoBegins DEF CoursePhases, Listings
  <2>4. QED
    BY <1>11, <2>3 DEF GoesOn
<1>12. CASE /\ run.at = "receiving" /\ UNCHANGED book
            /\ \E h \in found : found = {h} /\ h.whole
            /\ run' = [Fresh("move", run.folder) EXCEPT !.found = found]
  <2>1. "move" \in CoursePhases /\ found \in SUBSET [id : Nat, whole : BOOLEAN]
        /\ IsFiniteSet(found)
    BY DEF CoursePhases, Writes, SoundFind
  <2>2. /\ Fresh("move", run.folder) \in Runs /\ Fresh("move", run.folder).at = "move"
        /\ Fresh("move", run.folder).folder = run.folder
        /\ Fresh("move", run.folder).job = run.job
             /\ Fresh("move", run.folder).target = run.target
        /\ Fresh("move", run.folder).marker = FirstMarker
        /\ ~Fresh("move", run.folder).left
    BY <1>1, <2>1, FreshRun
  <2>3. /\ run' \in Runs /\ run'.at = "move" /\ run'.folder = run.folder
        /\ run'.job = run.job /\ run'.target = run.target
        /\ run'.marker = FirstMarker /\ run'.found = found /\ ~run'.left
    BY <1>12, <2>1, <2>2, FreshFound
  <2>4. Begins("move", run.folder, run.target)
    BY <2>1, <2>3 DEF Begins
  <2>5. \E h \in found : found = {h} /\ h.id \in EntryIds /\ ~drive[h.id].dir
    BY <1>2, <1>12 DEF Wanted, Same
  <2>6. QED
    BY <1>12, <2>3, <2>4, <2>5 DEF GoesOn
<1>13. CASE \E h \in found : End("done", h.id)
  BY <1>2, <1>13 DEF Finishes
<1>14. CASE \E what \in {"error", "uncertain", "pending"} : End(what, None)
  BY <1>14 DEF Finishes, None
<1>15. QED
  BY <1>4, <1>5, <1>6, <1>7, <1>8, <1>9, <1>10, <1>11, <1>12, <1>13, <1>14 DEF Outcome

\* No write is sent again, and of a save it stays in doubt whether it was done.
LEMMA WritesSentOnce ==
  ASSUME ConfigTyped, NEW at \in CoursePhases
  PROVE  /\ at \in Writes => Request(at).again = 0
         /\ Request(at).lost \in {"error", "uncertain"}
         /\ at = "save" /\ provider # "aliyundrive" => Request(at).lost = "uncertain"
<1>1. CASE provider = "aliyundrive"
  BY <1>1 DEF Request, AliyunRequest, ReadsAgain
<1>2. CASE provider = "quark"
  BY <1>2 DEF Request, QuarkRequest, ReadsAgain, InDoubt, Writes
<1>3. CASE provider = "pan123"
  BY <1>3 DEF Request, Pan123Request, ReadsAgain, InDoubt, Writes
<1>4. CASE provider = "pikpak"
  BY <1>4 DEF Request, PikPakRequest, InDoubt, Writes
<1>5. CASE provider = "baidu"
  BY <1>5 DEF Request, BaiduSave, BaiduMakeFolder, BaiduRead
<1>6. QED
  BY <1>1, <1>2, <1>3, <1>4, <1>5 DEF ConfigTyped, AllProviders

\* Without an answer a read is sent again or the run ends.
LEMMA NoAnswer ==
  ASSUME ConfigTyped, RunTyped, run # NoRun, Unanswered
  PROVE  /\ \/ run' = [run EXCEPT !.attempt = run.attempt + 1] /\ UNCHANGED book
                 /\ run.at \notin Writes
            \/ \E what \in {"error", "uncertain"} : End(what, None)
         /\ run.at = "save" /\ provider # "aliyundrive" => End("uncertain", None)
<1>1. run.at \in CoursePhases /\ run.attempt \in Nat
  BY RunOnJob
<1>2. /\ run.at \in Writes => Request(run.at).again = 0
      /\ Request(run.at).lost \in {"error", "uncertain"}
      /\ run.at = "save" /\ provider # "aliyundrive" => Request(run.at).lost = "uncertain"
  BY <1>1, WritesSentOnce
<1>3. CASE run.attempt < Request(run.at).again
  <2>1. run.at \notin Writes /\ run.at # "save"
    BY <1>1, <1>2, <1>3 DEF Writes
  <2>2. QED
    BY <1>3, <2>1 DEF Unanswered
<1>4. CASE ~(run.attempt < Request(run.at).again)
  <2>1. End(Request(run.at).lost, None)
    BY <1>4 DEF Unanswered
  <2>2. QED
    BY <1>2, <2>1
<1>5. QED
  BY <1>3, <1>4

\* What a step does to the run and the answers.
LEMMA RunSteps ==
  ASSUME SaveIsSound, SaveNext
  PROVE  \/ \E j \in Jobs : Start(j)
         \/ GoesOn
         \/ Accepted
         \/ \E what, k : Finishes(what, k)
         \/ PageTurned /\ run # NoRun /\ run.at \in Listings /\ UNCHANGED drive
         \/ SentAgain
         \/ UNCHANGED <<run, book>>
         \/ \E k : OtherRemoves(k)
<1>1. /\ ConfigTyped /\ DriveTyped /\ RunTyped /\ BookTyped /\ CourseSound /\ OperationsSound
  BY DEF SaveIsSound
<1>2. ASSUME run # NoRun
      PROVE  /\ run \in Runs /\ run.job \in Jobs /\ run.target \in Nat /\ run.target \in Int
             /\ operation[run.job] \in Nat
  <2>1. run \in Runs /\ run.job \in Jobs /\ run.target \in Nat
    BY <1>1, <1>2, RunOnJob
  <2>2. QED
    BY <1>1, <2>1 DEF BookTyped
<1>3. Root \in Int /\ None \in Nat
  BY DEF Root, None
<1>4. ASSUME run # NoRun, NEW what \in {"done", "pending", "error", "uncertain"},
             End(what, None)
      PROVE  \E w, k : Finishes(w, k)
  BY <1>3, <1>4 DEF Finishes
<1>5. CASE Resolve
  <2>1. run # NoRun /\ run.at = "resolve" /\ Go("folder", Root)
    BY <1>5 DEF Resolve, NoRun
  <2>2. Begins("folder", Root, run.target) /\ UNCHANGED book
    BY <1>1, <1>2, <1>3, <2>1, GoBegins DEF CoursePhases, Listings
  <2>3. QED
    BY <2>1, <2>2 DEF GoesOn
<1>6. CASE ListPage
  <2>1. /\ UNCHANGED <<config, drive>> /\ run # NoRun /\ run.at \in Listings
        /\ \/ PageTurned \/ End("error", None)
           \/ \E found : SoundFind(found) /\ Outcome(found)
    BY <1>6, ListPageDoes
  <2>2. QED
    BY <1>4, <2>1, OutcomeGoesOn
<1>7. CASE FolderMissing \/ SaveRefused \/ RequestRefused
  <2>1. End("error", None)
    BY <1>7 DEF FolderMissing, SaveRefused, RequestRefused
  <2>2. run # NoRun
    BY <1>7 DEF FolderMissing, SaveRefused, RequestRefused, NoRun, Listings, Busy, Writes
  <2>3. QED
    BY <1>4, <2>1, <2>2
<1>8. CASE MakeFolder
  <2>1. /\ run # NoRun /\ run.at = "mkdir" /\ DriveGrows
        /\ \/ Go("settle", Root)
           \/ run' = [Fresh("settle", Root) EXCEPT !.keep = {Len(drive) + 1}]
                /\ UNCHANGED book
           \/ End("error", None)
           \/ /\ WithTarget(Len(drive) + 1) /\ Len(drive) + 1 \in DOMAIN drive'
              /\ ~NameTaken(Root, job[run.job].folder)
              /\ LET e == drive'[Len(drive) + 1]
                 IN  e.parent = Root /\ e.name = job[run.job].folder /\ e.dir
        /\ provider # "pan123" => run'.at # "settle"
    BY <1>8, FolderMade
  <2>2. Len(drive) + 1 \in Nat /\ {Len(drive) + 1} \in SUBSET Nat
    BY <1>1 DEF DriveTyped
  <2>3. "settle" \in CoursePhases
    BY DEF CoursePhases, Listings
  <2>4. CASE Go("settle", Root)
    <3>1. Begins("settle", Root, run.target) /\ UNCHANGED book
      BY <1>1, <1>2, <1>3, <2>1, <2>3, <2>4, GoBegins
    <3>2. provider = "pan123"
      BY <2>1, <3>1 DEF Begins
    <3>3. QED
      BY <2>1, <3>1, <3>2 DEF GoesOn
  <2>5. CASE run' = [Fresh("settle", Root) EXCEPT !.keep = {Len(drive) + 1}] /\ UNCHANGED book
    <3>1. Begins("settle", Root, run.target) /\ UNCHANGED book
      BY <1>1, <1>2, <1>3, <2>1, <2>2, <2>3, <2>5, KeepBegins
    <3>2. provider = "pan123"
      BY <2>1, <3>1 DEF Begins
    <3>3. QED
      BY <2>1, <3>1, <3>2 DEF GoesOn
  <2>6. CASE /\ WithTarget(Len(drive) + 1) /\ Len(drive) + 1 \in DOMAIN drive'
             /\ ~NameTaken(Root, job[run.job].folder)
             /\ LET e == drive'[Len(drive) + 1]
                IN  e.parent = Root /\ e.name = job[run.job].folder /\ e.dir
    <3>1. Targeted(Len(drive) + 1) /\ UNCHANGED book
      BY <1>1, <1>2, <2>1, <2>2, <2>6, TargetBegins
    <3>2. ASSUME operation[run.job] # None, provider \notin {"quark", "baidu"}
          PROVE  drive'[operation[run.job]].parent = Gone
      <4>1. TargetOf(operation[run.job], run.job)
        BY <1>1, <1>2, <2>1, <3>2 DEF OperationsSound
      <4>2. drive[operation[run.job]].parent = Gone /\ operation[run.job] \in EntryIds
        BY <2>6, <4>1 DEF TargetOf, NameTaken, Is
      <4>3. QED
        BY <2>1, <4>2 DEF DriveGrows
    <3>3. QED
      BY <2>1, <2>2, <2>6, <3>1, <3>2 DEF GoesOn
  <2>7. QED
    BY <1>4, <2>1, <2>4, <2>5, <2>6
<1>9. CASE Save
  <2>1. run # NoRun /\ run.at = "save" /\ CanCopy /\ drive' = WithCopy
    BY <1>9 DEF Save, NoRun
  <2>2. CASE provider = "aliyundrive"
    <3>1. End("done", Len(WithCopy))
      BY <1>9, <2>2 DEF Save
    <3>2. Len(WithCopy) \in Nat
      BY <2>1, SavedCopy
    <3>3. QED
      BY <2>1, <3>1, <3>2 DEF Finishes
  <2>3. CASE provider # "aliyundrive"
    <3> DEFINE at == IF provider = "quark" THEN "status" ELSE "query"
    <3>1. /\ run' = [Fresh(at, run.target) EXCEPT !.keep = {}]
          /\ operation' = [operation EXCEPT ![run.job] = IF provider = "quark" THEN Len(WithCopy)
                                                         ELSE run.target]
          /\ UNCHANGED <<answer, saved>>
      BY <1>9, <2>3 DEF Save
    <3>2. at \in CoursePhases \ {"folder", "lookup", "recheck", "move"} /\ {} \in SUBSET Nat
      BY DEF CoursePhases, Listings
    <3>3. Begins(at, run.target, run.target)
      <4> HIDE DEF at
      <4>1. QED
        BY <1>1, <1>2, <2>1, <3>1, <3>2, KeepBegins
    <3>4. QED
      BY <2>1, <2>3, <3>1, <3>3 DEF Accepted
  <2>4. QED
    BY <2>2, <2>3
<1>10. CASE SaveShapeless
  <2>1. run # NoRun /\ End("error", None)
    BY <1>10 DEF SaveShapeless, NoRun
  <2>2. QED
    BY <1>4, <2>1
<1>11. CASE QueryTask
  <2>1. run # NoRun /\ \E k \in {operation[run.job], None},
        what \in {"done", "pending"} : End(what, k)
    BY <1>11 DEF QueryTask, NoRun
  <2>2. QED
    BY <1>2, <1>3, <2>1 DEF Finishes
<1>12. CASE Move
  <2>1. run # NoRun /\ run.at = "move"
    BY <1>12 DEF Move, NoRun
  <2>2. CASE End("error", None)
    BY <1>4, <2>1, <2>2
  <2>3. CASE ~End("error", None)
    <3>1. run' = [Fresh("confirm", operation[run.job]) EXCEPT !.keep = {}] /\ UNCHANGED book
      BY <1>12, <2>3 DEF Move
    <3>2. "confirm" \in CoursePhases /\ operation[run.job] \in Int /\ {} \in SUBSET Nat
      BY <1>2, <2>1 DEF CoursePhases, Listings
    <3>3. Begins("confirm", operation[run.job], run.target)
      BY <1>1, <1>2, <2>1, <3>1, <3>2, KeepBegins
    <3>4. QED
      BY <2>1, <3>1, <3>3 DEF GoesOn
  <2>4. QED
    BY <2>2, <2>3
<1>13. CASE AnswerLost
  <2>1. run # NoRun /\ run.at \in Writes /\ Unanswered
    BY <1>13, LostWrites
  <2>2. PICK what \in {"error", "uncertain"} : End(what, None)
    BY <1>1, <2>1, NoAnswer
  <2>3. QED
    BY <1>4, <2>1, <2>2
<1>14. CASE RequestTimesOut
  <2>1. run # NoRun /\ Unanswered /\ UNCHANGED drive
    BY <1>14 DEF RequestTimesOut, Busy, NoRun, Listings, Writes
  <2>2. \/ run' = [run EXCEPT !.attempt = run.attempt + 1] /\ UNCHANGED book
        \/ \E what \in {"error", "uncertain"} : End(what, None)
    BY <1>1, <2>1, NoAnswer
  <2>3. QED
    BY <1>4, <2>1, <2>2 DEF SentAgain
<1>15. ASSUME NEW k \in 1 .. MaxEntries, CopyCompletes(k) PROVE UNCHANGED <<run, book>>
  BY <1>15 DEF CopyCompletes
<1>16. CASE OtherAdds
  BY <1>16 DEF OtherAdds
<1>17. QED
  BY <1>5, <1>6, <1>7, <1>8, <1>9, <1>10, <1>11, <1>12, <1>13, <1>14, <1>15, <1>16 DEF
     SaveNext, Step

\* A copy is made by a save that was accepted, or whose answer was lost or shapeless.
LEMMA MadeSteps ==
  ASSUME SaveIsSound, SaveNext
  PROVE  /\ others' \in {others, others + 1} /\ failures' \in {failures, failures + 1}
         /\ \/ UNCHANGED <<made, shapeless>>
            \/ /\ run # NoRun /\ run.at = "save" /\ There(run.target) /\ CanCopy
               /\ drive' = WithCopy /\ others' = others
               /\ made' = [made EXCEPT ![run.job] = made[run.job] + 1]
               /\ \/ provider # "aliyundrive" /\ Accepted /\ UNCHANGED shapeless
                  \/ provider = "aliyundrive" /\ UNCHANGED shapeless
                  \/ shapeless' = shapeless \cup {run.job} /\ End("error", None)
                  \/ provider # "aliyundrive" /\ UNCHANGED shapeless /\ End("uncertain", None)
<1>1. /\ others' \in {others, others + 1} /\ failures' \in {failures, failures + 1}
  BY DEF SaveNext, Step, Start, Resolve, ListPage, FolderMissing, MakeFolder, Save,
     SaveRefused,
         QueryTask, Move, SaveShapeless, AnswerLost, RequestTimesOut, RequestRefused,
         CopyCompletes, OtherRemoves, OtherAdds, Failure
<1>2. CASE Save
  <2>1. /\ run # NoRun /\ run.at = "save" /\ There(run.target) /\ CanCopy
        /\ drive' = WithCopy /\ others' = others /\ UNCHANGED shapeless
        /\ made' = [made EXCEPT ![run.job] = made[run.job] + 1]
    BY <1>2 DEF Save, NoRun
  <2>2. CASE provider = "aliyundrive"
    BY <1>1, <2>1, <2>2
  <2>3. CASE provider # "aliyundrive"
    <3>3. Accepted
      <4> DEFINE at == IF provider = "quark" THEN "status" ELSE "query"
      <4>1. /\ run' = [Fresh(at, run.target) EXCEPT !.keep = {}]
            /\ operation' = [operation EXCEPT ![run.job] = IF provider = "quark" THEN Len(WithCopy)
                                                           ELSE run.target]
            /\ UNCHANGED <<answer, saved>>
        BY <1>2, <2>3 DEF Save
      <4>2. at \in CoursePhases \ {"folder", "lookup", "recheck", "move"} /\ {} \in SUBSET Nat
        BY DEF CoursePhases, Listings
      <4>3. DriveTyped /\ run \in Runs /\ run.target \in Int
        BY <2>1, RunOnJob DEF SaveIsSound
      <4>4. Begins(at, run.target, run.target)
        <5> HIDE DEF at
        <5>1. QED
          BY <4>1, <4>2, <4>3, KeepBegins
      <4>5. QED
        BY <2>1, <2>3, <4>1, <4>4 DEF Accepted
    <3>4. QED
      BY <1>1, <2>1, <2>3, <3>3
  <2>4. QED
    BY <2>2, <2>3
<1>3. CASE SaveShapeless
  BY <1>1, <1>3 DEF SaveShapeless, NoRun
<1>4. CASE AnswerLost
  <2>1. /\ run # NoRun /\ Unanswered /\ UNCHANGED <<config, shapeless, others>>
        /\ \/ UNCHANGED made
           \/ /\ run.at = "save" /\ There(run.target) /\ CanCopy /\ drive' = WithCopy
              /\ made' = [made EXCEPT ![run.job] = made[run.job] + 1]
    BY <1>4, LostWrites
  <2>2. run.at = "save" /\ provider # "aliyundrive" => End("uncertain", None)
    BY <2>1, NoAnswer DEF SaveIsSound
  <2>3. QED
    BY <1>1, <2>1, <2>2
<1>5. CASE ~(Save \/ SaveShapeless \/ AnswerLost)
  <2>1. UNCHANGED <<made, shapeless>>
    BY <1>5 DEF SaveNext, Step, Start, Resolve, ListPage, FolderMissing, MakeFolder,
       SaveRefused,
         QueryTask, Move, RequestTimesOut, RequestRefused,
         CopyCompletes, OtherRemoves, OtherAdds
  <2>2. QED
    BY <1>1, <2>1
<1>6. QED
  BY <1>2, <1>3, <1>4, <1>5

-------------------------------------------------------------------------------
(***************************************************************************)
(* ProviderSave: each part of the invariant is preserved.                  *)
(***************************************************************************)

\* The run stays a run,
LEMMA RunTypedStep ==
  ASSUME SaveIsSound, SaveNext
  PROVE  RunTyped'
<1>1. ConfigTyped /\ DriveTyped /\ RunTyped /\ BookTyped
  BY DEF SaveIsSound
<1>2. ASSUME run' \in Runs, IsFiniteSet(run'.found) PROVE RunTyped'
  BY <1>2 DEF RunTyped, NoRun, Runs
<1>3. ASSUME run # NoRun
      PROVE  /\ run \in Runs /\ run.attempt \in Nat /\ run.markers \subseteq Int
             /\ run.seen \subseteq Nat /\ run.keep \subseteq Nat /\ run.left \in BOOLEAN
             /\ IsFiniteSet(run.found)
  BY <1>1, <1>3 DEF RunTyped, Runs
<1>4. ASSUME NEW j \in Jobs, Start(j) PROVE RunTyped'
  <2>1. run' = [at |-> "resolve", job |-> j, folder |-> Root, target |-> None, marker |-> 0,
                markers |-> {}, seen |-> {}, found |-> {}, attempt |-> 0, polls |-> 0,
                keep |-> {}, left |-> FALSE]
    BY <1>4 DEF Start
  <2>2. run' \in Runs /\ run'.found = {}
    BY <2>1 DEF Runs, CoursePhases, Root, None
  <2>3. QED
    BY <1>2, <2>2, FS_EmptySet
<1>5. CASE GoesOn
  BY <1>2, <1>5 DEF GoesOn, Begins, Targeted
<1>6. CASE Accepted
  BY <1>2, <1>6 DEF Accepted, Begins
<1>7. ASSUME NEW what, NEW k, Finishes(what, k) PROVE RunTyped'
  BY <1>7 DEF Finishes, End, RunTyped
<1>8. CASE PageTurned /\ run # NoRun
  <2>1. PICK next \in Int, items \in SUBSET Listed(run.folder),
             found \in SUBSET [id : Nat, whole : BOOLEAN] :
          /\ run' = [run EXCEPT !.marker = next, !.markers = run.markers \cup {next},
                                !.seen = run.seen \cup items, !.attempt = 0, !.found = found]
          /\ IsFiniteSet(found)
    BY <1>8 DEF PageTurned
  <2>2. items \subseteq Nat
    BY <1>1, ListedSet
  <2>3. run.markers \cup {next} \subseteq Int /\ run.seen \cup items \subseteq Nat
    BY <1>3, <1>8, <2>2
  <2>4. run' \in Runs /\ run'.found = found
    BY <1>3, <1>8, <2>1, <2>3 DEF Runs
  <2>5. QED
    BY <1>2, <2>1, <2>4
<1>9. CASE SentAgain
  <2>1. run' \in Runs /\ run'.found = run.found
    BY <1>3, <1>9 DEF SentAgain, Runs
  <2>2. QED
    BY <1>2, <1>3, <1>9, <2>1 DEF SentAgain
<1>10. CASE UNCHANGED <<run, book>>
  BY <1>1, <1>10 DEF RunTyped
<1>11. ASSUME NEW k, OtherRemoves(k) PROVE RunTyped'
  <2>1. CASE run = NoRun
    BY <1>11, <2>1 DEF OtherRemoves, RunTyped
  <2>2. CASE run # NoRun
    <3> DEFINE keep == run.keep \ ({k} \cup In(k))
               left == run.left \/ ({k} \cup In(k)) \cap In(run.folder) # {}
    <3>1. run' = [run EXCEPT !.keep = keep, !.left = left]
      BY <1>11, <2>2 DEF OtherRemoves
    <3>4. keep \subseteq run.keep /\ left \in BOOLEAN
      OBVIOUS
    <3> HIDE DEF keep, left
    <3>2. run' \in Runs /\ run'.found = run.found
      BY <1>3, <2>2, <3>1, <3>4 DEF Runs
    <3>3. QED
      BY <1>2, <1>3, <2>2, <3>2
  <2>3. QED
    BY <2>1, <2>2
<1>12. QED
  BY <1>4, <1>5, <1>6, <1>7, <1>8, <1>9, <1>10, <1>11, RunSteps

\* and the book a book.
LEMMA BookTypedStep ==
  ASSUME SaveIsSound, SaveNext
  PROVE  BookTyped'
<1>1. ConfigTyped /\ DriveTyped /\ RunTyped /\ BookTyped
  BY DEF SaveIsSound
<1>2. run # NoRun => run.job \in Jobs /\ run.target \in Nat
  BY <1>1, RunOnJob
<1>3. /\ others' \in Nat /\ failures' \in Nat
  BY <1>1, MadeSteps DEF BookTyped
<1>4. made' \in [Jobs -> Nat] /\ shapeless' \subseteq Jobs
  BY <1>1, <1>2, MadeSteps DEF BookTyped
<1>5. UNCHANGED book \/ Accepted \/ \E what, k : Finishes(what, k)
  BY RunSteps DEF Start, GoesOn, PageTurned, SentAgain, OtherRemoves
<1>6. CASE UNCHANGED book
  BY <1>1, <1>3, <1>4, <1>6 DEF BookTyped, book
<1>7. CASE Accepted
  <2>1. Len(WithCopy) \in Nat
    BY <1>7, SavedCopy DEF Accepted
  <2>2. operation' \in [Jobs -> Nat]
    BY <1>1, <1>2, <1>7, <2>1 DEF BookTyped, Accepted
  <2>3. QED
    BY <1>1, <1>3, <1>4, <1>7, <2>2 DEF BookTyped, Accepted
<1>8. ASSUME NEW what, NEW k, Finishes(what, k) PROVE BookTyped'
  BY <1>1, <1>2, <1>3, <1>4, <1>8 DEF BookTyped, Finishes, End
<1>9. QED
  BY <1>5, <1>6, <1>7, <1>8

\* The target folder of a job, after a step.
StaysTarget(k, j) ==
  /\ k \in DOMAIN drive' /\ drive'[k].dir /\ drive'[k].name = job[j].folder
  /\ drive'[k].parent \in {Root, Gone}

\* A target folder stays one, or is gone.
LEMMA TargetStays ==
  ASSUME DriveKept, NEW k, NEW j, TargetOf(k, j)
  PROVE  StaysTarget(k, j)
BY DEF DriveKept, TargetOf, StaysTarget

\* An operation names the folder, or for Quark the file, of its job.
LEMMA OperationsStep ==
  ASSUME SaveIsSound, SaveNext
  PROVE  OperationsSound'
<1>1. /\ ConfigTyped /\ DriveTyped /\ RunTyped /\ BookTyped /\ OperationsSound /\ CourseSound
      /\ DriveKept /\ provider' = provider /\ job' = job
  BY DriveSteps DEF SaveIsSound, config
<1>2. ASSUME NEW j \in Jobs, operation[j] # None
      PROVE  /\ provider # "aliyundrive"
             /\ IF provider = "quark"
                THEN operation[j] \in DOMAIN drive' /\ ~drive'[operation[j]].dir
                     /\ drive'[operation[j]].content = job[j].content
                ELSE StaysTarget(operation[j], j)
  <2>1. CASE provider = "quark"
    BY <1>1, <1>2, <2>1 DEF OperationsSound, DriveKept
  <2>2. CASE provider # "quark"
    BY <1>1, <1>2, <2>2, TargetStays DEF OperationsSound
  <2>3. QED
    BY <1>1, <1>2, <2>1, <2>2 DEF OperationsSound
<1>3. UNCHANGED operation \/ Accepted
  BY RunSteps DEF Start, GoesOn, Finishes, End, PageTurned, SentAgain, OtherRemoves, book
<1>4. CASE UNCHANGED operation
  BY <1>1, <1>2, <1>4 DEF OperationsSound, StaysTarget, TargetOf, EntryIds
<1>5. CASE Accepted
  <2>1. /\ run # NoRun /\ run.at = "save" /\ CanCopy /\ drive' = WithCopy
             /\ provider # "aliyundrive"
        /\ operation' = [operation EXCEPT ![run.job] = IF provider = "quark" THEN Len(WithCopy)
                                                       ELSE run.target]
    BY <1>5 DEF Accepted
  <2>2. run.job \in Jobs /\ operation \in [Jobs -> Nat]
    BY <1>1, <2>1, RunOnJob DEF BookTyped
  <2>3. IF provider = "quark"
        THEN Len(WithCopy) \in DOMAIN drive' /\ ~drive'[Len(WithCopy)].dir
             /\ drive'[Len(WithCopy)].content = job[run.job].content
        ELSE StaysTarget(run.target, run.job)
    <3>1. TargetOf(run.target, run.job)
      BY <1>1, <2>1 DEF CourseSound, Submitting
    <3>2. QED
      BY <1>1, <2>1, <3>1, SavedCopy, TargetStays DEF CopyOf
  <2>4. \A j \in Jobs : operation'[j] = IF j = run.job
                                        THEN IF provider = "quark" THEN Len(WithCopy)
                                             ELSE run.target
                                        ELSE operation[j]
    BY <2>1, <2>2
  <2> HIDE DEF WithCopy
  <2>5. ASSUME NEW j \in Jobs, operation'[j] # None
        PROVE  /\ provider # "aliyundrive"
               /\ IF provider = "quark"
                  THEN operation'[j] \in DOMAIN drive' /\ ~drive'[operation'[j]].dir
                       /\ drive'[operation'[j]].content = job[j].content
                  ELSE StaysTarget(operation'[j], j)
    <3>1. CASE j = run.job
      BY <2>1, <2>3, <2>4, <3>1
    <3>2. CASE j # run.job
      BY <1>2, <2>4, <2>5, <3>2
    <3>3. QED
      BY <3>1, <3>2
  <2>6. QED
    BY <1>1, <2>5 DEF OperationsSound, StaysTarget, TargetOf, EntryIds
<1>6. QED
  BY <1>3, <1>4, <1>5

\* What a request must know for a run to be on its course.
LEMMA OnCourse ==
  ASSUME UNCHANGED config, NEW at, NEW folder, NEW target, NEW j,
         run'.at = at, run'.folder = folder, run'.target = target, run'.job = j,
         at \in {"folder", "settle", "mkdir", "root"} => folder = Root,
         at \in {"lookup", "recheck", "save"} => folder = target,
         at = "settle" => provider = "pan123",
         at = "status" => provider = "quark" /\ operation'[j] # None,
         at \in {"root", "receiving", "move", "confirm"} => provider = "pikpak",
         at \in Submitting => operation'[j] = None /\ StaysTarget(target, j),
         at \in Querying =>
           /\ operation'[j] # None /\ provider # "quark" /\ StaysTarget(target, j)
           /\ \/ provider = "baidu" \/ operation'[j] = target
              \/ drive'[operation'[j]].parent = Gone,
         at \in {"query", "confirm"} =>
           folder = IF provider = "baidu" THEN target ELSE operation'[j]
  PROVE  CourseSound'
BY DEF CourseSound, StaysTarget, TargetOf, EntryIds, config, Submitting, Querying

\* Every step leaves a run on its course.
LEMMA CourseStep ==
  ASSUME SaveIsSound, SaveNext
  PROVE  CourseSound'
<1>1. /\ ConfigTyped /\ DriveTyped /\ RunTyped /\ BookTyped /\ OperationsSound /\ CourseSound
      /\ DriveKept /\ UNCHANGED config
  BY DriveSteps DEF SaveIsSound
<1>2. CASE run' = NoRun
  BY <1>2 DEF CourseSound
<1>3. ASSUME NEW j \in Jobs, Start(j) PROVE CourseSound'
  <2>1. run'.at = "resolve"
    BY <1>3 DEF Start
  <2>2. QED
    BY <2>1 DEF CourseSound, Submitting, Querying
<1>4. ASSUME run # NoRun
      PROVE  /\ run.job \in Jobs /\ operation[run.job] \in Nat
             /\ run.at \in Submitting \cup Querying => StaysTarget(run.target, run.job)
             /\ drive[operation[run.job]].parent = Gone /\ operation[run.job] # None
                  /\ provider # "quark" =>
                  drive'[operation[run.job]].parent = Gone
  <2>1. run.job \in Jobs
    BY <1>1, <1>4, RunOnJob
  <2>2. operation[run.job] \in Nat
    BY <1>1, <2>1 DEF BookTyped
  <2>3. run.at \in Submitting \cup Querying => TargetOf(run.target, run.job)
    BY <1>1, <1>4 DEF CourseSound
  <2>4. operation[run.job] # None /\ provider # "quark" => operation[run.job] \in EntryIds
    BY <1>1, <2>1 DEF OperationsSound, TargetOf
  <2>5. QED
    BY <1>1, <2>1, <2>2, <2>3, <2>4, TargetStays DEF DriveKept
<1>5. ASSUME run # NoRun, run'.at = run.at, run'.folder = run.folder,
             run'.target = run.target,
             run'.job = run.job, operation' = operation
      PROVE  CourseSound'
  <2>1. /\ run.at \in {"folder", "settle", "mkdir", "root"} => run.folder = Root
        /\ run.at \in {"lookup", "recheck", "save"} => run.folder = run.target
        /\ run.at = "settle" => provider = "pan123"
        /\ run.at = "status" => provider = "quark" /\ operation[run.job] # None
        /\ run.at \in {"root", "receiving", "move", "confirm"} => provider = "pikpak"
        /\ run.at \in Submitting => operation[run.job] = None
        /\ run.at \in Querying =>
             /\ operation[run.job] # None /\ provider # "quark"
             /\ provider = "baidu" \/ operation[run.job] = run.target
                \/ drive[operation[run.job]].parent = Gone
        /\ run.at \in {"query", "confirm"} =>
             run.folder = IF provider = "baidu" THEN run.target ELSE operation[run.job]
    BY <1>1, <1>5 DEF CourseSound
  <2>2. QED
    BY <1>1, <1>4, <1>5, <2>1, OnCourse
<1>6. CASE GoesOn
  <2>1. run # NoRun /\ operation' = operation
    BY <1>6 DEF GoesOn, book
  <2>2. CASE run.at = "resolve" /\ Begins("folder", Root, run.target)
    BY <1>1, <2>1, <2>2, OnCourse DEF Begins, Submitting, Querying
  <2>3. CASE run.at = "folder" /\ Begins("mkdir", Root, run.target)
    BY <1>1, <2>1, <2>3, OnCourse DEF Begins, Submitting, Querying
  <2>4. CASE provider = "pan123" /\ Begins("settle", Root, run.target)
    BY <1>1, <2>1, <2>4, OnCourse DEF Begins, Submitting, Querying
  <2>5. ASSUME NEW folder \in DOMAIN drive', folder \in Nat, Targeted(folder),
               drive'[folder].dir, drive'[folder].name = job[run.job].folder,
               drive'[folder].parent \in {Root, Gone},
               \/ operation[run.job] \in {None, folder} \/ provider \in {"quark", "baidu"}
               \/ drive'[operation[run.job]].parent = Gone
        PROVE  CourseSound'
    <3>1. StaysTarget(folder, run.job)
      BY <2>5 DEF StaysTarget
    <3>2. run.job \in Jobs /\ operation[run.job] \in Nat
      BY <1>4, <2>1
    <3>3. CASE operation[run.job] = None
      BY <1>1, <2>1, <2>5, <3>1, <3>3, OnCourse DEF Targeted, Begins, Submitting, Querying
    <3>4. CASE operation[run.job] # None /\ provider = "quark"
      BY <1>1, <2>1, <2>5, <3>1, <3>4, OnCourse DEF Targeted, Begins, Submitting, Querying
    <3>5. CASE operation[run.job] # None /\ provider # "quark"
      <4>3. provider = "baidu" \/ operation[run.job] = folder
            \/ drive'[operation[run.job]].parent = Gone
        BY <2>5, <3>5
      <4>4. QED
        BY <1>1, <2>1, <2>5, <3>1, <3>5, <4>3, OnCourse DEF Targeted, Begins, Submitting,
           Querying
    <3>6. QED
      BY <3>3, <3>4, <3>5
  <2>6. CASE provider = "pikpak" /\ run.at = "lookup"
               /\ Begins("recheck", run.target, run.target)
    BY <1>1, <1>4, <2>1, <2>6, OnCourse DEF Begins, Submitting, Querying, CourseSound
  <2>7. CASE run.at = "lookup" /\ Begins("source", Share, run.target)
    BY <1>1, <1>4, <2>1, <2>7, OnCourse DEF Begins, Submitting, Querying, CourseSound
  <2>8. CASE run.at \in {"lookup", "source", "recheck"}
               /\ Begins("save", run.target, run.target)
    BY <1>1, <1>4, <2>1, <2>8, OnCourse DEF Begins, Submitting, Querying, CourseSound
  <2>9. CASE provider = "pikpak" /\ run.at = "query" /\ Begins("root", Root, run.target)
    BY <1>1, <1>4, <2>1, <2>9, OnCourse DEF Begins, Submitting, Querying, CourseSound
  <2>10. ASSUME run.at = "root", NEW folder, Begins("receiving", folder, run.target)
         PROVE  CourseSound'
    BY <1>1, <1>4, <2>1, <2>10, OnCourse DEF Begins, Submitting, Querying, CourseSound
  <2>11. ASSUME run.at = "receiving", NEW folder, Begins("move", folder, run.target)
         PROVE  CourseSound'
    BY <1>1, <1>4, <2>1, <2>11, OnCourse DEF Begins, Submitting, Querying, CourseSound
  <2>12. CASE run.at = "move" /\ Begins("confirm", operation[run.job], run.target)
    BY <1>1, <1>4, <2>1, <2>12, OnCourse DEF Begins, Submitting, Querying, CourseSound
  <2>13. QED
    BY <1>6, <2>2, <2>3, <2>4, <2>5, <2>6, <2>7, <2>8, <2>9, <2>10, <2>11, <2>12 DEF GoesOn
<1>7. CASE Accepted
  <2>1. run # NoRun /\ run.at = "save" /\ provider # "aliyundrive" /\ CanCopy
          /\ drive' = WithCopy
        /\ Begins(IF provider = "quark" THEN "status" ELSE "query", run.target, run.target)
        /\ operation' = [operation EXCEPT ![run.job] = IF provider = "quark" THEN Len(WithCopy)
                                                       ELSE run.target]
    BY <1>7 DEF Accepted
  <2>2. Len(WithCopy) # None /\ run.target # None
    <3>1. TargetOf(run.target, run.job)
      BY <1>1, <2>1 DEF CourseSound, Submitting
    <3>2. QED
      BY <1>1, <2>1, <3>1, SavedCopy, EntryTyped DEF TargetOf, None
  <2>3. operation'[run.job] = IF provider = "quark" THEN Len(WithCopy) ELSE run.target
    BY <1>1, <1>4, <2>1 DEF BookTyped
  <2> HIDE DEF WithCopy
  <2>4. QED
    BY <1>1, <1>4, <2>1, <2>2, <2>3, OnCourse DEF Begins, Submitting, Querying, CourseSound
<1>8. ASSUME NEW what, NEW k, Finishes(what, k) PROVE CourseSound'
  BY <1>2, <1>8 DEF Finishes, End
<1>9. CASE PageTurned /\ run # NoRun
  BY <1>1, <1>5, <1>9, RunOnJob DEF PageTurned, Runs, book
<1>10. CASE SentAgain
  BY <1>1, <1>5, <1>10, RunOnJob DEF SentAgain, Runs, book
<1>11. CASE UNCHANGED <<run, book>>
  BY <1>2, <1>5, <1>11 DEF book
<1>12. ASSUME NEW k, OtherRemoves(k) PROVE CourseSound'
  BY <1>1, <1>2, <1>5, <1>12, RunOnJob DEF OtherRemoves, Runs, book
<1>13. QED
  BY <1>3, <1>6, <1>7, <1>8, <1>9, <1>10, <1>11, <1>12, RunSteps

\* What was found stays right while the search stays the same.
LEMMA FoundKept ==
  ASSUME SaveIsSound, DriveKept, UNCHANGED config, run # NoRun, run'.at = run.at,
         run'.folder = run.folder, run'.job = run.job, run'.found = run.found
  PROVE  FoundSound'
<1>1. FoundSound /\ provider' = provider /\ job' = job
  BY DEF SaveIsSound, config
<1>2. provider # "pikpak" => run.found = {}
  BY <1>1 DEF FoundSound
<1>3. ASSUME run.at \in Listings, NEW h \in run.found
      PROVE  /\ h.id \in DOMAIN drive' /\ drive'[h.id].parent \in {run.folder, Gone}
             /\ Wanted(run.at, run.job, h.id)'
             /\ h.whole => drive'[h.id].whole
  <2>1. /\ h.id \in EntryIds /\ drive[h.id].parent \in {run.folder, Gone}
        /\ Wanted(run.at, run.job, h.id)
        /\ h.whole => drive[h.id].whole
    BY <1>1, <1>3 DEF FoundSound
  <2>2. run.at # "move"
    BY <1>3 DEF Listings
  <2>3. /\ h.id \in DOMAIN drive' /\ drive'[h.id].name = drive[h.id].name
        /\ drive'[h.id].dir = drive[h.id].dir /\ drive'[h.id].content = drive[h.id].content
        /\ drive'[h.id].parent \in {run.folder, Gone}
        /\ h.whole => drive'[h.id].whole
    BY <2>1, <2>2 DEF DriveKept
  <2>4. Wanted(run.at, run.job, h.id)'
    BY <1>1, <2>1, <2>3 DEF Wanted, Same
  <2>5. QED
    BY <2>3, <2>4
<1>4. ASSUME run.at = "move"
      PROVE  \E h \in run.found : run.found = {h} /\ h.id \in DOMAIN drive'
               /\ ~drive'[h.id].dir
  BY <1>1, <1>4 DEF FoundSound, DriveKept
<1>5. QED
  BY <1>1, <1>2, <1>3, <1>4 DEF FoundSound, EntryIds

\* What a search has found is in its folder and what it looked for.
LEMMA FoundStep ==
  ASSUME SaveIsSound, SaveNext
  PROVE  FoundSound'
<1>1. /\ ConfigTyped /\ DriveTyped /\ RunTyped /\ CourseSound /\ FoundSound
      /\ DriveKept /\ UNCHANGED config /\ provider' = provider /\ job' = job
  BY DriveSteps DEF SaveIsSound, config
<1>2. CASE run' = NoRun
  BY <1>2 DEF FoundSound
<1>3. ASSUME run'.found = {}, run'.at # "move" PROVE FoundSound'
  BY <1>3 DEF FoundSound
<1>4. ASSUME NEW j \in Jobs, Start(j) PROVE FoundSound'
  BY <1>3, <1>4 DEF Start
<1>5. CASE GoesOn
  <2>1. CASE run'.at # "move"
    <3>1. run'.found = {}
      BY <1>5, <2>1 DEF GoesOn, Begins, Targeted
    <3>2. QED
      BY <1>3, <2>1, <3>1
  <2>2. CASE run'.at = "move"
    <3>1. run # NoRun /\ run.at = "receiving"
          /\ \E h \in run'.found : run'.found = {h} /\ h.id \in EntryIds /\ ~drive[h.id].dir
      BY <1>5, <2>2 DEF GoesOn, Begins, Targeted
    <3>2. provider = "pikpak"
      BY <1>1, <3>1 DEF CourseSound
    <3>3. \E h \in run'.found : run'.found = {h} /\ h.id \in DOMAIN drive'
            /\ ~drive'[h.id].dir
      BY <1>1, <3>1 DEF DriveKept
    <3>4. QED
      BY <1>1, <2>2, <3>2, <3>3 DEF FoundSound, EntryIds, Listings
  <2>3. QED
    BY <2>1, <2>2
<1>6. CASE Accepted
  BY <1>3, <1>6 DEF Accepted, Begins
<1>7. ASSUME NEW what, NEW k, Finishes(what, k) PROVE FoundSound'
  BY <1>2, <1>7 DEF Finishes, End
<1>8. CASE PageTurned /\ run # NoRun /\ run.at \in Listings /\ UNCHANGED drive
  <2>1. PICK next \in Int, items \in SUBSET Listed(run.folder),
             found \in SUBSET [id : Nat, whole : BOOLEAN] :
          /\ run' = [run EXCEPT !.marker = next, !.markers = run.markers \cup {next},
                                !.seen = run.seen \cup items, !.attempt = 0, !.found = found]
          /\ provider # "pikpak" => found = {}
          /\ \A h \in found \ run.found :
               /\ h.id \in items /\ Wanted(run.at, run.job, h.id)
                    /\ h.whole = drive[h.id].whole
    BY <1>8 DEF PageTurned
  <2>2. /\ run'.at = run.at /\ run'.folder = run.folder /\ run'.job = run.job
             /\ run'.found = found
    BY <1>1, <1>8, <2>1, RunOnJob DEF Runs
  <2>3. \A h \in found : /\ h.id \in EntryIds /\ drive[h.id].parent \in {run.folder, Gone}
                         /\ Wanted(run.at, run.job, h.id)
                         /\ h.whole => drive[h.id].whole
    <3>1. \A h \in run.found :
            /\ h.id \in EntryIds /\ drive[h.id].parent \in {run.folder, Gone}
            /\ Wanted(run.at, run.job, h.id)
            /\ h.whole => drive[h.id].whole
      BY <1>1, <1>8 DEF FoundSound
    <3>2. \A k \in items : k \in EntryIds /\ drive[k].parent = run.folder
      BY <1>1, ListedSet
    <3>3. QED
      BY <2>1, <3>1, <3>2
  <2>4. \A h \in found : Wanted(run.at, run.job, h.id)'
    BY <1>1, <1>8, <2>2, <2>3 DEF Wanted, Same
  <2>5. run.at # "move"
    BY <1>8 DEF Listings
  <2>6. QED
    BY <1>1, <1>8, <2>1, <2>2, <2>3, <2>4, <2>5 DEF FoundSound, EntryIds
<1>9. CASE SentAgain
  BY <1>1, <1>9, RunOnJob, FoundKept DEF SentAgain, Runs
<1>10. CASE UNCHANGED <<run, book>>
  <2>1. CASE run = NoRun
    BY <1>2, <1>10, <2>1
  <2>2. CASE run # NoRun
    BY <1>1, <1>10, <2>2, FoundKept
  <2>3. QED
    BY <2>1, <2>2
<1>11. ASSUME NEW k, OtherRemoves(k) PROVE FoundSound'
  <2>1. CASE run = NoRun
    BY <1>2, <1>11, <2>1 DEF OtherRemoves
  <2>2. CASE run # NoRun
    <3>1. /\ run'.at = run.at /\ run'.folder = run.folder /\ run'.job = run.job
          /\ run'.found = run.found
      BY <1>1, <1>11, <2>2, RunOnJob DEF OtherRemoves, Runs
    <3>2. QED
      BY <1>1, <2>2, <3>1, FoundKept
  <2>3. QED
    BY <2>1, <2>2
<1>12. QED
  BY <1>4, <1>5, <1>6, <1>7, <1>8, <1>9, <1>10, <1>11, RunSteps

\* What a folder shows after a step.
NextListed(folder) ==
  {k \in DOMAIN drive' : drive'[k].parent = folder
    /\ (drive'[k].whole \/ provider = "pikpak")}

\* A folder lists finitely many entries after a step too.
LEMMA NextListedSet ==
  ASSUME DriveTyped', NEW folder
  PROVE  IsFiniteSet(NextListed(folder)) /\ \A k \in NextListed(folder) : k \in Nat
<1>1. DOMAIN drive' = 1 .. Len(drive') /\ Len(drive') \in Nat
  BY DEF DriveTyped
<1>2. NextListed(folder) \subseteq 1 .. Len(drive')
  BY <1>1 DEF NextListed
<1>3. IsFiniteSet(1 .. Len(drive'))
  BY <1>1, FS_Interval
<1>4. QED
  BY <1>1, <1>2, <1>3, FS_Subset

\* An entry that is not moved stays listed.
LEMMA StillListed ==
  ASSUME DriveKept, NEW folder, NEW k \in Listed(folder), drive'[k].parent = drive[k].parent
  PROVE  k \in NextListed(folder)
BY DEF Listed, In, Visible, DriveKept, NextListed

\* What a search must have found for SearchSound to hold after a step.
LEMMA OnSearch ==
  ASSUME UNCHANGED config, DriveKept, run' # NoRun,
         NEW at, NEW folder, NEW j, NEW marker, NEW keep, NEW left, NEW found,
         run'.at = at, run'.folder = folder, run'.job = j, run'.marker = marker,
         run'.keep = keep, run'.left = left, run'.found = found,
         Numbered => marker >= 1,
         at \in {"folder", "lookup", "recheck"} =>
           /\ \A k \in keep : k \in EntryIds /\ k \in NextListed(folder) /\ Wanted(at, j, k)
           /\ ~(Numbered /\ left) =>
                \A k \in keep :
                  \/ IF Numbered THEN Ahead(k, NextListed(folder)) >= (marker - 1) * PageSize
                     ELSE k < marker
                  \/ \E h \in found : h.id = k,
         at = "folder" /\ provider = "pikpak" /\ operation'[j] # None
           /\ drive'[operation'[j]].parent = Root => operation'[j] \in keep
  PROVE  SearchSound'
<1>1. provider' = provider /\ job' = job /\ (Numbered' <=> Numbered)
  BY DEF config, Numbered
<1>2. Listed(run.folder)' = NextListed(folder)
  BY <1>1 DEF Listed, NextListed, In, Visible, EntryIds
<1>3. \A k : Ahead(k, Listed(run.folder))' = Ahead(k, NextListed(folder))
  BY <1>2 DEF Ahead
<1>4. \A k : Reaches(k)' <=> IF Numbered THEN Ahead(k, NextListed(folder)) >= (marker - 1) * PageSize
                             ELSE k < marker
  BY <1>1, <1>3 DEF Reaches
<1>5. at \in {"folder", "lookup", "recheck"} => \A k \in keep : Wanted(run.at, run.job, k)'
  <2>1. SUFFICES ASSUME at \in {"folder", "lookup", "recheck"}, NEW k \in keep
                 PROVE  Wanted(run.at, run.job, k)'
    OBVIOUS
  <2>2. k \in EntryIds /\ Wanted(at, j, k)
    BY <2>1
  <2>3. drive'[k].name = drive[k].name /\ drive'[k].dir = drive[k].dir
    BY <2>2 DEF DriveKept
  <2>4. QED
    BY <1>1, <2>1, <2>2, <2>3 DEF Wanted
<1>6. QED
  BY <1>1, <1>2, <1>4, <1>5 DEF SearchSound

\* A search that stays at its page misses nothing of what has stayed.
LEMMA SearchKept ==
  ASSUME SaveIsSound, DriveKept, DriveTyped', UNCHANGED config, run # NoRun, run' # NoRun,
         run'.at = run.at, run'.folder = run.folder, run'.job = run.job,
         run'.marker = run.marker, run'.found = run.found,
         NEW lost,
         \A k \in EntryIds : k \notin lost => drive'[k].parent = drive[k].parent,
         \A k \in lost : k \in EntryIds => drive'[k].parent = Gone,
         run'.keep = run.keep \ lost,
         ~run'.left => ~run.left /\ lost \cap In(run.folder) = {},
         operation' = operation
  PROVE  SearchSound'
<1>1. /\ ConfigTyped /\ DriveTyped /\ RunTyped /\ BookTyped /\ SearchSound /\ OperationsSound
      /\ provider' = provider /\ job' = job
  BY DEF SaveIsSound, config
<1>2. CASE run.at \notin Listings
  BY <1>2 DEF SearchSound
<1>3. CASE run.at \in Listings
  <2>1. Numbered => run.marker >= 1
    BY <1>1, <1>3 DEF SearchSound
  <2>2. ASSUME run.at \in {"folder", "lookup", "recheck"}, NEW k \in run'.keep
        PROVE  /\ k \in EntryIds /\ k \in NextListed(run.folder) /\ Wanted(run.at, run.job, k)
               /\ ~(Numbered /\ run'.left) =>
                    \/ IF Numbered
                       THEN Ahead(k, NextListed(run.folder)) >= (run.marker - 1) * PageSize
                       ELSE k < run.marker
                    \/ \E h \in run.found : h.id = k
    <3>1. /\ k \in Listed(run.folder) /\ Wanted(run.at, run.job, k) /\ k \notin lost
          /\ ~(Numbered /\ run.left) => Reaches(k) \/ \E h \in run.found : h.id = k
      BY <1>1, <1>3, <2>2 DEF SearchSound
    <3>2. k \in EntryIds /\ k \in Int /\ drive'[k].parent = drive[k].parent
      BY <1>1, <3>1, ListedSet
    <3>3. k \in NextListed(run.folder)
      BY <3>1, <3>2, StillListed
    <3>4. CASE Numbered /\ ~run'.left
      <4>1. Listed(run.folder) \subseteq NextListed(run.folder)
        <5>1. ASSUME NEW l \in Listed(run.folder) PROVE l \in NextListed(run.folder)
          <6>1. l \in EntryIds /\ l \notin lost
            BY <3>4, <5>1 DEF Listed, In
          <6>2. drive'[l].parent = drive[l].parent
            BY <6>1
          <6>3. QED
            BY <5>1, <6>2, StillListed
        <5>2. QED
          BY <5>1
      <4>2. IsFiniteSet(NextListed(run.folder)) /\ \A l \in NextListed(run.folder) : l \in Nat
        BY NextListedSet
      <4>3. Ahead(k, Listed(run.folder)) <= Ahead(k, NextListed(run.folder))
        BY <3>2, <4>1, <4>2, AheadMonotone
      <4>4. Ahead(k, Listed(run.folder)) \in Nat /\ Ahead(k, NextListed(run.folder)) \in Nat
        BY <1>1, <4>2, ListedSet, AheadTyped
      <4>5. CASE Reaches(k)
        <5>1. Ahead(k, Listed(run.folder)) >= (run.marker - 1) * PageSize
          BY <3>4, <4>5 DEF Reaches
        <5>2. (run.marker - 1) * PageSize \in Int
          BY <1>1, RunOnJob, SaveAssumption
        <5>3. QED
          BY <3>1, <3>2, <3>3, <3>4, <4>3, <4>4, <5>1, <5>2
      <4>6. QED
        BY <3>1, <3>2, <3>3, <3>4, <4>5
    <3>5. CASE ~Numbered
      BY <3>1, <3>2, <3>3, <3>5 DEF Reaches
    <3>6. QED
      BY <3>1, <3>2, <3>3, <3>4, <3>5
  <2>3. ASSUME run.at = "folder", provider = "pikpak", operation[run.job] # None,
               drive'[operation[run.job]].parent = Root
        PROVE  operation[run.job] \in run'.keep
    <3>1. TargetOf(operation[run.job], run.job)
      BY <1>1, <2>3, RunOnJob DEF OperationsSound
    <3>2. operation[run.job] \in EntryIds /\ drive[operation[run.job]].parent = Root
      BY <2>3, <3>1 DEF TargetOf, DriveKept, Root, Gone
    <3>3. operation[run.job] \in run.keep
      BY <1>1, <1>3, <2>3, <3>2 DEF SearchSound
    <3>4. operation[run.job] \notin lost
      BY <2>3, <3>2 DEF Root, Gone
    <3>5. QED
      BY <3>3, <3>4
  <2>4. QED
    BY <2>1, <2>2, <2>3, OnSearch
<1>4. QED
  BY <1>2, <1>3

\* No entry that was there all the time is passed over.
LEMMA SearchStep ==
  ASSUME SaveIsSound, SaveNext
  PROVE  SearchSound'
<1>1. /\ ConfigTyped /\ DriveTyped /\ RunTyped /\ CourseSound /\ SearchSound
           /\ OperationsSound
      /\ DriveKept /\ DriveTyped' /\ UNCHANGED config /\ provider' = provider /\ job' = job
  BY DriveSteps DEF SaveIsSound, config
<1>2. CASE run' = NoRun
  BY <1>2 DEF SearchSound
<1>3. ASSUME NEW j \in Jobs, Start(j) PROVE SearchSound'
  BY <1>3 DEF Start, SearchSound, Listings
<1>4. ASSUME NEW at, NEW folder, NEW target, Begins(at, folder, target), run # NoRun,
             at # run.at,
             operation' = operation \/ at # "folder",
             at = "folder" => folder = Root,
             at \in {"folder", "lookup", "recheck"} => run.at # "move"
      PROVE  SearchSound'
  <2>1. run' # NoRun
    BY <1>4 DEF Begins, NoRun, Runs
  <2>2. FirstMarker \in Int /\ (Numbered => FirstMarker = 1)
        /\ (~Numbered => FirstMarker = MaxEntries + 1)
    BY MarkersTyped
  <2>3. ASSUME at \in {"folder", "lookup", "recheck"}
        PROVE  \A k \in EntryIds : drive'[k].parent = drive[k].parent
    <3>1. ASSUME NEW k, OtherRemoves(k) PROVE FALSE
      <4>1. run'.at = run.at
        BY <1>1, <1>4, <3>1, RunOnJob DEF OtherRemoves, Runs
      <4>2. QED
        BY <1>4, <4>1 DEF Begins
    <3>2. QED
      BY <1>4, <2>3, <3>1, DriveSteps
  <2>4. ASSUME at \in {"folder", "lookup", "recheck"}, NEW k \in run'.keep
        PROVE  /\ k \in EntryIds /\ k \in NextListed(folder) /\ Wanted(at, run.job, k)
               /\ IF Numbered THEN Ahead(k, NextListed(folder)) >= (FirstMarker - 1) * PageSize
                  ELSE k < FirstMarker
    <3>1. k \in Listed(folder) /\ Wanted(at, run.job, k)
      BY <1>4, <2>4 DEF Begins
    <3>2. k \in EntryIds /\ k \in Nat /\ k <= MaxEntries /\ MaxEntries \in Nat
      BY <1>1, <3>1, ListedSet
    <3>3. k \in NextListed(folder)
      BY <1>1, <2>3, <2>4, <3>1, <3>2, StillListed
    <3>4. Ahead(k, NextListed(folder)) \in Nat
      BY <1>1, NextListedSet, AheadTyped
    <3>5. (1 - 1) * PageSize = 0
      BY SaveAssumption
    <3>6. QED
      BY <2>2, <3>1, <3>2, <3>3, <3>4, <3>5
  <2>5. ASSUME at = "folder", provider = "pikpak", operation'[run.job] # None,
               drive'[operation'[run.job]].parent = Root
        PROVE  operation'[run.job] \in run'.keep
    <3>1. operation' = operation /\ folder = Root
      BY <1>4, <2>5
    <3>2. TargetOf(operation[run.job], run.job)
      BY <1>1, <1>4, <2>5, <3>1, RunOnJob DEF OperationsSound
    <3>3. /\ operation[run.job] \in EntryIds /\ drive[operation[run.job]].parent = Root
          /\ drive[operation[run.job]].name = job[run.job].folder
      BY <1>1, <2>5, <3>1, <3>2 DEF TargetOf, DriveKept, Root, Gone
    <3>4. operation[run.job] \in Listed(Root) /\ Wanted("folder", run.job, operation[run.job])
      BY <2>5, <3>3 DEF Listed, In, Visible, Wanted
    <3>5. QED
      BY <1>4, <2>5, <3>1, <3>4 DEF Begins
  <2>6. run'.at = at /\ run'.folder = folder /\ run'.job = run.job
          /\ run'.marker = FirstMarker
    BY <1>4 DEF Begins
  <2> HIDE DEF FirstMarker
  <2>7. Numbered => FirstMarker >= 1
    BY <2>2
  <2>8. QED
    BY <1>1, <2>1, <2>4, <2>5, <2>6, <2>7, OnSearch
<1>5. CASE GoesOn
  <2>1. run # NoRun /\ operation' = operation
    BY <1>5 DEF GoesOn, book
  <2>2. CASE run'.at = run.at
    <3>1. run'.at = "settle" /\ run'.marker = FirstMarker /\ run' # NoRun
          /\ run'.at \in Listings
      BY <1>5, <2>2 DEF GoesOn, Begins, Targeted, NoRun, Listings
    <3>2. Numbered' => FirstMarker >= 1
      BY <1>1, MarkersTyped DEF Numbered
    <3>3. QED
      BY <3>1, <3>2 DEF SearchSound
  <2>3. CASE run'.at # run.at
    <3>1. PICK at, folder, target : Begins(at, folder, target)
            /\ (at = "folder" => folder = Root)
            /\ (at \in {"folder", "lookup", "recheck"} => run.at # "move")
      <4>1. CASE run.at = "resolve" /\ Begins("folder", Root, run.target)
        BY <4>1
      <4>2. CASE run.at = "folder" /\ Begins("mkdir", Root, run.target)
        BY <4>2
      <4>3. CASE Begins("settle", Root, run.target)
        BY <4>3
      <4>4. ASSUME NEW folder, Targeted(folder), run.at \in {"folder", "settle", "mkdir"}
            PROVE  \E at, f, target : Begins(at, f, target)
                     /\ (at = "folder" => f = Root)
                     /\ (at \in {"folder", "lookup", "recheck"} => run.at # "move")
        <5> DEFINE at == IF operation[run.job] = None THEN "lookup"
                         ELSE IF provider = "quark" THEN "status" ELSE "query"
                   place == IF operation[run.job] = None \/ provider = "baidu" THEN folder
                            ELSE operation[run.job]
        <5>1. Begins(at, place, folder) /\ at # "folder"
          BY <4>4 DEF Targeted
        <5> HIDE DEF at, place
        <5>2. QED
          BY <4>4, <5>1
      <4>5. CASE run.at = "lookup" /\ Begins("recheck", run.target, run.target)
        BY <4>5
      <4>6. CASE Begins("source", Share, run.target)
        BY <4>6
      <4>7. CASE Begins("save", run.target, run.target)
        BY <4>7
      <4>8. CASE Begins("root", Root, run.target)
        BY <4>8
      <4>9. CASE \E folder : Begins("receiving", folder, run.target)
        BY <4>9
      <4>10. CASE \E folder : Begins("move", folder, run.target)
        BY <4>10
      <4>11. CASE Begins("confirm", operation[run.job], run.target)
        BY <4>11
      <4>12. QED
        BY <1>5, <4>1, <4>2, <4>3, <4>4, <4>5, <4>6, <4>7, <4>8, <4>9, <4>10, <4>11 DEF
           GoesOn
    <3>2. at # run.at
      BY <2>3, <3>1 DEF Begins
    <3>3. QED
      BY <1>4, <2>1, <3>1, <3>2
  <2>4. QED
    BY <2>2, <2>3
<1>6. CASE Accepted
  <2> DEFINE at == IF provider = "quark" THEN "status" ELSE "query"
  <2>1. Begins(at, run.target, run.target) /\ run # NoRun /\ run.at = "save"
        /\ at \notin {"folder", "lookup", "recheck", "save"}
    BY <1>6 DEF Accepted
  <2> HIDE DEF at
  <2>2. QED
    BY <1>4, <2>1
<1>7. ASSUME NEW what, NEW k, Finishes(what, k) PROVE SearchSound'
  BY <1>2, <1>7 DEF Finishes, End
<1>8. CASE PageTurned /\ run # NoRun /\ run.at \in Listings /\ UNCHANGED drive
  <2>1. PICK next \in Int, items \in SUBSET Listed(run.folder),
             found \in SUBSET [id : Nat, whole : BOOLEAN] :
          /\ run' = [run EXCEPT !.marker = next, !.markers = run.markers \cup {next},
                                !.seen = run.seen \cup items, !.attempt = 0, !.found = found]
          /\ run.found \subseteq found
          /\ \A k \in Listed(run.folder) : Reaches(k) =>
               \/ k \in items /\ (Wanted(run.at, run.job, k) => \E h \in found : h.id = k)
               \/ IF Numbered THEN next = run.marker + 1
                                   /\ Ahead(k, Listed(run.folder)) >= run.marker * PageSize
                  ELSE k < next
          /\ Numbered => next >= 1
    BY <1>8 DEF PageTurned
  <2>2. /\ run'.at = run.at /\ run'.folder = run.folder /\ run'.job = run.job
             /\ run'.found = found
        /\ run'.marker = next /\ run'.keep = run.keep /\ run'.left = run.left /\ run' # NoRun
        /\ run.marker \in Int
    BY <1>1, <1>8, <2>1, RunOnJob DEF Runs, NoRun
  <2>3. NextListed(run.folder) = Listed(run.folder)
    BY <1>8 DEF NextListed, Listed, In, Visible, EntryIds
  <2>4. ASSUME run.at \in {"folder", "lookup", "recheck"}, NEW k \in run.keep
        PROVE  /\ k \in EntryIds /\ k \in NextListed(run.folder) /\ Wanted(run.at, run.job, k)
               /\ ~(Numbered /\ run.left) =>
                    \/ IF Numbered THEN Ahead(k, NextListed(run.folder)) >= (next - 1) * PageSize
                       ELSE k < next
                    \/ \E h \in found : h.id = k
    <3>1. /\ k \in Listed(run.folder) /\ Wanted(run.at, run.job, k)
          /\ ~(Numbered /\ run.left) => Reaches(k) \/ \E h \in run.found : h.id = k
      BY <1>1, <1>8, <2>4 DEF SearchSound
    <3>2. k \in EntryIds
      BY <1>1, <3>1, ListedSet
    <3>3. ASSUME Numbered, next = run.marker + 1,
                 Ahead(k, Listed(run.folder)) >= run.marker * PageSize
          PROVE  Ahead(k, NextListed(run.folder)) >= (next - 1) * PageSize
      <4>1. next - 1 = run.marker
        BY <2>2, <3>3
      <4>2. QED
        BY <2>3, <3>3, <4>1
    <3>4. QED
      BY <2>1, <2>3, <3>1, <3>2, <3>3
  <2>5. ASSUME run.at = "folder", provider = "pikpak", operation'[run.job] # None,
               drive'[operation'[run.job]].parent = Root
        PROVE  operation'[run.job] \in run.keep
    <3>1. operation' = operation
      BY <1>8 DEF PageTurned, book
    <3>2. QED
      BY <1>1, <1>8, <2>5, <3>1 DEF SearchSound
  <2>6. QED
    BY <1>1, <2>1, <2>2, <2>4, <2>5, OnSearch
<1>9. ASSUME run # NoRun, run' # NoRun, run'.at = run.at, run'.folder = run.folder,
             run'.job = run.job, run'.marker = run.marker, run'.found = run.found,
             run'.keep = run.keep, run'.left = run.left, UNCHANGED book,
             \A k \in EntryIds : drive'[k].parent = drive[k].parent
      PROVE  SearchSound'
  <2> DEFINE lost == {}
  <2>1. /\ run'.keep = run.keep \ lost /\ operation' = operation
        /\ \A k \in EntryIds : k \notin lost => drive'[k].parent = drive[k].parent
        /\ \A k \in lost : k \in EntryIds => drive'[k].parent = Gone
        /\ ~run'.left => ~run.left /\ lost \cap In(run.folder) = {}
    BY <1>9 DEF book
  <2> HIDE DEF lost
  <2>2. QED
    BY <1>1, <1>9, <2>1, SearchKept
<1>10. CASE SentAgain
  BY <1>1, <1>9, <1>10, RunOnJob DEF SentAgain, Runs, NoRun
<1>11. ASSUME NEW k, OtherRemoves(k) PROVE SearchSound'
  <2>1. CASE run = NoRun
    BY <1>2, <1>11, <2>1 DEF OtherRemoves
  <2>2. CASE run # NoRun
    <3> DEFINE lost == {k} \cup In(k)
    <3>1. /\ run' = [run EXCEPT !.keep = run.keep \ lost,
                               !.left = run.left \/ lost \cap In(run.folder) # {}]
          /\ operation' = operation
      BY <1>11, <2>2 DEF OtherRemoves, book
    <3>2. \A l \in EntryIds : /\ l \notin lost => drive'[l] = drive[l]
                              /\ l \in lost => drive'[l].parent = Gone
      BY <1>11, RemovedDrive
    <3> HIDE DEF lost
    <3>3. /\ run'.at = run.at /\ run'.folder = run.folder /\ run'.job = run.job
          /\ run'.marker = run.marker /\ run'.found = run.found
          /\ run'.keep = run.keep \ lost /\ run' # NoRun
          /\ ~run'.left => ~run.left /\ lost \cap In(run.folder) = {}
      BY <1>1, <2>2, <3>1, RunOnJob DEF Runs, NoRun
    <3>4. QED
      BY <1>1, <2>2, <3>1, <3>2, <3>3, SearchKept
  <2>3. QED
    BY <2>1, <2>2
<1>12. CASE UNCHANGED <<run, book>> /\ ~\E k : OtherRemoves(k)
  <2>1. CASE run = NoRun
    BY <1>2, <1>12, <2>1
  <2>2. CASE run # NoRun /\ run.at \notin Listings
    BY <1>12, <2>2 DEF SearchSound
  <2>3. CASE run # NoRun /\ run.at \in Listings
    <3>1. \A k \in EntryIds : drive'[k].parent = drive[k].parent
      BY <1>12, <2>3, DriveSteps DEF Listings
    <3>2. QED
      BY <1>9, <1>12, <2>3, <3>1
  <2>4. QED
    BY <2>1, <2>2, <2>3
<1>13. QED
  BY <1>3, <1>5, <1>6, <1>7, <1>8, <1>10, <1>11, <1>12, RunSteps

\* A job whose save was accepted has its operation, or its answer is in doubt.
LEMMA NotSentAgainStep ==
  ASSUME SaveIsSound, SaveNext
  PROVE  NotSentAgain'
<1>1. /\ ConfigTyped /\ DriveTyped /\ RunTyped /\ BookTyped /\ CourseSound /\ NotSentAgain
      /\ provider' = provider
  BY DriveSteps DEF SaveIsSound, config
<1>2. SUFFICES ASSUME provider # "aliyundrive", NEW j \in Jobs, made'[j] >= 1
               PROVE  \/ j \in shapeless'
                      \/ /\ made'[j] = 1
                         /\ \/ operation'[j] # None
                            \/ answer'[j] = "uncertain" /\ ~(run' # NoRun /\ run'.job = j)
  BY <1>1 DEF NotSentAgain
<1>3. ASSUME run # NoRun
      PROVE  /\ run.job \in Jobs
             /\ made[run.job] >= 1 /\ operation[run.job] = None => run.job \in shapeless
  <2>1. run.job \in Jobs
    BY <1>1, <1>3, RunOnJob
  <2>2. QED
    BY <1>1, <1>2, <1>3, <2>1 DEF NotSentAgain
<1>4. CASE UNCHANGED <<made, shapeless>>
  <2>1. CASE j \in shapeless
    BY <1>4, <2>1
  <2>2. CASE j \notin shapeless
    <3>1. made'[j] = 1
          /\ (operation[j] # None \/ (answer[j] = "uncertain"
               /\ ~(run # NoRun /\ run.job = j)))
      BY <1>1, <1>2, <1>4, <2>2 DEF NotSentAgain
    <3>2. ASSUME NEW i \in Jobs, Start(i)
          PROVE  operation'[j] # None \/ (answer'[j] = "uncertain"
                   /\ ~(run' # NoRun /\ run'.job = j))
      BY <3>1, <3>2 DEF Start, book
    <3>3. CASE Accepted
      <4>1. /\ operation' = [operation EXCEPT ![run.job] = IF provider = "quark" THEN Len(WithCopy)
                                                           ELSE run.target]
            /\ run # NoRun /\ run.at = "save" /\ CanCopy /\ drive' = WithCopy
                 /\ answer' = answer
            /\ run'.job = run.job
        BY <3>3 DEF Accepted, Begins
      <4>2. operation[run.job] = None
        BY <1>1, <4>1 DEF CourseSound, Submitting
      <4>3. run.job # j
        BY <3>1, <4>1, <4>2
      <4>4. QED
        BY <1>1, <1>3, <3>1, <4>1, <4>3 DEF BookTyped
    <3>4. ASSUME NEW what, NEW k, Finishes(what, k)
          PROVE  operation'[j] # None \/ (answer'[j] = "uncertain"
                   /\ ~(run' # NoRun /\ run'.job = j))
      BY <1>1, <1>3, <3>1, <3>4 DEF Finishes, End, BookTyped
    <3>5. ASSUME UNCHANGED book, run # NoRun, run'.job = run.job
          PROVE  operation'[j] # None \/ (answer'[j] = "uncertain"
                   /\ ~(run' # NoRun /\ run'.job = j))
      BY <3>1, <3>5 DEF book
    <3>6. CASE UNCHANGED <<run, book>>
      BY <3>1, <3>6 DEF book
    <3>7. GoesOn => UNCHANGED book /\ run # NoRun /\ run'.job = run.job
      BY DEF GoesOn, Begins, Targeted
    <3>8. PageTurned /\ run # NoRun => UNCHANGED book /\ run # NoRun /\ run'.job = run.job
      BY <1>1, RunOnJob DEF PageTurned, Runs
    <3>9. SentAgain => UNCHANGED book /\ run # NoRun /\ run'.job = run.job
      BY <1>1, RunOnJob DEF SentAgain, Runs, book
    <3>10. ASSUME NEW k, OtherRemoves(k)
           PROVE  UNCHANGED book /\ (UNCHANGED run \/ (run # NoRun /\ run'.job = run.job))
      BY <1>1, <3>10, RunOnJob DEF OtherRemoves, Runs
    <3>11. \/ \E i \in Jobs : Start(i)
           \/ Accepted
           \/ \E what, k : Finishes(what, k)
           \/ UNCHANGED book /\ run # NoRun /\ run'.job = run.job
           \/ UNCHANGED <<run, book>>
      BY <3>7, <3>8, <3>9, <3>10, RunSteps
    <3>12. QED
      BY <3>1, <3>2, <3>3, <3>4, <3>5, <3>6, <3>11
  <2>3. QED
    BY <2>1, <2>2
<1>5. CASE ~UNCHANGED <<made, shapeless>>
  <2>1. /\ run # NoRun /\ run.at = "save" /\ There(run.target) /\ CanCopy
        /\ drive' = WithCopy
        /\ made' = [made EXCEPT ![run.job] = made[run.job] + 1]
        /\ \/ Accepted /\ UNCHANGED shapeless
           \/ shapeless' = shapeless \cup {run.job} /\ End("error", None)
           \/ UNCHANGED shapeless /\ End("uncertain", None)
    BY <1>2, <1>5, MadeSteps
  <2>2. operation[run.job] = None /\ TargetOf(run.target, run.job)
    BY <1>1, <2>1 DEF CourseSound, Submitting
  <2>3. made[run.job] = 0 \/ run.job \in shapeless
    BY <1>1, <1>3, <2>1, <2>2 DEF BookTyped
  <2>4. CASE j = run.job
    <3>1. made'[j] = made[run.job] + 1
      BY <1>1, <1>3, <2>1, <2>4 DEF BookTyped
    <3>2. CASE Accepted /\ UNCHANGED shapeless
      <4>1. operation' = [operation EXCEPT ![run.job] = IF provider = "quark" THEN Len(WithCopy)
                                                         ELSE run.target]
        BY <3>2 DEF Accepted
      <4>2. Len(WithCopy) # None /\ run.target # None
        BY <1>1, <2>1, <2>2, SavedCopy, EntryTyped DEF TargetOf, None
      <4>3. operation'[j] = IF provider = "quark" THEN Len(WithCopy) ELSE run.target
        BY <1>1, <1>3, <2>4, <4>1 DEF BookTyped
      <4> HIDE DEF WithCopy
      <4>4. QED
        BY <2>3, <2>4, <3>1, <3>2, <4>2, <4>3
    <3>3. CASE shapeless' = shapeless \cup {run.job}
      BY <2>4, <3>3
    <3>4. CASE UNCHANGED shapeless /\ End("uncertain", None)
      BY <1>1, <1>3, <2>1, <2>3, <2>4, <3>1, <3>4 DEF End, BookTyped
    <3>5. QED
      BY <2>1, <3>2, <3>3, <3>4
  <2>5. CASE j # run.job
    <3>1. made'[j] = made[j]
      BY <1>1, <1>3, <2>1, <2>5 DEF BookTyped
    <3>2. \/ j \in shapeless
          \/ /\ made[j] = 1
             /\ operation[j] # None \/ answer[j] = "uncertain"
      BY <1>1, <1>2, <3>1 DEF NotSentAgain
    <3>3. shapeless \subseteq shapeless'
      BY <2>1
    <3>4. operation'[j] = operation[j] /\ answer'[j] = answer[j]
          /\ (run' = NoRun \/ run'.job = run.job)
      BY <1>1, <1>3, <2>1, <2>5 DEF Accepted, Begins, End, BookTyped
    <3>5. QED
      BY <2>5, <3>1, <3>2, <3>3, <3>4
  <2>6. QED
    BY <2>4, <2>5
<1>6. QED
  BY <1>4, <1>5

\* A copy that Aliyun Drive has made stays to be found in its folder.
LEMMA CopyStaysStep ==
  ASSUME SaveIsSound, SaveNext
  PROVE  CopyStays'
<1>1. /\ ConfigTyped /\ DriveTyped /\ RunTyped /\ BookTyped /\ CourseSound /\ CopyStays
      /\ DriveKept /\ provider' = provider /\ job' = job /\ others' \in {others, others + 1}
  BY DriveSteps, MadeSteps DEF SaveIsSound, config
<1>2. SUFFICES ASSUME provider = "aliyundrive", others' = 0, NEW j \in Jobs, made'[j] >= 1
               PROVE  /\ made'[j] = 1
                      /\ \E k \in DOMAIN drive' :
                           /\ drive'[k].parent = Root /\ drive'[k].name = job[j].folder
                           /\ drive'[k].dir
                           /\ \E l \in DOMAIN drive' : drive'[l].parent = k
                                                       /\ drive'[l].name = job[j].name
  BY <1>1 DEF CopyStays, Is, NameTaken, EntryIds
<1>3. others = 0 /\ \A k \in EntryIds : drive'[k].parent = drive[k].parent
  <2>1. others \in Nat
    BY <1>1 DEF BookTyped
  <2>2. others = 0
    BY <1>1, <1>2, <2>1
  <2>3. ASSUME NEW k, OtherRemoves(k) PROVE FALSE
    BY <1>2, <2>2, <2>3 DEF OtherRemoves
  <2>4. ~(run # NoRun /\ run.at = "move")
    BY <1>1, <1>2 DEF CourseSound
  <2>5. QED
    BY <2>2, <2>3, <2>4, DriveSteps
<1>4. ASSUME made[j] >= 1
      PROVE  /\ made[j] = 1
             /\ \E k \in EntryIds :
                  /\ drive[k].parent = Root /\ drive[k].name = job[j].folder /\ drive[k].dir
                  /\ \E l \in EntryIds : drive[l].parent = k /\ drive[l].name = job[j].name
  BY <1>1, <1>2, <1>3, <1>4 DEF CopyStays, Is, NameTaken
<1>5. CASE made'[j] = made[j]
  <2>1. PICK k \in EntryIds :
               /\ drive[k].parent = Root /\ drive[k].name = job[j].folder /\ drive[k].dir
               /\ \E l \in EntryIds : drive[l].parent = k /\ drive[l].name = job[j].name
    BY <1>2, <1>4, <1>5
  <2>2. QED
    BY <1>1, <1>2, <1>3, <1>4, <1>5, <2>1 DEF DriveKept
<1>6. CASE made'[j] # made[j]
  <2>1. /\ run # NoRun /\ run.at = "save" /\ There(run.target) /\ CanCopy
        /\ drive' = WithCopy
        /\ made' = [made EXCEPT ![run.job] = made[run.job] + 1]
    BY <1>2, <1>6, MadeSteps
  <2>2. run.job \in Jobs /\ j = run.job /\ made'[j] = made[j] + 1 /\ made[j] \in Nat
    <3>1. run.job \in Jobs
      BY <1>1, <2>1, RunOnJob
    <3>2. QED
      BY <1>1, <1>6, <2>1, <3>1 DEF BookTyped
  <2>3. TargetOf(run.target, run.job)
    BY <1>1, <2>1 DEF CourseSound, Submitting
  <2>4. /\ run.target \in EntryIds /\ drive[run.target].parent = Root
        /\ drive[run.target].name = job[j].folder /\ drive[run.target].dir
    BY <2>1, <2>2, <2>3 DEF TargetOf, There, Gone, Root
  <2>5. ~NameTaken(run.target, job[j].name)
    BY <1>2, <2>1, <2>2 DEF CanCopy
  <2>6. made[j] = 0
    <3>1. SUFFICES ASSUME made[j] >= 1 PROVE FALSE
      BY <2>2
    <3>2. PICK k \in EntryIds :
               /\ drive[k].parent = Root /\ drive[k].name = job[j].folder /\ drive[k].dir
               /\ \E l \in EntryIds : drive[l].parent = k /\ drive[l].name = job[j].name
      BY <1>4, <3>1
    <3>3. k = run.target
      BY <1>1, <1>2, <2>4, <3>2 DEF DriveTyped
    <3>4. QED
      BY <2>5, <3>2, <3>3 DEF NameTaken, Is
  <2>7. /\ Len(WithCopy) \in DOMAIN drive' /\ CopyOf(drive'[Len(WithCopy)])
    BY <2>1, SavedCopy
  <2>8. drive'[Len(WithCopy)].parent = run.target /\ drive'[Len(WithCopy)].name = job[j].name
    BY <1>2, <2>2, <2>7 DEF CopyOf
  <2>9. /\ run.target \in DOMAIN drive' /\ drive'[run.target].parent = Root
        /\ drive'[run.target].name = job[j].folder /\ drive'[run.target].dir
    BY <1>1, <1>3, <2>4 DEF DriveKept
  <2> HIDE DEF WithCopy
  <2>10. QED
    BY <2>2, <2>6, <2>7, <2>8, <2>9
<1>7. QED
  BY <1>5, <1>6

-------------------------------------------------------------------------------
(***************************************************************************)
(* ProviderSave: theorems.                                                 *)
(***************************************************************************)

\* At first.
LEMMA SaveInitSound ==
  ASSUME SaveInit
  PROVE  SaveIsSound
<1>1. ConfigTyped
  BY SaveAssumption DEF SaveInit, ConfigTyped
<1>2. DriveTyped
  BY SaveAssumption DEF SaveInit, DriveTyped, EntryIds
<1>3. RunTyped
  BY DEF SaveInit, RunTyped
<1>4. BookTyped
  BY DEF SaveInit, BookTyped, None
<1>5. OperationsSound /\ CourseSound /\ FoundSound /\ SearchSound
  BY DEF SaveInit, OperationsSound, CourseSound, FoundSound, SearchSound
<1>6. NotSentAgain /\ CopyStays
  BY DEF SaveInit, NotSentAgain, CopyStays
<1>7. QED
  BY <1>1, <1>2, <1>3, <1>4, <1>5, <1>6 DEF SaveIsSound

\* Without a step.
LEMMA SaveStutter ==
  ASSUME SaveIsSound, UNCHANGED saveVars
  PROVE  SaveIsSound'
<1>1. /\ UNCHANGED <<provider, job, strange, drive, run, operation, answer, saved, made,
                     shapeless,
                     others, failures>>
  BY DEF saveVars, config, book
<1>2. ConfigTyped' /\ DriveTyped' /\ RunTyped' /\ BookTyped'
  BY <1>1 DEF SaveIsSound, ConfigTyped, DriveTyped, EntryIds, RunTyped, BookTyped
<1>3. OperationsSound' /\ CourseSound'
  BY <1>1 DEF SaveIsSound, OperationsSound, CourseSound, TargetOf, EntryIds
<1>4. FoundSound' /\ SearchSound'
  BY <1>1 DEF SaveIsSound, FoundSound, SearchSound, Wanted, Same, EntryIds, Reaches,
     Ahead, Numbered,
              Listed, In, Visible
<1>5. NotSentAgain' /\ CopyStays'
  BY <1>1 DEF SaveIsSound, NotSentAgain, CopyStays, Is, NameTaken, EntryIds
<1>6. QED
  BY <1>2, <1>3, <1>4, <1>5 DEF SaveIsSound

\* The drive, the run and what is kept of the jobs stay in step, whatever fails, is lost
\* or is changed by others, with any provider, any page size, any number of retries and
\* of entries.
THEOREM SaveIsSoundHolds == SaveSpec => []SaveIsSound
<1>1. SaveInit => SaveIsSound
  BY SaveInitSound
<1>2. SaveIsSound /\ [SaveNext]_saveVars => SaveIsSound'
  <2>1. ASSUME SaveIsSound, SaveNext PROVE SaveIsSound'
    <3>1. ConfigTyped'
      BY <2>1, DriveSteps DEF SaveIsSound, ConfigTyped, config
    <3>2. DriveTyped' /\ RunTyped' /\ BookTyped'
      BY <2>1, DriveSteps, RunTypedStep, BookTypedStep
    <3>3. OperationsSound' /\ CourseSound' /\ FoundSound' /\ SearchSound'
      BY <2>1, OperationsStep, CourseStep, FoundStep, SearchStep
    <3>4. NotSentAgain' /\ CopyStays'
      BY <2>1, NotSentAgainStep, CopyStaysStep
    <3>5. QED
      BY <3>1, <3>2, <3>3, <3>4 DEF SaveIsSound
  <2>2. ASSUME SaveIsSound, UNCHANGED saveVars PROVE SaveIsSound'
    BY <2>2, SaveStutter
  <2>3. QED
    BY <2>1, <2>2
<1>3. QED
  BY <1>1, <1>2, PTL DEF SaveSpec

\* SubmittedOnce: no save that a provider accepted is sent again (transfer_operation.py,
\* execute_transfer), but for an answer of Quark without data and a copy at Aliyun Drive
\* that somebody removed.
THEOREM SubmittedOnceHolds == SaveSpec => []SubmittedOnce
<1>1. SaveIsSound => SubmittedOnce
  <2>1. SUFFICES ASSUME SaveIsSound, NEW j \in Jobs
                 PROVE  made[j] <= 1 \/ j \in shapeless
                          \/ (provider = "aliyundrive" /\ others > 0)
    BY DEF SubmittedOnce
  <2>2. made[j] \in Nat /\ others \in Nat
    BY <2>1 DEF SaveIsSound, BookTyped
  <2>3. CASE provider = "aliyundrive"
    <3>1. others = 0 /\ made[j] >= 1 => made[j] = 1
      BY <2>1, <2>3 DEF SaveIsSound, CopyStays
    <3>2. QED
      BY <2>2, <2>3, <3>1
  <2>4. CASE provider # "aliyundrive"
    <3>1. made[j] >= 1 => j \in shapeless \/ made[j] = 1
      BY <2>1, <2>4 DEF SaveIsSound, NotSentAgain
    <3>2. QED
      BY <2>2, <3>1
  <2>5. QED
    BY <2>3, <2>4
<1>2. QED
  BY <1>1, SaveIsSoundHolds, PTL

\* A folder is created, or a file saved, after a search that missed nothing.
LEMMA NothingMissedStep ==
  ASSUME SaveIsSound, SaveNext, run.at \in {"folder", "lookup", "recheck"},
         run'.at \in {"mkdir", "source", "recheck", "save"} \ {run.at}
  PROVE  run.keep = {} \/ (Numbered /\ run.left)
<1>1. ConfigTyped /\ RunTyped /\ run # NoRun
  BY DEF SaveIsSound, NoRun
<1>2. run' # NoRun
  BY DEF NoRun
<1>3. CASE ListPage
  <2>1. \/ PageTurned \/ End("error", None)
        \/ \E found : SoundFind(found) /\ Outcome(found)
    BY <1>3, ListPageDoes
  <2>2. ASSUME PageTurned PROVE FALSE
    <3>1. run'.at = run.at
      BY <1>1, <2>2, RunOnJob DEF PageTurned, Runs
    <3>2. QED
      BY <3>1
  <2>3. ASSUME NEW found, SoundFind(found), Outcome(found) PROVE found = {}
    <3>1. CASE run.at = "folder"
      <4>1. ASSUME NEW k, WithTarget(k) PROVE FALSE
        <5>1. PICK at \in {"lookup", "status", "query"} :
                \E folder : run' = [Fresh(at, folder) EXCEPT !.target = k]
          BY <4>1 DEF WithTarget
        <5>2. run'.at = at
          BY <5>1 DEF Fresh
        <5>3. QED
          BY <5>2
      <4>2. QED
        BY <1>2, <2>3, <3>1, <4>1 DEF Outcome, End
    <3>2. CASE run.at \in {"lookup", "recheck"}
      BY <1>2, <2>3, <3>2 DEF Outcome, End
    <3>3. QED
      BY <3>1, <3>2
  <2>4. QED
    BY <1>2, <2>1, <2>2, <2>3 DEF SoundFind, End
<1>4. CASE FolderMissing \/ RequestRefused
  BY <1>2, <1>4 DEF FolderMissing, RequestRefused, End
<1>5. CASE RequestTimesOut
  <2>1. \/ run' = [run EXCEPT !.attempt = run.attempt + 1]
        \/ \E what \in {"error", "uncertain"} : End(what, None)
    BY <1>1, <1>5, NoAnswer DEF RequestTimesOut
  <2>2. run'.at = run.at
    BY <1>1, <1>2, <2>1, RunOnJob DEF Runs, End
  <2>3. QED
    BY <2>2
<1>6. ASSUME NEW k, OtherRemoves(k) PROVE FALSE
  <2>1. run'.at = run.at
    BY <1>1, <1>6, RunOnJob DEF OtherRemoves, Runs
  <2>2. QED
    BY <2>1
<1>7. AnswerLost => run.at \in Writes
  BY LostWrites
<1>8. QED
  BY <1>1, <1>3, <1>4, <1>5, <1>6, <1>7
     DEF SaveNext, Step, Start, Resolve, MakeFolder, Save, SaveShapeless, SaveRefused,
        QueryTask, Move,
         CopyCompletes, OtherAdds, Writes

\* A run that reports a file reports one that is there.
LEMMA DoneStep ==
  ASSUME SaveIsSound, SaveNext, NEW j \in Jobs, answer[j] # "done", answer'[j] = "done"
  PROVE  LET e == drive'[saved'[j]]
         IN  IF run.at = "lookup"
               THEN /\ e.parent \in {run.folder, Gone} /\ e.name = job[j].name
                    /\ provider = "pikpak" => e.whole /\ e.content = job[j].content
               ELSE /\ e.whole /\ e.content = job[j].content /\ ~e.dir
                    /\ provider = "quark" \/ e.parent \in {run.target, Gone}
<1>1. ConfigTyped /\ DriveTyped /\ RunTyped /\ BookTyped /\ OperationsSound /\ CourseSound
  BY DEF SaveIsSound
<1>2. PICK what, k : Finishes(what, k)
  BY RunSteps DEF Start, GoesOn, Accepted, PageTurned, SentAgain, OtherRemoves, book
<1>3. run # NoRun /\ run.job \in Jobs /\ run' = NoRun
  BY <1>1, <1>2, RunOnJob DEF Finishes, End
<1>4. /\ \A w, l : End(w, l) => j = run.job /\ w = "done" /\ saved'[j] = l
  BY <1>1, <1>3 DEF End, BookTyped
<1>5. CASE ListPage
  <2>1. /\ run.at \in Listings /\ drive' = drive /\ There(run.folder)
        /\ \/ PageTurned \/ End("error", None)
           \/ \E found : SoundFind(found) /\ Outcome(found)
    BY <1>5, ListPageDoes DEF ListPage
  <2>2. ~PageTurned /\ ~UNCHANGED answer
    BY DEF PageTurned, book
  <2>3. PICK found : SoundFind(found) /\ Outcome(found)
    BY <1>4, <2>1, <2>2
  <2>4. \/ /\ run.at = "lookup"
           /\ \E h \in found : /\ End("done", h.id)
                               /\ provider = "pikpak" => h.whole /\ Same(h.id, run.job)
        \/ run.at \in {"query", "confirm"} /\ \E h \in found : h.whole /\ End("done", h.id)
    BY <1>4, <2>2, <2>3 DEF Outcome, Go, WithTarget, book
  <2>5. \A h \in found :
          /\ h.id \in EntryIds /\ drive[h.id].parent \in {run.folder, Gone}
          /\ Wanted(run.at, run.job, h.id)
          /\ h.whole => drive[h.id].whole
    BY <2>3 DEF SoundFind
  <2>6. CASE run.at = "lookup"
    BY <1>4, <2>1, <2>4, <2>5, <2>6 DEF Wanted, Same
  <2>7. CASE run.at \in {"query", "confirm"}
    <3>1. run.folder = run.target
      <4>1. /\ operation[run.job] # None /\ provider # "quark"
            /\ \/ provider = "baidu" \/ operation[run.job] = run.target
               \/ drive[operation[run.job]].parent = Gone
            /\ run.folder = IF provider = "baidu" THEN run.target ELSE operation[run.job]
        BY <1>1, <1>3, <2>7 DEF CourseSound, Querying
      <4>2. operation[run.job] \in EntryIds
        BY <1>1, <1>3, <4>1 DEF OperationsSound, TargetOf
      <4>3. QED
        BY <2>1, <4>1, <4>2 DEF There
    <3>2. PICK h \in found : h.whole /\ End("done", h.id)
      BY <2>4, <2>7
    <3>3. QED
      BY <1>4, <2>1, <2>5, <2>7, <3>1, <3>2 DEF Wanted, Same
  <2>8. QED
    BY <2>4, <2>6, <2>7
<1>6. CASE Save
  <2>1. /\ run.at = "save" /\ CanCopy /\ drive' = WithCopy
    BY <1>6 DEF Save
  <2>2. provider = "aliyundrive" /\ End("done", Len(WithCopy))
    BY <1>6, <2>1 DEF Save
  <2>3. CopyOf(drive'[Len(WithCopy)])
    BY <1>3, <2>1, SavedCopy
  <2>4. QED
    BY <1>4, <2>1, <2>2, <2>3 DEF CopyOf
<1>7. CASE QueryTask
  <2>1. /\ run.at = "status" /\ drive' = drive /\ drive[operation[run.job]].whole
        /\ End("done", operation[run.job])
    BY <1>4, <1>7 DEF QueryTask
  <2>2. provider = "quark" /\ operation[run.job] # None
    BY <1>1, <1>3, <2>1 DEF CourseSound
  <2>3. QED
    BY <1>1, <1>3, <1>4, <2>1, <2>2 DEF OperationsSound
<1>8. ASSUME End("error", None) \/ End("uncertain", None) \/ UNCHANGED answer PROVE FALSE
  BY <1>4, <1>8
<1>9. Unanswered => FALSE
  BY <1>1, <1>3, <1>4, <1>8, NoAnswer DEF book
<1>10. MakeFolder => FALSE
  BY <1>4, <1>8, FolderMade DEF Go, WithTarget, book
<1>11. QED
  BY <1>5, <1>6, <1>7, <1>8, <1>9, <1>10
     DEF SaveNext, Step, Start, Resolve, Go, FolderMissing, SaveShapeless, SaveRefused,
        Move, AnswerLost,
         RequestTimesOut, RequestRefused, CopyCompletes, OtherRemoves, OtherAdds, book

\* SavesAreRight: a folder is created, and a file saved, only after a search that missed
\* no entry that was there all the time; and the file that a run reports
\* (query_save_operation, find_target_item) is there.
THEOREM SavesAreRightHold == SaveSpec => SavesAreRight
<1>1. ASSUME SaveIsSound, [SaveNext]_saveVars
      PROVE  [run.at \in {"folder", "lookup", "recheck"}
              /\ run'.at \in {"mkdir", "source", "recheck", "save"} \ {run.at} =>
                \/ run.keep = {}
                \/ Numbered /\ run.left]_saveVars
  BY <1>1, NothingMissedStep
<1>2. ASSUME SaveIsSound, [SaveNext]_saveVars
      PROVE  [\A j \in Jobs : answer[j] # "done" /\ answer'[j] = "done" =>
                LET e == drive'[saved'[j]]
                IN  IF run.at = "lookup"
                      THEN /\ e.parent \in {run.folder, Gone} /\ e.name = job[j].name
                           /\ provider = "pikpak" => e.whole /\ e.content = job[j].content
                      ELSE /\ e.whole /\ e.content = job[j].content /\ ~e.dir
                           /\ provider = "quark" \/ e.parent \in {run.target, Gone}]_saveVars
  BY <1>2, DoneStep
<1>3. SaveSpec => []SaveIsSound
  BY SaveIsSoundHolds
<1>4. SaveSpec => NothingIsMissed
  BY <1>1, <1>3, PTL DEF SaveSpec, NothingIsMissed
<1>5. SaveSpec => DoneIsThere
  BY <1>2, <1>3, PTL DEF SaveSpec, DoneIsThere
<1>6. QED
  BY <1>4, <1>5 DEF SavesAreRight
===============================================================================
