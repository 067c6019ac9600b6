---------------------------- MODULE Registration ----------------------------
(***************************************************************************)
(* Opening an account: SendVerificationCode, Register, the bloom filter on *)
(* user names and the goroutine that warms it up after the process starts. *)
(* (internal/service/user_service.go:77-347, the repository queries they   *)
(* use, and the unique indexes of internal/model/user.go:13-14); and the   *)
(* row that a login finds by name or email (repository/user_repo.go:130).  *)
(*                                                                         *)
(* Redis holds the verification codes, the send-rate keys and the bloom    *)
(* filter and outlives the process; so do the users table and the mails.   *)
(* A request is one call; it runs one Redis, database or mail operation    *)
(* per step.                                                               *)
(***************************************************************************)
EXTENDS Formats, FiniteSets

CONSTANTS
    Requests,       \* the calls of one run; their number bounds the run
    Usernames,      \* the texts that calls carry as user name,
    Emails,         \*   as email address,
    Passwords,      \*   and as password
    OldAccounts,    \* the users table when the run starts, in id order
    NoCode,         \* no key in Redis
    Earlier,        \* marks the accounts and codes of before the run
    PageSize,       \* user names per warm-up page (5000 in the code)
    MaxCrashes,     \* bounds the restarts of the process
    Faults          \* whether Redis, the database and the mail server may fail

Account == [by : Requests \cup {Earlier}, username : Usernames, email : Emails]

ASSUME OldAccountsAssumption ==
    /\ OldAccounts \in Seq(Account)
    /\ \A i \in DOMAIN OldAccounts : OldAccounts[i].by = Earlier
    /\ \A i, j \in DOMAIN OldAccounts :
         \/ OldAccounts[i].username = OldAccounts[j].username
         \/ OldAccounts[i].email = OldAccounts[j].email
         => i = j
    /\ \A i \in DOMAIN OldAccounts :
         IsValidUsername(OldAccounts[i].username) /\ IsValidEmail(OldAccounts[i].email)
ASSUME TextsAssumption ==
    /\ Usernames # {} /\ Emails # {}
    /\ \A text \in Usernames \cup Emails : DOMAIN text = 1 .. Len(text)
ASSUME CodesAssumption == NoCode # Earlier /\ {NoCode, Earlier} \cap Requests = {}
ASSUME BoundsAssumption == PageSize \in Nat \ {0} /\ MaxCrashes \in Nat /\ Faults \in BOOLEAN

VARIABLES
    users,      \* users: the rows by id, soft-deleted ones included
    deleted,    \* users: the ids with deleted_at
    bloom,      \* Redis: the user names added to the filter
    codes,      \* Redis: verify_code:<email>
    rateKeys,   \* Redis: the emails with a verify_code_rate:<email> key
    mails,      \* the <<email, code>> pairs that reached a mailbox
    bfReady,    \* process: register may trust the filter
    future,     \* process: the warm-up page being fetched
    page,       \* process: the warm-up page being added
    pc,         \* process: where each request is
    form,       \* process: what each request carries
    crashes,    \* counts the restarts
    admitted,   \* history: sends let through by a rate key that Redis confirmed to
                \*   be new, since that key last expired
    lapses      \* history: whose part in filling the filter has failed since the
                \*   process started: requests, or the warm-up

redis == <<bloom, codes, rateKeys>>
warmUp == <<bfReady, future, page, lapses>>
vars == <<users, deleted, redis, mails, warmUp, pc, form, crashes, admitted>>

Idle == "idle"
TheWarmUp == "warm-up"
Submitted(after) == [state |-> "submitted", after |-> after]
Fetched(names, size, nextID) ==
    [state |-> "fetched", names |-> names, size |-> size, nextID |-> nextID]
Broken == [state |-> "broken"]
NoFuture == [state |-> "none"]
Forms == [username : Usernames, email : Emails, code : Requests \cup {Earlier, NoCode}]
RegisterSteps == {"consume", "fullCheck", "bloomCheck", "fallbackCheck", "usernameCheck",
                  "emailCheck", "create", "bloomAdd"}
SendSteps == {"rate", "store", "mail", "undo"}
Replied == {"registered", "sent", "refused"}

-----------------------------------------------------------------------------
\* How a write ends: applied and confirmed, refused, applied but unconfirmed.
Outcomes == IF Faults THEN {"done", "refused", "unconfirmed"} ELSE {"done"}
Applied(o) == o # "refused"
Confirmed(o) == o = "done"

\* Whether a read is answered.
Answers == IF Faults THEN BOOLEAN ELSE {TRUE}

Go(r, to) == pc' = [pc EXCEPT ![r] = to]

\* gorm's queries on users see the rows without deleted_at.
Live == {users[i] : i \in DOMAIN users \ deleted}
UsernameExists(n) == \E a \in Live : a.username = n
EmailExists(e) == \E a \in Live : a.email = e
Taken(n, e) == \E a \in Live : a.username = n \/ a.email = e

\* GetByUsernameOrEmail: what a login may find under the one text it is given.
Found(text) == {a \in Live : a.username = text \/ a.email = text}

\* Mistake: the email column has a plain index.
InsertableByUsername(n, e) == \A i \in DOMAIN users : users[i].username # n

\* Mistake: the unique indexes leave the rows with deleted_at out.
InsertableIfLive(n, e) == ~Taken(n, e)

\* The unique indexes on username and email cover every row.
Insertable(n, e) == \A i \in DOMAIN users : users[i].username # n /\ users[i].email # e

\* The live rows after an id, in id order, at most PageSize of them.
NextIds(after) ==
    LET rest == {i \in DOMAIN users \ deleted : i > after}
    IN  {i \in rest : Cardinality({j \in rest : j <= i}) <= PageSize}

\* Mistake: the cursor handed back is one past the last row of the page.
PageAfterSkipping(after) ==
    LET ids == NextIds(after)
    IN  Fetched({users[i].username : i \in ids}, Cardinality(ids),
                IF ids = {} THEN 0 ELSE Max(ids) + 1)

\* Mistake: the cursor handed back is the one that came in.
PageAfterStuck(after) ==
    LET ids == NextIds(after)
    IN  Fetched({users[i].username : i \in ids}, Cardinality(ids), after)

\* ListUsernamesByPage: a page of user names, and the id of its last row.
PageAfter(after) ==
    LET ids == NextIds(after)
    IN  Fetched({users[i].username : i \in ids}, Cardinality(ids),
                IF ids = {} THEN 0 ELSE Max(ids))

\* The process starts: an empty in-memory state and a warm-up goroutine that has
\* submitted its first page.
Booted ==
    /\ bfReady' = FALSE
    /\ future' = Submitted(0)
    /\ page' = NoFuture
    /\ lapses' = {}

Init ==
    /\ users = OldAccounts
    /\ deleted = {}
    /\ bloom = {}
    /\ codes \in [Emails -> {NoCode, Earlier}]
    /\ \A e \in Emails : codes[e] = Earlier => IsValidEmail(e)
    /\ rateKeys = {}
    /\ mails = {<<e, Earlier>> : e \in {f \in Emails : codes[f] = Earlier}}
    /\ bfReady = FALSE
    /\ future = Submitted(0)
    /\ page = NoFuture
    /\ pc = [r \in Requests |-> Idle]
    /\ form \in [Requests -> {[username |-> CHOOSE n \in Usernames : TRUE,
                               email |-> CHOOSE e \in Emails : TRUE, code |-> NoCode]}]
    /\ crashes = 0
    /\ admitted = [e \in Emails |-> 0]
    /\ lapses = {}

-----------------------------------------------------------------------------
\* A call whose texts are not well-formed is refused before it does anything.
RefuseForm(r, formed) ==
    /\ pc[r] = Idle /\ ~formed
    /\ Go(r, "refused")
    /\ UNCHANGED <<users, deleted, redis, mails, warmUp, form, crashes, admitted>>

\* SendVerificationCode.
SendVerificationCode(r, e) ==
    /\ pc[r] = Idle /\ IsValidEmail(e)
    /\ form' = [form EXCEPT ![r].email = e]
    /\ \E answered \in Answers : Go(r, IF answered /\ ~EmailExists(e) THEN "rate" ELSE "refused")
    /\ UNCHANGED <<users, deleted, redis, mails, warmUp, crashes, admitted>>

\* Mistake: the key is looked up and never set.
LimitRateUnset(r) ==
    LET e == form[r].email
    IN  /\ pc[r] = "rate"
        /\ admitted' = IF e \notin rateKeys THEN [admitted EXCEPT ![e] = @ + 1] ELSE admitted
        /\ Go(r, IF e \notin rateKeys THEN "store" ELSE "refused")
        /\ UNCHANGED <<users, deleted, redis, mails, warmUp, form, crashes>>

\* SetNX of the rate key; an error of Redis lets the send through.
LimitRate(r) ==
    LET e == form[r].email
    IN  /\ pc[r] = "rate"
        /\ \E o \in Outcomes :
             LET isNew == Confirmed(o) /\ e \notin rateKeys
             IN  /\ rateKeys' = IF Applied(o) THEN rateKeys \cup {e} ELSE rateKeys
                 /\ admitted' = IF isNew THEN [admitted EXCEPT ![e] = @ + 1] ELSE admitted
                 /\ Go(r, IF isNew \/ ~Confirmed(o) THEN "store" ELSE "refused")
        /\ UNCHANGED <<users, deleted, bloom, codes, mails, warmUp, form, crashes>>

\* The new code, named by its request, replaces whatever code the email had.
StoreCode(r) ==
    /\ pc[r] = "store"
    /\ \E o \in Outcomes :
         /\ codes' = IF Applied(o) THEN [codes EXCEPT ![form[r].email] = r] ELSE codes
         /\ Go(r, IF Confirmed(o) THEN "mail" ELSE "refused")
    /\ UNCHANGED <<users, deleted, bloom, rateKeys, mails, warmUp, form, crashes, admitted>>

\* Mistake: the code is stored once more so that its life starts with the mail.
MailCodeRefreshing(r) ==
    /\ pc[r] = "mail"
    /\ \E o \in Outcomes :
         /\ mails' = IF Applied(o) THEN mails \cup {<<form[r].email, r>>} ELSE mails
         /\ codes' = IF Confirmed(o) THEN [codes EXCEPT ![form[r].email] = r] ELSE codes
         /\ Go(r, IF Confirmed(o) THEN "sent" ELSE "undo")
    /\ UNCHANGED <<users, deleted, bloom, rateKeys, warmUp, form, crashes, admitted>>

MailCode(r) ==
    /\ pc[r] = "mail"
    /\ \E o \in Outcomes :
         /\ mails' = IF Applied(o) THEN mails \cup {<<form[r].email, r>>} ELSE mails
         /\ Go(r, IF Confirmed(o) THEN "sent" ELSE "undo")
    /\ UNCHANGED <<users, deleted, redis, warmUp, form, crashes, admitted>>

\* A mail that could not be sent takes the email's code with it, best effort.
UndoCode(r) ==
    /\ pc[r] = "undo"
    /\ \E o \in Outcomes :
         codes' = IF Applied(o) THEN [codes EXCEPT ![form[r].email] = NoCode] ELSE codes
    /\ Go(r, "refused")
    /\ UNCHANGED <<users, deleted, bloom, rateKeys, mails, warmUp, form, crashes, admitted>>

\* Sixty seconds, and five minutes, pass.
ExpireRateKey(e) ==
    /\ e \in rateKeys
    /\ rateKeys' = rateKeys \ {e}
    /\ admitted' = [admitted EXCEPT ![e] = 0]
    /\ UNCHANGED <<users, deleted, bloom, codes, mails, warmUp, pc, form, crashes>>

ExpireCode(e) ==
    /\ codes[e] # NoCode
    /\ codes' = [codes EXCEPT ![e] = NoCode]
    /\ UNCHANGED <<users, deleted, bloom, rateKeys, mails, warmUp, pc, form, crashes, admitted>>

-----------------------------------------------------------------------------
\* The RPC fills in no code: the call is refused for that, if for nothing else.
RegisterRPC(r) == RefuseForm(r, FALSE)

\* Register: a code some mailbox received is compared with the email's code.
Register(r, n, e, c) ==
    /\ pc[r] = Idle /\ IsValidUsername(n) /\ IsValidEmail(e)
    /\ form' = [form EXCEPT ![r] = [username |-> n, email |-> e, code |-> c]]
    /\ \E answered \in Answers : Go(r, IF answered /\ codes[e] = c THEN "consume" ELSE "refused")
    /\ UNCHANGED <<users, deleted, redis, mails, warmUp, crashes, admitted>>

\* The code is deleted, best effort; then the filter is consulted if it is ready.
ConsumeCode(r) ==
    /\ pc[r] = "consume"
    /\ \E o \in Outcomes :
         codes' = IF Applied(o) THEN [codes EXCEPT ![form[r].email] = NoCode] ELSE codes
    /\ Go(r, IF bfReady THEN "bloomCheck" ELSE "fullCheck")
    /\ UNCHANGED <<users, deleted, bloom, rateKeys, mails, warmUp, form, crashes, admitted>>

\* ExistsByUsernameOrEmail, while the filter warms up or when Redis is away; in
\* the second case the email is looked up once more.
FullCheck(r) ==
    /\ pc[r] \in {"fullCheck", "fallbackCheck"}
    /\ \E answered \in Answers :
         Go(r, IF ~answered \/ Taken(form[r].username, form[r].email) THEN "refused"
               ELSE IF pc[r] = "fullCheck" THEN "create" ELSE "emailCheck")
    /\ UNCHANGED <<users, deleted, redis, mails, warmUp, form, crashes, admitted>>

\* The filter may report a name it was never given, never the other way round.
BloomCheck(r) ==
    /\ pc[r] = "bloomCheck"
    /\ \/ Go(r, "usernameCheck")
       \/ form[r].username \notin bloom /\ Go(r, "emailCheck")
       \/ Faults /\ Go(r, "fallbackCheck")
    /\ UNCHANGED <<users, deleted, redis, mails, warmUp, form, crashes, admitted>>

\* GetByUsername and GetByEmail: any error counts as "no such row".
UsernameCheck(r) ==
    /\ pc[r] = "usernameCheck"
    /\ \E answered \in Answers :
         Go(r, IF answered /\ UsernameExists(form[r].username) THEN "refused" ELSE "emailCheck")
    /\ UNCHANGED <<users, deleted, redis, mails, warmUp, form, crashes, admitted>>

EmailCheck(r) ==
    /\ pc[r] = "emailCheck"
    /\ \E answered \in Answers :
         Go(r, IF answered /\ EmailExists(form[r].email) THEN "refused" ELSE "create")
    /\ UNCHANGED <<users, deleted, redis, mails, warmUp, form, crashes, admitted>>

\* The INSERT, which the unique indexes refuse for a name or email ever used.
Create(r) ==
    /\ pc[r] = "create"
    /\ \E o \in Outcomes :
         LET inserted == Applied(o) /\ Insertable(form[r].username, form[r].email)
         IN  /\ users' = IF inserted
                         THEN Append(users, [by |-> r, username |-> form[r].username,
                                             email |-> form[r].email])
                         ELSE users
             /\ Go(r, IF inserted /\ Confirmed(o) THEN "bloomAdd" ELSE "refused")
             /\ lapses' = IF inserted /\ ~Confirmed(o) THEN lapses \cup {r} ELSE lapses
    /\ UNCHANGED <<deleted, redis, mails, bfReady, future, page, form, crashes, admitted>>

\* The name is added to the filter, best effort.  (The token that is stored
\* next, best effort too, is that of Accounts.tla.)
BloomAdd(r) ==
    /\ pc[r] = "bloomAdd"
    /\ \E o \in Outcomes :
         /\ bloom' = IF Applied(o) THEN bloom \cup {form[r].username} ELSE bloom
         /\ lapses' = IF Applied(o) THEN lapses ELSE lapses \cup {r}
    /\ Go(r, "registered")
    /\ UNCHANGED <<users, deleted, codes, rateKeys, mails, bfReady, future, page, form, crashes, admitted>>

\* Mistake: the row is removed instead of marked.
HardDelete(i) ==
    /\ i \in DOMAIN users \ deleted
    /\ users' = RemoveAt(users, i)
    /\ deleted' = deleted \cup {i}
    /\ UNCHANGED <<redis, mails, warmUp, pc, form, crashes, admitted>>

\* DeleteUser of some user id, by its statement on users.
SoftDelete(i) ==
    /\ i \in DOMAIN users \ deleted
    /\ deleted' = deleted \cup {i}
    /\ UNCHANGED <<users, redis, mails, warmUp, pc, form, crashes, admitted>>

-----------------------------------------------------------------------------
WarmUpLapses == lapses' = lapses \cup {TheWarmUp}

\* A pool worker runs the submitted query.
FetchPage ==
    /\ future.state = "submitted"
    /\ \/ future' = PageAfter(future.after) /\ UNCHANGED lapses
       \/ Faults /\ future' = Broken /\ WarmUpLapses
    /\ UNCHANGED <<users, deleted, redis, mails, bfReady, page, pc, form, crashes, admitted>>

\* However the warm-up loop ends, the filter is declared ready.
WarmedUp ==
    /\ bfReady' = TRUE
    /\ future' = NoFuture
    /\ page' = NoFuture

\* The loop takes a page; after a full one it submits the query for the next
\* before it adds this one.
TakePage ==
    /\ page.state = "none"
    /\ future.state \in {"fetched", "broken"}
    /\ \/ /\ future.state = "fetched" => future.size = 0
          /\ WarmedUp /\ UNCHANGED lapses
       \/ /\ future.state = "fetched" /\ future.size # 0
          /\ page' = future
          /\ future' = IF future.size = PageSize THEN Submitted(future.nextID) ELSE NoFuture
          /\ UNCHANGED <<bfReady, lapses>>
       \/ /\ Faults /\ future.state = "fetched" /\ future.size = PageSize
          /\ WarmedUp /\ WarmUpLapses
    /\ UNCHANGED <<users, deleted, redis, mails, pc, form, crashes, admitted>>

\* AddBulk: one pipeline; a failure may leave any part of the page in the filter.
AddPage ==
    /\ page.state = "fetched"
    /\ \/ /\ bloom' = bloom \cup page.names
          /\ IF page.size < PageSize THEN WarmedUp
             ELSE page' = NoFuture /\ UNCHANGED <<bfReady, future>>
          /\ UNCHANGED lapses
       \/ /\ Faults
          /\ \E part \in SUBSET page.names : bloom' = bloom \cup part
          /\ WarmedUp /\ WarmUpLapses
    /\ UNCHANGED <<users, deleted, codes, rateKeys, mails, pc, form, crashes, admitted>>

\* The process stops and starts again: requests in progress get no answer but
\* an error, and the filter counts as cold until it is warmed up once more.
Crash ==
    /\ crashes < MaxCrashes
    /\ crashes' = crashes + 1
    /\ pc' = [r \in Requests |-> IF pc[r] \in RegisterSteps \cup SendSteps THEN "refused" ELSE pc[r]]
    /\ Booted
    /\ UNCHANGED <<users, deleted, redis, mails, form, admitted>>

-----------------------------------------------------------------------------
Proceed(r) ==
    \/ LimitRate(r) \/ StoreCode(r) \/ MailCode(r) \/ UndoCode(r)
    \/ ConsumeCode(r) \/ FullCheck(r) \/ BloomCheck(r) \/ UsernameCheck(r)
    \/ EmailCheck(r) \/ Create(r) \/ BloomAdd(r)

WarmUp == FetchPage \/ TakePage \/ AddPage

Next ==
    \/ \E r \in Requests, e \in Emails :
         SendVerificationCode(r, e) \/ RefuseForm(r, IsValidEmail(e))
    \/ \E r \in Requests, n \in Usernames, e \in Emails, pw \in Passwords :
         \/ RefuseForm(r, IsValidUsername(n) /\ IsValidEmail(e) /\ IsValidPassword(pw))
         \/ IsValidPassword(pw) /\ \E m \in mails : Register(r, n, e, m[2])
    \/ \E r \in Requests : RegisterRPC(r) \/ Proceed(r)
    \/ WarmUp
    \/ \E e \in Emails : ExpireRateKey(e) \/ ExpireCode(e)
    \/ \E i \in DOMAIN users : SoftDelete(i)
    \/ Crash

Fairness == WF_vars(WarmUp) /\ \A r \in Requests : WF_vars(Proceed(r))

Spec == Init /\ [][Next]_vars /\ Fairness

-----------------------------------------------------------------------------
PageOK(p) ==
    p.state = "fetched" => p.names \subseteq Usernames /\ p.size \in Nat /\ p.nextID \in Nat

TableOK == users \in Seq(Account) /\ deleted \subseteq DOMAIN users
StoresOK ==
    /\ bloom \subseteq Usernames
    /\ codes \in [Emails -> Requests \cup {Earlier, NoCode}]
    /\ rateKeys \subseteq Emails
    /\ mails \subseteq Emails \X (Requests \cup {Earlier})
WarmUpOK ==
    /\ bfReady \in BOOLEAN
    /\ future.state \in {"none", "submitted", "fetched", "broken"} /\ PageOK(future)
    /\ page.state \in {"none", "fetched"} /\ PageOK(page)
    /\ lapses \subseteq Requests \cup {TheWarmUp}
CallsOK ==
    /\ pc \in [Requests -> {Idle} \cup RegisterSteps \cup SendSteps \cup Replied]
    /\ form \in [Requests -> Forms]
    /\ crashes \in 0 .. MaxCrashes
    /\ admitted \in [Emails -> Nat]
TypeOK == TableOK /\ StoresOK /\ WarmUpOK /\ CallsOK

\* Registration implements AccountDirectory: one account at most per user name
\* and per email, for ever, and success only for an account that is there.
\* Only the unique indexes see to it: two requests may both pass every check.
DirectoryAnswer == [r \in Requests |-> IF pc[r] = "registered" THEN "ok"
                                       ELSE IF pc[r] = "refused" THEN "refused" ELSE "none"]
D == INSTANCE AccountDirectory WITH accounts <- ToSet(users), answer <- DirectoryAnswer
DirectorySpec == D!Spec

\* An account opens only for a mailbox that received the code its request
\* carries, and no mailed code opens two: the code is compared and deleted in
\* two steps, the deletion may fail, and two requests may both get past it.
CodeOpensOneAccount ==
    \A i \in DOMAIN users : users[i].by \in Requests =>
        LET proof(j) == <<users[j].email, form[users[j].by].code>>
        IN  /\ proof(i) \in mails
            /\ \A j \in DOMAIN users \ {i} : users[j].by \in Requests => proof(j) # proof(i)

\* A code that was used, replaced, undone or has expired is never again what the
\* address is asked for, whatever failed and whichever calls for the address are still
\* in progress: each code is good for one stretch of time, from the step that stores it.
Issued(c) == c = Earlier \/ (c \in Requests /\ pc[c] \notin {Idle, "rate", "store"})
SpentCodesStaySpent ==
    [][\A e \in Emails, c \in Requests \cup {Earlier} :
         Issued(c) /\ codes[e] # c => codes'[e] # c]_vars

\* A filter that counts as ready, in a process whose warm-up has not failed, has every
\* user name that is taken, but for the accounts whose own request is about to add its
\* name or has failed to since the process started: those that register while the
\* warm-up pages through the table are not missed, and a failure or a crash between the
\* INSERT and the filter is made up for by the warm-up of the next process.
BloomCoversUsernames ==
    bfReady /\ TheWarmUp \notin lapses =>
        \A a \in Live : \/ a.username \in bloom
                        \/ a.by \in lapses
                        \/ \E r \in Requests : pc[r] = "bloomAdd" /\ a.by = r

\* The text a user logs in with finds one row at most, although it is looked up as
\* a user name or an email: no account has for its name the address of another.
\* The unique indexes do not see to it, since they are one for each column; it takes
\* them and the formats together.
LoginFindsOneRow == \A text \in Usernames \cup Emails : Cardinality(Found(text)) <= 1

\* One send at most gets through on a rate key that Redis confirms to be new, per life of
\* the key, however many sends find the address free at the same time; what gets through
\* besides is let through by an error of Redis.
OneSendPerWindow == \A e \in Emails : admitted[e] <= 1

\* What the warm-up has left to do at most, in steps: for each row behind its cursor, to
\* fetch, take and add a page of it.
StepsLeft ==
    LET behind(cursor) == 3 * (Len(users) - cursor)
    IN  (CASE future.state = "none" -> 0
           [] future.state = "submitted" -> behind(future.after) + 2
           [] future.state = "fetched" /\ future.size > 0 -> behind(future.nextID) + 4
           [] OTHER -> 1)
        + (IF page.state = "fetched" THEN 1 ELSE 0)

\* The warm-up gets on with every step it takes, whatever is inserted, deleted or fails
\* meanwhile: no page is asked for twice, so that a table of so many rows takes so many
\* steps, and a row that is inserted three more.
WarmUpGetsOn == [][WarmUp => bfReady' \/ StepsLeft' \in 0 .. StepsLeft - 1]_vars

\* The warm-up ends and the filter is in use from then on.
WarmUpEnds == <>[]bfReady

-----------------------------------------------------------------------------
\* The comments of user_service.go:203 and 340: a call deletes the code it is
\* about, the one it verified or the one it could not mail, and no other.
DeletesOnlyItsCode ==
    [][\A r \in Requests, e \in Emails :
         pc[r] \in {"consume", "undo"} /\ pc'[r] # pc[r] /\ codes'[e] # codes[e]
         => codes[e] = IF pc[r] = "consume" THEN form[r].code ELSE r]_vars

=============================================================================
