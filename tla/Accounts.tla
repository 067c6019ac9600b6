------------------------------ MODULE Accounts ------------------------------
(***************************************************************************)
(* User rows, login tokens and the admin audit log, and the RPCs that      *)
(* read and write them: Login, Logout, ValidateToken, GetUser, UpdateUser, *)
(* ChangePassword, DeleteUser, AdminUpdateUser and AdminDeleteUser.        *)
(* (internal/service/user_service.go, internal/repository/user_repo.go,    *)
(* internal/handler/v1/grpc_handler.go, internal/audit/audit.go)           *)
(*                                                                         *)
(* A request is one RPC, served by a goroutine of its own.  It runs one    *)
(* database statement per step and keeps what it read in local variables   *)
(* between steps; nothing is transactional, so the statements of different *)
(* requests interleave freely.  The JWT a login makes carries a random     *)
(* csrf claim, so it is unique: it is named by the request that made it.   *)
(***************************************************************************)
EXTENDS UserRows

CONSTANTS
    Requests,       \* the RPCs of one run; their number bounds the run
    Users,          \* user ids
    NoUser,         \* the target of a request that has not arrived
    AdminRoles,     \* uint32 values of AdminUpdateUserRequest.role
    AdminStatuses,  \* uint32 values of AdminUpdateUserRequest.status
    DbFaults        \* whether a database statement may fail

ASSUME AdminInputsAssumption == AdminRoles \subseteq Nat /\ AdminStatuses \subseteq Nat
ASSUME DbFaultsAssumption == DbFaults \in BOOLEAN
ASSUME NoUserAssumption == NoUser \notin Users

VARIABLES
    rows,       \* users: the columns of each row
    live,       \* users: the ids whose row exists and has no deleted_at
    tokens,     \* tokens: the JWTs with a row
    audit,      \* operation_logs: the entries of admin operations
    op,         \* the RPC each request is
    pc,         \* where each request is
    target,     \* the user each request is about
    cols,       \* the copy of the row, or the map of columns, a request is
                \* about to hand to repo.Update or repo.UpdateFields
    held,       \* the JWTs whose login has replied: clients may use them
    loggedOut,  \* the JWTs whose logout has replied success
    expired,    \* the JWTs past their exp claim
    stale,      \* history: the pending updates whose row was written since
                \* they read it
    overlooked  \* history: the JWTs a deletion of their user has left out

tables == <<rows, live, tokens, audit>>
locals == <<op, target, cols>>
clients == <<held, loggedOut, expired>>
history == <<stale, overlooked>>
vars == <<tables, pc, locals, clients, history>>

Ops == {"none", "login", "logout", "validateToken", "getUser", "updateUser",
        "changePassword", "deleteUser", "adminUpdateUser", "adminDeleteUser"}

Pending == {"saveToken", "update", "updateFields", "deleteRow", "audit"}
Replied == {"ok", "failed"}

NoColumns == [k \in {} |-> 0]

\* The requests, with the fields their handlers look at; a user is named by id or,
\* in a login, by name or email.
LoginRequest == [username : Users, password : Passwords]
LogoutRequest == [token : held]
ValidateTokenRequest == [token : held]
GetUserRequest == [id : Users]
UpdateUserRequest == [id : Users, nickname : Names \cup {""}]
ChangePasswordRequest == [id : Users, old : Passwords, new : Passwords]
DeleteUserRequest == [id : Users]
AdminUpdateUserRequest ==
    [id : Users, nickname : Names \cup {""}, role : AdminRoles, status : AdminStatuses]

-----------------------------------------------------------------------------
\* How one database statement ends: applied and confirmed, refused, or applied
\* although the caller sees an error (the connection broke before the answer).
Outcomes == IF DbFaults THEN {"done", "refused", "unconfirmed"} ELSE {"done"}
Applied(o) == o # "refused"
Confirmed(o) == o = "done"

\* Whether a query is answered, and whether it returns the row of a user; if not the
\* service replies with an error.
Answers == IF DbFaults THEN BOOLEAN ELSE {TRUE}
Readable(u) == IF u \in live THEN Answers ELSE {FALSE}

Go(r, to) == pc' = [pc EXCEPT ![r] = to]
Reply(r, o) == Go(r, IF Confirmed(o) THEN "ok" ELSE "failed")

\* Request r arrives, is RPC o about user u, runs its first statement and
\* either goes on to step to with columns c to write or has replied.
Start(r, o, u, to, c) ==
    /\ pc[r] = "new"
    /\ Go(r, to)
    /\ op' = [op EXCEPT ![r] = o]
    /\ target' = [target EXCEPT ![r] = u]
    /\ cols' = [cols EXCEPT ![r] = c]

\* A request that is turned away before its first statement: the captcha is wrong,
\* or the JWT (RequireGRPCAuth), or it is no administrator's (AdminGate.tla).
Refuse(r, o, u) ==
    /\ Start(r, o, u, "failed", NoColumns)
    /\ UNCHANGED <<tables, clients, history>>

\* Mistake: the DELETE on tokens without its WHERE.
TokensOfAnyone(u) == tokens

TokensOf(u) == {t \in tokens : target[t] = u}

\* The table of tokens as the repository reads and writes it.
GetToken(t) == t \in tokens
CreateToken(t, o) == IF Applied(o) THEN tokens \cup {t} ELSE tokens
DeleteToken(t, o) == IF Applied(o) THEN tokens \ {t} ELSE tokens

\* The signature and the exp claim of the JWT, then its row: the users table is not
\* consulted.
TokenValid(t) == t \notin expired /\ GetToken(t)

Init ==
    /\ rows \in [Users -> [password : Passwords, nickname : {""},
                           role : {RoleNormal, RoleAdmin}, status : {StatusNormal}]]
    /\ live = Users
    /\ tokens = {}
    /\ audit = {}
    /\ op = [r \in Requests |-> "none"]
    /\ pc = [r \in Requests |-> "new"]
    /\ target = [r \in Requests |-> NoUser]
    /\ cols = [r \in Requests |-> NoColumns]
    /\ held = {}
    /\ loggedOut = {}
    /\ expired = {}
    /\ stale = {}
    /\ overlooked = {}

-----------------------------------------------------------------------------
LoginsInFlight(u) == {r \in Requests : pc[r] = "saveToken" /\ target[r] = u}
BeingDeleted(u) == \E r \in Requests : pc[r] = "deleteRow" /\ target[r] = u

\* A login that is admitted goes on to store its token.  If a deletion has deleted
\* the tokens of that user before, it has left this one out.
Admit(r, u, admitted) ==
    /\ Start(r, "login", u, IF admitted THEN "saveToken" ELSE "failed", NoColumns)
    /\ overlooked' = IF admitted /\ BeingDeleted(u) THEN overlooked \cup {r} ELSE overlooked

\* Mistake: the status of the row is not looked at.
LoginIgnoringStatus(r, u, pw) ==
    /\ \E found \in Readable(u) : Admit(r, u, found /\ rows[u]["password"] = pw)
    /\ UNCHANGED <<tables, clients, stale>>

\* Mistake: the JWT reaches the client before its row is stored.
LoginReplyingEarly(r, u, pw) ==
    /\ \E found \in Readable(u) :
         LET admitted == found /\ rows[u]["password"] = pw
                               /\ rows[u]["status"] = StatusNormal
         IN  /\ Admit(r, u, admitted)
             /\ held' = IF admitted THEN held \cup {r} ELSE held
    /\ UNCHANGED <<tables, loggedOut, expired, stale>>

\* Login, first part: one query for the row, the password and the status
\* checked against what it returned, the JWT signed.
Login(r, u, pw) ==
    /\ \E found \in Readable(u) :
         Admit(r, u, found /\ rows[u]["password"] = pw /\ rows[u]["status"] = StatusNormal)
    /\ UNCHANGED <<tables, clients, stale>>

\* Login, second part: the token row is inserted, best effort, and the reply
\* hands the JWT to the client whether or not it was.
SaveToken(r) ==
    /\ pc[r] = "saveToken"
    /\ \E o \in Outcomes : tokens' = CreateToken(r, o)
    /\ held' = held \cup {r}
    /\ Go(r, "ok")
    /\ UNCHANGED <<rows, live, audit, locals, loggedOut, expired, history>>

\* Logout of a JWT some client was given: its row, and only its row, goes.
Logout(r, t) ==
    /\ t \in held
    /\ \E o \in Outcomes :
         /\ Start(r, "logout", target[t], IF Confirmed(o) THEN "ok" ELSE "failed", NoColumns)
         /\ tokens' = DeleteToken(t, o)
         /\ loggedOut' = IF Confirmed(o) THEN loggedOut \cup {t} ELSE loggedOut
    /\ UNCHANGED <<rows, live, audit, held, expired, history>>

\* Time passes the exp claim of a JWT.
Expire(t) ==
    /\ t \in held \ expired
    /\ expired' = expired \cup {t}
    /\ UNCHANGED <<tables, pc, locals, held, loggedOut, history>>

\* ValidateToken: a JWT whose row cannot be read is not valid, and nobody is named.
ValidateTokenResult(t, answered) ==
    IF answered /\ TokenValid(t) THEN [user |-> target[t], valid |-> TRUE]
                                 ELSE [user |-> NoUser, valid |-> FALSE]
ValidateToken(r, t) ==
    /\ t \in held
    /\ \E answered \in Answers :
         LET result == ValidateTokenResult(t, answered)
         IN  Start(r, "validateToken", result.user, IF result.valid THEN "ok" ELSE "failed",
                   NoColumns)
    /\ UNCHANGED <<tables, clients, history>>

\* GetUser reads one row and answers with it.
GetUser(r, u) ==
    /\ \E found \in Readable(u) : Start(r, "getUser", u, IF found THEN "ok" ELSE "failed", NoColumns)
    /\ UNCHANGED <<tables, clients, history>>

-----------------------------------------------------------------------------
\* Mistake: the columns are taken from a fresh struct with the default role.
UpdateUserFromDefaults(r, u, nickname) ==
    /\ \E found \in Readable(u) :
         IF found
         THEN Start(r, "updateUser", u, "update",
                    [rows[u] EXCEPT !["nickname"] = nickname, !["role"] = RoleNormal])
         ELSE Start(r, "updateUser", u, "failed", NoColumns)
    /\ UNCHANGED <<tables, clients, history>>

\* UpdateUser, first part: the row is read and the requested nickname put in
\* the copy; the copy as a whole is what will be written, and answered.
UpdateUser(r, u, nickname) ==
    /\ \E found \in Readable(u) :
         LET copy == IF nickname = "" THEN rows[u]
                     ELSE [rows[u] EXCEPT !["nickname"] = nickname]
         IN  IF found THEN Start(r, "updateUser", u, "update", copy)
                      ELSE Start(r, "updateUser", u, "failed", NoColumns)
    /\ UNCHANGED <<tables, clients, history>>

\* ChangePassword, first part: the row is read, the old password compared, the
\* new hash put in the copy.
ChangePassword(r, u, old, new) ==
    /\ \E found \in Readable(u) :
         IF found /\ rows[u]["password"] = old
         THEN Start(r, "changePassword", u, "update",
                    [rows[u] EXCEPT !["password"] = new])
         ELSE Start(r, "changePassword", u, "failed", NoColumns)
    /\ UNCHANGED <<tables, clients, history>>

\* The UPDATE statement of request r, with SET list set, reaches the table or not.
Store(r, set, applied) ==
    /\ rows' = IF applied THEN Write(rows, live, target[r], set) ELSE rows
    /\ stale' = IF applied
                THEN (stale \cup {q \in Requests : pc[q] = "update" /\ target[q] = target[r]}) \ {r}
                ELSE stale \ {r}

\* Mistake: the request succeeds whatever the statement returned.
UpdateUnchecked(r) ==
    /\ pc[r] = "update"
    /\ \E o \in Outcomes : Store(r, NonZero(cols[r]), Applied(o))
    /\ Go(r, "ok")
    /\ cols' = [cols EXCEPT ![r] = NoColumns]
    /\ UNCHANGED <<live, tokens, audit, op, target, clients, overlooked>>

\* repo.Update of the copy: what is not zero in it is written.
Update(r) ==
    /\ pc[r] = "update"
    /\ \E o \in Outcomes :
         /\ Store(r, NonZero(cols[r]), Applied(o))
         /\ Reply(r, o)
    /\ cols' = [cols EXCEPT ![r] = NoColumns]
    /\ UNCHANGED <<live, tokens, audit, op, target, clients, overlooked>>

\* The second part of both.  UpdateUser answers with its copy, not with the row.
FinishUpdateUser(r) == op[r] = "updateUser" /\ Update(r)
FinishChangePassword(r) == op[r] = "changePassword" /\ Update(r)

-----------------------------------------------------------------------------
\* Mistake: the request fields reach the row without the conversion to uint8.
AdminColumnsWide(nickname, role, status) ==
    LET named == {k \in Columns : \/ k = "nickname" /\ nickname # ""
                                  \/ k = "role" /\ role # 0
                                  \/ k = "status" /\ status # 0}
        asked == [nickname |-> nickname, role |-> role, status |-> status]
    IN  [k \in named |-> asked[k]]

\* The columns AdminUpdateUser names: a zero role or status means "leave it",
\* tested before the value is narrowed to a byte.
AdminColumns(nickname, role, status) ==
    LET named == {k \in Columns : \/ k = "nickname" /\ nickname # ""
                                  \/ k = "role" /\ role # 0
                                  \/ k = "status" /\ status # 0}
        asked == [nickname |-> nickname, role |-> Uint8(role), status |-> Uint8(status)]
    IN  [k \in named |-> asked[k]]

\* Mistake: the struct that was read is changed and written, as UpdateUser does.
AdminUpdateUserByStruct(r, u, nickname, role, status) ==
    /\ \E found \in Readable(u) :
         IF found
         THEN Start(r, "adminUpdateUser", u, "updateFields",
                    NonZero(Assign(rows[u], AdminColumns(nickname, role, status))))
         ELSE Start(r, "adminUpdateUser", u, "failed", NoColumns)
    /\ UNCHANGED <<tables, clients, history>>

\* AdminUpdateUser, first part: the row is read to know that it exists.
AdminUpdateUser(r, u, nickname, role, status) ==
    /\ \E found \in Readable(u) :
         IF found
         THEN Start(r, "adminUpdateUser", u, "updateFields", AdminColumns(nickname, role, status))
         ELSE Start(r, "adminUpdateUser", u, "failed", NoColumns)
    /\ UNCHANGED <<tables, clients, history>>

\* AdminUpdateUser, second part: repo.UpdateFields of the named columns.
UpdateFields(r) ==
    /\ pc[r] = "updateFields"
    /\ \E o \in Outcomes :
         /\ Store(r, cols[r], Applied(o))
         /\ Go(r, IF Confirmed(o) THEN "audit" ELSE "failed")
    /\ cols' = [cols EXCEPT ![r] = NoColumns]
    /\ UNCHANGED <<live, tokens, audit, op, target, clients, overlooked>>

\* Mistake: the tokens are forgotten.
DeleteUserRowOnly(r, o, u) ==
    /\ Start(r, o, u, "deleteRow", NoColumns)
    /\ overlooked' = overlooked \cup LoginsInFlight(u)
    /\ UNCHANGED <<tables, clients, stale>>

\* DeleteUser, first part: the user's tokens go, best effort.  It leaves out the
\* tokens of the logins in progress and, if it fails, those in the table.
DeleteUser(r, o, u) ==
    /\ Start(r, o, u, "deleteRow", NoColumns)
    /\ \E e \in Outcomes :
         /\ tokens' = IF Applied(e) THEN tokens \ TokensOf(u) ELSE tokens
         /\ overlooked' = overlooked \cup LoginsInFlight(u)
                                     \cup IF Applied(e) THEN {} ELSE TokensOf(u)
    /\ UNCHANGED <<rows, live, audit, clients, stale>>

\* AdminDeleteUser is the same; its handler logs the operation afterwards.
AdminDeleteUser(r, u) == DeleteUser(r, "adminDeleteUser", u)

\* Mistake: the handler logs and replies success whatever the statement returned.
DeleteRowUnchecked(r) ==
    /\ pc[r] = "deleteRow"
    /\ \E o \in Outcomes : live' = IF Applied(o) THEN live \ {target[r]} ELSE live
    /\ Go(r, IF op[r] = "adminDeleteUser" THEN "audit" ELSE "ok")
    /\ UNCHANGED <<rows, tokens, audit, locals, clients, history>>

\* DeleteUser, second part: deleted_at is set; no row to delete is no error.
DeleteRow(r) ==
    /\ pc[r] = "deleteRow"
    /\ \E o \in Outcomes :
         /\ live' = IF Applied(o) THEN live \ {target[r]} ELSE live
         /\ Go(r, IF ~Confirmed(o) THEN "failed"
                  ELSE IF op[r] = "adminDeleteUser" THEN "audit" ELSE "ok")
    /\ UNCHANGED <<rows, tokens, audit, locals, clients, history>>

\* The admin handlers log the operation after it succeeded, best effort.
RecordAudit(r) ==
    /\ pc[r] = "audit"
    /\ \E o \in Outcomes :
         audit' = IF Applied(o) THEN audit \cup {<<op[r], target[r]>>} ELSE audit
    /\ Go(r, "ok")
    /\ UNCHANGED <<rows, live, tokens, locals, clients, history>>

-----------------------------------------------------------------------------
\* The handlers: who may call, and the service's part.
LoginRPC(r) == \E q \in LoginRequest :
    Refuse(r, "login", q.username) \/ Login(r, q.username, q.password)
LogoutRPC(r) == \E q \in LogoutRequest : Logout(r, q.token)
ValidateTokenRPC(r) == \E q \in ValidateTokenRequest : ValidateToken(r, q.token)
GetUserRPC(r) == \E q \in GetUserRequest : GetUser(r, q.id)
UpdateUserRPC(r) == \E q \in UpdateUserRequest :
    Refuse(r, "updateUser", q.id) \/ UpdateUser(r, q.id, q.nickname)
ChangePasswordRPC(r) == \E q \in ChangePasswordRequest :
    Refuse(r, "changePassword", q.id) \/ ChangePassword(r, q.id, q.old, q.new)
DeleteUserRPC(r) == \E q \in DeleteUserRequest :
    Refuse(r, "deleteUser", q.id) \/ DeleteUser(r, "deleteUser", q.id)
AdminUpdateUserRPC(r) == \E q \in AdminUpdateUserRequest :
    Refuse(r, "adminUpdateUser", q.id) \/ AdminUpdateUser(r, q.id, q.nickname, q.role, q.status)
AdminDeleteUserRPC(r) == \E q \in DeleteUserRequest :
    Refuse(r, "adminDeleteUser", q.id) \/ AdminDeleteUser(r, q.id)

Arrive(r) ==
    \/ LoginRPC(r) \/ LogoutRPC(r) \/ ValidateTokenRPC(r) \/ GetUserRPC(r)
    \/ UpdateUserRPC(r) \/ ChangePasswordRPC(r) \/ DeleteUserRPC(r)
    \/ AdminUpdateUserRPC(r) \/ AdminDeleteUserRPC(r)

\* The steps a request takes after its first statement.
Proceed(r) ==
    \/ SaveToken(r)
    \/ FinishUpdateUser(r) \/ FinishChangePassword(r)
    \/ UpdateFields(r)
    \/ DeleteRow(r)
    \/ RecordAudit(r)

Next ==
    \/ \E r \in Requests : Arrive(r) \/ Proceed(r)
    \/ \E t \in held : Expire(t)

Spec == Init /\ [][Next]_vars

-----------------------------------------------------------------------------
TypeOK ==
    /\ DOMAIN rows = Users /\ \A u \in Users : IsRow(rows[u])
    /\ live \subseteq Users
    /\ tokens \subseteq Requests
    /\ audit \subseteq Ops \X (Users \cup {NoUser})
    /\ op \in [Requests -> Ops]
    /\ pc \in [Requests -> {"new"} \cup Pending \cup Replied]
    /\ target \in [Requests -> Users \cup {NoUser}]
    /\ DOMAIN cols = Requests /\ \A r \in Requests : IsSetList(cols[r])
    /\ \A r \in Requests : pc[r] = "update" => IsRow(cols[r])
    /\ held \subseteq Requests /\ loggedOut \subseteq held /\ expired \subseteq held
    /\ stale \subseteq Requests /\ overlooked \subseteq Requests

\* A JWT whose logout was answered with success is never valid again, although
\* logins insert their token row in a step of their own and may do so at any
\* time around the logout (SaveToken, Logout, ValidateToken).
LogoutIsFinal == \A t \in loggedOut : ~TokenValid(t)

\* Each JWT goes through the life cycle Sessions.tla promises: given out once
\* to one user, ended for good, and ended only by its own logout or by the
\* deletion of its own user.
TokenPhase == [t \in Requests |-> IF t \in tokens THEN "active"
                                  ELSE IF t \in held THEN "ended" ELSE "fresh"]
TokenOwner == [t \in Requests |-> IF t \in held THEN target[t] ELSE NoUser]
S == INSTANCE Sessions WITH Tokens <- Requests, phase <- TokenPhase, owner <- TokenOwner
SessionsSpec == S!Spec

\* Once a user is deleted or disabled and the logins that had already read the
\* row are through, no session of that user starts until an admin write lets
\* the user in again: neither a stored token nor a login on its way to one.
Admitted(u) == u \in live /\ rows[u]["status"] = StatusNormal
LoginInFlight(u) == LoginsInFlight(u) # {}
LockedOutGetsNoSession ==
    [][\A u \in Users : ~Admitted(u) /\ ~LoginInFlight(u)
                         => ~LoginInFlight(u)' /\ TokensOf(u)' \subseteq TokensOf(u)]_vars

\* A deletion that was confirmed or logged is final: the row stays gone, and no
\* update that had read it before changes anything in it any more.
Deletes(r) == op[r] \in {"deleteUser", "adminDeleteUser"}
DeleteIsFinal ==
    /\ \A r \in Requests : Deletes(r) /\ pc[r] \in {"audit", "ok"} => target[r] \notin live
    /\ \A u \in Users : <<"adminDeleteUser", u>> \in audit => u \notin live
GoneRowsAreFrozen ==
    [][\A u \in Users \ live : u \notin live' /\ rows'[u] = rows[u]]_vars

\* What a deletion may leave: a token row of a deleted user is one that a deletion
\* of that user left out, because its login was in progress somewhere between the two
\* statements or before, or because the DELETE on tokens failed.
LeftTokensWereOverlooked == \A t \in tokens : target[t] \notin live => t \in overlooked

Requested(r) == IF op[r] = "updateUser" THEN "nickname" ELSE "password"
Takes(r, step) == pc[r] = step /\ pc'[r] # step

\* UpdateUser answers with the copy it made, not with the row.  The two agree when
\* nobody wrote or deleted the row since it was read: then success means stored.
Answer(r) == ToResponse(cols[r])
FreshAnswerIsStored ==
    [][\A r \in Requests :
         Takes(r, "update") /\ pc'[r] = "ok" /\ r \notin stale /\ target[r] \in live
         => ToResponse(rows'[target[r]]) = Answer(r)]_vars

\* What is left of RoleAndStatusOnlyByAdmin below: a column of a row changes only
\* by an administrator's update that names it, by the user's own request for that
\* very column, or because the row was written while an update held a copy of it.
ChangesAreExplained ==
    [][\A u \in Users, k \in Columns : rows'[u][k] # rows[u][k] =>
         \E r \in Requests : target[r] = u /\
            \/ Takes(r, "updateFields") /\ k \in DOMAIN cols[r]
            \/ Takes(r, "update") /\ (k = Requested(r) \/ r \in stale)]_vars

\* AdminUpdateUser never changes the password: it writes only the columns of its
\* request, so no change of password that runs at the same time is undone by it.
AdminKeepsPassword ==
    [][\A r \in Requests : pc[r] = "updateFields" /\ pc'[r] # "updateFields"
         => rows'[target[r]]["password"] = rows[target[r]]["password"]]_vars

\* A column that is set is never emptied by the whole-row writes, stale or not, nor
\* by an administrator's zero, which means "leave it"; it is emptied only by a role or
\* status that the narrowing to a byte made zero (256, 512, ...).
ClearedOnlyByWrapping ==
    [][\A u \in Users, k \in Columns : rows[u][k] # Zero[k] /\ rows'[u][k] = Zero[k] =>
         /\ k \in {"role", "status"}
         /\ \E r \in Requests : /\ target[r] = u /\ Takes(r, "updateFields")
                                /\ k \in DOMAIN cols[r] /\ cols[r][k] = 0]_vars

-----------------------------------------------------------------------------
\* Role and status change by AdminUpdateUser alone: the body of UpdateUser
\* carries nickname, avatar and bio only (README.md:127-134).
RoleAndStatusOnlyByAdmin ==
    [][\A u \in Users, k \in {"role", "status"} :
         rows'[u][k] # rows[u][k]
         => \E r \in Requests : pc[r] = "updateFields" /\ pc'[r] # "updateFields" /\ target[r] = u]_vars

\* Deleting a user deletes the user's tokens (user_service.go:494): once the
\* deletion is confirmed no JWT of that user validates.
DeletedUserHasNoToken ==
    \A r \in Requests, t \in held :
        Deletes(r) /\ pc[r] = "ok" /\ target[t] = target[r] => ~TokenValid(t)

=============================================================================
