---------------------------- MODULE AdminConsole -----------------------------
(***************************************************************************)
(* What an administrator does behind the door of AdminGate: he changes and *)
(* deletes users, each act followed by an entry in operation_logs, walks   *)
(* that table, and lists users, as anybody may through GetUsers.           *)
(* (internal/handler/v1/grpc_handler.go:203-236, 388-549,                  *)
(* internal/service/user_service.go:510-532, 596-633,                      *)
(* internal/repository/user_repo.go:144-179)                               *)
(*                                                                         *)
(* The listings only read, so one of them at a time shows what each sees.  *)
(***************************************************************************)
EXTENDS AdminGate, AuditTrail

CONSTANTS
    AdminAction,  \* the action of an administrator's own entries
    AskedRoles,   \* req.role of a listing: a uint32
    AskedPages    \* req.page of a listing

ASSUME AdminActionAssumption == AdminAction \in Actions
ASSUME AskedAssumption == AskedRoles \subseteq Nat /\ AskedPages \subseteq Int

VARIABLES
    job,    \* process: how far the administrative call in each slot has come
    list    \* process: a listing of users, its two statements and their results

consoleVars == <<gateVars, trailVars, job, list>>

Unread == -1
NoList == [open |-> FALSE, role |-> 0, page |-> 1, size |-> 1,
           total |-> Unread, len |-> Unread, moves |-> 0]

\* WHERE role = ?, when a role is asked for; a row that was deleted is not there.
Listed == {u \in Users : Present(u) /\ (list.role = 0 \/ role[u] = list.role)}
ListOffset == (list.page - 1) * list.size

\* List runs its two statements at once, in either order.  Rows may change between
\* them: moves counts the changes since the listing began, as far as it matters.
Moved == IF list.open /\ role' # role /\ list.moves < Cardinality(Users)
         THEN [list EXCEPT !.moves = @ + 1] ELSE list

ConsoleInit ==
    /\ GateInit
    /\ TrailInit
    /\ job = [r \in Requests |-> "none"]
    /\ list = NoList

-----------------------------------------------------------------------------
\* Steps of the door alone, and of other calls, up to the writing of a row.
Door ==
    /\ \/ Tick
       \/ \E r \in Requests, u \in Users : Login(r, u) \/ ReadCopy(r, u)
       \/ \E r \in Requests : Mint(r)
       \/ \E r \in Requests, t \in tokens : Enter(r, t)
    /\ UNCHANGED <<trailVars, job, list>>

\* AdminUpdateUser, its two statements; an id that has no row ends the call.
ReadUser(r, u) ==
    /\ job[r] = "none"
    /\ FindTarget(r, u)
    /\ job' = [job EXCEPT ![r] = "write"]
    /\ UNCHANGED <<trailVars, list>>
WriteUser(r, x) ==
    /\ job[r] = "write"
    /\ UpdateTarget(r, x)
    /\ job' = [job EXCEPT ![r] = "audit"]
    /\ list' = Moved
    /\ UNCHANGED trailVars

\* AdminDeleteUser, of any id.
AdminDeleteUser(r, u) ==
    /\ job[r] = "none"
    /\ DeleteTarget(r, u)
    /\ job' = [job EXCEPT ![r] = "audit"]
    /\ list' = Moved
    /\ UNCHANGED trailVars

\* What users do to their own rows: DeleteUser, Register, UpdateUser, ChangePassword.
OwnWrite ==
    /\ (\E u \in Users : DeleteUser(u) \/ Register(u)) \/ \E r \in Requests : WriteCopy(r)
    /\ list' = Moved
    /\ UNCHANGED <<trailVars, job>>

\* The entry that follows; when it cannot be written the call is answered all the same.
Audit(r, e) ==
    /\ job[r] = "audit"
    /\ e.action = AdminAction
    /\ Record(e)
    /\ job' = [job EXCEPT ![r] = "done"]
    /\ UNCHANGED <<gateVars, list>>

\* RecordLog, for the other services.
RecordLog(e) == Record(e) /\ UNCHANGED <<gateVars, job, list>>

\* ListOperationLogs: a client's walk, one call for each page.
Walk(a, n) == StartWalk(a, n) /\ UNCHANGED <<gateVars, job, list>>

\* Mistake: the handler does not ask for an administrator.
CountLogsForAnyone(r) ==
    /\ Calling(r) /\ job[r] = "none"
    /\ Count
    /\ job' = [job EXCEPT ![r] = "logs"]
    /\ UNCHANGED <<gateVars, list>>

CountLogs(r) ==
    /\ Active(r) /\ job[r] = "none"
    /\ Count
    /\ job' = [job EXCEPT ![r] = "logs"]
    /\ UNCHANGED <<gateVars, list>>
SelectLogs(r) ==
    /\ job[r] = "logs"
    /\ Select
    /\ job' = [job EXCEPT ![r] = "done"]
    /\ UNCHANGED <<gateVars, list>>

\* The call is answered, or fails where it stands: the walk has no page then.
Answer(r) ==
    /\ Leave(r)
    /\ IF job[r] = "logs" THEN FailPage ELSE UNCHANGED trailVars
    /\ job' = [job EXCEPT ![r] = "none"]
    /\ UNCHANGED list

-----------------------------------------------------------------------------
\* The listing begins; pages count from 1, and the role is cut to a byte.
ListUsers(n, p, s) ==
    /\ ~list.open
    /\ list' = [NoList EXCEPT !.open = TRUE, !.role = n % 256,
                              !.page = IF p < 1 THEN 1 ELSE p,
                              !.size = IF s < 1 THEN DefaultSize ELSE s]
    /\ UNCHANGED <<gateVars, trailVars, job>>

\* GetUsers, open to all, sees to page and size before the service does.
GetUsers(n, p, s) ==
    ListUsers(n, IF p < 1 THEN 1 ELSE p, IF s < 1 THEN DefaultSize ELSE s)

\* AdminGetUsers leaves that to the service.  Its filter by status is left out: it
\* narrows the rows in the way the role does.
AdminGetUsers(r, n, p, s) == Active(r) /\ job[r] = "none" /\ ListUsers(n, p, s)

CountUsers ==
    /\ list.open /\ list.total = Unread
    /\ list' = [list EXCEPT !.total = Cardinality(Listed)]
    /\ UNCHANGED <<gateVars, trailVars, job>>

\* Mistake: the page is of all users.
SelectAnyUsers ==
    /\ list.open /\ list.len = Unread
    /\ list' = [list EXCEPT !.len = RowCount(Cardinality({u \in Users : Present(u)}),
                                             ListOffset, list.size)]
    /\ UNCHANGED <<gateVars, trailVars, job>>

\* LIMIT and OFFSET without ORDER BY: how many rows, and not which, is determined.
SelectUsers ==
    /\ list.open /\ list.len = Unread
    /\ list' = [list EXCEPT !.len = RowCount(Cardinality(Listed), ListOffset, list.size)]
    /\ UNCHANGED <<gateVars, trailVars, job>>

\* The reply is sent, or a statement failed.
EndList == list.open /\ list' = NoList /\ UNCHANGED <<gateVars, trailVars, job>>

-----------------------------------------------------------------------------
Listing ==
    \E n \in AskedRoles, p \in AskedPages, s \in PageSizes :
        GetUsers(n, p, s) \/ \E r \in Requests : AdminGetUsers(r, n, p, s)

ConsoleNext ==
    \/ Door
    \/ \E r \in Requests, u \in Users : ReadUser(r, u) \/ AdminDeleteUser(r, u)
    \/ \E r \in Requests, x \in NewRoles : WriteUser(r, x)
    \/ OwnWrite
    \/ \E r \in Requests, e \in Entries : Audit(r, e)
    \/ \E e \in Entries : RecordLog(e)
    \/ \E a \in Actions \cup {AnyAction}, n \in PageSizes : Walk(a, n)
    \/ \E r \in Requests : CountLogs(r) \/ SelectLogs(r) \/ Answer(r)
    \/ Listing \/ CountUsers \/ SelectUsers \/ EndList

ConsoleSpec == ConsoleInit /\ [][ConsoleNext]_consoleVars

-----------------------------------------------------------------------------
\* Types; and work is in progress only in a slot that was let in as administrator,
\* on the page that the walk waits for.
ConsoleTypeOK ==
    /\ GateTypeOK
    /\ TrailTypeOK
    /\ job \in [Requests -> {"none", "write", "audit", "logs", "done"}]
    /\ \A r \in Requests : job[r] # "none" => Active(r)
    /\ \A r \in Requests : job[r] = "logs" => walk = "select"
    /\ list.total \in {Unread} \cup 0 .. Cardinality(Users)
    /\ list.len \in {Unread} \cup 0 .. Cardinality(Users)

\* Total and page of a listing are read apart, and may be of different tables.  They
\* are no further apart than the rows that changed meanwhile: of a quiet table they
\* agree, whatever page, size and role were asked for.
ListDriftIsBounded ==
    list.total # Unread /\ list.len # Unread =>
        \E d \in -list.moves .. list.moves :
            list.len = RowCount(list.total + d, ListOffset, list.size)

=============================================================================
