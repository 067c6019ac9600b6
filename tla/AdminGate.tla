------------------------------ MODULE AdminGate ------------------------------
(***************************************************************************)
(* Who may act as an administrator, and until when.  The role is read from *)
(* the row at login, travels in the JWT, and is compared with RoleAdmin at *)
(* the door of every administrative call; the row is not read again.       *)
(* (internal/handler/v1/grpc_handler.go:323-350, 433-436, 467-470,         *)
(* 521-524, internal/service/user_service.go:349-386, 635-664)             *)
(*                                                                         *)
(* A role is written by administrators, and by UpdateUser and              *)
(* ChangePassword, which store the copy of the row they read; Register     *)
(* inserts rows and DeleteUser takes them away.                            *)
(*                                                                         *)
(* Time is counted in ticks.  The interceptors of gocommon give every call *)
(* a deadline, after which its statements fail, and accept a JWT before    *)
(* its exp; they are modelled by that.                                     *)
(***************************************************************************)
EXTENDS Integers, FiniteSets

CONSTANTS
    Requests,   \* the calls in progress at once; a slot is used again
    Users,
    NoUser,
    NewRoles,   \* roles of new rows, and those an administrator may give
    Expire,     \* life of a token (cfg.JWT.ExpireTime)
    Timeout,    \* life of a call (the timeout interceptor)
    MaxNow      \* bounds the time

ASSUME TimesAssumption == Expire \in Nat \ {0} /\ Timeout \in Nat \ {0} /\ MaxNow \in Nat
ASSUME UsersAssumption == IsFiniteSet(Users)
ASSUME NoUserAssumption == NoUser \notin Users

RoleNormal == 1
RoleAdmin == 2

ASSUME NewRolesAssumption == NewRoles \subseteq 0 .. 255 /\ RoleNormal \in NewRoles

VARIABLES
    now,        \* the clock
    role,       \* users: role, or Unborn or Gone where there is no row
    lostAt,     \* history: when each user ceased to be an administrator
    tokens,     \* the JWTs handed out with the role of an administrator
    call        \* process: the call in each slot

gateVars == <<now, role, lostAt, tokens, call>>

Gone == -1
Unborn == -2
Absent == {Gone, Unborn}
Present(u) == role[u] \notin Absent

\* A call: what it is, whose, the role it has read, when it began, and the user an
\* administrator's update is about.
CallOf(what, u, c) == [what |-> what, user |-> u, claim |-> c, began |-> now, target |-> NoUser]
Idle == [what |-> "idle", user |-> NoUser, claim |-> Gone, began |-> 0, target |-> NoUser]
Calling(r) == call[r] # Idle
Active(r) == call[r].what = "active"

\* While a user is an administrator the right lasts until now.
AdminUntil(u) == IF role[u] = RoleAdmin THEN now ELSE lostAt[u]

GateInit ==
    /\ now = 0
    /\ role \in [Users -> NewRoles \cup {Unborn}]
    /\ lostAt = [u \in Users |-> 0]
    /\ tokens = {[user |-> u, exp |-> Expire] : u \in {v \in Users : role[v] = RoleAdmin}}
    /\ call = [r \in Requests |-> Idle]

-----------------------------------------------------------------------------
\* No call outlives its deadline.
Tick ==
    /\ now < MaxNow
    /\ \A r \in Requests : Calling(r) => now + 1 < call[r].began + Timeout
    /\ now' = now + 1
    /\ UNCHANGED <<role, lostAt, tokens, call>>

Begin(r, c) == ~Calling(r) /\ call' = [call EXCEPT ![r] = c]
End(r) == Calling(r) /\ call' = [call EXCEPT ![r] = Idle]

\* Login reads the row.
Login(r, u) ==
    /\ Present(u)
    /\ Begin(r, CallOf("login", u, role[u]))
    /\ UNCHANGED <<now, role, lostAt, tokens>>

\* Mistake: the token does not carry the role of the row.
MintForAnyone(r) ==
    /\ call[r].what = "login"
    /\ tokens' = tokens \cup {[user |-> call[r].user, exp |-> now + Expire]}
    /\ End(r)
    /\ UNCHANGED <<now, role, lostAt>>

\* generateToken: the claims come from the row that was read, exp from
\* the clock.  A token of another role opens no administrative call, and is left out.
Mint(r) ==
    /\ call[r].what = "login"
    /\ tokens' = IF call[r].claim = RoleAdmin
                 THEN tokens \cup {[user |-> call[r].user, exp |-> now + Expire]} ELSE tokens
    /\ End(r)
    /\ UNCHANGED <<now, role, lostAt>>

\* requireGRPCAdmin.
Enter(r, t) ==
    /\ now < t.exp
    /\ Begin(r, CallOf("active", t.user, Gone))
    /\ UNCHANGED <<now, role, lostAt, tokens>>

\* The role of u is written, or the row deleted for good.  A statement on a row that
\* is not there affects nothing and is no error.
LeaveRoles == UNCHANGED <<now, role, lostAt, tokens>>
WriteRole(u, x) ==
    \/ /\ Present(u)
       /\ role' = [role EXCEPT ![u] = x]
       /\ lostAt' = [lostAt EXCEPT ![u] = AdminUntil(u)]
       /\ UNCHANGED <<now, tokens>>
    \/ ~Present(u) /\ LeaveRoles

\* AdminUpdateUser: the row is read to know that it exists; then the role is written,
\* as it was asked for, or left if the request names none.
FindTarget(r, u) ==
    /\ Active(r) /\ call[r].target = NoUser
    /\ Present(u)
    /\ call' = [call EXCEPT ![r].target = u]
    /\ LeaveRoles
UpdateTarget(r, x) ==
    /\ Active(r) /\ call[r].target # NoUser
    /\ WriteRole(call[r].target, x) \/ LeaveRoles
    /\ call' = [call EXCEPT ![r].target = NoUser]

\* AdminDeleteUser, and DeleteUser by the user himself.
DeleteTarget(r, u) == Active(r) /\ WriteRole(u, Gone) /\ UNCHANGED call
DeleteUser(u) == WriteRole(u, Gone) /\ UNCHANGED call

\* UpdateUser and ChangePassword: the row is read, and the copy written, role and all,
\* unless that is zero.
ReadCopy(r, u) ==
    /\ Present(u)
    /\ Begin(r, CallOf("update", u, role[u]))
    /\ LeaveRoles
WriteCopy(r) ==
    /\ call[r].what = "update"
    /\ IF call[r].claim = 0 THEN LeaveRoles ELSE WriteRole(call[r].user, call[r].claim)
    /\ End(r)

\* Register.
Register(u) ==
    /\ role[u] = Unborn
    /\ role' = [role EXCEPT ![u] = RoleNormal]
    /\ UNCHANGED <<now, lostAt, tokens, call>>

\* A call is answered, fails, or meets its deadline.
Leave(r) == End(r) /\ LeaveRoles

-----------------------------------------------------------------------------
GateNext ==
    \/ Tick
    \/ \E r \in Requests, u \in Users : Login(r, u) \/ ReadCopy(r, u)
    \/ \E r \in Requests : Mint(r) \/ WriteCopy(r) \/ Leave(r)
    \/ \E r \in Requests, t \in tokens : Enter(r, t)
    \/ \E r \in Requests, u \in Users : FindTarget(r, u) \/ DeleteTarget(r, u)
    \/ \E r \in Requests, x \in NewRoles : UpdateTarget(r, x)
    \/ \E u \in Users : DeleteUser(u) \/ Register(u)

GateSpec == GateInit /\ [][GateNext]_gateVars

-----------------------------------------------------------------------------
GateTypeOK ==
    /\ now \in 0 .. MaxNow
    /\ role \in [Users -> NewRoles \cup Absent]
    /\ lostAt \in [Users -> 0 .. MaxNow]
    /\ tokens \subseteq [user : Users, exp : Expire .. MaxNow + Expire]
    /\ call \in [Requests ->
                   {Idle} \cup [what : {"login", "active", "update"}, user : Users,
                                claim : NewRoles \cup {Gone}, began : 0 .. MaxNow,
                                target : Users \cup {NoUser}]]

\* An administrative call runs only for someone who was an administrator not long
\* ago: the life of a token, and of the two calls that obtained and presented it.
\* Nothing else ends the right of a token: a role that is taken away, or a row that
\* is deleted, leaves it good until then.
AdminActsAreRecent ==
    \A r \in Requests :
        Active(r) => now <= AdminUntil(call[r].user) + Expire + 2 * Timeout - 3

=============================================================================
