-------------------------- MODULE AdminConsoleProofs -------------------------
(***************************************************************************)
(* Proofs about AdminGate and AdminConsole: how long a right outlives a    *)
(* role, for every life of a token and of a call.                          *)
(*                                                                         *)
(* A right comes from a row that was read at a login.  The bound adds up   *)
(* three delays, one for each part of the inductive invariant: a login is  *)
(* in progress for less than Timeout, the token it makes is good for       *)
(* Expire, and the call it opens lasts for less than Timeout.              *)
(***************************************************************************)
EXTENDS AdminConsole, AuditTrailProofs, TLAPS

ClockMonotone ==
    \A u \in Users : lostAt[u] <= now
CallsAreShort ==
    \A r \in Requests : Calling(r) => call[r].began <= now /\ now <= call[r].began + Timeout - 1
ClaimsWereTrue ==
    \A r \in Requests : call[r].what = "login" /\ call[r].claim = RoleAdmin
                        => call[r].began <= AdminUntil(call[r].user)
TokensAreRecent ==
    \A t \in tokens : t.exp <= AdminUntil(t.user) + Expire + Timeout - 1
EntriesAreRecent ==
    \A r \in Requests : Active(r)
                        => call[r].began <= AdminUntil(call[r].user) + Expire + Timeout - 2

GateInv == /\ GateTypeOK
           /\ ClockMonotone
           /\ CallsAreShort
           /\ ClaimsWereTrue
           /\ TokensAreRecent
           /\ EntriesAreRecent

Calls == [what : {"login", "active", "update"}, user : Users, claim : NewRoles \cup {Gone},
          began : 0 .. MaxNow, target : Users \cup {NoUser}]

LEMMA GateInitInv == GateInit => GateInv
<1> SUFFICES ASSUME GateInit PROVE GateInv
    OBVIOUS
<1>1. GateTypeOK
    BY TimesAssumption, NewRolesAssumption DEF GateInit, GateTypeOK, Idle, Absent
<1>2. ClockMonotone
    BY DEF GateInit, ClockMonotone
<1>3. CallsAreShort /\ ClaimsWereTrue /\ EntriesAreRecent
    BY DEF GateInit, CallsAreShort, ClaimsWereTrue, EntriesAreRecent, Calling, Active, Idle
<1>4. TokensAreRecent
    BY TimesAssumption DEF GateInit, TokensAreRecent, AdminUntil
<1> QED
    BY <1>1, <1>2, <1>3, <1>4 DEF GateInv

\* The end of a user's time as an administrator is never brought forward.
LEMMA UntilGrows ==
    ASSUME GateInv, GateTypeOK', now' >= now,
           NEW u \in Users,
           \/ lostAt'[u] = lostAt[u] /\ (role[u] = RoleAdmin => role'[u] = role[u])
           \/ lostAt'[u] = AdminUntil(u)
    PROVE  AdminUntil(u)' >= AdminUntil(u) /\ AdminUntil(u) \in Int /\ AdminUntil(u)' \in Int
<1>1. lostAt[u] <= now /\ lostAt[u] \in Int /\ now \in Int /\ lostAt'[u] \in Int /\ now' \in Int
    BY DEF GateInv, GateTypeOK, ClockMonotone
<1> QED
    BY <1>1 DEF AdminUntil

-----------------------------------------------------------------------------
\* What a step may do to the right of a user, to a call and to the tokens.
RowKept(u) == \/ lostAt'[u] = lostAt[u] /\ (role[u] = RoleAdmin => role'[u] = role[u])
              \/ lostAt'[u] = AdminUntil(u)
NewCall(c) ==
    /\ c.began = now
    /\ c.what = "login" /\ c.claim = RoleAdmin => now <= AdminUntil(c.user)
    /\ c.what = "active" => now <= AdminUntil(c.user) + Expire + Timeout - 2
SameCall(r) == /\ call'[r].what = call[r].what /\ call'[r].user = call[r].user
               /\ call'[r].claim = call[r].claim /\ call'[r].began = call[r].began
CallKept(r) == SameCall(r) \/ call'[r] = Idle \/ NewCall(call'[r])
TokenKept(t) == t \in tokens \/ t.exp <= AdminUntil(t.user) + Expire + Timeout - 1

LEMMA UsersOfCalls ==
    ASSUME GateTypeOK, NEW r \in Requests
    PROVE  /\ call[r] \in {Idle} \cup Calls
           /\ Calling(r) => call[r].user \in Users /\ call[r].began \in Int
           /\ Calling(r) <=> call[r].what # "idle"
BY DEF GateTypeOK, Calls, Calling, Idle

\* The invariant goes from state to state by those parts.
LEMMA StepKeeps ==
    ASSUME GateInv, GateTypeOK',
           \/ now' = now
           \/ /\ now' = now + 1
              /\ call' = call
              /\ \A r \in Requests : Calling(r) => now + 1 < call[r].began + Timeout,
           \A u \in Users : RowKept(u),
           \A r \in Requests : CallKept(r),
           \A t \in tokens' : TokenKept(t)
    PROVE  GateInv'
<1> USE TimesAssumption
<1>1. now \in Int /\ now' \in Int /\ now' >= now
    BY DEF GateInv, GateTypeOK
<1>2. \A u \in Users : /\ AdminUntil(u)' >= AdminUntil(u)
                       /\ AdminUntil(u) \in Int /\ AdminUntil(u)' \in Int
    BY <1>1, UntilGrows DEF RowKept
<1>3. ClockMonotone'
    <2> SUFFICES ASSUME NEW u \in Users PROVE lostAt'[u] <= now'
        BY DEF ClockMonotone
    <2>1. lostAt[u] <= now /\ lostAt[u] \in Int /\ lostAt'[u] \in Int
        BY DEF GateInv, GateTypeOK, ClockMonotone
    <2> QED
        BY <1>1, <2>1 DEF RowKept, AdminUntil
<1>4. CallsAreShort'
    <2> SUFFICES ASSUME NEW r \in Requests, Calling(r)'
                 PROVE  call'[r].began <= now' /\ now' <= call'[r].began + Timeout - 1
        BY DEF CallsAreShort
    <2>1. CASE SameCall(r)
        <3>1. call'[r].what # "idle"
            BY DEF GateTypeOK, Calling
        <3>2. Calling(r)
            BY <2>1, <3>1, UsersOfCalls DEF SameCall, GateInv
        <3>3. call[r].began \in Int
            BY <3>2, UsersOfCalls DEF GateInv
        <3> QED
            BY <1>1, <2>1, <3>2, <3>3 DEF SameCall, GateInv, CallsAreShort
    <2>2. CASE call'[r] = Idle
        BY <2>2 DEF Calling
    <2>3. CASE NewCall(call'[r]) /\ ~SameCall(r)
        <3>1. now' = now
            BY <2>3 DEF SameCall
        <3> QED
            BY <1>1, <2>3, <3>1 DEF NewCall
    <2> QED
        BY <2>1, <2>2, <2>3 DEF CallKept
<1>5. ClaimsWereTrue'
    <2> SUFFICES ASSUME NEW r \in Requests, call'[r].what = "login", call'[r].claim = RoleAdmin
                 PROVE  (call[r].began <= AdminUntil(call[r].user))'
        BY DEF ClaimsWereTrue
    <2>1. Calling(r)'
        BY DEF Calling, Idle
    <2>2. call'[r].user \in Users /\ call'[r].began \in Int
        BY <2>1 DEF GateTypeOK, Calling, Calls
    <2>3. call'[r].began <= AdminUntil(call'[r].user)
        BY <1>1, <2>1 DEF CallKept, SameCall, NewCall, GateInv, ClaimsWereTrue, Calling
    <2> QED
        BY <1>2, <2>2, <2>3 DEF AdminUntil
<1>6. EntriesAreRecent'
    <2> SUFFICES ASSUME NEW r \in Requests, call'[r].what = "active"
                 PROVE  (call[r].began <= AdminUntil(call[r].user) + Expire + Timeout - 2)'
        BY DEF EntriesAreRecent, Active
    <2>1. Calling(r)'
        BY DEF Calling, Idle
    <2>2. call'[r].user \in Users /\ call'[r].began \in Int
        BY <2>1 DEF GateTypeOK, Calling, Calls
    <2>3. call'[r].began <= AdminUntil(call'[r].user) + Expire + Timeout - 2
        BY <1>1, <2>1 DEF CallKept, SameCall, NewCall, GateInv, EntriesAreRecent, Active, Calling
    <2> QED
        BY <1>2, <2>2, <2>3 DEF AdminUntil
<1>7. TokensAreRecent'
    <2> SUFFICES ASSUME NEW t \in tokens'
                 PROVE  t.exp <= AdminUntil(t.user)' + Expire + Timeout - 1
        BY DEF TokensAreRecent
    <2>1. t.user \in Users /\ t.exp \in Int
        BY DEF GateTypeOK
    <2>2. t.exp <= AdminUntil(t.user) + Expire + Timeout - 1
        BY DEF TokenKept, GateInv, TokensAreRecent
    <2> QED
        BY <1>2, <2>1, <2>2
<1> QED
    BY <1>3, <1>4, <1>5, <1>6, <1>7 DEF GateInv

-----------------------------------------------------------------------------
LEMMA UntilTyped ==
    ASSUME GateTypeOK, NEW u \in Users
    PROVE  AdminUntil(u) \in 0 .. MaxNow
BY DEF GateTypeOK, AdminUntil

\* The writing of a role, or the deletion of a row.
LEMMA RoleWritten ==
    ASSUME GateTypeOK, NEW u \in Users, NEW x \in NewRoles \cup {Gone},
           WriteRole(u, x) \/ LeaveRoles
    PROVE  /\ role' \in [Users -> NewRoles \cup Absent]
           /\ lostAt' \in [Users -> 0 .. MaxNow]
           /\ \A v \in Users : RowKept(v)
<1>1. AdminUntil(u) \in 0 .. MaxNow
    BY UntilTyped
<1>2. \/ role' = role /\ lostAt' = lostAt
      \/ role' = [role EXCEPT ![u] = x] /\ lostAt' = [lostAt EXCEPT ![u] = AdminUntil(u)]
    BY DEF WriteRole, LeaveRoles
<1>3. role' \in [Users -> NewRoles \cup Absent] /\ lostAt' \in [Users -> 0 .. MaxNow]
    BY <1>1, <1>2 DEF GateTypeOK, Absent
<1>4. \A v \in Users : RowKept(v)
    BY <1>2 DEF RowKept, GateTypeOK
<1> QED
    BY <1>3, <1>4

LEMMA CopyTyped ==
    ASSUME GateTypeOK, NEW r \in Requests, call[r].what \in {"login", "update"}
    PROVE  call[r].user \in Users /\ call[r].claim \in NewRoles \cup {Gone}
BY DEF GateTypeOK, Idle

LEMMA GateTypeStep == GateTypeOK /\ [GateNext]_gateVars => GateTypeOK'
<1> SUFFICES ASSUME GateTypeOK, [GateNext]_gateVars PROVE GateTypeOK'
    OBVIOUS
<1> USE TimesAssumption, NewRolesAssumption
<1>1. CASE Tick
    BY <1>1 DEF Tick, GateTypeOK
<1>2. ASSUME NEW r \in Requests, NEW u \in Users, Login(r, u) PROVE GateTypeOK'
    <2>1. CallOf("login", u, role[u]) \in Calls
        BY <1>2 DEF Login, Present, Absent, CallOf, Calls, GateTypeOK
    <2> QED
        BY <1>2, <2>1 DEF Login, Begin, GateTypeOK, Calls
<1>3. ASSUME NEW r \in Requests, Mint(r) PROVE GateTypeOK'
    <2>1. call[r].user \in Users
        BY <1>3, UsersOfCalls DEF Mint, Idle
    <2>2. [user |-> call[r].user, exp |-> now + Expire] \in [user : Users, exp : Expire .. MaxNow + Expire]
        BY <2>1 DEF GateTypeOK
    <2>3. tokens' \subseteq [user : Users, exp : Expire .. MaxNow + Expire]
        BY <1>3, <2>2 DEF Mint, GateTypeOK
    <2>4. call' \in [Requests -> {Idle} \cup Calls]
        BY <1>3 DEF Mint, End, GateTypeOK, Calls
    <2> QED
        BY <1>3, <2>3, <2>4 DEF Mint, GateTypeOK, Calls
<1>4. ASSUME NEW r \in Requests, NEW t \in tokens, Enter(r, t) PROVE GateTypeOK'
    <2>1. CallOf("active", t.user, Gone) \in Calls
        BY DEF CallOf, Calls, GateTypeOK
    <2> QED
        BY <1>4, <2>1 DEF Enter, Begin, GateTypeOK, Calls
<1>5. ASSUME NEW r \in Requests, NEW u \in Users, ReadCopy(r, u) PROVE GateTypeOK'
    <2>1. CallOf("update", u, role[u]) \in Calls
        BY <1>5 DEF ReadCopy, LeaveRoles, Present, Absent, CallOf, Calls, GateTypeOK
    <2> QED
        BY <1>5, <2>1 DEF ReadCopy, LeaveRoles, Begin, GateTypeOK, Calls
<1>6. ASSUME NEW r \in Requests, WriteCopy(r) PROVE GateTypeOK'
    <2>1. call[r].user \in Users /\ call[r].claim \in NewRoles \cup {Gone}
        BY <1>6, CopyTyped DEF WriteCopy
    <2>2. call' \in [Requests -> {Idle} \cup Calls]
        BY <1>6 DEF WriteCopy, End, GateTypeOK, Calls
    <2>3. role' \in [Users -> NewRoles \cup Absent] /\ lostAt' \in [Users -> 0 .. MaxNow]
        BY <1>6, <2>1, RoleWritten DEF WriteCopy
    <2> QED
        BY <1>6, <2>2, <2>3 DEF WriteCopy, WriteRole, LeaveRoles, GateTypeOK, Calls
<1>7. ASSUME NEW r \in Requests, NEW u \in Users, FindTarget(r, u) PROVE GateTypeOK'
    <2>1. call[r] \in Calls
        BY <1>7, UsersOfCalls DEF FindTarget, LeaveRoles, Active, Idle
    <2>2. [call[r] EXCEPT !.target = u] \in Calls
        BY <2>1 DEF Calls
    <2> QED
        BY <1>7, <2>2 DEF FindTarget, LeaveRoles, GateTypeOK, Calls
<1>8. ASSUME NEW r \in Requests, NEW x \in NewRoles, UpdateTarget(r, x) PROVE GateTypeOK'
    <2>1. call[r] \in Calls
        BY <1>8, UsersOfCalls DEF UpdateTarget, Active, Idle
    <2>2. [call[r] EXCEPT !.target = NoUser] \in Calls /\ call[r].target \in Users
        BY <1>8, <2>1 DEF UpdateTarget, Calls
    <2>3. role' \in [Users -> NewRoles \cup Absent] /\ lostAt' \in [Users -> 0 .. MaxNow]
        BY <1>8, <2>2, RoleWritten DEF UpdateTarget
    <2>4. call' \in [Requests -> {Idle} \cup Calls]
        BY <1>8, <2>2 DEF UpdateTarget, GateTypeOK, Calls
    <2> QED
        BY <1>8, <2>3, <2>4 DEF UpdateTarget, WriteRole, LeaveRoles, GateTypeOK, Calls
<1>9. ASSUME NEW u \in Users, WriteRole(u, Gone), UNCHANGED call PROVE GateTypeOK'
    <2>1. role' \in [Users -> NewRoles \cup Absent] /\ lostAt' \in [Users -> 0 .. MaxNow]
        BY <1>9, RoleWritten
    <2> QED
        BY <1>9, <2>1 DEF WriteRole, LeaveRoles, GateTypeOK
<1>10. ASSUME NEW u \in Users, Register(u) PROVE GateTypeOK'
    BY <1>10 DEF Register, GateTypeOK
<1>11. ASSUME NEW r \in Requests, Leave(r) PROVE GateTypeOK'
    BY <1>11 DEF Leave, LeaveRoles, End, GateTypeOK
<1>12. CASE UNCHANGED gateVars
    BY <1>12 DEF gateVars, GateTypeOK
<1> QED
    BY <1>1, <1>2, <1>3, <1>4, <1>5, <1>6, <1>7, <1>8, <1>9, <1>10, <1>11, <1>12
       DEF GateNext, DeleteTarget, DeleteUser

LEMMA GateStep == GateInv /\ [GateNext]_gateVars => GateInv'
<1> SUFFICES ASSUME GateInv, [GateNext]_gateVars PROVE GateInv'
    OBVIOUS
<1> USE TimesAssumption
<1>a. GateTypeOK /\ GateTypeOK' /\ now \in Int
    BY GateTypeStep DEF GateInv, GateTypeOK
<1>b. \A u \in Users : AdminUntil(u) \in Int
    BY <1>a, UntilTyped
<1>1. CASE Tick
    <2>1. \A u \in Users : RowKept(u)
        BY <1>1 DEF Tick, RowKept
    <2>2. (\A r \in Requests : CallKept(r)) /\ (\A t \in tokens' : TokenKept(t))
        BY <1>1 DEF Tick, CallKept, SameCall, TokenKept
    <2> QED
        BY <1>1, <1>a, <2>1, <2>2, StepKeeps DEF Tick
<1>2. ASSUME NEW r \in Requests, NEW u \in Users, Login(r, u) PROVE GateInv'
    <2>1. NewCall(CallOf("login", u, role[u]))
        BY <1>a DEF NewCall, CallOf, AdminUntil
    <2>2. \A q \in Requests : CallKept(q)
        BY <1>2, <1>a, <2>1 DEF Login, Begin, CallKept, SameCall, GateTypeOK
    <2>3. (\A v \in Users : RowKept(v)) /\ (\A t \in tokens' : TokenKept(t))
        BY <1>2 DEF Login, RowKept, TokenKept
    <2> QED
        BY <1>2, <1>a, <2>2, <2>3, StepKeeps DEF Login
<1>3. ASSUME NEW r \in Requests, Mint(r) PROVE GateInv'
    <2>1. Calling(r) /\ call[r].user \in Users /\ call[r].began \in Int
        BY <1>3, <1>a, UsersOfCalls DEF Mint, End
    <2>2. now <= call[r].began + Timeout - 1
        BY <2>1 DEF GateInv, CallsAreShort
    <2>3. call[r].claim = RoleAdmin => call[r].began <= AdminUntil(call[r].user)
        BY <1>3 DEF Mint, GateInv, ClaimsWereTrue
    <2>4. call[r].claim = RoleAdmin => now + Expire <= AdminUntil(call[r].user) + Expire + Timeout - 1
        BY <1>a, <1>b, <2>1, <2>2, <2>3
    <2>5. \A t \in tokens' : TokenKept(t)
        BY <1>3, <2>4 DEF Mint, TokenKept
    <2>6. (\A u \in Users : RowKept(u)) /\ (\A q \in Requests : CallKept(q))
        BY <1>3, <1>a DEF Mint, End, RowKept, CallKept, SameCall, GateTypeOK
    <2> QED
        BY <1>3, <1>a, <2>5, <2>6, StepKeeps DEF Mint
<1>4. ASSUME NEW r \in Requests, NEW t \in tokens, Enter(r, t) PROVE GateInv'
    <2>1. t.user \in Users /\ t.exp \in Int /\ now < t.exp
        BY <1>4, <1>a DEF Enter, GateTypeOK
    <2>2. t.exp <= AdminUntil(t.user) + Expire + Timeout - 1
        BY DEF GateInv, TokensAreRecent
    <2>3. NewCall(CallOf("active", t.user, Gone))
        BY <1>a, <1>b, <2>1, <2>2 DEF NewCall, CallOf
    <2>4. \A q \in Requests : CallKept(q)
        BY <1>4, <1>a, <2>3 DEF Enter, Begin, CallKept, SameCall, GateTypeOK
    <2>5. (\A v \in Users : RowKept(v)) /\ (\A s \in tokens' : TokenKept(s))
        BY <1>4 DEF Enter, RowKept, TokenKept
    <2> QED
        BY <1>4, <1>a, <2>4, <2>5, StepKeeps DEF Enter
<1>5. ASSUME NEW r \in Requests, NEW u \in Users, ReadCopy(r, u) PROVE GateInv'
    <2>1. NewCall(CallOf("update", u, role[u]))
        BY DEF NewCall, CallOf
    <2>2. \A q \in Requests : CallKept(q)
        BY <1>5, <1>a, <2>1 DEF ReadCopy, LeaveRoles, Begin, CallKept, SameCall, GateTypeOK
    <2>3. (\A v \in Users : RowKept(v)) /\ (\A t \in tokens' : TokenKept(t))
        BY <1>5 DEF ReadCopy, LeaveRoles, RowKept, TokenKept
    <2> QED
        BY <1>5, <1>a, <2>2, <2>3, StepKeeps DEF ReadCopy, LeaveRoles
<1>6. ASSUME NEW r \in Requests, WriteCopy(r) PROVE GateInv'
    <2>1. \A v \in Users : RowKept(v)
        BY <1>6, <1>a, CopyTyped, RoleWritten DEF WriteCopy
    <2>2. \A q \in Requests : CallKept(q)
        BY <1>6, <1>a DEF WriteCopy, End, CallKept, SameCall, GateTypeOK
    <2>3. now' = now /\ \A t \in tokens' : TokenKept(t)
        BY <1>6 DEF WriteCopy, WriteRole, LeaveRoles, TokenKept
    <2> QED
        BY <1>a, <2>1, <2>2, <2>3, StepKeeps
<1>7. ASSUME NEW r \in Requests, NEW u \in Users, FindTarget(r, u) PROVE GateInv'
    <2>1. call[r] \in Calls
        BY <1>7, <1>a, UsersOfCalls DEF FindTarget, LeaveRoles, Active, Idle
    <2>2. \A q \in Requests : CallKept(q)
        BY <1>7, <1>a, <2>1 DEF FindTarget, LeaveRoles, CallKept, SameCall, GateTypeOK, Calls
    <2>3. (\A v \in Users : RowKept(v)) /\ (\A t \in tokens' : TokenKept(t))
        BY <1>7 DEF FindTarget, LeaveRoles, RowKept, TokenKept
    <2> QED
        BY <1>7, <1>a, <2>2, <2>3, StepKeeps DEF FindTarget, LeaveRoles
<1>8. ASSUME NEW r \in Requests, NEW x \in NewRoles, UpdateTarget(r, x) PROVE GateInv'
    <2>1. call[r] \in Calls
        BY <1>8, <1>a, UsersOfCalls DEF UpdateTarget, Active, Idle
    <2>2. call[r].target \in Users
        BY <1>8, <2>1 DEF UpdateTarget, Calls
    <2>3. \A v \in Users : RowKept(v)
        BY <1>8, <1>a, <2>2, RoleWritten DEF UpdateTarget
    <2>4. \A q \in Requests : CallKept(q)
        BY <1>8, <1>a, <2>1 DEF UpdateTarget, CallKept, SameCall, GateTypeOK, Calls
    <2>5. now' = now /\ \A t \in tokens' : TokenKept(t)
        BY <1>8 DEF UpdateTarget, WriteRole, LeaveRoles, TokenKept
    <2> QED
        BY <1>a, <2>3, <2>4, <2>5, StepKeeps
<1>9. ASSUME NEW u \in Users, WriteRole(u, Gone), UNCHANGED call PROVE GateInv'
    <2>1. \A v \in Users : RowKept(v)
        BY <1>9, <1>a, RoleWritten
    <2>2. \A q \in Requests : CallKept(q)
        BY <1>9 DEF CallKept, SameCall
    <2>3. now' = now /\ \A t \in tokens' : TokenKept(t)
        BY <1>9 DEF WriteRole, LeaveRoles, TokenKept
    <2> QED
        BY <1>a, <2>1, <2>2, <2>3, StepKeeps
<1>10. ASSUME NEW u \in Users, Register(u) PROVE GateInv'
    <2>1. \A v \in Users : RowKept(v)
        BY <1>10, <1>a DEF Register, RowKept, Unborn, RoleAdmin, GateTypeOK
    <2>2. (\A q \in Requests : CallKept(q)) /\ (\A t \in tokens' : TokenKept(t))
        BY <1>10 DEF Register, CallKept, SameCall, TokenKept
    <2> QED
        BY <1>10, <1>a, <2>1, <2>2, StepKeeps DEF Register
<1>11. ASSUME NEW r \in Requests, Leave(r) PROVE GateInv'
    <2>1. \A q \in Requests : CallKept(q)
        BY <1>11, <1>a DEF Leave, LeaveRoles, End, CallKept, SameCall, GateTypeOK
    <2>2. (\A u \in Users : RowKept(u)) /\ (\A t \in tokens' : TokenKept(t))
        BY <1>11 DEF Leave, LeaveRoles, RowKept, TokenKept
    <2> QED
        BY <1>11, <1>a, <2>1, <2>2, StepKeeps DEF Leave, LeaveRoles
<1>12. CASE UNCHANGED gateVars
    <2>1. (\A u \in Users : RowKept(u)) /\ (\A q \in Requests : CallKept(q))
        BY <1>12 DEF gateVars, RowKept, CallKept, SameCall
    <2>2. \A t \in tokens' : TokenKept(t)
        BY <1>12 DEF gateVars, TokenKept
    <2> QED
        BY <1>12, <1>a, <2>1, <2>2, StepKeeps DEF gateVars
<1> QED
    BY <1>1, <1>2, <1>3, <1>4, <1>5, <1>6, <1>7, <1>8, <1>9, <1>10, <1>11, <1>12
       DEF GateNext, DeleteTarget, DeleteUser

LEMMA GateBound == GateInv => AdminActsAreRecent
<1> SUFFICES ASSUME GateInv, NEW r \in Requests, Active(r)
             PROVE  now <= AdminUntil(call[r].user) + Expire + 2 * Timeout - 3
    BY DEF AdminActsAreRecent
<1>1. Calling(r)
    BY DEF Active, Calling, Idle
<1>2. call[r].user \in Users /\ call[r].began \in Int /\ now \in Int
    BY <1>1, UsersOfCalls DEF GateInv, GateTypeOK
<1>3. AdminUntil(call[r].user) \in Int
    BY <1>2, UntilTyped DEF GateInv
<1>4. now <= call[r].began + Timeout - 1
    BY <1>1 DEF GateInv, CallsAreShort
<1>5. call[r].began <= AdminUntil(call[r].user) + Expire + Timeout - 2
    BY DEF GateInv, EntriesAreRecent
<1> QED
    BY <1>2, <1>3, <1>4, <1>5, TimesAssumption

-----------------------------------------------------------------------------
\* A listing, whoever asks for it, begins as ListUsers says and touches nothing else.
LEMMA ListingReads == Listing => UNCHANGED <<gateVars, trailVars, job>>
  BY DEF Listing, GetUsers, AdminGetUsers, ListUsers

LEMMA ListingBegins == Listing => \E n \in Nat, p \in Int, s \in Int : ListUsers(n, p, s)
<1> SUFFICES ASSUME Listing PROVE \E n \in Nat, p \in Int, s \in Int : ListUsers(n, p, s)
    OBVIOUS
<1>1. PICK n \in AskedRoles, p \in AskedPages, s \in PageSizes :
          GetUsers(n, p, s) \/ \E r \in Requests : AdminGetUsers(r, n, p, s)
    BY DEF Listing
<1>2. /\ n \in Nat /\ p \in Int /\ s \in Int
      /\ (IF p < 1 THEN 1 ELSE p) \in Int /\ (IF s < 1 THEN DefaultSize ELSE s) \in Int
    BY AskedAssumption, SizesAssumption
<1> QED
    BY <1>1, <1>2 DEF GetUsers, AdminGetUsers

\* What an administrator does behind the door is a step of the door, or none.
LEMMA ConsoleStepsAtDoor == [ConsoleNext]_consoleVars => [GateNext]_gateVars
<1> SUFFICES ASSUME [ConsoleNext]_consoleVars PROVE [GateNext]_gateVars
    OBVIOUS
<1>1. CASE Door
    BY <1>1 DEF Door, GateNext
<1>2. ASSUME NEW r \in Requests, \/ \E u \in Users : ReadUser(r, u) \/ AdminDeleteUser(r, u)
                                 \/ \E x \in NewRoles : WriteUser(r, x)
      PROVE  GateNext
    BY <1>2 DEF ReadUser, AdminDeleteUser, WriteUser, GateNext
<1>3. CASE OwnWrite
    BY <1>3 DEF OwnWrite, GateNext
<1>4. ASSUME NEW r \in Requests, Answer(r) PROVE GateNext
    BY <1>4 DEF Answer, GateNext
<1>5. ASSUME NEW r \in Requests, CountLogs(r) \/ SelectLogs(r) \/ \E e \in Entries : Audit(r, e)
      PROVE  UNCHANGED gateVars
    BY <1>5 DEF CountLogs, SelectLogs, Audit
<1>6. ASSUME \/ \E e \in Entries : RecordLog(e)
             \/ \E a \in Actions \cup {AnyAction}, n \in PageSizes : Walk(a, n)
             \/ Listing \/ CountUsers \/ SelectUsers \/ EndList
      PROVE  UNCHANGED gateVars
    BY <1>6, ListingReads DEF RecordLog, Walk, CountUsers, SelectUsers, EndList
<1>7. CASE UNCHANGED consoleVars
    BY <1>7 DEF consoleVars
<1> QED
    BY <1>1, <1>2, <1>3, <1>4, <1>5, <1>6, <1>7 DEF ConsoleNext

\* An administrative call runs only for someone who was an administrator until the
\* life of a token and of two calls ago, whatever those are.
\* (internal/service/user_service.go:349-386, internal/handler/v1/grpc_handler.go:323-350)
THEOREM AdminActsBounded == ConsoleSpec => []AdminActsAreRecent
<1>1. ConsoleInit => GateInv
    BY GateInitInv DEF ConsoleInit
<1>2. GateInv /\ [ConsoleNext]_consoleVars => GateInv'
    BY GateStep, ConsoleStepsAtDoor
<1> QED
    BY <1>1, <1>2, GateBound, PTL DEF ConsoleSpec

-----------------------------------------------------------------------------
\* Nor does anything the console does to the trail go beyond AuditTrail.
LEMMA ConsoleStepsOnTrail == [ConsoleNext]_consoleVars => [TrailNext]_trailVars
<1> SUFFICES ASSUME [ConsoleNext]_consoleVars PROVE [TrailNext]_trailVars
    OBVIOUS
<1>1. ASSUME NEW e \in Entries, (\E r \in Requests : Audit(r, e)) \/ RecordLog(e) PROVE TrailNext
    BY <1>1 DEF Audit, RecordLog, TrailNext
<1>2. ASSUME NEW a \in Actions \cup {AnyAction}, NEW n \in PageSizes, Walk(a, n) PROVE TrailNext
    BY <1>2 DEF Walk, TrailNext
<1>3. ASSUME NEW r \in Requests, CountLogs(r) \/ SelectLogs(r) PROVE TrailNext
    BY <1>3 DEF CountLogs, SelectLogs, TrailNext
<1>4. ASSUME NEW r \in Requests, Answer(r) PROVE TrailNext \/ UNCHANGED trailVars
    BY <1>4 DEF Answer, TrailNext
<1>5. ASSUME \/ Door \/ OwnWrite
             \/ \E r \in Requests, u \in Users : ReadUser(r, u) \/ AdminDeleteUser(r, u)
             \/ \E r \in Requests, x \in NewRoles : WriteUser(r, x)
             \/ Listing \/ CountUsers \/ SelectUsers \/ EndList
      PROVE  UNCHANGED trailVars
    BY <1>5, ListingReads DEF Door, OwnWrite, ReadUser, AdminDeleteUser, WriteUser, CountUsers,
                SelectUsers, EndList
<1>6. CASE UNCHANGED consoleVars
    BY <1>6 DEF consoleVars
<1> QED
    BY <1>1, <1>2, <1>3, <1>4, <1>5, <1>6 DEF ConsoleNext

LEMMA ConsoleTrail == ConsoleSpec => []TrailInv
<1>1. ConsoleInit => TrailInv
    BY TrailInitInv DEF ConsoleInit
<1>2. TrailInv /\ [ConsoleNext]_consoleVars => TrailInv'
    BY TrailStep, ConsoleStepsOnTrail
<1> QED
    BY <1>1, <1>2, PTL DEF ConsoleSpec

\* However many entries the services append between its pages, a walk through
\* operation_logs gives every entry that was there when it began.
\* (internal/audit/audit.go:28-56, internal/handler/v1/grpc_handler.go:388-402)
THEOREM WalkComplete == ConsoleSpec => []WalkMissesNothing
<1>1. TrailInv => WalkMissesNothing
    BY DEF TrailInv
<1> QED
    BY <1>1, ConsoleTrail, PTL

\* A page that is not full comes with a total that promises nothing more, although
\* the two are read apart.  (internal/audit/audit.go:43-56)
THEOREM ShortPageIsLast == ConsoleSpec => []ShortPageKeepsPromise
<1>1. TrailInv => ShortPageKeepsPromise
    BY DEF TrailInv
<1> QED
    BY <1>1, ConsoleTrail, PTL

-----------------------------------------------------------------------------
(* The two statements of a listing.  Each was right when it ran: CountWas says by   *)
(* how much the table has moved on since the COUNT, and PageWas since the SELECT.   *)

N == Cardinality(Users)
Lists == [open : BOOLEAN, role : Nat, page : Nat \ {0}, size : Nat \ {0},
          total : {Unread} \cup 0 .. N, len : {Unread} \cup Nat, moves : 0 .. N]

Near(c, l) == c \in 0 .. N /\ c <= l + list.moves /\ l <= c + list.moves

ClosedIsBlank == ~list.open => list = NoList
CountWas == list.total # Unread => Near(list.total, Cardinality(Listed))
PageWas == list.len # Unread => \E c \in 0 .. N : /\ Near(c, Cardinality(Listed))
                                                  /\ list.len = RowCount(c, ListOffset, list.size)

ListInv == /\ list \in Lists
           /\ ClosedIsBlank
           /\ CountWas
           /\ PageWas
           /\ ListDriftIsBounded

LEMMA UserCount == N \in Nat
BY UsersAssumption, FS_CardinalityType DEF N

LEMMA ListedIsFinite == IsFiniteSet(Listed) /\ Cardinality(Listed) \in 0 .. N
<1>1. Listed \subseteq Users
    BY DEF Listed
<1> QED
    BY <1>1, UsersAssumption, UserCount, FS_Subset, FS_CardinalityType DEF N

\* What a written row does to the rows that a listing is of.
LEMMA OneRowMoves ==
    ASSUME NEW u \in Users, \A v \in Users \ {u} : role'[v] = role[v],
           list'.role = list.role
    PROVE  /\ Cardinality(Listed)' \in 0 .. N
           /\ Cardinality(Listed)' <= Cardinality(Listed) + 1
           /\ Cardinality(Listed) <= Cardinality(Listed)' + 1
<1> DEFINE L == Listed  M == Listed'
<1>1. M \ {u} = L \ {u}
    BY DEF Listed, Present
<1>2. IsFiniteSet(L) /\ IsFiniteSet(M) /\ Cardinality(M) \in 0 .. N /\ Cardinality(L) \in 0 .. N
    <2>1. L \subseteq Users /\ M \subseteq Users
        BY DEF Listed
    <2> QED
        BY <2>1, UsersAssumption, UserCount, FS_Subset, FS_CardinalityType DEF N
<1> HIDE DEF L, M
<1>3. Cardinality(L \ {u}) \in {Cardinality(L) - 1, Cardinality(L)}
    BY <1>2, FS_RemoveElement
<1>4. Cardinality(M \ {u}) \in {Cardinality(M) - 1, Cardinality(M)}
    BY <1>2, FS_RemoveElement
<1>5. Cardinality(M) <= Cardinality(L) + 1 /\ Cardinality(L) <= Cardinality(M) + 1
    <2>1. Cardinality(L) \in Int /\ Cardinality(M) \in Int
        BY <1>2, UserCount
    <2>2. Cardinality(L \ {u}) = Cardinality(M \ {u})
        BY <1>1
    <2> QED
        BY <1>3, <1>4, <2>1, <2>2
<1> QED
    BY <1>2, <1>5 DEF L, M

LEMMA RowsOfAnyPage ==
    ASSUME NEW n \in Nat, NEW o \in Nat, NEW l \in Nat \ {0}
    PROVE  RowCount(n, o, l) \in Nat /\ RowCount(n, o, l) <= n
BY DEF RowCount, Between

LEMMA ListOffsetTyped == ASSUME list \in Lists PROVE ListOffset \in Nat
<1>1. list.page - 1 \in Nat /\ list.size \in Nat
    BY DEF Lists
<1> QED
    BY <1>1 DEF ListOffset

-----------------------------------------------------------------------------
LEMMA NoListIsList == NoList \in Lists
BY UserCount DEF NoList, Lists, Unread

LEMMA NoListInv == ASSUME list = NoList PROVE ListInv
BY NoListIsList DEF ListInv, ClosedIsBlank, CountWas, PageWas, ListDriftIsBounded, NoList

LEMMA ListKept ==
    ASSUME ListInv, list' = list, Listed' = Listed
    PROVE  ListInv'
<1>1. (list \in Lists)' /\ ClosedIsBlank' /\ CountWas'
    BY DEF ListInv, ClosedIsBlank, CountWas, Near
<1>2. PageWas' /\ ListDriftIsBounded'
    BY DEF ListInv, PageWas, ListDriftIsBounded, Near, ListOffset
<1> QED
    BY <1>1, <1>2 DEF ListInv

\* A row that changes is one more that the results may be apart from the table; they
\* are not further apart from each other.
LEMMA MoveKeeps ==
    ASSUME ListInv, NEW u \in Users, \A v \in Users \ {u} : role'[v] = role[v],
           role' # role, list' = Moved
    PROVE  ListInv'
<1>1. CASE ~list.open
    <2>1. list' = NoList
        BY <1>1 DEF ListInv, ClosedIsBlank, Moved
    <2> QED
        BY <2>1, NoListInv, NoListIsList
           DEF ListInv, ClosedIsBlank, CountWas, PageWas, ListDriftIsBounded, NoList
<1>2. CASE list.open
    <2>1. list \in Lists /\ N \in Nat
        BY UserCount DEF ListInv
    <2>2. /\ list' \in Lists /\ list'.open
          /\ list'.role = list.role /\ list'.page = list.page /\ list'.size = list.size
          /\ list'.total = list.total /\ list'.len = list.len
          /\ list'.moves = IF list.moves < N THEN list.moves + 1 ELSE list.moves
        BY <1>2, <2>1 DEF Moved, Lists, N
    <2>3. /\ Cardinality(Listed)' \in 0 .. N
          /\ Cardinality(Listed)' <= Cardinality(Listed) + 1
          /\ Cardinality(Listed) <= Cardinality(Listed)' + 1
        BY <2>2, OneRowMoves
    <2>4. Cardinality(Listed) \in 0 .. N /\ list.moves \in 0 .. N
        BY <2>1, ListedIsFinite DEF Lists
    <2>5. ASSUME NEW c, Near(c, Cardinality(Listed)) PROVE Near(c, Cardinality(Listed))'
        <3>1. c \in 0 .. N /\ c <= Cardinality(Listed) + list.moves /\ Cardinality(Listed) <= c + list.moves
            BY <2>5 DEF Near
        <3>2. CASE list.moves < N
            BY <2>1, <2>2, <2>3, <2>4, <3>1, <3>2 DEF Near
        <3>3. CASE ~(list.moves < N)
            <4>1. list'.moves = N
                BY <2>1, <2>2, <2>4, <3>3
            <4> QED
                BY <2>1, <2>3, <3>1, <4>1 DEF Near
        <3> QED
            BY <3>2, <3>3
    <2>6. CountWas'
        BY <2>2, <2>5 DEF ListInv, CountWas
    <2>7. ListOffset' = ListOffset
        BY <2>2 DEF ListOffset
    <2>8. PageWas'
        BY <2>2, <2>5, <2>7 DEF ListInv, PageWas
    <2>9. ListDriftIsBounded'
        <3> SUFFICES ASSUME list.total # Unread, list.len # Unread
                     PROVE  \E d \in -list'.moves .. list'.moves :
                                list.len = RowCount(list.total + d, ListOffset, list.size)
            BY <2>2, <2>7 DEF ListDriftIsBounded
        <3>1. PICK d \in -list.moves .. list.moves :
                    list.len = RowCount(list.total + d, ListOffset, list.size)
            BY DEF ListInv, ListDriftIsBounded
        <3>2. d \in -list'.moves .. list'.moves
            BY <2>1, <2>2, <2>4
        <3> QED
            BY <3>1, <3>2
    <2> QED
        BY <2>2, <2>6, <2>8, <2>9 DEF ListInv, ClosedIsBlank
<1> QED
    BY <1>1, <1>2

\* A step that writes, writes one row, or none.
LEMMA RowWriteMoves ==
    ASSUME GateTypeOK,
           \/ \E r \in Requests : \/ \E u \in Users : AdminDeleteUser(r, u)
                                  \/ \E x \in NewRoles : WriteUser(r, x)
           \/ OwnWrite
    PROVE  list' = Moved /\ \E u \in Users : \A v \in Users \ {u} : role'[v] = role[v]
<1>1. ASSUME NEW u \in Users, NEW x, WriteRole(u, x) \/ LeaveRoles
      PROVE  \E w \in Users : \A v \in Users \ {w} : role'[v] = role[v]
    BY <1>1 DEF WriteRole, LeaveRoles, GateTypeOK
<1>2. ASSUME NEW r \in Requests, NEW u \in Users, AdminDeleteUser(r, u)
      PROVE  list' = Moved /\ \E w \in Users : \A v \in Users \ {w} : role'[v] = role[v]
    BY <1>1, <1>2 DEF AdminDeleteUser, DeleteTarget
<1>3. ASSUME NEW r \in Requests, NEW x \in NewRoles, WriteUser(r, x)
      PROVE  list' = Moved /\ \E w \in Users : \A v \in Users \ {w} : role'[v] = role[v]
    <2>1. call[r] \in Calls /\ call[r].target # NoUser
        BY <1>3, UsersOfCalls DEF WriteUser, UpdateTarget, Active, Idle
    <2>2. call[r].target \in Users
        BY <2>1 DEF Calls
    <2> QED
        BY <1>1, <1>3, <2>2 DEF WriteUser, UpdateTarget
<1>4. ASSUME OwnWrite, NEW u \in Users, DeleteUser(u)
      PROVE  list' = Moved /\ \E w \in Users : \A v \in Users \ {w} : role'[v] = role[v]
    BY <1>1, <1>4 DEF OwnWrite, DeleteUser
<1>5. ASSUME OwnWrite, NEW u \in Users, Register(u)
      PROVE  list' = Moved /\ \E w \in Users : \A v \in Users \ {w} : role'[v] = role[v]
    BY <1>5 DEF OwnWrite, Register, GateTypeOK
<1>6. ASSUME OwnWrite, NEW r \in Requests, WriteCopy(r)
      PROVE  list' = Moved /\ \E w \in Users : \A v \in Users \ {w} : role'[v] = role[v]
    <2>1. call[r].user \in Users
        BY <1>6, CopyTyped DEF WriteCopy
    <2> QED
        BY <1>1, <1>6, <2>1 DEF OwnWrite, WriteCopy
<1> QED
    BY <1>2, <1>3, <1>4, <1>5, <1>6 DEF OwnWrite

LEMMA MovedOnlyByRows == role' = role => Moved = list
  BY DEF Moved

LEMMA CountUsersKeeps == ASSUME ListInv, CountUsers PROVE ListInv'
<1>1. list \in Lists /\ N \in Nat /\ Cardinality(Listed) \in 0 .. N
    BY UserCount, ListedIsFinite DEF ListInv
<1>2. /\ list' \in Lists /\ list'.open
      /\ list'.role = list.role /\ list'.page = list.page /\ list'.size = list.size
      /\ list'.total = Cardinality(Listed) /\ list'.len = list.len
      /\ list'.moves = list.moves
    BY <1>1 DEF CountUsers, Lists
<1>3. Listed' = Listed /\ ListOffset' = ListOffset
    BY <1>2 DEF CountUsers, gateVars, Listed, Present, ListOffset
<1>4. CountWas'
    BY <1>1, <1>2, <1>3 DEF CountWas, Near, Lists
<1>5. PageWas'
    BY <1>2, <1>3 DEF ListInv, PageWas, Near
<1>6. ListDriftIsBounded'
    <2> SUFFICES ASSUME list.len # Unread
                 PROVE  \E d \in -list.moves .. list.moves :
                            list.len = RowCount(Cardinality(Listed) + d, ListOffset, list.size)
        BY <1>2, <1>3 DEF ListDriftIsBounded
    <2>1. PICK c \in 0 .. N : /\ Near(c, Cardinality(Listed))
                              /\ list.len = RowCount(c, ListOffset, list.size)
        BY DEF ListInv, PageWas
    <2>2. c - Cardinality(Listed) \in -list.moves .. list.moves
        BY <1>1, <2>1 DEF Near, Lists
    <2>3. Cardinality(Listed) + (c - Cardinality(Listed)) = c
        BY <1>1
    <2> QED
        BY <2>1, <2>2, <2>3
<1> QED
    BY <1>2, <1>4, <1>5, <1>6 DEF ListInv, ClosedIsBlank

LEMMA SelectUsersKeeps == ASSUME ListInv, SelectUsers PROVE ListInv'
<1>1. list \in Lists /\ N \in Nat /\ Cardinality(Listed) \in 0 .. N /\ ListOffset \in Nat
    BY UserCount, ListedIsFinite, ListOffsetTyped DEF ListInv
<1>2. RowCount(Cardinality(Listed), ListOffset, list.size) \in Nat
    <2>1. list.size \in Nat \ {0} /\ Cardinality(Listed) \in Nat
        BY <1>1 DEF Lists
    <2> QED
        BY <1>1, <2>1, RowsOfAnyPage
<1>3. /\ list' \in Lists /\ list'.open
      /\ list'.role = list.role /\ list'.page = list.page /\ list'.size = list.size
      /\ list'.total = list.total
      /\ list'.len = RowCount(Cardinality(Listed), ListOffset, list.size)
      /\ list'.moves = list.moves
    BY <1>1, <1>2 DEF SelectUsers, Lists
<1>4. Listed' = Listed /\ ListOffset' = ListOffset
    BY <1>3 DEF SelectUsers, gateVars, Listed, Present, ListOffset
<1>5. CountWas'
    BY <1>3, <1>4 DEF ListInv, CountWas, Near
<1>6. PageWas'
    <2>1. Near(Cardinality(Listed), Cardinality(Listed))'
        BY <1>1, <1>3, <1>4 DEF Near, Lists
    <2> QED
        BY <1>1, <1>3, <1>4, <2>1 DEF PageWas
<1>7. ListDriftIsBounded'
    <2> SUFFICES ASSUME list.total # Unread
                 PROVE  \E d \in -list.moves .. list.moves :
                            RowCount(Cardinality(Listed), ListOffset, list.size)
                            = RowCount(list.total + d, ListOffset, list.size)
        BY <1>3, <1>4 DEF ListDriftIsBounded
    <2>1. Near(list.total, Cardinality(Listed))
        BY DEF ListInv, CountWas
    <2>2. Cardinality(Listed) - list.total \in -list.moves .. list.moves
        BY <1>1, <2>1 DEF Near, Lists
    <2>3. list.total + (Cardinality(Listed) - list.total) = Cardinality(Listed)
        BY <1>1, <2>1 DEF Near
    <2> QED
        BY <2>2, <2>3
<1> QED
    BY <1>3, <1>5, <1>6, <1>7 DEF ListInv, ClosedIsBlank

LEMMA ListUsersKeeps ==
    ASSUME NEW n \in Nat, NEW p \in Int, NEW s \in Int, ListUsers(n, p, s)
    PROVE  ListInv'
<1>1. DefaultSize \in Nat \ {0} /\ N \in Nat
    BY SizesAssumption, UserCount
<1>2. /\ n % 256 \in Nat
      /\ (IF p < 1 THEN 1 ELSE p) \in Nat \ {0}
      /\ (IF s < 1 THEN DefaultSize ELSE s) \in Nat \ {0}
    BY <1>1
<1>3. list' = [open |-> TRUE, role |-> n % 256, page |-> IF p < 1 THEN 1 ELSE p,
               size |-> IF s < 1 THEN DefaultSize ELSE s,
               total |-> Unread, len |-> Unread, moves |-> 0]
    BY DEF ListUsers, NoList
<1>4. /\ list' \in Lists /\ list'.open
      /\ list'.total = Unread /\ list'.len = Unread
    BY <1>1, <1>2, <1>3 DEF Lists
<1> QED
    BY <1>4 DEF ListInv, ClosedIsBlank, CountWas, PageWas, ListDriftIsBounded

LEMMA ListStep == GateTypeOK /\ ListInv /\ [ConsoleNext]_consoleVars => ListInv'
<1> SUFFICES ASSUME GateTypeOK, ListInv, [ConsoleNext]_consoleVars PROVE ListInv'
    OBVIOUS
<1>1. ASSUME UNCHANGED <<role, list>> PROVE ListInv'
    BY <1>1, ListKept DEF Listed, Present
<1>2. CASE Door
    BY <1>1, <1>2 DEF Door, Tick, Login, ReadCopy, LeaveRoles, Mint, Enter
<1>3. ASSUME NEW r \in Requests, NEW u \in Users, ReadUser(r, u) PROVE ListInv'
    BY <1>1, <1>3 DEF ReadUser, FindTarget, LeaveRoles
<1>4. ASSUME \/ OwnWrite
             \/ \E r \in Requests, u \in Users : AdminDeleteUser(r, u)
             \/ \E r \in Requests, x \in NewRoles : WriteUser(r, x)
      PROVE  ListInv'
    <2>1. list' = Moved /\ \E u \in Users : \A v \in Users \ {u} : role'[v] = role[v]
        BY <1>4, RowWriteMoves
    <2>2. CASE role' = role
        BY <1>1, <2>1, <2>2, MovedOnlyByRows
    <2>3. CASE role' # role
        BY <2>1, <2>3, MoveKeeps
    <2> QED
        BY <2>2, <2>3
<1>5. ASSUME NEW r \in Requests, \/ CountLogs(r) \/ SelectLogs(r) \/ Answer(r)
                                 \/ \E e \in Entries : Audit(r, e)
      PROVE  ListInv'
    BY <1>1, <1>5 DEF CountLogs, SelectLogs, Answer, Leave, LeaveRoles, Audit, gateVars
<1>6. ASSUME \/ \E e \in Entries : RecordLog(e)
             \/ \E a \in Actions \cup {AnyAction}, n \in PageSizes : Walk(a, n)
      PROVE  ListInv'
    BY <1>1, <1>6 DEF RecordLog, Walk, gateVars
<1>7. CASE Listing
    <2>1. PICK n \in Nat, p \in Int, s \in Int : ListUsers(n, p, s)
        BY <1>7, ListingBegins
    <2> QED
        BY <2>1, ListUsersKeeps
<1>8. CASE EndList
    <2>1. list' = NoList
        BY <1>8 DEF EndList
    <2> QED
        BY <2>1, NoListIsList DEF ListInv, ClosedIsBlank, CountWas, PageWas, ListDriftIsBounded, NoList
<1>9. CASE UNCHANGED consoleVars
    BY <1>1, <1>9 DEF consoleVars, gateVars
<1> QED
    BY <1>2, <1>3, <1>4, <1>5, <1>6, <1>7, <1>8, <1>9, CountUsersKeeps, SelectUsersKeeps
       DEF ConsoleNext

LEMMA ConsoleList == ConsoleSpec => [](GateTypeOK /\ ListInv)
<1>1. ConsoleInit => GateTypeOK /\ ListInv
    BY GateInitInv, NoListInv DEF ConsoleInit, GateInv
<1>2. GateTypeOK /\ ListInv /\ [ConsoleNext]_consoleVars => (GateTypeOK /\ ListInv)'
    BY ListStep, GateTypeStep, ConsoleStepsAtDoor
<1> QED
    BY <1>1, <1>2, PTL DEF ConsoleSpec

\* The total and the page of a listing are no further apart than the rows that changed
\* since it began; of a quiet table they agree.
\* (internal/repository/user_repo.go:144-179, internal/service/user_service.go:510-532)
THEOREM ListDriftBounded == ConsoleSpec => []ListDriftIsBounded
<1>1. GateTypeOK /\ ListInv => ListDriftIsBounded
    BY DEF ListInv
<1> QED
    BY <1>1, ConsoleList, PTL

-----------------------------------------------------------------------------
\* Work is in progress only behind the door, and one call at a time has the walk's page.
JobInv ==
    /\ job \in [Requests -> {"none", "write", "audit", "logs", "done"}]
    /\ \A r \in Requests : job[r] # "none" => Active(r)
    /\ \A r \in Requests : job[r] = "logs" => walk = "select"
    /\ \A q, r \in Requests : job[q] = "logs" /\ job[r] = "logs" => q = r

LEMMA JobStep == GateTypeOK /\ JobInv /\ [ConsoleNext]_consoleVars => JobInv'
<1> SUFFICES ASSUME GateTypeOK, JobInv, [ConsoleNext]_consoleVars PROVE JobInv'
    OBVIOUS
<1>1. ASSUME NEW r \in Requests, \A q \in Requests : Active(q) => Active(q)', walk' = walk,
             job[r] # "none" \/ Active(r), NEW j \in {"write", "audit", "done"},
             job' = [job EXCEPT ![r] = j]
      PROVE  JobInv'
    BY <1>1 DEF JobInv, Active
<1>2. CASE Door
    <2>1. ASSUME NEW r \in Requests, job[r] # "none" PROVE call'[r] = call[r]
        <3>1. call[r].what = "active" /\ Calling(r)
            BY <2>1 DEF JobInv, Active, Calling, Idle
        <3>2. Tick => call'[r] = call[r]
            BY DEF Tick
        <3>3. ASSUME NEW q \in Requests, NEW u \in Users, Login(q, u) PROVE call'[r] = call[r]
            BY <3>1, <3>3 DEF Login, Begin, GateTypeOK
        <3>4. ASSUME NEW q \in Requests, Mint(q) PROVE call'[r] = call[r]
            BY <3>1, <3>4 DEF Mint, End, GateTypeOK
        <3>5. ASSUME NEW q \in Requests, NEW t \in tokens, Enter(q, t) PROVE call'[r] = call[r]
            BY <3>1, <3>5 DEF Enter, Begin, GateTypeOK
        <3>6. ASSUME NEW q \in Requests, NEW u \in Users, ReadCopy(q, u) PROVE call'[r] = call[r]
            BY <3>1, <3>6 DEF ReadCopy, LeaveRoles, Begin, GateTypeOK
        <3> QED
            BY <1>2, <3>2, <3>3, <3>4, <3>5, <3>6 DEF Door
    <2>2. job' = job /\ walk' = walk
        BY <1>2 DEF Door, trailVars
    <2> QED
        BY <2>1, <2>2 DEF JobInv, Active
<1>3. ASSUME NEW r \in Requests, \/ \E u \in Users : ReadUser(r, u) \/ AdminDeleteUser(r, u)
                                 \/ \E x \in NewRoles : WriteUser(r, x)
      PROVE  JobInv'
    <2>1. ASSUME NEW u \in Users, ReadUser(r, u) PROVE JobInv'
        <3>1. \A q \in Requests : Active(q) => Active(q)'
            BY <2>1 DEF ReadUser, FindTarget, LeaveRoles, Active, GateTypeOK
        <3> QED
            BY <1>1, <2>1, <3>1 DEF ReadUser, FindTarget, LeaveRoles, trailVars
    <2>2. ASSUME NEW u \in Users, AdminDeleteUser(r, u) PROVE JobInv'
        <3>1. \A q \in Requests : Active(q) => Active(q)'
            BY <2>2 DEF AdminDeleteUser, DeleteTarget, Active
        <3> QED
            BY <1>1, <2>2, <3>1 DEF AdminDeleteUser, DeleteTarget, trailVars
    <2>3. ASSUME NEW x \in NewRoles, WriteUser(r, x) PROVE JobInv'
        <3>1. \A q \in Requests : Active(q) => Active(q)'
            BY <2>3 DEF WriteUser, UpdateTarget, Active, GateTypeOK
        <3> QED
            BY <1>1, <2>3, <3>1 DEF WriteUser, UpdateTarget, trailVars
    <2> QED
        BY <1>3, <2>1, <2>2, <2>3
<1>4. ASSUME NEW r \in Requests, NEW e \in Entries, Audit(r, e) PROVE JobInv'
    BY <1>1, <1>4 DEF Audit, Record, gateVars, Active
<1>5. ASSUME NEW r \in Requests, CountLogs(r) PROVE JobInv'
    <2>1. walk = "count" /\ walk' = "select" /\ call' = call /\ Active(r)
          /\ job' = [job EXCEPT ![r] = "logs"]
        BY <1>5 DEF CountLogs, Count, gateVars
    <2>2. \A q \in Requests : job[q] # "logs"
        BY <2>1 DEF JobInv
    <2> QED
        BY <2>1, <2>2 DEF JobInv, Active
<1>6. ASSUME NEW r \in Requests, SelectLogs(r) PROVE JobInv'
    <2>1. job[r] = "logs" /\ call' = call /\ job' = [job EXCEPT ![r] = "done"]
        BY <1>6 DEF SelectLogs, gateVars
    <2>2. \A q \in Requests : job'[q] # "logs"
        BY <2>1 DEF JobInv
    <2> QED
        BY <2>1, <2>2 DEF JobInv, Active
<1>7. ASSUME NEW r \in Requests, Answer(r) PROVE JobInv'
    <2>1. job' = [job EXCEPT ![r] = "none"] /\ call' = [call EXCEPT ![r] = Idle]
        BY <1>7 DEF Answer, Leave, LeaveRoles, End
    <2>2. \A q \in Requests \ {r} : job'[q] = job[q] /\ call'[q] = call[q]
        BY <2>1 DEF JobInv, GateTypeOK
    <2>3. job[r] # "logs" => walk' = walk
        BY <1>7 DEF Answer, trailVars
    <2>4. \A q \in Requests : job'[q] = "logs" => walk' = "select"
        BY <2>1, <2>2, <2>3 DEF JobInv
    <2>5. job' \in [Requests -> {"none", "write", "audit", "logs", "done"}] /\ job'[r] = "none"
        BY <2>1 DEF JobInv
    <2> QED
        BY <2>2, <2>4, <2>5 DEF JobInv, Active
<1>8. ASSUME job' = job, call' = call, walk' = walk PROVE JobInv'
    BY <1>8 DEF JobInv, Active
<1>9. ASSUME \/ \E e \in Entries : RecordLog(e)
             \/ Listing \/ CountUsers \/ SelectUsers \/ EndList
             \/ UNCHANGED consoleVars
      PROVE  job' = job /\ call' = call /\ walk' = walk
    BY <1>9, ListingReads DEF RecordLog, Record, CountUsers, SelectUsers, EndList, consoleVars,
                gateVars, trailVars
<1>10. ASSUME NEW a \in Actions \cup {AnyAction}, NEW n \in PageSizes, Walk(a, n) PROVE JobInv'
    <2>1. walk = "none" /\ job' = job /\ call' = call
        BY <1>10 DEF Walk, StartWalk, gateVars
    <2> QED
        BY <2>1 DEF JobInv, Active
<1>11. CASE OwnWrite
    <2>1. ASSUME NEW r \in Requests, job[r] # "none" PROVE call'[r] = call[r]
        <3>1. call[r].what = "active"
            BY <2>1 DEF JobInv, Active
        <3>2. ASSUME NEW u \in Users, DeleteUser(u) \/ Register(u) PROVE call'[r] = call[r]
            BY <3>2 DEF DeleteUser, Register
        <3>3. ASSUME NEW q \in Requests, WriteCopy(q) PROVE call'[r] = call[r]
            BY <3>1, <3>3 DEF WriteCopy, End, GateTypeOK
        <3> QED
            BY <1>11, <3>2, <3>3 DEF OwnWrite
    <2>2. job' = job /\ walk' = walk
        BY <1>11 DEF OwnWrite, trailVars
    <2> QED
        BY <2>1, <2>2 DEF JobInv, Active
<1> QED
    BY <1>2, <1>3, <1>4, <1>5, <1>6, <1>7, <1>8, <1>9, <1>10, <1>11 DEF ConsoleNext

\* Types; and only calls that were let in as an administrator's have work in progress.
THEOREM ConsoleTypeCorrect == ConsoleSpec => []ConsoleTypeOK
<1>1. ConsoleInit => GateTypeOK /\ JobInv
    BY GateInitInv DEF ConsoleInit, GateInv, JobInv
<1>2. GateTypeOK /\ JobInv /\ [ConsoleNext]_consoleVars => (GateTypeOK /\ JobInv)'
    BY JobStep, GateTypeStep, ConsoleStepsAtDoor
<1>3. ConsoleSpec => [](GateTypeOK /\ JobInv)
    BY <1>1, <1>2, PTL DEF ConsoleSpec
<1>4. GateTypeOK /\ ListInv => /\ list.total \in {Unread} \cup 0 .. Cardinality(Users)
                               /\ list.len \in {Unread} \cup 0 .. Cardinality(Users)
    <2> SUFFICES ASSUME ListInv PROVE /\ list.total \in {Unread} \cup 0 .. N
                                      /\ list.len \in {Unread} \cup 0 .. N
        BY DEF N
    <2>1. list \in Lists /\ N \in Nat /\ ListOffset \in Nat
        BY UserCount, ListOffsetTyped DEF ListInv
    <2>2. ASSUME list.len # Unread PROVE list.len \in 0 .. N
        <3>1. PICK c \in 0 .. N : list.len = RowCount(c, ListOffset, list.size)
            BY <2>2 DEF ListInv, PageWas
        <3>2. c \in Nat /\ list.size \in Nat \ {0}
            BY <2>1 DEF Lists
        <3>3. list.len \in Nat /\ list.len <= c
            BY <2>1, <3>1, <3>2, RowsOfAnyPage
        <3>4. c <= N /\ c \in Int
            BY <2>1
        <3> QED
            BY <2>1, <3>3, <3>4
    <2> QED
        BY <2>1, <2>2 DEF Lists
<1>5. TrailInv => TrailTypeOK
    BY DEF TrailInv
<1>6. /\ GateTypeOK /\ JobInv /\ TrailTypeOK
      /\ list.total \in {Unread} \cup 0 .. Cardinality(Users)
      /\ list.len \in {Unread} \cup 0 .. Cardinality(Users)
      => ConsoleTypeOK
    BY DEF ConsoleTypeOK, JobInv
<1> QED
    BY <1>3, <1>4, <1>5, <1>6, ConsoleTrail, ConsoleList, PTL
=============================================================================
