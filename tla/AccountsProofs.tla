--------------------------- MODULE AccountsProofs ---------------------------
(***************************************************************************)
(* What Accounts.tla satisfies for every number of requests, users,        *)
(* passwords and names, and whether or not statements may fail.            *)
(***************************************************************************)
EXTENDS Accounts, TLAPS

-----------------------------------------------------------------------------
(* Rows and SET lists (UserRows.tla).                                       *)

\* Changing one column of a row to a value of that column leaves a row.
LEMMA RowExcept ==
    ASSUME NEW row, IsRow(row), NEW k \in Columns, NEW v \in ColumnValues(k)
    PROVE  IsRow([row EXCEPT ![k] = v])
BY DEF IsRow, IsSetList

\* The non-zero columns of a row are a SET list of columns of that row.
LEMMA NonZeroIsSetList ==
    ASSUME NEW row, IsRow(row)
    PROVE  IsSetList(NonZero(row))
BY DEF IsRow, IsSetList, NonZero

\* A row updated by a SET list is a row.
LEMMA AssignIsRow ==
    ASSUME NEW row, IsRow(row), NEW c, IsSetList(c)
    PROVE  IsRow(Assign(row, c))
BY DEF IsRow, IsSetList, Assign

\* Writing a SET list to a table of rows leaves a table of rows.
LEMMA WriteKeepsRows ==
    ASSUME NEW table, NEW alive, NEW u, NEW c, IsSetList(c),
           DOMAIN table = Users, \A v \in Users : IsRow(table[v])
    PROVE  /\ DOMAIN Write(table, alive, u, c) = Users
           /\ \A v \in Users : IsRow(Write(table, alive, u, c)[v])
BY AssignIsRow DEF Write

\* uint8(v) is a byte.
LEMMA Uint8IsByte == \A v \in Nat : Uint8(v) \in Byte
BY DEF Uint8, Byte

\* The columns of an admin request are a SET list.
LEMMA AdminColumnsIsSetList ==
    ASSUME NEW nickname \in Names \cup {""}, NEW role \in Nat, NEW status \in Nat
    PROVE  IsSetList(AdminColumns(nickname, role, status))
<1> DEFINE c == AdminColumns(nickname, role, status)
<1>1. DOMAIN c \subseteq Columns
  BY DEF AdminColumns
<1>2. ASSUME NEW k \in DOMAIN c
      PROVE  c[k] \in ColumnValues(k)
  <2>1. k \in {"nickname", "role", "status"}
    BY DEF AdminColumns, Columns
  <2>2. CASE k = "nickname"
    BY <2>2, <1>2 DEF AdminColumns, ColumnValues
  <2>3. CASE k = "role"
    BY <2>3, <1>2, Uint8IsByte DEF AdminColumns, ColumnValues
  <2>4. CASE k = "status"
    BY <2>4, <1>2, Uint8IsByte DEF AdminColumns, ColumnValues
  <2> QED
    BY <2>1, <2>2, <2>3, <2>4
<1> QED
  BY <1>1, <1>2 DEF IsSetList

-----------------------------------------------------------------------------
(* Type correctness.                                                        *)

\* What a request's first statement does to the program counters and locals.
LEMMA StartTypes ==
    ASSUME TypeOK, NEW r \in Requests, NEW o \in Ops, NEW u \in Users \cup {NoUser},
           NEW to \in {"new"} \cup Pending \cup Replied, NEW c, IsSetList(c),
           Start(r, o, u, to, c), to = "update" => IsRow(c)
    PROVE  /\ op' \in [Requests -> Ops]
           /\ pc' \in [Requests -> {"new"} \cup Pending \cup Replied]
           /\ target' \in [Requests -> Users \cup {NoUser}]
           /\ DOMAIN cols' = Requests /\ \A q \in Requests : IsSetList(cols'[q])
           /\ \A q \in Requests : pc'[q] = "update" => IsRow(cols'[q])
BY DEF TypeOK, Start, Go

LEMMA NoColumnsIsSetList == IsSetList(NoColumns)
BY DEF IsSetList, NoColumns

LEMMA ConstantsAreBytes == RoleNormal \in Byte /\ RoleAdmin \in Byte /\ StatusNormal \in Byte
BY DEF Byte, RoleNormal, RoleAdmin, StatusNormal

\* Every row the specification starts with is a row.
LEMMA InitialRow ==
    ASSUME NEW row \in [password : Passwords, nickname : {""},
                        role : {RoleNormal, RoleAdmin}, status : {StatusNormal}]
    PROVE  IsRow(row)
<1>1. DOMAIN row = Columns
  BY DEF Columns
<1>2. row["password"] \in Passwords /\ row["nickname"] = ""
  OBVIOUS
<1>3. row["role"] \in {RoleNormal, RoleAdmin} /\ row["status"] = StatusNormal
  OBVIOUS
<1> QED
  BY <1>1, <1>2, <1>3, ConstantsAreBytes DEF IsRow, IsSetList, Columns, ColumnValues

LEMMA TypeInit == Init => TypeOK
<1> SUFFICES ASSUME Init PROVE TypeOK
  OBVIOUS
<1>1. DOMAIN rows = Users /\ \A u \in Users : IsRow(rows[u])
  BY InitialRow DEF Init
<1> QED
  BY <1>1, NoColumnsIsSetList DEF Init, TypeOK, Ops

\* A step of a request that has arrived only moves its program counter.
LEMMA GoTypes ==
    ASSUME TypeOK, NEW r \in Requests, NEW to \in Pending \cup Replied, Go(r, to)
    PROVE  pc' \in [Requests -> {"new"} \cup Pending \cup Replied]
BY DEF TypeOK, Go

\* What a handler may do first: turn the request away or run one statement.
LEMMA ArriveCases ==
    ASSUME NEW r \in Requests, Arrive(r)
    PROVE  \/ \E o \in Ops, u \in Users : Refuse(r, o, u)
           \/ \E u \in Users, pw \in Passwords : Login(r, u, pw)
           \/ \E t \in held : Logout(r, t) \/ ValidateToken(r, t)
           \/ \E u \in Users : GetUser(r, u)
           \/ \E u \in Users, nickname \in Names \cup {""} : UpdateUser(r, u, nickname)
           \/ \E u \in Users, old, new \in Passwords : ChangePassword(r, u, old, new)
           \/ \E u \in Users, nickname \in Names \cup {""}, role \in AdminRoles, status \in AdminStatuses :
                AdminUpdateUser(r, u, nickname, role, status)
           \/ \E o \in {"deleteUser", "adminDeleteUser"}, u \in Users : DeleteUser(r, o, u)
<1> USE DEF Ops
<1>1. CASE LoginRPC(r)
  BY <1>1 DEF LoginRPC, LoginRequest
<1>2. CASE LogoutRPC(r)
  BY <1>2 DEF LogoutRPC, LogoutRequest
<1>3. CASE GetUserRPC(r)
  BY <1>3 DEF GetUserRPC, GetUserRequest
<1>4. CASE UpdateUserRPC(r)
  BY <1>4 DEF UpdateUserRPC, UpdateUserRequest
<1>5. CASE ChangePasswordRPC(r)
  BY <1>5 DEF ChangePasswordRPC, ChangePasswordRequest
<1>6. CASE DeleteUserRPC(r)
  BY <1>6 DEF DeleteUserRPC, DeleteUserRequest
<1>7. CASE AdminUpdateUserRPC(r)
  BY <1>7 DEF AdminUpdateUserRPC, AdminUpdateUserRequest
<1>8. CASE AdminDeleteUserRPC(r)
  BY <1>8 DEF AdminDeleteUserRPC, DeleteUserRequest, AdminDeleteUser
<1>9. CASE ValidateTokenRPC(r)
  BY <1>9 DEF ValidateTokenRPC, ValidateTokenRequest
<1> QED
  BY <1>1, <1>2, <1>3, <1>4, <1>5, <1>6, <1>7, <1>8, <1>9 DEF Arrive

\* What a request may do next.
LEMMA ProceedCases ==
    ASSUME NEW r \in Requests, Proceed(r)
    PROVE  SaveToken(r) \/ Update(r) \/ UpdateFields(r) \/ DeleteRow(r) \/ RecordAudit(r)
BY DEF Proceed, FinishUpdateUser, FinishChangePassword

LEMMA TypeNext == TypeOK /\ [Next]_vars => TypeOK'
<1> SUFFICES ASSUME TypeOK, [Next]_vars PROVE TypeOK'
  OBVIOUS
<1> USE DEF tables, locals, clients, history
<1>1. ASSUME NEW r \in Requests, NEW u \in Users, NEW pw \in Passwords, Login(r, u, pw)
      PROVE  TypeOK'
  <2>1. PICK to \in {"saveToken", "failed"} : Start(r, "login", u, to, NoColumns)
    BY <1>1 DEF Login, Admit
  <2>2. overlooked' \subseteq Requests
    BY <1>1 DEF Login, Admit, TypeOK
  <2> QED
    BY <1>1, <2>1, <2>2, StartTypes, NoColumnsIsSetList DEF Login, TypeOK, Ops, Pending, Replied
<1>2. ASSUME NEW r \in Requests, NEW t \in held, Logout(r, t)
      PROVE  TypeOK'
  <2>1. PICK o \in Outcomes :
          /\ Start(r, "logout", target[t], IF Confirmed(o) THEN "ok" ELSE "failed", NoColumns)
          /\ tokens' = IF Applied(o) THEN tokens \ {t} ELSE tokens
          /\ loggedOut' = IF Confirmed(o) THEN loggedOut \cup {t} ELSE loggedOut
    BY <1>2 DEF Logout, DeleteToken
  <2>2. target[t] \in Users \cup {NoUser}
    BY DEF TypeOK
  <2>3. /\ op' \in [Requests -> Ops]
        /\ pc' \in [Requests -> {"new"} \cup Pending \cup Replied]
        /\ target' \in [Requests -> Users \cup {NoUser}]
        /\ DOMAIN cols' = Requests /\ \A q \in Requests : IsSetList(cols'[q])
        /\ \A q \in Requests : pc'[q] = "update" => IsRow(cols'[q])
    BY <2>1, <2>2, StartTypes, NoColumnsIsSetList DEF Ops, Replied
  <2> QED
    BY <1>2, <2>1, <2>3 DEF Logout, DeleteToken, TypeOK
<1>3. ASSUME NEW r \in Requests, NEW u \in Users, NEW nickname \in Names \cup {""},
             UpdateUser(r, u, nickname)
      PROVE  TypeOK'
  <2> DEFINE copy == IF nickname = "" THEN rows[u] ELSE [rows[u] EXCEPT !["nickname"] = nickname]
  <2>1. IsRow(rows[u])
    BY DEF TypeOK
  <2>2. nickname \in Names \cup {""} /\ "nickname" \in Columns
    BY DEF Columns
  <2>3. nickname \in ColumnValues("nickname")
    BY <2>2 DEF ColumnValues
  <2>4. IsRow(copy)
    BY <2>1, <2>2, <2>3, RowExcept
  <2>5. IsSetList(copy)
    BY <2>4 DEF IsRow
  <2>6. Start(r, "updateUser", u, "update", copy) \/ Start(r, "updateUser", u, "failed", NoColumns)
    BY <1>3 DEF UpdateUser
  <2>7. UNCHANGED <<tables, clients, history>>
    BY <1>3 DEF UpdateUser
  <2> HIDE DEF copy
  <2>8. CASE Start(r, "updateUser", u, "update", copy)
    BY <2>4, <2>5, <2>7, <2>8, StartTypes DEF TypeOK, Ops, Pending
  <2>9. CASE Start(r, "updateUser", u, "failed", NoColumns)
    <3>1. "updateUser" \in Ops /\ "failed" \in Replied /\ "failed" # "update"
      BY DEF Ops, Replied
    <3>2. /\ op' \in [Requests -> Ops]
          /\ pc' \in [Requests -> {"new"} \cup Pending \cup Replied]
          /\ target' \in [Requests -> Users \cup {NoUser}]
          /\ DOMAIN cols' = Requests /\ \A q \in Requests : IsSetList(cols'[q])
          /\ \A q \in Requests : pc'[q] = "update" => IsRow(cols'[q])
      BY <2>9, <3>1, StartTypes, NoColumnsIsSetList
    <3> QED
      BY <2>7, <3>2 DEF TypeOK
  <2> QED
    BY <2>6, <2>8, <2>9
<1>4. ASSUME NEW r \in Requests, NEW u \in Users, NEW old \in Passwords, NEW new \in Passwords,
             ChangePassword(r, u, old, new)
      PROVE  TypeOK'
  <2> DEFINE copy == [rows[u] EXCEPT !["password"] = new]
  <2>1. new \in ColumnValues("password") /\ "password" \in Columns /\ IsRow(rows[u])
    BY DEF ColumnValues, Columns, TypeOK
  <2>2. IsRow(copy)
    BY <2>1, RowExcept
  <2>3. IsSetList(copy)
    BY <2>2 DEF IsRow
  <2>4. \/ Start(r, "changePassword", u, "update", copy)
        \/ Start(r, "changePassword", u, "failed", NoColumns)
    BY <1>4 DEF ChangePassword
  <2> HIDE DEF copy
  <2>5. CASE Start(r, "changePassword", u, "update", copy)
    BY <1>4, <2>2, <2>3, <2>5, StartTypes DEF ChangePassword, TypeOK, Ops, Pending
  <2>6. CASE Start(r, "changePassword", u, "failed", NoColumns)
    BY <1>4, <2>6, StartTypes, NoColumnsIsSetList DEF ChangePassword, TypeOK, Ops, Replied
  <2> QED
    BY <2>4, <2>5, <2>6
<1>5. ASSUME NEW r \in Requests, NEW u \in Users, NEW nickname \in Names \cup {""},
             NEW role \in AdminRoles, NEW status \in AdminStatuses,
             AdminUpdateUser(r, u, nickname, role, status)
      PROVE  TypeOK'
  <2>1. IsSetList(AdminColumns(nickname, role, status))
    BY AdminColumnsIsSetList, AdminInputsAssumption
  <2>2. PICK c : IsSetList(c) /\ \E to \in {"updateFields", "failed"} : Start(r, "adminUpdateUser", u, to, c)
    BY <1>5, <2>1, NoColumnsIsSetList DEF AdminUpdateUser
  <2> QED
    BY <1>5, <2>2, StartTypes DEF AdminUpdateUser, TypeOK, Ops, Pending, Replied
<1>6. ASSUME NEW r \in Requests, NEW o \in {"deleteUser", "adminDeleteUser"}, NEW u \in Users,
             DeleteUser(r, o, u)
      PROVE  TypeOK'
  <2>1. o \in Ops /\ tokens' \subseteq tokens
    BY <1>6 DEF DeleteUser, Ops
  <2>2. overlooked' \subseteq Requests
    BY <1>6 DEF DeleteUser, TypeOK, LoginsInFlight, TokensOf
  <2> QED
    BY <1>6, <2>1, <2>2, StartTypes, NoColumnsIsSetList DEF DeleteUser, TypeOK, Pending
<1>7. ASSUME NEW r \in Requests, SaveToken(r)
      PROVE  TypeOK'
  <2>1. \A q \in Requests : pc'[q] = "update" => IsRow(cols[q])
    BY <1>7 DEF SaveToken, Go, TypeOK
  <2> QED
    BY <1>7, <2>1, GoTypes DEF SaveToken, CreateToken, TypeOK, Replied
<1>8. ASSUME NEW r \in Requests, Update(r) \/ UpdateFields(r)
      PROVE  TypeOK'
  <2>1. PICK o, to, set :
          /\ o \in Outcomes /\ to \in {"audit", "ok", "failed"} /\ IsSetList(set)
          /\ Store(r, set, Applied(o)) /\ Go(r, to)
    <3>1. CASE Update(r)
      <4>1. IsSetList(NonZero(cols[r]))
        BY <3>1, NonZeroIsSetList DEF TypeOK, Update
      <4> QED
        BY <3>1, <4>1 DEF Update, Reply
    <3>2. CASE UpdateFields(r)
      BY <3>2 DEF UpdateFields, TypeOK
    <3> QED
      BY <1>8, <3>1, <3>2
  <2>2. DOMAIN rows' = Users /\ \A v \in Users : IsRow(rows'[v])
    BY <2>1, WriteKeepsRows DEF TypeOK, Store
  <2>3. stale' \subseteq Requests
    BY <2>1 DEF TypeOK, Store
  <2>4. DOMAIN cols' = Requests /\ \A q \in Requests : IsSetList(cols'[q])
    BY <1>8, NoColumnsIsSetList DEF Update, UpdateFields, TypeOK
  <2>5. UNCHANGED <<live, tokens, audit, op, target, held, loggedOut, expired, overlooked>>
    BY <1>8 DEF Update, UpdateFields
  <2>6. pc' \in [Requests -> {"new"} \cup Pending \cup Replied]
    BY <2>1, GoTypes DEF Pending, Replied
  <2>7. \A q \in Requests : pc'[q] = "update" => IsRow(cols'[q])
    BY <1>8, <2>1 DEF Update, UpdateFields, Go, TypeOK
  <2> QED
    BY <2>2, <2>3, <2>4, <2>5, <2>6, <2>7 DEF TypeOK
<1>9. ASSUME NEW r \in Requests, DeleteRow(r)
      PROVE  TypeOK'
  <2>1. PICK to \in Pending \cup Replied : Go(r, to)
    BY <1>9 DEF DeleteRow, Pending, Replied
  <2>2. live' \subseteq live
    BY <1>9 DEF DeleteRow
  <2>3. pc' \in [Requests -> {"new"} \cup Pending \cup Replied]
    BY <2>1, GoTypes
  <2>4. \A q \in Requests : pc'[q] = "update" => IsRow(cols[q])
    BY <1>9 DEF DeleteRow, Go, TypeOK
  <2> QED
    BY <1>9, <2>2, <2>3, <2>4 DEF DeleteRow, TypeOK
<1>10. ASSUME NEW r \in Requests, RecordAudit(r)
       PROVE  TypeOK'
  <2>1. <<op[r], target[r]>> \in Ops \X (Users \cup {NoUser})
    BY DEF TypeOK
  <2>2. audit' \subseteq Ops \X (Users \cup {NoUser})
    BY <1>10, <2>1 DEF RecordAudit, TypeOK
  <2>3. \A q \in Requests : pc'[q] = "update" => IsRow(cols[q])
    BY <1>10 DEF RecordAudit, Go, TypeOK
  <2> QED
    BY <1>10, <2>2, <2>3, GoTypes DEF RecordAudit, TypeOK, Replied
<1>11. ASSUME NEW t \in held, Expire(t)
       PROVE  TypeOK'
  BY <1>11 DEF Expire, TypeOK
<1>12. CASE UNCHANGED vars
  BY <1>12 DEF vars, TypeOK
<1>13. ASSUME NEW r \in Requests, NEW o \in Ops, NEW u \in Users, Refuse(r, o, u)
       PROVE  TypeOK'
  BY <1>13, StartTypes, NoColumnsIsSetList DEF Refuse, TypeOK, Replied
<1>14. ASSUME NEW r \in Requests, NEW u \in Users, GetUser(r, u)
       PROVE  TypeOK'
  <2>1. PICK to \in {"ok", "failed"} : Start(r, "getUser", u, to, NoColumns)
    BY <1>14 DEF GetUser
  <2> QED
    BY <1>14, <2>1, StartTypes, NoColumnsIsSetList DEF GetUser, TypeOK, Ops, Replied
<1>15. ASSUME NEW r \in Requests, NEW t \in held, ValidateToken(r, t)
       PROVE  TypeOK'
  <2>1. PICK u \in Users \cup {NoUser}, to \in {"ok", "failed"} :
             Start(r, "validateToken", u, to, NoColumns)
    <3>1. target[t] \in Users \cup {NoUser}
      BY DEF TypeOK
    <3> QED
      BY <1>15, <3>1 DEF ValidateToken, ValidateTokenResult
  <2> QED
    BY <1>15, <2>1, StartTypes, NoColumnsIsSetList DEF ValidateToken, TypeOK, Ops, Replied
<1> QED
  BY <1>1, <1>2, <1>3, <1>4, <1>5, <1>6, <1>7, <1>8, <1>9, <1>10, <1>11, <1>12, <1>13, <1>14, <1>15,
     ArriveCases, ProceedCases DEF Next

\* Every reachable state is well typed; in particular no admin request, whatever
\* uint32 it carries, puts anything but a byte in role or status.
THEOREM TypeCorrect == Spec => []TypeOK
BY TypeInit, TypeNext, PTL DEF Spec

-----------------------------------------------------------------------------
(* Tokens.                                                                  *)

\* Why a logout is final: a JWT is named by the login that made it, only a
\* login that has finished has given its JWT to a client, and a finished
\* request takes no further step that could insert the row again.
TokenInv ==
    /\ tokens \subseteq held
    /\ loggedOut \cap tokens = {}
    /\ \A t \in held : pc[t] = "ok" /\ target[t] \in Users
    /\ \A r \in Requests : pc[r] = "saveToken" => target[r] \in Users

LEMMA TokenInit == Init => TokenInv
BY DEF Init, TokenInv

\* The first statement of a request moves that request alone.
LEMMA StartMoves ==
    ASSUME TypeOK, NEW r \in Requests, NEW o, NEW u, NEW to, NEW c, Start(r, o, u, to, c)
    PROVE  /\ pc[r] = "new" /\ pc'[r] = to /\ target'[r] = u
           /\ \A q \in Requests \ {r} : pc'[q] = pc[q] /\ target'[q] = target[q]
BY DEF Start, Go, TypeOK

\* A request that starts with anything but a login leaves the invariant alone
\* as long as no token is inserted and only held tokens are logged out.
LEMMA StartKeepsTokenInv ==
    ASSUME TypeOK, TokenInv, NEW r \in Requests, NEW o, NEW u, NEW to, NEW c,
           Start(r, o, u, to, c), to = "saveToken" => u \in Users,
           tokens' \subseteq tokens, held' = held, loggedOut' \cap tokens' = {}
    PROVE  TokenInv'
<1>1. r \notin held
  BY StartMoves DEF TokenInv
<1>2. held \subseteq Requests
  BY DEF TypeOK
<1>3. \A t \in held : pc'[t] = "ok" /\ target'[t] \in Users
  BY <1>1, <1>2, StartMoves DEF TokenInv
<1>4. \A q \in Requests : pc'[q] = "saveToken" => target'[q] \in Users
  BY StartMoves DEF TokenInv
<1> QED
  BY <1>3, <1>4 DEF TokenInv

\* A request that goes on to a step other than SaveToken leaves it alone too.
LEMMA GoKeepsTokenInv ==
    ASSUME TypeOK, TokenInv, NEW r \in Requests, NEW to,
           pc[r] \in Pending, Go(r, to), to # "saveToken",
           UNCHANGED <<tokens, target, held, loggedOut>>
    PROVE  TokenInv'
<1>1. r \notin held
  BY DEF TokenInv, Pending
<1> QED
  BY <1>1 DEF Go, TokenInv, TypeOK

LEMMA TokenNext == TypeOK /\ TokenInv /\ [Next]_vars => TokenInv'
<1> SUFFICES ASSUME TypeOK, TokenInv, [Next]_vars PROVE TokenInv'
  OBVIOUS
<1> USE DEF tables, locals, clients, history
<1>1. ASSUME NEW r \in Requests, NEW u \in Users, NEW pw \in Passwords, Login(r, u, pw)
      PROVE  TokenInv'
  <2>1. PICK to : Start(r, "login", u, to, NoColumns)
    BY <1>1 DEF Login, Admit
  <2> QED
    BY <1>1, <2>1, StartKeepsTokenInv DEF Login, TokenInv
<1>2. ASSUME NEW r \in Requests, NEW t \in held, Logout(r, t)
      PROVE  TokenInv'
  <2>1. PICK to \in {"ok", "failed"} : Start(r, "logout", target[t], to, NoColumns)
    BY <1>2 DEF Logout, DeleteToken
  <2>2. tokens' \subseteq tokens /\ loggedOut' \cap tokens' = {}
    BY <1>2 DEF Logout, DeleteToken, TokenInv, Confirmed, Applied
  <2> QED
    BY <1>2, <2>1, <2>2, StartKeepsTokenInv DEF Logout, DeleteToken
<1>3. ASSUME NEW r \in Requests, NEW u \in Users, NEW nickname, UpdateUser(r, u, nickname)
      PROVE  TokenInv'
  <2>1. PICK c : \E to \in {"update", "failed"} : Start(r, "updateUser", u, to, c)
    BY <1>3 DEF UpdateUser
  <2> QED
    BY <1>3, <2>1, StartKeepsTokenInv DEF UpdateUser, TokenInv
<1>4. ASSUME NEW r \in Requests, NEW u \in Users, NEW old, NEW new, ChangePassword(r, u, old, new)
      PROVE  TokenInv'
  <2>1. PICK c : \E to \in {"update", "failed"} : Start(r, "changePassword", u, to, c)
    BY <1>4 DEF ChangePassword
  <2> QED
    BY <1>4, <2>1, StartKeepsTokenInv DEF ChangePassword, TokenInv
<1>5. ASSUME NEW r \in Requests, NEW u \in Users, NEW nickname, NEW role, NEW status,
             AdminUpdateUser(r, u, nickname, role, status)
      PROVE  TokenInv'
  <2>1. PICK c : \E to \in {"updateFields", "failed"} : Start(r, "adminUpdateUser", u, to, c)
    BY <1>5 DEF AdminUpdateUser
  <2> QED
    BY <1>5, <2>1, StartKeepsTokenInv DEF AdminUpdateUser, TokenInv
<1>6. ASSUME NEW r \in Requests, NEW o, NEW u \in Users, DeleteUser(r, o, u)
      PROVE  TokenInv'
  <2>1. tokens' \subseteq tokens /\ loggedOut' \cap tokens' = {}
    BY <1>6 DEF DeleteUser, TokenInv
  <2> QED
    BY <1>6, <2>1, StartKeepsTokenInv DEF DeleteUser
<1>7. ASSUME NEW r \in Requests, SaveToken(r)
      PROVE  TokenInv'
  <2>1. r \notin held /\ r \notin loggedOut /\ target[r] \in Users
    BY <1>7 DEF SaveToken, CreateToken, TokenInv, TypeOK
  <2>2. tokens' \subseteq held'
    BY <1>7 DEF SaveToken, CreateToken, TokenInv
  <2>3. loggedOut' \cap tokens' = {}
    BY <1>7, <2>1 DEF SaveToken, CreateToken, TokenInv
  <2>4. \A t \in held' : pc'[t] = "ok" /\ target'[t] \in Users
    BY <1>7, <2>1 DEF SaveToken, CreateToken, TokenInv, Go, TypeOK
  <2>5. \A q \in Requests : pc'[q] = "saveToken" => target'[q] \in Users
    BY <1>7 DEF SaveToken, CreateToken, TokenInv, Go, TypeOK
  <2> QED
    BY <2>2, <2>3, <2>4, <2>5 DEF TokenInv
<1>8. ASSUME NEW r \in Requests, Update(r) \/ UpdateFields(r) \/ DeleteRow(r) \/ RecordAudit(r)
      PROVE  TokenInv'
  <2>1. PICK to \in {"ok", "failed", "audit"} : Go(r, to)
    BY <1>8 DEF Update, UpdateFields, DeleteRow, RecordAudit, Reply
  <2>2. pc[r] \in Pending /\ UNCHANGED <<tokens, target, held, loggedOut>>
    BY <1>8 DEF Update, UpdateFields, DeleteRow, RecordAudit, Pending
  <2> QED
    BY <2>1, <2>2, GoKeepsTokenInv
<1>9. ASSUME NEW t \in held, Expire(t)
      PROVE  TokenInv'
  BY <1>9 DEF Expire, TokenInv
<1>10. CASE UNCHANGED vars
  BY <1>10 DEF vars, TokenInv
<1>11. ASSUME NEW r \in Requests, NEW o, NEW u \in Users, Refuse(r, o, u)
       PROVE  TokenInv'
  BY <1>11, StartKeepsTokenInv DEF Refuse, TokenInv
<1>12. ASSUME NEW r \in Requests, NEW u \in Users, GetUser(r, u)
       PROVE  TokenInv'
  BY <1>12, StartKeepsTokenInv DEF GetUser, TokenInv
<1>13. ASSUME NEW r \in Requests, NEW t \in held, ValidateToken(r, t)
       PROVE  TokenInv'
  BY <1>13, StartKeepsTokenInv DEF ValidateToken, TokenInv
<1> QED
  BY <1>1, <1>2, <1>3, <1>4, <1>5, <1>6, <1>7, <1>8, <1>9, <1>10, <1>11, <1>12, <1>13,
     ArriveCases, ProceedCases DEF Next

LEMMA TokensCorrect == Spec => []TokenInv
BY TokenInit, TokenNext, TypeCorrect, PTL DEF Spec

\* A JWT whose logout was answered with success never validates again, however
\* many logins, logouts and deletions run at the same time and fail half-way.
THEOREM LogoutCorrect == Spec => []LogoutIsFinal
<1>1. TokenInv => LogoutIsFinal
  BY DEF TokenInv, LogoutIsFinal, TokenValid, GetToken
<1> QED
  BY <1>1, TokensCorrect, PTL

-----------------------------------------------------------------------------
(* Accounts implements Sessions.                                            *)

LEMMA SessionsInit == Init => S!Init
BY DEF Init, S!Init, TokenPhase, TokenOwner

\* A step that leaves tokens, held and the target of every held JWT alone is a
\* stuttering step of Sessions.
LEMMA SessionsStutter ==
    ASSUME UNCHANGED <<tokens, held>>, \A t \in held : target'[t] = target[t]
    PROVE  UNCHANGED S!vars
<1>1. TokenPhase' = TokenPhase
  BY DEF TokenPhase
<1>2. TokenOwner' = TokenOwner
  BY DEF TokenOwner
<1> QED
  BY <1>1, <1>2 DEF S!vars

\* No step changes the target of a JWT that is held.
LEMMA HeldKeepTarget ==
    ASSUME TypeOK, TokenInv, [Next]_vars
    PROVE  \A t \in held : target'[t] = target[t]
<1> SUFFICES ASSUME NEW t \in held PROVE target'[t] = target[t]
  OBVIOUS
<1> USE DEF tables, locals, clients, history
<1>1. t \in Requests /\ pc[t] = "ok"
  BY DEF TypeOK, TokenInv
<1>2. ASSUME NEW r \in Requests, NEW o, NEW u, NEW to, NEW c, Start(r, o, u, to, c)
      PROVE  target'[t] = target[t]
  BY <1>1, <1>2, StartMoves
<1>3. ASSUME NEW r \in Requests, Arrive(r)
      PROVE  target'[t] = target[t]
  BY <1>2, <1>3, ArriveCases DEF Refuse, Login, Admit, Logout, DeleteToken, ValidateToken, GetUser, UpdateUser,
     ChangePassword, AdminUpdateUser, DeleteUser
<1>4. ASSUME NEW r \in Requests, Proceed(r)
      PROVE  target'[t] = target[t]
  BY <1>4, ProceedCases DEF SaveToken, CreateToken, Update, UpdateFields, DeleteRow, RecordAudit
<1> QED
  BY <1>3, <1>4 DEF Next, Expire, vars

LEMMA SessionsStep == TypeOK /\ TokenInv /\ [Next]_vars => [S!Next]_(S!vars)
<1> SUFFICES ASSUME TypeOK, TokenInv, [Next]_vars PROVE [S!Next]_(S!vars)
  OBVIOUS
<1> USE DEF tables, locals, clients, history
<1>0. \A t \in held : target'[t] = target[t]
  BY HeldKeepTarget
<1>1. ASSUME NEW r \in Requests, SaveToken(r)
      PROVE  S!Issue(r, target[r])
  <2>1. r \notin held /\ r \notin tokens
    BY <1>1 DEF SaveToken, CreateToken, TokenInv
  <2>2. TokenPhase[r] = "fresh"
    BY <2>1 DEF TokenPhase
  <2>3. \E p \in {"active", "ended"} : TokenPhase' = [TokenPhase EXCEPT ![r] = p]
    <3>1. CASE r \in tokens'
      <4>1. tokens' = tokens \cup {r}
        BY <1>1, <2>1, <3>1 DEF SaveToken, CreateToken
      <4>2. TokenPhase' = [TokenPhase EXCEPT ![r] = "active"]
        BY <1>1, <4>1 DEF SaveToken, CreateToken, TokenPhase
      <4> QED
        BY <4>2
    <3>2. CASE r \notin tokens'
      <4>1. tokens' = tokens
        BY <1>1, <3>2 DEF SaveToken, CreateToken
      <4>2. TokenPhase' = [TokenPhase EXCEPT ![r] = "ended"]
        BY <1>1, <2>1, <4>1 DEF SaveToken, CreateToken, TokenPhase
      <4> QED
        BY <4>2
    <3> QED
      BY <3>1, <3>2
  <2>4. TokenOwner' = [TokenOwner EXCEPT ![r] = target[r]]
    BY <1>1 DEF SaveToken, CreateToken, TokenOwner
  <2> QED
    BY <2>2, <2>3, <2>4 DEF S!Issue
<1>2. ASSUME NEW r \in Requests, NEW t \in held, Logout(r, t)
      PROVE  S!Revoke(t) \/ UNCHANGED S!vars
  <2>1. CASE tokens' = tokens
    BY <1>0, <1>2, <2>1, SessionsStutter DEF Logout, DeleteToken
  <2>2. CASE tokens' # tokens
    <3>1. tokens' = tokens \ {t} /\ t \in tokens
      BY <1>2, <2>2 DEF Logout, DeleteToken
    <3>2. TokenPhase[t] = "active" /\ TokenPhase' = [TokenPhase EXCEPT ![t] = "ended"]
      BY <1>2, <3>1 DEF Logout, DeleteToken, TokenPhase, TypeOK
    <3>3. TokenOwner' = TokenOwner
      BY <1>0, <1>2 DEF Logout, DeleteToken, TokenOwner
    <3> QED
      BY <3>2, <3>3 DEF S!Revoke
  <2> QED
    BY <2>1, <2>2
<1>3. ASSUME NEW r \in Requests, NEW o, NEW u \in Users, DeleteUser(r, o, u)
      PROVE  S!RevokeAll(u) \/ UNCHANGED S!vars
  <2>1. CASE tokens' = tokens
    BY <1>0, <1>3, <2>1, SessionsStutter DEF DeleteUser
  <2>2. CASE tokens' # tokens
    <3>1. tokens' = tokens \ TokensOf(u)
      BY <1>3, <2>2 DEF DeleteUser
    <3>2. S!Active(u) = TokensOf(u)
      BY DEF S!Active, TokensOf, TokenPhase, TokenOwner, TokenInv, TypeOK
    <3>3. TokenPhase' = [t \in Requests |-> IF t \in S!Active(u) THEN "ended" ELSE TokenPhase[t]]
      BY <1>3, <3>1, <3>2 DEF DeleteUser, TokenPhase, TokensOf, TokenInv
    <3>4. TokenOwner' = TokenOwner
      BY <1>0, <1>3 DEF DeleteUser, TokenOwner
    <3> QED
      BY <3>3, <3>4 DEF S!RevokeAll
  <2> QED
    BY <2>1, <2>2
<1>4. ASSUME NEW r \in Requests,
             \/ \E o \in Ops, u \in Users : Refuse(r, o, u)
             \/ \E u \in Users, pw \in Passwords : Login(r, u, pw)
             \/ \E t \in held : ValidateToken(r, t)
             \/ \E u \in Users : GetUser(r, u)
             \/ \E u \in Users, nickname \in Names \cup {""} : UpdateUser(r, u, nickname)
             \/ \E u \in Users, old, new \in Passwords : ChangePassword(r, u, old, new)
             \/ \E u \in Users, nickname \in Names \cup {""}, role \in AdminRoles,
                   status \in AdminStatuses : AdminUpdateUser(r, u, nickname, role, status)
      PROVE  UNCHANGED S!vars
  <2>1. UNCHANGED <<tokens, held>>
    BY <1>4 DEF Refuse, Login, ValidateToken, GetUser, UpdateUser, ChangePassword, AdminUpdateUser
  <2> QED
    BY <1>0, <2>1, SessionsStutter
<1>5. ASSUME NEW r \in Requests, Update(r) \/ UpdateFields(r) \/ DeleteRow(r) \/ RecordAudit(r)
      PROVE  UNCHANGED S!vars
  <2>1. UNCHANGED <<tokens, held>>
    BY <1>5 DEF Update, UpdateFields, DeleteRow, RecordAudit
  <2> QED
    BY <1>0, <2>1, SessionsStutter
<1>6. ASSUME NEW t \in held, Expire(t)
      PROVE  UNCHANGED S!vars
  BY <1>0, <1>6, SessionsStutter DEF Expire
<1>7. CASE UNCHANGED vars
  BY <1>0, <1>7, SessionsStutter DEF vars
<1>8. ASSUME NEW r \in Requests, SaveToken(r)
      PROVE  S!Next
  BY <1>1, <1>8 DEF S!Next, SaveToken, CreateToken, TokenInv
<1>9. ASSUME NEW t \in held, S!Revoke(t)
      PROVE  S!Next
  BY <1>9 DEF S!Next, TypeOK
<1>10. ASSUME NEW u \in Users, S!RevokeAll(u)
       PROVE  S!Next
  BY <1>10 DEF S!Next
<1> QED
  BY <1>2, <1>3, <1>4, <1>5, <1>6, <1>7, <1>8, <1>9, <1>10, ArriveCases, ProceedCases DEF Next

\* Accounts implements Sessions: whatever interleaving and whatever failures,
\* each JWT is given out once, to one user, and once ended stays ended.
THEOREM AccountsImplementSessions == Spec => SessionsSpec
BY SessionsInit, SessionsStep, TypeCorrect, TokensCorrect, PTL DEF Spec, SessionsSpec, S!Spec

=============================================================================
