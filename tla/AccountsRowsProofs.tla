------------------------- MODULE AccountsRowsProofs -------------------------
(***************************************************************************)
(* What the requests of Accounts.tla do to the users table, for every      *)
(* value of the constants: deletion is final and leaves only the tokens it *)
(* overlooked, an update that writes a whole row back changes one column   *)
(* when its copy is fresh, an administrator's update leaves the password   *)
(* alone, and the row decides which sessions may start.                    *)
(***************************************************************************)
EXTENDS AccountsProofs

-----------------------------------------------------------------------------
(* What a step of a request leaves alone.                                   *)

\* The first statement of a request writes no row, inserts no token and moves that
\* request alone.
LEMMA ArriveMoves ==
    ASSUME TypeOK, NEW r \in Requests, Arrive(r)
    PROVE  /\ pc[r] = "new"
           /\ \A q \in Requests \ {r} : /\ pc'[q] = pc[q] /\ op'[q] = op[q]
                                        /\ target'[q] = target[q] /\ cols'[q] = cols[q]
           /\ UNCHANGED <<rows, live, audit, held, stale>>
           /\ tokens' \subseteq tokens
<1> USE DEF tables, locals, clients, history
<1>1. UNCHANGED <<rows, live, audit, held, stale>> /\ tokens' \subseteq tokens
  BY ArriveCases DEF Refuse, Login, Logout, DeleteToken, ValidateToken, GetUser, UpdateUser, ChangePassword,
     AdminUpdateUser, DeleteUser
<1>2. ASSUME NEW o, NEW u, NEW to, NEW c, Start(r, o, u, to, c)
      PROVE  /\ pc[r] = "new"
             /\ \A q \in Requests \ {r} : /\ pc'[q] = pc[q] /\ op'[q] = op[q]
                                          /\ target'[q] = target[q] /\ cols'[q] = cols[q]
  BY <1>2 DEF Start, Go, TypeOK
<1> QED
  BY <1>1, <1>2, ArriveCases DEF Refuse, Login, Admit, Logout, ValidateToken, GetUser, UpdateUser, ChangePassword,
     AdminUpdateUser, DeleteUser

\* What an administrator's update may be about to write.
IsAdminSet(set) ==
    \E nickname \in Names \cup {""}, role \in AdminRoles, status \in AdminStatuses :
        set = AdminColumns(nickname, role, status)

\* A copy differs from the row it was made from in the requested column only, and
\* there it holds a value that an UPDATE from a struct writes.
CopyOf(copy, row, requested) ==
    \A k \in Columns : copy[k] = row[k] \/ (k = requested /\ copy[k] # Zero[k])

\* What is waiting to be done after the first statement, and why it may be.
LEMMA ArriveStarts ==
    ASSUME TypeOK, NEW r \in Requests, Arrive(r)
    PROVE  /\ Deletes(r)' => pc'[r] \in {"deleteRow", "failed"}
           /\ pc'[r] = "saveToken" => target'[r] \in Users /\ Admitted(target'[r])
           /\ pc'[r] = "update" => /\ target'[r] \in Users
                                   /\ CopyOf(cols'[r], rows[target'[r]], Requested(r)')
           /\ pc'[r] = "updateFields" => target'[r] \in Users /\ IsAdminSet(cols'[r])
<1> DEFINE Goal ==
      /\ Deletes(r)' => pc'[r] \in {"deleteRow", "failed"}
      /\ pc'[r] = "saveToken" => target'[r] \in Users /\ Admitted(target'[r])
      /\ pc'[r] = "update" => /\ target'[r] \in Users
                              /\ CopyOf(cols'[r], rows[target'[r]], Requested(r)')
      /\ pc'[r] = "updateFields" => target'[r] \in Users /\ IsAdminSet(cols'[r])
<1>1. ASSUME NEW o, NEW u, NEW to, NEW c, Start(r, o, u, to, c)
      PROVE  op'[r] = o /\ target'[r] = u /\ pc'[r] = to /\ cols'[r] = c
  BY <1>1 DEF Start, Go, TypeOK
<1>2. ASSUME NEW o, NEW u, NEW to \in Replied, NEW c, Start(r, o, u, to, c),
             o \in {"deleteUser", "adminDeleteUser"} => to = "failed"
      PROVE  Goal
  BY <1>1, <1>2 DEF Deletes, Replied
<1>12. ASSUME NEW o \in {"updateUser", "changePassword"}, NEW u \in Users, NEW c,
             Start(r, o, u, "update", c),
             CopyOf(c, rows[u], IF o = "updateUser" THEN "nickname" ELSE "password")
      PROVE  Goal
  <2>1. op'[r] = o /\ target'[r] = u /\ pc'[r] = "update" /\ cols'[r] = c
    BY <1>1, <1>12
  <2>2. ~Deletes(r)'
    BY <2>1 DEF Deletes
  <2>3. Requested(r)' = IF o = "updateUser" THEN "nickname" ELSE "password"
    BY <2>1 DEF Requested
  <2> QED
    BY <1>12, <2>1, <2>2, <2>3
<1>13. ASSUME NEW u \in Users, NEW c, IsAdminSet(c), Start(r, "adminUpdateUser", u, "updateFields", c)
      PROVE  Goal
  <2>1. op'[r] = "adminUpdateUser" /\ target'[r] = u /\ pc'[r] = "updateFields" /\ cols'[r] = c
    BY <1>1, <1>13
  <2>2. ~Deletes(r)'
    BY <2>1 DEF Deletes
  <2> QED
    BY <1>13, <2>1, <2>2
<1>3. ASSUME NEW o, NEW u, Refuse(r, o, u)
      PROVE  Goal
  BY <1>2, <1>3 DEF Refuse, Replied
<1>4. ASSUME NEW u \in Users, NEW pw, Login(r, u, pw)
      PROVE  Goal
  <2>1. PICK found \in Readable(u) :
          Admit(r, u, found /\ rows[u]["password"] = pw /\ rows[u]["status"] = StatusNormal)
    BY <1>4 DEF Login
  <2>2. CASE found /\ rows[u]["password"] = pw /\ rows[u]["status"] = StatusNormal
    <3>1. Start(r, "login", u, "saveToken", NoColumns) /\ Admitted(u)
      BY <2>1, <2>2 DEF Admit, Admitted, Readable
    <3> QED
      BY <1>1, <3>1 DEF Deletes
  <2>3. CASE ~(found /\ rows[u]["password"] = pw /\ rows[u]["status"] = StatusNormal)
    BY <1>2, <2>1, <2>3 DEF Admit, Replied
  <2> QED
    BY <2>2, <2>3
<1>5. ASSUME NEW t \in held, Logout(r, t)
      PROVE  Goal
  BY <1>2, <1>5 DEF Logout, Replied
<1>14. ASSUME NEW t \in held, ValidateToken(r, t)
       PROVE  Goal
  BY <1>2, <1>14 DEF ValidateToken, Replied
<1>6. ASSUME NEW u \in Users, GetUser(r, u)
      PROVE  Goal
  BY <1>2, <1>6 DEF GetUser, Replied
<1>7. ASSUME NEW u \in Users, NEW nickname \in Names \cup {""}, UpdateUser(r, u, nickname)
      PROVE  Goal
  <2> DEFINE copy == IF nickname = "" THEN rows[u] ELSE [rows[u] EXCEPT !["nickname"] = nickname]
  <2>1. DOMAIN rows[u] = Columns
    BY DEF TypeOK, IsRow
  <2>2. CopyOf(copy, rows[u], "nickname")
    <3>1. \A k \in Columns \ {"nickname"} : copy[k] = rows[u][k]
      BY <2>1
    <3>2. copy["nickname"] = rows[u]["nickname"] \/ (copy["nickname"] = nickname /\ nickname # "")
      BY <2>1 DEF Columns
    <3>3. Zero["nickname"] = ""
      BY DEF Zero
    <3> HIDE DEF copy
    <3> QED
      BY <3>1, <3>2, <3>3 DEF CopyOf
  <2>3. CASE Start(r, "updateUser", u, "update", copy)
    <3> HIDE DEF copy
    <3> QED
      BY <1>12, <2>2, <2>3
  <2>4. CASE Start(r, "updateUser", u, "failed", NoColumns)
    <3> HIDE DEF copy
    <3> QED
      BY <1>2, <2>4 DEF Replied
  <2> QED
    BY <1>7, <2>3, <2>4 DEF UpdateUser
<1>8. ASSUME NEW u \in Users, NEW old, NEW new \in Passwords, ChangePassword(r, u, old, new)
      PROVE  Goal
  <2> DEFINE copy == [rows[u] EXCEPT !["password"] = new]
  <2>1. DOMAIN rows[u] = Columns
    BY DEF TypeOK, IsRow
  <2>2. CopyOf(copy, rows[u], "password")
    <3>1. \A k \in Columns \ {"password"} : copy[k] = rows[u][k]
      BY <2>1
    <3>2. copy["password"] = new /\ new # ""
      BY <2>1, PasswordsAssumption DEF Columns
    <3>3. Zero["password"] = ""
      BY DEF Zero
    <3> HIDE DEF copy
    <3> QED
      BY <3>1, <3>2, <3>3 DEF CopyOf
  <2>3. CASE Start(r, "changePassword", u, "update", copy)
    <3> HIDE DEF copy
    <3> QED
      BY <1>12, <2>2, <2>3
  <2>4. CASE Start(r, "changePassword", u, "failed", NoColumns)
    <3> HIDE DEF copy
    <3> QED
      BY <1>2, <2>4 DEF Replied
  <2> QED
    BY <1>8, <2>3, <2>4 DEF ChangePassword
<1>9. ASSUME NEW u \in Users, NEW nickname \in Names \cup {""},
             NEW role \in AdminRoles, NEW status \in AdminStatuses,
             AdminUpdateUser(r, u, nickname, role, status)
      PROVE  Goal
  <2>1. CASE Start(r, "adminUpdateUser", u, "updateFields", AdminColumns(nickname, role, status))
    <3>1. IsAdminSet(AdminColumns(nickname, role, status))
      BY DEF IsAdminSet
    <3> QED
      BY <1>13, <2>1, <3>1
  <2>2. CASE Start(r, "adminUpdateUser", u, "failed", NoColumns)
    BY <1>2, <2>2 DEF Replied
  <2> QED
    BY <1>9, <2>1, <2>2 DEF AdminUpdateUser
<1>10. ASSUME NEW o, NEW u \in Users, DeleteUser(r, o, u)
       PROVE  Goal
  BY <1>1, <1>10 DEF DeleteUser
<1> HIDE DEF Goal
<1>11. Goal
  BY <1>3, <1>4, <1>5, <1>6, <1>7, <1>8, <1>9, <1>10, <1>14, ArriveCases
<1> QED
  BY <1>11 DEF Goal

\* The later steps of a request move it on to the audit or to its reply.
LEMMA ProceedMoves ==
    ASSUME TypeOK, NEW r \in Requests, Proceed(r)
    PROVE  /\ pc[r] \in Pending /\ pc'[r] \in {"audit"} \cup Replied /\ pc'[r] # pc[r]
           /\ \A q \in Requests \ {r} : pc'[q] = pc[q] /\ cols'[q] = cols[q]
           /\ UNCHANGED <<op, target>>
<1> USE DEF locals
<1> QED
  BY ProceedCases DEF SaveToken, Update, UpdateFields, DeleteRow, RecordAudit, Reply, Go, Pending, Replied,
     TypeOK

\* The SET list of the UPDATE statement a request is about to run.
SetList(r) == IF pc[r] = "update" THEN NonZero(cols[r]) ELSE cols[r]

\* The two UPDATE statements.
LEMMA StoreSteps ==
    ASSUME TypeOK, NEW r \in Requests, Update(r) \/ UpdateFields(r)
    PROVE  /\ pc[r] \in {"update", "updateFields"}
           /\ \E o \in Outcomes : /\ Store(r, SetList(r), Applied(o))
                                  /\ pc'[r] = "ok" => Applied(o)
<1>1. CASE Update(r)
  BY <1>1 DEF Update, SetList, Reply, Go, TypeOK, Applied, Confirmed
<1>2. CASE UpdateFields(r)
  BY <1>2 DEF UpdateFields, SetList, Go, TypeOK, Applied, Confirmed
<1> QED
  BY <1>1, <1>2

\* A request that leaves "update" or "updateFields" has run its UPDATE statement.
LEMMA TakesStore ==
    ASSUME TypeOK, [Next]_vars, NEW r \in Requests, Takes(r, "update") \/ Takes(r, "updateFields")
    PROVE  Update(r) \/ UpdateFields(r)
<1>1. ASSUME NEW q \in Requests
      PROVE  ~Arrive(q)
  BY <1>1, ArriveMoves DEF Takes
<1>2. ASSUME NEW q \in Requests, Proceed(q)
      PROVE  q = r
  BY <1>2, ProceedMoves DEF Takes
<1>3. Proceed(r)
  BY <1>1, <1>2 DEF Next, Expire, vars, Takes
<1> QED
  BY <1>3, ProceedCases DEF Takes, SaveToken, DeleteRow, RecordAudit

\* The rows change only by the UPDATE of one request, in the row it is about.
LEMMA RowsChangeByStore ==
    ASSUME TypeOK, [Next]_vars, rows' # rows
    PROVE  \E r \in Requests :
             /\ Takes(r, "update") \/ Takes(r, "updateFields")
             /\ rows' = Write(rows, live, target[r], SetList(r))
<1> USE DEF tables, locals, clients, history
<1>1. PICK r \in Requests : Proceed(r) /\ (Update(r) \/ UpdateFields(r))
  BY ArriveMoves, ProceedCases DEF Next, SaveToken, DeleteRow, RecordAudit, Expire, vars
<1>2. rows' = Write(rows, live, target[r], SetList(r))
  BY <1>1, StoreSteps DEF Store
<1>3. Takes(r, "update") \/ Takes(r, "updateFields")
  BY <1>1, StoreSteps, ProceedMoves DEF Takes
<1> QED
  BY <1>2, <1>3

-----------------------------------------------------------------------------
(* Deletion.                                                                *)

\* Rows only leave the table, and only rows that are in it are written.
LEMMA GoneStep == TypeOK /\ [Next]_vars
                    => \A u \in Users \ live : u \notin live' /\ rows'[u] = rows[u]
<1> SUFFICES ASSUME TypeOK, [Next]_vars, NEW u \in Users \ live
             PROVE  u \notin live' /\ rows'[u] = rows[u]
  OBVIOUS
<1> USE DEF tables, locals, clients, history
<1>1. live' \subseteq live
  BY ArriveMoves, ProceedCases DEF Next, SaveToken, Update, UpdateFields, DeleteRow, RecordAudit, Expire,
     vars
<1>2. rows'[u] = rows[u]
  BY RowsChangeByStore DEF Write, TypeOK
<1> QED
  BY <1>1, <1>2

\* No update that read a row before it was deleted changes it afterwards, and
\* nothing brings a deleted row back.
THEOREM GoneRowsCorrect == Spec => GoneRowsAreFrozen
<1>1. TypeOK /\ [Next]_vars
        => [\A u \in Users \ live : u \notin live' /\ rows'[u] = rows[u]]_vars
  BY GoneStep
<1> QED
  BY <1>1, TypeCorrect, PTL DEF Spec, GoneRowsAreFrozen

\* DeleteIsFinal with the steps a deletion can be at.
DeleteInv ==
    /\ DeleteIsFinal
    /\ \A r \in Requests : Deletes(r) => pc[r] \in {"deleteRow", "audit"} \cup Replied

LEMMA DeleteInit == Init => DeleteInv
BY DEF Init, DeleteInv, DeleteIsFinal, Deletes

LEMMA DeleteNext == TypeOK /\ DeleteInv /\ [Next]_vars => DeleteInv'
<1> SUFFICES ASSUME TypeOK, DeleteInv, [Next]_vars PROVE DeleteInv'
  OBVIOUS
<1> USE DEF tables, locals, clients, history
<1>1. live' \subseteq live
  BY ArriveMoves, ProceedCases DEF Next, SaveToken, Update, UpdateFields, DeleteRow, RecordAudit, Expire,
     vars
<1>2. ASSUME NEW r \in Requests, Arrive(r)
      PROVE  DeleteInv'
  BY <1>1, <1>2, ArriveMoves, ArriveStarts DEF DeleteInv, DeleteIsFinal, Deletes, Replied
<1>3. ASSUME NEW r \in Requests, Proceed(r), ~DeleteRow(r), ~RecordAudit(r)
      PROVE  DeleteInv'
  <2>1. ~Deletes(r) /\ audit' = audit
    BY <1>3, ProceedCases DEF SaveToken, Update, UpdateFields, DeleteInv, Replied
  <2> QED
    BY <1>1, <1>3, <2>1, ProceedMoves DEF DeleteInv, DeleteIsFinal, Deletes
<1>4. ASSUME NEW r \in Requests, DeleteRow(r)
      PROVE  DeleteInv'
  <2>1. pc'[r] = "failed" \/ (pc'[r] \in {"audit", "ok"} /\ target[r] \notin live')
    BY <1>4 DEF DeleteRow, Go, TypeOK, Confirmed, Applied
  <2>2. \A q \in Requests \ {r} : pc'[q] = pc[q]
    BY <1>4 DEF DeleteRow, Go, TypeOK
  <2> QED
    BY <1>1, <1>4, <2>1, <2>2 DEF DeleteRow, DeleteInv, DeleteIsFinal, Deletes, Replied
<1>5. ASSUME NEW r \in Requests, RecordAudit(r)
      PROVE  DeleteInv'
  <2>1. pc'[r] = "ok" /\ \A q \in Requests \ {r} : pc'[q] = pc[q]
    BY <1>5 DEF RecordAudit, Go, TypeOK
  <2>2. Deletes(r) => target[r] \notin live
    BY <1>5 DEF RecordAudit, DeleteInv, DeleteIsFinal
  <2>3. \A u \in Users : <<"adminDeleteUser", u>> \in audit' => u \notin live
    BY <1>5, <2>2 DEF RecordAudit, DeleteInv, DeleteIsFinal, Deletes
  <2> QED
    BY <1>1, <1>5, <2>1, <2>2, <2>3 DEF RecordAudit, DeleteInv, DeleteIsFinal, Deletes, Replied
<1>6. ASSUME NEW t \in held, Expire(t)
      PROVE  DeleteInv'
  BY <1>6 DEF Expire, DeleteInv, DeleteIsFinal, Deletes
<1>7. CASE UNCHANGED vars
  BY <1>7 DEF vars, DeleteInv, DeleteIsFinal, Deletes
<1> QED
  BY <1>2, <1>3, <1>4, <1>5, <1>6, <1>7 DEF Next

\* A deletion that was answered with success, or that the audit log records, has
\* removed the row for good.
THEOREM DeleteCorrect == Spec => []DeleteIsFinal
<1>1. DeleteInv => DeleteIsFinal
  BY DEF DeleteInv
<1> QED
  BY <1>1, DeleteInit, DeleteNext, TypeCorrect, PTL DEF Spec

-----------------------------------------------------------------------------
(* What a deletion leaves behind.                                           *)

\* A session of a user is a stored token or a login on its way to one.
IsSession(t, u) == target[t] = u /\ (t \in tokens \/ pc[t] = "saveToken")

\* From a deletion's first statement on, every session of the user is one that was
\* left out: that is so while the row waits to be deleted and after it is gone.
OverlookedInv ==
    \A t \in Requests, u \in Users :
        IsSession(t, u) /\ (u \notin live \/ BeingDeleted(u)) => t \in overlooked

LEMMA OverlookedInit == Init => OverlookedInv
BY DEF Init, OverlookedInv, IsSession

LEMMA OverlookedNext == TypeOK /\ TokenInv /\ OverlookedInv /\ [Next]_vars => OverlookedInv'
<1> SUFFICES ASSUME TypeOK, TokenInv, OverlookedInv, [Next]_vars PROVE OverlookedInv'
  OBVIOUS
<1> USE DEF tables, locals, clients, history
\* No session appears and no deletion begins: the sessions and the rows shrink.
<1>1. ASSUME overlooked' = overlooked,
             \A t \in Requests, u \in Users : IsSession(t, u)' => IsSession(t, u),
             \A u \in Users : u \notin live' \/ BeingDeleted(u)' => u \notin live \/ BeingDeleted(u)
      PROVE  OverlookedInv'
  BY <1>1 DEF OverlookedInv
<1>2. ASSUME NEW r \in Requests, Arrive(r), pc'[r] \notin {"saveToken", "deleteRow"}
      PROVE  OverlookedInv'
  <2>1. overlooked' = overlooked
    <3>1. ASSUME NEW u, NEW pw, Login(r, u, pw)
          PROVE  overlooked' = overlooked
      <4>1. PICK admitted : Admit(r, u, admitted)
        BY <3>1 DEF Login
      <4>2. ~admitted
        BY <1>2, <4>1, StartMoves DEF Admit
      <4> QED
        BY <4>1, <4>2 DEF Admit
    <3>2. ASSUME NEW o, NEW u, DeleteUser(r, o, u)
          PROVE  FALSE
      BY <1>2, <3>2, StartMoves DEF DeleteUser
    <3> QED
      BY <1>2, <3>1, <3>2, ArriveCases DEF Refuse, Logout, ValidateToken, GetUser, UpdateUser, ChangePassword,
         AdminUpdateUser
  <2>2. r \notin tokens'
    BY <1>2, ArriveMoves DEF TokenInv
  <2>3. \A t \in Requests, u \in Users : IsSession(t, u)' => IsSession(t, u)
    BY <1>2, <2>2, ArriveMoves DEF IsSession
  <2>4. \A u \in Users : BeingDeleted(u)' => BeingDeleted(u)
    BY <1>2, ArriveMoves DEF BeingDeleted
  <2> QED
    BY <1>1, <1>2, <2>1, <2>3, <2>4, ArriveMoves
<1>3. ASSUME NEW r \in Requests, NEW v \in Users, NEW pw, Login(r, v, pw)
      PROVE  OverlookedInv'
  <2>1. PICK admitted \in BOOLEAN : Admit(r, v, admitted) /\ (admitted => v \in live)
    <3>1. PICK found \in Readable(v) :
            Admit(r, v, found /\ rows[v]["password"] = pw /\ rows[v]["status"] = StatusNormal)
      BY <1>3 DEF Login
    <3> DEFINE a == found /\ rows[v]["password"] = pw /\ rows[v]["status"] = StatusNormal
    <3>2. a \in BOOLEAN /\ (a => v \in live)
      BY DEF Readable
    <3> QED
      BY <3>1, <3>2
  <2>2. Start(r, "login", v, IF admitted THEN "saveToken" ELSE "failed", NoColumns)
    BY <2>1 DEF Admit
  <2>3. /\ pc[r] = "new" /\ target'[r] = v /\ (pc'[r] = "saveToken" => admitted) /\ pc'[r] # "deleteRow"
        /\ \A q \in Requests \ {r} : pc'[q] = pc[q] /\ target'[q] = target[q]
    BY <2>2, StartMoves
  <2>4. \A u \in Users : BeingDeleted(u)' => BeingDeleted(u)
    BY <2>3 DEF BeingDeleted
  <2>5. UNCHANGED <<live, tokens>> /\ r \notin tokens /\ overlooked \subseteq overlooked'
    BY <1>3, <2>1, <2>3 DEF Login, Admit, TokenInv
  <2>6. admitted /\ BeingDeleted(v) => r \in overlooked'
    BY <2>1 DEF Admit
  <2> SUFFICES ASSUME NEW t \in Requests, NEW u \in Users, IsSession(t, u)',
                      u \notin live' \/ BeingDeleted(u)'
               PROVE  t \in overlooked'
    BY DEF OverlookedInv
  <2>7. CASE t = r
    BY <2>1, <2>3, <2>4, <2>5, <2>6, <2>7 DEF IsSession
  <2>8. CASE t # r
    <3>1. IsSession(t, u)
      BY <2>3, <2>5, <2>8 DEF IsSession
    <3> QED
      BY <2>4, <2>5, <3>1 DEF OverlookedInv
  <2> QED
    BY <2>7, <2>8
<1>4. ASSUME NEW r \in Requests, NEW o, NEW v \in Users, DeleteUser(r, o, v)
      PROVE  OverlookedInv'
  <2>1. /\ pc[r] = "new" /\ target'[r] = v /\ pc'[r] = "deleteRow"
        /\ \A q \in Requests \ {r} : pc'[q] = pc[q] /\ target'[q] = target[q]
    BY <1>4, StartMoves DEF DeleteUser
  <2>2. /\ live' = live /\ tokens' \subseteq tokens /\ overlooked \subseteq overlooked'
        /\ \A t \in Requests : IsSession(t, v) /\ (t \in tokens' \/ pc[t] = "saveToken")
                                 => t \in overlooked'
    BY <1>4 DEF DeleteUser, IsSession, TokensOf, LoginsInFlight
  <2>3. r \notin tokens
    BY <2>1 DEF TokenInv
  <2> SUFFICES ASSUME NEW t \in Requests, NEW u \in Users, IsSession(t, u)',
                      u \notin live' \/ BeingDeleted(u)'
               PROVE  t \in overlooked'
    BY DEF OverlookedInv
  <2>4. t # r /\ IsSession(t, u) /\ (t \in tokens' \/ pc[t] = "saveToken")
    BY <2>1, <2>2, <2>3 DEF IsSession
  <2>5. CASE u = v
    BY <2>2, <2>4, <2>5
  <2>6. CASE u # v
    <3>1. BeingDeleted(u)' => BeingDeleted(u)
      BY <2>1, <2>6 DEF BeingDeleted
    <3> QED
      BY <2>2, <2>4, <3>1 DEF OverlookedInv
  <2> QED
    BY <2>5, <2>6
<1>5. ASSUME NEW r \in Requests, Proceed(r)
      PROVE  OverlookedInv'
  <2>1. overlooked' = overlooked
    BY <1>5, ProceedCases DEF SaveToken, Update, UpdateFields, DeleteRow, RecordAudit
  <2>2. \A t \in Requests, u \in Users : IsSession(t, u)' => IsSession(t, u)
    <3>1. tokens' \subseteq tokens \cup {q \in Requests : pc[q] = "saveToken"}
      BY <1>5, ProceedCases DEF SaveToken, CreateToken, Update, UpdateFields, DeleteRow, RecordAudit
    <3>2. \A t \in Requests : pc'[t] = "saveToken" => pc[t] = "saveToken"
      BY <1>5, ProceedMoves DEF Replied
    <3> QED
      BY <1>5, <3>1, <3>2, ProceedMoves DEF IsSession
  <2>3. \A u \in Users : u \notin live' \/ BeingDeleted(u)' => u \notin live \/ BeingDeleted(u)
    <3>1. \A u \in Users : BeingDeleted(u)' => BeingDeleted(u)
      BY <1>5, ProceedMoves DEF BeingDeleted, Replied
    <3>2. \A u \in Users : u \notin live' => u \notin live \/ BeingDeleted(u)
      BY <1>5, ProceedCases DEF SaveToken, Update, UpdateFields, DeleteRow, RecordAudit, BeingDeleted
    <3> QED
      BY <3>1, <3>2
  <2> QED
    BY <1>1, <2>1, <2>2, <2>3
<1>6. CASE UNCHANGED <<pc, target, tokens, live, overlooked>>
  BY <1>6 DEF OverlookedInv, IsSession, BeingDeleted
<1>7. ASSUME NEW r \in Requests, Arrive(r)
      PROVE  OverlookedInv'
  <2>1. CASE pc'[r] = "saveToken"
    <3>0. ~\E t \in held : ValidateToken(r, t)
      BY <1>7, <2>1 DEF ValidateToken, Start, Go, TypeOK
    <3>1. \E u \in Users, pw \in Passwords : Login(r, u, pw)
      BY <1>7, <2>1, <3>0, ArriveCases DEF Refuse, Logout, GetUser, UpdateUser, ChangePassword,
         AdminUpdateUser, DeleteUser, Start, Go, TypeOK
    <3> QED
      BY <1>3, <3>1
  <2>2. CASE pc'[r] = "deleteRow"
    <3>0. ~\E t \in held : ValidateToken(r, t)
      BY <1>7, <2>2 DEF ValidateToken, Start, Go, TypeOK
    <3>1. \E o \in {"deleteUser", "adminDeleteUser"}, u \in Users : DeleteUser(r, o, u)
      BY <1>7, <2>2, <3>0, ArriveCases DEF Refuse, Login, Admit, Logout, GetUser, UpdateUser, ChangePassword,
         AdminUpdateUser, Start, Go, TypeOK
    <3> QED
      BY <1>4, <3>1
  <2> QED
    BY <1>2, <1>7, <2>1, <2>2
<1> QED
  BY <1>5, <1>6, <1>7 DEF Next, Expire, vars

\* A token row of a deleted user is one whose login was still in progress when a
\* deletion of that user ran, or one that the failed DELETE on tokens left: a
\* deletion that finds neither leaves none, whatever overlaps with it.
\* (internal/service/user_service.go:349-386, 492-508)
THEOREM LeftTokensCorrect == Spec => []LeftTokensWereOverlooked
<1>1. TypeOK /\ TokenInv /\ OverlookedInv => LeftTokensWereOverlooked
  BY DEF TypeOK, TokenInv, OverlookedInv, IsSession, LeftTokensWereOverlooked
<1> QED
  BY <1>1, OverlookedInit, OverlookedNext, TypeCorrect, TokensCorrect, PTL DEF Spec

-----------------------------------------------------------------------------
(* Whole-row updates.                                                       *)

\* A pending update whose row nobody wrote since it was read carries, but for the
\* requested column, what the row holds.
CopyInv ==
    \A r \in Requests : pc[r] = "update" =>
        /\ target[r] \in Users
        /\ r \notin stale => CopyOf(cols[r], rows[target[r]], Requested(r))

LEMMA CopyInit == Init => CopyInv
BY DEF Init, CopyInv

LEMMA CopyNext == TypeOK /\ CopyInv /\ [Next]_vars => CopyInv'
<1> SUFFICES ASSUME TypeOK, CopyInv, [Next]_vars, NEW q \in Requests, pc'[q] = "update"
             PROVE  /\ target'[q] \in Users
                    /\ q \notin stale' => CopyOf(cols'[q], rows'[target'[q]], Requested(q)')
  BY DEF CopyInv
<1> USE DEF tables, locals, clients, history
<1>1. ASSUME pc[q] = "update", op'[q] = op[q], target'[q] = target[q], cols'[q] = cols[q],
             q \notin stale' => q \notin stale /\ rows'[target[q]] = rows[target[q]]
      PROVE  /\ target'[q] \in Users
             /\ q \notin stale' => CopyOf(cols'[q], rows'[target'[q]], Requested(q)')
  <2>1. Requested(q)' = Requested(q)
    BY <1>1 DEF Requested
  <2> QED
    BY <1>1, <2>1 DEF CopyInv
<1>2. ASSUME NEW r \in Requests, Arrive(r)
      PROVE  /\ target'[q] \in Users
             /\ q \notin stale' => CopyOf(cols'[q], rows'[target'[q]], Requested(q)')
  <2>1. CASE q = r
    BY <1>2, <2>1, ArriveStarts, ArriveMoves
  <2>2. CASE q # r
    BY <1>1, <1>2, <2>2, ArriveMoves
  <2> QED
    BY <2>1, <2>2
\* The UPDATE statement of one request makes every other copy of that row stale.
<1>3. ASSUME NEW r \in Requests, Proceed(r)
      PROVE  /\ target'[q] \in Users
             /\ q \notin stale' => CopyOf(cols'[q], rows'[target'[q]], Requested(q)')
  <2>1. q # r /\ pc[q] = "update" /\ op'[q] = op[q] /\ target'[q] = target[q] /\ cols'[q] = cols[q]
    BY <1>3, ProceedMoves DEF Replied
  <2>2. target[q] \in Users
    BY <2>1 DEF CopyInv
  <2>3. CASE Update(r) \/ UpdateFields(r)
    <3>1. PICK set, applied : Store(r, set, applied)
      BY <2>3 DEF Update, UpdateFields
    <3>2. q \notin stale' => q \notin stale /\ rows'[target[q]] = rows[target[q]]
      BY <2>1, <2>2, <3>1 DEF Store, Write, TypeOK
    <3> QED
      BY <1>1, <2>1, <3>2
  <2>4. CASE UNCHANGED <<rows, stale>>
    BY <1>1, <2>1, <2>4
  <2> QED
    BY <1>3, <2>3, <2>4, ProceedCases DEF SaveToken, DeleteRow, RecordAudit
<1>4. CASE UNCHANGED <<rows, stale, pc, op, target, cols>>
  BY <1>1, <1>4
<1> QED
  BY <1>2, <1>3, <1>4 DEF Next, Expire, vars

LEMMA CopiesCorrect == Spec => []CopyInv
BY CopyInit, CopyNext, TypeCorrect, PTL DEF Spec

\* An update whose copy is fresh changes the requested column only.
LEMMA FreshCopyStep ==
    ASSUME TypeOK, CopyInv, NEW r \in Requests, pc[r] = "update", r \notin stale,
           NEW k \in Columns \ {Requested(r)},
           rows' = Write(rows, live, target[r], SetList(r))
    PROVE  rows'[target[r]][k] = rows[target[r]][k]
<1>1. target[r] \in Users /\ cols[r][k] = rows[target[r]][k]
  BY DEF CopyInv, CopyOf
<1>2. Assign(rows[target[r]], SetList(r))[k] = rows[target[r]][k]
  BY <1>1 DEF Assign, SetList, NonZero
<1> QED
  BY <1>1, <1>2 DEF Write, TypeOK

LEMMA ExplainedStep ==
    ASSUME TypeOK, CopyInv, [Next]_vars, NEW u \in Users, NEW k \in Columns, rows'[u][k] # rows[u][k]
    PROVE  \E r \in Requests : target[r] = u /\
              \/ Takes(r, "updateFields") /\ k \in DOMAIN cols[r]
              \/ Takes(r, "update") /\ (k = Requested(r) \/ r \in stale)
<1>1. PICK r \in Requests : /\ Takes(r, "update") \/ Takes(r, "updateFields")
                            /\ rows' = Write(rows, live, target[r], SetList(r))
  BY RowsChangeByStore
<1>2. target[r] = u
  BY <1>1 DEF Write, TypeOK
<1>3. CASE Takes(r, "update")
  BY <1>1, <1>2, <1>3, FreshCopyStep DEF Takes
<1>4. CASE Takes(r, "updateFields")
  <2>1. SetList(r) = cols[r]
    BY <1>4 DEF Takes, SetList
  <2>2. rows'[u] = Assign(rows[u], cols[r])
    BY <1>1, <1>2, <2>1 DEF Write, TypeOK
  <2>3. k \in DOMAIN cols[r]
    BY <2>2 DEF Assign
  <2> QED
    BY <1>2, <1>4, <2>3
<1> QED
  BY <1>1, <1>3, <1>4

\* Nobody's role, status, password or nickname changes unless it was asked for, or
\* an update put back a copy that had gone stale: the undoing of an administrator's
\* change needs two requests that overlap. This is what holds in place of the
\* statement that only administrators change the role and the status.
\* (internal/service/user_service.go:464-489, 534-562, 596-622)
THEOREM ChangesExplained == Spec => ChangesAreExplained
<1> DEFINE Explained ==
      \A u \in Users, k \in Columns : rows'[u][k] # rows[u][k] =>
         \E r \in Requests : target[r] = u /\
            \/ Takes(r, "updateFields") /\ k \in DOMAIN cols[r]
            \/ Takes(r, "update") /\ (k = Requested(r) \/ r \in stale)
<1>1. TypeOK /\ CopyInv /\ [Next]_vars => [Explained]_vars
  BY ExplainedStep
<1> QED
  BY <1>1, CopiesCorrect, TypeCorrect, PTL DEF Spec, ChangesAreExplained

LEMMA FreshAnswerStep ==
    ASSUME TypeOK, CopyInv, [Next]_vars, NEW r \in Requests,
           Takes(r, "update"), pc'[r] = "ok", r \notin stale, target[r] \in live
    PROVE  ToResponse(rows'[target[r]]) = Answer(r)
<1> DEFINE row == rows[target[r]]
<1>1. target[r] \in Users /\ CopyOf(cols[r], row, Requested(r))
  BY DEF CopyInv, Takes
<1>2. Update(r) \/ UpdateFields(r)
  BY TakesStore
<1>3. rows' = Write(rows, live, target[r], SetList(r))
  BY <1>2, StoreSteps DEF Store
<1>4. rows'[target[r]] = Assign(row, NonZero(cols[r]))
  BY <1>1, <1>3 DEF Takes, SetList, Write, TypeOK
<1>5. \A k \in Columns : Assign(row, NonZero(cols[r]))[k] = cols[r][k]
  BY <1>1 DEF Assign, NonZero, CopyOf
<1> QED
  BY <1>4, <1>5 DEF ToResponse, Answer

\* UpdateUser answers with a copy that it never reads back. When nobody wrote the row
\* in between and the row is still there, every column of the answer is what the
\* table holds, those a struct update skips because they are zero included.
\* (internal/service/user_service.go:464-489, internal/repository/user_repo.go:101-104)
THEOREM FreshAnswerCorrect == Spec => FreshAnswerIsStored
<1> DEFINE Stored ==
      \A r \in Requests :
         Takes(r, "update") /\ pc'[r] = "ok" /\ r \notin stale /\ target[r] \in live
         => ToResponse(rows'[target[r]]) = Answer(r)
<1>1. TypeOK /\ CopyInv /\ [Next]_vars => [Stored]_vars
  BY FreshAnswerStep
<1> QED
  BY <1>1, CopiesCorrect, TypeCorrect, PTL DEF Spec, FreshAnswerIsStored

-----------------------------------------------------------------------------
(* Administrators' updates.                                                 *)

\* What an administrator's update is about to write comes from its request.
FieldsInv ==
    \A r \in Requests : pc[r] = "updateFields" => target[r] \in Users /\ IsAdminSet(cols[r])

LEMMA FieldsInit == Init => FieldsInv
BY DEF Init, FieldsInv

LEMMA FieldsNext == TypeOK /\ FieldsInv /\ [Next]_vars => FieldsInv'
<1> SUFFICES ASSUME TypeOK, FieldsInv, [Next]_vars, NEW q \in Requests, pc'[q] = "updateFields"
             PROVE  target'[q] \in Users /\ IsAdminSet(cols'[q])
  BY DEF FieldsInv, IsAdminSet
<1>1. ASSUME NEW r \in Requests, Arrive(r)
      PROVE  target'[q] \in Users /\ IsAdminSet(cols'[q])
  <2>1. CASE q = r
    BY <1>1, <2>1, ArriveStarts
  <2>2. CASE q # r
    BY <1>1, <2>2, ArriveMoves DEF FieldsInv
  <2> QED
    BY <2>1, <2>2
<1>2. ASSUME NEW r \in Requests, Proceed(r)
      PROVE  target'[q] \in Users /\ IsAdminSet(cols'[q])
  BY <1>2, ProceedMoves DEF FieldsInv, Replied
<1>3. CASE UNCHANGED <<pc, target, cols>>
  BY <1>3 DEF FieldsInv
<1> QED
  BY <1>1, <1>2, <1>3 DEF Next, Expire, vars, locals

LEMMA FieldsCorrect == Spec => []FieldsInv
BY FieldsInit, FieldsNext, TypeCorrect, PTL DEF Spec

LEMMA FieldsStep ==
    ASSUME TypeOK, FieldsInv, [Next]_vars, NEW r \in Requests, Takes(r, "updateFields")
    PROVE  rows'[target[r]]["password"] = rows[target[r]]["password"]
<1>1. target[r] \in Users /\ "password" \notin DOMAIN SetList(r) /\ "password" \in Columns
  <2>1. target[r] \in Users /\ IsAdminSet(cols[r]) /\ SetList(r) = cols[r]
    BY DEF Takes, SetList, FieldsInv
  <2>2. "password" \notin DOMAIN cols[r]
    BY <2>1 DEF IsAdminSet, AdminColumns
  <2> QED
    BY <2>1, <2>2 DEF Columns
<1>2. Assign(rows[target[r]], SetList(r))["password"] = rows[target[r]]["password"]
  BY <1>1 DEF Assign
<1>3. Update(r) \/ UpdateFields(r)
  BY TakesStore
<1>4. PICK applied : Store(r, SetList(r), applied)
  BY <1>3, StoreSteps
<1> QED
  BY <1>1, <1>2, <1>4 DEF Store, Write, TypeOK

\* An administrator's update of a user never undoes a change of password, however
\* the two overlap: unlike UpdateUser it writes the columns it was asked for.
\* (internal/service/user_service.go:596-622)
THEOREM AdminPasswordCorrect == Spec => AdminKeepsPassword
<1> DEFINE Kept ==
      \A r \in Requests : pc[r] = "updateFields" /\ pc'[r] # "updateFields"
         => rows'[target[r]]["password"] = rows[target[r]]["password"]
<1>1. TypeOK /\ FieldsInv /\ [Next]_vars => [Kept]_vars
  BY FieldsStep DEF Takes
<1> QED
  BY <1>1, FieldsCorrect, TypeCorrect, PTL DEF Spec, AdminKeepsPassword

-----------------------------------------------------------------------------
(* Columns that are emptied.                                                *)

\* The values of a 32-bit request field that are not zero and are kept as zero.
Wrapping(values) == \E v \in values : v # 0 /\ v % 256 = 0

\* A zero among the columns of an administrator's request is a role or a status that
\* was sent as a multiple of 256.
LEMMA AdminZeroWraps ==
    ASSUME NEW set, IsAdminSet(set), NEW k \in DOMAIN set, set[k] = Zero[k]
    PROVE  /\ set[k] = 0
           /\ \/ k = "role" /\ Wrapping(AdminRoles)
              \/ k = "status" /\ Wrapping(AdminStatuses)
<1>1. PICK nickname \in Names \cup {""}, role \in AdminRoles, status \in AdminStatuses :
        set = AdminColumns(nickname, role, status)
  BY DEF IsAdminSet
<1>2. k \in {"nickname", "role", "status"}
  BY <1>1 DEF AdminColumns, Columns
<1>3. k # "nickname"
  <2> SUFFICES ASSUME k = "nickname" PROVE FALSE
    OBVIOUS
  <2>1. nickname # "" /\ set[k] = nickname
    BY <1>1 DEF AdminColumns, Columns
  <2>2. Zero[k] = ""
    BY DEF Zero
  <2> QED
    BY <2>1, <2>2
<1>4. CASE k = "role"
  <2>1. role # 0 /\ set[k] = role % 256
    BY <1>1, <1>4 DEF AdminColumns, Columns, Uint8
  <2>2. Zero[k] = 0
    BY <1>4 DEF Zero
  <2> QED
    <3>1. role \in AdminRoles /\ role # 0 /\ role % 256 = 0
      BY <2>1, <2>2
    <3>2. Wrapping(AdminRoles)
      BY <3>1 DEF Wrapping
    <3> QED
      BY <1>4, <2>2, <3>2
<1>5. CASE k = "status"
  <2>1. status # 0 /\ set[k] = status % 256
    BY <1>1, <1>5 DEF AdminColumns, Columns, Uint8
  <2>2. Zero[k] = 0
    BY <1>5 DEF Zero
  <2> QED
    <3>1. status \in AdminStatuses /\ status # 0 /\ status % 256 = 0
      BY <2>1, <2>2
    <3>2. Wrapping(AdminStatuses)
      BY <3>1 DEF Wrapping
    <3> QED
      BY <1>5, <2>2, <3>2
<1> QED
  BY <1>2, <1>3, <1>4, <1>5

LEMMA ClearedStep ==
    ASSUME TypeOK, FieldsInv, [Next]_vars, NEW u \in Users, NEW k \in Columns,
           rows[u][k] # Zero[k], rows'[u][k] = Zero[k]
    PROVE  /\ k \in {"role", "status"}
           /\ \E r \in Requests : /\ target[r] = u /\ Takes(r, "updateFields")
                                  /\ k \in DOMAIN cols[r] /\ cols[r][k] = 0
           /\ k = "role" => Wrapping(AdminRoles)
           /\ k = "status" => Wrapping(AdminStatuses)
<1>1. PICK r \in Requests : /\ Takes(r, "update") \/ Takes(r, "updateFields")
                            /\ rows' = Write(rows, live, target[r], SetList(r))
  BY RowsChangeByStore
<1>2. target[r] = u /\ rows'[u] = Assign(rows[u], SetList(r))
  BY <1>1 DEF Write, TypeOK
<1>3. k \in DOMAIN SetList(r) /\ SetList(r)[k] = Zero[k]
  BY <1>2 DEF Assign
<1>4. ~Takes(r, "update")
  BY <1>3 DEF Takes, SetList, NonZero
<1>5. SetList(r) = cols[r] /\ IsAdminSet(cols[r])
  BY <1>1, <1>4 DEF Takes, SetList, FieldsInv
<1> QED
  BY <1>1, <1>2, <1>3, <1>4, <1>5, AdminZeroWraps

\* The whole-row writes never empty a column and an administrator's zero means "leave
\* it": what empties a role or a status is a request field that the conversion to a
\* byte makes zero, the values uint32 allows and the handler does not refuse included.
\* (internal/repository/user_repo.go:101-110, internal/handler/v1/grpc_handler.go:473-484)
THEOREM ClearedCorrect == Spec => ClearedOnlyByWrapping
<1> DEFINE Cleared ==
      \A u \in Users, k \in Columns : rows[u][k] # Zero[k] /\ rows'[u][k] = Zero[k] =>
         /\ k \in {"role", "status"}
         /\ \E r \in Requests : /\ target[r] = u /\ Takes(r, "updateFields")
                                /\ k \in DOMAIN cols[r] /\ cols[r][k] = 0
<1>1. TypeOK /\ FieldsInv /\ [Next]_vars => [Cleared]_vars
  BY ClearedStep
<1> QED
  BY <1>1, FieldsCorrect, TypeCorrect, PTL DEF Spec, ClearedOnlyByWrapping

\* So status 0, the value documented for a disabled user, is reached only if an
\* administrator sends 256 or another multiple of it: the map of AdminUpdateUser is
\* there to write that zero (user_service.go:606, user_repo.go:106), but the handler in
\* front of it takes a zero for "leave it" (grpc_handler.go:481). The same of a role.
THEOREM ZeroNeedsWrapping ==
    Spec => [](\A u \in Users : /\ rows[u]["role"] = 0 => Wrapping(AdminRoles)
                                /\ rows[u]["status"] = 0 => Wrapping(AdminStatuses))
<1> DEFINE Needs == \A u \in Users : /\ rows[u]["role"] = 0 => Wrapping(AdminRoles)
                                     /\ rows[u]["status"] = 0 => Wrapping(AdminStatuses)
<1>1. Init => Needs
  <2> SUFFICES ASSUME Init, NEW u \in Users
               PROVE  rows[u]["role"] # 0 /\ rows[u]["status"] # 0
    OBVIOUS
  <2>1. rows[u] \in [password : Passwords, nickname : {""}, role : {1, 2}, status : {1}]
    BY DEF Init, RoleNormal, RoleAdmin, StatusNormal
  <2>2. rows[u]["role"] \in {1, 2} /\ rows[u]["status"] = 1
    BY <2>1
  <2> QED
    BY <2>2
<1>2. TypeOK /\ FieldsInv /\ Needs /\ [Next]_vars => Needs'
  <2> SUFFICES ASSUME TypeOK, FieldsInv, Needs, [Next]_vars, NEW u \in Users
               PROVE  /\ rows'[u]["role"] = 0 => Wrapping(AdminRoles)
                      /\ rows'[u]["status"] = 0 => Wrapping(AdminStatuses)
    BY DEF Wrapping
  <2>1. "role" \in Columns /\ "status" \in Columns /\ Zero["role"] = 0 /\ Zero["status"] = 0
    BY DEF Columns, Zero
  <2>2. /\ rows[u]["role"] = 0 => Wrapping(AdminRoles)
        /\ rows[u]["status"] = 0 => Wrapping(AdminStatuses)
    OBVIOUS
  <2>3. rows'[u]["role"] = 0 => Wrapping(AdminRoles)
    BY <2>1, <2>2, ClearedStep
  <2>4. rows'[u]["status"] = 0 => Wrapping(AdminStatuses)
    BY <2>1, <2>2, ClearedStep
  <2> QED
    BY <2>3, <2>4
<1> QED
  BY <1>1, <1>2, FieldsCorrect, TypeCorrect, PTL DEF Spec

-----------------------------------------------------------------------------
(* Users who are locked out.                                                *)

\* Only a login of the user, admitted by the row, leads to a session of the user.
LEMMA LockedOutStep ==
    ASSUME TypeOK, TokenInv, [Next]_vars, NEW u \in Users, ~Admitted(u), ~LoginInFlight(u)
    PROVE  ~LoginInFlight(u)' /\ TokensOf(u)' \subseteq TokensOf(u)
<1> USE DEF tables, locals, clients, history
<1> DEFINE Goal == ~LoginInFlight(u)' /\ TokensOf(u)' \subseteq TokensOf(u)
<1>1. ASSUME NEW r \in Requests, Arrive(r)
      PROVE  Goal
  <2>1. r \notin tokens /\ tokens \subseteq Requests
    BY <1>1, ArriveMoves DEF TokenInv, TypeOK
  <2>2. TokensOf(u)' \subseteq TokensOf(u)
    BY <1>1, <2>1, ArriveMoves DEF TokensOf
  <2>3. ~LoginInFlight(u)'
    BY <1>1, ArriveMoves, ArriveStarts DEF LoginInFlight, LoginsInFlight
  <2> QED
    BY <2>2, <2>3
<1>2. ASSUME NEW r \in Requests, Proceed(r)
      PROVE  Goal
  <2>1. tokens' \subseteq tokens \cup {q \in Requests : pc[q] = "saveToken"}
    BY <1>2, ProceedCases DEF SaveToken, CreateToken, Update, UpdateFields, DeleteRow, RecordAudit
  <2>2. \A q \in Requests : pc'[q] = "saveToken" => pc[q] = "saveToken"
    BY <1>2, ProceedMoves DEF Replied
  <2> QED
    BY <1>2, <2>1, <2>2, ProceedMoves DEF LoginInFlight, LoginsInFlight, TokensOf
<1>3. CASE UNCHANGED <<pc, target, tokens>>
  BY <1>3 DEF LoginInFlight, LoginsInFlight, TokensOf
<1> QED
  BY <1>1, <1>2, <1>3 DEF Next, Expire, vars

\* A user who was deleted or disabled starts no session once the logins that had
\* read the row before are through, whatever else is going on.
\* (internal/service/user_service.go:349-386)
THEOREM LockedOutCorrect == Spec => LockedOutGetsNoSession
<1> DEFINE Stays ==
      \A u \in Users : ~Admitted(u) /\ ~LoginInFlight(u)
                         => ~LoginInFlight(u)' /\ TokensOf(u)' \subseteq TokensOf(u)
<1>1. TypeOK /\ TokenInv /\ [Next]_vars => [Stays]_vars
  BY LockedOutStep
<1> QED
  BY <1>1, TokensCorrect, TypeCorrect, PTL DEF Spec, LockedOutGetsNoSession

-----------------------------------------------------------------------------
(* Users who are shut out.                                                  *)

\* The user is gone, no login of the user is in progress and no token row is left.
ShutOut(u) == u \notin live /\ ~LoginInFlight(u) /\ TokensOf(u) = {}

\* A user who was deleted and is shut out once stays so: from then on no JWT of that
\* user validates. This is what holds in place of the statement that deleting a user
\* deletes the tokens: what a deletion must find when it takes the row away is no
\* token row and no login in progress, and then nothing brings a session back.
\* (internal/service/user_service.go:349-386, 397-439, 492-508)
THEOREM ShutOutForGood ==
    ASSUME NEW u \in Users
    PROVE  Spec => [](ShutOut(u) => [](\A t \in held : target[t] = u => ~TokenValid(t)))
<1>1. TypeOK /\ TokenInv /\ [Next]_vars /\ ShutOut(u) => ShutOut(u)'
  <2> SUFFICES ASSUME TypeOK, TokenInv, [Next]_vars, ShutOut(u) PROVE ShutOut(u)'
    OBVIOUS
  <2>1. ~Admitted(u) /\ ~LoginInFlight(u) /\ TokensOf(u) = {}
    BY DEF ShutOut, Admitted
  <2>2. ~LoginInFlight(u)' /\ TokensOf(u)' \subseteq TokensOf(u)
    BY <2>1, LockedOutStep
  <2>3. u \notin live'
    BY GoneStep DEF ShutOut
  <2> QED
    BY <2>1, <2>2, <2>3 DEF ShutOut
<1>2. ShutOut(u) => \A t \in held : target[t] = u => ~TokenValid(t)
  BY DEF ShutOut, TokensOf, TokenValid, GetToken
<1>3. Spec => [](ShutOut(u) => []ShutOut(u))
  BY <1>1, TokensCorrect, TypeCorrect, PTL DEF Spec
<1> QED
  BY <1>2, <1>3, PTL

=============================================================================
