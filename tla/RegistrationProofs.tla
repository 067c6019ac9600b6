-------------------------- MODULE RegistrationProofs --------------------------
(***************************************************************************)
(* What Registration.tla satisfies for every table, every texts, and any   *)
(* number of requests, whatever fails and however often the process stops  *)
(* and starts again.                                                       *)
(***************************************************************************)
EXTENDS Registration, FiniteSetTheorems, TLAPS

\* What Next may do, for any request and any input.
Arrive == \E r \in Requests, n \in Usernames, e \in Emails :
              \/ SendVerificationCode(r, e)
              \/ \E m \in mails : Register(r, n, e, m[2])
              \/ \E formed \in BOOLEAN : RefuseForm(r, formed)
Expire == \E e \in Emails : ExpireRateKey(e) \/ ExpireCode(e)
Delete == \E i \in DOMAIN users : SoftDelete(i)

LEMMA FormedIsBoolean ==
  ASSUME NEW n, NEW e, NEW pw
  PROVE  /\ IsValidEmail(e) \in BOOLEAN
         /\ (IsValidUsername(n) /\ IsValidEmail(e) /\ IsValidPassword(pw)) \in BOOLEAN
  BY DEF IsValidEmail, IsValidUsername, IsValidPassword

LEMMA Steps ==
  ASSUME [Next]_vars
  PROVE  \/ Arrive \/ (\E r \in Requests : Proceed(r)) \/ WarmUp \/ Expire \/ Delete \/ Crash
         \/ UNCHANGED vars
<1>1. CASE \E r \in Requests, e \in Emails :
             SendVerificationCode(r, e) \/ RefuseForm(r, IsValidEmail(e))
  BY <1>1, FormedIsBoolean, TextsAssumption DEF Arrive
<1>2. CASE \E r \in Requests, n \in Usernames, e \in Emails, pw \in Passwords :
             \/ RefuseForm(r, IsValidUsername(n) /\ IsValidEmail(e) /\ IsValidPassword(pw))
             \/ IsValidPassword(pw) /\ \E m \in mails : Register(r, n, e, m[2])
  BY <1>2, FormedIsBoolean DEF Arrive
<1>3. CASE \E r \in Requests : RegisterRPC(r)
  <2>1. (\E n \in Usernames : TRUE) /\ (\E e \in Emails : TRUE)
    BY TextsAssumption
  <2>2. QED  BY <1>3, <2>1 DEF RegisterRPC, Arrive
<1>4. QED  BY <1>1, <1>2, <1>3 DEF Next, Expire, Delete

-----------------------------------------------------------------------------
(* Type correctness.                                                        *)

LEMMA InitTypes == Init => TypeOK
<1> SUFFICES ASSUME Init PROVE TypeOK
  OBVIOUS
<1>1. TableOK
  BY OldAccountsAssumption DEF Init, TableOK
<1>2. StoresOK
  BY DEF Init, StoresOK
<1>3. WarmUpOK
  BY DEF Init, WarmUpOK, PageOK, Submitted, NoFuture
<1>4. CallsOK
  <2>1. /\ (CHOOSE n \in Usernames : TRUE) \in Usernames
        /\ (CHOOSE e \in Emails : TRUE) \in Emails
    BY TextsAssumption
  <2>2. form \in [Requests -> Forms]
    BY <2>1 DEF Init, Forms
  <2>3. QED  BY <2>2, BoundsAssumption DEF Init, CallsOK
<1>5. QED  BY <1>1, <1>2, <1>3, <1>4 DEF TypeOK

LEMMA NextTable == TableOK /\ CallsOK /\ [Next]_vars => TableOK'
<1> SUFFICES ASSUME TableOK, CallsOK, [Next]_vars PROVE TableOK'
  OBVIOUS
<1>1. CASE \E r \in Requests : Create(r)
  <2>1. PICK r \in Requests : Create(r)
    BY <1>1
  <2>2. [by |-> r, username |-> form[r].username, email |-> form[r].email] \in Account
    BY DEF CallsOK, Forms, Account
  <2>3. QED  BY <2>1, <2>2 DEF Create, TableOK
<1>2. CASE Delete
  BY <1>2 DEF Delete, SoftDelete, TableOK
<1>3. CASE UNCHANGED <<users, deleted>>
  BY <1>3 DEF TableOK
<1>4. QED
  <2>1. Arrive \/ WarmUp \/ Expire \/ Crash \/ UNCHANGED vars => UNCHANGED <<users, deleted>>
    BY DEF Arrive, SendVerificationCode, Register, RefuseForm, WarmUp, FetchPage, TakePage,
           AddPage, Expire, ExpireRateKey, ExpireCode, Crash, vars
  <2>2. ASSUME NEW r \in Requests, Proceed(r)
        PROVE  Create(r) \/ UNCHANGED <<users, deleted>>
    BY <2>2 DEF Proceed, LimitRate, StoreCode, MailCode, UndoCode, ConsumeCode, FullCheck,
           BloomCheck, UsernameCheck, EmailCheck, BloomAdd
  <2>3. QED  BY <1>1, <1>2, <1>3, <2>1, <2>2, Steps

LEMMA NextStores == TypeOK /\ [Next]_vars => StoresOK'
<1> SUFFICES ASSUME TypeOK, [Next]_vars PROVE StoresOK'
  OBVIOUS
<1>1. CASE Arrive \/ Delete \/ Crash \/ UNCHANGED vars
  BY <1>1 DEF Arrive, SendVerificationCode, Register, RefuseForm, Delete, SoftDelete, Crash, vars,
         redis, TypeOK, StoresOK
<1>2. CASE Expire
  BY <1>2 DEF Expire, ExpireRateKey, ExpireCode, TypeOK, StoresOK
<1>3. CASE WarmUp
  BY <1>3 DEF WarmUp, FetchPage, TakePage, AddPage, redis, PageOK, TypeOK, WarmUpOK, StoresOK
<1>4. ASSUME NEW r \in Requests, Proceed(r)
      PROVE  StoresOK'
  <2>1. form[r].username \in Usernames /\ form[r].email \in Emails
    BY DEF TypeOK, CallsOK, Forms
  <2>2. CASE LimitRate(r)
    BY <2>1, <2>2 DEF LimitRate, TypeOK, StoresOK
  <2>3. CASE StoreCode(r) \/ UndoCode(r) \/ ConsumeCode(r)
    BY <2>1, <2>3 DEF StoreCode, UndoCode, ConsumeCode, TypeOK, StoresOK
  <2>4. CASE MailCode(r)
    BY <2>1, <2>4 DEF MailCode, redis, TypeOK, StoresOK
  <2>5. CASE FullCheck(r) \/ BloomCheck(r) \/ UsernameCheck(r) \/ EmailCheck(r) \/ Create(r)
    BY <2>5 DEF FullCheck, BloomCheck, UsernameCheck, EmailCheck, Create, redis, TypeOK, StoresOK
  <2>6. CASE BloomAdd(r)
    BY <2>1, <2>6 DEF BloomAdd, TypeOK, StoresOK
  <2>7. QED  BY <1>4, <2>2, <2>3, <2>4, <2>5, <2>6 DEF Proceed
<1>5. QED  BY <1>1, <1>2, <1>3, <1>4, Steps

-----------------------------------------------------------------------------
(* The pages of the warm-up.                                                *)

\* A finite set of numbers has a lowest and a highest element.
LEMMA Lowest ==
  ASSUME NEW S \in SUBSET Int, IsFiniteSet(S), S # {}
  PROVE  \E m \in S : \A x \in S : m <= x
<1> DEFINE Upto(i) == {k \in S : k <= i}
           Heads == {Upto(i) : i \in S}
<1>1. IsWellFoundedOn(StrictSubsetOrdering(S), SUBSET S)
  BY FS_StrictSubsetOrderingWellFounded, FS_FiniteSubsetsOfFinite
<1>2. Heads \in SUBSET SUBSET S /\ Heads # {}
  OBVIOUS
<1>3. \E T \in Heads : \A U \in Heads : ~(<<U, T>> \in StrictSubsetOrdering(S))
  <2> HIDE DEF Heads
  <2> QED  BY <1>1, <1>2, WFMin
<1>4. PICK m \in S : \A x \in S : ~(<<Upto(x), Upto(m)>> \in StrictSubsetOrdering(S))
  BY <1>3
<1>5. ASSUME NEW x \in S, x < m PROVE FALSE
  <2>1. \A k \in S : k <= x => k <= m
    BY <1>5
  <2>2. Upto(x) \subseteq Upto(m) /\ m \in Upto(m)
    <3>1. Upto(x) \subseteq Upto(m)
      BY <2>1
    <3>2. m \in Upto(m)
      OBVIOUS
    <3>3. QED  BY <3>1, <3>2
  <2>3. m \notin Upto(x)
    <3>1. m \in Int /\ x \in Int
      OBVIOUS
    <3>2. QED  BY <1>5, <3>1
  <2>4. QED  BY <1>4, <2>1, <2>2, <2>3 DEF StrictSubsetOrdering
<1>6. QED  BY <1>5

LEMMA Highest ==
  ASSUME NEW S \in SUBSET Int, IsFiniteSet(S), S # {}
  PROVE  \E m \in S : \A x \in S : m >= x
<1> DEFINE From(i) == {k \in S : k >= i}
           Tails == {From(i) : i \in S}
<1>1. IsWellFoundedOn(StrictSubsetOrdering(S), SUBSET S)
  BY FS_StrictSubsetOrderingWellFounded, FS_FiniteSubsetsOfFinite
<1>2. Tails \in SUBSET SUBSET S /\ Tails # {}
  OBVIOUS
<1>3. \E T \in Tails : \A U \in Tails : ~(<<U, T>> \in StrictSubsetOrdering(S))
  <2> HIDE DEF Tails
  <2> QED  BY <1>1, <1>2, WFMin
<1>4. PICK m \in S : \A x \in S : ~(<<From(x), From(m)>> \in StrictSubsetOrdering(S))
  BY <1>3
<1>5. ASSUME NEW x \in S, x > m PROVE FALSE
  <2>1. \A k \in S : k >= x => k >= m
    BY <1>5
  <2>2. From(x) \subseteq From(m) /\ m \in From(m)
    <3>1. From(x) \subseteq From(m)
      BY <2>1
    <3>2. m \in From(m)
      OBVIOUS
    <3>3. QED  BY <3>1, <3>2
  <2>3. m \notin From(x)
    <3>1. m \in Int /\ x \in Int
      OBVIOUS
    <3>2. QED  BY <1>5, <3>1
  <2>4. QED  BY <1>4, <2>1, <2>2, <2>3 DEF StrictSubsetOrdering
<1>6. QED  BY <1>5

LEMMA MaxIsHighest ==
  ASSUME NEW S \in SUBSET Int, IsFiniteSet(S), S # {}
  PROVE  Max(S) \in S /\ \A x \in S : x <= Max(S)
<1>1. PICK m \in S : \A x \in S : m >= x
  BY Highest
<1>2. Max(S) \in S /\ \A x \in S : Max(S) >= x
  BY <1>1 DEF Max
<1>3. QED  BY <1>2

\* The rows a page may give are finitely many.
LEMMA RestIsFinite ==
  ASSUME TableOK, NEW R \in SUBSET DOMAIN users
  PROVE  R \in SUBSET Nat /\ IsFiniteSet(R) /\ Cardinality(R) \in Nat
<1>1. DOMAIN users = 1 .. Len(users) /\ Len(users) \in Nat
  BY DEF TableOK
<1>2. IsFiniteSet(R)
  <2>1. IsFiniteSet(1 .. Len(users))
    BY <1>1, FS_Interval
  <2>2. QED  BY <1>1, <2>1, FS_Subset
<1>3. QED  BY <1>1, <1>2, FS_CardinalityType

LEMMA PageIsOK ==
  ASSUME TableOK, NEW after
  PROVE  PageAfter(after).state = "fetched" /\ PageOK(PageAfter(after))
<1> DEFINE ids == NextIds(after)
           p == PageAfter(after)
<1>1. ids \in SUBSET DOMAIN users
  BY DEF NextIds
<1>2. ids \in SUBSET Nat /\ IsFiniteSet(ids) /\ Cardinality(ids) \in Nat
  BY <1>1, RestIsFinite
<1> HIDE DEF ids
<1>3. ids # {} => Max(ids) \in ids
  BY <1>2, MaxIsHighest
<1>4. \A i \in ids : users[i].username \in Usernames
  <2>1. \A i \in DOMAIN users : users[i] \in Account
    BY DEF TableOK
  <2>2. \A a \in Account : a.username \in Usernames
    BY DEF Account
  <2>3. QED  BY <1>1, <2>1, <2>2
<1>5. p = Fetched({users[i].username : i \in ids}, Cardinality(ids), IF ids = {} THEN 0 ELSE Max(ids))
  BY DEF PageAfter, ids
<1>6. p.state = "fetched" /\ p.names = {users[i].username : i \in ids}
      /\ p.size = Cardinality(ids) /\ p.nextID = IF ids = {} THEN 0 ELSE Max(ids)
  BY <1>5 DEF Fetched
<1>7. p.names \subseteq Usernames /\ p.nextID \in Nat
  <2>1. (IF ids = {} THEN 0 ELSE Max(ids)) \in Nat
    BY <1>2, <1>3
  <2>2. {users[i].username : i \in ids} \subseteq Usernames
    BY <1>4
  <2>3. QED  BY <1>6, <2>1, <2>2
<1> HIDE DEF p
<1>8. p.state = "fetched" /\ PageOK(p)
  BY <1>2, <1>6, <1>7 DEF PageOK
<1>9. QED  BY <1>8 DEF p

LEMMA NextLapses == TypeOK /\ [Next]_vars => lapses' \subseteq Requests \cup {TheWarmUp}
<1> SUFFICES ASSUME TypeOK, [Next]_vars PROVE lapses' \subseteq Requests \cup {TheWarmUp}
  OBVIOUS
<1>1. lapses \subseteq Requests \cup {TheWarmUp}
  BY DEF TypeOK, WarmUpOK
<1>2. CASE Crash
  BY <1>2 DEF Crash, Booted
<1>3. CASE WarmUp
  BY <1>1, <1>3 DEF WarmUp, FetchPage, TakePage, AddPage, WarmUpLapses
<1>4. Arrive \/ Expire \/ Delete \/ UNCHANGED vars => UNCHANGED lapses
  BY DEF Arrive, SendVerificationCode, Register, RefuseForm, Expire, ExpireRateKey, ExpireCode,
         Delete, SoftDelete, warmUp, vars
<1>5. ASSUME NEW r \in Requests, Proceed(r)
      PROVE  lapses' \in {lapses, lapses \cup {r}}
  BY <1>5 DEF Proceed, LimitRate, StoreCode, MailCode, UndoCode, ConsumeCode, FullCheck,
         BloomCheck, UsernameCheck, EmailCheck, Create, BloomAdd, warmUp
<1>6. QED  BY <1>1, <1>2, <1>3, <1>4, <1>5, Steps

LEMMA NextWarmUp == TypeOK /\ [Next]_vars => WarmUpOK'
<1> SUFFICES ASSUME TypeOK, [Next]_vars, lapses' \subseteq Requests \cup {TheWarmUp}
             PROVE  WarmUpOK'
  BY NextLapses
<1>1. CASE UNCHANGED <<bfReady, future, page>>
  BY <1>1 DEF TypeOK, WarmUpOK, PageOK
<1>2. CASE FetchPage
  <2>1. (future').state \in {"fetched", "broken"} /\ PageOK(future')
    BY <1>2, PageIsOK DEF FetchPage, TypeOK, Broken, PageOK
  <2>2. QED  BY <1>2, <2>1 DEF FetchPage, TypeOK, WarmUpOK, PageOK
<1>3. CASE TakePage
  <2>1. /\ bfReady' \in BOOLEAN
        /\ future' \in {NoFuture, Submitted(future.nextID)}
        /\ page' = NoFuture \/ (page' = future /\ future.state = "fetched")
    BY <1>3 DEF TakePage, WarmedUp, TypeOK, WarmUpOK
  <2>2. QED  BY <2>1 DEF Submitted, NoFuture, TypeOK, WarmUpOK, PageOK
<1>4. CASE AddPage
  <2>1. bfReady' \in BOOLEAN /\ future' \in {NoFuture, future} /\ page' = NoFuture
    BY <1>4 DEF AddPage, WarmedUp, TypeOK, WarmUpOK
  <2>2. QED  BY <2>1 DEF NoFuture, TypeOK, WarmUpOK, PageOK
<1>5. CASE Crash
  BY <1>5 DEF Crash, Booted, Submitted, NoFuture, WarmUpOK, PageOK
<1>6. Arrive \/ Expire \/ Delete \/ UNCHANGED vars => UNCHANGED <<bfReady, future, page>>
  BY DEF Arrive, SendVerificationCode, Register, RefuseForm, Expire, ExpireRateKey, ExpireCode,
         Delete, SoftDelete, warmUp, vars
<1>7. ASSUME NEW r \in Requests, Proceed(r)
      PROVE  UNCHANGED <<bfReady, future, page>>
  BY <1>7 DEF Proceed, LimitRate, StoreCode, MailCode, UndoCode, ConsumeCode, FullCheck,
         BloomCheck, UsernameCheck, EmailCheck, Create, BloomAdd, warmUp
<1>8. QED  BY <1>1, <1>2, <1>3, <1>4, <1>5, <1>6, <1>7, Steps DEF WarmUp

LEMMA NextCalls == TypeOK /\ [Next]_vars => CallsOK'
<1> SUFFICES ASSUME TypeOK, [Next]_vars PROVE CallsOK'
  OBVIOUS
<1>1. CASE Arrive
  <2>1. PICK r \in Requests, n \in Usernames, e \in Emails :
              \/ SendVerificationCode(r, e)
              \/ \E m \in mails : Register(r, n, e, m[2])
              \/ \E formed \in BOOLEAN : RefuseForm(r, formed)
    BY <1>1 DEF Arrive
  <2>2. CASE SendVerificationCode(r, e)
    BY <2>2 DEF SendVerificationCode, Go, SendSteps, Replied, TypeOK, CallsOK, Forms
  <2>3. CASE \E m \in mails : Register(r, n, e, m[2])
    <3>1. PICK m \in mails : Register(r, n, e, m[2])
      BY <2>3
    <3>2. m[2] \in Requests \cup {Earlier}
      BY DEF TypeOK, StoresOK
    <3>3. QED  BY <3>1, <3>2 DEF Register, Go, RegisterSteps, Replied, TypeOK, CallsOK, Forms
  <2>4. CASE \E formed \in BOOLEAN : RefuseForm(r, formed)
    BY <2>4 DEF RefuseForm, Go, Replied, TypeOK, CallsOK
  <2>5. QED  BY <2>1, <2>2, <2>3, <2>4
<1>2. CASE Expire
  BY <1>2 DEF Expire, ExpireRateKey, ExpireCode, TypeOK, CallsOK
<1>3. CASE Crash
  BY <1>3, BoundsAssumption DEF Crash, Replied, TypeOK, CallsOK
<1>4. CASE WarmUp \/ Delete \/ UNCHANGED vars
  BY <1>4 DEF WarmUp, FetchPage, TakePage, AddPage, Delete, SoftDelete, vars, TypeOK, CallsOK
<1>5. ASSUME NEW r \in Requests, Proceed(r)
      PROVE  CallsOK'
  <2>1. CASE LimitRate(r)
    BY <2>1 DEF LimitRate, Go, SendSteps, Replied, TypeOK, CallsOK, Forms
  <2>2. CASE StoreCode(r) \/ MailCode(r) \/ UndoCode(r)
    BY <2>2 DEF StoreCode, MailCode, UndoCode, Go, SendSteps, Replied, TypeOK, CallsOK
  <2>3. CASE ConsumeCode(r) \/ FullCheck(r) \/ BloomCheck(r) \/ UsernameCheck(r) \/ EmailCheck(r)
    BY <2>3 DEF ConsumeCode, FullCheck, BloomCheck, UsernameCheck, EmailCheck, Go,
           RegisterSteps, Replied, TypeOK, CallsOK
  <2>4. CASE Create(r) \/ BloomAdd(r)
    BY <2>4 DEF Create, BloomAdd, Go, RegisterSteps, Replied, TypeOK, CallsOK
  <2>5. QED  BY <1>5, <2>1, <2>2, <2>3, <2>4 DEF Proceed
<1>6. QED  BY <1>1, <1>2, <1>3, <1>4, <1>5, Steps

LEMMA NextTypes == TypeOK /\ [Next]_vars => TypeOK'
  BY NextTable, NextStores, NextWarmUp, NextCalls DEF TypeOK

\* Registration keeps its type invariant: every stored row, code, mail and page is
\* one that some request or the table before the run can have put there.
THEOREM TypeCorrect == Spec => []TypeOK
  BY InitTypes, NextTypes, PTL DEF Spec


-----------------------------------------------------------------------------
(* Codes: what a request carries stays, so that a code stored or mailed is   *)
(* for the address its request gave, and one that was checked was mailed.    *)

CodesOwned == \A e \in Emails : codes[e] # NoCode =>
                  IF codes[e] = Earlier THEN <<e, Earlier>> \in mails
                  ELSE pc[codes[e]] # Idle /\ form[codes[e]].email = e
MailsOwned == \A m \in mails : m[2] \in Requests => pc[m[2]] # Idle /\ form[m[2]].email = m[1]
Proven(r) == <<form[r].email, form[r].code>> \in mails
CodeInv == /\ CodesOwned /\ MailsOwned
           /\ \A r \in Requests : pc[r] \in RegisterSteps => Proven(r)

LEMMA InitCodes == Init => CodeInv
  BY CodesAssumption DEF Init, CodeInv, CodesOwned, MailsOwned, RegisterSteps, Idle

\* A call that has begun has begun for good, and what it carries stays.
LEMMA FormsStay ==
  ASSUME TypeOK, [Next]_vars, NEW q \in Requests, pc[q] # Idle
  PROVE  pc'[q] # Idle /\ form'[q] = form[q]
<1>1. CASE Arrive
  <2>1. PICK r \in Requests, n \in Usernames, e \in Emails :
              \/ SendVerificationCode(r, e)
              \/ \E m \in mails : Register(r, n, e, m[2])
              \/ \E formed \in BOOLEAN : RefuseForm(r, formed)
    BY <1>1 DEF Arrive
  <2>2. QED  BY <2>1 DEF SendVerificationCode, Register, RefuseForm, Go, TypeOK, CallsOK
<1>2. CASE Crash
  BY <1>2 DEF Crash, Idle, TypeOK, CallsOK
<1>3. CASE WarmUp \/ Expire \/ Delete \/ UNCHANGED vars
  BY <1>3 DEF WarmUp, FetchPage, TakePage, AddPage, Expire, ExpireRateKey, ExpireCode, Delete,
         SoftDelete, vars
<1>4. ASSUME NEW r \in Requests, Proceed(r)
      PROVE  pc'[q] # Idle /\ form'[q] = form[q]
  BY <1>4 DEF Proceed, LimitRate, StoreCode, MailCode, UndoCode, ConsumeCode, FullCheck,
         BloomCheck, UsernameCheck, EmailCheck, Create, BloomAdd, Go, Idle, TypeOK, CallsOK
<1>5. QED  BY <1>1, <1>2, <1>3, <1>4, Steps

\* No mail is ever taken back.
LEMMA MailsGrow ==
  ASSUME [Next]_vars
  PROVE  mails \subseteq mails'
<1>1. Arrive \/ WarmUp \/ Expire \/ Delete \/ Crash \/ UNCHANGED vars => mails' = mails
  BY DEF Arrive, SendVerificationCode, Register, RefuseForm, WarmUp, FetchPage, TakePage, AddPage,
         Expire, ExpireRateKey, ExpireCode, Delete, SoftDelete, Crash, vars
<1>2. ASSUME NEW r \in Requests, Proceed(r)
      PROVE  mails \subseteq mails'
  BY <1>2 DEF Proceed, LimitRate, StoreCode, MailCode, UndoCode, ConsumeCode, FullCheck,
         BloomCheck, UsernameCheck, EmailCheck, Create, BloomAdd
<1>3. QED  BY <1>1, <1>2, Steps

\* A step puts no code but that of the request that makes it, under its address.
LEMMA CodesMove ==
  ASSUME TypeOK, [Next]_vars, NEW e \in Emails, codes'[e] # codes[e], codes'[e] # NoCode
  PROVE  /\ codes'[e] \in Requests /\ form[codes'[e]].email = e
         /\ pc[codes'[e]] # Idle /\ pc[codes'[e]] = "store"
<1>1. Arrive \/ WarmUp \/ Delete \/ Crash \/ UNCHANGED vars => codes' = codes
  BY DEF Arrive, SendVerificationCode, Register, RefuseForm, WarmUp, FetchPage, TakePage, AddPage,
         Delete, SoftDelete, Crash, vars, redis
<1>2. ~Expire
  BY DEF Expire, ExpireRateKey, ExpireCode, TypeOK, StoresOK
<1>3. PICK r \in Requests : Proceed(r)
  BY <1>1, <1>2, Steps
<1>4. StoreCode(r)
  BY <1>3 DEF Proceed, LimitRate, MailCode, UndoCode, ConsumeCode, FullCheck, BloomCheck,
         UsernameCheck, EmailCheck, Create, BloomAdd, redis, TypeOK, StoresOK
<1>5. form[r].email \in Emails
  BY DEF TypeOK, CallsOK, Forms
<1>6. QED  BY <1>4, <1>5 DEF StoreCode, Idle, TypeOK, StoresOK

\* The same for the mails.
LEMMA MailsMove ==
  ASSUME TypeOK, [Next]_vars, NEW m \in mails', m \notin mails
  PROVE  m[2] \in Requests /\ pc[m[2]] # Idle /\ form[m[2]].email = m[1]
<1>1. Arrive \/ WarmUp \/ Expire \/ Delete \/ Crash \/ UNCHANGED vars => mails' = mails
  BY DEF Arrive, SendVerificationCode, Register, RefuseForm, WarmUp, FetchPage, TakePage, AddPage,
         Expire, ExpireRateKey, ExpireCode, Delete, SoftDelete, Crash, vars
<1>2. PICK r \in Requests : Proceed(r)
  BY <1>1, Steps
<1>3. MailCode(r)
  BY <1>2 DEF Proceed, LimitRate, StoreCode, UndoCode, ConsumeCode, FullCheck, BloomCheck,
         UsernameCheck, EmailCheck, Create, BloomAdd
<1>4. QED  BY <1>3 DEF MailCode, Idle

\* A request among the steps of Register was there before, or has just shown a
\* code that is its address's and some mailbox's.
LEMMA RegisterMoves ==
  ASSUME TypeOK, [Next]_vars, NEW q \in Requests, pc'[q] \in RegisterSteps
  PROVE  \/ pc[q] \in RegisterSteps
         \/ \E e \in Emails, n \in Usernames, m \in mails :
              /\ form'[q] = [username |-> n, email |-> e, code |-> m[2]]
              /\ codes[e] = m[2] /\ IsValidUsername(n) /\ IsValidEmail(e)
<1>1. CASE Arrive
  <2>1. PICK r \in Requests, n \in Usernames, e \in Emails :
              \/ SendVerificationCode(r, e)
              \/ \E m \in mails : Register(r, n, e, m[2])
              \/ \E formed \in BOOLEAN : RefuseForm(r, formed)
    BY <1>1 DEF Arrive
  <2>2. CASE SendVerificationCode(r, e)
    BY <2>2 DEF SendVerificationCode, Go, RegisterSteps, TypeOK, CallsOK
  <2>3. CASE \E m \in mails : Register(r, n, e, m[2])
    <3>1. PICK m \in mails : Register(r, n, e, m[2])
      BY <2>3
    <3>2. q # r => pc[q] \in RegisterSteps
      BY <3>1 DEF Register, Go, TypeOK, CallsOK
    <3>3. q = r => codes[e] = m[2]
      BY <3>1 DEF Register, Go, RegisterSteps, TypeOK, CallsOK
    <3>4. q = r => form'[q] = [username |-> n, email |-> e, code |-> m[2]]
      BY <3>1 DEF Register, TypeOK, CallsOK
    <3>5. IsValidUsername(n) /\ IsValidEmail(e)
      BY <3>1 DEF Register
    <3>6. QED  BY <3>2, <3>3, <3>4, <3>5
  <2>4. CASE \E formed \in BOOLEAN : RefuseForm(r, formed)
    BY <2>4 DEF RefuseForm, Go, RegisterSteps, TypeOK, CallsOK
  <2>5. QED  BY <2>1, <2>2, <2>3, <2>4
<1>2. CASE Crash
  BY <1>2 DEF Crash, RegisterSteps, TypeOK, CallsOK
<1>3. CASE WarmUp \/ Expire \/ Delete \/ UNCHANGED vars
  BY <1>3 DEF WarmUp, FetchPage, TakePage, AddPage, Expire, ExpireRateKey, ExpireCode, Delete,
         SoftDelete, vars
<1>4. ASSUME NEW r \in Requests, Proceed(r)
      PROVE  pc[q] \in RegisterSteps
  BY <1>4 DEF Proceed, LimitRate, StoreCode, MailCode, UndoCode, ConsumeCode, FullCheck,
         BloomCheck, UsernameCheck, EmailCheck, Create, BloomAdd, Go, RegisterSteps, TypeOK, CallsOK
<1>5. QED  BY <1>1, <1>2, <1>3, <1>4, Steps

LEMMA NextCodes == TypeOK /\ CodeInv /\ [Next]_vars => CodeInv'
<1> SUFFICES ASSUME TypeOK, CodeInv, [Next]_vars PROVE CodeInv'
  OBVIOUS
<1>1. CodesOwned'
  <2> SUFFICES ASSUME NEW e \in Emails, codes'[e] # NoCode
               PROVE  IF codes'[e] = Earlier THEN <<e, Earlier>> \in mails'
                      ELSE pc'[codes'[e]] # Idle /\ form'[codes'[e]].email = e
    BY DEF CodesOwned
  <2>1. CASE codes'[e] # codes[e]
    BY <2>1, CodesMove, FormsStay, CodesAssumption
  <2>2. CASE codes'[e] = codes[e]
    <3>1. codes[e] \in Requests \cup {Earlier}
      BY <2>2 DEF TypeOK, StoresOK
    <3>2. QED  BY <2>2, <3>1, FormsStay, MailsGrow DEF CodeInv, CodesOwned
  <2>3. QED  BY <2>1, <2>2
<1>2. MailsOwned'
  <2> SUFFICES ASSUME NEW m \in mails', m[2] \in Requests
               PROVE  pc'[m[2]] # Idle /\ form'[m[2]].email = m[1]
    BY DEF MailsOwned
  <2>1. pc[m[2]] # Idle /\ form[m[2]].email = m[1]
    BY MailsMove DEF CodeInv, MailsOwned
  <2>2. QED  BY <2>1, FormsStay
<1>3. ASSUME NEW q \in Requests, pc'[q] \in RegisterSteps
      PROVE  Proven(q)'
  <2>1. CASE pc[q] \in RegisterSteps
    <3>1. form'[q] = form[q]
      BY <2>1, FormsStay DEF RegisterSteps, Idle
    <3>2. QED  BY <2>1, <3>1, MailsGrow DEF CodeInv, Proven
  <2>2. CASE pc[q] \notin RegisterSteps
    <3>1. PICK e \in Emails, n \in Usernames, m \in mails :
               /\ form'[q] = [username |-> n, email |-> e, code |-> m[2]]
               /\ codes[e] = m[2]
      BY <1>3, <2>2, RegisterMoves
    <3>2. m \in Emails \X (Requests \cup {Earlier})
      BY DEF TypeOK, StoresOK
    <3>3. m = <<m[1], m[2]>> /\ m[2] \in Requests \cup {Earlier}
      BY <3>2
    <3>4. <<e, m[2]>> \in mails
      <4>1. CASE m[2] = Earlier
        BY <3>1, <4>1, CodesAssumption DEF CodeInv, CodesOwned
      <4>2. CASE m[2] \in Requests
        <5>1. form[m[2]].email = m[1]
          BY <4>2 DEF CodeInv, MailsOwned
        <5>2. form[m[2]].email = e
          BY <3>1, <4>2, CodesAssumption DEF CodeInv, CodesOwned
        <5>3. QED  BY <3>3, <5>1, <5>2
      <4>3. QED  BY <3>3, <4>1, <4>2
    <3>5. QED  BY <3>1, <3>4, MailsGrow DEF Proven
  <2>3. QED  BY <2>1, <2>2
<1>4. QED  BY <1>1, <1>2, <1>3 DEF CodeInv

\* Only the step that stores a code puts it under its address, and each call has one.
LEMMA SpentStep ==
  ASSUME TypeOK, [Next]_vars, NEW e \in Emails, NEW c \in Requests \cup {Earlier},
         Issued(c), codes[e] # c
  PROVE  codes'[e] # c
<1> SUFFICES ASSUME codes'[e] = c PROVE FALSE
  OBVIOUS
<1>1. c \in Requests /\ pc[c] = "store"
  BY CodesMove, CodesAssumption
<1>2. QED  BY <1>1, CodesAssumption DEF Issued

LEMMA IssuedStays == ASSUME TypeOK, [Next]_vars, NEW c, Issued(c) PROVE Issued(c)'
<1> SUFFICES ASSUME c \in Requests, pc[c] \notin {Idle, "rate", "store"}
             PROVE  pc'[c] \notin {Idle, "rate", "store"}
  BY DEF Issued
<1>1. CASE Arrive
  <2>1. PICK r \in Requests, n \in Usernames, e \in Emails :
              \/ SendVerificationCode(r, e)
              \/ \E m \in mails : Register(r, n, e, m[2])
              \/ \E formed \in BOOLEAN : RefuseForm(r, formed)
    BY <1>1 DEF Arrive
  <2>2. pc[r] = Idle /\ \A q \in Requests \ {r} : pc'[q] = pc[q]
    BY <2>1 DEF SendVerificationCode, Register, RefuseForm, Go, TypeOK, CallsOK
  <2>3. QED  BY <2>2
<1>2. CASE Crash
  BY <1>2 DEF Crash, Idle, TypeOK, CallsOK
<1>3. CASE WarmUp \/ Expire \/ Delete \/ UNCHANGED vars
  BY <1>3 DEF WarmUp, FetchPage, TakePage, AddPage, Expire, ExpireRateKey, ExpireCode, Delete,
         SoftDelete, vars
<1>4. ASSUME NEW r \in Requests, Proceed(r)
      PROVE  pc'[c] \notin {Idle, "rate", "store"}
  BY <1>4 DEF Proceed, LimitRate, StoreCode, MailCode, UndoCode, ConsumeCode, FullCheck,
         BloomCheck, UsernameCheck, EmailCheck, Create, BloomAdd, Go, Idle, TypeOK, CallsOK
<1>5. QED  BY <1>1, <1>2, <1>3, <1>4, Steps

\* No code that was used, replaced, undone or has expired comes back for its address.
THEOREM SpentCodesCorrect == Spec => SpentCodesStaySpent
<1> DEFINE StaySpent == \A e \in Emails, c \in Requests \cup {Earlier} :
                          Issued(c) /\ codes[e] # c => codes'[e] # c
<1>1. TypeOK /\ [Next]_vars => [StaySpent]_vars
  BY SpentStep
<1>2. QED  BY <1>1, TypeCorrect, PTL DEF Spec, SpentCodesStaySpent

\* The same over a whole behaviour: once a code that was issued is not the one its
\* address is asked for, it never is, so that no call of Register that begins from then
\* on gets past the comparison with it (user_service.go:192-202). This is what holds in
\* place of the statement that a call deletes the code it is about and no other.
THEOREM SpentForGood ==
  ASSUME NEW e \in Emails, NEW c \in Requests \cup {Earlier}
  PROVE  Spec => [](Issued(c) /\ codes[e] # c => [](codes[e] # c))
<1>1. TypeOK /\ [Next]_vars /\ Issued(c) /\ codes[e] # c => (Issued(c) /\ codes[e] # c)'
  BY SpentStep, IssuedStays
<1>2. Issued(c) /\ codes[e] # c => codes[e] # c
  OBVIOUS
<1>3. QED  BY <1>1, <1>2, TypeCorrect, PTL DEF Spec


-----------------------------------------------------------------------------
(* The table: what each row owes to the request that inserted it.           *)

Row(r) == [by |-> r, username |-> form[r].username, email |-> form[r].email]
Inserts(r) == /\ Create(r) /\ users' = Append(users, Row(r))
              /\ Insertable(form[r].username, form[r].email)
              /\ pc'[r] \in {"bloomAdd", "refused"}

Done == {"bloomAdd", "registered", "refused"}
Keyed == \A i, j \in DOMAIN users :
             users[i].username = users[j].username \/ users[i].email = users[j].email => i = j
WellFormed(a) == IsValidUsername(a.username) /\ IsValidEmail(a.email)
Opened(a) == a.by \in Requests => /\ pc[a.by] \in Done
                                  /\ a = Row(a.by)
                                  /\ Proven(a.by)
Backed(r) == \E i \in DOMAIN users : users[i].by = r
TableInv == /\ Keyed
            /\ \A i \in DOMAIN users : WellFormed(users[i]) /\ Opened(users[i])
            /\ \A r \in Requests : /\ pc[r] \in RegisterSteps => WellFormed(form[r])
                                   /\ pc[r] \in {"bloomAdd", "registered"} => Backed(r)

LEMMA InitTable == Init => TableInv
<1> SUFFICES ASSUME Init PROVE TableInv
  OBVIOUS
<1>1. Keyed
  BY OldAccountsAssumption DEF Init, Keyed
<1>2. \A i \in DOMAIN users : WellFormed(users[i]) /\ Opened(users[i])
  BY OldAccountsAssumption, CodesAssumption DEF Init, WellFormed, Opened
<1>3. QED  BY <1>1, <1>2 DEF Init, TableInv, RegisterSteps, Idle

\* The table is as it was, or one request has appended its row.
LEMMA TableMoves ==
  ASSUME TypeOK, [Next]_vars
  PROVE  users' = users \/ \E r \in Requests : Inserts(r)
<1>1. Arrive \/ WarmUp \/ Expire \/ Delete \/ Crash \/ UNCHANGED vars => users' = users
  BY DEF Arrive, SendVerificationCode, Register, RefuseForm, WarmUp, FetchPage, TakePage, AddPage,
         Expire, ExpireRateKey, ExpireCode, Delete, SoftDelete, Crash, vars
<1>2. ASSUME NEW r \in Requests, Proceed(r)
      PROVE  users' = users \/ Create(r)
  BY <1>2 DEF Proceed, LimitRate, StoreCode, MailCode, UndoCode, ConsumeCode, FullCheck,
         BloomCheck, UsernameCheck, EmailCheck, BloomAdd
<1>3. ASSUME NEW r \in Requests, Create(r), users' # users
      PROVE  Inserts(r)
  BY <1>3 DEF Create, Inserts, Row, Go, TypeOK, CallsOK
<1>4. QED  BY <1>1, <1>2, <1>3, Steps

\* A request that has done with the table, or was refused, stays so.
LEMMA DoneStays ==
  ASSUME TypeOK, [Next]_vars, NEW q \in Requests, pc[q] \in Done
  PROVE  pc'[q] \in Done
<1>1. CASE Arrive
  <2>1. PICK r \in Requests, n \in Usernames, e \in Emails :
              \/ SendVerificationCode(r, e)
              \/ \E m \in mails : Register(r, n, e, m[2])
              \/ \E formed \in BOOLEAN : RefuseForm(r, formed)
    BY <1>1 DEF Arrive
  <2>2. QED
    BY <2>1 DEF SendVerificationCode, Register, RefuseForm, Go, Done, Idle, TypeOK, CallsOK
<1>2. CASE Crash
  BY <1>2 DEF Crash, Done, TypeOK, CallsOK
<1>3. CASE WarmUp \/ Expire \/ Delete \/ UNCHANGED vars
  BY <1>3 DEF WarmUp, FetchPage, TakePage, AddPage, Expire, ExpireRateKey, ExpireCode, Delete,
         SoftDelete, vars
<1>4. ASSUME NEW r \in Requests, Proceed(r)
      PROVE  pc'[q] \in Done
  BY <1>4 DEF Proceed, LimitRate, StoreCode, MailCode, UndoCode, ConsumeCode, FullCheck,
         BloomCheck, UsernameCheck, EmailCheck, Create, BloomAdd, Go, Done, TypeOK, CallsOK
<1>5. QED  BY <1>1, <1>2, <1>3, <1>4, Steps

\* Success is on its way only for a request that has just inserted, or was on
\* its way before.
LEMMA SuccessMoves ==
  ASSUME TypeOK, [Next]_vars, NEW q \in Requests, pc'[q] \in {"bloomAdd", "registered"}
  PROVE  pc[q] \in {"bloomAdd", "registered"} \/ Inserts(q)
<1>1. CASE Arrive
  <2>1. PICK r \in Requests, n \in Usernames, e \in Emails :
              \/ SendVerificationCode(r, e)
              \/ \E m \in mails : Register(r, n, e, m[2])
              \/ \E formed \in BOOLEAN : RefuseForm(r, formed)
    BY <1>1 DEF Arrive
  <2>2. QED  BY <2>1 DEF SendVerificationCode, Register, RefuseForm, Go, TypeOK, CallsOK
<1>2. CASE Crash
  BY <1>2 DEF Crash, TypeOK, CallsOK
<1>3. CASE WarmUp \/ Expire \/ Delete \/ UNCHANGED vars
  BY <1>3 DEF WarmUp, FetchPage, TakePage, AddPage, Expire, ExpireRateKey, ExpireCode, Delete,
         SoftDelete, vars
<1>4. ASSUME NEW r \in Requests, Proceed(r)
      PROVE  pc[q] \in {"bloomAdd", "registered"} \/ Inserts(q)
  <2>1. CASE Create(r)
    BY <1>4, <2>1 DEF Create, Inserts, Row, Go, TypeOK, CallsOK
  <2>2. CASE ~Create(r)
    BY <1>4, <2>2 DEF Proceed, LimitRate, StoreCode, MailCode, UndoCode, ConsumeCode, FullCheck,
         BloomCheck, UsernameCheck, EmailCheck, BloomAdd, Go, TypeOK, CallsOK
  <2>3. QED  BY <2>1, <2>2
<1>5. QED  BY <1>1, <1>2, <1>3, <1>4, Steps

\* The rows there were are the rows there are, but for the last one.
LEMMA AppendRow ==
  ASSUME TableOK, CallsOK, NEW r \in Requests, Inserts(r)
  PROVE  /\ DOMAIN users' = DOMAIN users \cup {Len(users) + 1}
         /\ users'[Len(users) + 1] = Row(r)
         /\ \A i \in DOMAIN users : users'[i] = users[i]
         /\ Len(users) + 1 \notin DOMAIN users /\ Len(users) \in Nat
<1>1. Row(r) \in Account
  BY DEF CallsOK, Forms, Account, Row
<1>2. QED  BY <1>1 DEF Inserts, TableOK

LEMMA NextTableInv == TypeOK /\ CodeInv /\ TableInv /\ [Next]_vars => TableInv'
<1> SUFFICES ASSUME TypeOK, CodeInv, TableInv, [Next]_vars PROVE TableInv'
  OBVIOUS
<1> USE DEF TypeOK
<1>1. Keyed'
  <2>1. CASE users' = users
    BY <2>1 DEF TableInv, Keyed
  <2>2. ASSUME NEW r \in Requests, Inserts(r) PROVE Keyed'
    <3>1. \A i \in DOMAIN users : /\ users[i].username # Row(r).username
                                  /\ users[i].email # Row(r).email
      BY <2>2 DEF Inserts, Insertable, Row
    <3>2. QED  BY <2>2, <3>1, AppendRow DEF TableInv, Keyed
  <2>3. QED  BY <2>1, <2>2, TableMoves
<1>2. ASSUME NEW a, WellFormed(a), Opened(a) PROVE WellFormed(a)' /\ Opened(a)'
  <2>1. WellFormed(a)'
    BY <1>2 DEF WellFormed
  <2>2. ASSUME a.by \in Requests
        PROVE  pc'[a.by] \in Done /\ a = Row(a.by)' /\ Proven(a.by)'
    <3>1. pc[a.by] \in Done /\ a = Row(a.by) /\ Proven(a.by)
      BY <1>2, <2>2 DEF Opened
    <3>2. form'[a.by] = form[a.by]
      BY <2>2, <3>1, FormsStay DEF Done, Idle
    <3>3. Row(a.by)' = Row(a.by) /\ Proven(a.by)'
      BY <3>1, <3>2, MailsGrow DEF Row, Proven
    <3>4. QED  BY <2>2, <3>1, <3>3, DoneStays
  <2>3. QED  BY <2>1, <2>2 DEF Opened
<1>3. ASSUME NEW i \in DOMAIN users' PROVE WellFormed(users[i])' /\ Opened(users[i])'
  <2>1. CASE users' = users
    <3>1. WellFormed(users[i]) /\ Opened(users[i])
      BY <2>1 DEF TableInv
    <3>2. QED  BY <2>1, <3>1, <1>2 DEF WellFormed, Opened
  <2>2. ASSUME NEW r \in Requests, Inserts(r)
        PROVE  WellFormed(users[i])' /\ Opened(users[i])'
    <3>1. CASE i \in DOMAIN users
      <4>1. WellFormed(users[i]) /\ Opened(users[i]) /\ users'[i] = users[i]
        BY <2>2, <3>1, AppendRow DEF TableInv
      <4>2. QED  BY <4>1, <1>2 DEF WellFormed, Opened
    <3>2. CASE i = Len(users) + 1
      <4>1. users'[i] = Row(r)
        BY <2>2, <3>2, AppendRow
      <4>2. pc[r] \in RegisterSteps /\ form'[r] = form[r] /\ pc'[r] \in Done
        BY <2>2 DEF Inserts, Create, RegisterSteps, Done
      <4>3. WellFormed(Row(r)) /\ Proven(r)
        BY <4>2 DEF TableInv, CodeInv, WellFormed, Row
      <4>4. Row(r).by = r /\ Row(r)' = Row(r) /\ Proven(r)'
        BY <4>2, <4>3, MailsGrow DEF Row, Proven
      <4>5. QED  BY <4>1, <4>2, <4>3, <4>4 DEF WellFormed, Opened
    <3>3. QED  BY <2>2, <3>1, <3>2, AppendRow
  <2>3. QED  BY <2>1, <2>2, TableMoves
<1>4. ASSUME NEW q \in Requests, pc'[q] \in RegisterSteps PROVE WellFormed(form[q])'
  <2>1. CASE pc[q] \in RegisterSteps
    BY <2>1, FormsStay DEF TableInv, WellFormed, RegisterSteps, Idle
  <2>2. CASE pc[q] \notin RegisterSteps
    <3>1. PICK e \in Emails, n \in Usernames, m \in mails :
               /\ form'[q] = [username |-> n, email |-> e, code |-> m[2]]
               /\ IsValidUsername(n) /\ IsValidEmail(e)
      BY <1>4, <2>2, RegisterMoves
    <3>2. form'[q].username = n /\ form'[q].email = e
      BY <3>1
    <3>3. QED  BY <3>1, <3>2 DEF WellFormed
  <2>3. QED  BY <2>1, <2>2
<1>5. ASSUME NEW q \in Requests, pc'[q] \in {"bloomAdd", "registered"} PROVE Backed(q)'
  <2>1. CASE Inserts(q)
    <3>1. Row(q).by = q
      BY DEF Row
    <3>2. QED  BY <2>1, <3>1, AppendRow DEF Backed
  <2>2. CASE pc[q] \in {"bloomAdd", "registered"}
    <3>1. PICK i \in DOMAIN users : users[i].by = q
      BY <2>2 DEF TableInv, Backed
    <3>2. i \in DOMAIN users' /\ users'[i] = users[i]
      BY TableMoves, AppendRow
    <3>3. QED  BY <3>1, <3>2 DEF Backed
  <2>3. QED  BY <1>5, <2>1, <2>2, SuccessMoves
<1>6. QED  BY <1>1, <1>3, <1>4, <1>5 DEF TableInv


LEMMA TableCorrect == Spec => [](TypeOK /\ CodeInv /\ TableInv)
<1>1. Init => TypeOK /\ CodeInv /\ TableInv
  BY InitTypes, InitCodes, InitTable
<1>2. TypeOK /\ CodeInv /\ TableInv /\ [Next]_vars => (TypeOK /\ CodeInv /\ TableInv)'
  BY NextTypes, NextCodes, NextTableInv
<1>3. QED  BY <1>1, <1>2, PTL DEF Spec

-----------------------------------------------------------------------------
(* What follows from the table's invariant alone.                           *)

LEMMA OneAccountPerCode == CodeInv /\ TableInv => CodeOpensOneAccount
<1> SUFFICES ASSUME CodeInv, TableInv, NEW i \in DOMAIN users, users[i].by \in Requests
             PROVE  /\ <<users[i].email, form[users[i].by].code>> \in mails
                    /\ \A j \in DOMAIN users \ {i} : users[j].email # users[i].email
  BY DEF CodeOpensOneAccount
<1>1. <<users[i].email, form[users[i].by].code>> \in mails
  <2>1. users[i] = Row(users[i].by) /\ Proven(users[i].by)
    BY DEF TableInv, Opened
  <2>2. users[i].email = form[users[i].by].email
    BY <2>1 DEF Row
  <2>3. QED  BY <2>1, <2>2 DEF Proven
<1>2. QED  BY <1>1 DEF TableInv, Keyed

\* An account opens only for a mailbox that received the code its request carries,
\* and no mailed code opens two, however the checks, the deletions of codes and the
\* INSERTs of any number of requests overlap, and whatever fails.
THEOREM CodeCorrect == Spec => []CodeOpensOneAccount
  BY TableCorrect, OneAccountPerCode, PTL

LEMMA RowStays ==
  ASSUME TypeOK, [Next]_vars, NEW i \in DOMAIN users
  PROVE  i \in DOMAIN users' /\ users'[i] = users[i]
  BY TableMoves, AppendRow DEF TypeOK

\* A user name or an address that has once opened an account never opens another,
\* although the checks before the INSERT see only the accounts that are not deleted: a
\* deletion gives neither of them back.
\* (internal/model/user.go:13-14, internal/service/user_service.go:237-247)
THEOREM NamesStayTaken ==
  ASSUME NEW i, NEW a
  PROVE  Spec => [](i \in DOMAIN users /\ users[i] = a
                      => [](\A j \in DOMAIN users \ {i} :
                               users[j].username # a.username /\ users[j].email # a.email))
<1>1. TypeOK /\ [Next]_vars /\ i \in DOMAIN users /\ users[i] = a
        => (i \in DOMAIN users /\ users[i] = a)'
  BY RowStays
<1>2. TypeOK /\ CodeInv /\ TableInv
        => (i \in DOMAIN users /\ users[i] = a
              => \A j \in DOMAIN users \ {i} :
                    users[j].username # a.username /\ users[j].email # a.email)
  BY DEF TableInv, Keyed
<1>3. QED  BY <1>1, <1>2, TypeCorrect, TableCorrect, PTL DEF Spec

\* No text is both a user name and an email address.
LEMMA FormatsDiffer ==
  ASSUME NEW text \in Usernames \cup Emails, IsValidUsername(text)
  PROVE  ~IsValidEmail(text)
<1> SUFFICES ASSUME NEW p \in 2 .. Len(text) - 1, \A q \in DOMAIN text : text[q] = At <=> q = p
             PROVE  FALSE
  BY DEF IsValidEmail
<1>1. DOMAIN text = 1 .. Len(text)
  BY TextsAssumption
<1>2. Len(text) \in Nat
  BY LimitsAssumption DEF IsValidUsername
<1>3. p \in DOMAIN text
  BY <1>1, <1>2
<1>4. At \in ToSet(text)
  BY <1>3 DEF ToSet
<1>5. QED  BY <1>4, AtAssumption DEF IsValidUsername

LEMMA OneRowPerText == TypeOK /\ TableInv => LoginFindsOneRow
<1> SUFFICES ASSUME TypeOK, TableInv, NEW text \in Usernames \cup Emails
             PROVE  Cardinality(Found(text)) <= 1
  BY DEF LoginFindsOneRow
<1>1. ASSUME NEW a \in Found(text), NEW b \in Found(text) PROVE a = b
  <2>1. PICK i \in DOMAIN users : a = users[i]
    BY DEF Found, Live
  <2>2. PICK j \in DOMAIN users : b = users[j]
    BY DEF Found, Live
  <2>3. WellFormed(a) /\ WellFormed(b)
    BY <2>1, <2>2 DEF TableInv
  <2>4. /\ a.username = text \/ a.email = text
        /\ b.username = text \/ b.email = text
    BY DEF Found
  <2>5. a.username = b.username \/ a.email = b.email
    BY <2>3, <2>4, FormatsDiffer DEF WellFormed
  <2>6. QED  BY <2>1, <2>2, <2>5 DEF TableInv, Keyed
<1>2. CASE Found(text) = {}
  BY <1>2, FS_EmptySet
<1>3. CASE Found(text) # {}
  <2>1. PICK a \in Found(text) : TRUE
    BY <1>3
  <2>2. Found(text) = {a}
    BY <1>1, <2>1
  <2>3. Cardinality({a}) = 1
    BY FS_Singleton
  <2>4. QED  BY <2>2, <2>3
<1>4. QED  BY <1>2, <1>3

\* The text a user logs in with finds one row at most, for any accepted user names
\* and addresses: the unique indexes and the two formats see to it together.
THEOREM LoginCorrect == Spec => []LoginFindsOneRow
<1>1. TypeOK /\ CodeInv /\ TableInv => LoginFindsOneRow
  BY OneRowPerText
<1>2. QED  BY TableCorrect, <1>1, PTL

-----------------------------------------------------------------------------
(* Registration implements AccountDirectory.                                *)

\* The requests that a step refuses.
Refused == {q \in Requests : pc[q] \notin {"registered", "refused"} /\ pc'[q] = "refused"}

\* An answer stands, and success is answered by BloomAdd only.
LEMMA AnswersStand ==
  ASSUME TypeOK, [Next]_vars, NEW q \in Requests
  PROVE  /\ pc[q] \in {"registered", "refused"} => pc'[q] = pc[q]
         /\ pc'[q] = "registered" => pc[q] = "registered" \/ BloomAdd(q)
<1>1. CASE Arrive
  <2>1. PICK r \in Requests, n \in Usernames, e \in Emails :
              \/ SendVerificationCode(r, e)
              \/ \E m \in mails : Register(r, n, e, m[2])
              \/ \E formed \in BOOLEAN : RefuseForm(r, formed)
    BY <1>1 DEF Arrive
  <2>2. QED  BY <2>1 DEF SendVerificationCode, Register, RefuseForm, Go, Idle, TypeOK, CallsOK
<1>2. CASE Crash
  BY <1>2 DEF Crash, RegisterSteps, SendSteps, TypeOK, CallsOK
<1>3. CASE WarmUp \/ Expire \/ Delete \/ UNCHANGED vars
  BY <1>3 DEF WarmUp, FetchPage, TakePage, AddPage, Expire, ExpireRateKey, ExpireCode, Delete,
         SoftDelete, vars
<1>4. ASSUME NEW r \in Requests, Proceed(r)
      PROVE  /\ pc[q] \in {"registered", "refused"} => pc'[q] = pc[q]
             /\ pc'[q] = "registered" => pc[q] = "registered" \/ BloomAdd(q)
  <2>1. CASE BloomAdd(r)
    BY <2>1 DEF BloomAdd, Go, TypeOK, CallsOK
  <2>2. CASE ~BloomAdd(r)
    BY <1>4, <2>2 DEF Proceed, LimitRate, StoreCode, MailCode, UndoCode, ConsumeCode, FullCheck,
           BloomCheck, UsernameCheck, EmailCheck, Create, Go, TypeOK, CallsOK
  <2>3. QED  BY <2>1, <2>2
<1>5. QED  BY <1>1, <1>2, <1>3, <1>4, Steps

LEMMA InitImplements == Init => D!Init
<1> SUFFICES ASSUME Init PROVE D!Init
  OBVIOUS
<1>1. DirectoryAnswer = [r \in Requests |-> "none"]
  BY DEF Init, DirectoryAnswer, Idle
<1>2. \A a, b \in ToSet(users) : a.username = b.username \/ a.email = b.email => a = b
  BY OldAccountsAssumption DEF Init, ToSet
<1>3. \A a \in ToSet(users) : a.by \notin Requests
  BY OldAccountsAssumption, CodesAssumption DEF Init, ToSet
<1>4. QED  BY <1>1, <1>2, <1>3 DEF D!Init

\* The INSERT is Open: the index sees every row, and the request has none yet.
LEMMA InsertIsOpen ==
  ASSUME TypeOK, TableInv, NEW r \in Requests, Inserts(r)
  PROVE  D!Open(r, form[r].username, form[r].email)
<1>1. pc[r] = "create" /\ pc' = [pc EXCEPT ![r] = pc'[r]] /\ pc'[r] \in {"bloomAdd", "refused"}
  BY DEF Inserts, Create, Go, TypeOK, CallsOK
<1>2. DirectoryAnswer[r] = "none"
  BY <1>1 DEF DirectoryAnswer
<1>3. \A a \in ToSet(users) : a.by # r
  BY <1>1 DEF TableInv, Opened, Done, ToSet
<1>4. D!Unused(form[r].username, form[r].email)
  BY DEF Inserts, Insertable, D!Unused, ToSet
<1>5. ToSet(users)' = ToSet(users) \cup {Row(r)}
  BY AppendRow DEF TypeOK, ToSet
<1>6. \A q \in Requests \ {r} : DirectoryAnswer'[q] = DirectoryAnswer[q]
  BY <1>1 DEF DirectoryAnswer, TypeOK, CallsOK
<1>7. DirectoryAnswer'[r] = IF pc'[r] = "refused" THEN "refused" ELSE "none"
  BY <1>1 DEF DirectoryAnswer
<1>8. DirectoryAnswer' \in {DirectoryAnswer, [DirectoryAnswer EXCEPT ![r] = "refused"]}
  <2>1. CASE pc'[r] = "refused"
    BY <2>1, <1>6, <1>7 DEF DirectoryAnswer
  <2>2. CASE pc'[r] # "refused"
    BY <2>2, <1>2, <1>6, <1>7 DEF DirectoryAnswer
  <2>3. QED  BY <2>1, <2>2
<1>9. QED  BY <1>2, <1>3, <1>4, <1>5, <1>8 DEF D!Open, Row

\* BloomAdd, after which success is answered, is Confirm.
LEMMA BloomAddIsConfirm ==
  ASSUME TypeOK, TableInv, NEW r \in Requests, BloomAdd(r)
  PROVE  D!Confirm(r)
<1>1. pc[r] = "bloomAdd" /\ pc' = [pc EXCEPT ![r] = "registered"] /\ users' = users
  BY DEF BloomAdd, Go
<1>2. DirectoryAnswer[r] = "none"
  BY <1>1 DEF DirectoryAnswer
<1>3. \E a \in ToSet(users) : a.by = r
  BY <1>1 DEF TableInv, Backed, ToSet
<1>4. DirectoryAnswer' = [DirectoryAnswer EXCEPT ![r] = "ok"]
  BY <1>1 DEF DirectoryAnswer, TypeOK, CallsOK
<1>5. QED  BY <1>1, <1>2, <1>3, <1>4 DEF D!Confirm

\* Every other step refuses the requests that get their refusal in it, if any.
LEMMA OthersRefuse ==
  ASSUME TypeOK, [Next]_vars, users' = users, \A r \in Requests : ~BloomAdd(r)
  PROVE  D!Refuse(Refused)
<1>1. \A q \in Refused : DirectoryAnswer[q] = "none"
  BY DEF Refused, DirectoryAnswer
<1>2. DirectoryAnswer' = [q \in Requests |-> IF q \in Refused THEN "refused" ELSE DirectoryAnswer[q]]
  <2>1. ASSUME NEW q \in Requests
        PROVE  DirectoryAnswer'[q] = IF q \in Refused THEN "refused" ELSE DirectoryAnswer[q]
    BY AnswersStand DEF Refused, DirectoryAnswer
  <2>2. QED  BY <2>1 DEF DirectoryAnswer
<1>3. QED  BY <1>1, <1>2 DEF D!Refuse

LEMMA NextImplements == TypeOK /\ TableInv /\ [Next]_vars => [D!Next]_(D!vars)
<1> SUFFICES ASSUME TypeOK, TableInv, [Next]_vars PROVE D!Next
  OBVIOUS
<1>1. ASSUME NEW r \in Requests, Inserts(r) PROVE D!Next
  <2>1. form[r].username \in Usernames /\ form[r].email \in Emails
    BY DEF TypeOK, CallsOK, Forms
  <2>2. QED  BY <1>1, <2>1, InsertIsOpen DEF D!Next
<1>2. ASSUME NEW r \in Requests, BloomAdd(r) PROVE D!Next
  BY <1>2, BloomAddIsConfirm DEF D!Next
<1>3. CASE users' = users /\ \A r \in Requests : ~BloomAdd(r)
  <2>1. Refused \in SUBSET Requests
    BY DEF Refused
  <2>2. QED  BY <1>3, <2>1, OthersRefuse DEF D!Next
<1>4. QED  BY <1>1, <1>2, <1>3, TableMoves

\* One account at most per user name and per email, for ever, and success only for
\* an account that is there, for any number of requests that pass every check at
\* once: Registration implements AccountDirectory.
THEOREM ImplementsDirectory == Spec => DirectorySpec
<1>1. Init => D!Init
  BY InitImplements
<1>2. (TypeOK /\ CodeInv /\ TableInv) /\ [Next]_vars => [D!Next]_(D!vars)
  BY NextImplements
<1>3. QED  BY <1>1, <1>2, TableCorrect, PTL DEF Spec, DirectorySpec, D!Spec


-----------------------------------------------------------------------------
(* The rate of the mails.                                                   *)

RateBound == \A e \in Emails : admitted[e] <= 1 /\ (e \notin rateKeys => admitted[e] = 0)

LEMMA NextRate ==
  ASSUME TypeOK, RateBound, [Next]_vars
  PROVE  RateBound'
<1>1. ASSUME NEW r \in Requests, LimitRate(r) PROVE RateBound'
  <2> DEFINE e == form[r].email
  <2>1. e \in Emails
    BY DEF TypeOK, CallsOK, Forms
  <2>2. CASE e \notin rateKeys /\ admitted' = [admitted EXCEPT ![e] = @ + 1]
                               /\ rateKeys' = rateKeys \cup {e}
    BY <2>1, <2>2 DEF RateBound, TypeOK, CallsOK
  <2>3. CASE admitted' = admitted /\ rateKeys' \in {rateKeys, rateKeys \cup {e}}
    BY <2>1, <2>3 DEF RateBound
  <2>4. QED  BY <1>1, <2>2, <2>3 DEF LimitRate, Applied, Confirmed
<1>2. CASE Expire
  BY <1>2 DEF Expire, ExpireRateKey, ExpireCode, RateBound, TypeOK, CallsOK
<1>3. CASE UNCHANGED <<rateKeys, admitted>>
  BY <1>3 DEF RateBound
<1>4. Arrive \/ WarmUp \/ Delete \/ Crash \/ UNCHANGED vars => UNCHANGED <<rateKeys, admitted>>
  BY DEF Arrive, SendVerificationCode, Register, RefuseForm, WarmUp, FetchPage, TakePage, AddPage,
         Delete, SoftDelete, Crash, vars, redis
<1>5. ASSUME NEW r \in Requests, Proceed(r)
      PROVE  LimitRate(r) \/ UNCHANGED <<rateKeys, admitted>>
  BY <1>5 DEF Proceed, StoreCode, MailCode, UndoCode, ConsumeCode, FullCheck, BloomCheck,
         UsernameCheck, EmailCheck, Create, BloomAdd, redis
<1>6. QED  BY <1>1, <1>2, <1>3, <1>4, <1>5, Steps

\* One send at most gets through on a rate key that Redis confirms to be new, per life of
\* the key, however many sends find the address free at the same time, and whatever else
\* Redis lets through by failing.
THEOREM RateCorrect == Spec => []OneSendPerWindow
<1>1. Init => RateBound
  BY DEF Init, RateBound
<1>2. TypeOK /\ RateBound /\ [Next]_vars => RateBound'
  BY NextRate
<1>3. RateBound => OneSendPerWindow
  BY DEF RateBound, OneSendPerWindow
<1>4. QED  BY <1>1, <1>2, <1>3, TypeCorrect, PTL DEF Spec

-----------------------------------------------------------------------------
(* The filter and its warm-up, whatever fails.                              *)

\* A page leaves out a row behind the cursor only if it is full, and then only
\* one behind the page.
LEMMA PageIsPrefix ==
  ASSUME TableOK, NEW after, NEW i \in DOMAIN users \ deleted, i > after, i \notin NextIds(after)
  PROVE  /\ Cardinality(NextIds(after)) = PageSize
         /\ \A j \in NextIds(after) : j < i
<1> DEFINE rest == {k \in DOMAIN users \ deleted : k > after}
           Upto(k) == {j \in rest : j <= k}
           ids == NextIds(after)
<1>1. ids = {k \in rest : Cardinality(Upto(k)) <= PageSize}
  BY DEF NextIds
<1>2. rest \in SUBSET DOMAIN users /\ ids \in SUBSET rest /\ i \in rest
  BY <1>1
<1>3. \A k : Upto(k) \in SUBSET rest
  OBVIOUS
<1> HIDE DEF rest
<1>4. rest \in SUBSET Nat
  BY <1>2, RestIsFinite
<1>5. \A S \in SUBSET rest : IsFiniteSet(S) /\ Cardinality(S) \in Nat
  BY <1>2, RestIsFinite
<1>6. PageSize \in Nat \ {0}
  BY BoundsAssumption
<1>7. ASSUME NEW k \in rest \ ids, NEW j \in ids PROVE j < k
  <2>1. ASSUME k <= j PROVE FALSE
    <3>1. Upto(k) \in SUBSET Upto(j)
      BY <2>1, <1>2, <1>4
    <3>2. Cardinality(Upto(k)) <= Cardinality(Upto(j))
      BY <1>3, <1>5, <3>1, FS_Subset
    <3>3. Cardinality(Upto(j)) <= PageSize /\ ~(Cardinality(Upto(k)) <= PageSize)
      BY <1>1
    <3>4. Cardinality(Upto(j)) \in Nat /\ Cardinality(Upto(k)) \in Nat
      BY <1>3, <1>5
    <3> HIDE DEF Upto
    <3>5. QED  BY <1>6, <3>2, <3>3, <3>4
  <2>2. j \in Nat /\ k \in Nat
    BY <1>2, <1>4
  <2>3. QED  BY <2>1, <2>2
<1>8. PICK m \in rest \ ids : \A k \in rest \ ids : m <= k
  <2>1. rest \ ids \in SUBSET Int /\ IsFiniteSet(rest \ ids) /\ rest \ ids # {}
    BY <1>2, <1>4, <1>5
  <2> HIDE DEF ids
  <2>2. QED  BY <2>1, Lowest
<1>9. Cardinality(ids) >= PageSize
  <2>1. Upto(m) = ids \cup {m}
    <3>1. ASSUME NEW j \in rest PROVE j <= m <=> j \in ids \cup {m}
      <4>1. j \in Nat /\ m \in Nat
        BY <1>4
      <4>2. j \in ids => j <= m
        BY <1>7, <4>1
      <4>3. j \notin ids /\ j <= m => j = m
        BY <1>8, <4>1
      <4>4. QED  BY <4>1, <4>2, <4>3
    <3>2. QED  BY <1>2, <3>1
  <2>2. Cardinality(ids \cup {m}) = Cardinality(ids) + 1
    <3>1. IsFiniteSet(ids) /\ m \notin ids
      BY <1>2, <1>5
    <3> HIDE DEF ids
    <3>2. QED  BY <3>1, FS_AddElement
  <2>3. ~(Cardinality(Upto(m)) <= PageSize)
    BY <1>1
  <2>4. Cardinality(ids) \in Nat
    BY <1>2, <1>5
  <2> HIDE DEF ids, Upto
  <2>5. QED  BY <1>6, <2>1, <2>2, <2>3, <2>4
<1>10. Cardinality(ids) <= PageSize
  <2>1. ids # {}
    BY <1>6, <1>9, FS_EmptySet
  <2>2. PICK x \in ids : \A j \in ids : x >= j
    <3>1. ids \in SUBSET Int /\ IsFiniteSet(ids)
      BY <1>2, <1>4, <1>5
    <3> HIDE DEF ids
    <3>2. QED  BY <2>1, <3>1, Highest
  <2>3. ids \in SUBSET Upto(x)
    BY <1>2, <2>2, <1>4
  <2>4. Cardinality(ids) <= Cardinality(Upto(x))
    <3>1. IsFiniteSet(Upto(x))
      BY <1>3, <1>5
    <3> HIDE DEF ids, Upto
    <3>2. QED  BY <2>3, <3>1, FS_Subset
  <2>5. Cardinality(Upto(x)) <= PageSize
    BY <1>1
  <2>6. Cardinality(ids) \in Nat /\ Cardinality(Upto(x)) \in Nat
    BY <1>2, <1>3, <1>5
  <2> HIDE DEF ids, Upto
  <2>7. QED  BY <1>6, <2>4, <2>5, <2>6
<1>11. Cardinality(ids) \in Nat
  BY <1>2, <1>5
<1>12. \A j \in ids : j < i
  BY <1>2, <1>7
<1> HIDE DEF ids
<1>13. Cardinality(ids) = PageSize
  BY <1>6, <1>9, <1>10, <1>11
<1>14. QED  BY <1>12, <1>13 DEF ids


\* A row whose name is in the filter, or about to be, or need not be.
Covered(i) == \/ i \in deleted
              \/ users[i].username \in bloom
              \/ users[i].by \in lapses
              \/ \E r \in Requests : pc[r] = "bloomAdd" /\ users[i].by = r

\* A row that the warm-up comes to by way of the page it is fetching or adding.
Coming(i) == \/ future.state = "submitted" /\ i > future.after
             \/ /\ future.state = "fetched"
                /\ \/ users[i].username \in future.names
                   \/ future.size = PageSize /\ i > future.nextID
             \/ page.state = "fetched" /\ users[i].username \in page.names

\* Where the loop may be while it has not failed: it ends with a page that is not full.
LoopInv == TheWarmUp \notin lapses =>
           /\ future.state # "broken"
           /\ future.state = "fetched" /\ future.size = 0 => future.names = {}
           /\ page.state = "fetched" /\ page.size # PageSize => future.state = "none"

CoverInv == TheWarmUp \notin lapses =>
                \A i \in DOMAIN users : Covered(i) \/ (~bfReady /\ Coming(i))

LEMMA InitCover == Init => LoopInv /\ CoverInv
<1> SUFFICES ASSUME Init PROVE LoopInv /\ CoverInv
  OBVIOUS
<1>1. \A i \in DOMAIN users : i \in Nat \ {0}
  BY OldAccountsAssumption DEF Init
<1>2. QED  BY <1>1 DEF Init, LoopInv, CoverInv, Coming, Submitted, NoFuture

\* What a page holds of the rows behind its cursor.
LEMMA PageCovers ==
  ASSUME TableOK, NEW after
  PROVE  LET p == PageAfter(after)
         IN  /\ p.state = "fetched"
             /\ p.size = 0 => p.names = {}
             /\ \A i \in DOMAIN users \ deleted :
                  i > after => \/ users[i].username \in p.names
                               \/ p.size = PageSize /\ i > p.nextID
<1> DEFINE ids == NextIds(after)
           p == PageAfter(after)
<1>1. ids \in SUBSET DOMAIN users
  BY DEF NextIds
<1>2. ids \in SUBSET Nat /\ IsFiniteSet(ids)
  BY <1>1, RestIsFinite
<1>3. ASSUME NEW i \in DOMAIN users \ deleted, i > after, i \notin ids
      PROVE  Cardinality(ids) = PageSize /\ \A j \in ids : j < i
  BY <1>3, PageIsPrefix
<1> HIDE DEF ids
<1>4. p = Fetched({users[i].username : i \in ids}, Cardinality(ids), IF ids = {} THEN 0 ELSE Max(ids))
  BY DEF PageAfter, ids
<1>5. p.state = "fetched" /\ p.names = {users[i].username : i \in ids}
      /\ p.size = Cardinality(ids) /\ p.nextID = IF ids = {} THEN 0 ELSE Max(ids)
  BY <1>4 DEF Fetched
<1> HIDE DEF p
<1>6. p.size = 0 => p.names = {}
  BY <1>2, <1>5, FS_EmptySet
<1>7. ASSUME NEW i \in DOMAIN users \ deleted, i > after, i \notin ids
      PROVE  p.size = PageSize /\ i > p.nextID
  <2>1. Cardinality(ids) = PageSize /\ \A j \in ids : j < i
    BY <1>3, <1>7
  <2>2. ids # {}
    BY <2>1, BoundsAssumption, FS_EmptySet
  <2>3. Max(ids) \in ids
    BY <1>2, <2>2, MaxIsHighest
  <2>4. i \in Nat
    BY DEF TableOK
  <2>5. QED  BY <1>2, <1>5, <2>1, <2>2, <2>3, <2>4
<1>8. QED  BY <1>5, <1>6, <1>7 DEF p

\* What has failed since the process started has failed until it restarts.
LEMMA LapsesGrow ==
  ASSUME [Next]_vars, ~Crash
  PROVE  lapses \subseteq lapses'
<1>1. Arrive \/ WarmUp \/ Expire \/ Delete \/ UNCHANGED vars => lapses \subseteq lapses'
  BY DEF Arrive, SendVerificationCode, Register, RefuseForm, WarmUp, FetchPage, TakePage, AddPage,
         WarmUpLapses, Expire, ExpireRateKey, ExpireCode, Delete, SoftDelete, warmUp, vars
<1>2. ASSUME NEW r \in Requests, Proceed(r)
      PROVE  lapses \subseteq lapses'
  BY <1>2 DEF Proceed, LimitRate, StoreCode, MailCode, UndoCode, ConsumeCode, FullCheck,
         BloomCheck, UsernameCheck, EmailCheck, Create, BloomAdd, warmUp
<1>3. QED  BY <1>1, <1>2, Steps

\* A row that is covered stays covered: nothing leaves the filter, a deleted row
\* stays deleted, and a request that is about to add its name adds it or fails to.
LEMMA CoveredStays ==
  ASSUME TypeOK, TableInv, [Next]_vars, ~Crash,
         NEW i \in DOMAIN users, Covered(i)
  PROVE  Covered(i)'
<1>1. i \in DOMAIN users' /\ users'[i] = users[i]
  BY TableMoves, AppendRow DEF TypeOK
<1>2. CASE \E r \in Requests : Proceed(r)
  <2>1. PICK r \in Requests : Proceed(r)
    BY <1>2
  <2>2. CASE BloomAdd(r)
    <3>1. /\ bloom \subseteq bloom' /\ deleted' = deleted
          /\ form[r].username \in bloom' \/ r \in lapses'
          /\ pc' = [pc EXCEPT ![r] = "registered"]
      BY <2>2 DEF BloomAdd, Go
    <3>2. users[i].by = r => users[i].username = form[r].username
      BY DEF TableInv, Opened, Row
    <3>3. QED  BY <1>1, <3>1, <3>2, LapsesGrow DEF Covered, TypeOK, CallsOK
  <2>3. CASE ~BloomAdd(r)
    <3>1. bloom' = bloom /\ deleted' = deleted
      BY <2>1, <2>3 DEF Proceed, LimitRate, StoreCode, MailCode, UndoCode, ConsumeCode, FullCheck,
             BloomCheck, UsernameCheck, EmailCheck, Create, redis
    <3>2. \A q \in Requests : pc[q] = "bloomAdd" => pc'[q] = "bloomAdd"
      BY <2>1, <2>3 DEF Proceed, LimitRate, StoreCode, MailCode, UndoCode, ConsumeCode, FullCheck,
             BloomCheck, UsernameCheck, EmailCheck, Create, Go, TypeOK, CallsOK
    <3>3. QED  BY <1>1, <3>1, <3>2, LapsesGrow DEF Covered
  <2>4. QED  BY <2>2, <2>3
<1>3. CASE WarmUp
  <2>1. bloom \subseteq bloom' /\ UNCHANGED <<deleted, pc>>
    BY <1>3 DEF WarmUp, FetchPage, TakePage, AddPage, redis
  <2>2. QED  BY <1>1, <2>1, LapsesGrow DEF Covered
<1>4. CASE Arrive
  <2>1. PICK r \in Requests, n \in Usernames, e \in Emails :
              \/ SendVerificationCode(r, e)
              \/ \E m \in mails : Register(r, n, e, m[2])
              \/ \E formed \in BOOLEAN : RefuseForm(r, formed)
    BY <1>4 DEF Arrive
  <2>2. UNCHANGED <<bloom, deleted>> /\ \A q \in Requests : pc[q] = "bloomAdd" => pc'[q] = "bloomAdd"
    BY <2>1 DEF SendVerificationCode, Register, RefuseForm, Go, Idle, redis, TypeOK, CallsOK
  <2>3. QED  BY <1>1, <2>2, LapsesGrow DEF Covered
<1>5. CASE Delete \/ Expire \/ UNCHANGED vars
  <2>1. bloom' = bloom /\ deleted \subseteq deleted' /\ pc' = pc
    BY <1>5 DEF Delete, SoftDelete, Expire, ExpireRateKey, ExpireCode, vars, redis
  <2>2. QED  BY <1>1, <2>1, LapsesGrow DEF Covered
<1>6. QED  BY <1>2, <1>3, <1>4, <1>5, Steps

\* A row that is inserted is about to be added to the filter, if its request learns of it.
LEMMA NewRowIsCovered ==
  ASSUME TypeOK, [Next]_vars, NEW i \in DOMAIN users' \ DOMAIN users
  PROVE  Covered(i)'
<1>1. PICK r \in Requests : Inserts(r)
  BY TableMoves
<1>2. i = Len(users) + 1 /\ users'[i] = Row(r)
  BY <1>1, AppendRow DEF TypeOK
<1>3. pc'[r] = "bloomAdd" \/ r \in lapses'
  <2>1. users' # users
    BY <1>1, <1>2, AppendRow DEF TypeOK
  <2>2. QED  BY <1>1, <2>1 DEF Inserts, Create, Go, TypeOK, CallsOK
<1>4. QED  BY <1>2, <1>3 DEF Covered, Row


\* The loop and its pages are moved by the warm-up and by a restart only.
LEMMA LoopMoves ==
  ASSUME [Next]_vars
  PROVE  WarmUp \/ Crash \/ UNCHANGED <<bfReady, future, page>>
<1>1. Arrive \/ Expire \/ Delete \/ UNCHANGED vars => UNCHANGED <<bfReady, future, page>>
  BY DEF Arrive, SendVerificationCode, Register, RefuseForm, Expire, ExpireRateKey, ExpireCode,
         Delete, SoftDelete, warmUp, vars
<1>2. ASSUME NEW r \in Requests, Proceed(r)
      PROVE  UNCHANGED <<bfReady, future, page>>
  BY <1>2 DEF Proceed, LimitRate, StoreCode, MailCode, UndoCode, ConsumeCode, FullCheck,
         BloomCheck, UsernameCheck, EmailCheck, Create, BloomAdd, warmUp
<1>3. QED  BY <1>1, <1>2, Steps

LEMMA NextLoop ==
  ASSUME TypeOK, LoopInv, [Next]_vars
  PROVE  LoopInv'
<1>1. CASE Crash
  BY <1>1 DEF Crash, Booted, LoopInv, Submitted, NoFuture
<1>2. SUFFICES ASSUME ~Crash, TheWarmUp \notin lapses' PROVE LoopInv'
  BY <1>1 DEF LoopInv
<1>3. TheWarmUp \notin lapses
  BY <1>2, LapsesGrow
<1>4. CASE FetchPage
  <2>1. future' = PageAfter(future.after) /\ page' = page /\ future.state = "submitted"
    BY <1>2, <1>4 DEF FetchPage, WarmUpLapses
  <2>2. /\ PageAfter(future.after).state = "fetched"
        /\ PageAfter(future.after).size = 0 => PageAfter(future.after).names = {}
    BY PageCovers DEF TypeOK
  <2>3. QED  BY <1>3, <2>1, <2>2 DEF LoopInv
<1>5. CASE TakePage
  <2>1. \/ future' = NoFuture /\ page' = NoFuture
        \/ page' = future /\ future' = IF future.size = PageSize THEN Submitted(future.nextID) ELSE NoFuture
    BY <1>5 DEF TakePage, WarmedUp
  <2>2. QED  BY <1>3, <2>1 DEF LoopInv, Submitted, NoFuture
<1>6. CASE AddPage
  <2>1. page' = NoFuture /\ future' \in {future, NoFuture}
    BY <1>6 DEF AddPage, WarmedUp
  <2>2. QED  BY <1>3, <2>1 DEF LoopInv, NoFuture
<1>7. CASE UNCHANGED <<bfReady, future, page>>
  BY <1>3, <1>7 DEF LoopInv
<1>8. QED  BY <1>2, <1>4, <1>5, <1>6, <1>7, LoopMoves DEF WarmUp

\* A step of the warm-up that does not fail leaves no row out.
LEMMA WarmUpCovers ==
  ASSUME TypeOK, LoopInv, WarmUp, TheWarmUp \notin lapses, TheWarmUp \notin lapses',
         NEW i \in DOMAIN users, ~Covered(i), ~bfReady, Coming(i)
  PROVE  Covered(i)' \/ (~bfReady' /\ Coming(i)')
<1>1. UNCHANGED <<users, deleted, pc>>
  BY DEF WarmUp, FetchPage, TakePage, AddPage
<1>2. CASE FetchPage
  <2>1. /\ future' = PageAfter(future.after) /\ future.state = "submitted"
        /\ page' = page /\ bfReady' = bfReady
    BY <1>2 DEF FetchPage, WarmUpLapses
  <2>2. CASE page.state = "fetched" /\ users[i].username \in page.names
    BY <1>1, <2>1, <2>2 DEF Coming
  <2>3. CASE i > future.after
    <3>1. i \notin deleted
      BY DEF Covered
    <3>2. LET p == PageAfter(future.after)
          IN  /\ p.state = "fetched"
              /\ \/ users[i].username \in p.names
                 \/ p.size = PageSize /\ i > p.nextID
      BY <2>3, <3>1, PageCovers DEF TypeOK
    <3>3. QED  BY <1>1, <2>1, <3>2 DEF Coming
  <2>4. QED  BY <2>1, <2>2, <2>3 DEF Coming
<1>3. CASE TakePage
  <2>1. future.state = "fetched" /\ page.state = "none"
    BY <1>3 DEF TakePage, LoopInv
  <2>2. \/ users[i].username \in future.names
        \/ future.size = PageSize /\ i > future.nextID
    BY <2>1 DEF Coming
  <2>3. future.size # 0
    BY <2>1, <2>2, BoundsAssumption DEF LoopInv
  <2>4. /\ page' = future /\ bfReady' = bfReady
        /\ future' = IF future.size = PageSize THEN Submitted(future.nextID) ELSE NoFuture
    BY <1>3, <2>1, <2>3 DEF TakePage, WarmUpLapses
  <2>5. QED  BY <1>1, <2>1, <2>2, <2>4 DEF Coming, Submitted
<1>4. CASE AddPage
  <2>1. bloom' = bloom \cup page.names /\ page.state = "fetched"
    BY <1>4 DEF AddPage, WarmUpLapses
  <2>2. CASE users[i].username \in page.names
    BY <1>1, <2>1, <2>2 DEF Covered
  <2>3. CASE users[i].username \notin page.names
    <3>1. future.state # "none"
      BY <2>3 DEF Coming
    <3>2. page.size = PageSize
      BY <2>1, <3>1 DEF LoopInv
    <3>3. future' = future /\ bfReady' = bfReady
      BY <1>4, <3>2, BoundsAssumption DEF AddPage, WarmUpLapses
    <3>4. QED  BY <1>1, <2>3, <3>3 DEF Coming
  <2>4. QED  BY <2>2, <2>3
<1>5. QED  BY <1>2, <1>3, <1>4 DEF WarmUp

LEMMA NextCover ==
  ASSUME TypeOK, TableInv, LoopInv, CoverInv, [Next]_vars
  PROVE  CoverInv'
<1> SUFFICES ASSUME TheWarmUp \notin lapses', NEW i \in DOMAIN users'
             PROVE  Covered(i)' \/ (~bfReady' /\ Coming(i)')
  BY DEF CoverInv
<1>1. CASE Crash
  <2>1. i \in Nat \ {0}
    BY <1>1 DEF Crash, TypeOK, TableOK
  <2>2. bfReady' = FALSE /\ future' = Submitted(0)
    BY <1>1 DEF Crash, Booted
  <2>3. QED  BY <2>1, <2>2 DEF Coming, Submitted
<1>2. CASE i \notin DOMAIN users
  BY <1>2, NewRowIsCovered
<1>3. CASE ~Crash /\ i \in DOMAIN users
  <2>1. CASE Covered(i)
    BY <1>3, <2>1, CoveredStays
  <2>2. CASE ~Covered(i)
    <3>1. TheWarmUp \notin lapses
      BY <1>3, LapsesGrow
    <3>2. ~bfReady /\ Coming(i)
      BY <1>3, <2>2, <3>1 DEF CoverInv
    <3>3. CASE WarmUp
      BY <1>3, <2>2, <3>1, <3>2, <3>3, WarmUpCovers
    <3>4. CASE UNCHANGED <<bfReady, future, page>>
      <4>1. users'[i] = users[i]
        BY <1>3, TableMoves, AppendRow DEF TypeOK
      <4>2. QED  BY <3>2, <3>4, <4>1 DEF Coming
    <3>5. QED  BY <1>3, <3>3, <3>4, LoopMoves
  <2>3. QED  BY <2>1, <2>2
<1>4. QED  BY <1>1, <1>2, <1>3

\* A filter that counts as ready, in a process whose warm-up has not failed, has every
\* user name that is taken, but for the accounts whose own request still has to add its
\* name or has failed to: for tables and pages of any size, any number of requests and
\* restarts, and whatever failed before the process started.
THEOREM BloomCorrect == Spec => []BloomCoversUsernames
<1>1. Init => LoopInv /\ CoverInv
  BY InitCover
<1>2. (TypeOK /\ CodeInv /\ TableInv) /\ (LoopInv /\ CoverInv) /\ [Next]_vars => (LoopInv /\ CoverInv)'
  BY NextLoop, NextCover
<1>3. CoverInv => BloomCoversUsernames
  BY DEF CoverInv, Covered, BloomCoversUsernames, Live
<1>4. QED  BY <1>1, <1>2, <1>3, TableCorrect, PTL DEF Spec

-----------------------------------------------------------------------------
(* The warm-up gets on.                                                     *)

\* The cursor is within the table, which only grows.
CursorInv == /\ future.state = "submitted" => future.after \in 0 .. Len(users)
             /\ future.state = "fetched" /\ future.size > 0 => future.nextID \in 0 .. Len(users)

LEMMA TableGrows ==
  ASSUME TypeOK, [Next]_vars
  PROVE  Len(users) \in Nat /\ Len(users') \in Nat /\ Len(users) <= Len(users')
<1>1. Len(users) \in Nat
  BY DEF TypeOK, TableOK
<1>2. ASSUME NEW r \in Requests, Inserts(r) PROVE Len(users') = Len(users) + 1
  <2>1. Row(r) \in Account
    BY DEF TypeOK, CallsOK, Forms, Account, Row
  <2>2. QED  BY <1>2, <2>1 DEF Inserts, TypeOK, TableOK
<1>3. QED  BY <1>1, <1>2, TableMoves

\* A page that is not empty ends behind the cursor it was asked for, in the table.
LEMMA PageMovesCursor ==
  ASSUME TableOK, NEW after \in Nat, PageAfter(after).size > 0
  PROVE  PageAfter(after).nextID \in after + 1 .. Len(users)
<1> DEFINE ids == NextIds(after)
           p == PageAfter(after)
<1>1. ids \in SUBSET DOMAIN users /\ \A i \in ids : i > after
  BY DEF NextIds
<1>2. ids \in SUBSET Nat /\ IsFiniteSet(ids)
  BY <1>1, RestIsFinite
<1>3. DOMAIN users = 1 .. Len(users) /\ Len(users) \in Nat
  BY DEF TableOK
<1> HIDE DEF ids
<1>4. p.size = Cardinality(ids) /\ p.nextID = IF ids = {} THEN 0 ELSE Max(ids)
  BY DEF PageAfter, Fetched, ids
<1> HIDE DEF p
<1>5. ids # {}
  BY <1>4, FS_EmptySet DEF p
<1>6. Max(ids) \in ids
  BY <1>2, <1>5, MaxIsHighest
<1>7. p.nextID \in after + 1 .. Len(users)
  BY <1>1, <1>2, <1>3, <1>4, <1>5, <1>6
<1>8. QED  BY <1>7 DEF p

LEMMA NextCursor ==
  ASSUME TypeOK, CursorInv, [Next]_vars
  PROVE  CursorInv'
<1>1. CASE FetchPage
  <2>1. CASE future' = Broken
    BY <2>1 DEF CursorInv, Broken
  <2>2. CASE future' = PageAfter(future.after)
    <3>1. future.after \in Nat /\ users' = users
      BY <1>1, TableGrows DEF FetchPage, CursorInv
    <3>2. (future').state = "fetched"
      BY <2>2, PageIsOK DEF TypeOK
    <3>3. (future').size > 0 => (future').nextID \in 0 .. Len(users)
      <4> DEFINE p == PageAfter(future.after)
      <4>1. p.size > 0 => p.nextID \in future.after + 1 .. Len(users)
        BY <3>1, PageMovesCursor DEF TypeOK
      <4>2. Len(users) \in Nat
        BY TableGrows
      <4> HIDE DEF p
      <4>3. p.size > 0 => p.nextID \in 0 .. Len(users)
        BY <3>1, <4>1, <4>2
      <4>4. QED  BY <2>2, <4>3 DEF p
    <3>4. QED  BY <3>1, <3>2, <3>3 DEF CursorInv
  <2>3. QED  BY <1>1, <2>1, <2>2 DEF FetchPage
<1>2. CASE TakePage
  <2>1. CASE future' = NoFuture
    BY <2>1 DEF CursorInv, NoFuture
  <2>2. CASE future' = Submitted(future.nextID) /\ future.state = "fetched" /\ future.size # 0
    <3>1. future.size > 0
      BY <2>2 DEF TypeOK, WarmUpOK, PageOK
    <3>2. future.nextID \in 0 .. Len(users) /\ users' = users
      BY <1>2, <2>2, <3>1 DEF CursorInv, TakePage
    <3>3. (future').state = "submitted" /\ (future').after = future.nextID
      BY <2>2 DEF Submitted
    <3>4. QED  BY <3>2, <3>3 DEF CursorInv
  <2>3. QED  BY <1>2, <2>1, <2>2 DEF TakePage, WarmedUp
<1>3. CASE AddPage
  <2>1. future' \in {future, NoFuture} /\ users' = users
    BY <1>3 DEF AddPage, WarmedUp
  <2>2. QED  BY <2>1 DEF CursorInv, NoFuture
<1>4. CASE Crash
  <2>1. future' = Submitted(0) /\ users' = users
    BY <1>4 DEF Crash, Booted
  <2>2. (future').state = "submitted" /\ (future').after = 0
    BY <2>1 DEF Submitted
  <2>3. QED  BY <2>1, <2>2, TableGrows DEF CursorInv
<1>5. CASE UNCHANGED <<bfReady, future, page>>
  BY <1>5, TableGrows DEF CursorInv
<1>6. QED  BY <1>1, <1>2, <1>3, <1>4, <1>5, LoopMoves DEF WarmUp

\* A step of the warm-up that does not end it leaves less of it to do.
LEMMA StepGetsOn ==
  ASSUME TypeOK, CursorInv, [Next]_vars, WarmUp
  PROVE  bfReady' \/ StepsLeft' \in 0 .. StepsLeft - 1
<1> DEFINE behind(cursor) == 3 * (Len(users) - cursor)
           taken == IF page.state = "fetched" THEN 1 ELSE 0
<1>1. users' = users /\ Len(users) \in Nat
  BY TableGrows DEF WarmUp, FetchPage, TakePage, AddPage
<1>2. CASE bfReady'
  BY <1>2
<1>3. CASE FetchPage
  <2>1. future.state = "submitted" /\ page' = page /\ future.after \in 0 .. Len(users)
    BY <1>3 DEF FetchPage, CursorInv
  <2>2. StepsLeft = behind(future.after) + 2 + taken
    BY <2>1 DEF StepsLeft
  <2>3. CASE future' = Broken
    <3>1. StepsLeft' = 1 + taken
      BY <2>1, <2>3 DEF StepsLeft, Broken
    <3>2. QED  BY <1>1, <2>1, <2>2, <3>1
  <2>4. CASE future' = PageAfter(future.after)
    <3> DEFINE p == PageAfter(future.after)
    <3>1. p.state = "fetched"
      BY PageIsOK DEF TypeOK
    <3>2. p.size > 0 => p.nextID \in future.after + 1 .. Len(users)
      BY <1>1, <2>1, PageMovesCursor DEF TypeOK
    <3> HIDE DEF p
    <3>3. future' = p
      BY <2>4 DEF p
    <3>4. StepsLeft' = (IF p.size > 0 THEN behind(p.nextID) + 4 ELSE 1) + taken
      BY <1>1, <2>1, <3>1, <3>3 DEF StepsLeft
    <3>5. taken \in Nat
      OBVIOUS
    <3> HIDE DEF taken
    <3>6. CASE p.size > 0
      <4> DEFINE next == p.nextID
                 after == future.after
                 rows == Len(users)
      <4>1. rows \in Nat /\ after \in Nat /\ next \in Nat /\ after + 1 <= next /\ next <= rows
        BY <1>1, <2>1, <3>2, <3>6
      <4>2. StepsLeft = 3 * (rows - after) + 2 + taken /\ StepsLeft' = 3 * (rows - next) + 4 + taken
        BY <2>2, <3>4, <3>6
      <4> HIDE DEF next, after, rows
      <4>3. QED  BY <3>5, <4>1, <4>2
    <3>7. CASE ~(p.size > 0)
      BY <1>1, <2>1, <2>2, <3>4, <3>5, <3>7
    <3>8. QED  BY <3>6, <3>7
  <2>5. QED  BY <1>3, <2>3, <2>4 DEF FetchPage
<1>4. CASE TakePage /\ ~bfReady'
  <2>1. /\ future.state = "fetched" /\ future.size # 0 /\ page.state = "none" /\ page' = future
        /\ future' = IF future.size = PageSize THEN Submitted(future.nextID) ELSE NoFuture
    BY <1>4 DEF TakePage, WarmedUp
  <2>2. future.size > 0
    BY <2>1 DEF TypeOK, WarmUpOK, PageOK
  <2>3. future.nextID \in 0 .. Len(users)
    BY <2>1, <2>2 DEF CursorInv
  <2>4. StepsLeft = behind(future.nextID) + 4
    BY <1>1, <2>1, <2>2, <2>3 DEF StepsLeft
  <2>5. CASE future' = NoFuture
    <3>1. StepsLeft' = 1
      BY <2>1, <2>5 DEF StepsLeft, NoFuture
    <3>2. QED  BY <1>1, <2>3, <2>4, <3>1
  <2>6. CASE future' = Submitted(future.nextID)
    <3>1. (future').state = "submitted" /\ (future').after = future.nextID
      BY <2>6 DEF Submitted
    <3>2. StepsLeft' = behind(future.nextID) + 2 + 1
      BY <1>1, <2>1, <3>1 DEF StepsLeft
    <3>3. QED  BY <1>1, <2>3, <2>4, <3>2
  <2>7. QED  BY <2>1, <2>5, <2>6
<1>5. CASE AddPage /\ ~bfReady'
  <2>1. page.state = "fetched" /\ page' = NoFuture /\ future' = future
    BY <1>5 DEF AddPage, WarmedUp
  <2> DEFINE left == StepsLeft - 1
  <2>2. StepsLeft = left + 1 /\ StepsLeft' = left /\ left \in Nat
    <3>1. CASE future.state = "none"
      BY <2>1, <3>1 DEF StepsLeft, NoFuture
    <3>2. CASE future.state = "submitted"
      BY <1>1, <2>1, <3>2 DEF StepsLeft, NoFuture, CursorInv
    <3>3. CASE future.state = "fetched" /\ future.size > 0
      BY <1>1, <2>1, <3>3 DEF StepsLeft, NoFuture, CursorInv
    <3>4. CASE future.state \in {"fetched", "broken"} /\ ~(future.state = "fetched" /\ future.size > 0)
      BY <2>1, <3>4 DEF StepsLeft, NoFuture
    <3>5. QED  BY <3>1, <3>2, <3>3, <3>4 DEF TypeOK, WarmUpOK
  <2>3. QED  BY <2>2
<1>6. QED  BY <1>2, <1>3, <1>4, <1>5 DEF WarmUp

\* Every step of the warm-up that does not end it leaves less of it to do, whatever is
\* inserted, deleted or fails meanwhile, for tables and pages of any size: what its
\* termination rests on, fairness apart.
THEOREM WarmUpCorrect == Spec => WarmUpGetsOn
<1>1. Init => CursorInv
  <2> SUFFICES ASSUME Init PROVE CursorInv
    OBVIOUS
  <2>1. future.state = "submitted" /\ future.after = 0 /\ Len(users) \in Nat
    BY OldAccountsAssumption DEF Init, Submitted
  <2>2. QED  BY <2>1 DEF CursorInv
<1>2. TypeOK /\ CursorInv /\ [Next]_vars => CursorInv'
  BY NextCursor
<1>3. TypeOK /\ CursorInv /\ [Next]_vars => [WarmUp => bfReady' \/ StepsLeft' \in 0 .. StepsLeft - 1]_vars
  BY StepGetsOn
<1>4. QED  BY <1>1, <1>2, <1>3, TypeCorrect, PTL DEF Spec, WarmUpGetsOn


=============================================================================
