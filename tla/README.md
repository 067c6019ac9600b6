# A TLA+ model of blog-user

`blog-user` is the user service of a blog: accounts, login tokens, e-mail
verification codes, follow relations, a blacklist and an audit log, behind one
gRPC server.
This directory models its state and its operations in TLA+, checks them with TLC
on small instances and proves the most important results with TLAPS. Line
numbers refer to the repository's source (`src/`); `PROJECT.json` maps every
definition to the lines it models.

## 1. Inventory

| Part | State it keeps | Operations | Talks to |
|---|---|---|---|
| Accounts and sessions (`service/user_service.go`, `repository/user_repo.go`, `handler/v1/grpc_handler.go`, `audit/audit.go`) | tables `users`, `tokens`, `operation_logs` | Login, Logout, ValidateToken, GetUser, UpdateUser, ChangePassword, DeleteUser, AdminUpdateUser, AdminDeleteUser | MySQL |
| Registration and codes (`user_service.go:179-347`) | Redis keys `verify_code:*`, `verify_code_rate:*`; rows of `users` | SendVerificationCode, Register | MySQL, Redis, SMTP |
| Bloom filter and warm-up (`user_service.go:77-171`) | Redis bitmap `user:username:bloom`; in memory `bfReady` and a prefetched page | warm-up goroutine; Exists and Add in Register | MySQL, Redis |
| Follow graph (`service/follow_service.go`, `repository/follow_repo.go`, `client/ranking.go`) | table `user_follows`; the fans board of the ranking service | Follow, Unfollow, counts | MySQL, ranking service |
| Social relations (`service/follow_service.go:55-71`, `handler/v1/follow_handler.go`, `decorator_handler.go`) | table `user_blacklists` | AddToBlacklist, RemoveFromBlacklist, IsInBlacklist, GetFollowStats, GetFollowStatus, the counts in the replies of Follow and Unfollow, Decorate | MySQL; the ranking service calls Decorate |
| Administration (`handler/v1/grpc_handler.go:323-549`, `audit/audit.go`) | table `operation_logs`; the JWTs in the hands of clients | `requireGRPCAdmin`, AdminUpdateUser, AdminDeleteUser, AdminGetUsers, GetUsers, RecordLog, ListOperationLogs | MySQL |
| Process life cycle (`cmd/server/main.go`) | the goroutines of three servers and of the loops that declare the boards, `quitCh`, the open pools, the registration in Consul | start-up, wait, shutdown, release | Consul, the ranking service, the operating system |
| gRPC surface (`handler/v1`) | none | conversions, captcha, authentication | the shared library |
| Errors, configuration, generated code | none | | |

No operation uses a database transaction, no lock is held between two
statements, and every RPC runs in a goroutine of its own. What is hard here is
therefore the same everywhere: a request reads a row, decides, and writes in a
later statement, while other requests do the same; and any single statement,
Redis command, mail or call of another service may fail, or take effect without
its answer arriving. `PROJECT.json` lists the hazards line by line.

What makes each part correct:

* **Accounts**: a token lives once and ends for good; logout and deletion are
  final; a user who is locked out starts no session; a write changes the columns
  it is about; what is answered is what is stored; deleted rows never change.
* **Registration**: one account per name and e-mail; only the owner of a mailbox
  opens an account; one code per minute and address; the filter knows every name
  that is taken; the text a user logs in with fits one row.
* **Follow graph**: each call takes effect once, on one edge; the board follows
  the table.
* **Social relations**: a pair is blocked or is not, however many rows say so; what
  one reply says is true of one moment when nothing changes meanwhile.
* **Administration**: nobody acts as an administrator long after the role was taken
  away; a client that pages through the log misses nothing that was there.
* **Life cycle**: whatever fails, what was opened is released, no RPC loses its
  database, one failing server does not kill the process, the process ends when it
  is told to, and a board is given up only after every attempt.

## 2. Modules

```
UserRows ──> Accounts ──> MCAccounts                    Sessions           (abstract)
                 └──────> AccountsProofs ──> AccountsRowsProofs
Formats ──> Registration ──> MCRegistration             AccountDirectory   (abstract)
                 └─────────> RegistrationProofs
FollowGraph ──> SocialRelations ──> MCSocialRelations   FollowSet, BlockSet (abstract)
    ├──> MCFollowGraph
    └──> FollowGraphProofs ──> SocialRelationsProofs
ServerLifecycle ──> ServerProcess ──> MCServerProcess
                         └──> ServerProcessProofs
AdminGate, AuditTrail ──> AdminConsole ──> MCAdminConsole
    AuditTrailProofs ──> AdminConsoleProofs
```

An arrow is an EXTENDS; the module at its end adds to the one before and keeps its
actions. The three compositions are `SocialRelations`, `ServerProcess` and
`AdminConsole`: they take the steps of what they extend and say what each of them
does to the state they add.

`UserRows` is what a row is and how gorm writes it: `Update(struct)` names every
non-zero column, `UpdateFields(map)` the given ones, both only where
`deleted_at IS NULL`. `nickname` stands for the three text columns that are
treated alike.

`Accounts` has one action per statement of an RPC. A request arrives with its
first statement (`Login`, `UpdateUser`, ...), keeps what it needs in `target` and
`cols`, and goes on with the statement its `pc` names (`SaveToken`, `Update`,
`UpdateFields`, `DeleteRow`, `RecordAudit`). A JWT is named by the login that made
it: its random CSRF claim makes it unique. Every RPC is there, those that only read
too: ValidateToken says "valid" on `TokenValid`, GetUser on a row that is there. A
handler may turn a request away before its first statement (`Refuse`); the operators
that end in `RPC` say with which requests each service method is called. A token that
Register issues goes the way of `SaveToken`: the code is the same and is not repeated.
Two variables are history: `stale` holds the pending updates whose row was written since
they read it, `overlooked` the tokens that a deletion of their user left out, because
their login was in progress or the DELETE on `tokens` failed.

`Sessions`, the abstract specification of tokens, knows three phases (fresh,
active, ended) and an owner; `Accounts` implements it under `TokenPhase` and
`TokenOwner`.

`Registration` has the steps of Register and SendVerificationCode between two
Redis, database or mail operations, the warm-up goroutine and its prefetching
worker, the expiry of keys, deletions by other requests, and crashes. Codes are
named by the send that made them, so two codes never coincide by chance (six
random digits may). `Register` takes a code some mailbox has received. At this
commit the Register RPC does not fill `VerifyCode` (`grpc_handler.go:39-44`) and
no RPC offers SendVerificationCode: the RPC is `RegisterRPC`, which is always refused,
and the service methods are modelled as their interface offers them.
Two history variables: `admitted` counts, for each address, the sends whose rate key
Redis confirmed to be new, `lapses` holds the requests, and the warm-up, whose step for
the filter has failed since the process started.
`AccountDirectory` is the abstract specification: names and e-mails are unique
for ever, and success is answered only for an account that is there.

`Formats` is what Register and SendVerificationCode accept. A text is a sequence
of characters, of a few kinds; a user name is measured in characters
(`[]rune`), an address and a password in bytes (`len`), as the code does
(`user_service.go:669-717`).

`FollowGraph` has Follow and Unfollow statement by statement and the pushes to
the ranking service; a process that stops before a push is the same as a lost
push. Ids that no row has may follow, because nobody looks up the follower
(`follow_service.go:13-22`): they are `Strangers`, and `Named` is who may follow.
`FollowSet` is the set each answered call changes at once. The history
variable `drift` counts the four ways in which board and table part.

`SocialRelations` adds the blacklist, a bag of rows per pair because no index makes
them unique, and every call that reads: who follows whom, the two counts of
GetFollowStats, the counts a handler adds to its reply to Follow and Unfollow, and
Decorate. A reply with two counts takes two steps, with all other requests in
between. `BlockSet` is what the blacklist promises. `quiet` is a history variable: the
requests whose reads all succeeded on the same rows.

`ServerLifecycle` has the main goroutine and those of the probe and the gRPC
server. `http` and `grpc` say where each goroutine is, which also says whether
`s.httpServer` and `s.grpcServer` are assigned. These fields are written and read
without synchronisation; the model reads the current value, and the nil value a
stale read could give is among the behaviours anyway (the goroutine has not run
yet). A signal ends the process at once unless Run has asked for it, which it does
after it has started the servers (`main.go:137-138`): so also while main unwinds a
start-up that failed (`main.go:318-330`); `notified` says so. Calls are unary RPCs;
server reflection is left out. Of the libraries:
`ListenAndServe` returns ErrServerClosed after Shutdown, `Serve` returns an error
when the server was stopped before it, `GracefulStop` waits for the RPCs.

`ServerProcess` adds the goroutines nobody waits for: the metrics server, and one
loop per ranking board that declares it, sleeps and tries again, up to five times.
A declaration that is reported as failed may have arrived.

`AdminGate` is the door of the administrative calls, with a clock. A login reads
the role from the row, the token is made from what was read, the call is let in on
what the token says. A role is written by AdminUpdateUser, and by UpdateUser and
ChangePassword, which store the copy of the row they read (`ReadCopy`, `WriteCopy`);
Register adds rows, DeleteUser and AdminDeleteUser take them away, for good. A write
that finds no row affects nothing and is no error. Two assumptions are about the shared
library: the timeout interceptor gives each call a deadline, after which its statements
fail, and a JWT is accepted while `now < exp`. A slot of `Requests` is used again after
its call, so the number of calls is unbounded.

`AuditTrail` is `operation_logs` and one client that walks it, page after page, until
one comes back empty. An entry's `created_at` is its writer's clock and its id
is given by the INSERT, so an entry may arrive anywhere in the order of the pages.

`AdminConsole` puts both together: calls that were let in change users, the read of a
row and its write in two steps, and record that, whether or not there was a row; or
they read a page of the log; and a listing of users is two statements that run
in parallel (`pool.Go`), in either order, with changes to the rows in between.

Names that start a comment with "Mistake:" are variants of an action that a
plausible bug would give; no specification uses them. Each is there to show that
a property would notice.

## 3. Runs

| Run | Instance | What it shows |
|---|---|---|
| `accounts_sessions` | 2 users, 3 RPCs, faults | `SessionsSpec`, `LogoutIsFinal`, `DeleteIsFinal`, `LeftTokensWereOverlooked`, `LockedOutGetsNoSession` |
| `accounts_rows` | 1 user, 3 RPCs, 2 passwords, faults, statuses beyond a byte | `TypeOK`, `ChangesAreExplained`, `GoneRowsAreFrozen`, `AdminKeepsPassword`, `FreshAnswerIsStored`, `ClearedOnlyByWrapping` |
| `registration_faults` | 2 calls, 6 texts as names and as addresses, 2 passwords, an empty table, pages of one, faults | `TypeOK`, `DirectorySpec`, `CodeOpensOneAccount`, `SpentCodesStaySpent`, `LoginFindsOneRow`, `OneSendPerWindow` |
| `registration_restart` | 1 call, the same texts, an account from before, pages of one, faults, 2 crashes | `BloomCoversUsernames`, `WarmUpGetsOn`, `WarmUpEnds` |
| `social` | 2 users and an id without a row, 2 calls, faults, any rows of `user_follows` and some of the blacklist from before | `SocialTypeOK`, `FollowSpec`, `BlockSpec`, `BoardFollowsTable`, `GapHasACause`, `QuietAnswersAreExact` |
| `lifecycle` | 1 board, 3 attempts, 1 RPC at a time | `ProcessTypeOK`, `NothingLeaks`, `DatabaseOutlivesCalls`, `OneFailureIsSurvived`, `UndeclaredOnlyAfterAllAttempts`, `StopIsHeeded`, `StopGetsOn`, `BoardsSettle` |
| `console` | 2 users, 2 calls at a time, tokens of 1 tick and calls of 2, 3 log entries, pages of 1, 2 (the default) and too many rows | `ConsoleTypeOK`, `AdminActsAreRecent`, `WalkMissesNothing`, `ShortPageKeepsPromise`, `ListDriftIsBounded` |

`AdminActsAreRecent` is the answer to "how long does a role that was taken away go
on working": the life of a token, the call that obtained it and the call that
presents it, and nothing else (AdminGate.tla states the exact sum).
It holds although UpdateUser and ChangePassword may give a lost role back: a user
who got it back is an administrator again.
`LeftTokensWereOverlooked` says which tokens a deletion may leave, and
`FreshAnswerIsStored` when the answer of UpdateUser, which is the copy and not the row,
is what the table holds: the row was neither written nor deleted since it was read.
`ListDriftIsBounded` is as much as can be said of a total and a page that are read
apart: they differ by no more than the rows that changed in between.

Five runs expect a violation. They state what a comment or the README says and
TLC finds a run of the code that does otherwise; what holds in place of each is a
theorem (section 4):

* `accounts_stale_write`: UpdateUser and ChangePassword write the whole row they
  read, so they undo an AdminUpdateUser that overlaps them
  (`user_service.go:485`, `557`).
* `accounts_delete_race`: a login that overlaps DeleteUser leaves a token that
  validates (`user_service.go:494-500`).
* `registration_code_deleted`: Register deletes the code by address and may
  delete a newer one (`user_service.go:204`).
* `follow_score`: a repeated Follow pushes +1 again (`follow_service.go:23-27`).
* `lifecycle_listen`: when the gRPC port cannot be opened, Run panics on a nil
  server; `shutdown()` and the deregistration never run (`main.go:155`, `247`).

Disagreements met on the way that no run is spent on:

* README.md:801 has Logout delete all tokens of the user, the code deletes one
  (`user_service.go:391`); README.md:792 has `tokens.token` unique, the model does not
  (`model/user.go:34`).
* `proto/user.proto:317` has status 2 for disabled, the code 0 (`model/user.go:59`),
  which AdminUpdateUser cannot send because 0 means "leave it"
  (`grpc_handler.go:481`), although the map it writes with is there for the zero
  (`user_service.go:606`, `user_repo.go:106`). It is reached all the same by a status
  that the conversion to a byte makes zero, 256 for one, because the handler tests for
  zero before it converts (`grpc_handler.go:477-484`): `ClearedOnlyByWrapping` and the
  theorem `ZeroNeedsWrapping` say that there is no other way. The `keyword` of line 316
  is not read.
* A filter miss can be wrong while a registration is between INSERT and `bf.Add`
  (`user_service.go:217`, `256-261`), which the unique index makes harmless.
* `shutdown()` is said to take traffic away first, but GracefulStop has run before
  it; `Run` is said to stop when any server fails, but a failing metrics server only
  logs (`main.go:121-123`, `309-311`).
* Edges of deleted users stay in `user_follows` (`model/follow.go:6`).
* README.md:821 has a unique index on the pairs of `user_blacklists`, the model has
  none (`model/user.go:44-50`); `BlockSpec` shows that it takes no harm.
* README.md:1295 orders the list of users by `created_at`, `List` orders by nothing
  (`user_repo.go:163-169`), so which rows a page holds is not determined and no
  property here says that a walk through the users is complete; README.md:154 has
  pages of at most 100 users, GetUsers knows no maximum.
* AdminUpdateUser replies with the row it read before its update
  (`user_service.go:599-622`). It, UpdateUser and ChangePassword answer with success when
  the row was deleted since they read it: the UPDATE affects no row, which is no error
  (`user_repo.go:101-110`); AdminUpdateUser and AdminDeleteUser record that in the log.
* Nobody looks whether the follower exists (`follow_service.go:13-22`): any id but 0 may
  follow, and counts.
* `follower_count` of the reply to Follow holds how many the caller follows, and
  `following_count` how many follow the other (`follow_handler.go:27-28`); the comments
  beside them say so too. `QuietAnswersAreExact` takes them as the comments do.
* The keys of Decorate's reply are said to be the members as they came
  (`decorator_handler.go:25`); "07" comes back as "7" (line 56).
* `errors.go:7` says the handlers take the code from the error; most RPCs answer
  every failure with one code of their own.

### Bounds

A run has two or three requests because every hazard listed is between two
requests and, at most, one more that changes what they share: two logins and a
deletion; a copy of a row and an admin write; two unfollows of one edge. A request
is one RPC, so their number bounds the length of a run; in `console` it bounds the
calls in progress only. Two users are enough to tell "the user's" from "any", one
user is enough where all the actors meet in one row. Pages of one name make every
prefix of the table a page boundary. The crashes have a run of their own, with one
call: a name is lost to the filter by one request, one failure and one restart, and
the second crash lets a warm-up that was itself cut short start over. `MaxCrashes` and
`MaxCalls` bound the restarts and the RPCs at once.

The limits of the formats are scaled down (names of two or three characters,
addresses and passwords of three bytes at most), and the same texts are offered as
names and as addresses, so that a name that is somebody's address would be found.

In `console` a token lives one tick and a call two, the shortest lives in which a
right outlives its role by a login, a token and a call at once; the clock stops at
three ticks, past the bound that is checked. Three log entries out of six possible
make walks of one to four pages with an arrival before, on and behind the page.

Two runs look at one topic in a behaviour (a CONSTRAINT of their MC module).
`OneTableAtATime`: the blacklist and the follow table share no rows and no request,
so their interleavings say nothing new; `StrangersAmongThemselves`: an id without a row
does nothing a user cannot do, so where it follows nobody else does, and nobody is
deleted. `OneTopic`: the clock, the log and the listings share little. With the clock
running, nobody is deleted (a demotion ends the same right and can be undone) and there
are three tokens at most; the log is walked with everybody an administrator, no update
of a role and one call at a time; a listing overlaps no login and no finished
administrative call. The theorems below are about the
specifications without these constraints.

Requests, and users where no definition names one, are symmetric in the runs
without liveness.

### Fairness

`Registration` assumes weak fairness of the steps of a request that is in progress, and
of the warm-up goroutine: goroutines are scheduled and every call returns, with an
error if need be. No arrival of a request, no expiry, no
fault and no crash is assumed to happen. `ServerLifecycle` and `ServerProcess` assume
the main goroutine is scheduled and RPCs end, because the timeout interceptor gives
each a deadline (`main.go:271`), and that the loops are scheduled, each declaration
having three seconds (`main.go:390`); they do not assume that a server ever starts,
nor that a declaration ever succeeds.

## 4. Proofs

All theorems hold for every value of the constants that satisfies the named ASSUMEs
of the modules: any (where a count is involved, finite) set of users, any requests,
any passwords, boards, page sizes, lives of tokens and calls.

`AccountsProofs`
* `TypeCorrect`: `Spec => []TypeOK`. Inductive as it stands.
* `LogoutCorrect`: `Spec => []LogoutIsFinal`. Not inductive: it needs `TokenInv`,
  which says that a token row belongs to a login that has replied, that a login
  between its decision and `SaveToken` has no row and is in no client's hands,
  and that a logged-out token has no row. Only then can `SaveToken`, the one
  action that adds rows, not bring a logged-out token back.
* `AccountsImplementSessions`: `Spec => SessionsSpec`. `TokenInv` again: each step
  is an Issue, a Revoke, a RevokeAll or a stutter of `Sessions`.

`AccountsRowsProofs`
* `GoneRowsCorrect`: `Spec => GoneRowsAreFrozen`, from the type invariant.
* `DeleteCorrect`: `Spec => []DeleteIsFinal`, with `DeleteInv`: no action returns a
  row to `live`.
* `LeftTokensCorrect`: `Spec => []LeftTokensWereOverlooked`, with `OverlookedInv`: from a
  deletion's first statement on, every token and every login in progress of its user is
  one that was left out, while the row waits to be deleted and after it is gone.
* `ChangesExplained`: `Spec => ChangesAreExplained`, with `CopyInv`: while nobody has
  written the row of a pending update, its copy agrees with the row on every
  column but the requested one. `FreshAnswerCorrect`: `Spec => FreshAnswerIsStored`, from
  the same invariant: the SET list leaves out the zero columns of the copy, and a fresh
  copy has a zero only where the row has one.
* `ClearedCorrect`: `Spec => ClearedOnlyByWrapping`, whatever an administrator sends.
  `ZeroNeedsWrapping`: no row has role or status zero unless administrators send a
  non-zero multiple of 256 for it. The lemma `AdminZeroWraps` is about the handler's
  test for zero, which comes before the conversion.
* `AdminPasswordCorrect`: `Spec => AdminKeepsPassword`, with `FieldsInv`: the columns an
  administrator's pending update names never include the password.
* `LockedOutCorrect`: `Spec => LockedOutGetsNoSession`, from `TokenInv`.
  `ShutOutForGood`: a user whose row is deleted and who has no token row and no login in
  progress has no valid token for the rest of the behaviour.

`FollowGraphProofs` (for any finite sets of users and requests)
* `TypeCorrect`: `Spec => []TypeOK`, with the fact the other two rest on: a request
  about to write an edge carries one between two users.
* `FollowGraphImplementsFollowSet`: `Spec => FollowSpec`. The step that writes the
  row is the abstract Follow or Unfollow; the pushes are stutters.
* `BoardCorrect`: `Spec => []BoardFollowsTable`. Inductive with the type invariant; the
  lemmas `NewFan`, `LostFan` and `MovesCount` say by how much a step changes the two
  cardinalities it speaks of.
* `GapCorrect`: `Spec => GapHasACause`, from the two together: every step that changes
  what board and table are apart for a user is one of the four, by a call that names
  that user; without faults only two of the four are left.

`RegistrationProofs` (for any table, texts, page size and number of requests)
* `ImplementsDirectory`, `CodeCorrect`, `LoginCorrect`: from two inductive invariants.
  `CodeInv`: a code that is stored or mailed names a request that gave this address, and
  what a request carries stays once it has begun; so a code that was compared was
  mailed to the address it was compared for. `TableInv`: the rows are unique in both
  columns and well-formed, each is the row of the request that opened it, which is past
  its INSERT, and a request on its way to success has one. The checks before the
  INSERT are not used: it is `Insertable`, the two indexes, that keeps the rows unique.
  `LoginCorrect` adds `FormatsDiffer`: no text is both a user name and an address.
* `SpentCodesCorrect`: `Spec => SpentCodesStaySpent`. A code is stored by its own send and
  by nothing else, once. `SpentForGood` says so of a whole behaviour.
* `NamesStayTaken`: an account's name and address open no other account, ever: rows are
  only added and marked deleted, and `TableInv` keeps both columns unique.
* `RateCorrect`: with `RateBound`: at most one send is admitted while the key lives, and
  none while it does not. An error of Redis lets a send through (`user_service.go:300`)
  but admits none.
* `BloomCorrect`, whatever fails and however often the process restarts: from `LoopInv`
  and `CoverInv`. Unless the warm-up has lapsed, each row is covered (in the filter, about
  to be added, deleted, or its request has lapsed), or the warm-up still comes to it by
  the page it adds, the page it fetches or a later one. The lemma `PageIsPrefix` says
  what a page of n rows leaves out; a crash empties `lapses` and starts the warm-up over.
* `WarmUpCorrect`: `Spec => WarmUpGetsOn`, with `CursorInv`, which keeps the cursor inside
  the table; the measure is what lies behind the cursor and the steps of the page in hand.
* `TypeCorrect`: `Spec => []TypeOK`.

`ServerProcessProofs` (for any bound on the RPCs in progress, boards and attempts). Of
`ServerLifecycle` alone:
* `NothingLeaksCorrect`, `DatabaseCorrect`: from `ReleaseInv`, which ties the place of
  the main goroutine to what is open and to the RPCs: no RPC before the servers are
  started, none after they have drained, the database open in between.
* `OneFailureCorrect`: from `QuitInv`: `quitCh` is closed only by a server that has
  failed, and neither has before `Serve` starts them. So only a signal that Run has not
  asked for, during a start-up or while main unwinds one that failed, or the failure of
  both servers, kills the process.
* `ListenFailureIsClean`: from the two invariants together: without those two, the
  process comes to an end of its own that leaves nothing open.
* `StopCorrect`: `Spec => StopGetsOn`. `MainGetsOn` gives a lower measure to each step of
  main, `OthersGetOn` none to the rest; the RPCs count only because none begins once
  GracefulStop is waiting.

Of `ServerProcess`:
* `ImplementsLifecycle`: every step of the process is a step of `ServerLifecycle` or
  leaves it alone; `ProcessLeaksNothing`, `ProcessKeepsDatabase`,
  `ProcessSurvives`, `ProcessEndsClean` and `ProcessStops` carry its theorems over.
* `ProcessTypeCorrect`, `AttemptsCorrect`: from `LoopsInv`, which ties the place of a
  loop to the attempts it has made: the bound holds only because a loop that is about
  to try has one left.

`SocialRelationsProofs`
* `SocialImplementsFollowSet`, `SocialBoardCorrect`, `SocialGapCorrect`: every step is one of `FollowGraph` or
  leaves it alone, so its theorems carry over.
* `SocialTypeCorrect`: one lemma per variable.
* `BlacklistImplementsBlockSet`: `SocialSpec => BlockSpec`. A pair is in the abstract set
  while it has a row; a second row and the removal of none are stutters there.
* `QuietAnswersCorrect`: `SocialSpec => []QuietAnswersAreExact`, with `QuietInv`: while nobody
  has written the rows a question is about, each field it has read agrees with them,
  so a reply put together from several reads is exact if the last read finds it quiet.

`AuditTrailProofs`, `AdminConsoleProofs`
* `TrailWalkComplete`, `WalkComplete`, `ShortPageIsLast`: from `TrailInv`. While the walk is on,
  an entry that was due and has not been seen is at or behind the next page
  (`NotYetSeenIsAhead`). Arrivals only raise ranks (`RecordKeeps`), so none slips past;
  an empty page proves there is none left.
* `AdminActsBounded`: from `GateInv`, three bounds that add up: a login in progress read
  the role at most a call ago, a token is good for at most its life after such a
  login, and a call let in before the token ends is over a call later.
* `ListDriftBounded`: from `ListInv`: total and page, once read, are each what the
  table gives now but for the rows that have changed since (`CountWas`, `PageWas`).
* `ConsoleTypeCorrect`: with `JobInv`: work is in progress only in a call that was let in,
  and the page that is being read is the walk's.

What holds in place of the five statements that do not:

| Statement | Run | Theorem |
|---|---|---|
| only administrators change role and status | `accounts_stale_write` | `ChangesExplained`: they change otherwise only when an update puts back a copy that went stale |
| deleting a user deletes the tokens | `accounts_delete_race` | `LeftTokensCorrect`, `ShutOutForGood`: what escapes the deletion is a login that was in progress, or a DELETE that failed |
| a call deletes its own code | `registration_code_deleted` | `SpentForGood`: a code that is gone, by whoever's deletion, opens nothing |
| Follow is idempotent on the board | `follow_score` | `GapCorrect`: the gap opens by a repeat, a late Unfollow or a failure only |
| a listen failure takes the normal shutdown | `lifecycle_listen` | `ListenFailureIsClean`: what is open is released all the same |

Only model-checked: the liveness properties (`WarmUpEnds`, `StopIsHeeded`,
`BoardsSettle`). Fairness speaks of ENABLED and a measure that falls needs an induction,
and both are out of the prover's reach. For the first two the rest of the argument is
proved: `WarmUpGetsOn` and `StopGetsOn` say that a natural number falls with each of the
steps that fairness promises, so that only "such a step can be taken until the end" is
left to the runs. The loop of a board counts its attempts, and `AttemptsCorrect` proves
the bound of the count. The requests of `Accounts` end without an argument, being fixed
sequences of a few statements in which every path replies: no run asks that.

## 5. Not modelled

* Captcha and the interceptors: shared library code. What they promise is named
  where it is used (deadlines, the life of a JWT).
* bcrypt, avatars, the texts and codes of replies, logs: no property here is about
  them. `internal/errors` is constants and constructors; no behaviour depends on it.
* Tracing and hot configuration are opened and closed with the rest of the process
  and do nothing else here. Configuration values are CONSTANTS.
* Retries and circuit breaking inside the ranking client (shared library): a call
  is applied at most once in the model.
* The filters of a listing by status, and of the log by target type and operator:
  they narrow the rows the way role and action do.
* GetUser by name, which reads the same row under its other key. CleanExpiredTokens, which
  nobody calls.
* The generated protocol code.

## 6. Plan

1. (done) Accounts, Sessions and their proofs; Registration with its formats;
   FollowGraph; ServerLifecycle.
2. (done) Social relations beside the follow graph; the goroutines beside the
   servers; the administrative calls, the log and the listings; their proofs.
3. (done) The proofs of Registration, with every fault and any number of restarts.
4. (done) Theorems in place of the statements that do not hold, and the safety part of
   what ends.
5. Left: the filters of a listing by status and of the log by target type and operator,
   if a property comes to be about them; larger instances of the runs.
