\* Two users and two calls; tokens live one tick and calls two, which is enough for
\* a right to outlive its role by a login, a token and a call.  Three log entries in
\* six possible places, pages of every kind: default, one row, some, too large.
CONSTANTS
    r1 = r1  r2 = r2  u1 = u1  u2 = u2
    Requests = {r1, r2}
    Users = {u1, u2}
    NoUser = NoUser
    NewRoles = {1, 2}
    Expire = 1
    Timeout = 2
    MaxNow = 3
    Ids = {1, 2, 3}
    Stamps = {1, 2}
    Actions = {"update_user", "article"}
    AnyAction = AnyAction
    AdminAction = "update_user"
    PageSizes = {0, 1, 5}
    DefaultSize = 2
    MaxSize = 4
    AskedRoles = {0, 257}
    AskedPages = {0, 2}
SPECIFICATION ConsoleSpec
SYMMETRY Symmetry
CONSTRAINT OneTopic
INVARIANTS ConsoleTypeOK AdminActsAreRecent WalkMissesNothing ShortPageKeepsPromise ListDriftIsBounded
CHECK_DEADLOCK FALSE
