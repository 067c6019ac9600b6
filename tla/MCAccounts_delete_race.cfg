\* No statement fails: a login that overlaps the deletion is enough.
CONSTANTS
    r1 = r1  r2 = r2  r3 = r3
    Requests = {r1, r2}
    Users = {u1, u2}
    NoUser = NoUser
    Passwords = {"p1"}
    Names = {}
    AdminRoles = {0}
    AdminStatuses = {1, 2}
    DbFaults = FALSE
SPECIFICATION Spec
INVARIANTS DeletedUserHasNoToken
CHECK_DEADLOCK FALSE
