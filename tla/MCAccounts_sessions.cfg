\* Two users; logins race logouts, deletions and admin writes.
CONSTANTS
    r1 = r1  r2 = r2  r3 = r3
    Requests = {r1, r2, r3}
    Users = {u1, u2}
    NoUser = NoUser
    Passwords = {"p1"}
    Names = {}
    AdminRoles = {0}
    AdminStatuses = {1, 2}
    DbFaults = TRUE
SPECIFICATION Spec
SYMMETRY RequestSymmetry
INVARIANTS LogoutIsFinal DeleteIsFinal LeftTokensWereOverlooked
PROPERTIES SessionsSpec LockedOutGetsNoSession
CHECK_DEADLOCK FALSE
