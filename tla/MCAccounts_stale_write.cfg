\* No statement fails: two requests are enough to change a role by UpdateUser.
CONSTANTS
    r1 = r1  r2 = r2  r3 = r3
    Requests = {r1, r2}
    Users = {u1}
    NoUser = NoUser
    Passwords = {"p1", "p2"}
    Names = {"n1"}
    AdminRoles = {0, 2}
    AdminStatuses = {0, 2, 256}
    DbFaults = FALSE
SPECIFICATION Spec
PROPERTIES RoleAndStatusOnlyByAdmin
CHECK_DEADLOCK FALSE
