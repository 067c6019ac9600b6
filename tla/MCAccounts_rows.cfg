\* One user; reads and writes of the row interleave.
CONSTANTS
    r1 = r1  r2 = r2  r3 = r3
    Requests = {r1, r2, r3}
    Users = {u1}
    NoUser = NoUser
    Passwords = {"p1", "p2"}
    Names = {"n1"}
    AdminRoles = {0, 2}
    AdminStatuses = {0, 2, 256}
    DbFaults = TRUE
SPECIFICATION Spec
SYMMETRY RequestSymmetry
INVARIANTS TypeOK
PROPERTIES ChangesAreExplained GoneRowsAreFrozen AdminKeepsPassword FreshAnswerIsStored ClearedOnlyByWrapping
CHECK_DEADLOCK FALSE
