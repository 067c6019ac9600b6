\* Nothing fails: one call is enough, to follow someone already followed.
CONSTANTS
    r1 = r1  r2 = r2  r3 = r3  u1 = u1  u2 = u2
    Requests = {r1, r2}
    Users = {u1, u2}
    Zero = Zero
    Strangers = {x}
    x = x
    Faults = FALSE
SPECIFICATION Spec
INVARIANTS ScoreIsFollowers
CHECK_DEADLOCK FALSE
