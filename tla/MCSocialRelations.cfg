\* Two users, two calls; every read, write and push may fail, and some rows are
\* there from before.
CONSTANTS
    r1 = r1  r2 = r2  r3 = r3  u1 = u1  u2 = u2
    Requests = {r1, r2}
    Users = {u1, u2}
    Zero = Zero
    Strangers = {x}
    x = x
    Faults = TRUE
    Blacklists <- OldBlacklists
SPECIFICATION SocialSpec
SYMMETRY Symmetry
CONSTRAINTS OneTableAtATime StrangersAmongThemselves
INVARIANTS SocialTypeOK BoardFollowsTable QuietAnswersAreExact
PROPERTIES FollowSpec GapHasACause BlockSpec
CHECK_DEADLOCK FALSE
