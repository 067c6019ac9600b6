\* Redis and the database may fail at any step of one request and of the warm-up, and
\* the process may crash and restart twice.
CONSTANTS
    r1 = r1  r2 = r2  r3 = r3
    Requests = {r1}
    Usernames <- Texts
    Emails <- Texts
    Passwords <- PasswordTexts
    Letters = {"n", "m"}
    OtherLetters = {"wide"}
    Digits = {"1"}
    Underscore = "_"
    At = "@"
    OtherWidth = 2
    MinUsername = 2  MaxUsername = 3
    MinEmail = 3     MaxEmail = 3
    MinPassword = 2  MaxPassword = 3
    OldAccounts <- OneAccount
    NoCode = NoCode
    Earlier = Earlier
    PageSize = 1
    MaxCrashes = 2
    Faults = TRUE
SPECIFICATION Spec
INVARIANTS BloomCoversUsernames
PROPERTIES WarmUpGetsOn WarmUpEnds
CHECK_DEADLOCK FALSE
