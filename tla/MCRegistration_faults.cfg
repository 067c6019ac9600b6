\* Redis, the database and the mail server may fail in any way at any step of
\* two requests and of the warm-up.
CONSTANTS
    r1 = r1  r2 = r2  r3 = r3
    Requests = {r1, r2}
    Usernames <- Texts
    Emails <- Texts
    Passwords <- PasswordTexts
    Letters = {"n", "m"}
    OtherLetters = {"wide"}
    Digits = {"1"}
    Underscore = "_"
    At = "@"
    OtherWidth = 2
    MinUsername = 2  MaxUsername = 3
    MinEmail = 3     MaxEmail = 3
    MinPassword = 2  MaxPassword = 3
    OldAccounts <- NoAccounts
    NoCode = NoCode
    Earlier = Earlier
    PageSize = 1
    MaxCrashes = 0
    Faults = TRUE
SPECIFICATION Spec
SYMMETRY RequestSymmetry
INVARIANTS TypeOK CodeOpensOneAccount LoginFindsOneRow OneSendPerWindow
PROPERTIES DirectorySpec SpentCodesStaySpent
CHECK_DEADLOCK FALSE
