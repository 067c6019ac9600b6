\* Nothing fails: a registration that overlaps the sending of a new code.
CONSTANTS
    r1 = r1  r2 = r2  r3 = r3
    Requests = {r1, r2}
    Usernames <- Texts
    Emails <- Texts
    Passwords <- PasswordTexts
    Letters = {"n", "m"}
    OtherLetters = {"wide"}
    Digits = {"1"}
    Underscore = "_"
    At = "@"
    OtherWidth = 2
    MinUsername = 2  MaxUsername = 3
    MinEmail = 3     MaxEmail = 3
    MinPassword = 2  MaxPassword = 3
    OldAccounts <- OneAccount
    NoCode = NoCode
    Earlier = Earlier
    PageSize = 1
    MaxCrashes = 0
    Faults = FALSE
SPECIFICATION Spec
PROPERTIES DeletesOnlyItsCode
CHECK_DEADLOCK FALSE
