\* One board (the loops are alike and share nothing), three attempts instead of
\* five, one RPC at a time.
CONSTANTS
    fans = fans
    Boards = {fans}
    MaxAttempts = 3
    MaxCalls = 1
SPECIFICATION ProcessSpec
INVARIANTS ProcessTypeOK NothingLeaks DatabaseOutlivesCalls OneFailureIsSurvived UndeclaredOnlyAfterAllAttempts
PROPERTIES StopIsHeeded StopGetsOn BoardsSettle
CHECK_DEADLOCK FALSE
