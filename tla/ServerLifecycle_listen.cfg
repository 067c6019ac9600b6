\* One server that cannot listen is enough.
CONSTANT MaxCalls = 1
SPECIFICATION Spec
INVARIANTS ListenFailureShutsDown
CHECK_DEADLOCK FALSE
