SPECIFICATION Spec
CONSTANTS
    Addr = {1}
    Environments = {"emulator"}
    MaxRequests = 0
    MayFail = FALSE
    Null = Null
INVARIANT DisconnectCloses
CHECK_DEADLOCK FALSE
