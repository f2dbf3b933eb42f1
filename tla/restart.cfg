SPECIFICATION FairSpec
CONSTANTS
    MaxServers = 2
    MaxMessages = 2
    MaxManualTicks = 1
    MayStop = TRUE
    Capacity = 1
    Messages <- MCRestart
    Addr <- MCZero
    Entry <- MCZeroSucc
    Succ <- MCZeroSucc
    Halting <- MCNone
    Faulting <- MCNone
    FetchTicks = 1
    InstrTicks = 2
    SupportsExceptions = TRUE
    Null = Null
PROPERTY StopEndsTicking
CHECK_DEADLOCK FALSE
