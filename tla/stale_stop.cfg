SPECIFICATION FairSpec
CONSTANTS
    MaxServers = 1
    MaxMessages = 3
    MaxManualTicks = 0
    MayStop = FALSE
    Capacity = 2
    Messages <- MCRace
    Addr <- MCTwo
    Entry <- MCTwoEntry
    Succ <- MCTwoSucc
    Halting <- MCNone
    Faulting <- MCNone
    FetchTicks = 2
    InstrTicks = 4
    SupportsExceptions = TRUE
    Null = Null
PROPERTY StopShowsNextInstruction
CHECK_DEADLOCK FALSE
