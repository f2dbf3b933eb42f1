SPECIFICATION FairSpec
CONSTANTS
    MaxServers = 1
    MaxMessages = 4
    MaxManualTicks = 0
    MayStop = FALSE
    Capacity = 2
    Messages <- MCSession
    Addr <- MCAddr
    Entry <- MCEntry
    Succ <- MCSucc
    Halting <- MCHalting
    Faulting <- MCFaulting
    FetchTicks = 2
    InstrTicks = 4
    SupportsExceptions = TRUE
    Null = Null
INVARIANTS TypeOK OneTickChain NoLostWakeup SimulatorNeverBlocks EveryMessageAnsweredOnce
PROPERTIES ReportIsExact StepIsOneInstruction BreakpointHit RunsEnd
CHECK_DEADLOCK FALSE
