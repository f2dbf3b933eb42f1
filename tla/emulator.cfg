SPECIFICATION FairSpec
CONSTANTS
    MaxMessages = 4
    MaxInits = 2
    MayStop = TRUE
    Capacity = 3
    Messages <- ClientMessages
    Addr <- MCAddr
    Odd = Odd
    Follow <- Next4
    Succ <- Next4
    Programs <- MCPrograms
    Kind <- MCKind
    Phases <- MCPhases
    Entry <- MCEntry
    Entering <- MCEntering
    Horizon = 30
    Null = Null
INVARIANT TypeOK
PROPERTIES ImplementsTarget StepIsOneInstruction BreakpointHit RunEndsAtHalt
CHECK_DEADLOCK FALSE
