SPECIFICATION FairSpec
CONSTANTS
    Addr = {1}
    Environments = {"external", "emulator"}
    MaxRequests = 2
    MayFail = TRUE
    Null = Null
INVARIANTS TypeOK StoppedIsStopped
PROPERTIES RunsWithBreakpoints TraceOfItsStop LaunchesAndPauses
CHECK_DEADLOCK FALSE
