SPECIFICATION FairSpec
CONSTANTS
    TS_MAX = 7
    TS_NEVER = 20
    Objects <- MCObjects
    Rank <- MCRank
    Passes <- MCPasses
    Thread <- MCOne
    Threads = 1
    InService <- MCInService
    OutService <- MCOutService
    LateInService <- MCLate
    StartTime = 2
    StopTime = 5
    IterationLimit = 2
    MinimumTimestep = 2
    RealTime = FALSE
    Reach = 2
    ObjectFaults <- MCInvalid
    CommitFaults = {}
    Faulty = {}
    DeltaWishes <- MCDelta
    DeltaSeconds = {1}
INVARIANT TypeOK
PROPERTY Terminates
