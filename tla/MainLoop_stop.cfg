SPECIFICATION Spec
CONSTANTS
    TS_MAX = 6
    TS_NEVER = 20
    Objects <- MCObjects
    Rank <- MCRank
    Passes <- MCPasses
    Thread <- MCTwo
    Threads = 2
    InService <- MCAlways
    OutService <- MCForever
    LateInService = {}
    StartTime = 2
    StopTime = 3
    IterationLimit = 2
    MinimumTimestep = 1
    RealTime = FALSE
    Reach = 2
    ObjectFaults <- MCFaults
    CommitFaults <- MCInvalid
    Faulty = {"signal", "instance", "transform", "precommit", "sync_script", "term_script"}
    DeltaWishes <- MCDeltaMay
    DeltaSeconds <- MCDeltaSeconds
INVARIANT StopTimeKept
INVARIANT FailureReported
INVARIANT PrecommitFirst
PROPERTY NoEventSkipped
PROPERTY ClockMonotone
PROPERTY ImplementsEventClock
