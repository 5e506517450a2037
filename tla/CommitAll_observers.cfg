SPECIFICATION Spec
CONSTANTS
    Counts <- MCObserved
    ThreadCount = 2
    MinItems = 2
    InService = 1
    OutService = 3
    Late = {}
    LastTime = 2
    Delays = {1}
    Failing = FALSE
    EarlyThreads = FALSE
INVARIANT EachCommitted
