SPECIFICATION Spec
CONSTANTS
    Counts <- MCCounts
    ThreadCount = 2
    MinItems = 1
    InService = 2
    OutService = 2
    Late <- MCLate
    LastTime = 3
    Delays = {2}
    Failing = TRUE
    EarlyThreads = FALSE
INVARIANT EachCommitted
INVARIANT ObserversLast
INVARIANT AnswerKept
PROPERTY Returns
