SPECIFICATION FairSpec
CONSTANTS
    ThreadCount = 3
    Lists = 2
    Size <- MCTwoLists
    Modulus = 2
    Spurious = 2
INVARIANT PoolInv
INVARIANT OneListAtATime
PROPERTY SyncedOnce
PROPERTY ImplementsBarrier
PROPERTY EveryListVisited
