SPECIFICATION Spec
CONSTANTS
    N = 3
    Waitings <- MCChain
    MaxDefers = {64}
    Failing = FALSE
INVARIANT ResultRight
