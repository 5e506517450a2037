SPECIFICATION Spec
CONSTANTS
    N = 4
    Waitings <- MCAny
    MaxDefers = {0, 1}
    Failing = TRUE
INVARIANT ResultRight
INVARIANT DeferralKept
