SPECIFICATION FairSpec
CONSTANTS
    N = 2
    MaxGap = 1
    MaxHeight = 1
    Word = 4
    Selectors = {s1}
    Waiters = {w1}
    Target = 1
    s1 = s1
    w1 = w1
INVARIANT
    WaitOutcome
PROPERTIES
    Failover
    WaitSucceeds
    CancelledWaitReturns
    SelectReturns
