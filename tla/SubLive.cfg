SPECIFICATION FairSpec
CONSTANTS
    MaxNotes = 2
    MaxBuffer = 1
    Breaks = FALSE
    u1 = u1
    u2 = u2
    Users = {u1}
PROPERTIES
    DispatchReturns
    UnsubscribeReturns
    EndIsReported
    ServerTold
CHECK_DEADLOCK FALSE
