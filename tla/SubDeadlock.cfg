SPECIFICATION FairSpec
CONSTANTS
    MaxNotes = 0
    MaxBuffer = 1
    Breaks = TRUE
    u1 = u1
    u2 = u2
    Users = {u1}
PROPERTY
    UnsubscribeExecutes
CHECK_DEADLOCK FALSE
