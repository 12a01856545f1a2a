SPECIFICATION Spec
CONSTANTS
    MaxNotes = 3
    MaxBuffer = 1
    Breaks = TRUE
    u1 = u1
    u2 = u2
    Users = {u1, u2}
SYMMETRY UserSymmetry
INVARIANTS
    SubTypeOK
    UnsubscribeFindsIt
    ErrChannel
    SubscribedIsListed
    DispatchUnblocked
PROPERTY
    FeedHolds
CHECK_DEADLOCK FALSE
