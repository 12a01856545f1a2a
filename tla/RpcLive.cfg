SPECIFICATION FairSpec
CONSTANTS
    call = call
    batch = batch
    notify = notify
    back = back
    c1 = c1
    b1 = b1
    b2 = b2
    r1 = r1
    p1 = p1
    p2 = p2
    Ops = {call, batch}
    NoOp = NoOp
    Ids <- MCIds
    IdsOf <- MCIdsOf
    Timed = {call}
    Procs = {p1}
    Reverse <- MCReverse
    MaxConns = 2
    Closers = {k1}
    k1 = k1
PROPERTIES
    TimedReturns
    CloseReturns
    QuitWakesCallers
    LockComesBack
    DispatchComesBack
CHECK_DEADLOCK FALSE
