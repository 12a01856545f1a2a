SPECIFICATION FairSpec
CONSTANTS
    call = call
    batch = batch
    notify = notify
    back = back
    c1 = c1
    b1 = b1
    b2 = b2
    r1 = r1
    p1 = p1
    p2 = p2
    Ops = {back}
    NoOp = NoOp
    Ids <- MCIds
    IdsOf <- MCIdsOf
    Timed = {}
    Procs = {p2}
    Reverse <- MCReverse
    MaxConns = 1
    Closers = {}
PROPERTY
    DispatchComesBack
CHECK_DEADLOCK FALSE
