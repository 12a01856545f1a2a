SPECIFICATION Spec
CONSTANTS
    call = call
    batch = batch
    notify = notify
    back = back
    c1 = c1
    b1 = b1
    b2 = b2
    r1 = r1
    p1 = p1
    p2 = p2
    Ops = {batch, notify, back}
    NoOp = NoOp
    Ids <- MCIds
    IdsOf <- MCIdsOf
    Timed = {batch}
    Procs = {p1, p2}
    Reverse <- MCReverse
    MaxConns = 3
    Closers = {k1}
    k1 = k1
INVARIANTS
    TypeOK
    WriteLock
    RespHasRoom
    OneReader
    WaitersTracked
    NoLeakedConn
CHECK_DEADLOCK FALSE
PROPERTY ContractKept
