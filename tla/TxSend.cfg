SPECIFICATION Spec
CONSTANTS
    s1 = s1
    s2 = s2
    p1 = p1
    p2 = p2
    n1 = n1
    n2 = n2
    Senders = {s1, s2}
    Payloads = {p1, p2}
    Nodes = {n1, n2}
    NumAccounts = 1
    Blocks = 2
    Count = 2
    MaxHeight = 3
SYMMETRY Symmetry
INVARIANTS
    NoHole
    ConfirmHonest
    NonceOnce
CHECK_DEADLOCK FALSE
