SPECIFICATION Spec
CONSTANTS
    N = 3
    MaxGap = 1
    MaxHeight = 2
    Word = 8
    Selectors = {s1}
    Waiters = {}
    Target = 1
    s1 = s1
INVARIANTS
    TypeOK
    ServedNodeHonest
    SweepInv
PROPERTY
    SweepPublishes
