SYMMETRY SelectorSymmetry
SPECIFICATION Spec
CONSTANTS
    N = 3
    MaxGap = 0
    MaxHeight = 1
    Word = 4
    Selectors = {s1, s2}
    Waiters = {}
    Target = 1
    s1 = s1
    s2 = s2
INVARIANT
    SelectSound
