CONSTANTS
    Threads = {p1, p2, p3}
    Items = {a, b}
    Nil = Nil
SPECIFICATION Spec
INVARIANTS TypeOK DirtyMatchesQueue
PROPERTIES EveryCallReturns Refinement
