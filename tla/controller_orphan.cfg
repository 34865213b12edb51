CONSTANTS
    Shells = {s1}
    Workers = {w1}
    None = None
    Specs <- Plain
    Kinds = {}
    MaxTrouble = 1
    MaxShells = 1
SPECIFICATION Spec
INVARIANT WorkersReleased
CHECK_DEADLOCK FALSE
