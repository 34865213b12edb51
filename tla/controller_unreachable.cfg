CONSTANTS
    Shells = {s1, s2}
    Workers = {w1}
    None = None
    Specs <- Plain
    Kinds = {"crash"}
    MaxTrouble = 1
    MaxShells = 2
SPECIFICATION Spec
INVARIANT ReadyShellsReachable
SYMMETRY ShellNames
CHECK_DEADLOCK FALSE
