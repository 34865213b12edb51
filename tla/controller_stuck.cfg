CONSTANTS
    Shells = {s1}
    Workers = {w1}
    None = None
    Specs <- Plain
    Kinds = {"fault"}
    MaxTrouble = 1
    MaxShells = 1
SPECIFICATION FairSpec
PROPERTIES DeletedShellsGo
CHECK_DEADLOCK FALSE
