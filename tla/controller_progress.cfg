CONSTANTS
    Shells = {s1}
    Workers = {w1}
    None = None
    Specs <- Timed
    Kinds = {"crash"}
    MaxTrouble = 1
    MaxShells = 1
SPECIFICATION FairSpec
INVARIANTS RoutesRemoved DeletedShellsAttended
PROPERTIES WorkersResetFirst DeletedShellsGo TtlHonoured
CHECK_DEADLOCK FALSE
