CONSTANTS
    i1 = i1
    Pods = {w1, w2}
    Shells = {s1}
    Images = {i1}
    None = None
    ImageOf <- OneImage
    ShellImage <- OneShellImage
    CoreLimit = 1
    MaxLimit = 1
    Kinds = {"status", "delete", "fault", "crash", "scalein"}
    MaxTrouble = 1
    MaxShells = 1
SPECIFICATION CSpec
INVARIANTS TypeOK WorkersCoherent
PROPERTIES ScaleInKeepsCore PoolKeepsLife
SYMMETRY Names
CHECK_DEADLOCK FALSE
