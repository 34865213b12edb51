CONSTANTS
    i1 = i1
    Pods = {w1}
    Shells = {s1, s2}
    Images = {i1}
    None = None
    ImageOf <- OneImage
    ShellImage <- OneShellImage
    CoreLimit = 1
    MaxLimit = 1
    Kinds = {}
    MaxTrouble = 0
    MaxShells = 3
SPECIFICATION CSpec
INVARIANT WorkersExclusive
CHECK_DEADLOCK FALSE
