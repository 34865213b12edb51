CONSTANTS
    i1 = i1
    Pods = {w1, w2}
    Shells = {s1}
    Images = {i1}
    None = None
    ImageOf <- OneImage
    ShellImage <- OneShellImage
    CoreLimit = 1
    MaxLimit = 1
    Kinds = {"fault", "crash"}
    MaxTrouble = 1
    MaxShells = 1
SPECIFICATION FairSpec
PROPERTIES ShellsServed StaleRequestsDropped
CHECK_DEADLOCK FALSE
