CONSTANTS
    i1 = i1
    Pods = {w1}
    Shells = {s1}
    Images = {i1}
    None = None
    ImageOf <- OneImage
    ShellImage <- OneShellImage
    CoreLimit = 1
    MaxLimit = 1
    Kinds = {"status", "delete", "crash", "scalein"}
    MaxTrouble = 1
    MaxShells = 2
SPECIFICATION FairSpec
PROPERTIES IdleWorkersOffered DeletedWorkersGo SendersProceed
CHECK_DEADLOCK FALSE
