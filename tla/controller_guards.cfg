CONSTANTS
    Shells = {s1}
    Workers = {w1}
    None = None
    Specs <- Mixed
    Kinds = {"fault", "crash", "edit", "unready", "evict", "lag"}
    MaxTrouble = 1
    MaxShells = 1
SPECIFICATION Spec
INVARIANTS TypeOK  LostWorkersNoticed
PROPERTIES FinalizerGuards UserWritesStand ControllerKeepsLife
CHECK_DEADLOCK FALSE
