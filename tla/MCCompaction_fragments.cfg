SPECIFICATION Spec
CONSTANTS
    Keys = {1, 2}
    Bottom = 3
    L0Trigger = 1
    L0Stop = 3
    MaxSize = 1
    Configs <- FragmentsCached
    Faults = {}
    MaxFaults = 0
    MaxWrites = 14
    MaxRestarts = 0
INVARIANTS ReadsNewest
CHECK_DEADLOCK FALSE
