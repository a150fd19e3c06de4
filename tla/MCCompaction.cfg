SPECIFICATION FairSpec
CONSTANTS
    Keys = {1, 2}
    Bottom = 3
    L0Trigger = 0
    L0Stop = 2
    MaxSize = 1
    Configs <- SafeConfigs
    Faults = {"compact", "commit", "delete", "rebuild"}
    MaxFaults = 1
    MaxWrites = 6
    MaxRestarts = 1
INVARIANTS ReadsNewest HandlesReadable LevelsDisjoint FilesExist
PROPERTIES StallEnds
CHECK_DEADLOCK FALSE
