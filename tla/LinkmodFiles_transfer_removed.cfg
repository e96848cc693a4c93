SPECIFICATION FairSpec
CONSTANTS
    MaxFrames = 3
    MAX_WRITE_COUNT = 2
    MaxOpenDirs = 2
    Faults = {"umount"}
    MaxFaults = 1
PROPERTIES
    ReadyOnlyAfterRemoval
CHECK_DEADLOCK FALSE
