SPECIFICATION FairSpec
CONSTANTS
    MaxFrames = 3
    MAX_WRITE_COUNT = 2
    MaxOpenDirs = 2
    Faults = {"tx", "read", "rx", "umount", "reset"}
    MaxFaults = 2
INVARIANTS
    TypeOK
    NothingLost
    OnceInOrder
    FileInOrder
PROPERTIES
    MediumKeepsFrames
    TransferEnds
    DeviceIsReleased
CHECK_DEADLOCK FALSE
