SPECIFICATION FairSpec
CONSTANTS
    Capacity = 1
    MaxOpenFiles = 1
    Stations = {{}, {"files_tx", "files_rx", "joystick"}, {"printer", "camera", "joystick"}, {"camera"}}
INVARIANTS
    TypeOK
    ReleasedAfterUse
    SoundsLoadedBeforeUse
PROPERTIES
    StopCommandEndsServer
    FailedStartEnds
CHECK_DEADLOCK FALSE
