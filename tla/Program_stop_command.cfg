SPECIFICATION FairSpec
CONSTANTS
    Capacity = 1
    MaxOpenFiles = 1
    Stations = {{}, {"files_tx", "files_rx", "joystick"}, {"printer", "camera", "joystick"}, {"camera"}}
PROPERTIES
    StopEndsProgram
CHECK_DEADLOCK FALSE
