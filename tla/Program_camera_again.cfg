SPECIFICATION FairSpec
CONSTANTS
    Capacity = 1
    MaxOpenFiles = 2
    Stations = {{"camera", "joystick"}}
PROPERTIES
    NewPictureNeedsPress
CHECK_DEADLOCK FALSE
