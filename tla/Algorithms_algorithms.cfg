CONSTANTS
    NULL = NULL
    ETHER_MIN_LEN = 3
    ETHER_MAX_LEN = 1518
    ROW_BYTES = 48
    MaxTokens = 2
    RECEIVE_LENGTH = 4
    RESPONSE_LENGTH = 8
    HelpText = 5
    NotFoundText = 3
    StopText = 2
    ErrorText = 4
    Bytes = {0, 10, 58, 255}
    MaxBytes = 5
    LongFrames = {1272, 1273, 1518, 1519}
    Beyond = {7, 58}
    LongestFrame = 184
    READ_BUFFER_SIZE = 1700
    Scales = {1, 2, 6, 25}
    PRINT_SCALE = 6
    MaxWidth = 3
    WideWidth = 9
    MaxDatagram = 5
    MaxData = 7
    MaxCount = 120
SPECIFICATION Spec
INVARIANTS
    FrameSurvivesFile
    CameraKeepsFrame
    FrameFitsEveryMedium
    PrintedIsCode
    CommandIsAnswered
    StringsAreClosed
    DisplayShowsCount
