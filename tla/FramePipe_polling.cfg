SPECIFICATION FairSpec
CONSTANTS
    Size = 3
    Pointers = {f1, f2}
    NULL = NULL
    Headers <- QuietHeaders
    LinkTx = "files"
    LinkRx = "files"
    HasJoystick = FALSE
CHECK_DEADLOCK FALSE
INVARIANTS
    PollingReaderNeverBlocks
    PopReturnsFrame
PROPERTIES
    SignalWakesReader
    AwakeReaderDrains
