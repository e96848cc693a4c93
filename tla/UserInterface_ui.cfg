SPECIFICATION FairSpec
CONSTANTS
    DEBOUNCE_DELAY_MS = 3
    DEBOUNCE_DELAY_2_MS = 2
    DEBOUNCE_RELEASE_MS = 2
    POLL_DELAY = 1
    PollLate = 1
    IntLimit = 6
    MaxTime = 13
    Writers = {"link_tx"}
    Actions = {"RX_BUSY", "TX_BUSY_SLOW"}
    MaxReports = 1
    FRAMES_PER_SECOND = 1
    BeepSamples = 3
    SlowBusySamples = 2
    BufferSize = 2
INVARIANTS
    TypeOK
    PressIsAnswered
PROPERTIES
    ResetsAreSpaced
    SoundIsWhole
    FlashEnds
    SlotIsFreed
CHECK_DEADLOCK FALSE
