SPECIFICATION Spec
CONSTANTS
    Size = 3
    Pointers = {f1, f2, f3}
    NULL = NULL
    Headers <- QuietHeaders
    LinkTx = "console"
    LinkRx = "null"
    HasJoystick = FALSE
CHECK_DEADLOCK FALSE
SYMMETRY Symmetry
INVARIANT
    BlockedOnlyWhileEmpty
