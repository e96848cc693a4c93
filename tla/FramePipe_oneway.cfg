SPECIFICATION Spec
CONSTANTS
    Size = 3
    Pointers = {f1, f2, f3, f4}
    NULL = NULL
    Headers <- NoisyHeaders
    LinkTx = "console"
    LinkRx = "null"
    HasJoystick = TRUE
CHECK_DEADLOCK FALSE
SYMMETRY Symmetry
INVARIANTS
    TypeOK
    SingleOwner
    NoDanglingFrame
    OnlyAllowedFramesLeave
    IndInv
PROPERTY
    ImplementsChannel
