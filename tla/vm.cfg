SPECIFICATION Spec
CONSTANTS
    MaxProcesses = 2
    NFrames = 2
    NDiskPages = 2
    VPages = {0, 1}
    TlbSize = 1
    WordMod = 16
INVARIANTS
    TypeOK
    FramesAccounted
    NumbersAccounted
    VictimMapped
    LruComplete
CHECK_DEADLOCK FALSE
