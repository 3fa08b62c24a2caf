SPECIFICATION Spec
CONSTANTS
    Keys <- ChordKeys
    PauseWait = 8
    DrainWait = 1
    ScreenLag = 1
    DrainMayFail = FALSE
    CallMayFail = FALSE
    StopAllowed = FALSE
    Sessions = FALSE
INVARIANTS
    OneScanoutWriter
