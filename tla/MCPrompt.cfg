SPECIFICATION Spec
CONSTANTS
    MaxKeys = 4
    Repeats = {1, 2}
    LinuxLines <- MCLinuxLines
    None = None
INVARIANTS
    LineAsTyped
    ModeRestored
PROPERTY
    CancelEnds
CHECK_DEADLOCK FALSE
