SPECIFICATION Spec
CONSTANTS
    Runs = {r1, r2}
    NoRun = NoRun
    Names <- MCNames
    Spare = {s1}
    NoFile = NoFile
    Texts <- MCTexts
    UserTexts <- MCUserTexts
    Partial = Partial
    Torn = Torn
    Unborn = Unborn
    Given <- MCGiven
    Windows = FALSE
    Faults = TRUE
    MaxEdits = 0
    MaxCrashes = 1
    Commands <- MCCommands
    Protected <- MCProtected
    KeyName <- MCKeyName
    Xform <- MCXform
    KeyFits <- MCKeyFits
    Reject = Reject
    a = a
    b = b
    kkey = kkey
    xkey = xkey
    MaxLayers = 2
    MCOps = {"enc", "dec"}
INVARIANT
    SuccessIsDurable
PROPERTY
    EveryRunEnds
CHECK_DEADLOCK FALSE
