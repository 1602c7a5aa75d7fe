SPECIFICATION Spec
CONSTANTS
    Runs = {r1}
    NoRun = NoRun
    Names <- MCNames
    Spare = {s1}
    NoFile = NoFile
    Texts <- MCTexts
    UserTexts <- MCUserTexts
    Partial = Partial
    Torn = Torn
    Unborn = Unborn
    Given <- MCGiven
    Windows = TRUE
    Faults = TRUE
    MaxEdits = 2
    MaxCrashes = 1
    Commands <- MCCommands
    Protected <- MCProtected
    KeyName <- MCKeyName
    Xform <- MCXform
    KeyFits <- MCKeyFits
    Reject = Reject
    a = a
    b = b
    kkey = kkey
    xkey = xkey
    MaxLayers = 2
    MCOps = {"xor", "enc", "dec"}
PROPERTY
    NothingOverwritten
CHECK_DEADLOCK FALSE
