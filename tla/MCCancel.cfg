SPECIFICATION Spec
CONSTANTS
    Runs = {r1}
    NoRun = NoRun
    Names <- MCNames
    Spare = {s1}
    NoFile = NoFile
    Texts <- MCTexts
    UserTexts <- MCUserTexts
    Partial = Partial
    Torn = Torn
    Unborn = Unborn
    Given <- MCGiven
    Windows = FALSE
    Faults = TRUE
    MaxEdits = 0
    MaxCrashes = 0
    Commands <- MCCommands
    Protected <- MCProtected
    KeyName <- MCKeyName
    Xform <- MCXform
    KeyFits <- MCKeyFits
    Reject = Reject
    a = a
    b = b
    kkey = kkey
    xkey = xkey
    MaxLayers = 2
    MCOps = {"xor", "enc", "dec"}
INVARIANT
    CancelledPublishesNothing
CHECK_DEADLOCK FALSE
