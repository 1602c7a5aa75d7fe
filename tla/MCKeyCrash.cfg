SPECIFICATION Spec
CONSTANTS
    Runs = {r1, r2}
    NoRun = NoRun
    Names <- MCNames
    Spare = {s1}
    NoFile = NoFile
    Texts <- MCTexts
    UserTexts <- MCUserTexts
    Partial = Partial
    Torn = Torn
    Unborn = Unborn
    Given <- MCGiven
    Windows = FALSE
    Faults = FALSE
    MaxEdits = 0
    MaxCrashes = 2
    KeyFile = kkey
    MetaFile = kmeta
    XchaFile = xkey
    Passwords <- MCPasswords
    NoPassword = NoPassword
    MakeMeta <- MCMakeMeta
    KeyOf <- MCKeyOf
    Describes <- MCDescribes
    RandomKey <- MCRandomKey
    Reject = Reject
    kkey = kkey
    kmeta = kmeta
    xkey = xkey
    old = old
    p1 = p1
    p2 = p2
INVARIANTS
    KeyHasRecipe
PROPERTIES
    RestoreSucceeds
CHECK_DEADLOCK FALSE
