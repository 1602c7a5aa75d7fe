SPECIFICATION Spec
CONSTANTS
    Runs = {r1}
    NoRun = NoRun
    Names <- MCNames
    Spare = {s1}
    NoFile = NoFile
    Texts <- MCTexts
    UserTexts <- MCUserTexts
    Partial = Partial
    Torn = Torn
    Unborn = Unborn
    Given <- MCGiven
    Windows = FALSE
    Faults = TRUE
    MaxEdits = 2
    MaxCrashes = 1
    KeyFile = kkey
    MetaFile = kmeta
    XchaFile = xkey
    Passwords <- MCPasswords
    NoPassword = NoPassword
    MakeMeta <- MCMakeMeta
    KeyOf <- MCKeyOf
    Describes <- MCDescribes
    RandomKey <- MCRandomKey
    Reject = Reject
    kkey = kkey
    kmeta = kmeta
    xkey = xkey
    old = old
    p1 = p1
    p2 = p2
INVARIANTS
    TypeOK
    KeyHasRecipe
    PairIsDurable
    ReportIsTrue
PROPERTIES
    RestoredExact
    KeysNeverReplaced
    ImplementsAtomicFolder
CHECK_DEADLOCK FALSE
