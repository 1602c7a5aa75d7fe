SPECIFICATION Spec
CONSTANTS
    Parts <- MCParts
    Trim <- MCTrim
    Lower <- MCLower
    Upper <- MCUpper
    Fold <- MCFold
    Control = {"a/b"}
    Devices = {"NUL", "COM1", "CONIN$"}
    Temporary = {"xorbox-1"}
    Dashed = {"--in-place", "--repeat-key", "--help"}
    Value <- MCValue
    MaxKeyBytes = 3
    MaxU64 = 5
    CommandLines <- MCCommandLines
INVARIANTS
    ParsedAsSpelled
    NamesAreSafe
    NameComesBack
CHECK_DEADLOCK FALSE
