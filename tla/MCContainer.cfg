SPECIFICATION Spec
CONSTANTS
    Chunk = 2
    Overhead = 1
    Lengths <- MCLengths
    MaxResizes = 1
    MaxDamages = 1
    MaxLength = 4
INVARIANTS
    TypeOK
    AcceptedIsExact
PROPERTIES
    RoundTrip
    EveryPassEnds
CHECK_DEADLOCK FALSE
