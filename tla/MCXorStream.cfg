SPECIFICATION Spec
CONSTANTS
    Chunk = 2
    Lengths <- MCLengths
    MaxResizes = 1
    MaxLength = 7
INVARIANTS
    TypeOK
    Aligned
PROPERTIES
    WholeOutput
    FittingKeySuffices
    EveryStreamEnds
CHECK_DEADLOCK FALSE
