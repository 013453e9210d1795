SPECIFICATION Spec
CONSTANTS
    XLEN = 8
    WLEN = 4
    BitXor <- MCXor
    BitAnd <- MCAnd
    BitOr <- MCOr
    AddrSpace = 256
    MAX_REGIONS = 8
    Added <- MCAdded
INVARIANTS
    ImmediatesMatchIsa
    EveryBitCounts
    ArithmeticLaws
    AmoOnWords
    AccessInBounds
    EntryIsLoaded
CHECK_DEADLOCK FALSE
