SPECIFICATION FairSpec
CONSTANTS
    BodySizes = {0, 2}
    MaxMessages = 3
    Modulus = 32
    GarbageLengths = {0, 1, 4, 13, 20}
    RecvTimeout = TRUE
INVARIANTS TypeOK StartsAtFrame
PROPERTIES IsChannel CallReturns
