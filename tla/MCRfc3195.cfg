SPECIFICATION Spec
CONSTANTS
    Headers <- SmallHeaders
    Entries <- SmallEntries
    MaxUnits = 6
    Lookalikes <- LooksLikeNUL
    MaxRead = 2
    MaxFaults = 1
    DefaultMaxPayloadSize = 2
    MaxLengths = {1}
    MaxParses = 2
INVARIANTS
    TypeOK
    FramesCutExactly
    ExchangeEndsOnce
    OneResultPerMessage
    PriorityWithoutLoss
PROPERTIES
    ParseReturns
CHECK_DEADLOCK FALSE
