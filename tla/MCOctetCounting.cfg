SPECIFICATION Spec
CONSTANTS
    MaxInt = 9
    DefaultMaxSize = 3
    HeaderSlack = 3
    MinBufSize = 2
    PooledSizes = {1, 7}
    ErrTextLen = 2
    ReaderErrors = {"EOF"}
    Alphabet = {0, 10, 13, 32, 49, 51, 60}
    MaxStream = 8
    MaxLengths = {0}
    Families = {"rfc5424", "rfc3164"}
    MaxParses = 1
INVARIANTS
    TypeOK
    FirstErrorIsLast
    NothingDropped
    ContentIntact
    RefusesOnlyMalformed
PROPERTIES
    ImplementsFraming
CHECK_DEADLOCK FALSE
