SPECIFICATION Spec
CONSTANTS
    MaxInt = 9
    DefaultMaxSize = 3
    HeaderSlack = 3
    MinBufSize = 2
    PooledSizes = {1, 7}
    ErrTextLen = 2
    ReaderErrors = {"err", "EOF"}
    Alphabet = {10, 32, 49, 50, 60}
    MaxStream = 5
    MaxLengths = {0, 1}
    Families = {"auto"}
    MaxParses = 2
INVARIANTS
    NoStaleLookahead
    LengthDiscipline
    PeekFits
PROPERTIES
    ParseReturns
CHECK_DEADLOCK FALSE
