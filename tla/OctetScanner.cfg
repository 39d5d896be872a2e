SPECIFICATION ScannerSpec
CONSTANTS
    MaxInt = 9
    DefaultMaxSize = 3
    HeaderSlack = 3
    MinBufSize = 2
    PooledSizes = {1, 7}
    ErrTextLen = 2
    ReaderErrors = {"err", "EOF"}
    Alphabet = {0, 10, 32, 49, 50, 60}
    MaxStream = 6
    MaxLengths = {0, 2}
INVARIANTS
    AnnouncedLength
