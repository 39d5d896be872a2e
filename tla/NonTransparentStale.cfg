SPECIFICATION Spec
CONSTANTS
    NTFamilies = {"rfc5424"}
    MaxLines = 2
    NTMaxParses = 2
INVARIANTS
    OwnReaderOnly
CHECK_DEADLOCK FALSE
