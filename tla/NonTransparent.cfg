SPECIFICATION Spec
CONSTANTS
    NTFamilies = {"rfc5424", "rfc3164", "auto"}
    MaxLines = 3
    NTMaxParses = 2
INVARIANTS
    TypeOK
    LinesConserved
    RestIsLastAndRefused
    LeakIsBounded
PROPERTIES
    ParseReturns
CHECK_DEADLOCK FALSE
