SPECIFICATION Spec
CONSTANTS
    Options3164 <- Repository3164
    Options5424 <- Repository5424
    MaxCalls = 2
INVARIANTS
    TiersKeptApart
    WholeMessageWins
    RecoversWhatItCan
    RawMessageStable
PROPERTIES
    ParseEnds
CHECK_DEADLOCK FALSE
