SPECIFICATION Spec
CONSTANTS
    Configs <- SmallConfigs
    Alphabet <- SmallAlphabet
    TagRange = 2
    MaxPart = 3
    MaxCalls = 2
INVARIANTS
    AsFresh
    NothingLost
    SilentOnlyInside
    CiscoOnlyAdds
CHECK_DEADLOCK FALSE
