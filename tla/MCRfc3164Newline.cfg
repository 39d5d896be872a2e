SPECIFICATION Spec
CONSTANTS
    Configs <- SmallConfigs
    Alphabet <- SmallAlphabet
    TagRange = 2
    MaxPart = 3
    MaxCalls = 1
INVARIANTS
    NewlineEndsMessage
CHECK_DEADLOCK FALSE
