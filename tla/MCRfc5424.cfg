SPECIFICATION Spec
CONSTANTS
    Goroutines = {g1, g2}
    NameRange <- SmallRange
    Configs <- SmallConfigs
    Alphabet <- SmallAlphabet
    Texts <- SmallTexts
    Values <- SmallValues
    Numbers = {0, 199}
    MaxSets = 4
    MaxTokens = 26
    MaxMessage = 2
    MaxCalls = 2
INVARIANTS
    AsIfAlone
    LosesAtMostLast
    RoundTrip
PROPERTIES
    CallsReturn
CHECK_DEADLOCK FALSE
