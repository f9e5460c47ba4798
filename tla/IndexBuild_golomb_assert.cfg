SPECIFICATION Spec
CONSTANTS
    d1 = d1
    d2 = d2
    d3 = d3
    a = a
    b = b
    NoToken = NoToken
    Titles <- MCTwoTitles
    Tokens <- MCTokens
    Bodies <- MCTwoBodies
    ShortTokens <- MCNoTokens
    RejectedTitles <- MCNoTitles
    BatchThreshold = 2
    RepeatedTitles <- MCTwoTitles
    RefusedTokens <- MCNoTokens
    LongestRead = 9
    MaxRunDocs = 2
    MaxRuns = 1
INVARIANTS GolombModulusIsPositive
CHECK_DEADLOCK FALSE
