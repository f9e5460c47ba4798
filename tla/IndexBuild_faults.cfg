SPECIFICATION Spec
CONSTANTS
    d1 = d1
    d2 = d2
    d3 = d3
    a = a
    b = b
    NoToken = NoToken
    Titles <- MCTitles
    Tokens <- MCTokens
    Bodies <- MCFaultBodies
    ShortTokens <- MCRefusedTokens
    RejectedTitles <- MCRejectedTitles
    BatchThreshold = 2
    RepeatedTitles <- MCRepeatedTitles
    RefusedTokens <- MCRefusedTokens
    LongestRead = 2
    MaxRunDocs = 3
    MaxRuns = 2
INVARIANTS OnlySuspectsAreGarbled PublishedPostingsAreTrue 
PROPERTIES NumbersStay PostingsStay
CHECK_DEADLOCK FALSE
