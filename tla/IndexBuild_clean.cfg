SPECIFICATION FairSpec
CONSTANTS
    d1 = d1
    d2 = d2
    d3 = d3
    a = a
    b = b
    NoToken = NoToken
    Titles <- MCTitles
    Tokens <- MCTokens
    Bodies <- MCBodies
    ShortTokens <- MCNoTokens
    RejectedTitles <- MCNoTitles
    BatchThreshold = 2
    RepeatedTitles <- MCNoTitles
    RefusedTokens <- MCNoTokens
    LongestRead = 3
    MaxRunDocs = 3
    MaxRuns = 2
INVARIANTS TypeOK IndexReflectsDocuments NothingLostInFlight EncoderStaysInDomain
PROPERTIES RunsEnd ImplementsSearchIndex
CHECK_DEADLOCK FALSE
