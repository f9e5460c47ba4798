SPECIFICATION FairSpec
CONSTANTS
    a = a
    b = b
    c = c
    NoToken = NoToken
    Tokens <- MCTokens
    ShortTokens <- MCShortTokens
    Bodies <- MCBodies
    Queries <- MCQueries
    K = 3
    MaxPublished = 3
INVARIANTS NothingIsMissed NothingIsInvented NoHitIsPassed ScoresAreOwn MoreOftenIsFirst
PROPERTIES QueriesEnd
CHECK_DEADLOCK FALSE
