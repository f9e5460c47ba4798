SPECIFICATION Spec
CONSTANTS
    a = a
    b = b
    c = c
    NoToken = NoToken
    Tokens <- MCTokens
    ShortTokens <- MCShortTokens
    Bodies <- MCBodies
    Queries <- MCQueries
    K = 3
    MaxPublished = 2
INVARIANTS OrFindsUnion
CHECK_DEADLOCK FALSE
