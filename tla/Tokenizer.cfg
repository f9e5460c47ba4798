SPECIFICATION SplitSpec
CONSTANTS
    N = 2
    Latin <- MCLatin
    Ignored <- MCIgnored
    Other <- MCOther
    Encoding <- MCEncoding
    Texts <- MCTexts
INVARIANTS ExcerptIsFound EverythingIsIndexed TokensArePieces
CHECK_DEADLOCK FALSE
