SPECIFICATION Spec
CONSTANTS
    a = a
    b = b
    NULL = NULL
    Pieces <- MCPieces
    Limits <- MCLimits
    MaxPages = 2
    MaxPieces = 2
INVARIANTS PagesAreGivenWhole SuccessIsComplete BuffersFollowThePage
CHECK_DEADLOCK FALSE
