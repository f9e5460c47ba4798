SPECIFICATION FairSpec
CONSTANTS
    Bases <- MCBases
    PositionLists <- MCPositionLists
INVARIANTS TypeOK NoStartIsPassed CountsOccurrences
PROPERTIES Ends
CHECK_DEADLOCK FALSE
