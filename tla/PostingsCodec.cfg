SPECIFICATION Spec
CONSTANTS
    ByteBits = 8
    IntBytes = 1
    PositionSets <- MCPositionSets
    MaxId = 5
INVARIANTS StoredIsList WholeBytesAreRead
CHECK_DEADLOCK FALSE
