CONSTANTS
    MAX_BBS_MESSAGES = 2
    USIZE_MAX = 10
    Inputs <- AllInputs
    Points <- SmallPoints
    Identity <- ZeroPoint
    Messages <- SmallMessages
SPECIFICATION Spec
INVARIANTS
    ReadsStayInBounds
    EntriesInOrder
    AcceptedIsCanonical
    EncodingsAreAccepted
\* A decoding call returns: a finished state has no successor.
CHECK_DEADLOCK FALSE
