SPECIFICATION ConfigSpec
CONSTANTS
    Files <- MCUnreported
    Spare <- MCSpare
    UintBits = 16
    Bases = {}
INVARIANT EveryProblemReported
CHECK_DEADLOCK FALSE
