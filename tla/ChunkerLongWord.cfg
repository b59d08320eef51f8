\* A long word after a short one.
SPECIFICATION FairSpec
CONSTANTS
    MaxRunesArg = 4
    OverlapRunesArgs = {2}
    MaxSize = 7
    IDSpace = 6
PROPERTIES
    ChunkReturns
CHECK_DEADLOCK FALSE
