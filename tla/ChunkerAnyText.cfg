\* Every text of at most 13 runes, chunks of 5, overlaps of 2, 3 and a clamped one.
SPECIFICATION Spec
CONSTANTS
    MaxRunesArg = 5
    OverlapRunesArgs = {2, 3, 5}
    MaxSize = 13
    IDSpace = 3
INVARIANTS
    TypeOK
    NoTextLost
    WordsEndWhole
    DistinctChunks
PROPERTIES
    ShortWordsProgress
CHECK_DEADLOCK FALSE
