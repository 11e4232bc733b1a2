\* Two lines in a region each, three beats, two slots per channel, behind an
\* ordered fabric; every rule that stays ready fires.
SPECIFICATION FairSpec
CONSTANTS
    Lines = {0, 1}
    LinesPerRegion = 1
    DBLOCKS = 3
    BeatBits = 64
    ShiftMod = 256
    Depth = 2
    MaxVer = 1
    MaxIo = 1
    OrderedFabric = TRUE
INVARIANTS BurstInv WriteBeatsMatch EvictionsReachMemory FillReturnsLastWrite IoAnswersMatch
PROPERTY RequestsComplete
CHECK_DEADLOCK FALSE
