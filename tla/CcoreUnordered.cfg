\* Two lines of one region, behind a fabric that orders reads and writes no further than AXI4.
SPECIFICATION Spec
CONSTANTS
    Lines = {0, 1}
    LinesPerRegion = 2
    DBLOCKS = 3
    BeatBits = 64
    ShiftMod = 256
    Depth = 2
    MaxVer = 2
    MaxIo = 1
    OrderedFabric = FALSE
INVARIANT FillReturnsLastWrite
CHECK_DEADLOCK FALSE
