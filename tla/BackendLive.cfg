\* Default buffer sizes, as many ids as slots; every rule that stays ready fires.
SPECIFICATION FairSpec
CONSTANTS
    x0 = x0  r1 = r1  v1 = v1  v2 = v2  nv = nv
    Regs = {x0, r1}
    Vals = {v1}
    NoVal = nv
    Instrs <- LiveInstrs
    IsbS3S4 = 2
    IsbS4S5 = 2
    IdSpace = 4
    NoWawStalls = TRUE
    Spfpu = FALSE
PROPERTIES Stage3Progress StallEnds
