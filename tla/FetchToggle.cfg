\* Software switches the predictor off, rewrites text, and switches it on again.
SPECIFICATION Spec
CONSTANTS
    Words = 3
    Texts <- TwoTexts
    Faults = {}
    Entries = {0, 3}
    Tops = {0, 2, 3}
    BtbDepth = 1
    IsbS0S1 = 2
    IsbS1S2 = 1
    Toggle = TRUE
INVARIANTS FollowsProgram
