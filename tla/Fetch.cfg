\* Branches that span words, text rewritten under fence.i, fewer target-buffer
\* entries than words with a branch, a faulting word; every rule that stays ready fires.
SPECIFICATION FairSpec
CONSTANTS
    Words = 3
    Texts <- TwoTexts
    Faults <- SecondWord
    Entries = {0, 3}
    Tops = {0, 2, 3}
    BtbDepth = 2
    IsbS0S1 = 2
    IsbS1S2 = 1
    Toggle = FALSE
INVARIANTS FollowsProgram BtbOneHot
PROPERTY Executes
