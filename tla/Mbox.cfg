\* More operations in flight than either unit holds; every rule that stays ready fires.
\* Arithmetic on every operand pair of four bits, word operations of two.
SPECIFICATION MCSpec
CONSTANTS
    None = None
    Tokens = {t1, t2}
    MulIn = 2  MulOut = 2  DivStages = 2  IsbS3S4 = 5
    XLEN = 4  WLEN = 2  DIVSTAGES = 2  CountMod = 4
INVARIANTS TypeOK ResultsInIssueOrder NothingLost UnitsCorrect
PROPERTY MuldivCompletes
