\* Every kind of instruction on one register; rename ids (no_wawstalls).
SPECIFICATION Spec
CONSTANTS
    x0 = x0  r1 = r1  v1 = v1  v2 = v2  nv = nv
    Regs = {x0, r1}
    Vals = {v1, v2}
    NoVal = nv
    Instrs <- OneReg
    IsbS3S4 = 2
    IsbS4S5 = 1
    IdSpace = 4
    NoWawStalls = TRUE
    Spfpu = FALSE
SYMMETRY Symm
INVARIANTS TypeOK LocksOwned IdsDistinct OperandsFresh OpdFresh EpochsTellWrongPath
PROPERTY RetireInOrder
