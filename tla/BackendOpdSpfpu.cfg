\* Operand d in a build with both spfpu and psimd.
SPECIFICATION Spec
CONSTANTS
    x0 = x0  r1 = r1  v1 = v1  v2 = v2  nv = nv
    Regs = {x0, r1}
    Vals = {v1, v2}
    NoVal = nv
    Instrs <- SimdInstrs
    IsbS3S4 = 2
    IsbS4S5 = 2
    IdSpace = 4
    NoWawStalls = TRUE
    Spfpu = TRUE
SYMMETRY Symm
INVARIANT OpdFresh
