SPECIFICATION MCSpec
CONSTANTS N = 3 S3Depth = 2 S5Depth = 2 MaxInt = 1
  Kinds = {"ALU", "CSR", "BRANCH", "FAULT", "ILL", "WFI"}
INVARIANTS RetiresProgram DecodedFresh AgreesWithTables
  InterruptTaken ExpansionKeepsMeaning
PROPERTY ProgramAdvances
CHECK_DEADLOCK FALSE
