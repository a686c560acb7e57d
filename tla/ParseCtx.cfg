SPECIFICATION Spec
CONSTANTS
    Schemas <- MCSchemas
    Tree <- MCTree
    Records <- MCRecords
    Externals <- MCExternals
    Trimmed <- MCTrimmed
    Numbers <- MCNumbers
    CustomFuncs <- MCCustomFuncs
    CustomParseFuncs <- MCCustomParseFuncs
INVARIANTS
    RejectedForCause
    OutputAsDeclared
CHECK_DEADLOCK FALSE
