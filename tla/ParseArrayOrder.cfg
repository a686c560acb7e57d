SPECIFICATION Spec
CONSTANTS
    Schemas <- MCLongArrays
    Tree <- MCTree
    Records <- MCRecords
    Externals <- MCExternals
    Trimmed <- MCTrimmed
    Numbers <- MCNumbers
    CustomFuncs <- MCCustomFuncs
    CustomParseFuncs <- MCCustomParseFuncs
INVARIANTS
    ArrayOrder
CHECK_DEADLOCK FALSE
