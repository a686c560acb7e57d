SPECIFICATION Spec
CONSTANTS
    Formats <- MCFormats
    Decls <- MCDecls
    Inputs <- MCInputs
    MaxLineNum = 6
INVARIANTS
    RowsAsDeclared
    EnvelopesTile
    TreeHoldsGlobals
PROPERTIES
    ReadReturns
CHECK_DEADLOCK FALSE
