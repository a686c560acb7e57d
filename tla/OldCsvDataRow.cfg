SPECIFICATION Spec
CONSTANTS
    Formats <- MCCsv
    Decls <- MCDecls
    Inputs <- MCBlankLines
    MaxLineNum = 6
INVARIANTS
    DataFromItsLine
CHECK_DEADLOCK FALSE
