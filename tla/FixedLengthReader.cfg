SPECIFICATION Spec
CONSTANTS
    MaxLines = 4
    Blank = "blank"
    Width <- WidthVal
    Inputs <- InputsVal
    Formats <- FormatsVal
INVARIANTS TypeOK BufferIntact
PROPERTY Implements
CHECK_DEADLOCK FALSE
