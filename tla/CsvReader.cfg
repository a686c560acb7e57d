SPECIFICATION Spec
CONSTANTS
    MaxLines = 5
    Width <- WidthVal
    Upto <- UptoVal
    Inputs <- InputsVal
    Formats <- FormatsVal
INVARIANTS TypeOK BufferAligned
PROPERTY Implements
CHECK_DEADLOCK FALSE
