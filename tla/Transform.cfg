SPECIFICATION Spec
CONSTANTS
    n1 = n1
    n2 = n2
    n3 = n3
    Nodes <- NodesVal
    MaxRecords = 4
    Nil = Nil
    None = None
    Failed = Failed
    EOF = EOF
    Fatal = Fatal
    Bad = Bad
INVARIANTS TypeOK NodesOwnedOnce RawRecordIsCurrent
PROPERTY Implements
