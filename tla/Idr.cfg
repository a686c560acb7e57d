CONSTANTS
    Nodes = {n1, n2, n3, n4}
    Procs = {p, q}
    Nil = nil
    MaxID = 5
SPECIFICATION Spec
INVARIANTS
    TypeOK
    LinksAgree
    PoolClean
    RecycleOwn
PROPERTY IDsNeverReused
SYMMETRY Symmetry
CHECK_DEADLOCK FALSE
