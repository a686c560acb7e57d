SPECIFICATION Spec
CONSTANTS
    Scripts <- MCScripts
    Args <- MCArgs
    Names <- MCNames
    Texts = {"s", "t"}
    MaxID = 5
INVARIANTS
    NodeIsCurrent
CHECK_DEADLOCK FALSE
