CONSTANTS
    Names <- NamesVal
    XPaths <- XPathsVal
    Inputs <- InputsVal
    MaxElems = 4
SPECIFICATION Spec
INVARIANTS
    CurLive
    OnlyStreamMatches
    CurWhileInValue
    AgreesWithDocument
