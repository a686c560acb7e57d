CONSTANTS
    Decls <- MCDecls
    Names <- MCNames
    Segs <- MCSegs
    NameOf <- MCNameOf
    Present <- MCPresent
    Schemas <- MCSchemas
    Inputs <- MCInputs
    MaxSegs = 4
SPECIFICATION Spec
INVARIANTS
    NoPanic
    OpenChainLive
    ReturnedTargetIntact
    AgreesWithDescent
    AcceptedFileConforms
PROPERTY ReadTerminates
