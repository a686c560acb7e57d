CONSTANTS
    Decls <- MCDecls
    Lines <- MCLines
    Schemas <- MCSchemas
    Inputs <- MCInputs
    MaxLines = 4
SPECIFICATION Spec
INVARIANTS
    TypeOK
    NoPanic
    RecDoneNeverFails
    OpenChainLive
    OccursHonoured
    ReturnedTargetIntact
    AgreesWithDescent
    AcceptedFileConforms
PROPERTY ReadTerminates
