SPECIFICATION FlowSpec
CONSTANTS
    Designs <- AllDesigns
    MaxBuilds = 3
    MaxRevs = 1
    None = None
    Partial = Partial
    Dies <- SafeDies
    PlanMayAge = FALSE
    Inputs <- AllInputs
    Generated <- VitisFiles
INVARIANTS
    WorkspaceTrue
    SkipsAreTrue
    KeptReadsAsBuilt
    ZipHoldsBoot
    RepoComplete
    AppAsConfigured
PROPERTIES
    BootBuiltFromXsa
    SparesUnfinished
