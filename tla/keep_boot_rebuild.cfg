SPECIFICATION Spec
CONSTANTS
    Designs <- MicroBlazeOnly
    MaxBuilds = 2
    MaxRevs = 1
    None = None
    Partial = Partial
    Dies = {}
    PlanMayAge = FALSE
INVARIANTS
    AllIsNoOp
