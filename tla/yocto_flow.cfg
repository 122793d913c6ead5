SPECIFICATION Spec
CONSTANTS
    Confs = {1, 2, 3}
    NoConf = {2}
    Recipes = {1, 2}
    MaxXsa = 2
    MaxChanges = 6
    None = None
    Partial = Partial
    Dies <- SafeDies
    MayRaceMarker = FALSE
    PlanMayAge = FALSE
INVARIANTS
    UpToDateIsTrue
    ZipHoldsImages
    MarkerMeansConfigured
