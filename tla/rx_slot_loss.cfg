SPECIFICATION Spec
CONSTANTS
    b1 = b1
    b2 = b2
    b3 = b3
    None = None
    RxRing = 2
    Skbs = {b1, b2, b3}
    Budget = 2
    ResubmitMayFail = TRUE
SYMMETRY RxSymmetry
INVARIANTS
    AllSlotsServed
