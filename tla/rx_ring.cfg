SPECIFICATION FairSpec
CONSTANTS
    b1 = b1
    b2 = b2
    b3 = b3
    b4 = b4
    None = None
    RxRing = 3
    Skbs = {b1, b2, b3, b4}
    Budget = 2
    ResubmitMayFail = TRUE
INVARIANTS
    BuffersConsistent
    NothingRunsAfterStop
    NoLostPoll
PROPERTIES
    FramesTaken
    StopReturns
