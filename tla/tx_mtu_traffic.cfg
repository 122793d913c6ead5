SPECIFICATION Spec
CONSTANTS
    f1 = f1
    f2 = f2
    f3 = f3
    f4 = f4
    None = None
    Frames = {f1, f2, f3, f4}
    Ring = 4
    WakeThresh = 1
    Wrap = 8
    DrainMayTimeOut = TRUE
SYMMETRY FrameSymmetry
INVARIANTS
    DrainFindsQueueStopped
