SPECIFICATION FairSpec
CONSTANTS
    f1 = f1
    f2 = f2
    f3 = f3
    None = None
    Frames = {f1, f2, f3}
    Ring = 3
    WakeThresh = 2
    Wrap = 6
    DrainMayTimeOut = TRUE
INVARIANTS
    TransmitConsistent
    QueueTrue
    NoOops
    CompletionsMatchRing
    ClosedHoldsNothing
PROPERTIES
    RingIsFifo
    FramesFreed
    QueueWoken
    ControlReturns
