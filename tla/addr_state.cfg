SPECIFICATION AddrFairSpec
CONSTANTS
    Wrap = 11
    PollTicks = 2
    Timeout = 4
    MaxWait = 8
INVARIANTS
    AddressAgrees
PROPERTIES
    FallbackJustified
    WaitEnds
