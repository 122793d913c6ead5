SPECIFICATION PortSpec
CONSTANTS
    b1 = b1
    b2 = b2
    b3 = b3
    b4 = b4
    b5 = b5
    b6 = b6
    None = None
    Pbufs = {b1, b2, b3, b4, b5, b6}
    NRxBd = 2
    QueueLen = 3
    OthersMax = 1
    c1 = c1
    c2 = c2
    c3 = c3
    Nothing = Nothing
    Chains = {c1, c2, c3}
    Segs <- Shapes
    NTxBd = 4
SYMMETRY PbufSymmetry
INVARIANTS
    PbufsConsistent
    NeverDeaf
    ChainsConsistent
    SentNoticed
PROPERTIES
    QueueIsFifo
