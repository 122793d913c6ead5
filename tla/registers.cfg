SPECIFICATION RegistersSpec
CONSTANTS
    fcs = fcs
    ovf = ovf
    Flags = {fcs, ovf}
    Width = 4
    MaxFrames = 6
    MaxSpells = 3
    r1 = r1
    r2 = r2
    r3 = r3
    w1 = w1
    w2 = w2
    w3 = w3
    None = None
    Cmds = {r1, r2, r3, w1, w2, w3}
    Reads = {r1, r2, r3}
    Drivers = {"linux", "baremetal"}
    Careful = TRUE
INVARIANTS
    CountsTrue
    OutcomeTrue
PROPERTIES
    BusRecovers
