SPECIFICATION Spec
CONSTANTS
    p1 = p1
    p2 = p2
    Absent = Absent
    Empty = Empty
    Procs = {p1, p2}
    Remote = {}
    MayCrash = FALSE
SYMMETRY ProcSymmetry
INVARIANTS
    MutualExclusion
