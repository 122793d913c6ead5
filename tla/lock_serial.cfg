SPECIFICATION FairSpec
CONSTANTS
    p1 = p1
    p2 = p2
    p3 = p3
    Absent = Absent
    Empty = Empty
    Procs = {p1, p2, p3}
    Remote = {p3}
    MayCrash = TRUE
INVARIANTS
    OneNamedBuilder
PROPERTIES
    RunningLockNotReclaimed
    StaleLockReclaimed
    EveryRunEnds
