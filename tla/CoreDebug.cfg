SPECIFICATION Spec
CONSTANTS
    Archs = {"m", "ar", "rv"}
    a1 = a1
    a2 = a2
    Addrs = {a1, a2}
    NBreak = 1
    NWatch = 2
    MaxFaults = 1
    MaxList = 2
SYMMETRY AddrSymmetry
INVARIANTS PointsArmed DetachedRuns
PROPERTIES StopsTrue
