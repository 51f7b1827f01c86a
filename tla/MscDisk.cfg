CONSTANTS
    LBAs <- MCLBAs
    MSC_CACHE_SECTORS = 2
    Parts = {p1, p2}
    PartlyWritten <- MCPartly
    Data = {blank, d}
    AppData = {d}
    Blank = blank
    Erased = blank
    MaxClock = 3
SPECIFICATION Spec
SYMMETRY MCSymmetry
VIEW MCView
INVARIANTS HostReadsLastWrite CleanCacheIsOnDisk
PROPERTIES KeepsContract
