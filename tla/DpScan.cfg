CONSTANTS
    Buses <- MCBuses
    MaxInst = 2
    MaxAps = 3
    MaxInvalid = 2
    ResetScans <- MCResetScans
    MaxObjs = 8
    MaxScans = 2
    MaxUpsets = 2
SPECIFICATION Spec
CHECK_DEADLOCK FALSE
INVARIANTS ObjectsHeld ScanTrue
PROPERTIES ScansEnd
