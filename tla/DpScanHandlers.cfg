CONSTANTS
    Buses <- MCBuses
    MaxInst = 2
    MaxAps = 3
    MaxInvalid = 2
    ResetScans <- MCResetScans
    MaxObjs = 8
    MaxScans = 2
    MaxUpsets = 2
SPECIFICATION Spec
INVARIANT HandlersLive
CHECK_DEADLOCK FALSE
