SPECIFICATION HalfSpec
CONSTANTS
    Tried <- MCTried
    MaxFaults = 1
    MaxCalls = 7
CHECK_DEADLOCK FALSE
INVARIANTS ResultTrue NoClash ProbesRight
PROPERTIES Returns
