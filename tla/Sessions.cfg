SPECIFICATION LevelSpec
CONSTANTS
    JTAG_MAX_DEVS = 3
    JTAG_MAX_IR_LEN = 5
    Kinds <- MCKinds
    Boards <- MCBoards
    HartsOf <- MCHarts
    Xlen <- MCXlen
    DataRegs = 2
    T = 2
    MaxMarks = 2
    Modes = {"break"}
    Values = {1}
    MaxAddr = 10
    Lens = {1, 3, 8}
    Bad = {9}
    MaxIdle = 2
    Upsets = {"soon", "late", "fail", "zeros", "starve"}
    Ats = {0, 3}
    MaxUpsets = 1
    MaxTargets = 3
    Users <- BothTasks
    Overlap = FALSE
INVARIANTS TypeOK CurTargetHeld LastTargetLive HostKnows
INVARIANTS ChainTrue HartsTrue RvTransfers
