SPECIFICATION WaySpec
CONSTANTS
    Transports = {"swd", "jtag", "emu"}
    Page = 8
    MaxAddr = 12
    Unmapped <- MCUnmapped
    Lens <- MCLens
    MaxHits = 1
    MaxOps = 2
    ArTop = 17
    ArStarts = {0, 1, 2, 3}
    ArLens = {1, 2, 3, 4, 7, 12, 14}
    ArBad = {9}
    MaxWrites = 1
INVARIANTS TransferExact WriteContained WindowTrue ArTransferExact FaultRegsKept
