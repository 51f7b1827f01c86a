SPECIFICATION FairLoaderSpec
CONSTANTS
    Flashes = 2
    Start <- TwoStarts
    Length <- TwoLengths
    BlockSize <- TwoBlocks
    BufSize = 4
    WriteSize = 2
    MaxAddr = 12
    Ranges <- SomeRanges
    Data <- TwoData
    Faults <- SomeFaults
    Images <- SomeFiles
    CHUNK = 2
INVARIANTS BufferWindow NoBadAccess CompletedIsProgrammed CompleteLeavesIdle LoadedIsFile
PROPERTIES LoadEnds
