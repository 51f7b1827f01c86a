SPECIFICATION Spec
CONSTANTS
    Files <- MCFiles
    HugeFiles <- MCHuge
    FileLen = 2
    FeatLen = 2
    BufLen = 2
    StdoutChunk = 1
    Wrap = 4
    Times <- MCTimes
    MaxFd = 4
    Stride = 5
    IdLen = 2
    HeadLen = 4
    Ram <- MCRam
    Places <- MCPlaces
    Programs <- MCPrograms
    Ranges <- MCRanges
    MaxChan = 2
    RingLen = 3
    RingAt = 5
    XmitFree = 2
    RecvLen = 3
    Packet = 1
    MaxErrs = 1
    MaxMade = 4
    MaxTyped = 3
    MaxTraffic = 4
    Polls = TRUE
    MixedCalls <- MCMixedCalls
    MaxCalls = 3
    MaxMixed = 1
    MaxEvents = 2
INVARIANTS CallsExact StopsKept
PROPERTIES RttExact 
