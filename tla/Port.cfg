SPECIFICATION PortSpec
CONSTANTS
    Size = 6
    Requests <- Binary
    OtherBytes <- Remotes
    MaxSessions = 3
    Versions <- MCVersions
    MaxMsg = 52
    WriteHead = 34
    Chunk = 2
    MaxAddr = 27
    Transfers <- MCTransfers
    Cycles <- MCCycles
    MaxCalls = 4
    MaxUpsets = 1
CHECK_DEADLOCK FALSE
INVARIANTS DeliveredWasSent ReplyMatches AnswersPaired CallTrue
PROPERTIES PortAnswers
