\* The program as built, on a bus whose writes may fail.
SPECIFICATION WriteSpec
CONSTANTS
    Period <- MCPeriod
    Tolerate = 6
    Poll = 2
    PollMax = 3
    Commands <- NoCommands
    Multipacket = FALSE
    UnsignedRange = 8
    FrameSize = 3
    Datalen <- MCDatalen
PROPERTIES
    DoneMeansSent
