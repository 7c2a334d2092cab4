\* The program as built: no console thread, single-frame packets only.
SPECIFICATION FairSpec
CONSTANTS
    Period <- SessionPeriod
    Tolerate = 3
    Poll = 1
    PollMax = 2
    Commands <- NoCommands
    Multipacket = FALSE
INVARIANTS
    TypeOK
    MutedOnlyAtEnd
    MutedSendsNothing
PROPERTIES
    SessionImplemented
    OverlayEnds
    HeartbeatFlows
    ConnectionAnswered
