SPECIFICATION FairSpec
CONSTANTS
    Commands <- StartAndStop
    MaxCommands = 1
INVARIANTS
    TypeOK
    MutedAfterReport
PROPERTIES
    Settles
    StopPrevails
