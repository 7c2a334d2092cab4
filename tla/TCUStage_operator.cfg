\* The console thread running, and the charger using multi-packet transfers.
SPECIFICATION Spec
CONSTANTS
    Period <- OperatorPeriod
    Tolerate = 2
    Poll = 0
    PollMax = 1
    Commands <- MenuCommands
    Multipacket = TRUE
INVARIANTS
    PhaseKept
    SilenceWithinLimit
PROPERTIES
    FreshTimeout
    TimeoutNamesPhase
    OperatedImplemented
