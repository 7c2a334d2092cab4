\* The program as built: no console thread, single-frame packets only.
SPECIFICATION Spec
CONSTANTS
    Period <- StarvedPeriod
    Tolerate = 6
    Poll = 2
    PollMax = 3
    Commands <- NoCommands
    Multipacket = FALSE
PROPERTIES
    DueStaysDue
