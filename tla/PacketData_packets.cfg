\* The operator goes back to the version and the parameters, and starts.
SPECIFICATION Spec
CONSTANTS
    Versions <- SomeVersions
    Statuses <- SomeStatuses
    Ports <- SomePorts
    Reports <- SomeReports
    Meters <- SomeMeters
    Times <- SomeTimes
    Commands <- SomeCommands
INVARIANTS
    TypeOK
    AcksSaySuccess
    PortSurvivesHeartbeat
    HeartbeatIsText
    ClockIsBinary
    ConversionsInverse
PROPERTIES
    VersionVerdict
