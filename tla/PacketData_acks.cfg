\* A charge that is started by the operator.
SPECIFICATION Spec
CONSTANTS
    Versions <- SomeVersions
    Statuses <- SomeStatuses
    Ports <- SomePorts
    Reports <- SomeReports
    Meters <- SomeMeters
    Times <- SomeTimes
    Commands <- OnlyStart
INVARIANTS
    StartAckSaysSuccess
