---------------------------- MODULE MCPacketData ----------------------------
(* Values of PacketData's constants for TLC. *)
EXTENDS PacketData

\* 12.10 is the unit's own; 12.00 is what it is while it is being built.
SomeVersions == { <<18, 16>>, <<18, 0>> }

\* Success, and the byte that structs are filled with.
SomeStatuses == {0, 255}

SomePorts == {0}

\* Bytes that structs are filled with as far as a success allows.
SomeReports == { <<255, 255, 0>> }

Reading(energy, minutes) == [energy |-> energy, minutes |-> minutes]

\* Two digits of one, the documented end of the other's range.
SomeMeters == { Reading(99, 6000), Reading(10000, 42) }

\* The end of a minute on a Sunday in January.
SomeTimes ==
    { [sec |-> 59, msec |-> 999, min |-> 59, hour |-> 23, wday |-> 0,
       mday |-> 31, mon |-> 0, year |-> 117] }

\* The operator goes back to version and parameters, and starts.
SomeCommands == {1, 2, 4}

OnlyStart == {4}

=============================================================================
