\* main is not the first instruction.  The system really may stop: the user
\* or GDB may send nothing more.
CONSTANTS
    CodeSize = 2
    DataSize = 2
    MainAddress = 1
    TraceSize = 3
    MaxPackets = 3
    MaxBreaks = 1
SPECIFICATION Spec
INVARIANTS NoReasonOverrun TraceIsHistory
PROPERTIES NoStopUnasked BreakRequestStops
CHECK_DEADLOCK FALSE
