\* Enough cycles for three switches with time between them.
CONSTANTS
    High = {0, 1}
    Low = {0, 1}
    Threads <- MCThreads
    Id = {0, 2}
    FlagCell = 1
    CurrentHigh = 2
    GuardCells = {1, 3}
    MaxCycles = 3
    MaxMade = 3
SPECIFICATION Spec
CHECK_DEADLOCK FALSE
INVARIANTS OnlyThreadsListed ChargedToRunner StackWatched ListedThreadsReadable
PROPERTIES NoCycleChargedTwice FlagSticks
