\* Two one-bit cells; 6 and 5 stand for 48000 and 25000 ticks.
CONSTANTS
    Addresses = {1, 2}
    Bits = {0}
    ReadTicks = 4
    EnableTicks = 4
    AtomicTicks = 6
    PartTicks = 5
    MaxCycles = 2
SPECIFICATION FairSpec
INVARIANTS TimerRunsWhileBusy BusyIsVisible ReadStallCoversAccess
PROPERTIES WriteWindow ProgrammingEnds
