\* As MCEeprom, for the comment at avr_cpu.c:157.
CONSTANTS
    Addresses = {1, 2}
    Bits = {0}
    ReadTicks = 4
    EnableTicks = 4
    AtomicTicks = 6
    PartTicks = 5
    MaxCycles = 2
SPECIFICATION Spec
INVARIANTS EveryCycleClocked
