\* As MCCpu, for the comment at avr_interrupt.c:53.
CONSTANTS
    NumVectors = 3
    NoVector = 7
    ByteSize = 3
    CodeSize = 5
    MaxDepth = 2
    MaxCycles = 1
    NoEvent = NoEvent
SPECIFICATION Spec
INVARIANTS LowestIndexFirst
