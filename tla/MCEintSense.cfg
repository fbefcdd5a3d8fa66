\* Interrupt enable on all lines, on one or on none; EIFR cleared by stores.
CONSTANTS
    NumVectors = 2
    NoVector = 7
    Line = {0, 1, 2}
    LineVec <- MCVec
    EicraValues <- MCEicraValues
    EimskValues = {{}, {0}, {0, 1, 2}}
    EifrValues = {{}}
    MaxCycles = 2
SPECIFICATION Spec
PROPERTIES OwnSenseDecides
