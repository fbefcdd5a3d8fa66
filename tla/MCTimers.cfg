\* TIFR1 and TIFR0 cleared by stores; sources enabled together, alone or not at all.
CONSTANTS
    NumVectors = 4
    NoVector = 7
    ByteSize = 2
    Dividers = {1, 2}
    WGMWritten <- MCModes
    LowWritten = {0, 1}
    Vec <- MCVec
    TifrValues = {{}}
    TimskValues = {{"OCF1A"}, {"TOV1", "OCF1A", "ICF1"}}
    CountSize = 4
    Dividers0 = {1, 2}
    Vec0 <- MCVec0
    Modes0 <- MCModes0
    Counts0 = {0, 1, 2, 3}
    TifrValues0 = {{}}
    TimskValues0 = {{}, {"OCF0A"}, {"TOV0", "OCF0A", "OCF0B"}}
SPECIFICATION MCSpec
INVARIANTS RequestsMatchFlags CountsEveryClock Requests0MatchFlags
PROPERTIES KeepsFiring MaskedStaysQuiet KeepsFiring0
