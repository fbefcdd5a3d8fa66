\* Three vectors (vector addresses 0, 2, 4), two frames, one cycle per table entry.
CONSTANTS
    NumVectors = 3
    NoVector = 7
    ByteSize = 3
    CodeSize = 5
    MaxDepth = 2
    MaxCycles = 1
    NoEvent = NoEvent
SPECIFICATION FairSpec
INVARIANTS PromptDelivery StackHoldsFrames EveryCycleClocked
PROPERTIES ReturnsToCaller KeepsPromise WakesUp
