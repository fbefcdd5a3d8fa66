\* A fragment ends with its last instruction, a look-up with its word printed.
CONSTANTS
    ByteHalf = 4
    MaxImmediate = 7
    Second = 12345
SPECIFICATION MCSpec
CHECK_DEADLOCK FALSE
INVARIANTS
    WordResult BranchDecides ProductResult
    OperandsFresh EveryBitCounts AdvancesPastOperands ListedAsExecuted
