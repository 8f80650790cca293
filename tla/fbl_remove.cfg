SPECIFICATION RemoveSpec
CONSTANTS
    Begin = 2
    Extent = 6
    WordMod = 16
    MaxLen = 2
INVARIANT NoDoubleAllocation
CHECK_DEADLOCK FALSE
