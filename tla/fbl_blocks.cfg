SPECIFICATION ForceSpec
CONSTANTS
    Begin = 2
    Extent = 7
    WordMod = 16
    MaxLen = 4
INVARIANTS
    ListSound
    NoDoubleAllocation
