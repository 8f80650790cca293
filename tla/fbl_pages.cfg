SPECIFICATION Spec
CONSTANTS
    Begin = 2
    Extent = 8
    WordMod = 16
    MaxLen = 1
INVARIANTS
    TypeOK
    NoFalseExhaustion
    NoLeak
PROPERTY AllocatorSpec
