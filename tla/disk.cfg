SPECIFICATION MCSpec
CONSTANTS
    NPages = 3
    PageSize = 2
    CacheSize = 2
    Byte = {0, 1}
    Sizes = {1, 2}
    WordMod = 64
INVARIANTS
    TypeOK
    CacheConsistent
    SaveComplete
    PagesExclusive
PROPERTIES
    StoreSpec
    RestartSafe
