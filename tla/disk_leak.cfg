SPECIFICATION MCSpec
CONSTANTS
    NPages = 5
    PageSize = 2
    CacheSize = 2
    Byte = {0}
    Sizes = {1, 2}
    WordMod = 64
PROPERTY FreePagesSurvive
