SPECIFICATION Spec
CONSTANTS
    MAX_HEAP = 96
    NO_FOOTER_HEAP = 72
    CHUNKSIZE = 24
    UINT_MOD = 256
    SIZE_MOD = 1024
    Requests <- Small
INVARIANTS
    WellFormed
    Held
    PrevBitSafe
PROPERTIES
    GrowsOnlyWhenFull
    ClientView
