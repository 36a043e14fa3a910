\* Four bins (a heap of 32 bytes), so that a chunk is cut over several levels;
\* requests at edges of the bins and beyond them, 127 wraps in size_t and 40
\* is an mmap area.
SPECIFICATION Spec
CONSTANTS
    NBins = 4
    HDR = 1
    Bytes <- MCBytes
    Requests = {0, 2, 4, 7, 15, 40, 127}
    MmapAddrs = {1000, 2000}
    SizeMod = 128
    FieldMod = 256
INVARIANTS
    TypeOK
    BinsSound
    Disjoint
    Tiling
    HeldBacked
    LastMergeMeansAllFree
    MappedIsHeld
PROPERTIES
    AllocatorSpec
CHECK_DEADLOCK FALSE
