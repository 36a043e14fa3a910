\* The caller still holds an mmap block that hw_free cannot find.
SPECIFICATION Spec
CONSTANTS
    NBins = 3
    HDR = 1
    Bytes <- MCBytes
    Requests = {0, 1, 2, 4, 7, 8, 20, 127}
    MmapAddrs = {1000, 2000}
    SizeMod = 128
    FieldMod = 64
INVARIANTS
    MmapIsListed
CHECK_DEADLOCK FALSE
