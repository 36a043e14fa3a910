\* A heap of 16 bytes; the caller writes into its blocks, or it does not.
SPECIFICATION Spec
CONSTANTS
    NBins = 3
    HDR = 1
    Bytes <- MCBytes
    Requests = {0, 1, 3, 7, 20, 30}
    MmapAddrs = {1000, 2000}
    SizeMod = 128
    FieldMod = 256
    Callers <- MCCallers
INVARIANTS
    FreeListsSound
    UsedListsSound
    LostBehindWrites
    HeldApart
PROPERTIES
    SetsSpec
CHECK_DEADLOCK FALSE
