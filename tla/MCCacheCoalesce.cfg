\* Three blocks of two bytes, two cached and evicted together: runs span blocks.
SPECIFICATION Spec
CONSTANTS
    DevSize = 5
    BlockSize = 2
    MaxBlocks = 2
    Batch = 2
    Byte = {0, 1, 2}
    Zero = 0
    Payload = {2}
    Images <- MCImages
    NoByte = NoByte
    Faulty = FALSE
    MaxCalls = 3
INVARIANTS
    TypeOK
    FlushDelivers
    RunIsWritten
    DeviceHasCleanBytes
PROPERTY
    ImplementsStore
