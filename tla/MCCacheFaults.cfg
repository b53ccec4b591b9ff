\* Every call on the inner device may fail, writes after any part of them has landed.
SPECIFICATION Spec
CONSTANTS
    DevSize = 4
    BlockSize = 3
    MaxBlocks = 1
    Batch = 1
    Byte = {0, 1, 2}
    Zero = 0
    Payload = {2}
    Images <- MCImages
    NoByte = NoByte
    Faulty = TRUE
    MaxCalls = 3
INVARIANTS
    DirtyWithinValid
    DivergenceIsReported
