\* Every list, map and flag, checked twice with one power cut or device error.
SPECIFICATION FairSpec
CONSTANTS
    Ino <- MCIno
    FirstIno = 2
    Blk <- MCBlk
    Now = 99
    None = None
    Images <- MCImages
    Options = {TRUE, FALSE}
    MaxChecks = 2
    MaxCrashes = 1
CHECK_DEADLOCK FALSE
INVARIANTS
    TypeOK
    ReleaseIsComplete
    SkipIsDeserved
    KeptBlocksStay
PROPERTY
    ReleaseEnds
