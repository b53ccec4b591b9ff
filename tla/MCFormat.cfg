\* Filesystems of every profile and option, made and refused, with an error at any write.
SPECIFICATION FairSpec
CONSTANTS
    BlockBits = 24
    DescPerBlock = 2
    InodesPerBlock = 8
    AddrPerBlock = 3
    Slack = 3
    GrowBy = 2
    MaxCount = 200
    MinShrink = 16
    ShrinkBy = 8
    JournalFloor = 40
    JournalSize = 7
    Params <- MCParams
    NDIR = 2
    InlineMax = 2
    MaxExtent = 3
    LostFound = 2
    OrphanFloor = 110
    OrphanBlocks = 3
    OrphanMany = 16
CHECK_DEADLOCK FALSE
INVARIANTS
    TypeOK
    NothingShared
    Accounted
    MapsReadBack
    BackupsAgree
    NoStaleBytes
PROPERTY
    FormatEnds
