\* A file with an attribute block, against "Repair writes only what a pass proved wrong".
SPECIFICATION Spec
CONSTANTS
    Ino <- MCIno
    FirstIno = 4
    Root = 2
    Resize = 3
    Journal = 1
    OrphanFile = 7
    blocks_count = 13
    MetaRuns <- MCMetaRuns
    None = None
    Images <- Attributed
    Modes = {"repair"}
    Forced = {TRUE}
    MaxChecks = 1
    MaxCrashes = 0
CHECK_DEADLOCK FALSE
INVARIANT
    UsedBlocksStay
