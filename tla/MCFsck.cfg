\* A sound filesystem, every fault alone and two repairs at once, checked twice in every mode.
SPECIFICATION Spec
CONSTANTS
    Ino <- MCIno
    FirstIno = 4
    Root = 2
    Resize = 3
    Journal = 1
    OrphanFile = 7
    blocks_count = 13
    MetaRuns <- MCMetaRuns
    None = None
    Images <- MCImages
    Modes = {"check", "preen", "repair"}
    Forced = {TRUE, FALSE}
    MaxChecks = 2
    MaxCrashes = 1
CHECK_DEADLOCK FALSE
INVARIANTS
    TypeOK
    MarkedCleanIsRight
    RepairConverges
    WrongIsNotSkipped
    HaltLeavesAsFound
    RunsAreExact
    UsedBlocksStay
