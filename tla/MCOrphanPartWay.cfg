\* Lists in order and one interruption, against "leaves the filesystem not clean".
SPECIFICATION Spec
CONSTANTS
    Ino <- MCIno
    FirstIno = 2
    Blk <- MCBlk
    Now = 99
    None = None
    Images <- InOrder
    Options = {TRUE}
    MaxChecks = 2
    MaxCrashes = 1
CHECK_DEADLOCK FALSE
INVARIANT
    PartWayIsMarked
