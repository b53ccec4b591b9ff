\* Mounters only; an earlier holder may have promised a longer interval than the superblock's.
SPECIFICATION Spec
CONSTANTS
    Hosts = {h1, h2, h3}
    Checkers = {}
    Seq = {s1, s2, s3, s4, s5}
    SEQ_CLEAN = SEQ_CLEAN
    SEQ_FSCK = SEQ_FSCK
    UnknownSeq = UnknownSeq
    None = None
    UpdateInterval = 1
    MinCheck = 1
    WaitCap = 3
    Promises = {0, 2}
    Delay = 1
SYMMETRY Symmetry
INVARIANTS
    TypeOK
    Exclusive
    HeldIsMarked
