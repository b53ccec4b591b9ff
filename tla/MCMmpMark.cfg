\* A mounter and a checker, against acquire's "nobody raced us".
SPECIFICATION Spec
CONSTANTS
    Hosts = {h1, c1}
    Checkers = {c1}
    Seq = {s1, s2, s3, s4}
    SEQ_CLEAN = SEQ_CLEAN
    SEQ_FSCK = SEQ_FSCK
    UnknownSeq = UnknownSeq
    None = None
    UpdateInterval = 1
    MinCheck = 1
    WaitCap = 3
    Promises = {0, 2}
    Delay = 1
INVARIANT
    CheckerHoldsAlone
